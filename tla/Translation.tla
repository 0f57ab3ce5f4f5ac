---------------------------- MODULE Translation ----------------------------
(***************************************************************************)
(* The sensor's messages on their way to the server: the sensor sends      *)
(* frames of tracks and velocities, the ring buffer in front of the        *)
(* translator may lose a message or have it read twice, the strategy       *)
(* translates, and the server's communicator gets the frames.  The sensor  *)
(* is external: its pixels are numbered as in the message, a track is sent *)
(* before its velocity, and no track has the undefined id.                 *)
(***************************************************************************)
EXTENDS Integers, SpiritMessage, Conversions, AccessLinkErrors

CONSTANTS TrackIds, Speeds,  \* bound: the tracks and the speeds of a sensor
          RawContents,       \* bound: what one sample of each channel may be
          MaxMessages, MaxFaults

ASSUME TranslationBounds ==
  /\ TrackIds \subseteq 0..(UNDEFINED_ID - 1)
  /\ \A speed \in Speeds : speed \in Int /\ ToInt16(speed) = speed /\ speed # 0
  /\ MaxMessages \in Nat /\ MaxFaults \in Nat

ASSUME RawDataAreInt16 ==
  \A content \in RawContents : \A i \in 1..16 : content[i] \in Int /\ ToInt16(content[i]) = content[i]

VARIABLES
  strategy,              \* "awl" or "guardian"
  inFlight,              \* what the translator has to consume
  currentOutputMessage,
  pad,                   \* the pad of the strategy's buffer that is written next
  unread,                \* the server's scheduler has not consumed it
  sent,                  \* the message sendMessage got last
  ended,                 \* the process has ended: a null pointer was followed
  rawData,               \* the cycle translated last, and what became of it
  sensorFrame, frames,   \* history: what the sensor has sent in this frame
  lastFrame, messages, faults, rejected

translatorVars == <<currentOutputMessage, pad, unread, ended, rejected>>
sensorVars == <<sensorFrame, frames, lastFrame, messages>>
vars == <<strategy, inFlight, translatorVars, sent, rawData, sensorVars, faults>>

END_OF_FRAME == 9
DETECTION_TRACK == 10
DETECTION_VELOCITY == 11

(* A message of the sensor: its id and its eight bytes. *)
AWLMessage(id, data) == [id |-> id, data |-> data]

Low(n) == n % 256
High(n) == (n \div 256) % 256

TrackMessage(trackId, pixelId) ==
  AWLMessage(DETECTION_TRACK, <<Low(trackId), High(trackId), 0, Low(pixelId), High(pixelId), 90,
                                Low(2048), High(2048)>>)

VelocityMessage(trackId, speed) ==
  AWLMessage(DETECTION_VELOCITY, <<Low(trackId), High(trackId), Low(300), High(300),
                                   Low(speed), High(speed), Low(-1), High(-1)>>)

EndOfFrameMessage(messageId) ==
  AWLMessage(END_OF_FRAME, <<Low(messageId), High(messageId), Low(16), High(16), 0, 0, 0, 0>>)

UnrecognizedMessage == AWLMessage(87, [i \in 1..8 |-> 0])

PixelIds == 0..(NUMBER_OF_PIXELS - 1)
EmptyFrame == [p \in PixelIds |-> <<>>]

CHANNEL_POSITIONS == <<8, 0, 9, 1, 10, 2, 11, 3, 12, 4, 13, 5, 14, 6, 15, 7>>

Init ==
  /\ strategy \in {"awl", "guardian"} /\ inFlight = <<>>
  /\ currentOutputMessage = DEFAULT_SENSOR_MESSAGE
  /\ pad = DEFAULT_SENSOR_MESSAGE /\ unread = FALSE
  /\ sent = DEFAULT_SENSOR_MESSAGE /\ ended = FALSE
  /\ rawData = [given |-> <<>>, translated |-> <<>>]
  /\ sensorFrame = EmptyFrame /\ frames = 0 /\ lastFrame = EmptyFrame
  /\ messages = 0 /\ faults = 0 /\ rejected = FALSE

-----------------------------------------------------------------------------
(* The sensor, and the buffer between it and the translator. *)

IsTracked(trackId) ==
  \E p \in PixelIds : \E i \in DOMAIN sensorFrame[p] : sensorFrame[p][i].id = trackId

CountMessage == messages < MaxMessages /\ messages' = messages + 1

Send(message) == inFlight = <<>> /\ inFlight' = <<message>> /\ CountMessage

SendTrack ==
  /\ \E trackId \in TrackIds, p \in PixelIds :
       /\ ~IsTracked(trackId)
       /\ Send(TrackMessage(trackId, p))
       /\ sensorFrame' = [sensorFrame EXCEPT ![p] = Append(@, [id |-> trackId, speed |-> 0])]
  /\ UNCHANGED <<strategy, translatorVars, sent, rawData, frames, lastFrame, faults>>

SendVelocity ==
  /\ \E p \in PixelIds, speed \in Speeds : \E i \in DOMAIN sensorFrame[p] :
       /\ sensorFrame[p][i].speed = 0
       /\ Send(VelocityMessage(sensorFrame[p][i].id, speed))
       /\ sensorFrame' = [sensorFrame EXCEPT ![p][i].speed = speed]
  /\ UNCHANGED <<strategy, translatorVars, sent, rawData, frames, lastFrame, faults>>

(* Bound: the server has the last frame before the sensor ends another. *)
SendEndOfFrame ==
  /\ ~unread
  /\ frames' = frames + 1 /\ Send(EndOfFrameMessage(frames'))
  /\ lastFrame' = sensorFrame /\ sensorFrame' = EmptyFrame
  /\ UNCHANGED <<strategy, translatorVars, sent, rawData, faults>>

SendUnrecognized ==
  /\ Send(UnrecognizedMessage)
  /\ UNCHANGED <<strategy, translatorVars, sent, rawData, sensorFrame, frames, lastFrame, faults>>

(* A message is lost, or read twice. *)
Fault ==
  /\ Len(inFlight) = 1 /\ faults < MaxFaults /\ faults' = faults + 1
  /\ inFlight' \in {<<>>, inFlight \o inFlight}
  /\ UNCHANGED <<strategy, translatorVars, sent, rawData, sensorVars>>

-----------------------------------------------------------------------------
(* The strategies.  Bytes are numbered from 0 there and from 1 here. *)

Unsigned(message, i) ==
  ConvertTwoBytesToUnsignedBigEndian(message.data[i + 1], message.data[i + 2])

Signed(message, i) ==
  ConvertTwoBytesToSignedBigEndian(message.data[i + 1], message.data[i + 2])

(* The AWL's lengths are in centimeters, and its intensity in 1/1024. *)
InMeters(s, n) == IF s = "awl" THEN <<n, 100>> ELSE <<n, 1>>
ConvertIntensityToSNR(n) == <<n - 21 * 2048, 2048>>
Intensity(s, n) == IF s = "awl" THEN ConvertIntensityToSNR(n) ELSE <<n, 1>>

TrackOf(s, message) ==
  Track(Unsigned(message, 0), message.data[6], Intensity(s, Unsigned(message, 6)), Zero, Zero, Zero)

(* addTrackInPixel: the pixel gets its id before the track is refused. *)
TranslateDetectionTrackMessage(message) ==
  LET pixelId == Unsigned(message, 3)
      updated == UpdatePixelId(currentOutputMessage, pixelId)
      full == IsFull(updated.pixels[pixelId + 1])
  IN  /\ currentOutputMessage' =
           IF full THEN updated ELSE AddTrackToPixelWithId(updated, pixelId, TrackOf(strategy, message))
      /\ rejected' = (rejected \/ full)
      /\ UNCHANGED <<pad, unread, ended>>

PixelsWith(trackId) ==
  {p \in 1..NUMBER_OF_PIXELS : DoesTrackExist(currentOutputMessage.pixels[p], trackId)}

(* Faulty: the slot is one past the track's. *)
FetchTrackAfterLast(trackId) ==
  IF PixelsWith(trackId) = {} THEN <<>>
  ELSE LET p == Min(PixelsWith(trackId))
           slot == FetchTrackById(currentOutputMessage.pixels[p], trackId)
       IN  <<p, (slot % NUMBER_OF_TRACKS_IN_PIXEL) + 1>>

(* Where the track is, in the first pixel that has it; <<>> for nullptr. *)
FetchTrack(trackId) ==
  IF PixelsWith(trackId) = {} THEN <<>>
  ELSE LET p == Min(PixelsWith(trackId))
       IN  <<p, FetchTrackById(currentOutputMessage.pixels[p], trackId)>>

Measure(s, message) ==
  [distance |-> InMeters(s, Unsigned(message, 2)), speed |-> InMeters(s, Signed(message, 4)),
   acceleration |-> InMeters(s, Signed(message, 6))]

Measured(track, m) ==
  [track EXCEPT !.distance = m.distance, !.speed = m.speed, !.acceleration = m.acceleration]

(* fetchTrack's nullptr is followed, which ends the process. *)
TranslateDetectionVelocityMessage(message) ==
  LET at == FetchTrack(Unsigned(message, 0))
  IN  /\ IF at = <<>> THEN ended' = TRUE /\ UNCHANGED currentOutputMessage
         ELSE /\ currentOutputMessage' =
                   [currentOutputMessage EXCEPT
                     !.pixels[at[1]].tracks[at[2]] = Measured(@, Measure(strategy, message))]
              /\ UNCHANGED ended
      /\ UNCHANGED <<pad, unread, rejected>>

(* Faulty: the message that was produced is still the current one. *)
TranslateEndOfFrameWithoutReset(message) ==
  /\ currentOutputMessage' = [currentOutputMessage EXCEPT
       !.messageId = Unsigned(message, 0), !.sensorId = Unsigned(message, 2)]
  /\ pad' = Assign(pad, currentOutputMessage') /\ unread' = TRUE
  /\ UNCHANGED <<ended, rejected>>

(* The pad gets a copy, and the current message is the default again. *)
TranslateEndOfFrameMessage(message) ==
  /\ pad' = Assign(pad, [currentOutputMessage EXCEPT
       !.messageId = Unsigned(message, 0), !.sensorId = Unsigned(message, 2)])
  /\ currentOutputMessage' = Assign(currentOutputMessage, DEFAULT_SENSOR_MESSAGE)
  /\ unread' = TRUE
  /\ UNCHANGED <<ended, rejected>>

(* By its id: one that is not recognized is thrown. *)
TranslateById(message) ==
  \/ message.id = END_OF_FRAME /\ TranslateEndOfFrameMessage(message)
  \/ message.id = DETECTION_TRACK /\ TranslateDetectionTrackMessage(message)
  \/ message.id = DETECTION_VELOCITY /\ TranslateDetectionVelocityMessage(message)
  \/ /\ message.id \notin {END_OF_FRAME, DETECTION_TRACK, DETECTION_VELOCITY}
     /\ UNCHANGED translatorVars

(* consume of DataTranslator: what a strategy throws becomes an error of   *)
(* its own, and the message is dropped.                                    *)
TranslateMessage ==
  /\ inFlight # <<>> /\ inFlight' = Tail(inFlight)
  /\ TranslateById(Head(inFlight))
  /\ UNCHANGED <<strategy, sent, rawData, sensorVars, faults>>

(* consume(Message) of ServerCommunicator gets a copy of what is in the    *)
(* pad, and adds a time point.                                             *)
SendMessage ==
  /\ unread /\ unread' = FALSE
  /\ LET message == Copy(pad)
         timestamps == message.timeTracking.gatewayTimestamps
     IN  sent' = IF IsFullOfTimePoints(timestamps) THEN sent
                 ELSE [message EXCEPT !.timeTracking =
                        AddTimePointForGateway(@, "ServerCommunicator:Transmission")]
  /\ UNCHANGED <<strategy, inFlight, currentOutputMessage, pad, ended, rejected, rawData,
                 sensorVars, faults>>

(* Faulty: each channel is copied to its position instead of from it. *)
OrderRawDataToPositions(content) ==
  [channel \in 1..Len(CHANNEL_POSITIONS) |->
     content[CHOOSE i \in 1..Len(CHANNEL_POSITIONS) : CHANNEL_POSITIONS[i] + 1 = channel]]

(* The channels in their order, one sample each. *)
OrderRawData(content) ==
  [channel \in 1..Len(CHANNEL_POSITIONS) |-> content[CHANNEL_POSITIONS[channel] + 1]]

ReverseRawDataEndianness(content) == [i \in DOMAIN content |-> ReverseEndiannessOfInt16(content[i])]

(* The AWL's strategy does nothing. *)
TranslateRawData ==
  /\ strategy = "guardian" /\ CountMessage
  /\ \E content \in RawContents :
       rawData' = [given |-> content, translated |-> ReverseRawDataEndianness(OrderRawData(content))]
  /\ UNCHANGED <<strategy, inFlight, translatorVars, sent, sensorFrame, frames, lastFrame,
                 faults>>

Next ==
  /\ ~ended
  /\ \/ SendTrack \/ SendVelocity \/ SendEndOfFrame \/ SendUnrecognized \/ Fault
     \/ TranslateMessage \/ SendMessage \/ TranslateRawData

Spec == Init /\ [][Next]_vars

-----------------------------------------------------------------------------

(* The messages keep the shape of their arrays: no counter passes its       *)
(* pixel's capacity, and a pixel has its own id or none.                   *)
TranslationTypeOK ==
  /\ Len(inFlight) <= 2 /\ faults \in 0..MaxFaults /\ messages \in 0..MaxMessages /\ frames <= messages
  /\ \A m \in {currentOutputMessage, pad, sent} : \A p \in 1..NUMBER_OF_PIXELS :
       /\ m.pixels[p].currentNumberOfTracksInPixel \in 0..NUMBER_OF_TRACKS_IN_PIXEL
       /\ m.pixels[p].id \in {UNDEFINED_ID, p - 1}
       /\ DOMAIN m.pixels[p].tracks = 1..NUMBER_OF_TRACKS_IN_PIXEL

(* A velocity finds the track its sensor sent before it, unless a message   *)
(* was lost or read twice, or the pixel of a track was full: then the      *)
(* process follows a null pointer.                                         *)
VelocityFindsItsTrack == ended => faults > 0 \/ rejected

(* What the server gets of a frame the sensor sent. *)
Expected(frame) ==
  [p \in 1..NUMBER_OF_PIXELS |->
     [i \in DOMAIN frame[p - 1] |->
        [id |-> frame[p - 1][i].id,
         speed |-> IF frame[p - 1][i].speed = 0 THEN DEFAULT_TRACK.speed
                   ELSE InMeters(strategy, frame[p - 1][i].speed)]]]

Received(message) ==
  [p \in 1..NUMBER_OF_PIXELS |->
     [i \in DOMAIN Detections(message.pixels[p]) |->
        [id |-> message.pixels[p].tracks[i].id, speed |-> message.pixels[p].tracks[i].speed]]]

(* From sensor to server: unless a message was lost, read twice or refused, *)
(* each frame that is sent holds the tracks the sensor put in that frame,  *)
(* with their speeds, and no other; and it leaves with one time point.     *)
FramesAreWhole ==
  [][sent' # sent /\ faults = 0 /\ ~rejected =>
       /\ sent'.messageId = frames % 65536 /\ Received(sent') = Expected(lastFrame)
       /\ Len(sent'.timeTracking.gatewayTimestamps.timePoints) = 1]_vars

(* The bytes of a number exchanged. *)
Exchanged(n) == ToInt16((n % 256) * 256 + ((n \div 256) % 256))

(* "Guardian sends little-endian raw data. They should become big-endian":  *)
(* every sample is in its channel's place, its two bytes exchanged.        *)
RawDataBecomeBigEndian ==
  \A i \in DOMAIN rawData.translated :
    rawData.translated[i] = Exchanged(rawData.given[CHANNEL_POSITIONS[i] + 1])

(* What becomes of them: a sample arrives in its channel's place, its high  *)
(* byte now the low one, and its low byte now the high one if it is not    *)
(* negative; the high byte of a negative one is 0xFF, its low byte lost.   *)
OnlySignsAreLost ==
  \A i \in DOMAIN rawData.translated :
    LET sample == rawData.given[CHANNEL_POSITIONS[i] + 1]
    IN  /\ Low(rawData.translated[i]) = High(sample)
        /\ High(rawData.translated[i]) = IF sample >= 0 THEN Low(sample) ELSE 255

-----------------------------------------------------------------------------

Strategies == {"awl", "guardian"}
SentTracks == {TrackOf(s, TrackMessage(trackId, 0)) : s \in Strategies, trackId \in TrackIds}
SentMeasures == {Measure(s, VelocityMessage(0, speed)) : s \in Strategies, speed \in Speeds}

Frames == INSTANCE FrameAssembly WITH
  Pixels <- 1..NUMBER_OF_PIXELS, Capacity <- NUMBER_OF_TRACKS_IN_PIXEL,
  Tracks <- SentTracks, Measures <- SentMeasures, Ids <- 0..UNDEFINED_ID,
  assembling <- [p \in 1..NUMBER_OF_PIXELS |-> Detections(currentOutputMessage.pixels[p])],
  produced <- [id |-> pad.messageId,
               detections |-> [p \in 1..NUMBER_OF_PIXELS |-> Detections(pad.pixels[p])]]

(* Pixels of slots and counters assemble frames as FrameAssembly says,      *)
(* whatever is lost or repeated: no track of one frame is in the next.     *)
FramesAreAssembled == Frames!Spec
=============================================================================
