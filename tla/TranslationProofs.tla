------------------------- MODULE TranslationProofs -------------------------
(***************************************************************************)
(* What the translation of a sensor's messages guarantees, for every size  *)
(* of message and pixel, every set of tracks and speeds, and any number of *)
(* messages and faults.  The inductive invariant relates the message under *)
(* construction to the frame the sensor has sent: the two differ by what   *)
(* the message on its way tells, unless one was lost, repeated or refused. *)
(* A velocity finds its track because no other slot has the track's id:    *)
(* none behind the counter of its pixel, and none before it.               *)
(***************************************************************************)
EXTENDS Translation, WellFoundedInduction, SequenceTheorems, TLAPS

(* The numbers of a uint16_t. *)
UInt16 == {n \in Nat : n <= 65535}

LEMMA Sizes ==
  /\ NUMBER_OF_PIXELS \in Nat /\ 1 <= NUMBER_OF_PIXELS /\ NUMBER_OF_PIXELS <= 65535
  /\ NUMBER_OF_TRACKS_IN_PIXEL \in Nat /\ 1 <= NUMBER_OF_TRACKS_IN_PIXEL
  /\ MaxMessages \in Nat /\ MaxFaults \in Nat
  /\ \A t \in TrackIds : t \in Nat /\ t <= 65534
  /\ \A s \in Speeds : s \in Int /\ ToInt16(s) = s /\ s # 0
<1>1. \A n \in 1..65535 : n \in Nat /\ 1 <= n /\ n <= 65535
  OBVIOUS
<1>2. \A t \in 0..(UNDEFINED_ID - 1) : t \in Nat /\ t <= 65534
  BY DEF UNDEFINED_ID
<1>3. QED
  BY <1>1, <1>2, SpiritSizes, TranslationBounds

(* A number is what its two bytes say, but for a multiple of 2^16. *)
LEMMA TwoBytes ==
  ASSUME NEW n \in Int
  PROVE  /\ Low(n) \in Nat /\ Low(n) <= 255 /\ High(n) \in Nat /\ High(n) <= 255
         /\ 256 * High(n) + Low(n) = n % 65536 /\ n % 65536 \in UInt16
<1> DEFINE a == n \div 256
           b == n % 256
<1>1. a \in Int /\ b \in Int /\ 0 <= b /\ b <= 255 /\ n = 256 * a + b
  OBVIOUS
<1>2. a % 256 \in Int /\ 0 <= a % 256 /\ a % 256 <= 255
  BY <1>1
<1>3. 256 * (a % 256) + b = n % 65536
  <2> HIDE DEF a, b
  <2>1. QED
    BY <1>1
<1>4. QED
  BY <1>1, <1>2, <1>3 DEF Low, High, UInt16

LEMMA UnsignedBytes ==
  ASSUME NEW n \in Int
  PROVE  /\ ConvertTwoBytesToUnsignedBigEndian(Low(n), High(n)) = n % 65536
         /\ n % 65536 \in UInt16 /\ (n \in UInt16 => n % 65536 = n)
<1>1. /\ Low(n) \in Nat /\ Low(n) <= 255 /\ High(n) \in Nat /\ High(n) <= 255
      /\ 256 * High(n) + Low(n) = n % 65536 /\ n % 65536 \in UInt16
  BY TwoBytes
<1>2. \A m \in UInt16 : m % 65536 = m
  BY DEF UInt16
<1>3. QED
  BY <1>1, <1>2 DEF ConvertTwoBytesToUnsignedBigEndian

LEMMA SignedBytes ==
  ASSUME NEW n \in Int, ToInt16(n) = n
  PROVE  ConvertTwoBytesToSignedBigEndian(Low(n), High(n)) = n
<1>1. /\ Low(n) \in Nat /\ Low(n) <= 255 /\ High(n) \in Nat /\ High(n) <= 255
      /\ 256 * High(n) + Low(n) = n % 65536 /\ n % 65536 \in UInt16
  BY TwoBytes
<1>2. ToInt16(n % 65536) = n
  <2>1. ((n % 65536) + 32768) % 65536 = (n + 32768) % 65536
    OBVIOUS
  <2>2. QED
    BY <2>1 DEF ToInt16
<1>3. ToInt16(256 * High(n) + Low(n)) = n
  BY <1>1, <1>2
<1>4. QED
  BY <1>3 DEF ConvertTwoBytesToSignedBigEndian

LEMMA MinIsLeast ==
  ASSUME NEW S, S \subseteq Nat, S # {}
  PROVE  Min(S) \in S /\ \A y \in S : Min(S) <= y
<1>1. PICK x \in S : \A y \in S : ~(<<y, x>> \in OpToRel(<, Nat))
  BY NatLessThanWellFounded, WFMin
<1>2. ASSUME NEW y \in S PROVE x <= y
  <2>1. ~(y < x)
    BY <1>1 DEF OpToRel
  <2>2. x \in Nat /\ y \in Nat
    OBVIOUS
  <2>3. QED
    BY <2>1, <2>2
<1>3. QED
  BY <1>1, <1>2 DEF Min

-----------------------------------------------------------------------------
(* What the strategies read in the messages of the sensor. *)

LEMMA IdsAreUInt16 ==
  /\ \A t \in TrackIds : t \in Int /\ t \in UInt16 /\ t # UNDEFINED_ID
  /\ \A p \in PixelIds : p \in Int /\ p \in UInt16 /\ p + 1 \in 1..NUMBER_OF_PIXELS
BY Sizes DEF UInt16, UNDEFINED_ID, PixelIds

LEMMA TrackFields ==
  ASSUME NEW trackId \in TrackIds, NEW p \in PixelIds
  PROVE  /\ TrackMessage(trackId, p).id = DETECTION_TRACK
         /\ Unsigned(TrackMessage(trackId, p), 0) = trackId
         /\ Unsigned(TrackMessage(trackId, p), 3) = p
         /\ \A s : TrackOf(s, TrackMessage(trackId, p)) =
              Track(trackId, 90, Intensity(s, 2048), Zero, Zero, Zero)
<1> DEFINE d == TrackMessage(trackId, p).data
<1>1. /\ d[1] = Low(trackId) /\ d[2] = High(trackId) /\ d[4] = Low(p) /\ d[5] = High(p)
      /\ d[6] = 90 /\ d[7] = Low(2048) /\ d[8] = High(2048)
  BY DEF TrackMessage, AWLMessage
<1>2. TrackMessage(trackId, p).id = DETECTION_TRACK
  BY DEF TrackMessage, AWLMessage
<1>3. \A n \in {trackId, p, 2048} : ConvertTwoBytesToUnsignedBigEndian(Low(n), High(n)) = n
  <2>1. \A n \in {trackId, p, 2048} : n \in Int /\ n \in UInt16
    BY IdsAreUInt16 DEF UInt16
  <2>2. QED
    BY <2>1, UnsignedBytes
<1>4. Unsigned(TrackMessage(trackId, p), 0) = trackId
  BY <1>1, <1>3 DEF Unsigned
<1>5. Unsigned(TrackMessage(trackId, p), 3) = p
  BY <1>1, <1>3 DEF Unsigned
<1>6. Unsigned(TrackMessage(trackId, p), 6) = 2048
  BY <1>1, <1>3 DEF Unsigned
<1>7. QED
  BY <1>1, <1>2, <1>4, <1>5, <1>6 DEF TrackOf

LEMMA VelocityFields ==
  ASSUME NEW trackId \in TrackIds, NEW speed \in Speeds
  PROVE  /\ VelocityMessage(trackId, speed).id = DETECTION_VELOCITY
         /\ Unsigned(VelocityMessage(trackId, speed), 0) = trackId
<1> DEFINE d == VelocityMessage(trackId, speed).data
<1>1. d[1] = Low(trackId) /\ d[2] = High(trackId)
  BY DEF VelocityMessage, AWLMessage
<1>2. ConvertTwoBytesToUnsignedBigEndian(Low(trackId), High(trackId)) = trackId
  BY IdsAreUInt16, UnsignedBytes
<1>3. Unsigned(VelocityMessage(trackId, speed), 0) = trackId
  BY <1>1, <1>2 DEF Unsigned
<1>4. QED
  BY <1>3 DEF VelocityMessage, AWLMessage

LEMMA VelocityMeasure ==
  ASSUME NEW trackId, NEW speed \in Speeds, NEW s
  PROVE  Measure(s, VelocityMessage(trackId, speed)) =
           [distance |-> InMeters(s, 300), speed |-> InMeters(s, speed),
            acceleration |-> InMeters(s, -1)]
<1> DEFINE m == VelocityMessage(trackId, speed)
<1>1. /\ m.data[3] = Low(300) /\ m.data[4] = High(300) /\ m.data[5] = Low(speed)
      /\ m.data[6] = High(speed) /\ m.data[7] = Low(-1) /\ m.data[8] = High(-1)
  BY DEF VelocityMessage, AWLMessage
<1>2. Unsigned(m, 2) = 300
  <2>1. 300 \in Int /\ 300 \in UInt16
    BY DEF UInt16
  <2>2. ConvertTwoBytesToUnsignedBigEndian(Low(300), High(300)) = 300
    BY <2>1, UnsignedBytes
  <2>3. QED
    BY <1>1, <2>2 DEF Unsigned
<1>3. Signed(m, 4) = speed
  <2>1. ConvertTwoBytesToSignedBigEndian(Low(speed), High(speed)) = speed
    BY Sizes, SignedBytes
  <2>2. QED
    BY <1>1, <2>1 DEF Signed
<1>4. Signed(m, 6) = -1
  <2>1. ToInt16(-1) = -1
    BY DEF ToInt16
  <2>2. ConvertTwoBytesToSignedBigEndian(Low(-1), High(-1)) = -1
    BY <2>1, SignedBytes
  <2>3. QED
    BY <1>1, <2>2 DEF Signed
<1>5. QED
  BY <1>2, <1>3, <1>4 DEF Measure

LEMMA EndOfFrameFields ==
  ASSUME NEW n \in Nat
  PROVE  /\ EndOfFrameMessage(n).id = END_OF_FRAME
         /\ Unsigned(EndOfFrameMessage(n), 0) = n % 65536 /\ n % 65536 \in UInt16
         /\ Unsigned(EndOfFrameMessage(n), 2) = 16
<1> DEFINE d == EndOfFrameMessage(n).data
<1>1. d[1] = Low(n) /\ d[2] = High(n) /\ d[3] = Low(16) /\ d[4] = High(16)
  BY DEF EndOfFrameMessage, AWLMessage
<1>2. n \in Int
  OBVIOUS
<1>3. ConvertTwoBytesToUnsignedBigEndian(Low(n), High(n)) = n % 65536 /\ n % 65536 \in UInt16
  BY <1>2, UnsignedBytes
<1>4. 16 \in Int /\ 16 \in UInt16
  BY DEF UInt16
<1>5. ConvertTwoBytesToUnsignedBigEndian(Low(16), High(16)) = 16
  BY <1>4, UnsignedBytes
<1>6. EndOfFrameMessage(n).id = END_OF_FRAME
  BY DEF EndOfFrameMessage, AWLMessage
<1>7. Unsigned(EndOfFrameMessage(n), 0) = n % 65536
  BY <1>1, <1>3 DEF Unsigned
<1>8. Unsigned(EndOfFrameMessage(n), 2) = 16
  BY <1>1, <1>5 DEF Unsigned
<1>9. QED
  BY <1>3, <1>6, <1>7, <1>8

LEMMA UnrecognizedFields == UnrecognizedMessage.id = 87
BY DEF UnrecognizedMessage, AWLMessage

-----------------------------------------------------------------------------
(* What a message of the server can hold. *)

Slots == 1..NUMBER_OF_TRACKS_IN_PIXEL
Places == 1..NUMBER_OF_PIXELS

Double == Int \X Int

AnyTrack == [id : UInt16, confidenceLevel : Int, intensity : Double, acceleration : Double,
             distance : Double, speed : Double]

AnyPixel == [id : UInt16, tracks : [Slots -> AnyTrack],
             currentNumberOfTracksInPixel : 0..NUMBER_OF_TRACKS_IN_PIXEL]

AnyTimeTracking ==
  {DEFAULT_TIME_TRACKING,
   AddTimePointForGateway(DEFAULT_TIME_TRACKING, "ServerCommunicator:Transmission")}

AnyMessage == [messageId : UInt16, sensorId : UInt16, pixels : [Places -> AnyPixel],
               timeTracking : AnyTimeTracking]

Counter(message, p) == message.pixels[p].currentNumberOfTracksInPixel
TracksIn(message, p) == message.pixels[p].tracks

LEMMA SentDoubles ==
  ASSUME NEW s, NEW n \in Int
  PROVE  InMeters(s, n) \in Double /\ Intensity(s, n) \in Double
BY DEF InMeters, Intensity, ConvertIntensityToSNR, Double

LEMMA DefaultTrackIsAny == DEFAULT_TRACK \in AnyTrack /\ DEFAULT_TRACK.id = UNDEFINED_ID
                           /\ DEFAULT_TRACK.speed = Zero
<1>1. Zero \in Double
  BY DEF Zero, Double
<1>2. UNDEFINED_ID \in UInt16
  BY DEF UNDEFINED_ID, UInt16
<1>3. QED
  BY <1>1, <1>2 DEF DEFAULT_TRACK, Track, AnyTrack

LEMMA TrackIsAny ==
  ASSUME NEW trackId \in TrackIds, NEW s
  PROVE  /\ Track(trackId, 90, Intensity(s, 2048), Zero, Zero, Zero) \in AnyTrack
         /\ Track(trackId, 90, Intensity(s, 2048), Zero, Zero, Zero).id = trackId
         /\ Track(trackId, 90, Intensity(s, 2048), Zero, Zero, Zero).speed = Zero
<1>1. Zero \in Double
  BY DEF Zero, Double
<1>2. Intensity(s, 2048) \in Double
  BY SentDoubles
<1>3. QED
  BY <1>1, <1>2, IdsAreUInt16 DEF Track, AnyTrack

LEMMA DefaultPixelIsAny ==
  /\ DEFAULT_PIXEL \in AnyPixel /\ DEFAULT_PIXEL.id = UNDEFINED_ID
  /\ DEFAULT_PIXEL.tracks = [i \in Slots |-> DEFAULT_TRACK]
  /\ DEFAULT_PIXEL.currentNumberOfTracksInPixel = 0
<1>1. UNDEFINED_ID \in UInt16 /\ 0 \in 0..NUMBER_OF_TRACKS_IN_PIXEL
  BY Sizes DEF UNDEFINED_ID, UInt16
<1>2. [i \in Slots |-> DEFAULT_TRACK] \in [Slots -> AnyTrack]
  BY DefaultTrackIsAny
<1>3. QED
  BY <1>1, <1>2 DEF DEFAULT_PIXEL, Pixel, AnyPixel, Slots

LEMMA DefaultMessageIsAny ==
  /\ DEFAULT_SENSOR_MESSAGE \in AnyMessage
  /\ DEFAULT_SENSOR_MESSAGE.messageId = 0
  /\ DEFAULT_SENSOR_MESSAGE.timeTracking = DEFAULT_TIME_TRACKING
  /\ \A p \in Places : /\ DEFAULT_SENSOR_MESSAGE.pixels[p].id = UNDEFINED_ID
                       /\ Counter(DEFAULT_SENSOR_MESSAGE, p) = 0
                       /\ TracksIn(DEFAULT_SENSOR_MESSAGE, p) = [i \in Slots |-> DEFAULT_TRACK]
<1>1. 0 \in UInt16 /\ 65535 \in UInt16
  BY DEF UInt16
<1>2. [p \in Places |-> DEFAULT_PIXEL] \in [Places -> AnyPixel]
  BY DefaultPixelIsAny
<1>3. DEFAULT_SENSOR_MESSAGE = [messageId |-> 0, sensorId |-> 65535,
        pixels |-> [p \in Places |-> DEFAULT_PIXEL], timeTracking |-> DEFAULT_TIME_TRACKING]
  BY DEF DEFAULT_SENSOR_MESSAGE, SensorMessage, Places
<1>4. DEFAULT_TIME_TRACKING \in AnyTimeTracking
  BY DEF AnyTimeTracking
<1>5. DEFAULT_SENSOR_MESSAGE \in AnyMessage
  BY <1>1, <1>2, <1>3, <1>4 DEF AnyMessage
<1>6. \A p \in Places : DEFAULT_SENSOR_MESSAGE.pixels[p] = DEFAULT_PIXEL
  BY <1>3
<1>7. QED
  BY <1>3, <1>5, <1>6, DefaultPixelIsAny DEF Counter, TracksIn

(* A pixel is put into a message, and the others stay. *)
LEMMA PixelReplaced ==
  ASSUME NEW m \in AnyMessage, NEW p \in Places, NEW pixel \in AnyPixel
  PROVE  /\ [m EXCEPT !.pixels[p] = pixel] \in AnyMessage
         /\ \A q \in Places : [m EXCEPT !.pixels[p] = pixel].pixels[q] =
              IF q = p THEN pixel ELSE m.pixels[q]
<1> DEFINE pixels == [m.pixels EXCEPT ![p] = pixel]
           u == [m EXCEPT !.pixels[p] = pixel]
<1>1. m.pixels \in [Places -> AnyPixel]
  BY DEF AnyMessage
<1>2. pixels \in [Places -> AnyPixel] /\ \A q \in Places : pixels[q] = IF q = p THEN pixel ELSE m.pixels[q]
  BY <1>1
<1>3. u = [m EXCEPT !.pixels = pixels]
  OBVIOUS
<1> HIDE DEF pixels
<1>4. u.pixels = pixels /\ u \in AnyMessage
  BY <1>2, <1>3 DEF AnyMessage
<1>5. QED
  BY <1>2, <1>4

-----------------------------------------------------------------------------
(* What each translation makes of the message under construction. *)

SameElsewhere(place) ==
  \A q \in Places \ {place} : currentOutputMessage'.pixels[q] = currentOutputMessage.pixels[q]

SentTrack(trackId) == Track(trackId, 90, Intensity(strategy, 2048), Zero, Zero, Zero)

(* What becomes of the pixel p of a track. *)
TrackTaken(p, track) ==
  LET n == Counter(currentOutputMessage, p + 1)
  IN  /\ currentOutputMessage' \in AnyMessage /\ SameElsewhere(p + 1)
      /\ currentOutputMessage'.pixels[p + 1].id = p
      /\ \/ /\ n = NUMBER_OF_TRACKS_IN_PIXEL /\ rejected' = TRUE
            /\ Counter(currentOutputMessage', p + 1) = n
            /\ TracksIn(currentOutputMessage', p + 1) = TracksIn(currentOutputMessage, p + 1)
         \/ /\ n < NUMBER_OF_TRACKS_IN_PIXEL /\ rejected' = rejected
            /\ Counter(currentOutputMessage', p + 1) = n + 1
            /\ TracksIn(currentOutputMessage', p + 1) =
                 [TracksIn(currentOutputMessage, p + 1) EXCEPT ![n + 1] = track]

(* A track goes behind the last of its pixel, or is refused. *)
LEMMA TrackTranslated ==
  ASSUME currentOutputMessage \in AnyMessage, rejected \in BOOLEAN, NEW trackId \in TrackIds, NEW p \in PixelIds,
         TranslateDetectionTrackMessage(TrackMessage(trackId, p))
  PROVE  TrackTaken(p, SentTrack(trackId))
<1> DEFINE m == TrackMessage(trackId, p)
           place == p + 1
           pixel == currentOutputMessage.pixels[place]
           named == [pixel EXCEPT !.id = p]
           n == Counter(currentOutputMessage, place)
           track == SentTrack(trackId)
           updated == UpdatePixelId(currentOutputMessage, p)
           added == AddTrack(named, track)
<1>1. Unsigned(m, 3) = p /\ TrackOf(strategy, m) = track /\ track \in AnyTrack
  BY TrackFields, TrackIsAny DEF SentTrack
<1>2. place \in Places /\ p \in UInt16
  BY IdsAreUInt16 DEF Places
<1>3. pixel \in AnyPixel
  BY <1>2 DEF AnyMessage
<1>4. /\ named \in AnyPixel /\ named.id = p /\ named.tracks = pixel.tracks
      /\ named.currentNumberOfTracksInPixel = n
  BY <1>2, <1>3 DEF AnyPixel, Counter
<1>5. updated = [currentOutputMessage EXCEPT !.pixels[place] = named]
  BY DEF UpdatePixelId
<1>6. /\ updated \in AnyMessage
      /\ \A q \in Places : updated.pixels[q] =
           IF q = place THEN named ELSE currentOutputMessage.pixels[q]
  <2> HIDE DEF updated, place, named
  <2>1. QED
    BY <1>2, <1>4, <1>5, PixelReplaced
<1>7. n \in 0..NUMBER_OF_TRACKS_IN_PIXEL /\ pixel.tracks \in [Slots -> AnyTrack]
  BY <1>3 DEF AnyPixel, Counter
<1>8. IsFull(updated.pixels[place]) <=> n = NUMBER_OF_TRACKS_IN_PIXEL
  <2>1. IsFull(updated.pixels[place]) <=> n >= NUMBER_OF_TRACKS_IN_PIXEL
    BY <1>2, <1>4, <1>6 DEF IsFull
  <2>2. QED
    BY <2>1, <1>7, Sizes
<1>9. rejected' = (rejected \/ IsFull(updated.pixels[place]))
  BY <1>1 DEF TranslateDetectionTrackMessage
<1>10. CASE n = NUMBER_OF_TRACKS_IN_PIXEL
  <2>1. currentOutputMessage' = updated
    BY <1>1, <1>8, <1>10 DEF TranslateDetectionTrackMessage
  <2>2. rejected' = TRUE
    BY <1>8, <1>9, <1>10
  <2>3. currentOutputMessage'.pixels[place] = named
    BY <2>1, <1>2, <1>6
  <2>4. SameElsewhere(place)
    BY <2>1, <1>6 DEF SameElsewhere
  <2> HIDE DEF updated, named
  <2>5. QED
    BY <2>1, <2>2, <2>3, <2>4, <1>4, <1>6, <1>10 DEF TrackTaken, Counter, TracksIn
<1>11. CASE n # NUMBER_OF_TRACKS_IN_PIXEL
  <2>1. n + 1 \in Slots /\ n + 1 \in 0..NUMBER_OF_TRACKS_IN_PIXEL /\ n < NUMBER_OF_TRACKS_IN_PIXEL
    BY <1>7, <1>11, Sizes DEF Slots
  <2>2. /\ added \in AnyPixel /\ added.id = p /\ added.currentNumberOfTracksInPixel = n + 1
        /\ added.tracks = [pixel.tracks EXCEPT ![n + 1] = track]
    <3>1. added = [named EXCEPT !.tracks = [pixel.tracks EXCEPT ![n + 1] = track],
                                !.currentNumberOfTracksInPixel = n + 1]
      BY <1>4 DEF AddTrack
    <3>2. [pixel.tracks EXCEPT ![n + 1] = track] \in [Slots -> AnyTrack]
      BY <1>1, <1>7, <2>1
    <3> HIDE DEF named, added, track
    <3>3. QED
      BY <3>1, <3>2, <1>4, <2>1 DEF AnyPixel
  <2>3. currentOutputMessage' = AddTrackToPixelWithId(updated, p, track)
    BY <1>1, <1>8, <1>11 DEF TranslateDetectionTrackMessage
  <2>4. AddTrackToPixelWithId(updated, p, track) = [updated EXCEPT !.pixels[place] = added]
    BY <1>2, <1>6 DEF AddTrackToPixelWithId
  <2>5. rejected' = rejected
    BY <1>8, <1>9, <1>11
  <2>6. currentOutputMessage' = [updated EXCEPT !.pixels[place] = added]
    BY <2>3, <2>4
  <2> HIDE DEF updated, added, named
  <2>7. /\ currentOutputMessage' \in AnyMessage
        /\ \A q \in Places : currentOutputMessage'.pixels[q] =
             IF q = place THEN added ELSE updated.pixels[q]
    <3> HIDE DEF place
    <3>1. QED
      BY <1>2, <1>6, <2>2, <2>6, PixelReplaced
  <2>8. currentOutputMessage'.pixels[place] = added
    BY <2>7, <1>2
  <2>9. SameElsewhere(place)
    BY <2>7, <1>6 DEF SameElsewhere
  <2>10. QED
    BY <2>1, <2>2, <2>5, <2>7, <2>8, <2>9, <1>6 DEF TrackTaken, Counter, TracksIn
<1>12. QED
  BY <1>10, <1>11

MeasureOf(speed) ==
  [distance |-> InMeters(strategy, 300), speed |-> InMeters(strategy, speed),
   acceleration |-> InMeters(strategy, -1)]

(* fetchTrack finds a slot that has the id, or none has it. *)
LEMMA TrackIsFetched ==
  ASSUME currentOutputMessage \in AnyMessage, NEW trackId
  PROVE  \/ /\ FetchTrack(trackId) = <<>>
            /\ \A p \in Places, i \in Slots : TracksIn(currentOutputMessage, p)[i].id # trackId
         \/ \E p \in Places, i \in Slots :
              /\ FetchTrack(trackId) = <<p, i>>
              /\ TracksIn(currentOutputMessage, p)[i].id = trackId
<1>1. \A p \in Places : TracksIn(currentOutputMessage, p) \in [Slots -> AnyTrack]
  BY DEF AnyMessage, AnyPixel, TracksIn
<1>2. PixelsWith(trackId) =
        {p \in Places : \E i \in Slots : TracksIn(currentOutputMessage, p)[i].id = trackId}
  BY <1>1 DEF PixelsWith, DoesTrackExist, Places, TracksIn
<1>3. CASE PixelsWith(trackId) = {}
  BY <1>2, <1>3 DEF FetchTrack
<1>4. CASE PixelsWith(trackId) # {}
  <2> DEFINE p == Min(PixelsWith(trackId))
             tracks == TracksIn(currentOutputMessage, p)
             found == {i \in Slots : tracks[i].id = trackId}
  <2>1. PixelsWith(trackId) \subseteq Nat
    BY Sizes DEF PixelsWith
  <2>2. p \in PixelsWith(trackId)
    BY <2>1, <1>4, MinIsLeast
  <2>3. p \in Places /\ found # {} /\ found \subseteq Nat /\ Slots \subseteq Nat
    BY <1>2, <2>2, Sizes DEF Slots
  <2>4. Min(found) \in Slots /\ tracks[Min(found)].id = trackId
    BY <2>3, MinIsLeast
  <2>5. FetchTrackById(currentOutputMessage.pixels[p], trackId) = Min(found)
    <3>1. tracks \in Seq(AnyTrack) /\ Len(tracks) = NUMBER_OF_TRACKS_IN_PIXEL
      BY <1>1, <2>3, Sizes DEF Slots
    <3>2. found = {i \in 1..Len(tracks) : tracks[i].id = trackId}
      BY <3>1 DEF Slots
    <3>3. QED
      BY <2>3, <3>2 DEF FetchTrackById, SelectInSeq, TracksIn
  <2>6. FetchTrack(trackId) = <<p, Min(found)>>
    BY <1>4, <2>5 DEF FetchTrack
  <2>7. QED
    BY <2>3, <2>4, <2>6
<1>5. QED
  BY <1>3, <1>4

LEMMA TrackMeasured ==
  ASSUME NEW track \in AnyTrack, NEW m \in [distance : Double, speed : Double, acceleration : Double]
  PROVE  /\ Measured(track, m) \in AnyTrack /\ Measured(track, m).id = track.id
         /\ Measured(track, m).speed = m.speed
BY DEF Measured, AnyTrack

LEMMA MeasureIsAny ==
  ASSUME NEW speed \in Int
  PROVE  /\ MeasureOf(speed) \in [distance : Double, speed : Double, acceleration : Double]
         /\ MeasureOf(speed).speed = InMeters(strategy, speed)
<1>1. /\ InMeters(strategy, 300) \in Double /\ InMeters(strategy, speed) \in Double
      /\ InMeters(strategy, -1) \in Double
  BY SentDoubles
<1>2. QED
  BY <1>1 DEF MeasureOf

(* What becomes of the pixel whose i-th track a velocity is of. *)
VelocityTaken(p, i, speed) ==
  /\ currentOutputMessage' \in AnyMessage /\ SameElsewhere(p)
  /\ currentOutputMessage'.pixels[p].id = currentOutputMessage.pixels[p].id
  /\ Counter(currentOutputMessage', p) = Counter(currentOutputMessage, p)
  /\ TracksIn(currentOutputMessage', p) =
       [TracksIn(currentOutputMessage, p) EXCEPT ![i] = Measured(@, MeasureOf(speed))]

LEMMA VelocityTranslated ==
  ASSUME currentOutputMessage \in AnyMessage, NEW trackId \in TrackIds, NEW speed \in Speeds,
         TranslateDetectionVelocityMessage(VelocityMessage(trackId, speed))
  PROVE  \/ /\ ended' = TRUE /\ currentOutputMessage' = currentOutputMessage
            /\ \A p \in Places, i \in Slots : TracksIn(currentOutputMessage, p)[i].id # trackId
         \/ \E p \in Places, i \in Slots :
              /\ ended' = ended /\ TracksIn(currentOutputMessage, p)[i].id = trackId
              /\ VelocityTaken(p, i, speed)
<1> DEFINE m == VelocityMessage(trackId, speed)
<1>1. Unsigned(m, 0) = trackId /\ Measure(strategy, m) = MeasureOf(speed)
  BY VelocityFields, VelocityMeasure DEF MeasureOf
<1>2. CASE /\ FetchTrack(trackId) = <<>>
           /\ \A p \in Places, i \in Slots : TracksIn(currentOutputMessage, p)[i].id # trackId
  <2>1. ended' = TRUE /\ currentOutputMessage' = currentOutputMessage
    BY <1>1, <1>2 DEF TranslateDetectionVelocityMessage
  <2>2. QED
    BY <1>2, <2>1
<1>3. ASSUME NEW p \in Places, NEW i \in Slots, FetchTrack(trackId) = <<p, i>>,
             TracksIn(currentOutputMessage, p)[i].id = trackId
      PROVE  ended' = ended /\ VelocityTaken(p, i, speed)
  <2> DEFINE pixel == currentOutputMessage.pixels[p]
             track == Measured(pixel.tracks[i], MeasureOf(speed))
             tracks == [pixel.tracks EXCEPT ![i] = track]
             measured == [pixel EXCEPT !.tracks = tracks]
  <2>1. ended' = ended
    BY <1>1, <1>3 DEF TranslateDetectionVelocityMessage
  <2>2. currentOutputMessage' = [currentOutputMessage EXCEPT !.pixels[p] = measured]
    <3>1. currentOutputMessage' =
            [currentOutputMessage EXCEPT !.pixels[p].tracks[i] = Measured(@, MeasureOf(speed))]
      BY <1>1, <1>3 DEF TranslateDetectionVelocityMessage
    <3>2. currentOutputMessage' = [currentOutputMessage EXCEPT !.pixels[p].tracks[i] = track]
      BY <3>1
    <3> HIDE DEF track
    <3>3. QED
      BY <3>2
  <2>3. pixel \in AnyPixel /\ pixel.tracks \in [Slots -> AnyTrack] /\ pixel.tracks[i] \in AnyTrack
    BY DEF AnyMessage, AnyPixel
  <2>4. track \in AnyTrack
    BY <2>3, Sizes, MeasureIsAny, TrackMeasured
  <2>5. tracks \in [Slots -> AnyTrack]
    BY <2>3, <2>4
  <2>6. /\ measured \in AnyPixel /\ measured.id = pixel.id /\ measured.tracks = tracks
        /\ measured.currentNumberOfTracksInPixel = pixel.currentNumberOfTracksInPixel
    <3> HIDE DEF tracks
    <3>1. QED
      BY <2>3, <2>5 DEF AnyPixel
  <2>7. /\ currentOutputMessage' \in AnyMessage
        /\ \A q \in Places : currentOutputMessage'.pixels[q] =
             IF q = p THEN measured ELSE currentOutputMessage.pixels[q]
    <3> HIDE DEF measured
    <3>1. QED
      BY <2>2, <2>6, PixelReplaced
  <2>8. QED
    BY <2>1, <2>6, <2>7 DEF VelocityTaken, SameElsewhere, Counter, TracksIn
<1>4. CASE \E p \in Places, i \in Slots :
             /\ FetchTrack(trackId) = <<p, i>>
             /\ TracksIn(currentOutputMessage, p)[i].id = trackId
  <2>1. PICK p \in Places, i \in Slots : /\ FetchTrack(trackId) = <<p, i>>
                                         /\ TracksIn(currentOutputMessage, p)[i].id = trackId
    BY <1>4
  <2>2. QED
    BY <1>3, <2>1
<1>5. QED
  BY <1>2, <1>4, TrackIsFetched

(* What becomes of the frame when it ends. *)
FrameTaken ==
  /\ pad' \in AnyMessage /\ pad'.pixels = currentOutputMessage.pixels
  /\ currentOutputMessage' \in AnyMessage
  /\ currentOutputMessage'.pixels = DEFAULT_SENSOR_MESSAGE.pixels

LEMMA EndOfFrameTranslated ==
  ASSUME currentOutputMessage \in AnyMessage, pad \in AnyMessage, NEW n \in Nat,
         TranslateEndOfFrameMessage(EndOfFrameMessage(n))
  PROVE  FrameTaken /\ pad'.messageId = n % 65536
<1> DEFINE m == EndOfFrameMessage(n)
<1>1. Unsigned(m, 0) = n % 65536 /\ n % 65536 \in UInt16 /\ Unsigned(m, 2) = 16 /\ 16 \in UInt16
  BY EndOfFrameFields DEF UInt16
<1> DEFINE a == Unsigned(m, 0)
           b == Unsigned(m, 2)
           closed == [currentOutputMessage EXCEPT !.messageId = a, !.sensorId = b]
<1>2. pad' = [closed EXCEPT !.timeTracking = pad.timeTracking]
  BY DEF TranslateEndOfFrameMessage, Assign
<1>3. currentOutputMessage' = [DEFAULT_SENSOR_MESSAGE EXCEPT !.timeTracking = currentOutputMessage.timeTracking]
  BY DEF TranslateEndOfFrameMessage, Assign
<1>4. /\ pad' \in AnyMessage /\ pad'.messageId = n % 65536
      /\ pad'.pixels = currentOutputMessage.pixels
  <2>1. closed \in AnyMessage /\ closed.messageId = n % 65536 /\ closed.pixels = currentOutputMessage.pixels
    <3>1. a \in UInt16 /\ b \in UInt16
      BY <1>1
    <3> HIDE DEF a, b
    <3>2. closed.messageId = a /\ closed \in AnyMessage /\ closed.pixels = currentOutputMessage.pixels
      BY <3>1 DEF AnyMessage
    <3>3. QED
      BY <1>1, <3>2 DEF a
  <2> HIDE DEF closed
  <2>2. QED
    BY <1>2, <2>1 DEF AnyMessage
<1>5. /\ currentOutputMessage' \in AnyMessage
      /\ currentOutputMessage'.pixels = DEFAULT_SENSOR_MESSAGE.pixels
  BY <1>3, DefaultMessageIsAny DEF AnyMessage
<1>6. FrameTaken
  BY <1>4, <1>5 DEF FrameTaken
<1>7. QED
  BY <1>4, <1>6

LEMMA MessageSent ==
  ASSUME pad \in AnyMessage, SendMessage
  PROVE  /\ sent' \in AnyMessage /\ sent'.messageId = pad.messageId /\ sent'.pixels = pad.pixels
         /\ Len(sent'.timeTracking.gatewayTimestamps.timePoints) = 1
<1> DEFINE message == Copy(pad)
<1>1. message \in AnyMessage /\ message.messageId = pad.messageId /\ message.pixels = pad.pixels
      /\ message.timeTracking = DEFAULT_TIME_TRACKING
  BY DEF AnyMessage, Copy, AnyTimeTracking
<1>2. DEFAULT_TIME_TRACKING.gatewayTimestamps.timePoints = <<>>
      /\ DEFAULT_TIME_TRACKING.gatewayTimestamps.maximumSize = 5
  BY DEF DEFAULT_TIME_TRACKING, TimeTracking, DEFAULT_SERVICE_TIMESTAMPS, ServiceTimestamps,
    NUMBER_OF_GATEWAY_TIME_POINTS
<1>3. ~IsFullOfTimePoints(message.timeTracking.gatewayTimestamps)
  BY <1>1, <1>2 DEF IsFullOfTimePoints
<1> DEFINE tracking == AddTimePointForGateway(DEFAULT_TIME_TRACKING, "ServerCommunicator:Transmission")
<1>4. sent' = [message EXCEPT !.timeTracking = tracking]
  BY <1>1, <1>3 DEF SendMessage
<1>5. tracking \in AnyTimeTracking
  BY DEF AnyTimeTracking
<1>6. tracking.gatewayTimestamps.timePoints = <<TimePoint("ServerCommunicator:Transmission")>>
  <2> DEFINE stamps == DEFAULT_TIME_TRACKING.gatewayTimestamps
  <2>1. tracking = [DEFAULT_TIME_TRACKING EXCEPT !.gatewayTimestamps =
                     AddTimePointForLocation(stamps, "ServerCommunicator:Transmission")]
    BY DEF AddTimePointForGateway
  <2>2. tracking.gatewayTimestamps = AddTimePointForLocation(stamps, "ServerCommunicator:Transmission")
    BY <2>1 DEF DEFAULT_TIME_TRACKING, TimeTracking
  <2>3. stamps = [maximumSize |-> 5, timePoints |-> <<>>]
    BY DEF DEFAULT_TIME_TRACKING, TimeTracking, DEFAULT_SERVICE_TIMESTAMPS, ServiceTimestamps,
      NUMBER_OF_GATEWAY_TIME_POINTS
  <2>4. AddTimePointForLocation(stamps, "ServerCommunicator:Transmission").timePoints =
          Append(<<>>, TimePoint("ServerCommunicator:Transmission"))
    BY <2>3 DEF AddTimePointForLocation
  <2>5. QED
    BY <2>2, <2>4
<1> HIDE DEF tracking, message
<1>7. sent' \in AnyMessage /\ sent'.messageId = pad.messageId /\ sent'.pixels = pad.pixels
      /\ sent'.timeTracking = tracking
  BY <1>1, <1>4, <1>5 DEF AnyMessage
<1>8. QED
  BY <1>6, <1>7

-----------------------------------------------------------------------------
(* The inductive invariant. *)

SensorTrack == [id : TrackIds, speed : Speeds \cup {0}]
SensorFrames == [PixelIds -> Seq(SensorTrack)]

SensorMessages ==
  {TrackMessage(trackId, p) : trackId \in TrackIds, p \in PixelIds}
    \cup {VelocityMessage(trackId, speed) : trackId \in TrackIds, speed \in Speeds}
    \cup {EndOfFrameMessage(n) : n \in Nat} \cup {UnrecognizedMessage}

TypeInv ==
  /\ strategy \in Strategies
  /\ currentOutputMessage \in AnyMessage /\ pad \in AnyMessage /\ sent \in AnyMessage
  /\ sensorFrame \in SensorFrames /\ lastFrame \in SensorFrames
  /\ unread \in BOOLEAN /\ ended \in BOOLEAN /\ rejected \in BOOLEAN
  /\ frames \in Nat /\ messages \in 0..MaxMessages /\ frames <= messages /\ faults \in 0..MaxFaults
  /\ inFlight # <<>> => \E m \in SensorMessages : inFlight \in {<<m>>, <<m, m>>}

OwnIds(message) == \A p \in Places : message.pixels[p].id \in {UNDEFINED_ID, p - 1}

(* A pixel has its own id or none. *)
PixelInv == OwnIds(currentOutputMessage) /\ OwnIds(pad) /\ OwnIds(sent)

(* The slots behind the counter hold no track the sensor has sent. *)
SlotInv ==
  \A p \in Places : \A i \in Slots :
    i > Counter(currentOutputMessage, p) => TracksIn(currentOutputMessage, p)[i].id = UNDEFINED_ID

ShownSpeed(s, speed) == IF speed = 0 THEN DEFAULT_TRACK.speed ELSE InMeters(s, speed)

(* A message of strategy s shows a frame. *)
Shows(s, message, frame) ==
  \A p \in PixelIds :
    /\ Counter(message, p + 1) = Len(frame[p])
    /\ \A i \in 1..Len(frame[p]) :
         /\ TracksIn(message, p + 1)[i].id = frame[p][i].id
         /\ TracksIn(message, p + 1)[i].speed = ShownSpeed(s, frame[p][i].speed)

NoTrackTwice(frame) ==
  \A p, q \in PixelIds : \A i \in 1..Len(frame[p]), j \in 1..Len(frame[q]) :
    frame[p][i].id = frame[q][j].id => p = q /\ i = j

WithTrack(frame, p, trackId) == [frame EXCEPT ![p] = Append(@, [id |-> trackId, speed |-> 0])]
WithSpeed(frame, p, i, speed) == [frame EXCEPT ![p][i].speed = speed]

(* What the message on its way tells of the sensor's frame. *)
TrackIsOnItsWay ==
  \E frame \in SensorFrames, p \in PixelIds, trackId \in TrackIds :
    /\ inFlight = <<TrackMessage(trackId, p)>> /\ sensorFrame = WithTrack(frame, p, trackId)
    /\ Shows(strategy, currentOutputMessage, frame)

VelocityIsOnItsWay ==
  \E frame \in SensorFrames, p \in PixelIds, speed \in Speeds : \E i \in 1..Len(frame[p]) :
    /\ frame[p][i].speed = 0 /\ NoTrackTwice(frame)
    /\ inFlight = <<VelocityMessage(frame[p][i].id, speed)>>
    /\ sensorFrame = WithSpeed(frame, p, i, speed)
    /\ Shows(strategy, currentOutputMessage, frame)

EndIsOnItsWay ==
  /\ inFlight = <<EndOfFrameMessage(frames)>> /\ sensorFrame = EmptyFrame /\ ~unread
  /\ Shows(strategy, currentOutputMessage, lastFrame)

NothingIsOnItsWay ==
  inFlight \in {<<>>, <<UnrecognizedMessage>>} /\ Shows(strategy, currentOutputMessage, sensorFrame)

PadInv == unread => pad.messageId = frames % 65536 /\ Shows(strategy, pad, lastFrame)

(* As long as nothing was lost, repeated or refused. *)
FrameInv ==
  faults = 0 /\ rejected = FALSE =>
    /\ ended = FALSE /\ NoTrackTwice(sensorFrame) /\ PadInv
    /\ NothingIsOnItsWay \/ TrackIsOnItsWay \/ VelocityIsOnItsWay \/ EndIsOnItsWay

TranslationInv == TypeInv /\ PixelInv /\ SlotInv /\ FrameInv

-----------------------------------------------------------------------------

LEMMA FrameExtended ==
  ASSUME NEW frame \in SensorFrames, NEW p \in PixelIds, NEW trackId \in TrackIds
  PROVE  /\ WithTrack(frame, p, trackId) \in SensorFrames
         /\ \A q \in PixelIds \ {p} : WithTrack(frame, p, trackId)[q] = frame[q]
         /\ Len(frame[p]) \in Nat
         /\ Len(WithTrack(frame, p, trackId)[p]) = Len(frame[p]) + 1
         /\ \A i \in 1..Len(frame[p]) : WithTrack(frame, p, trackId)[p][i] = frame[p][i]
         /\ WithTrack(frame, p, trackId)[p][Len(frame[p]) + 1] = [id |-> trackId, speed |-> 0]
<1> DEFINE track == [id |-> trackId, speed |-> 0]
<1>1. track \in SensorTrack /\ frame[p] \in Seq(SensorTrack)
  BY DEF SensorTrack, SensorFrames
<1>2. /\ Append(frame[p], track) \in Seq(SensorTrack) /\ Len(Append(frame[p], track)) = Len(frame[p]) + 1
      /\ \A i \in 1..Len(frame[p]) : Append(frame[p], track)[i] = frame[p][i]
      /\ Append(frame[p], track)[Len(frame[p]) + 1] = track /\ Len(frame[p]) \in Nat
  BY <1>1, AppendProperties, LenProperties
<1>3. /\ WithTrack(frame, p, trackId) \in SensorFrames
      /\ WithTrack(frame, p, trackId)[p] = Append(frame[p], track)
      /\ \A q \in PixelIds \ {p} : WithTrack(frame, p, trackId)[q] = frame[q]
  BY <1>2 DEF WithTrack, SensorFrames
<1>4. QED
  BY <1>2, <1>3

LEMMA FrameMeasured ==
  ASSUME NEW frame \in SensorFrames, NEW p \in PixelIds, NEW i \in 1..Len(frame[p]), NEW speed \in Speeds
  PROVE  /\ WithSpeed(frame, p, i, speed) \in SensorFrames
         /\ \A q \in PixelIds \ {p} : WithSpeed(frame, p, i, speed)[q] = frame[q]
         /\ Len(WithSpeed(frame, p, i, speed)[p]) = Len(frame[p])
         /\ \A j \in 1..Len(frame[p]) :
              /\ WithSpeed(frame, p, i, speed)[p][j].id = frame[p][j].id
              /\ WithSpeed(frame, p, i, speed)[p][j].speed = IF j = i THEN speed ELSE frame[p][j].speed
<1> DEFINE track == [frame[p][i] EXCEPT !.speed = speed]
           tracks == [frame[p] EXCEPT ![i] = track]
<1>1. frame[p] \in Seq(SensorTrack)
  BY DEF SensorFrames
<1>2. \A j \in 1..Len(frame[p]) : frame[p][j] \in SensorTrack
  BY <1>1, ElementOfSeq
<1>3. track \in SensorTrack /\ track.id = frame[p][i].id /\ track.speed = speed
  BY <1>2 DEF SensorTrack
<1>4. /\ tracks \in Seq(SensorTrack) /\ Len(tracks) = Len(frame[p])
      /\ \A j \in 1..Len(frame[p]) : tracks[j] = IF j = i THEN track ELSE frame[p][j]
  <2> HIDE DEF track
  <2>1. QED
    BY <1>1, <1>3, ExceptSeq
<1>5. WithSpeed(frame, p, i, speed) = [frame EXCEPT ![p] = tracks]
  BY DEF WithSpeed
<1>6. /\ WithSpeed(frame, p, i, speed) \in SensorFrames
      /\ WithSpeed(frame, p, i, speed)[p] = tracks
      /\ \A q \in PixelIds \ {p} : WithSpeed(frame, p, i, speed)[q] = frame[q]
  <2> HIDE DEF tracks
  <2>1. QED
    BY <1>4, <1>5 DEF SensorFrames
<1> HIDE DEF tracks, track
<1>7. QED
  BY <1>3, <1>4, <1>6

LEMMA ExtendedHasNoTrackTwice ==
  ASSUME NEW frame \in SensorFrames, NEW p \in PixelIds, NEW trackId \in TrackIds, NoTrackTwice(frame),
         \A q \in PixelIds : \A i \in 1..Len(frame[q]) : frame[q][i].id # trackId
  PROVE  NoTrackTwice(WithTrack(frame, p, trackId))
<1> DEFINE new == WithTrack(frame, p, trackId)
           n == Len(frame[p])
<1>1. /\ \A q \in PixelIds \ {p} : new[q] = frame[q]
      /\ n \in Nat /\ Len(new[p]) = n + 1 /\ new[p][n + 1].id = trackId
      /\ \A i \in 1..n : new[p][i] = frame[p][i]
  <2>1. /\ \A q \in PixelIds \ {p} : new[q] = frame[q]
        /\ n \in Nat /\ Len(new[p]) = n + 1
        /\ \A i \in 1..n : new[p][i] = frame[p][i]
        /\ new[p][n + 1] = [id |-> trackId, speed |-> 0]
    BY FrameExtended
  <2> HIDE DEF new, n
  <2>2. QED
    BY <2>1
<1> HIDE DEF new
<1>2. ASSUME NEW q \in PixelIds, NEW i \in 1..Len(new[q])
      PROVE  \/ i \in 1..Len(frame[q]) /\ new[q][i] = frame[q][i]
             \/ q = p /\ i = n + 1 /\ new[q][i].id = trackId
  <2>1. CASE q = p
    <3>1. i \in 1..n \/ i = n + 1
      BY <1>1, <2>1
    <3>2. QED
      BY <1>1, <2>1, <3>1
  <2>2. CASE q # p
    BY <1>1, <2>2
  <2>3. QED
    BY <2>1, <2>2
<1>3. SUFFICES ASSUME NEW q \in PixelIds, NEW r \in PixelIds, NEW i \in 1..Len(new[q]),
                      NEW j \in 1..Len(new[r]), new[q][i].id = new[r][j].id
               PROVE  q = r /\ i = j
  BY DEF NoTrackTwice, new
<1>4. CASE i \in 1..Len(frame[q]) /\ new[q][i] = frame[q][i]
  <2>1. ~(r = p /\ j = n + 1 /\ new[r][j].id = trackId)
    BY <1>3, <1>4
  <2>2. j \in 1..Len(frame[r]) /\ new[r][j] = frame[r][j]
    BY <1>2, <2>1
  <2>3. QED
    BY <1>3, <1>4, <2>2 DEF NoTrackTwice
<1>5. CASE q = p /\ i = n + 1 /\ new[q][i].id = trackId
  <2>1. ~(j \in 1..Len(frame[r]) /\ new[r][j] = frame[r][j])
    BY <1>3, <1>5
  <2>2. QED
    BY <1>2, <1>5, <2>1
<1>6. QED
  BY <1>2, <1>4, <1>5

LEMMA MeasuredHasNoTrackTwice ==
  ASSUME NEW frame \in SensorFrames, NEW p \in PixelIds, NEW i \in 1..Len(frame[p]), NEW speed \in Speeds,
         NoTrackTwice(frame)
  PROVE  NoTrackTwice(WithSpeed(frame, p, i, speed))
<1> DEFINE new == WithSpeed(frame, p, i, speed)
<1>1. \A q \in PixelIds : Len(new[q]) = Len(frame[q]) /\ \A j \in 1..Len(frame[q]) : new[q][j].id = frame[q][j].id
  BY FrameMeasured
<1> HIDE DEF new
<1>2. QED
  BY <1>1 DEF NoTrackTwice, new

LEMMA FrameIsOfSeqs ==
  ASSUME NEW frame \in SensorFrames, NEW p \in PixelIds
  PROVE  /\ Len(frame[p]) \in Nat /\ DOMAIN frame[p] = 1..Len(frame[p])
         /\ \A i \in 1..Len(frame[p]) : frame[p][i] \in SensorTrack
BY LenProperties, ElementOfSeq DEF SensorFrames

LEMMA EmptyFrameIsOne ==
  /\ EmptyFrame \in SensorFrames /\ \A p \in PixelIds : EmptyFrame[p] = <<>> /\ Len(EmptyFrame[p]) = 0
BY EmptySeq DEF EmptyFrame, SensorFrames

(* The detections of a pixel are its slots up to the counter. *)
LEMMA PixelShowsDetections ==
  ASSUME NEW pixel \in AnyPixel
  PROVE  /\ Detections(pixel) \in Seq(AnyTrack)
         /\ Len(Detections(pixel)) = pixel.currentNumberOfTracksInPixel
         /\ DOMAIN Detections(pixel) = 1..pixel.currentNumberOfTracksInPixel
         /\ \A i \in 1..pixel.currentNumberOfTracksInPixel : Detections(pixel)[i] = pixel.tracks[i]
<1> DEFINE n == pixel.currentNumberOfTracksInPixel
           tracks == pixel.tracks
<1>1. n \in Nat /\ n <= NUMBER_OF_TRACKS_IN_PIXEL /\ tracks \in [Slots -> AnyTrack]
  BY Sizes DEF AnyPixel
<1> HIDE DEF n, tracks
<1>2. \A i \in 1..n : tracks[i] \in AnyTrack
  BY <1>1, Sizes DEF Slots
<1>3. /\ SubSeq(tracks, 1, n) \in Seq(AnyTrack) /\ Len(SubSeq(tracks, 1, n)) = IF 1 <= n THEN n - 1 + 1 ELSE 0
      /\ \A i \in 1..(n - 1 + 1) : SubSeq(tracks, 1, n)[i] = tracks[1 + i - 1]
  <2>1. 1 \in Int /\ n \in Int
    BY <1>1
  <2>2. QED
    BY <2>1, <1>2, SubSeqProperties
<1>4. /\ SubSeq(tracks, 1, n) \in Seq(AnyTrack) /\ Len(SubSeq(tracks, 1, n)) = n
      /\ \A i \in 1..n : SubSeq(tracks, 1, n)[i] = tracks[i]
  BY <1>1, <1>3
<1>5. DOMAIN SubSeq(tracks, 1, n) = 1..n
  BY <1>4, LenProperties
<1>6. QED
  BY <1>4, <1>5 DEF Detections, n, tracks

-----------------------------------------------------------------------------
(* What the sensor and its buffer leave to the translator. *)
LEMMA TranslatorUntouched ==
  ASSUME PixelInv, SlotInv, UNCHANGED <<translatorVars, sent>>
  PROVE  PixelInv' /\ SlotInv'
BY DEF PixelInv, SlotInv, OwnIds, Counter, TracksIn, translatorVars

LEMMA PadUntouched ==
  ASSUME PadInv, UNCHANGED <<strategy, pad, unread, frames, lastFrame>>
  PROVE  PadInv'
BY DEF PadInv

LEMMA NothingWasOnItsWay ==
  ASSUME FrameInv, faults = 0, rejected = FALSE, inFlight = <<>>
  PROVE  /\ ended = FALSE /\ NoTrackTwice(sensorFrame) /\ PadInv
         /\ Shows(strategy, currentOutputMessage, sensorFrame)
BY DEF FrameInv, NothingIsOnItsWay, TrackIsOnItsWay, VelocityIsOnItsWay, EndIsOnItsWay

LEMMA MessagesAreSensors ==
  /\ \A trackId \in TrackIds, p \in PixelIds : TrackMessage(trackId, p) \in SensorMessages
  /\ \A trackId \in TrackIds, speed \in Speeds : VelocityMessage(trackId, speed) \in SensorMessages
  /\ \A n \in Nat : EndOfFrameMessage(n) \in SensorMessages
  /\ UnrecognizedMessage \in SensorMessages
BY DEF SensorMessages

LEMMA SendTrackKeeps ==
  ASSUME TranslationInv, SendTrack
  PROVE  TranslationInv'
<1> USE DEF TranslationInv
<1>1. PICK trackId \in TrackIds, p \in PixelIds :
        /\ ~IsTracked(trackId) /\ Send(TrackMessage(trackId, p))
        /\ sensorFrame' = WithTrack(sensorFrame, p, trackId)
  BY DEF SendTrack, WithTrack
<1>2. /\ inFlight = <<>> /\ inFlight' = <<TrackMessage(trackId, p)>>
      /\ messages < MaxMessages /\ messages' = messages + 1
  BY <1>1 DEF Send, CountMessage
<1>3. UNCHANGED <<strategy, translatorVars, sent, rawData, frames, lastFrame, faults>>
  BY DEF SendTrack
<1>4. sensorFrame \in SensorFrames
  BY DEF TypeInv
<1>5. TypeInv'
  <2>1. sensorFrame' \in SensorFrames
    BY <1>1, <1>4, FrameExtended
  <2>2. messages' \in 0..MaxMessages /\ frames' <= messages'
    BY <1>2, <1>3, Sizes DEF TypeInv
  <2>3. \E m \in SensorMessages : inFlight' \in {<<m>>, <<m, m>>}
    BY <1>2, MessagesAreSensors
  <2>4. QED
    BY <2>1, <2>2, <2>3, <1>3 DEF TypeInv, translatorVars
<1>6. PixelInv' /\ SlotInv'
  BY <1>3, TranslatorUntouched
<1>7. FrameInv'
  <2> SUFFICES ASSUME faults = 0, rejected = FALSE
               PROVE  ended = FALSE /\ NoTrackTwice(sensorFrame') /\ PadInv' /\ TrackIsOnItsWay'
    BY <1>3 DEF FrameInv, translatorVars
  <2>1. /\ ended = FALSE /\ NoTrackTwice(sensorFrame) /\ PadInv'
        /\ Shows(strategy, currentOutputMessage, sensorFrame)
    BY <1>2, <1>3, NothingWasOnItsWay, PadUntouched DEF translatorVars
  <2>2. TrackIsOnItsWay'
    BY <2>1, <1>1, <1>2, <1>3, <1>4 DEF TrackIsOnItsWay, translatorVars
  <2>3. NoTrackTwice(sensorFrame')
    <3>1. \A q \in PixelIds : \A i \in 1..Len(sensorFrame[q]) : sensorFrame[q][i].id # trackId
      BY <1>1, <1>4, FrameIsOfSeqs DEF IsTracked
    <3>2. QED
      BY <1>1, <1>4, <2>1, <3>1, ExtendedHasNoTrackTwice
  <2>4. QED
    BY <2>1, <2>2, <2>3
<1>8. QED
  BY <1>5, <1>6, <1>7

LEMMA SendVelocityKeeps ==
  ASSUME TranslationInv, SendVelocity
  PROVE  TranslationInv'
<1> USE DEF TranslationInv
<1>1. PICK p \in PixelIds, speed \in Speeds : \E i \in DOMAIN sensorFrame[p] :
        /\ sensorFrame[p][i].speed = 0 /\ Send(VelocityMessage(sensorFrame[p][i].id, speed))
        /\ sensorFrame' = WithSpeed(sensorFrame, p, i, speed)
  BY DEF SendVelocity, WithSpeed
<1>2. sensorFrame \in SensorFrames
  BY DEF TypeInv
<1>3. PICK i \in 1..Len(sensorFrame[p]) :
        /\ sensorFrame[p][i].speed = 0 /\ Send(VelocityMessage(sensorFrame[p][i].id, speed))
        /\ sensorFrame' = WithSpeed(sensorFrame, p, i, speed)
  BY <1>1, <1>2, FrameIsOfSeqs
<1>4. /\ inFlight = <<>> /\ inFlight' = <<VelocityMessage(sensorFrame[p][i].id, speed)>>
      /\ messages < MaxMessages /\ messages' = messages + 1
  BY <1>3 DEF Send, CountMessage
<1>5. UNCHANGED <<strategy, translatorVars, sent, rawData, frames, lastFrame, faults>>
  BY DEF SendVelocity
<1>6. TypeInv'
  <2>1. sensorFrame' \in SensorFrames
    BY <1>2, <1>3, FrameMeasured
  <2>2. messages' \in 0..MaxMessages /\ frames' <= messages'
    BY <1>4, <1>5, Sizes DEF TypeInv
  <2>3. \E m \in SensorMessages : inFlight' \in {<<m>>, <<m, m>>}
    <3>1. sensorFrame[p][i].id \in TrackIds
      BY <1>2, FrameIsOfSeqs DEF SensorTrack
    <3>2. QED
      BY <3>1, <1>4, MessagesAreSensors
  <2>4. QED
    BY <2>1, <2>2, <2>3, <1>5 DEF TypeInv, translatorVars
<1>7. PixelInv' /\ SlotInv'
  BY <1>5, TranslatorUntouched
<1>8. FrameInv'
  <2> SUFFICES ASSUME faults = 0, rejected = FALSE
               PROVE  ended = FALSE /\ NoTrackTwice(sensorFrame') /\ PadInv' /\ VelocityIsOnItsWay'
    BY <1>5 DEF FrameInv, translatorVars
  <2>1. /\ ended = FALSE /\ NoTrackTwice(sensorFrame) /\ PadInv'
        /\ Shows(strategy, currentOutputMessage, sensorFrame)
    BY <1>4, <1>5, NothingWasOnItsWay, PadUntouched DEF translatorVars
  <2>2. VelocityIsOnItsWay'
    BY <2>1, <1>2, <1>3, <1>4, <1>5 DEF VelocityIsOnItsWay, translatorVars
  <2>3. NoTrackTwice(sensorFrame')
    BY <1>2, <1>3, <2>1, MeasuredHasNoTrackTwice
  <2>4. QED
    BY <2>1, <2>2, <2>3
<1>9. QED
  BY <1>6, <1>7, <1>8

LEMMA SendEndOfFrameKeeps ==
  ASSUME TranslationInv, SendEndOfFrame
  PROVE  TranslationInv'
<1> USE DEF TranslationInv
<1>1. /\ ~unread /\ frames' = frames + 1 /\ lastFrame' = sensorFrame /\ sensorFrame' = EmptyFrame
      /\ inFlight = <<>> /\ inFlight' = <<EndOfFrameMessage(frames')>>
      /\ messages < MaxMessages /\ messages' = messages + 1
  BY DEF SendEndOfFrame, Send, CountMessage
<1>2. UNCHANGED <<strategy, translatorVars, sent, rawData, faults>>
  BY DEF SendEndOfFrame
<1>3. TypeInv'
  <2>1. sensorFrame' \in SensorFrames /\ lastFrame' \in SensorFrames
    BY <1>1, EmptyFrameIsOne DEF TypeInv
  <2>2. messages' \in 0..MaxMessages /\ frames' <= messages' /\ frames' \in Nat
    BY <1>1, Sizes DEF TypeInv
  <2>3. \E m \in SensorMessages : inFlight' \in {<<m>>, <<m, m>>}
    BY <1>1, <2>2, MessagesAreSensors
  <2>4. QED
    BY <2>1, <2>2, <2>3, <1>2 DEF TypeInv, translatorVars
<1>4. PixelInv' /\ SlotInv'
  BY <1>2, TranslatorUntouched
<1>5. FrameInv'
  <2> SUFFICES ASSUME faults = 0, rejected = FALSE
               PROVE  ended = FALSE /\ NoTrackTwice(sensorFrame') /\ PadInv' /\ EndIsOnItsWay'
    BY <1>2 DEF FrameInv, translatorVars
  <2>1. ended = FALSE /\ PadInv' /\ Shows(strategy, currentOutputMessage, sensorFrame)
    <3>1. ended = FALSE /\ Shows(strategy, currentOutputMessage, sensorFrame)
      BY <1>1, NothingWasOnItsWay
    <3>2. ~unread'
      BY <1>1, <1>2 DEF translatorVars
    <3>3. QED
      BY <3>1, <3>2 DEF PadInv
  <2>2. EndIsOnItsWay'
    BY <2>1, <1>1, <1>2 DEF EndIsOnItsWay, translatorVars
  <2>3. NoTrackTwice(sensorFrame')
    BY <1>1, EmptyFrameIsOne DEF NoTrackTwice
  <2>4. QED
    BY <2>1, <2>2, <2>3
<1>6. QED
  BY <1>3, <1>4, <1>5

LEMMA SendUnrecognizedKeeps ==
  ASSUME TranslationInv, SendUnrecognized
  PROVE  TranslationInv'
<1> USE DEF TranslationInv
<1>1. /\ inFlight = <<>> /\ inFlight' = <<UnrecognizedMessage>>
      /\ messages < MaxMessages /\ messages' = messages + 1
  BY DEF SendUnrecognized, Send, CountMessage
<1>2. UNCHANGED <<strategy, translatorVars, sent, rawData, sensorFrame, frames, lastFrame, faults>>
  BY DEF SendUnrecognized
<1>3. TypeInv'
  <2>1. messages' \in 0..MaxMessages /\ frames' <= messages'
    BY <1>1, <1>2, Sizes DEF TypeInv
  <2>2. \E m \in SensorMessages : inFlight' \in {<<m>>, <<m, m>>}
    BY <1>1, MessagesAreSensors
  <2>3. QED
    BY <2>1, <2>2, <1>2 DEF TypeInv, translatorVars
<1>4. PixelInv' /\ SlotInv'
  BY <1>2, TranslatorUntouched
<1>5. FrameInv'
  <2> SUFFICES ASSUME faults = 0, rejected = FALSE
               PROVE  ended = FALSE /\ NoTrackTwice(sensorFrame') /\ PadInv' /\ NothingIsOnItsWay'
    BY <1>2 DEF FrameInv, translatorVars
  <2>1. /\ ended = FALSE /\ NoTrackTwice(sensorFrame) /\ PadInv'
        /\ Shows(strategy, currentOutputMessage, sensorFrame)
    BY <1>1, <1>2, NothingWasOnItsWay, PadUntouched DEF translatorVars
  <2>2. NothingIsOnItsWay'
    BY <2>1, <1>1, <1>2 DEF NothingIsOnItsWay, translatorVars
  <2>3. QED
    BY <2>1, <2>2, <1>2
<1>6. QED
  BY <1>3, <1>4, <1>5

LEMMA FaultKeeps ==
  ASSUME TranslationInv, Fault
  PROVE  TranslationInv'
<1> USE DEF TranslationInv
<1>1. /\ Len(inFlight) = 1 /\ faults < MaxFaults /\ faults' = faults + 1
      /\ inFlight' \in {<<>>, inFlight \o inFlight}
      /\ UNCHANGED <<strategy, translatorVars, sent, rawData, sensorVars>>
  BY DEF Fault
<1>2. PICK m \in SensorMessages : inFlight \in {<<m>>, <<m, m>>}
  <2>1. Len(<<>>) = 0
    OBVIOUS
  <2>2. inFlight # <<>>
    BY <1>1, <2>1
  <2>3. QED
    BY <2>2 DEF TypeInv
<1>3. inFlight' # <<>> => inFlight' \in {<<m>>, <<m, m>>}
  <2>1. Len(<<m, m>>) = 2
    OBVIOUS
  <2>2. inFlight = <<m>>
    BY <1>1, <1>2, <2>1
  <2>3. <<m>> \o <<m>> = <<m, m>>
    <3>1. <<m>> \in Seq({m}) /\ m \in {m}
      OBVIOUS
    <3>2. <<m>> \o <<m>> = Append(<<m>>, m)
      BY <3>1, AppendIsConcat
    <3>3. Append(<<m>>, m) = <<m, m>>
      <4> DEFINE twice == Append(<<m>>, m)
      <4>1. /\ <<m, m>> \in Seq({m}) /\ Len(<<m, m>>) = 2 /\ Len(<<m>>) = 1 /\ <<m>>[1] = m
            /\ \A i \in 1..2 : <<m, m>>[i] = m
        OBVIOUS
      <4>2. /\ twice \in Seq({m}) /\ Len(twice) = Len(<<m>>) + 1
            /\ \A i \in 1..Len(<<m>>) : twice[i] = <<m>>[i]
            /\ twice[Len(<<m>>) + 1] = m
        BY <3>1, AppendProperties
      <4> HIDE DEF twice
      <4>3. Len(twice) = 2 /\ \A i \in 1..2 : twice[i] = m
        BY <4>1, <4>2
      <4>4. twice = <<m, m>>
        BY <4>1, <4>2, <4>3, SeqEqual
      <4>5. QED
        BY <4>4 DEF twice
    <3>4. QED
      BY <3>2, <3>3
  <2>4. QED
    BY <1>1, <2>2, <2>3
<1>4. faults' \in 0..MaxFaults /\ faults' # 0
  BY <1>1, Sizes DEF TypeInv
<1>5. TypeInv'
  BY <1>1, <1>3, <1>4 DEF TypeInv, translatorVars, sensorVars
<1>6. PixelInv' /\ SlotInv'
  BY <1>1, TranslatorUntouched
<1>7. FrameInv'
  BY <1>4 DEF FrameInv
<1>8. QED
  BY <1>5, <1>6, <1>7

LEMMA TranslateRawDataKeeps ==
  ASSUME TranslationInv, TranslateRawData
  PROVE  TranslationInv'
<1> USE DEF TranslationInv
<1>1. /\ messages < MaxMessages /\ messages' = messages + 1
      /\ UNCHANGED <<strategy, inFlight, translatorVars, sent, sensorFrame, frames, lastFrame, faults>>
  BY DEF TranslateRawData, CountMessage
<1>2. TypeInv'
  <2>1. messages' \in 0..MaxMessages /\ frames' <= messages'
    BY <1>1, Sizes DEF TypeInv
  <2>2. QED
    BY <2>1, <1>1 DEF TypeInv, translatorVars
<1>3. PixelInv' /\ SlotInv'
  BY <1>1, TranslatorUntouched
<1>4. FrameInv'
  <2>1. PadInv => PadInv'
    BY <1>1, PadUntouched DEF translatorVars
  <2>2. QED
    BY <1>1, <2>1 DEF FrameInv, translatorVars, NothingIsOnItsWay, TrackIsOnItsWay,
      VelocityIsOnItsWay, EndIsOnItsWay
<1>5. QED
  BY <1>2, <1>3, <1>4

LEMMA SendMessageKeeps ==
  ASSUME TranslationInv, SendMessage
  PROVE  TranslationInv'
<1> USE DEF TranslationInv
<1>1. /\ unread' = FALSE
      /\ UNCHANGED <<strategy, inFlight, currentOutputMessage, pad, ended, rejected, rawData,
                     sensorVars, faults>>
  BY DEF SendMessage
<1>2. sent' \in AnyMessage /\ sent'.pixels = pad.pixels
  BY MessageSent DEF TypeInv
<1>3. TypeInv'
  BY <1>1, <1>2 DEF TypeInv, sensorVars
<1>4. PixelInv' /\ SlotInv'
  BY <1>1, <1>2 DEF PixelInv, SlotInv, OwnIds, Counter, TracksIn
<1>5. FrameInv'
  <2>1. PadInv'
    BY <1>1 DEF PadInv
  <2>2. QED
    BY <1>1, <2>1 DEF FrameInv, sensorVars, NothingIsOnItsWay, TrackIsOnItsWay,
      VelocityIsOnItsWay, EndIsOnItsWay
<1>6. QED
  BY <1>3, <1>4, <1>5

-----------------------------------------------------------------------------
(* The translator's step keeps the shape, and what a frame shows. *)

LEMMA Dispatch ==
  /\ \A trackId \in TrackIds, p \in PixelIds :
       TranslateById(TrackMessage(trackId, p)) => TranslateDetectionTrackMessage(TrackMessage(trackId, p))
  /\ \A trackId \in TrackIds, speed \in Speeds :
       TranslateById(VelocityMessage(trackId, speed))
         => TranslateDetectionVelocityMessage(VelocityMessage(trackId, speed))
  /\ \A n \in Nat : TranslateById(EndOfFrameMessage(n)) => TranslateEndOfFrameMessage(EndOfFrameMessage(n))
  /\ TranslateById(UnrecognizedMessage) => UNCHANGED translatorVars
<1>1. ASSUME NEW trackId \in TrackIds, NEW p \in PixelIds, TranslateById(TrackMessage(trackId, p))
      PROVE  TranslateDetectionTrackMessage(TrackMessage(trackId, p))
  <2>1. TrackMessage(trackId, p).id = 10
    BY TrackFields DEF DETECTION_TRACK
  <2>2. QED
    BY <1>1, <2>1 DEF TranslateById, DETECTION_TRACK, DETECTION_VELOCITY, END_OF_FRAME
<1>2. ASSUME NEW trackId \in TrackIds, NEW speed \in Speeds, TranslateById(VelocityMessage(trackId, speed))
      PROVE  TranslateDetectionVelocityMessage(VelocityMessage(trackId, speed))
  <2>1. VelocityMessage(trackId, speed).id = 11
    BY VelocityFields DEF DETECTION_VELOCITY
  <2>2. QED
    BY <1>2, <2>1 DEF TranslateById, DETECTION_TRACK, DETECTION_VELOCITY, END_OF_FRAME
<1>3. ASSUME NEW n \in Nat, TranslateById(EndOfFrameMessage(n))
      PROVE  TranslateEndOfFrameMessage(EndOfFrameMessage(n))
  <2>1. EndOfFrameMessage(n).id = 9
    BY EndOfFrameFields DEF END_OF_FRAME
  <2>2. QED
    BY <1>3, <2>1 DEF TranslateById, DETECTION_TRACK, DETECTION_VELOCITY, END_OF_FRAME
<1>4. ASSUME TranslateById(UnrecognizedMessage) PROVE UNCHANGED translatorVars
  BY <1>4, UnrecognizedFields DEF TranslateById, DETECTION_TRACK, DETECTION_VELOCITY, END_OF_FRAME
<1>5. QED
  BY <1>1, <1>2, <1>3, <1>4

LEMMA MessageTaken ==
  ASSUME TypeInv, TranslateMessage
  PROVE  \E m \in SensorMessages :
           /\ inFlight \in {<<m>>, <<m, m>>} /\ inFlight' \in {<<>>, <<m>>}
           /\ Len(inFlight) = 1 => inFlight' = <<>>
           /\ TranslateById(m)
<1>1. inFlight # <<>> /\ inFlight' = Tail(inFlight) /\ TranslateById(Head(inFlight))
  BY DEF TranslateMessage
<1>2. PICK m \in SensorMessages : inFlight \in {<<m>>, <<m, m>>}
  BY <1>1 DEF TypeInv
<1>3. Head(<<m>>) = m /\ Head(<<m, m>>) = m /\ Tail(<<m>>) = <<>> /\ Tail(<<m, m>>) = <<m>>
  OBVIOUS
<1>4. Len(<<m, m>>) = 2
  OBVIOUS
<1>5. Head(inFlight) = m /\ inFlight' \in {<<>>, <<m>>} /\ (Len(inFlight) = 1 => inFlight' = <<>>)
  <2>1. CASE inFlight = <<m>>
    BY <1>1, <1>3, <2>1
  <2>2. CASE inFlight = <<m, m>>
    BY <1>1, <1>3, <1>4, <2>2
  <2>3. QED
    BY <1>2, <2>1, <2>2
<1>6. TranslateById(m)
  BY <1>1, <1>5
<1>7. QED
  BY <1>2, <1>5, <1>6

(* What a translation keeps, whichever message it is of. *)
KeepsShape ==
  /\ currentOutputMessage' \in AnyMessage /\ pad' \in AnyMessage
  /\ ended' \in BOOLEAN /\ unread' \in BOOLEAN /\ rejected' \in BOOLEAN
  /\ rejected' = FALSE => rejected = FALSE
  /\ OwnIds(currentOutputMessage') /\ OwnIds(pad')
  /\ SlotInv'

LEMMA TrackKeepsShape ==
  ASSUME TypeInv, PixelInv, SlotInv, NEW trackId \in TrackIds, NEW p \in PixelIds,
         TranslateDetectionTrackMessage(TrackMessage(trackId, p))
  PROVE  KeepsShape
<1> DEFINE n == Counter(currentOutputMessage, p + 1)
           track == SentTrack(trackId)
           place == p + 1
<1>1. place \in Places /\ p = place - 1
  BY IdsAreUInt16 DEF Places
<1>2. UNCHANGED <<pad, unread, ended>>
  BY DEF TranslateDetectionTrackMessage
<1>3. currentOutputMessage \in AnyMessage /\ rejected \in BOOLEAN /\ pad \in AnyMessage
      /\ unread \in BOOLEAN /\ ended \in BOOLEAN
  BY DEF TypeInv
<1>4. /\ currentOutputMessage' \in AnyMessage /\ SameElsewhere(place)
      /\ currentOutputMessage'.pixels[place].id = p
      /\ \/ /\ n = NUMBER_OF_TRACKS_IN_PIXEL /\ rejected' = TRUE
            /\ Counter(currentOutputMessage', place) = n
            /\ TracksIn(currentOutputMessage', place) = TracksIn(currentOutputMessage, place)
         \/ /\ n < NUMBER_OF_TRACKS_IN_PIXEL /\ rejected' = rejected
            /\ Counter(currentOutputMessage', place) = n + 1
            /\ TracksIn(currentOutputMessage', place) =
                 [TracksIn(currentOutputMessage, place) EXCEPT ![n + 1] = track]
  <2>1. TrackTaken(p, SentTrack(trackId))
    BY <1>3, TrackTranslated
  <2> HIDE DEF track
  <2>2. QED
    BY <2>1 DEF TrackTaken, track
<1>5. rejected' \in BOOLEAN /\ (rejected' = FALSE => rejected = FALSE)
  <2>1. rejected' = TRUE \/ rejected' = rejected
    BY <1>4
  <2>2. QED
    BY <1>3, <2>1
<1>6. OwnIds(currentOutputMessage') /\ OwnIds(pad')
  BY <1>1, <1>2, <1>4 DEF PixelInv, OwnIds, SameElsewhere
<1>7. SlotInv'
  <2> SUFFICES ASSUME NEW q \in Places, NEW i \in Slots, i > Counter(currentOutputMessage', q)
               PROVE  TracksIn(currentOutputMessage', q)[i].id = UNDEFINED_ID
    BY DEF SlotInv, Counter, TracksIn
  <2>1. CASE q # place
    BY <1>4, <2>1 DEF SlotInv, SameElsewhere, Counter, TracksIn
  <2>2. CASE q = place
    <3>1. n \in Int /\ i \in Int
      BY <1>1, <1>3, Sizes DEF AnyMessage, AnyPixel, Counter, Slots
    <3>2. i > n /\ (Counter(currentOutputMessage', place) = n + 1 => i # n + 1)
      BY <1>4, <2>2, <3>1
    <3>3. TracksIn(currentOutputMessage, place)[i].id = UNDEFINED_ID
      BY <1>1, <3>2 DEF SlotInv
    <3>4. TracksIn(currentOutputMessage, place) \in [Slots -> AnyTrack]
      BY <1>1, <1>3 DEF AnyMessage, AnyPixel, TracksIn
    <3> HIDE DEF track, place, n
    <3>5. TracksIn(currentOutputMessage', place)[i] = TracksIn(currentOutputMessage, place)[i]
      BY <1>4, <3>2, <3>4
    <3>6. QED
      BY <2>2, <3>3, <3>5
  <2>3. QED
    BY <2>1, <2>2
<1>8. QED
  BY <1>2, <1>3, <1>4, <1>5, <1>6, <1>7 DEF KeepsShape

LEMMA VelocityKeepsShape ==
  ASSUME TypeInv, PixelInv, SlotInv, NEW trackId \in TrackIds, NEW speed \in Speeds,
         TranslateDetectionVelocityMessage(VelocityMessage(trackId, speed))
  PROVE  KeepsShape
<1>1. UNCHANGED <<pad, unread, rejected>>
  BY DEF TranslateDetectionVelocityMessage
<1>2. currentOutputMessage \in AnyMessage /\ rejected \in BOOLEAN /\ pad \in AnyMessage
      /\ unread \in BOOLEAN /\ ended \in BOOLEAN
  BY DEF TypeInv
<1>3. CASE ended' = TRUE /\ currentOutputMessage' = currentOutputMessage
  BY <1>1, <1>2, <1>3 DEF KeepsShape, PixelInv, SlotInv, OwnIds, Counter, TracksIn
<1>4. ASSUME NEW p \in Places, NEW i \in Slots,
             ended' = ended, VelocityTaken(p, i, speed)
      PROVE  KeepsShape
  <2>1. OwnIds(currentOutputMessage') /\ OwnIds(pad')
    BY <1>1, <1>4 DEF VelocityTaken, PixelInv, OwnIds, SameElsewhere
  <2>2. \A j \in Slots : TracksIn(currentOutputMessage', p)[j].id = TracksIn(currentOutputMessage, p)[j].id
    <3>1. TracksIn(currentOutputMessage, p) \in [Slots -> AnyTrack]
      BY <1>2 DEF AnyMessage, AnyPixel, TracksIn
    <3> DEFINE track == TracksIn(currentOutputMessage, p)[i]
               measured == Measured(track, MeasureOf(speed))
    <3>2. measured.id = track.id
      BY <3>1, Sizes, MeasureIsAny, TrackMeasured
    <3>3. TracksIn(currentOutputMessage', p) = [TracksIn(currentOutputMessage, p) EXCEPT ![i] = measured]
      BY <1>4 DEF VelocityTaken
    <3> HIDE DEF measured
    <3>4. QED
      BY <3>1, <3>2, <3>3
  <2>3. SlotInv'
    <3> SUFFICES ASSUME NEW q \in Places, NEW j \in Slots, j > Counter(currentOutputMessage', q)
                 PROVE  TracksIn(currentOutputMessage', q)[j].id = UNDEFINED_ID
      BY DEF SlotInv, Counter, TracksIn
    <3>1. CASE q # p
      BY <1>4, <3>1 DEF VelocityTaken, SlotInv, SameElsewhere, Counter, TracksIn
    <3>2. CASE q = p
      BY <1>4, <2>2, <3>2 DEF VelocityTaken, SlotInv
    <3>3. QED
      BY <3>1, <3>2
  <2>4. QED
    BY <1>1, <1>2, <1>4, <2>1, <2>3 DEF VelocityTaken, KeepsShape
<1>5. QED
  BY <1>2, <1>3, <1>4, VelocityTranslated

LEMMA EndOfFrameKeepsShape ==
  ASSUME TypeInv, PixelInv, NEW n \in Nat, TranslateEndOfFrameMessage(EndOfFrameMessage(n))
  PROVE  KeepsShape
<1>1. UNCHANGED <<ended, rejected>> /\ unread' = TRUE
  BY DEF TranslateEndOfFrameMessage
<1>2. currentOutputMessage \in AnyMessage /\ rejected \in BOOLEAN /\ pad \in AnyMessage /\ ended \in BOOLEAN
  BY DEF TypeInv
<1>3. /\ pad' \in AnyMessage /\ pad'.pixels = currentOutputMessage.pixels
      /\ currentOutputMessage' \in AnyMessage
      /\ currentOutputMessage'.pixels = DEFAULT_SENSOR_MESSAGE.pixels
  <2>1. FrameTaken
    BY <1>2, EndOfFrameTranslated
  <2>2. QED
    BY <2>1 DEF FrameTaken
<1>4. OwnIds(currentOutputMessage') /\ OwnIds(pad')
  BY <1>3, DefaultMessageIsAny DEF OwnIds, PixelInv
<1>5. SlotInv'
  BY <1>3, DefaultMessageIsAny, DefaultTrackIsAny DEF SlotInv, TracksIn
<1>6. QED
  BY <1>1, <1>2, <1>3, <1>4, <1>5 DEF KeepsShape

LEMMA TranslationKeepsShape ==
  ASSUME TypeInv, PixelInv, SlotInv, NEW m \in SensorMessages, TranslateById(m)
  PROVE  KeepsShape
<1>1. CASE \E trackId \in TrackIds, p \in PixelIds : m = TrackMessage(trackId, p)
  BY <1>1, Dispatch, TrackKeepsShape
<1>2. CASE \E trackId \in TrackIds, speed \in Speeds : m = VelocityMessage(trackId, speed)
  BY <1>2, Dispatch, VelocityKeepsShape
<1>3. CASE \E n \in Nat : m = EndOfFrameMessage(n)
  BY <1>3, Dispatch, EndOfFrameKeepsShape
<1>4. CASE m = UnrecognizedMessage
  <2>1. UNCHANGED <<currentOutputMessage, pad, unread, ended, rejected>>
    BY <1>4, Dispatch DEF translatorVars
  <2>2. QED
    BY <2>1 DEF KeepsShape, TypeInv, PixelInv, SlotInv, OwnIds, Counter, TracksIn
<1>5. QED
  BY <1>1, <1>2, <1>3, <1>4 DEF SensorMessages

(* A message that shows a frame shows it with a track more when that is translated. *)
LEMMA ShownTrackTaken ==
  ASSUME currentOutputMessage \in AnyMessage, rejected' = FALSE,
         NEW frame \in SensorFrames, NEW p \in PixelIds, NEW trackId \in TrackIds,
         Shows(strategy, currentOutputMessage, frame), TrackTaken(p, SentTrack(trackId))
  PROVE  Shows(strategy, currentOutputMessage', WithTrack(frame, p, trackId))
<1> DEFINE n == Len(frame[p])
           place == p + 1
           new == WithTrack(frame, p, trackId)
           track == SentTrack(trackId)
           tracks == TracksIn(currentOutputMessage, place)
<1>1. /\ \A q \in PixelIds \ {p} : new[q] = frame[q]
      /\ n \in Nat /\ Len(new[p]) = n + 1
      /\ \A i \in 1..n : new[p][i] = frame[p][i]
      /\ new[p][n + 1] = [id |-> trackId, speed |-> 0]
  BY FrameExtended
<1>2. track.id = trackId /\ track.speed = Zero /\ DEFAULT_TRACK.speed = Zero
  BY TrackIsAny, DefaultTrackIsAny DEF SentTrack
<1>3. place \in Places /\ tracks \in [Slots -> AnyTrack] /\ n = Counter(currentOutputMessage, place)
  BY IdsAreUInt16 DEF AnyMessage, AnyPixel, TracksIn, Places, Shows
<1>4. /\ SameElsewhere(place) /\ n < NUMBER_OF_TRACKS_IN_PIXEL
      /\ Counter(currentOutputMessage', place) = n + 1
      /\ TracksIn(currentOutputMessage', place) = [tracks EXCEPT ![n + 1] = track]
  BY <1>3 DEF TrackTaken
<1>5. ASSUME NEW q \in PixelIds, q # p
      PROVE  /\ Counter(currentOutputMessage', q + 1) = Counter(currentOutputMessage, q + 1)
             /\ TracksIn(currentOutputMessage', q + 1) = TracksIn(currentOutputMessage, q + 1)
             /\ new[q] = frame[q]
  <2>1. q + 1 \in Places \ {place}
    BY <1>5, IdsAreUInt16 DEF Places, PixelIds
  <2>2. QED
    BY <1>1, <1>4, <1>5, <2>1 DEF SameElsewhere, Counter, TracksIn
<1>6. n + 1 \in Slots
  BY <1>1, <1>4, Sizes DEF Slots
<1> HIDE DEF track, tracks
<1>7. TracksIn(currentOutputMessage', place)[n + 1] = track
  BY <1>3, <1>4, <1>6
<1>8. \A i \in 1..n : TracksIn(currentOutputMessage', place)[i] = tracks[i]
  <2>1. \A i \in 1..n : i \in Slots /\ i # n + 1
    BY <1>1, <1>4, Sizes DEF Slots
  <2> HIDE DEF n, place
  <2>2. QED
    BY <1>3, <1>4, <2>1
<1>9. \A i \in 1..n : /\ tracks[i].id = frame[p][i].id
                      /\ tracks[i].speed = ShownSpeed(strategy, frame[p][i].speed)
  BY DEF Shows, tracks
<1> HIDE DEF new, n
<1>10. ASSUME NEW i \in 1..(n + 1)
       PROVE  /\ TracksIn(currentOutputMessage', place)[i].id = new[p][i].id
              /\ TracksIn(currentOutputMessage', place)[i].speed = ShownSpeed(strategy, new[p][i].speed)
  <2>1. CASE i \in 1..n
    BY <1>1, <1>8, <1>9, <2>1
  <2>2. CASE i = n + 1
    BY <1>1, <1>2, <1>7, <2>2 DEF ShownSpeed
  <2>3. QED
    BY <1>1, <2>1, <2>2
<1>11. Shows(strategy, currentOutputMessage', new)
  <2> SUFFICES ASSUME NEW q \in PixelIds
               PROVE  /\ Counter(currentOutputMessage', q + 1) = Len(new[q])
                      /\ \A i \in 1..Len(new[q]) :
                           /\ TracksIn(currentOutputMessage', q + 1)[i].id = new[q][i].id
                           /\ TracksIn(currentOutputMessage', q + 1)[i].speed =
                                ShownSpeed(strategy, new[q][i].speed)
    BY DEF Shows
  <2>1. CASE q = p
    BY <1>1, <1>4, <1>10, <2>1
  <2>2. CASE q # p
    BY <1>5, <2>2 DEF Shows
  <2>3. QED
    BY <2>1, <2>2
<1>12. QED
  BY <1>11 DEF new

(* The velocity of a track of the frame goes to that track. *)
LEMMA ShownSpeedTaken ==
  ASSUME currentOutputMessage \in AnyMessage, SlotInv,
         NEW frame \in SensorFrames, NEW p \in PixelIds, NEW i \in 1..Len(frame[p]), NEW speed \in Speeds,
         NoTrackTwice(frame), Shows(strategy, currentOutputMessage, frame),
         TranslateDetectionVelocityMessage(VelocityMessage(frame[p][i].id, speed))
  PROVE  ended' = ended /\ Shows(strategy, currentOutputMessage', WithSpeed(frame, p, i, speed))
<1> DEFINE trackId == frame[p][i].id
           new == WithSpeed(frame, p, i, speed)
<1>1. trackId \in TrackIds /\ trackId # UNDEFINED_ID
  BY FrameIsOfSeqs, IdsAreUInt16 DEF SensorTrack
<1>2. speed # 0 /\ speed \in Int
  BY TranslationBounds
<1>3. ASSUME NEW q \in PixelIds
      PROVE  /\ q + 1 \in Places /\ TracksIn(currentOutputMessage, q + 1) \in [Slots -> AnyTrack]
             /\ 1..Len(frame[q]) \subseteq Slots /\ Counter(currentOutputMessage, q + 1) = Len(frame[q])
             /\ Len(frame[q]) \in Nat
  <2>1. q + 1 \in Places
    BY IdsAreUInt16 DEF Places, PixelIds
  <2>2. Counter(currentOutputMessage, q + 1) = Len(frame[q])
    BY DEF Shows
  <2>3. /\ TracksIn(currentOutputMessage, q + 1) \in [Slots -> AnyTrack]
        /\ Counter(currentOutputMessage, q + 1) \in 0..NUMBER_OF_TRACKS_IN_PIXEL
    BY <2>1 DEF AnyMessage, AnyPixel, TracksIn, Counter
  <2>4. QED
    BY <2>1, <2>2, <2>3, Sizes DEF Slots
<1>4. PICK q \in Places, j \in Slots :
        /\ ended' = ended /\ TracksIn(currentOutputMessage, q)[j].id = trackId
        /\ VelocityTaken(q, j, speed)
  <2>1. TracksIn(currentOutputMessage, p + 1)[i].id = trackId
    BY DEF Shows
  <2>2. p + 1 \in Places /\ i \in Slots
    BY <1>3
  <2> HIDE DEF trackId
  <2>3. TranslateDetectionVelocityMessage(VelocityMessage(trackId, speed))
    BY DEF trackId
  <2>4. QED
    BY <1>1, <2>1, <2>2, <2>3, VelocityTranslated
<1>5. q = p + 1 /\ j = i
  <2>1. q - 1 \in PixelIds /\ q = (q - 1) + 1
    BY Sizes DEF Places, PixelIds
  <2>2. ~(j > Counter(currentOutputMessage, q))
    BY <1>1, <1>4 DEF SlotInv
  <2>3. j \in 1..Len(frame[q - 1])
    <3>1. Counter(currentOutputMessage, q) = Len(frame[q - 1]) /\ Len(frame[q - 1]) \in Nat
      BY <1>3, <2>1
    <3>2. QED
      BY <2>2, <3>1, Sizes DEF Slots
  <2>4. TracksIn(currentOutputMessage, q)[j].id = frame[q - 1][j].id
    BY <2>1, <2>3 DEF Shows
  <2>5. q - 1 = p /\ j = i
    <3> DEFINE r == q - 1
    <3>1. r \in PixelIds /\ j \in 1..Len(frame[r]) /\ frame[r][j].id = frame[p][i].id
      BY <1>4, <2>1, <2>3, <2>4
    <3> HIDE DEF r
    <3>2. r = p /\ j = i
      BY <3>1 DEF NoTrackTwice
    <3>3. QED
      BY <3>2 DEF r
  <2>6. QED
    BY <2>1, <2>5
<1> DEFINE tracks == TracksIn(currentOutputMessage, p + 1)
           measured == Measured(tracks[i], MeasureOf(speed))
<1>6. measured.id = tracks[i].id /\ measured.speed = ShownSpeed(strategy, speed)
  <2>1. tracks[i] \in AnyTrack
    BY <1>3
  <2>2. measured.id = tracks[i].id /\ measured.speed = MeasureOf(speed).speed
    BY <2>1, <1>2, MeasureIsAny, TrackMeasured
  <2>3. QED
    BY <1>2, <2>2, MeasureIsAny DEF ShownSpeed
<1>7. /\ SameElsewhere(p + 1) /\ Counter(currentOutputMessage', p + 1) = Counter(currentOutputMessage, p + 1)
      /\ TracksIn(currentOutputMessage', p + 1) = [tracks EXCEPT ![i] = measured]
  BY <1>4, <1>5 DEF VelocityTaken
<1> HIDE DEF measured
<1>8. /\ TracksIn(currentOutputMessage', p + 1)[i] = measured
      /\ \A k \in 1..Len(frame[p]) : k # i => TracksIn(currentOutputMessage', p + 1)[k] = tracks[k]
  BY <1>3, <1>7
<1>9. /\ \A r \in PixelIds \ {p} : new[r] = frame[r]
      /\ Len(new[p]) = Len(frame[p])
      /\ \A k \in 1..Len(frame[p]) : /\ new[p][k].id = frame[p][k].id
                                     /\ new[p][k].speed = IF k = i THEN speed ELSE frame[p][k].speed
  BY FrameMeasured
<1>10. \A k \in 1..Len(frame[p]) : /\ tracks[k].id = frame[p][k].id
                                   /\ tracks[k].speed = ShownSpeed(strategy, frame[p][k].speed)
  BY DEF Shows
<1> HIDE DEF new, tracks, trackId
<1>11. ASSUME NEW k \in 1..Len(frame[p])
       PROVE  /\ TracksIn(currentOutputMessage', p + 1)[k].id = new[p][k].id
              /\ TracksIn(currentOutputMessage', p + 1)[k].speed = ShownSpeed(strategy, new[p][k].speed)
  <2>1. CASE k = i
    BY <1>6, <1>8, <1>9, <1>10, <2>1
  <2>2. CASE k # i
    BY <1>8, <1>9, <1>10, <2>2
  <2>3. QED
    BY <2>1, <2>2
<1>12. Shows(strategy, currentOutputMessage', new)
  <2> SUFFICES ASSUME NEW r \in PixelIds
               PROVE  /\ Counter(currentOutputMessage', r + 1) = Len(new[r])
                      /\ \A k \in 1..Len(new[r]) :
                           /\ TracksIn(currentOutputMessage', r + 1)[k].id = new[r][k].id
                           /\ TracksIn(currentOutputMessage', r + 1)[k].speed =
                                ShownSpeed(strategy, new[r][k].speed)
    BY DEF Shows
  <2>1. CASE r = p
    BY <1>3, <1>7, <1>9, <1>11, <2>1
  <2>2. CASE r # p
    <3>1. r + 1 \in Places \ {p + 1}
      BY <1>3, <2>2, IdsAreUInt16 DEF PixelIds
    <3>2. currentOutputMessage'.pixels[r + 1] = currentOutputMessage.pixels[r + 1] /\ new[r] = frame[r]
      BY <1>7, <1>9, <2>2, <3>1 DEF SameElsewhere
    <3>3. QED
      BY <3>2 DEF Shows, Counter, TracksIn
  <2>3. QED
    BY <2>1, <2>2
<1>13. QED
  BY <1>4, <1>12 DEF new

LEMMA OnlyMessageTaken ==
  ASSUME TranslateMessage, NEW m, inFlight = <<m>>
  PROVE  inFlight' = <<>> /\ TranslateById(m)
<1>1. Head(<<m>>) = m /\ Tail(<<m>>) = <<>>
  OBVIOUS
<1>2. inFlight' = Tail(inFlight) /\ TranslateById(Head(inFlight))
  BY DEF TranslateMessage
<1>3. QED
  BY <1>1, <1>2

LEMMA TranslateMessageKeeps ==
  ASSUME TranslationInv, TranslateMessage
  PROVE  TranslationInv'
<1> USE DEF TranslationInv
<1>1. PICK m \in SensorMessages :
        /\ inFlight \in {<<m>>, <<m, m>>} /\ inFlight' \in {<<>>, <<m>>}
        /\ Len(inFlight) = 1 => inFlight' = <<>>
        /\ TranslateById(m)
  BY MessageTaken
<1>2. UNCHANGED <<strategy, sent, rawData, sensorFrame, frames, lastFrame, messages, faults>>
  BY DEF TranslateMessage, sensorVars
<1>3. KeepsShape
  BY <1>1, TranslationKeepsShape
<1>4. TypeInv'
  <2>1. inFlight' # <<>> => \E message \in SensorMessages : inFlight' \in {<<message>>, <<message, message>>}
    BY <1>1
  <2>2. QED
    BY <1>2, <1>3, <2>1 DEF TypeInv, KeepsShape
<1>5. PixelInv' /\ SlotInv'
  BY <1>2, <1>3 DEF KeepsShape, PixelInv, OwnIds
<1>6. FrameInv'
  <2> SUFFICES ASSUME faults = 0, rejected' = FALSE
               PROVE  ended' = FALSE /\ NoTrackTwice(sensorFrame)' /\ PadInv' /\ NothingIsOnItsWay'
    BY <1>2 DEF FrameInv
  <2>1. /\ ended = FALSE /\ NoTrackTwice(sensorFrame) /\ PadInv
        /\ NothingIsOnItsWay \/ TrackIsOnItsWay \/ VelocityIsOnItsWay \/ EndIsOnItsWay
    BY <1>3 DEF KeepsShape, FrameInv
  <2>2. NoTrackTwice(sensorFrame)'
    BY <1>2, <2>1
  <2>3. currentOutputMessage \in AnyMessage /\ pad \in AnyMessage /\ rejected \in BOOLEAN
    BY DEF TypeInv
  <2>4. CASE NothingIsOnItsWay
    <3>1. inFlight = <<UnrecognizedMessage>>
      BY <2>4 DEF NothingIsOnItsWay, TranslateMessage
    <3>2. inFlight' = <<>> /\ UNCHANGED translatorVars
      BY <3>1, OnlyMessageTaken, Dispatch
    <3>3. NothingIsOnItsWay'
      BY <1>2, <2>4, <3>2 DEF NothingIsOnItsWay, translatorVars
    <3>4. PadInv' /\ ended' = FALSE
      BY <1>2, <2>1, <3>2, PadUntouched DEF translatorVars
    <3>5. QED
      BY <2>2, <3>3, <3>4
  <2>5. CASE TrackIsOnItsWay
    <3>1. PICK frame \in SensorFrames, p \in PixelIds, trackId \in TrackIds :
            /\ inFlight = <<TrackMessage(trackId, p)>> /\ sensorFrame = WithTrack(frame, p, trackId)
            /\ Shows(strategy, currentOutputMessage, frame)
      BY <2>5 DEF TrackIsOnItsWay
    <3>2. inFlight' = <<>> /\ TranslateDetectionTrackMessage(TrackMessage(trackId, p))
      BY <3>1, OnlyMessageTaken, Dispatch
    <3>3. TrackTaken(p, SentTrack(trackId))
      BY <2>3, <3>2, TrackTranslated
    <3>4. Shows(strategy, currentOutputMessage', sensorFrame)
      BY <2>3, <3>1, <3>3, ShownTrackTaken
    <3>5. UNCHANGED <<pad, unread, ended>>
      BY <3>2 DEF TranslateDetectionTrackMessage
    <3>6. PadInv' /\ ended' = FALSE
      BY <1>2, <2>1, <3>5, PadUntouched
    <3>7. QED
      BY <1>2, <2>2, <3>2, <3>4, <3>6 DEF NothingIsOnItsWay
  <2>6. CASE VelocityIsOnItsWay
    <3>1. PICK frame \in SensorFrames, p \in PixelIds, speed \in Speeds : \E i \in 1..Len(frame[p]) :
            /\ frame[p][i].speed = 0 /\ NoTrackTwice(frame)
            /\ inFlight = <<VelocityMessage(frame[p][i].id, speed)>>
            /\ sensorFrame = WithSpeed(frame, p, i, speed)
            /\ Shows(strategy, currentOutputMessage, frame)
      BY <2>6 DEF VelocityIsOnItsWay
    <3>2. PICK i \in 1..Len(frame[p]) :
            /\ frame[p][i].speed = 0 /\ NoTrackTwice(frame)
            /\ inFlight = <<VelocityMessage(frame[p][i].id, speed)>>
            /\ sensorFrame = WithSpeed(frame, p, i, speed)
            /\ Shows(strategy, currentOutputMessage, frame)
      BY <3>1
    <3>3. frame[p][i].id \in TrackIds
      BY FrameIsOfSeqs DEF SensorTrack
    <3>4. inFlight' = <<>> /\ TranslateDetectionVelocityMessage(VelocityMessage(frame[p][i].id, speed))
      BY <3>2, <3>3, OnlyMessageTaken, Dispatch
    <3>5. ended' = ended /\ Shows(strategy, currentOutputMessage', sensorFrame)
      BY <2>3, <3>2, <3>4, ShownSpeedTaken
    <3>6. UNCHANGED <<pad, unread>>
      BY <3>4 DEF TranslateDetectionVelocityMessage
    <3>7. PadInv' /\ ended' = FALSE
      BY <1>2, <2>1, <3>5, <3>6, PadUntouched
    <3>8. QED
      BY <1>2, <2>2, <3>4, <3>5, <3>7 DEF NothingIsOnItsWay
  <2>7. CASE EndIsOnItsWay
    <3>1. /\ inFlight = <<EndOfFrameMessage(frames)>> /\ sensorFrame = EmptyFrame
          /\ Shows(strategy, currentOutputMessage, lastFrame) /\ frames \in Nat
      BY <2>7 DEF EndIsOnItsWay, TypeInv
    <3>2. inFlight' = <<>> /\ TranslateEndOfFrameMessage(EndOfFrameMessage(frames))
      BY <3>1, OnlyMessageTaken, Dispatch
    <3>3. FrameTaken /\ pad'.messageId = frames % 65536
      BY <2>3, <3>1, <3>2, EndOfFrameTranslated
    <3>4. PadInv'
      <4>1. Shows(strategy, pad', lastFrame)
        BY <3>1, <3>3 DEF FrameTaken, Shows, Counter, TracksIn
      <4>2. QED
        BY <1>2, <3>3, <4>1 DEF PadInv
    <3>5. Shows(strategy, currentOutputMessage', EmptyFrame)
      <4> SUFFICES ASSUME NEW p \in PixelIds
                   PROVE  Counter(currentOutputMessage', p + 1) = 0
        BY EmptyFrameIsOne DEF Shows
      <4>1. p + 1 \in Places
        BY IdsAreUInt16 DEF Places
      <4>2. QED
        BY <3>3, <4>1, DefaultMessageIsAny DEF FrameTaken, Counter
    <3>6. ended' = FALSE
      BY <2>1, <3>2 DEF TranslateEndOfFrameMessage
    <3>7. QED
      BY <1>2, <2>2, <3>1, <3>2, <3>4, <3>5, <3>6 DEF NothingIsOnItsWay
  <2>8. QED
    BY <2>1, <2>4, <2>5, <2>6, <2>7
<1>7. QED
  BY <1>4, <1>5, <1>6

LEMMA TranslationInvHoldsAtFirst == Init => TranslationInv
<1> SUFFICES ASSUME Init PROVE TranslationInv
  OBVIOUS
<1>1. TypeInv
  <2>1. 0 \in 0..MaxMessages /\ 0 \in 0..MaxFaults /\ 0 \in Nat /\ 0 <= 0
    BY Sizes
  <2>2. strategy \in Strategies
    BY DEF Init, Strategies
  <2>3. /\ currentOutputMessage \in AnyMessage /\ pad \in AnyMessage /\ sent \in AnyMessage
        /\ sensorFrame \in SensorFrames /\ lastFrame \in SensorFrames
    BY DefaultMessageIsAny, EmptyFrameIsOne DEF Init
  <2>4. frames = 0 /\ messages = 0 /\ faults = 0 /\ inFlight = <<>>
    BY DEF Init
  <2>5. unread = FALSE /\ ended = FALSE /\ rejected = FALSE
    BY DEF Init
  <2>6. QED
    BY <2>1, <2>2, <2>3, <2>4, <2>5 DEF TypeInv
<1>2. PixelInv
  BY DefaultMessageIsAny DEF Init, PixelInv, OwnIds
<1>3. SlotInv
  BY DefaultMessageIsAny, DefaultTrackIsAny DEF Init, SlotInv
<1>4. FrameInv
  <2>1. Shows(strategy, currentOutputMessage, sensorFrame)
    <3> SUFFICES ASSUME NEW p \in PixelIds
                 PROVE  Counter(DEFAULT_SENSOR_MESSAGE, p + 1) = 0
      BY EmptyFrameIsOne DEF Init, Shows
    <3>1. p + 1 \in Places
      BY IdsAreUInt16 DEF Places
    <3>2. QED
      BY <3>1, DefaultMessageIsAny
  <2>2. NoTrackTwice(sensorFrame)
    BY EmptyFrameIsOne DEF Init, NoTrackTwice
  <2>3. QED
    BY <2>1, <2>2 DEF Init, FrameInv, PadInv, NothingIsOnItsWay
<1>5. QED
  BY <1>1, <1>2, <1>3, <1>4 DEF TranslationInv

LEMMA TranslationInvIsKept == TranslationInv /\ [Next]_vars => TranslationInv'
<1> SUFFICES ASSUME TranslationInv, [Next]_vars PROVE TranslationInv'
  OBVIOUS
<1>1. CASE SendTrack
  BY <1>1, SendTrackKeeps
<1>2. CASE SendVelocity
  BY <1>2, SendVelocityKeeps
<1>3. CASE SendEndOfFrame
  BY <1>3, SendEndOfFrameKeeps
<1>4. CASE SendUnrecognized
  BY <1>4, SendUnrecognizedKeeps
<1>5. CASE Fault
  BY <1>5, FaultKeeps
<1>6. CASE TranslateMessage
  BY <1>6, TranslateMessageKeeps
<1>7. CASE SendMessage
  BY <1>7, SendMessageKeeps
<1>8. CASE TranslateRawData
  BY <1>8, TranslateRawDataKeeps
<1>9. CASE UNCHANGED vars
  <2>1. UNCHANGED <<strategy, inFlight, translatorVars, sent, sensorFrame, frames, lastFrame, messages, faults>>
    BY <1>9 DEF vars, sensorVars
  <2>2. TypeInv'
    BY <2>1 DEF TranslationInv, TypeInv, translatorVars
  <2>3. PixelInv' /\ SlotInv'
    BY <2>1, TranslatorUntouched DEF TranslationInv
  <2>4. FrameInv'
    BY <2>1 DEF TranslationInv, FrameInv, PadInv, translatorVars, NothingIsOnItsWay, TrackIsOnItsWay,
      VelocityIsOnItsWay, EndIsOnItsWay
  <2>5. QED
    BY <2>2, <2>3, <2>4 DEF TranslationInv
<1>10. QED
  BY <1>1, <1>2, <1>3, <1>4, <1>5, <1>6, <1>7, <1>8, <1>9 DEF Next

(* In every reachable state the message under construction and the frame of *)
(* the sensor differ by the message on its way and by nothing else.         *)
THEOREM TranslationInvHolds == Spec => []TranslationInv
BY TranslationInvHoldsAtFirst, TranslationInvIsKept, PTL DEF Spec

(* No sequence of messages takes a pixel's counter past its capacity, or   *)
(* gives a pixel the id of another.                                        *)
THEOREM TranslationIsTyped == Spec => []TranslationTypeOK
<1>1. ASSUME TranslationInv PROVE TranslationTypeOK
  <2>1. TypeInv /\ PixelInv
    BY <1>1 DEF TranslationInv
  <2>2. Len(inFlight) <= 2
    <3>1. CASE inFlight = <<>>
      <4>1. Len(<<>>) = 0
        OBVIOUS
      <4>2. QED
        BY <3>1, <4>1
    <3>2. CASE inFlight # <<>>
      <4>1. PICK m \in SensorMessages : inFlight \in {<<m>>, <<m, m>>}
        BY <2>1, <3>2 DEF TypeInv
      <4>2. Len(<<m>>) = 1 /\ Len(<<m, m>>) = 2
        OBVIOUS
      <4>3. CASE inFlight = <<m>>
        BY <4>2, <4>3
      <4>4. CASE inFlight = <<m, m>>
        BY <4>2, <4>4
      <4>5. QED
        BY <4>1, <4>3, <4>4
    <3>3. QED
      BY <3>1, <3>2
  <2>3. faults \in 0..MaxFaults /\ messages \in 0..MaxMessages /\ frames <= messages
    BY <2>1 DEF TypeInv
  <2>4. ASSUME NEW m \in {currentOutputMessage, pad, sent}, NEW p \in Places
        PROVE  /\ m.pixels[p].currentNumberOfTracksInPixel \in 0..NUMBER_OF_TRACKS_IN_PIXEL
               /\ m.pixels[p].id \in {UNDEFINED_ID, p - 1}
               /\ DOMAIN m.pixels[p].tracks = 1..NUMBER_OF_TRACKS_IN_PIXEL
    <3>1. m \in AnyMessage /\ OwnIds(m)
      BY <2>1 DEF TypeInv, PixelInv
    <3>2. m.pixels[p] \in AnyPixel
      BY <3>1 DEF AnyMessage
    <3>3. m.pixels[p].id \in {UNDEFINED_ID, p - 1}
      BY <3>1 DEF OwnIds
    <3>4. QED
      BY <3>2, <3>3 DEF AnyPixel, Slots
  <2>5. QED
    BY <2>2, <2>3, <2>4 DEF TranslationTypeOK, Places
<1>2. QED
  BY <1>1, TranslationInvHolds, PTL

(* The null pointer of fetchTrack is followed only after a message was      *)
(* lost or read twice, or a full pixel has refused a track.                *)
THEOREM VelocitiesFindTheirTracks == Spec => []VelocityFindsItsTrack
<1>1. ASSUME TranslationInv PROVE VelocityFindsItsTrack
  <2>1. faults \in Nat /\ rejected \in BOOLEAN /\ ended \in BOOLEAN
    BY <1>1, Sizes DEF TranslationInv, TypeInv
  <2>2. faults = 0 /\ rejected = FALSE => ended = FALSE
    BY <1>1 DEF TranslationInv, FrameInv
  <2>3. faults = 0 \/ faults > 0
    BY <2>1
  <2>4. QED
    BY <2>1, <2>2, <2>3 DEF VelocityFindsItsTrack
<1>2. QED
  BY <1>1, TranslationInvHolds, PTL

-----------------------------------------------------------------------------
LEMMA ShownIsReceived ==
  ASSUME NEW m \in AnyMessage, NEW frame \in SensorFrames, Shows(strategy, m, frame)
  PROVE  Received(m) = Expected(frame)
<1> DEFINE R(p) == [i \in DOMAIN Detections(m.pixels[p]) |->
                      [id |-> m.pixels[p].tracks[i].id, speed |-> m.pixels[p].tracks[i].speed]]
           E(p) == [i \in DOMAIN frame[p - 1] |->
                      [id |-> frame[p - 1][i].id,
                       speed |-> IF frame[p - 1][i].speed = 0 THEN DEFAULT_TRACK.speed
                                 ELSE InMeters(strategy, frame[p - 1][i].speed)]]
<1>1. ASSUME NEW p \in Places PROVE R(p) = E(p)
  <2>1. p - 1 \in PixelIds /\ (p - 1) + 1 = p
    BY Sizes DEF Places, PixelIds
  <2>2. m.pixels[p] \in AnyPixel
    BY DEF AnyMessage
  <2>3. /\ Counter(m, p) = Len(frame[p - 1])
        /\ \A i \in 1..Len(frame[p - 1]) :
             /\ TracksIn(m, p)[i].id = frame[p - 1][i].id
             /\ TracksIn(m, p)[i].speed = ShownSpeed(strategy, frame[p - 1][i].speed)
    BY <2>1 DEF Shows
  <2>4. DOMAIN Detections(m.pixels[p]) = 1..Len(frame[p - 1])
    BY <2>2, <2>3, PixelShowsDetections DEF Counter
  <2>5. DOMAIN frame[p - 1] = 1..Len(frame[p - 1])
    BY <2>1, FrameIsOfSeqs
  <2>6. QED
    BY <2>3, <2>4, <2>5 DEF TracksIn, ShownSpeed
<1>2. Received(m) = [p \in Places |-> R(p)] /\ Expected(frame) = [p \in Places |-> E(p)]
  BY DEF Received, Expected, Places
<1> HIDE DEF R, E
<1>3. QED
  BY <1>1, <1>2

LEMMA OnlySendMessageSends ==
  ASSUME [Next]_vars, sent' # sent
  PROVE  SendMessage
BY DEF Next, vars, SendTrack, SendVelocity, SendEndOfFrame, SendUnrecognized, Fault, TranslateMessage,
  TranslateRawData

(* What the server's communicator sends is the sensor's last frame, with    *)
(* its speeds, under its number as a uint16_t, and with one time point.    *)
THEOREM FramesArriveWhole == Spec => FramesAreWhole
<1>1. ASSUME TranslationInv, [Next]_vars, sent' # sent, faults = 0, ~rejected
      PROVE  /\ sent'.messageId = frames % 65536 /\ Received(sent') = Expected(lastFrame)
             /\ Len(sent'.timeTracking.gatewayTimestamps.timePoints) = 1
  <2>1. SendMessage /\ unread
    BY <1>1, OnlySendMessageSends DEF SendMessage
  <2>2. pad \in AnyMessage /\ lastFrame \in SensorFrames /\ rejected \in BOOLEAN
    BY <1>1 DEF TranslationInv, TypeInv
  <2>3. pad.messageId = frames % 65536 /\ Shows(strategy, pad, lastFrame)
    BY <1>1, <2>1, <2>2 DEF TranslationInv, FrameInv, PadInv
  <2>4. /\ sent' \in AnyMessage /\ sent'.messageId = pad.messageId /\ sent'.pixels = pad.pixels
        /\ Len(sent'.timeTracking.gatewayTimestamps.timePoints) = 1
    BY <2>1, <2>2, MessageSent
  <2>5. Shows(strategy, sent', lastFrame)
    BY <2>3, <2>4 DEF Shows, Counter, TracksIn
  <2>6. Received(sent') = Expected(lastFrame)
    BY <2>2, <2>4, <2>5, ShownIsReceived
  <2>7. QED
    BY <2>3, <2>4, <2>6
<1>2. TranslationInv /\ [Next]_vars =>
        [sent' # sent /\ faults = 0 /\ ~rejected =>
           /\ sent'.messageId = frames % 65536 /\ Received(sent') = Expected(lastFrame)
           /\ Len(sent'.timeTracking.gatewayTimestamps.timePoints) = 1]_vars
  BY <1>1
<1>3. QED
  BY <1>2, TranslationInvHolds, PTL DEF Spec, FramesAreWhole

-----------------------------------------------------------------------------

(* What FrameAssembly's variables stand for. *)
Assembling == [p \in Places |-> Detections(currentOutputMessage.pixels[p])]
Produced == [id |-> pad.messageId, detections |-> [p \in Places |-> Detections(pad.pixels[p])]]
NoDetections == [p \in Places |-> <<>>]

LEMMA DefaultShowsNoDetections ==
  ASSUME NEW m, m.pixels = DEFAULT_SENSOR_MESSAGE.pixels
  PROVE  [p \in Places |-> Detections(m.pixels[p])] = NoDetections
<1>1. ASSUME NEW p \in Places PROVE Detections(m.pixels[p]) = <<>>
  <2>1. m.pixels[p] \in AnyPixel /\ m.pixels[p].currentNumberOfTracksInPixel = 0
    BY DefaultMessageIsAny DEF AnyMessage, Counter
  <2>2. Detections(m.pixels[p]) \in Seq(AnyTrack) /\ Len(Detections(m.pixels[p])) = 0
    BY <2>1, PixelShowsDetections
  <2>3. QED
    BY <2>2, EmptySeq
<1>2. QED
  BY <1>1 DEF NoDetections

LEMMA TrackIsDetected ==
  ASSUME TypeInv, NEW trackId \in TrackIds, NEW p \in PixelIds,
         TranslateDetectionTrackMessage(TrackMessage(trackId, p))
  PROVE  \/ UNCHANGED <<Assembling, Produced>>
         \/ Frames!Detect(p + 1)
<1> DEFINE place == p + 1
           n == Counter(currentOutputMessage, place)
           old == currentOutputMessage.pixels[place]
           new == currentOutputMessage'.pixels[place]
           track == SentTrack(trackId)
<1>1. currentOutputMessage \in AnyMessage /\ rejected \in BOOLEAN /\ place \in Places
  BY IdsAreUInt16 DEF TypeInv, Places
<1>2. TrackTaken(p, SentTrack(trackId))
  BY <1>1, TrackTranslated
<1>3. Produced' = Produced
  BY DEF TranslateDetectionTrackMessage, Produced
<1>4. \A q \in Places \ {place} : currentOutputMessage'.pixels[q] = currentOutputMessage.pixels[q]
  BY <1>2 DEF TrackTaken, SameElsewhere
<1>5. CASE /\ Counter(currentOutputMessage', place) = n
           /\ TracksIn(currentOutputMessage', place) = TracksIn(currentOutputMessage, place)
  <2>1. Detections(new) = Detections(old)
    BY <1>5 DEF Detections, Counter, TracksIn
  <2>2. \A q \in Places : Detections(currentOutputMessage'.pixels[q]) = Detections(currentOutputMessage.pixels[q])
    BY <1>4, <2>1
  <2>3. Assembling' = Assembling
    BY <2>2 DEF Assembling
  <2>4. QED
    BY <1>3, <2>3
<1>6. CASE /\ n < NUMBER_OF_TRACKS_IN_PIXEL
           /\ Counter(currentOutputMessage', place) = n + 1
           /\ TracksIn(currentOutputMessage', place) =
                [TracksIn(currentOutputMessage, place) EXCEPT ![n + 1] = track]
  <2>1. track \in AnyTrack
    BY TrackIsAny DEF SentTrack
  <2>2. old \in AnyPixel /\ new \in AnyPixel
    BY <1>1, <1>2 DEF AnyMessage, TrackTaken
  <2>3. /\ Detections(old) \in Seq(AnyTrack) /\ Len(Detections(old)) = n
        /\ \A i \in 1..n : Detections(old)[i] = old.tracks[i]
        /\ n \in Nat /\ old.tracks \in [Slots -> AnyTrack]
    BY <2>2, PixelShowsDetections, Sizes DEF AnyPixel, Counter
  <2>4. /\ Detections(new) \in Seq(AnyTrack) /\ Len(Detections(new)) = n + 1
        /\ \A i \in 1..(n + 1) : Detections(new)[i] = new.tracks[i]
    <3>1. new.currentNumberOfTracksInPixel = n + 1
      BY <1>6 DEF Counter
    <3> HIDE DEF n
    <3>2. QED
      BY <3>1, <2>2, PixelShowsDetections
  <2>5. new.tracks = [old.tracks EXCEPT ![n + 1] = track]
    BY <1>6 DEF TracksIn
  <2>6. Detections(new) = Append(Detections(old), track)
    <3> DEFINE more == Append(Detections(old), track)
    <3>1. /\ more \in Seq(AnyTrack) /\ Len(more) = n + 1
          /\ \A i \in 1..n : more[i] = Detections(old)[i]
          /\ more[n + 1] = track
      BY <2>1, <2>3, AppendProperties
    <3> HIDE DEF more, track, n, old, new
    <3>2. n + 1 \in Slots /\ \A i \in 1..n : i \in Slots /\ i # n + 1
      BY <1>6, <2>3, Sizes DEF Slots
    <3>3. new.tracks[n + 1] = track /\ \A i \in 1..n : new.tracks[i] = old.tracks[i]
      BY <2>3, <2>5, <3>2
    <3>4. ASSUME NEW i \in 1..(n + 1) PROVE Detections(new)[i] = more[i]
      <4>1. CASE i \in 1..n
        BY <2>3, <2>4, <3>1, <3>3, <4>1
      <4>2. CASE i = n + 1
        BY <2>4, <3>1, <3>3, <4>2
      <4>3. QED
        BY <2>3, <4>1, <4>2
    <3>5. Detections(new) = more
      BY <2>4, <3>1, <3>4, SeqEqual
    <3>6. QED
      BY <3>5 DEF more
  <2>7. Assembling' = [Assembling EXCEPT ![place] = Append(@, track)]
    <3>1. Assembling' = [q \in Places |-> Detections(currentOutputMessage'.pixels[q])]
      BY DEF Assembling
    <3> HIDE DEF track, place
    <3>2. QED
      BY <1>1, <1>4, <2>6, <3>1 DEF Assembling
  <2>8. Assembling[place] = Detections(old)
    BY <1>1 DEF Assembling
  <2>9. track \in SentTracks
    <3>1. 0 \in PixelIds /\ strategy \in Strategies
      BY Sizes DEF PixelIds, TypeInv
    <3>2. TrackOf(strategy, TrackMessage(trackId, 0)) = track
      BY <3>1, TrackFields DEF SentTrack
    <3> HIDE DEF track
    <3>3. QED
      BY <3>1, <3>2 DEF SentTracks
  <2>10. Len(Assembling[place]) < NUMBER_OF_TRACKS_IN_PIXEL
    BY <1>6, <2>3, <2>8
  <2> HIDE DEF track, place, n
  <2>11. Frames!Detect(place)
    BY <1>3, <2>7, <2>9, <2>10 DEF Frames!Detect, Assembling, Produced, Places
  <2>12. QED
    BY <2>11 DEF place
<1>7. QED
  BY <1>2, <1>5, <1>6 DEF TrackTaken

LEMMA TrackIsMeasured ==
  ASSUME TypeInv, SlotInv, NEW trackId \in TrackIds, NEW speed \in Speeds,
         TranslateDetectionVelocityMessage(VelocityMessage(trackId, speed))
  PROVE  \/ UNCHANGED <<Assembling, Produced>>
         \/ \E p \in Places : Frames!Measure(p)
<1>1. currentOutputMessage \in AnyMessage
  BY DEF TypeInv
<1>2. Produced' = Produced
  BY DEF TranslateDetectionVelocityMessage, Produced
<1>3. CASE currentOutputMessage' = currentOutputMessage
  BY <1>2, <1>3 DEF Assembling
<1>4. ASSUME NEW p \in Places, NEW i \in Slots,
             TracksIn(currentOutputMessage, p)[i].id = trackId, VelocityTaken(p, i, speed)
      PROVE  Frames!Measure(p)
  <2> DEFINE n == Counter(currentOutputMessage, p)
             old == currentOutputMessage.pixels[p]
             new == currentOutputMessage'.pixels[p]
             m == MeasureOf(speed)
             measured == Measured(old.tracks[i], m)
  <2>1. old \in AnyPixel /\ new \in AnyPixel
    BY <1>1, <1>4 DEF AnyMessage, VelocityTaken
  <2>2. /\ Detections(old) \in Seq(AnyTrack) /\ Len(Detections(old)) = n
        /\ DOMAIN Detections(old) = 1..n
        /\ \A j \in 1..n : Detections(old)[j] = old.tracks[j]
        /\ n \in 0..NUMBER_OF_TRACKS_IN_PIXEL /\ old.tracks \in [Slots -> AnyTrack]
    BY <2>1, PixelShowsDetections DEF AnyPixel, Counter
  <2>3. /\ Detections(new) \in Seq(AnyTrack) /\ Len(Detections(new)) = n
        /\ \A j \in 1..n : Detections(new)[j] = new.tracks[j]
    <3>1. new.currentNumberOfTracksInPixel = n
      BY <1>4 DEF VelocityTaken, Counter
    <3> HIDE DEF n
    <3>2. QED
      BY <3>1, <2>1, PixelShowsDetections
  <2>4. new.tracks = [old.tracks EXCEPT ![i] = measured]
    BY <1>4 DEF VelocityTaken, TracksIn
  <2>5. i \in 1..n
    <3>1. ~(i > n)
      BY <1>4, IdsAreUInt16 DEF SlotInv
    <3>2. QED
      BY <3>1, <2>2, Sizes DEF Slots
  <2>6. measured \in AnyTrack
    <3>1. old.tracks[i] \in AnyTrack
      BY <2>2
    <3> HIDE DEF old
    <3>2. QED
      BY <3>1, Sizes, MeasureIsAny, TrackMeasured
  <2>7. Detections(new) = [Detections(old) EXCEPT ![i] = measured]
    <3> DEFINE changed == [Detections(old) EXCEPT ![i] = measured]
    <3>1. /\ changed \in Seq(AnyTrack) /\ Len(changed) = n
          /\ \A j \in 1..n : changed[j] = IF j = i THEN measured ELSE Detections(old)[j]
      <4> HIDE DEF measured, n, old
      <4>1. QED
        BY <2>2, <2>5, <2>6, ExceptSeq
    <3>2. \A j \in 1..n : j \in Slots
      BY <2>2, Sizes DEF Slots
    <3> HIDE DEF changed, measured, n, old, new
    <3>3. \A j \in 1..n : Detections(new)[j] = changed[j]
      BY <2>2, <2>3, <2>4, <3>1, <3>2
    <3>4. Detections(new) = changed
      BY <2>3, <3>1, <3>3, SeqEqual
    <3>5. QED
      BY <3>4 DEF changed
  <2>8. measured = [Detections(old)[i] EXCEPT !.distance = m.distance, !.speed = m.speed,
                                              !.acceleration = m.acceleration]
    BY <2>2, <2>5 DEF Measured
  <2>9. /\ Assembling[p] = Detections(old)
        /\ Assembling' = [Assembling EXCEPT ![p] = Detections(new)]
    <3>1. Assembling' = [q \in Places |-> Detections(currentOutputMessage'.pixels[q])]
      BY DEF Assembling
    <3>2. \A q \in Places \ {p} : currentOutputMessage'.pixels[q] = currentOutputMessage.pixels[q]
      BY <1>4 DEF VelocityTaken, SameElsewhere
    <3>3. QED
      BY <3>1, <3>2 DEF Assembling
  <2>10. m \in SentMeasures
    <3>1. strategy \in Strategies
      BY DEF TypeInv
    <3>2. Measure(strategy, VelocityMessage(0, speed)) = m
      BY VelocityMeasure DEF MeasureOf
    <3> HIDE DEF m
    <3>3. QED
      BY <3>1, <3>2 DEF SentMeasures
  <2>11. Assembling' = [Assembling EXCEPT ![p][i] =
            [@ EXCEPT !.distance = m.distance, !.speed = m.speed, !.acceleration = m.acceleration]]
    <3> HIDE DEF m, old, new, measured
    <3>1. Assembling' = [Assembling EXCEPT ![p] = [Assembling[p] EXCEPT ![i] =
            [Assembling[p][i] EXCEPT !.distance = m.distance, !.speed = m.speed,
                                     !.acceleration = m.acceleration]]]
      BY <2>7, <2>8, <2>9
    <3>2. QED
      BY <3>1
  <2>12. i \in DOMAIN Assembling[p]
    BY <2>2, <2>5, <2>9
  <2> HIDE DEF m
  <2>13. QED
    BY <1>2, <2>10, <2>11, <2>12 DEF Frames!Measure, Assembling, Produced, Places
<1>5. QED
  BY <1>1, <1>3, <1>4, VelocityTranslated

LEMMA FrameIsEnded ==
  ASSUME TypeInv, NEW n \in Nat, TranslateEndOfFrameMessage(EndOfFrameMessage(n))
  PROVE  Frames!EndFrame
<1>1. FrameTaken
  BY EndOfFrameTranslated DEF TypeInv
<1>2. Assembling' = NoDetections
  BY <1>1, DefaultShowsNoDetections DEF FrameTaken, Assembling
<1>3. pad'.messageId \in 0..UNDEFINED_ID
  <2>1. pad'.messageId \in Nat /\ pad'.messageId <= 65535
    BY <1>1 DEF FrameTaken, AnyMessage, UInt16
  <2>2. UNDEFINED_ID \in Int /\ pad'.messageId <= UNDEFINED_ID
    BY <2>1 DEF UNDEFINED_ID
  <2>3. QED
    BY <2>1, <2>2
<1>4. Produced' = [id |-> pad'.messageId, detections |-> Assembling]
  BY <1>1 DEF FrameTaken, Produced, Assembling
<1>5. Produced' \in [id : 0..UNDEFINED_ID, detections : {Assembling}]
  BY <1>3, <1>4
<1>6. QED
  BY <1>2, <1>5 DEF Frames!EndFrame, Frames!Empty, Assembling, Produced, NoDetections, Places

(* Every translation is a step of FrameAssembly or changes no detection,    *)
(* with or without faults: a refused track is a stutter, a velocity that   *)
(* finds a track measures one of this frame, and an end empties it.        *)
THEOREM TranslationAssemblesFrames == Spec => FramesAreAssembled
<1>1. Init => Frames!Init
  <2> SUFFICES ASSUME Init PROVE Frames!Init
    OBVIOUS
  <2>1. Assembling = NoDetections /\ Produced = [id |-> 0, detections |-> NoDetections]
    BY DefaultShowsNoDetections, DefaultMessageIsAny DEF Init, Assembling, Produced
  <2>2. QED
    BY <2>1 DEF Frames!Init, Frames!Empty, Assembling, Produced, NoDetections, Places
<1>2. TranslationInv /\ [Next]_vars => [Frames!Next]_Frames!frameVars
  <2> SUFFICES ASSUME TranslationInv, [Next]_vars
               PROVE  Frames!Next \/ UNCHANGED <<Assembling, Produced>>
    BY DEF Frames!frameVars, Assembling, Produced, Places
  <2>1. CASE TranslateMessage
    <3>1. TypeInv /\ SlotInv
      BY DEF TranslationInv
    <3>2. PICK m \in SensorMessages : TranslateById(m)
      BY <2>1, <3>1, MessageTaken
    <3>3. CASE \E trackId \in TrackIds, p \in PixelIds : m = TrackMessage(trackId, p)
      <4>1. PICK trackId \in TrackIds, p \in PixelIds : m = TrackMessage(trackId, p)
        BY <3>3
      <4>2. Frames!Detect(p + 1) \/ UNCHANGED <<Assembling, Produced>>
        BY <3>1, <3>2, <4>1, Dispatch, TrackIsDetected
      <4>3. p + 1 \in 1..NUMBER_OF_PIXELS
        BY IdsAreUInt16
      <4>4. QED
        BY <4>2, <4>3 DEF Frames!Next
    <3>4. CASE \E trackId \in TrackIds, speed \in Speeds : m = VelocityMessage(trackId, speed)
      <4>1. (\E p \in Places : Frames!Measure(p)) \/ UNCHANGED <<Assembling, Produced>>
        BY <3>1, <3>2, <3>4, Dispatch, TrackIsMeasured
      <4>2. QED
        BY <4>1 DEF Frames!Next, Places
    <3>5. CASE \E n \in Nat : m = EndOfFrameMessage(n)
      <4>1. Frames!EndFrame
        BY <3>1, <3>2, <3>5, Dispatch, FrameIsEnded
      <4>2. QED
        BY <4>1 DEF Frames!Next
    <3>6. CASE m = UnrecognizedMessage
      BY <3>2, <3>6, Dispatch DEF translatorVars, Assembling, Produced
    <3>7. QED
      BY <3>3, <3>4, <3>5, <3>6 DEF SensorMessages
  <2>2. CASE ~TranslateMessage
    <3>1. UNCHANGED <<currentOutputMessage, pad>>
      BY <2>2 DEF Next, vars, translatorVars, SendTrack, SendVelocity, SendEndOfFrame, SendUnrecognized,
        Fault, SendMessage, TranslateRawData
    <3>2. QED
      BY <3>1 DEF Assembling, Produced
  <2>3. QED
    BY <2>1, <2>2
<1>3. QED
  BY <1>1, <1>2, TranslationInvHolds, PTL DEF Spec, FramesAreAssembled, Frames!Spec

-----------------------------------------------------------------------------
(* Raw data.                                                               *)

(* The two bytes of an int16_t, the sign in the high one. *)
LEMMA BytesOfInt16 ==
  ASSUME NEW n \in Int, ToInt16(n) = n
  PROVE  /\ Low(n) \in 0..255 /\ High(n) \in 0..255
         /\ (n % 65536) - (n % 256) = 256 * High(n)
         /\ n >= 0 <=> High(n) <= 127
<1>1. n >= -32768 /\ n <= 32767
  BY DEF ToInt16
<1>2. /\ Low(n) \in Nat /\ Low(n) <= 255 /\ High(n) \in Nat /\ High(n) <= 255
      /\ 256 * High(n) + Low(n) = n % 65536
  BY TwoBytes
<1>3. n % 65536 = IF n >= 0 THEN n ELSE n + 65536
  BY <1>1
<1>4. n >= 0 <=> High(n) <= 127
  BY <1>1, <1>2, <1>3
<1>5. (n % 65536) - (n % 256) = 256 * High(n)
  BY <1>2 DEF Low
<1>6. QED
  BY <1>2, <1>4, <1>5

(* A high byte that is shifted as an int16_t. *)
LEMMA HighByteShifted ==
  ASSUME NEW h \in 0..255
  PROVE  ToInt16(256 * h) \div 256 = IF h <= 127 THEN h ELSE h - 256
<1>1. CASE h <= 127
  <2>1. ToInt16(256 * h) = 256 * h
    BY <1>1 DEF ToInt16
  <2>2. QED
    BY <1>1, <2>1
<1>2. CASE h >= 128
  <2>1. ToInt16(256 * h) = 256 * (h - 256)
    BY <1>2 DEF ToInt16
  <2>2. QED
    BY <1>2, <2>1
<1>3. QED
  BY <1>1, <1>2

(* The bytes of what is made of two: of the low one shifted and the high   *)
(* one, and of a high byte whose sign has been extended.                   *)
LEMMA BytesCombined ==
  \A l, h \in 0..255 : /\ Low(ToInt16(h + l * 256)) = h
                       /\ High(ToInt16(h + l * 256)) = l
<1> SUFFICES ASSUME NEW l \in 0..255, NEW h \in 0..255
             PROVE  /\ Low(ToInt16(h + l * 256)) = h
                    /\ High(ToInt16(h + l * 256)) = l
  OBVIOUS
<1>1. CASE l <= 127
  <2>1. ToInt16(h + l * 256) = h + l * 256
    BY <1>1 DEF ToInt16
  <2>2. (h + l * 256) % 256 = h /\ (h + l * 256) \div 256 = l /\ l % 256 = l
    OBVIOUS
  <2>3. QED
    BY <2>1, <2>2 DEF Low, High
<1>2. CASE l >= 128
  <2>1. ToInt16(h + l * 256) = h + (l - 256) * 256
    BY <1>2 DEF ToInt16
  <2>2. /\ (h + (l - 256) * 256) % 256 = h
        /\ (h + (l - 256) * 256) \div 256 = l - 256
        /\ (l - 256) % 256 = l
    BY <1>2
  <2>3. QED
    BY <2>1, <2>2 DEF Low, High
<1>3. QED
  BY <1>1, <1>2

LEMMA BytesOfExtendedSign ==
  ASSUME NEW h \in 128..255
  PROVE  Low(h - 256) = h /\ High(h - 256) = 255
<1>1. (h - 256) % 256 = h
  OBVIOUS
<1>2. (h - 256) \div 256 = 0 - 1
  OBVIOUS
<1>3. \A k \in Int : k + 1 = 0 => k % 256 = 255
  OBVIOUS
<1>4. QED
  BY <1>1, <1>2, <1>3 DEF Low, High

(* reverseEndiannessOfInt16 exchanges the bytes of a sample that is not     *)
(* negative; of one that is, the high byte comes out as 0xFF.              *)
LEMMA SampleReversed ==
  ASSUME NEW n \in Int, ToInt16(n) = n
  PROVE  /\ Low(ReverseEndiannessOfInt16(n)) = High(n)
         /\ High(ReverseEndiannessOfInt16(n)) = IF n >= 0 THEN Low(n) ELSE 255
<1> DEFINE l == Low(n)
           h == High(n)
<1>1. /\ l \in 0..255 /\ h \in 0..255 /\ (n % 65536) - (n % 256) = 256 * h
      /\ n >= 0 <=> h <= 127
  BY BytesOfInt16
<1>2. ToInt16(256 * h) \div 256 = IF h <= 127 THEN h ELSE h - 256
  BY <1>1, HighByteShifted
<1>3. ReverseEndiannessOfInt16(n) =
        LET highByte == ToInt16(256 * h) \div 256
        IN  IF highByte < 0 THEN highByte ELSE ToInt16(highByte + l * 256)
  BY <1>1 DEF ReverseEndiannessOfInt16, Low
<1> HIDE DEF l, h
<1>4. CASE h <= 127
  <2>1. ReverseEndiannessOfInt16(n) = ToInt16(h + l * 256)
    BY <1>1, <1>2, <1>3, <1>4
  <2>2. l \in 0..255 /\ h \in 0..255
    BY <1>1
  <2>3. Low(ToInt16(h + l * 256)) = h /\ High(ToInt16(h + l * 256)) = l
    BY <2>2, BytesCombined
  <2>4. n >= 0
    BY <1>1, <1>4
  <2>5. QED
    BY <2>1, <2>3, <2>4 DEF l, h
<1>5. CASE h >= 128
  <2>1. ReverseEndiannessOfInt16(n) = h - 256
    BY <1>1, <1>2, <1>3, <1>5
  <2>2. h \in 128..255 /\ ~(n >= 0)
    BY <1>1, <1>5
  <2>3. QED
    BY <2>1, <2>2, BytesOfExtendedSign DEF h
<1>6. QED
  BY <1>1, <1>4, <1>5

(* The cycle translated last is one of the sensor's, in the order of the    *)
(* channels, each sample reversed.                                         *)
RawDataInv ==
  \/ rawData.translated = <<>>
  \/ /\ rawData.given \in RawContents
     /\ rawData.translated = ReverseRawDataEndianness(OrderRawData(rawData.given))

LEMMA Positions == \A i \in 1..16 : CHANNEL_POSITIONS[i] + 1 \in 1..16
  BY DEF CHANNEL_POSITIONS

LEMMA CycleReversed ==
  ASSUME NEW content \in RawContents, NEW i \in 1..16
  PROVE  LET translated == ReverseRawDataEndianness(OrderRawData(content))
         IN  /\ DOMAIN translated = 1..16
             /\ translated[i] = ReverseEndiannessOfInt16(content[CHANNEL_POSITIONS[i] + 1])
<1>1. Len(CHANNEL_POSITIONS) = 16
  BY DEF CHANNEL_POSITIONS
<1>2. DOMAIN OrderRawData(content) = 1..16
  BY <1>1 DEF OrderRawData
<1>3. OrderRawData(content)[i] = content[CHANNEL_POSITIONS[i] + 1]
  BY <1>1 DEF OrderRawData
<1>4. QED
  BY <1>2, <1>3 DEF ReverseRawDataEndianness

(* Of every cycle of raw data, whatever the samples, each one arrives in    *)
(* its channel's place with its bytes exchanged, but the low byte of a     *)
(* negative one, in whose place 0xFF arrives.                              *)
THEOREM SignsAloneAreLost == Spec => []OnlySignsAreLost
<1>1. Init => RawDataInv
  BY DEF Init, RawDataInv
<1>2. RawDataInv /\ [Next]_vars => RawDataInv'
  <2> SUFFICES ASSUME RawDataInv, [Next]_vars PROVE RawDataInv'
    OBVIOUS
  <2>1. CASE TranslateRawData
    BY <2>1 DEF TranslateRawData, RawDataInv
  <2>2. CASE UNCHANGED rawData
    BY <2>2 DEF RawDataInv
  <2>3. QED
    BY <2>1, <2>2 DEF Next, vars, SendTrack, SendVelocity, SendEndOfFrame, SendUnrecognized,
      Fault, TranslateMessage, SendMessage
<1>3. RawDataInv => OnlySignsAreLost
  <2> SUFFICES ASSUME RawDataInv, NEW i \in DOMAIN rawData.translated
               PROVE  LET sample == rawData.given[CHANNEL_POSITIONS[i] + 1]
                      IN  /\ Low(rawData.translated[i]) = High(sample)
                          /\ High(rawData.translated[i]) =
                               IF sample >= 0 THEN Low(sample) ELSE 255
    BY DEF OnlySignsAreLost
  <2>1. CASE rawData.translated = <<>>
    BY <2>1
  <2>2. CASE /\ rawData.given \in RawContents
             /\ rawData.translated = ReverseRawDataEndianness(OrderRawData(rawData.given))
    <3> DEFINE sample == rawData.given[CHANNEL_POSITIONS[i] + 1]
    <3>1. 1 \in 1..16 /\ i \in 1..16
      BY <2>2, CycleReversed
    <3>2. rawData.translated[i] = ReverseEndiannessOfInt16(sample)
      BY <2>2, <3>1, CycleReversed
    <3>3. sample \in Int /\ ToInt16(sample) = sample
      BY <2>2, <3>1, Positions, RawDataAreInt16
    <3>4. QED
      BY <3>2, <3>3, SampleReversed
  <2>3. QED
    BY <2>1, <2>2 DEF RawDataInv
<1>4. QED
  BY <1>1, <1>2, <1>3, PTL DEF Spec
=============================================================================
