--------------------------- MODULE SpiritMessage ---------------------------
(***************************************************************************)
(* The messages of a sensor and those for the server: tracks in pixels,    *)
(* pixels in a message, and the time points a message collects.  A copy of *)
(* a record is the record, and two are the same when all fields are, but   *)
(* where an operator says otherwise.                                       *)
(***************************************************************************)
EXTENDS Naturals, Sequences, SequencesExt

CONSTANTS NUMBER_OF_PIXELS, NUMBER_OF_TRACKS_IN_PIXEL

ASSUME SpiritSizes ==
  NUMBER_OF_PIXELS \in 1..65535 /\ NUMBER_OF_TRACKS_IN_PIXEL \in Nat \ {0}

UNDEFINED_ID == 65535

-----------------------------------------------------------------------------

Track(id, confidenceLevel, intensity, acceleration, distance, speed) ==
  [id |-> id, confidenceLevel |-> confidenceLevel, intensity |-> intensity,
   acceleration |-> acceleration, distance |-> distance, speed |-> speed]

(* Numbers of type double are pairs: a numerator and a denominator. *)
Zero == <<0, 1>>

DEFAULT_TRACK == Track(UNDEFINED_ID, 0, Zero, Zero, Zero, Zero)

-----------------------------------------------------------------------------

Pixel(id, tracks, currentNumberOfTracksInPixel) ==
  [id |-> id, tracks |-> tracks,
   currentNumberOfTracksInPixel |-> currentNumberOfTracksInPixel]

DEFAULT_PIXEL ==
  Pixel(UNDEFINED_ID, [i \in 1..NUMBER_OF_TRACKS_IN_PIXEL |-> DEFAULT_TRACK], 0)

(* Faulty: a pixel is full when it has more than it can hold. *)
IsFullLate(pixel) == pixel.currentNumberOfTracksInPixel > NUMBER_OF_TRACKS_IN_PIXEL

(* validateNotFull throws a TRANSLATION_ERROR. *)
IsFull(pixel) == pixel.currentNumberOfTracksInPixel >= NUMBER_OF_TRACKS_IN_PIXEL

AddTrack(pixel, track) ==
  LET n == pixel.currentNumberOfTracksInPixel + 1
  IN  [pixel EXCEPT !.tracks[n] = track, !.currentNumberOfTracksInPixel = n]

(* Faulty: the last slot is not searched. *)
DoesTrackExistBeforeLast(pixel, trackId) ==
  \E i \in DOMAIN pixel.tracks \ {NUMBER_OF_TRACKS_IN_PIXEL} : pixel.tracks[i].id = trackId

(* Every slot is searched, those of no track too. *)
DoesTrackExist(pixel, trackId) == \E i \in DOMAIN pixel.tracks : pixel.tracks[i].id = trackId

FetchTrackById(pixel, trackId) == SelectInSeq(pixel.tracks, LAMBDA track : track.id = trackId)

(* What a pixel holds, as its counter has it. *)
Detections(pixel) == SubSeq(pixel.tracks, 1, pixel.currentNumberOfTracksInPixel)

-----------------------------------------------------------------------------

(* Time points are told apart by where they are taken, and a list of them  *)
(* has as many as its counter says.                                        *)
TimePoint(location) == [location |-> location]

ServiceTimestamps(maximumSize, timePoints) ==
  [maximumSize |-> maximumSize, timePoints |-> timePoints]

NUMBER_OF_SENSOR_TIME_POINTS == 4
NUMBER_OF_GATEWAY_TIME_POINTS == 5

TimeTracking(sensorTimestamps, gatewayTimestamps) ==
  [sensorTimestamps |-> sensorTimestamps, gatewayTimestamps |-> gatewayTimestamps]

DEFAULT_SERVICE_TIMESTAMPS(maximumSize) == ServiceTimestamps(maximumSize, <<>>)

DEFAULT_TIME_TRACKING ==
  TimeTracking(DEFAULT_SERVICE_TIMESTAMPS(NUMBER_OF_SENSOR_TIME_POINTS),
               DEFAULT_SERVICE_TIMESTAMPS(NUMBER_OF_GATEWAY_TIME_POINTS))

(* validateNotFull throws a TIME_POINTS_ERROR. *)
IsFullOfTimePoints(timestamps) == Len(timestamps.timePoints) >= timestamps.maximumSize

AddTimePointForLocation(timestamps, location) ==
  [timestamps EXCEPT !.timePoints = Append(@, TimePoint(location))]

AddTimePointForGateway(timeTracking, location) ==
  [timeTracking EXCEPT !.gatewayTimestamps = AddTimePointForLocation(@, location)]

-----------------------------------------------------------------------------

SensorMessage(messageId, sensorId, pixels, timeTracking) ==
  [messageId |-> messageId, sensorId |-> sensorId, pixels |-> pixels,
   timeTracking |-> timeTracking]

(* DEFAULT_SENSOR_ID is -1 as a uint16_t. *)
DEFAULT_SENSOR_MESSAGE ==
  SensorMessage(0, 65535, [p \in 1..NUMBER_OF_PIXELS |-> DEFAULT_PIXEL], DEFAULT_TIME_TRACKING)

(* The copy constructor leaves the base class to its default. *)
Copy(message) == [message EXCEPT !.timeTracking = DEFAULT_TIME_TRACKING]

(* The assignments exchange the ids and the pixels: the time points stay.  *)
Assign(target, source) == [source EXCEPT !.timeTracking = target.timeTracking]

(* pixels[pixelId]: ids count from 0. *)
UpdatePixelId(message, pixelId) == [message EXCEPT !.pixels[pixelId + 1].id = pixelId]

AddTrackToPixelWithId(message, pixelId, track) ==
  [message EXCEPT !.pixels[pixelId + 1] = AddTrack(@, track)]
=============================================================================
