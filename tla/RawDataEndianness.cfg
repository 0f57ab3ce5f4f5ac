SPECIFICATION Spec
CONSTANTS
  NUMBER_OF_PIXELS = 2
  NUMBER_OF_TRACKS_IN_PIXEL = 2
  TrackIds <- MCTrackIds
  Speeds <- MCSpeeds
  RawContents <- MCRawContents
  MaxMessages = 2
  MaxFaults = 0
INVARIANT RawDataBecomeBigEndian
CHECK_DEADLOCK FALSE
