SPECIFICATION Spec
CONSTANTS
  NUMBER_OF_PIXELS = 2
  NUMBER_OF_TRACKS_IN_PIXEL = 2
  TrackIds <- MCTrackIds
  Speeds <- MCSpeeds
  RawContents <- MCRawContents
  MaxMessages = 5
  MaxFaults = 1
INVARIANTS
  TranslationTypeOK
  VelocityFindsItsTrack
  OnlySignsAreLost
PROPERTIES
  FramesAreWhole
  FramesAreAssembled
CHECK_DEADLOCK FALSE
