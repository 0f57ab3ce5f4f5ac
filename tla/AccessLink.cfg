SPECIFICATION Spec
CONSTANTS
  Detached <- MCDetached
  Delivered <- MCDelivered
  Callers <- MCCallers
  MaxServerFailures = 2
INVARIANTS
  AccessLinkTypeOK
  OneMinorErrorIsSurvived
  SendsFindTheConnectionOpen
  JoinWaitsForBacklogOnly
  OnlyRacesLeaveReadyData
CHECK_DEADLOCK FALSE
