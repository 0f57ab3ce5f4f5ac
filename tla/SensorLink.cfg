SPECIFICATION FairSpec
CONSTANTS
  MaxFailures = 2
  MaxTerminations = 2
  STACK_LIMIT = 4
  MaxAnnounced = 2
  MAX_NUMBER_OF_BULK_FETCHABLE = 1
  CanHandle <- MCCanHandle
INVARIANTS
  SensorLinkTypeOK
  ContextIsExitedOnce
  HandleIsOpenWhenUsed
  RawDataAreRequestedAsAnnounced
  RecursionNeedsFailures
  OpenAfterJoinOnlyByRecovery
  DestructionNeedsReopening
PROPERTY TerminationWaitsOnlyForDevice
CHECK_DEADLOCK FALSE
