CONSTANTS
  Shard = {s1, s2, s3}
  NoPort = NoPort
  GivenPort = GivenPort
  PortIsGiven = FALSE
SPECIFICATION FairSpec
INVARIANT TypeOK
INVARIANT InLockStep
INVARIANT MainKnowsTheStage
INVARIANT WatchedToTheEnd
PROPERTY MainTerminates
PROPERTY BootingIsLimited
CHECK_DEADLOCK FALSE
