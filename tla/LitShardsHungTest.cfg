CONSTANTS
  Shard = {s1, s2}
  NoPort = NoPort
  GivenPort = GivenPort
  PortIsGiven = FALSE
SPECIFICATION FairSpec
PROPERTY TestingIsLimited
CHECK_DEADLOCK FALSE
