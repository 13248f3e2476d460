SPECIFICATION Spec
CONSTANTS
  Abis = {"hybrid"}
  Configs <- MCConfigs
  NumTests = 2
  NumDirs = 2
  ReadOnlyDirs = {1}
  MaxSmbfsRetry = 2
INVARIANTS
  TypeOK
  BootedIsReady
  FailureIsNoticed
  PanicIsNoticed
  PassIsEarned
  ResultsAreKept
CHECK_DEADLOCK FALSE
