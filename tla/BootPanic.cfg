SPECIFICATION Spec
CONSTANTS
  Abis = {"hybrid"}
  Configs <- MCConfigs
  NumTests = 2
  NumDirs = 2
  ReadOnlyDirs = {1}
  MaxSmbfsRetry = 2
INVARIANT
  PanicIsFatal
CHECK_DEADLOCK FALSE
