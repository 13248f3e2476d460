CONSTANTS
  a = a
  b = b
  c = c
  Target = {a, b, c}
  ToolchainTargets = {a}
  SdkTargets = {a}
  DirectOnly = {c}
  MustBuild = {c}
  NoToolchainDeps = {}
  ToolchainOf <- SmallToolchainOf
  SysrootOf <- NoSysroot
  Rank <- SmallRank
  Registries <- SmallRegistries
  Configs <- SmallConfigs
SPECIFICATION Spec
INVARIANTS
  TypeOK
  DependenciesFirst
  SortedAssertionHolds
  NoSpuriousCycle
  PlanIsComplete
PROPERTY ImplementsTopoOrder
CHECK_DEADLOCK FALSE
