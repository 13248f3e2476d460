CONSTANTS
  cheribsd = cheribsd
  drm = drm
  sysroot = sysroot
  bmake = bmake
  run = run
  mime = mime
  kde = kde
  Targets = {cheribsd, drm, sysroot, bmake, run, mime, kde}
  Deps <- SmallDeps
  Asks <- SmallAsks
  Tools <- SmallTools
  Plans <- SmallPlans
  Lists <- SmallLists
  MaxPlan = 3
SPECIFICATION Spec
INVARIANTS
  TypeOK
  EachRunsOnce
  ProcessAfterDependencies
  StagesInOrder
  SetupIsWhole
CHECK_DEADLOCK FALSE
