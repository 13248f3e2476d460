SPECIFICATION Spec
CONSTANTS
  NoUpstream = NoUpstream
  MaxNames = 2
  MaxStash = 2
INVARIANTS
  TypeOK
  OwnStashIsPopped
  SwitchIsEffective
PROPERTY
  BranchesKeepTheirUrl
