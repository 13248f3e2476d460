SPECIFICATION Spec
CONSTANTS
  Kind = {k1, k2}
  Nothing = Nothing
  Garbage = Garbage
  MaxCounter = 3
SYMMETRY Symmetry
INVARIANTS
  TypeOK
  NothingStale
  NothingForeign
  CounterIsTrue
PROPERTY OnlyOrphansDelete
