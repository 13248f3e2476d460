---------------------------- MODULE MCTargetOrder ----------------------------
(***************************************************************************)
(* TargetOrder for TLC: three targets with every combination of declared   *)
(* dependencies and of options.  "a" is a toolchain (an SDK target), "b" a *)
(* project that is cross-compiled with it and "c" a run-* target.          *)
(***************************************************************************)
EXTENDS TargetOrder

CONSTANTS a, b, c

SmallToolchainOf == [t \in Target |-> IF t = b THEN {a} ELSE {}]
NoSysroot == [t \in Target |-> {}]
SmallRank == [t \in Target |-> CASE t = a -> 2 [] t = b -> 1 [] t = c -> 3]
SmallRegistries == { r \in Registry : a \notin r[a] /\ c \notin r[c] }
SmallConfigs ==
  [ explicit: (SUBSET Target) \ {{}}, onlyDependencies: BOOLEAN,
    includeDependencies: BOOLEAN, includeToolchain: BOOLEAN,
    skipSdk: BOOLEAN, skip: {{}, {b}},
    start: {"all", "with", "after"}, startName: {b} ]
=============================================================================
