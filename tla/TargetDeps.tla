----------------------------- MODULE TargetDeps -----------------------------
(***************************************************************************)
(* Which targets a target depends on, as projects/simple_project.py        *)
(* computes it: the direct dependencies of a class, filtered by the        *)
(* toolchain/SDK options, and their recursive closure.                     *)
(*                                                                         *)
(* A target is a member of Target; its class attributes are constants.     *)
(* The "dependencies" tuples, which every project class declares for       *)
(* itself, are the argument "declared" so that a model can range over      *)
(* dependency graphs.  Names, target aliases and architectures are         *)
(* abstracted: a dependency is already the resolved Target object.         *)
(***************************************************************************)
EXTENDS Naturals, FiniteSets

CONSTANTS
  Target,             (* every Target object the target manager knows           *)
  ToolchainTargets,   (* project classes with is_toolchain_target()             *)
  SdkTargets,         (* project classes with is_sdk_target                     *)
  ToolchainOf,        (* target_info_cls.toolchain_targets(), per target        *)
  SysrootOf,          (* base_sysroot_targets() if needs_sysroot(), else {}     *)
  DirectOnly,         (* direct_dependencies_only, e.g. build-and-run targets   *)
  MustBuild,          (* dependencies_must_be_built                             *)
  NoToolchainDeps     (* skip_toolchain_dependencies                            *)

ASSUME TargetsAssumption ==
  /\ IsFiniteSet(Target)
  /\ ToolchainTargets \subseteq Target
  /\ SdkTargets \subseteq Target
  /\ ToolchainOf \in [Target -> SUBSET Target]
  /\ SysrootOf \in [Target -> SUBSET Target]
  /\ DirectOnly \subseteq Target
  /\ MustBuild \subseteq Target
  /\ NoToolchainDeps \subseteq Target

(* What every project class may declare as its "dependencies".             *)
Registry == [Target -> SUBSET Target]

(* The part of the configuration that dependency resolution reads.         *)
Options == [toolchain: BOOLEAN, sdk: BOOLEAN, skip: SUBSET Target]

(* --skip-sdk means skip toolchain and skip sysroot.                       *)
WithToolchain(opts) == opts.toolchain /\ opts.sdk

(* _direct_dependencies(): declared, toolchain and sysroot targets, without*)
(* the target itself and without what the options drop.  A class with      *)
(* direct_dependencies_only gets exactly what it declares.                 *)
DirectDependencies(declared, opts, t) ==
  { d \in Target \ {t} :
      IF t \in DirectOnly
      THEN d \in declared[t]
      ELSE /\ \/ d \in declared[t]
              \/ WithToolchain(opts) /\ d \in ToolchainOf[t]
              \/ opts.sdk /\ d \in SysrootOf[t]
           /\ ~opts.sdk => d \notin SdkTargets
           /\ ~WithToolchain(opts) => d \notin ToolchainTargets }

(* The direct dependencies that config.should_skip_dependency() leaves.    *)
KeptDependencies(declared, opts, t) ==
  DirectDependencies(declared, opts, t) \ opts.skip

(* The classes whose _recursive_dependencies_impl() runs, directly or      *)
(* through the recursion, when it is called for t: a class with            *)
(* direct_dependencies_only does not recurse.                              *)
Entered(declared, opts, t) ==
  LET reached[n \in Nat] ==
        IF n = 0 THEN {t}
        ELSE reached[n - 1] \cup
             UNION { KeptDependencies(declared, opts, x) :
                       x \in reached[n - 1] \ DirectOnly }
  IN  reached[Cardinality(Target)]

(* The value _recursive_dependencies_impl() computes for t.                *)
RecursiveDependencies(declared, opts, t) ==
  { d \in Target : \E x \in Entered(declared, opts, t) :
                      d \in KeptDependencies(declared, opts, x) }

(* "Cyclic dependency found": the recursion comes back to a class that is  *)
(* on its own dependency chain.                                            *)
CycleFound(declared, opts, t) ==
  \E x \in Entered(declared, opts, t) \ DirectOnly :
     \E d \in KeptDependencies(declared, opts, x) :
        x \in Entered(declared, opts, d)

=============================================================================
