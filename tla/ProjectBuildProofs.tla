-------------------------- MODULE ProjectBuildProofs --------------------------
(***************************************************************************)
(* The safety properties of ProjectBuild, for any kinds of configuration   *)
(* and any bound on the counters.  The invariant that carries them says    *)
(* what the two files in the build directory are worth at every step, and  *)
(* what a run may rely on once it is past the clean.                       *)
(***************************************************************************)
EXTENDS ProjectBuild, TLAPS

(* From the with statement to the end of the build.                        *)
AfterClean == {"enter", "write_counter", "counter_open", "write_kind", "kind_open",
               "configure", "compile", "install"}

(* Kinds share a build directory only if it is the source directory.       *)
KindsAreAlone ==
  /\ ~project.inSource => \E k \in Kind : project.kinds = {k}
  /\ pc # "idle" => run.kind \in project.kinds
  /\ ~project.inSource =>
       /\ \A o \in objects : o.kind \in project.kinds
       /\ configured \in project.kinds \cup {Nothing}

KindIsTrue ==
  project.inSource /\ kindFile \in Kind =>
    /\ \A o \in objects : o.kind = kindFile
    /\ configured \in {kindFile, Nothing}

(* In the source directory, a run that does not clean has found its kind.  *)
KindIsChecked ==
  pc = "check_counter" /\ project.inSource /\ ~run.clean /\ ~forceClean =>
    kindFile = run.kind

Fresh == \A o \in objects : o.counter = 0 \/ o.counter >= required

Ours ==
  /\ \A o \in objects : o.kind = run.kind
  /\ configured \in {run.kind, Nothing}

CleanedIfNeeded == pc \in AfterClean => Fresh /\ Ours

(* The counter that was read is the one in the file, or the file is gone.  *)
CounterIsRead ==
  pc \in {"clean", "made", "move", "enter"} /\ readCounter # Nothing =>
    counterFile \in {readCounter, Nothing}

CounterIsWritten ==
  pc \in {"write_kind", "kind_open", "configure", "compile"} /\ required # 0 =>
    counterFile \in {required, Nothing}

KindIsWritten ==
  pc \in {"configure", "compile"} /\ project.inSource => kindFile = run.kind

DeleterIsInside ==
  pc \in {"idle", "update", "check_kind", "check_counter", "clean", "made", "move"}
    => deleter = "none"

IInv ==
  /\ TypeOK
  /\ CounterIsTrue
  /\ KindsAreAlone
  /\ KindIsTrue
  /\ KindIsChecked
  /\ CleanedIfNeeded
  /\ CounterIsRead
  /\ CounterIsWritten
  /\ KindIsWritten
  /\ DeleterIsInside

-----------------------------------------------------------------------------
(* Every step keeps the types.                                             *)
LEMMA TypeStep == TypeOK /\ [Next]_vars => TypeOK'
<1> SUFFICES ASSUME TypeOK, [Next]_vars PROVE TypeOK'
  OBVIOUS
<1> USE BuildAssumption DEF TypeOK, PCs, Goto, buildDir, Counter
<1>1. ASSUME NEW r \in RunType, Start(r) PROVE TypeOK'
  BY <1>1 DEF Start
<1>2. ASSUME NEW c \in Counter, Update(c) PROVE TypeOK'
  BY <1>2 DEF Update
<1>3. CASE CheckKind
  <2>1. forceClean' \in BOOLEAN
    BY <1>3, Zenon DEF CheckKind
  <2>2. pc' \in {"check_counter", "idle"}
    BY <1>3, Zenon DEF CheckKind
  <2>3. UNCHANGED <<project, required, buildDir, trash, deleter, orphan, run, readCounter>>
    BY <1>3, Zenon DEF CheckKind
  <2> QED
    BY <2>1, <2>2, <2>3
<1>4. CASE CheckCounter
  BY <1>4 DEF CheckCounter, CleanIsRequired, ParsedCounter
<1>5. CASE Clean
  BY <1>5 DEF Clean, IsClean
<1>6. CASE MoveOne
  BY <1>6 DEF MoveOne, Object
<1>7. CASE Cleaned
  BY <1>7 DEF Cleaned, IsClean
<1>8. CASE Enter
  BY <1>8 DEF Enter
<1>9. CASE Delete
  BY <1>9 DEF Delete
<1>10. CASE OpenCounter
  BY <1>10 DEF OpenCounter
<1>11. CASE WriteCounter
  BY <1>11 DEF WriteCounter
<1>12. CASE OpenKind
  BY <1>12 DEF OpenKind, AfterFiles
<1>13. CASE WriteKind
  BY <1>13 DEF WriteKind, AfterFiles, RunType
<1>14. CASE Configure
  BY <1>14 DEF Configure, RunType
<1>15. CASE Compile
  BY <1>15 DEF Compile, Object, RunType
<1>16. CASE Install
  BY <1>16 DEF Install
<1>17. CASE Fail
  BY <1>17 DEF Fail
<1>18. CASE Join
  BY <1>18 DEF Join, DeletionEnded
<1>19. CASE Crash
  BY <1>19 DEF Crash
<1>20. CASE CheckTrash
  BY <1>20 DEF CheckTrash
<1>21. CASE OrphanDeletes
  <2>1. orphan' \in BOOLEAN
    BY <1>21, Zenon DEF OrphanDeletes
  <2>2. trash' \in {Nothing, "dir", "file"}
    BY <1>21, Zenon DEF OrphanDeletes
  <2>3. UNCHANGED <<project, required, buildDir, deleter, pc, run, forceClean, readCounter>>
    BY <1>21 DEF OrphanDeletes
  <2> QED
    BY <2>1, <2>2, <2>3
<1>22. CASE UNCHANGED vars
  BY <1>22 DEF vars
<1>23. QED
  BY <1>1, <1>2, <1>3, <1>4, <1>5, <1>6, <1>7, <1>8, <1>9, <1>10, <1>11, <1>12,
     <1>13, <1>14, <1>15, <1>16, <1>17, <1>18, <1>19, <1>20, <1>21, <1>22 DEF Next

(* Every step keeps the invariant.                                         *)
LEMMA InvStep == IInv /\ [Next]_vars => IInv'
<1> SUFFICES ASSUME IInv, [Next]_vars PROVE IInv'
  OBVIOUS
<1>1. TypeOK'
  BY TypeStep DEF IInv
<1> USE BuildAssumption, <1>1 DEF IInv, TypeOK, Goto, buildDir, Counter, RunType, Object,
      CounterIsTrue, KindsAreAlone, KindIsTrue, KindIsChecked, CleanedIfNeeded,
      AfterClean, Fresh, Ours, CounterIsRead, CounterIsWritten, KindIsWritten,
      DeleterIsInside
<1>2. ASSUME NEW r \in RunType, Start(r) PROVE IInv'
  BY <1>2 DEF Start
<1>3. ASSUME NEW c \in Counter, Update(c) PROVE IInv'
  BY <1>3 DEF Update
<1>4. CASE CheckKind
  BY <1>4 DEF CheckKind, OtherKind
<1>5. CASE CheckCounter
  <2> USE <1>5 DEF CheckCounter, CleanIsRequired, ParsedCounter
  <2>1. CASE ~forceClean' /\ ~run.clean
    <3>1. Fresh
      <4>1. CASE required = 0
        BY <4>1
      <4>2. CASE required # 0
        <5>1. counterFile \in Counter /\ ~(counterFile < required)
          <6>1. ~(required # 0 /\ (counterFile \notin Counter \/ counterFile < required))
            BY <2>1, Zenon
          <6> QED
            BY <4>2, <6>1
        <5>2. \A o \in objects : o.counter \in Counter /\ (o.counter = 0 \/ o.counter >= counterFile)
          BY <5>1
        <5> QED
          BY <5>1, <5>2
      <4> QED
        BY <4>1, <4>2
    <3>2. Ours
      <4>1. CASE project.inSource
        <5>1. kindFile = run.kind /\ run.kind \in Kind
          BY <2>1, <4>1
        <5> QED
          BY <4>1, <5>1
      <4>2. CASE ~project.inSource
        BY <4>2
      <4> QED
        BY <4>1, <4>2
    <3> QED
      BY <2>1, <3>1, <3>2
  <2>2. CASE forceClean' \/ run.clean
    BY <2>2
  <2> QED
    BY <2>1, <2>2
<1>6. CASE Clean
  BY <1>6 DEF Clean, IsClean
<1>7. CASE MoveOne
  BY <1>7 DEF MoveOne
<1>8. CASE Cleaned
  BY <1>8 DEF Cleaned, IsClean
<1>9. CASE Enter
  BY <1>9 DEF Enter
<1>10. CASE Delete
  BY <1>10 DEF Delete
<1>11. CASE OpenCounter
  BY <1>11 DEF OpenCounter
<1>12. CASE WriteCounter
  BY <1>12 DEF WriteCounter
<1>13. CASE OpenKind
  BY <1>13 DEF OpenKind, AfterFiles
<1>14. CASE WriteKind
  BY <1>14 DEF WriteKind, AfterFiles
<1>15. CASE Configure
  BY <1>15 DEF Configure
<1>16. CASE Compile
  BY <1>16 DEF Compile
<1>17. CASE Install
  BY <1>17 DEF Install
<1>18. CASE Fail
  BY <1>18 DEF Fail
<1>19. CASE Join
  BY <1>19 DEF Join, DeletionEnded
<1>20. CASE Crash
  BY <1>20 DEF Crash
<1>21. CASE CheckTrash
  BY <1>21 DEF CheckTrash
<1>22. CASE OrphanDeletes
  BY <1>22 DEF OrphanDeletes
<1>23. CASE UNCHANGED vars
  BY <1>23 DEF vars
<1>24. QED
  BY <1>2, <1>3, <1>4, <1>5, <1>6, <1>7, <1>8, <1>9, <1>10, <1>11, <1>12, <1>13,
     <1>14, <1>15, <1>16, <1>17, <1>18, <1>19, <1>20, <1>21, <1>22, <1>23 DEF Next

LEMMA InvInit == Init => IInv
BY BuildAssumption
   DEF Init, IInv, TypeOK, PCs, Counter, Object, RunType, CounterIsTrue,
       KindsAreAlone, KindIsTrue, KindIsChecked, CleanedIfNeeded, AfterClean,
       CounterIsRead, CounterIsWritten, KindIsWritten, DeleterIsInside

(* The invariant holds of every behaviour.                                 *)
THEOREM Invariance == Spec => []IInv
BY InvInit, InvStep, PTL DEF Spec

(* Every variable always has its type.                                     *)
THEOREM TypeCorrect == Spec => []TypeOK
<1>1. IInv => TypeOK
  BY DEF IInv
<1> QED
  BY <1>1, Invariance, PTL

(* Whatever runs fail or are killed, and however the source changes, the   *)
(* counter file of a build directory (process()) never promises more than  *)
(* the objects in it keep.                                                 *)
THEOREM CounterStaysTrue == Spec => []CounterIsTrue
<1>1. IInv => CounterIsTrue
  BY DEF IInv
<1> QED
  BY <1>1, Invariance, PTL

(* So no build that process() goes on to install keeps an object from      *)
(* before the clean build that its source asks for ...                     *)
THEOREM NothingStaleInstalled == Spec => []NothingStale
<1>1. IInv => NothingStale
  BY DEF IInv, CleanedIfNeeded, AfterClean, Fresh, NothingStale
<1> QED
  BY <1>1, Invariance, PTL

(* ... nor one of another configuration that is built in the same source   *)
(* directory.                                                              *)
THEOREM NothingForeignInstalled == Spec => []NothingForeign
<1>1. IInv => NothingForeign
  BY DEF IInv, CleanedIfNeeded, AfterClean, Ours, NothingForeign
<1> QED
  BY <1>1, Invariance, PTL

(* compile() never uses the configuration of another kind.                 *)
THEOREM NeverForeignConfiguration == Spec => []ConfiguredForThisKind
<1>1. IInv => ConfiguredForThisKind
  BY DEF IInv, CleanedIfNeeded, AfterClean, Ours, ConfiguredForThisKind
<1> QED
  BY <1>1, Invariance, PTL

(* The deleter threads of a run are gone before a later clean moves files  *)
(* to the directory that they delete (ThreadJoiner.__exit__()), so nothing *)
(* but an rm that has outlived its cheribuild deletes it under the clean.  *)
THEOREM NoThreadDeletesEarly == Spec => OnlyOrphansDelete
<1>1. IInv /\ [Next]_vars
        => [trash = "dir" /\ trash' # "dir" /\ pc \in {"made", "move"} => orphan]_vars
  <2> SUFFICES ASSUME IInv, [Next]_vars, trash = "dir", trash' # "dir",
                      pc \in {"made", "move"}, ~orphan
               PROVE FALSE
    BY DEF vars
  <2>1. deleter = "none"
    BY DEF IInv, DeleterIsInside
  <2>2. ASSUME NEW r \in RunType, Start(r) PROVE FALSE
    BY <2>2 DEF Start
  <2>3. ASSUME NEW c \in Counter, Update(c) PROVE FALSE
    BY <2>3 DEF Update
  <2>4. CASE MoveOne
    <3>1. trash # Nothing
      BY BuildAssumption
    <3> QED
      BY <2>4, <3>1 DEF MoveOne
  <2>5. CASE Delete \/ OrphanDeletes
    BY <2>1, <2>5 DEF Delete, OrphanDeletes
  <2>6. CASE CheckKind \/ CheckCounter \/ Clean \/ CheckTrash \/ Cleaned \/ Enter
    BY <2>6 DEF CheckKind, CheckCounter, Clean, CheckTrash, Cleaned, Enter
  <2>7. CASE OpenCounter \/ WriteCounter \/ OpenKind \/ WriteKind \/ Configure
    BY <2>7 DEF OpenCounter, WriteCounter, OpenKind, WriteKind, Configure
  <2>8. CASE Compile \/ Install \/ Fail \/ Join \/ Crash
    BY <2>8 DEF Compile, Install, Fail, Join, Crash
  <2>9. CASE UNCHANGED vars
    BY <2>9 DEF vars
  <2> QED
    BY <2>2, <2>3, <2>4, <2>5, <2>6, <2>7, <2>8, <2>9 DEF Next
<1> QED
  BY <1>1, Invariance, PTL DEF Spec, OnlyOrphansDelete
=============================================================================
