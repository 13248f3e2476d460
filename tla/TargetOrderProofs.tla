-------------------------- MODULE TargetOrderProofs --------------------------
(***************************************************************************)
(* Proofs about TargetOrder, for every finite set of targets, every        *)
(* dependency graph, every configuration and every naming.                 *)
(***************************************************************************)
EXTENDS TargetOrder, FiniteSetTheorems, SequenceTheorems, TLAPS

(* No two positions of the result hold the same target, so its length      *)
(* counts its elements.                                                    *)
LengthCounts == Len(result) = Cardinality(Elements(result))

(* No target is placed twice.                                              *)
NoRepeats == \A i, j \in DOMAIN result : result[i] = result[j] => i = j

(* After the loop the queue is empty; the list is complete unless a cycle  *)
(* was reported, and then it is not.                                       *)
LoopOutcome ==
  /\ pc \in {"filter", "done", "nothing_left"} => Elements(result) = chosen
  /\ pc = "cycle_in_sort" => ready = {} /\ Elements(result) # chosen

(* Everything placed was chosen.                                           *)
PlacedWereChosen == Elements(result) \subseteq chosen

(* The part of the list that is there would survive sorted(), and whatever *)
(* waits in the queue is either a dependent of the last target placed or   *)
(* has the larger key: it was in the queue when that target was popped.    *)
SortedSoFar ==
  /\ UnchangedBySorting(result)
  /\ result # <<>> =>
       \A u \in ready : \/ result[Len(result)] \in fullDeps[u]
                        \/ Rank[result[Len(result)]] < Rank[u]

(* Nothing is known before the targets are chosen.                         *)
Untouched ==
  pc \in {"choose", "cyclic"} => /\ chosen = {}
                                 /\ result = <<>>
                                 /\ fullDeps = [t \in Target |-> {}]

(* The inductive invariant.                                                *)
IInv ==
  /\ TypeOK
  /\ PlacedWereChosen
  /\ LengthCounts
  /\ QueueIsExact
  /\ DependenciesFirst
  /\ SortedSoFar
  /\ Untouched
  /\ SortedAssertionHolds
  /\ NoRepeats
  /\ LoopOutcome
  /\ PlanIsComplete

-----------------------------------------------------------------------------
(* What appending does to the elements of a sequence.                      *)
LEMMA AppendElements ==
  ASSUME NEW S, NEW s \in Seq(S), NEW e \in S
  PROVE  /\ Append(s, e) \in Seq(S)
         /\ Len(Append(s, e)) = Len(s) + 1
         /\ Append(s, e)[Len(s) + 1] = e
         /\ \A i \in 1 .. Len(s) : Append(s, e)[i] = s[i]
         /\ DOMAIN Append(s, e) = 1 .. Len(s) + 1
         /\ DOMAIN s = 1 .. Len(s)
         /\ Len(s) \in Nat
         /\ Elements(Append(s, e)) = Elements(s) \cup {e}
<1>1. /\ Append(s, e) \in Seq(S)
      /\ Len(Append(s, e)) = Len(s) + 1
      /\ Append(s, e)[Len(s) + 1] = e
      /\ \A i \in 1 .. Len(s) : Append(s, e)[i] = s[i]
      /\ DOMAIN Append(s, e) = 1 .. Len(s) + 1
      /\ DOMAIN s = 1 .. Len(s)
      /\ Len(s) \in Nat
  OBVIOUS
<1>2. Elements(Append(s, e)) = Elements(s) \cup {e}
  BY <1>1 DEF Elements
<1>3. QED
  BY <1>1, <1>2

(* The elements of a sequence of targets are finitely many targets.        *)
LEMMA ElementsFinite ==
  ASSUME NEW s \in Seq(Target)
  PROVE  /\ Elements(s) \subseteq Target
         /\ IsFiniteSet(Elements(s))
<1>1. Elements(s) \subseteq Target
  BY DEF Elements
<1>2. QED
  BY <1>1, FS_Subset, TargetsAssumption DEF TargetsAssumption

-----------------------------------------------------------------------------
LEMMA InitInvariant == Init => IInv
<1> SUFFICES ASSUME Init PROVE IInv
  OBVIOUS
<1> USE DEF Init
<1>1. TypeOK
  BY OrderAssumption DEF TypeOK, OrderAssumption, PCs
<1>2. Elements(result) = {}
  BY DEF Elements
<1>3. LengthCounts /\ PlacedWereChosen
  BY <1>2, FS_EmptySet DEF LengthCounts, PlacedWereChosen
<1>4. QueueIsExact
  BY DEF QueueIsExact
<1>5. DependenciesFirst /\ SortedSoFar /\ Untouched /\ SortedAssertionHolds
  BY DEF DependenciesFirst, SortedSoFar, UnchangedBySorting, Untouched,
         SortedAssertionHolds
<1>6. NoRepeats /\ LoopOutcome /\ PlanIsComplete
  BY DEF NoRepeats, LoopOutcome, PlanIsComplete
<1>7. QED
  BY <1>1, <1>3, <1>4, <1>5, <1>6 DEF IInv

LEMMA ChooseInvariant == IInv /\ ChooseTargets => IInv'
<1> SUFFICES ASSUME IInv, ChooseTargets PROVE IInv'
  OBVIOUS
<1> USE DEF IInv
<1>1. chosen' \subseteq Target
  BY DEF ChooseTargets, Degree, Startable, Chosen, GetDependencies,
         RecursiveDependencies,
         TypeOK, ConfigType
<1>2. fullDeps' \in [Target -> SUBSET Target]
  BY DEF ChooseTargets, Degree, Startable, RecursiveDependencies
<1>3. result = <<>> /\ result' = <<>> /\ Elements(result') = {}
  BY DEF ChooseTargets, Degree, Startable, Untouched, Elements
<1>4. \A t \in Target : /\ IsFiniteSet(fullDeps'[t] \cap chosen')
                        /\ Cardinality(fullDeps'[t] \cap chosen') \in Nat
  <2> SUFFICES ASSUME NEW t \in Target
               PROVE  /\ IsFiniteSet(fullDeps'[t] \cap chosen')
                      /\ Cardinality(fullDeps'[t] \cap chosen') \in Nat
    OBVIOUS
  <2>1. fullDeps'[t] \cap chosen' \in SUBSET Target
    BY <1>1
  <2>2. QED
    BY <2>1, FS_Subset, FS_CardinalityType, TargetsAssumption
       DEF TargetsAssumption
<1>5. /\ inDegree' \in [Target -> Nat]
      /\ \A t \in chosen' : inDegree'[t] = Cardinality(fullDeps'[t] \cap chosen')
  BY <1>1, <1>4 DEF ChooseTargets, Degree, Startable
<1>6. TypeOK'
  <2>1. ready' \subseteq Target /\ pc' \in PCs
    BY <1>1 DEF ChooseTargets, Degree, Startable, PCs
  <2>2. QED
    BY <1>1, <1>2, <1>5, <2>1 DEF ChooseTargets, Degree, Startable, TypeOK, inputs
<1>7. PlacedWereChosen' /\ LengthCounts'
  BY <1>3, FS_EmptySet DEF PlacedWereChosen, LengthCounts
<1>8. QueueIsExact'
  <2>1. \A t \in chosen' :
          (fullDeps'[t] \cap chosen') \ Elements(result') = fullDeps'[t] \cap chosen'
    BY <1>3
  <2>2. \A t \in chosen' : inDegree'[t] = 0 <=> fullDeps'[t] \cap chosen' = {}
    BY <1>1, <1>4, <1>5, FS_EmptySet
  <2>3. ready' = { t \in chosen' : inDegree'[t] = 0 }
    BY DEF ChooseTargets, Degree, Startable
  <2>4. ready' = { t \in chosen' \ Elements(result') :
                     fullDeps'[t] \cap chosen' \subseteq Elements(result') }
    BY <2>2, <2>3, <1>3
  <2>5. QED
    BY <2>1, <2>4, <1>5 DEF QueueIsExact
<1>9. DependenciesFirst' /\ SortedSoFar' /\ Untouched' /\ SortedAssertionHolds'
  BY <1>3 DEF DependenciesFirst, SortedSoFar, UnchangedBySorting, Untouched,
              SortedAssertionHolds, ChooseTargets, Degree, Startable
<1>10. NoRepeats' /\ LoopOutcome' /\ PlanIsComplete'
  BY <1>3 DEF NoRepeats, LoopOutcome, PlanIsComplete, ChooseTargets, Degree, Startable
<1>11. QED
  BY <1>6, <1>7, <1>8, <1>9, <1>10

(* A pop takes one dependency off every dependent of the popped target,    *)
(* which brings exactly the right targets into the queue.                  *)
LEMMA PopQueue ==
  ASSUME IInv, NEW t \in Target, Pop(t)
  PROVE  /\ QueueIsExact'
         /\ inDegree' \in [Target -> Nat]
         /\ t \in chosen \ Elements(result)
         /\ Elements(result') = Elements(result) \cup {t}
<1> USE DEF IInv
<1>1. /\ result \in Seq(Target)
      /\ chosen \subseteq Target
      /\ fullDeps \in [Target -> SUBSET Target]
      /\ inDegree \in [Target -> Nat]
  BY DEF TypeOK
<1>2. t \in chosen \ Elements(result) /\ fullDeps[t] \cap chosen \subseteq Elements(result)
  BY DEF Pop, Smallest, Startable, QueueIsExact
<1>3. Elements(result') = Elements(result) \cup {t}
  BY <1>1, AppendElements DEF Pop, Smallest, Startable
<1>4. chosen' = chosen /\ fullDeps' = fullDeps
  BY DEF Pop, Smallest, Startable
<1> DEFINE Missing(n) == (fullDeps[n] \cap chosen) \ Elements(result)
           Left(n) == (fullDeps[n] \cap chosen) \ Elements(result')
<1>5. ASSUME NEW n \in chosen
      PROVE  /\ IsFiniteSet(Missing(n))
             /\ IsFiniteSet(Left(n))
             /\ Cardinality(Left(n)) \in Nat
             /\ inDegree[n] = Cardinality(Missing(n))
             /\ t \in fullDeps[n] => Cardinality(Left(n)) = Cardinality(Missing(n)) - 1
             /\ t \notin fullDeps[n] => Left(n) = Missing(n)
  <2>1. Missing(n) \in SUBSET Target
    BY <1>1
  <2>2. IsFiniteSet(Missing(n))
    BY <2>1, FS_Subset, TargetsAssumption DEF TargetsAssumption
  <2>3. Left(n) = Missing(n) \ {t}
    BY <1>3
  <2>4. /\ IsFiniteSet(Left(n))
        /\ Cardinality(Left(n)) = IF t \in Missing(n) THEN Cardinality(Missing(n)) - 1
                                                     ELSE Cardinality(Missing(n))
    <3> HIDE DEF Missing, Left
    <3> QED
      BY <2>2, <2>3, FS_RemoveElement
  <2>5. t \in Missing(n) <=> t \in fullDeps[n]
    BY <1>2
  <2>6. inDegree[n] = Cardinality(Missing(n))
    BY DEF QueueIsExact
  <2>7. t \notin fullDeps[n] => Left(n) = Missing(n)
    BY <2>3, <2>5
  <2>8. Cardinality(Left(n)) \in Nat
    BY <2>4, FS_CardinalityType
  <2>9. QED
    BY <2>2, <2>4, <2>5, <2>6, <2>7, <2>8
<1>6. \A n \in chosen : inDegree'[n] = Cardinality(Left(n))
  <2> SUFFICES ASSUME NEW n \in chosen PROVE inDegree'[n] = Cardinality(Left(n))
    OBVIOUS
  <2>1. inDegree'[n] = IF t \in fullDeps[n] THEN inDegree[n] - 1 ELSE inDegree[n]
    BY <1>1 DEF Pop, Smallest, Startable
  <2>2. QED
    BY <2>1, <1>5
<1>7. inDegree' \in [Target -> Nat]
  <2> SUFFICES ASSUME NEW n \in Target PROVE inDegree'[n] \in Nat
    BY DEF Pop, Smallest, Startable
  <2>1. CASE n \in chosen
    BY <2>1, <1>5, <1>6
  <2>2. CASE n \notin chosen
    BY <2>2, <1>1 DEF Pop, Smallest, Startable
  <2>3. QED
    BY <2>1, <2>2
<1>8. ready' = { n \in chosen \ Elements(result') :
                   fullDeps[n] \cap chosen \subseteq Elements(result') }
  <2>1. \A n : n \in ready' <=>
               \/ n \in ready /\ n # t
               \/ n \in chosen /\ t \in fullDeps[n] /\ inDegree'[n] = 0
    BY DEF Pop, Smallest, Startable
  <2>2. \A n \in chosen : inDegree'[n] = 0 <=> fullDeps[n] \cap chosen \subseteq Elements(result')
    <3> SUFFICES ASSUME NEW n \in chosen
                 PROVE  inDegree'[n] = 0 <=> fullDeps[n] \cap chosen \subseteq Elements(result')
      OBVIOUS
    <3>1. inDegree'[n] = 0 <=> Left(n) = {}
      BY <1>5, <1>6, FS_EmptySet
    <3>2. QED
      BY <3>1
  <2>3. \A n : n \in ready <=> /\ n \in chosen \ Elements(result)
                             /\ fullDeps[n] \cap chosen \subseteq Elements(result)
    BY DEF QueueIsExact
  <2>4. \A n \in Elements(result) : fullDeps[n] \cap chosen \subseteq Elements(result)
    <3> SUFFICES ASSUME NEW i \in DOMAIN result
                 PROVE  fullDeps[result[i]] \cap chosen \subseteq Elements(result)
      BY DEF Elements
    <3>1. DOMAIN result = 1 .. Len(result) /\ Len(result) \in Nat
      BY <1>1
    <3>2. { result[k] : k \in 1 .. i - 1 } \subseteq Elements(result)
      BY <3>1 DEF Elements
    <3>3. QED
      BY <3>2 DEF DependenciesFirst
  <2>5. ASSUME NEW n, n \in ready'
        PROVE  /\ n \in chosen \ Elements(result')
               /\ fullDeps[n] \cap chosen \subseteq Elements(result')
    <3>1. CASE n \in ready /\ n # t
      BY <3>1, <1>3, <2>3
    <3>2. CASE n \in chosen /\ t \in fullDeps[n] /\ inDegree'[n] = 0
      <4>1. n \notin Elements(result)
        BY <3>2, <1>2, <2>4
      <4>2. n # t
        BY <3>2, <1>2
      <4>3. QED
        BY <3>2, <4>1, <4>2, <1>3, <2>2
    <3>3. QED
      BY <2>1, <2>5, <3>1, <3>2
  <2>6. ASSUME NEW n \in chosen \ Elements(result'),
               fullDeps[n] \cap chosen \subseteq Elements(result')
        PROVE  n \in ready'
    <3>1. CASE t \in fullDeps[n]
      BY <3>1, <2>1, <2>2, <2>6
    <3>2. CASE t \notin fullDeps[n]
      <4>1. fullDeps[n] \cap chosen \subseteq Elements(result)
        BY <3>2, <2>6, <1>3
      <4>2. n \in ready /\ n # t
        BY <4>1, <2>3, <1>3
      <4>3. QED
        BY <4>2, <2>1
    <3>3. QED
      BY <3>1, <3>2
  <2>7. QED
    BY <2>5, <2>6
<1>9. QueueIsExact'
  BY <1>4, <1>6, <1>8 DEF QueueIsExact
<1>10. QED
  BY <1>2, <1>3, <1>7, <1>9

LEMMA PopInvariant ==
  ASSUME IInv, NEW t \in Target, Pop(t)
  PROVE  IInv'
<1> USE DEF IInv
<1> DEFINE n == Len(result)
<1>1. /\ QueueIsExact'
      /\ inDegree' \in [Target -> Nat]
      /\ t \in chosen \ Elements(result)
      /\ Elements(result') = Elements(result) \cup {t}
  BY PopQueue
<1>2. /\ chosen' = chosen /\ fullDeps' = fullDeps /\ pc' = pc /\ pc = "sort"
      /\ plan' = plan /\ declared' = declared /\ config' = config
      /\ result' = Append(result, t)
      /\ t \in ready
      /\ \A u \in ready : Rank[t] <= Rank[u]
  BY DEF Pop, Smallest, Startable, inputs
<1>3. /\ result' \in Seq(Target)
      /\ Len(result') = n + 1
      /\ result'[n + 1] = t
      /\ \A i \in 1 .. n : result'[i] = result[i]
      /\ DOMAIN result' = 1 .. n + 1
      /\ DOMAIN result = 1 .. n
      /\ n \in Nat
  BY <1>2, AppendElements DEF TypeOK
<1>4. TypeOK'
  <2>1. ready' \subseteq Target
    BY <1>2 DEF Pop, Smallest, Startable, TypeOK
  <2>2. QED
    BY <2>1, <1>1, <1>2, <1>3 DEF TypeOK
<1>5. PlacedWereChosen'
  BY <1>1, <1>2 DEF PlacedWereChosen
<1>6. LengthCounts'
  <2>1. IsFiniteSet(Elements(result))
    BY ElementsFinite DEF TypeOK
  <2>2. QED
    BY <1>1, <1>3, <2>1, FS_AddElement DEF LengthCounts
<1>7. DependenciesFirst'
  <2>1. Elements(result) = { result[k] : k \in 1 .. n }
    BY <1>3 DEF Elements
  <2>2. fullDeps[t] \cap chosen \subseteq { result'[k] : k \in 1 .. n }
    <3>1. fullDeps[t] \cap chosen \subseteq Elements(result)
      BY <1>2 DEF QueueIsExact
    <3>2. QED
      BY <3>1, <2>1, <1>3
  <2>3. ASSUME NEW i \in 1 .. n
        PROVE  fullDeps[result'[i]] \cap chosen \subseteq { result'[k] : k \in 1 .. i - 1 }
    <3>1. fullDeps[result[i]] \cap chosen \subseteq { result[k] : k \in 1 .. i - 1 }
      BY <1>3 DEF DependenciesFirst
    <3>2. \A k \in 1 .. i - 1 : result'[k] = result[k]
      BY <1>3
    <3>3. QED
      BY <3>1, <3>2, <1>3
  <2>4. ASSUME NEW i \in 1 .. n + 1
        PROVE  fullDeps[result'[i]] \cap chosen \subseteq { result'[k] : k \in 1 .. i - 1 }
    <3>1. CASE i = n + 1
      BY <3>1, <2>2, <1>3
    <3>2. CASE i \in 1 .. n
      BY <3>2, <2>3
    <3>3. QED
      BY <3>1, <3>2, <1>3
  <2>5. QED
    BY <2>4, <1>2, <1>3 DEF DependenciesFirst
<1>8. UnchangedBySorting(result)'
  <2>1. ASSUME NEW i \in 1 .. n
        PROVE  ~(\/ result'[i + 1] \in fullDeps[result'[i]]
                 \/ /\ result'[i] \notin fullDeps[result'[i + 1]]
                    /\ Rank[result'[i + 1]] < Rank[result'[i]])
    <3>1. CASE i < n
      BY <3>1, <1>3 DEF SortedSoFar, UnchangedBySorting, ShouldRunBefore
    <3>2. CASE i = n
      <4>1. result'[i] = result[n] /\ result'[i + 1] = t /\ result # <<>>
        BY <3>2, <1>3
      <4>2. result[n] \in Elements(result) /\ result[n] \in Target
        BY <3>2, <1>3 DEF Elements, TypeOK
      <4>3. t \notin fullDeps[result[n]]
        <5>1. fullDeps[result[n]] \cap chosen \subseteq Elements(result)
          BY <3>2, <1>3 DEF DependenciesFirst, Elements
        <5>2. QED
          BY <5>1, <1>1
      <4>4. result[n] \in fullDeps[t] \/ Rank[result[n]] < Rank[t]
        BY <4>1, <1>2 DEF SortedSoFar
      <4>5. Rank[result[n]] \in Nat /\ Rank[t] \in Nat
        BY <4>2, OrderAssumption DEF OrderAssumption
      <4>6. QED
        BY <4>1, <4>3, <4>4, <4>5
    <3>3. i < n \/ i = n
      <4>1. n \in Nat
        BY <1>3
      <4> HIDE DEF n
      <4>2. QED
        BY <4>1
    <3>4. QED
      BY <3>1, <3>2, <3>3
  <2>2. QED
    BY <2>1, <1>2, <1>3 DEF UnchangedBySorting, ShouldRunBefore
<1>9. ASSUME NEW u \in ready'
      PROVE  t \in fullDeps[u] \/ Rank[t] < Rank[u]
  <2>1. u \in chosen
    BY <1>1, <1>2 DEF QueueIsExact
  <2>2. CASE t \in fullDeps[u]
    BY <2>2
  <2>3. CASE t \notin fullDeps[u]
    <3>1. u \in ready /\ u # t
      BY <2>3 DEF Pop, Smallest, Startable
    <3>2. /\ Rank[t] <= Rank[u]
          /\ Rank[t] # Rank[u]
          /\ Rank[t] \in Nat
          /\ Rank[u] \in Nat
      BY <1>2, <2>1, <3>1, OrderAssumption DEF OrderAssumption, TypeOK
    <3>3. QED
      BY <3>2
  <2>4. QED
    BY <2>2, <2>3
<1>10. SortedSoFar'
  BY <1>2, <1>3, <1>8, <1>9 DEF SortedSoFar
<1>11. Untouched' /\ SortedAssertionHolds'
  BY <1>2 DEF Untouched, SortedAssertionHolds
<1>12. NoRepeats'
  <2>1. \A i \in 1 .. n : result[i] # t
    BY <1>1, <1>3 DEF Elements
  <2>2. \A i, j \in 1 .. n : result[i] = result[j] => i = j
    BY <1>3 DEF NoRepeats
  <2>3. ASSUME NEW i \in 1 .. n + 1, NEW j \in 1 .. n + 1, result'[i] = result'[j]
        PROVE  i = j
    <3>1. CASE i \in 1 .. n /\ j \in 1 .. n
      BY <3>1, <2>2, <2>3, <1>3
    <3>2. CASE i = n + 1 /\ j \in 1 .. n
      BY <3>2, <2>1, <2>3, <1>3
    <3>3. CASE i \in 1 .. n /\ j = n + 1
      BY <3>3, <2>1, <2>3, <1>3
    <3>4. CASE i = n + 1 /\ j = n + 1
      BY <3>4
    <3>5. n \in Nat
      BY <1>3
    <3> HIDE DEF n
    <3>6. i \in 1 .. n \/ i = n + 1
      BY <3>5
    <3>7. j \in 1 .. n \/ j = n + 1
      BY <3>5
    <3>8. QED
      BY <3>1, <3>2, <3>3, <3>4, <3>6, <3>7
  <2>4. QED
    BY <2>3, <1>3 DEF NoRepeats
<1>13. LoopOutcome' /\ PlanIsComplete'
  BY <1>2 DEF LoopOutcome, PlanIsComplete
<1>14. QED
  BY <1>1, <1>4, <1>5, <1>6, <1>7, <1>10, <1>11, <1>12, <1>13

(* When the queue is empty the list is complete or there is a cycle, and   *)
(* the assertion holds.                                                    *)
LEMMA FinishInvariant == IInv /\ FinishSort => IInv'
<1> SUFFICES ASSUME IInv, FinishSort PROVE IInv'
  OBVIOUS
<1> USE DEF IInv
<1>1. /\ declared' = declared /\ config' = config /\ plan' = plan
      /\ chosen' = chosen /\ fullDeps' = fullDeps
      /\ inDegree' = inDegree /\ ready' = ready /\ result' = result
      /\ pc = "sort" /\ ready = {}
  BY DEF FinishSort, inputs, sorting
<1>2. pc' \in {"cycle_in_sort", "filter"}
  BY DEF FinishSort, SortedSoFar
<1>3. TypeOK'
  BY <1>1, <1>2 DEF TypeOK, PCs, Failures
<1>4. PlacedWereChosen' /\ LengthCounts' /\ NoRepeats'
  BY <1>1 DEF PlacedWereChosen, LengthCounts, NoRepeats
<1>5. QueueIsExact' /\ DependenciesFirst'
  <2>1. QueueIsExact'
    <3>1. Elements(result') = Elements(result)
      BY <1>1
    <3>2. QED
      BY <1>1, <3>1 DEF QueueIsExact
  <2>2. DependenciesFirst'
    BY <1>1 DEF DependenciesFirst
  <2>3. QED
    BY <2>1, <2>2
<1>6. SortedSoFar'
  BY <1>1 DEF SortedSoFar, UnchangedBySorting, ShouldRunBefore
<1>7. Untouched' /\ SortedAssertionHolds' /\ PlanIsComplete'
  BY <1>2 DEF Untouched, SortedAssertionHolds, PlanIsComplete
<1>8. Len(result) = Cardinality(chosen) <=> Elements(result) = chosen
  <2>1. IsFiniteSet(chosen)
    BY FS_Subset, TargetsAssumption DEF TargetsAssumption, TypeOK
  <2>2. QED
    BY <2>1, FS_Subset DEF LengthCounts, PlacedWereChosen
<1>9. LoopOutcome'
  BY <1>1, <1>2, <1>8 DEF LoopOutcome, FinishSort
<1>10. QED
  BY <1>3, <1>4, <1>5, <1>6, <1>7, <1>9

(* What the filter returns is a suffix of the sorted list.                 *)
LEMMA SuffixProperties ==
  ASSUME NEW s \in Seq(Target), NEW k \in 1 .. Len(s) + 1
  PROVE  LET p == SubSeq(s, k, Len(s))
         IN  /\ p \in Seq(Target)
             /\ DOMAIN p = 1 .. Len(s) - k + 1
             /\ \A i \in DOMAIN p : p[i] = s[k + i - 1] /\ k + i - 1 \in DOMAIN s
             /\ Elements(p) = { s[i] : i \in k .. Len(s) }
<1> DEFINE p == SubSeq(s, k, Len(s))
<1>1. /\ Len(s) \in Nat
      /\ DOMAIN s = 1 .. Len(s)
      /\ \A i \in k .. Len(s) : s[i] \in Target
  OBVIOUS
<1>2. /\ p \in Seq(Target)
      /\ Len(p) = Len(s) - k + 1
      /\ \A i \in 1 .. Len(s) - k + 1 : p[i] = s[k + i - 1]
  <2>1. p = SubSeq(s, k, Len(s)) /\ k \in Int /\ Len(s) \in Int
    BY <1>1
  <2>2. QED
    BY <1>1, <2>1, SubSeqProperties
<1>3. DOMAIN p = 1 .. Len(s) - k + 1
  BY <1>2
<1>4. \A i \in DOMAIN p : p[i] = s[k + i - 1] /\ k + i - 1 \in DOMAIN s
  BY <1>1, <1>2, <1>3
<1>5. Elements(p) = { s[i] : i \in k .. Len(s) }
  <2>1. \A i \in DOMAIN p : k + i - 1 \in k .. Len(s)
    BY <1>1, <1>3
  <2>2. \A i \in k .. Len(s) : i - k + 1 \in DOMAIN p /\ p[i - k + 1] = s[i]
    BY <1>1, <1>2, <1>3
  <2> HIDE DEF p
  <2>3. QED
    BY <1>4, <2>1, <2>2 DEF Elements
<1> HIDE DEF p
<1>6. QED
  BY <1>2, <1>3, <1>4, <1>5 DEF p


(* The start filter keeps a suffix of a complete list without repetitions: *)
(* the part that is asked for, in the same order.                          *)
LEMMA FilterPlan ==
  ASSUME IInv, FilterTargets
  PROVE  /\ plan' \in Seq(Target)
         /\ PlanIsComplete'
<1> USE DEF IInv
<1>1. /\ declared' = declared /\ config' = config
      /\ chosen' = chosen /\ fullDeps' = fullDeps /\ result' = result
      /\ pc = "filter" /\ Elements(result) = chosen
  BY DEF FilterTargets, inputs, sorting, LoopOutcome
<1>2. /\ result \in Seq(Target)
      /\ plan \in Seq(Target)
      /\ Len(result) \in Nat
      /\ DOMAIN result = 1 .. Len(result)
      /\ \A i, j \in 1 .. Len(result) : result[i] = result[j] => i = j
  BY DEF TypeOK, NoRepeats
<1>3. ASSUME NEW k \in 1 .. Len(result) + 1, plan' = SubSeq(result, k, Len(result))
      PROVE  /\ plan' \in Seq(Target)
             /\ plan' = <<>> <=> k = Len(result) + 1
             /\ Elements(plan') = { result[i] : i \in k .. Len(result) }
             /\ \A i, j \in DOMAIN plan' :
                  i < j => plan'[i] # plan'[j] /\ SortedAfter(plan[j], plan[i])'
             /\ \A t \in chosen \ Elements(plan') : fullDeps[t] \cap Elements(plan') = {}
  <2>1. /\ plan' \in Seq(Target)
        /\ DOMAIN plan' = 1 .. Len(result) - k + 1
        /\ \A i \in DOMAIN plan' : plan'[i] = result[k + i - 1] /\ k + i - 1 \in DOMAIN result
        /\ Elements(plan') = { result[i] : i \in k .. Len(result) }
    <3>1. k \in 1 .. Len(result) + 1 /\ result \in Seq(Target)
      BY <1>2
    <3>2. QED
      BY <1>3, <3>1, SuffixProperties
  <2>2. ASSUME NEW i \in DOMAIN plan', NEW j \in DOMAIN plan', i < j
        PROVE  plan'[i] # plan'[j] /\ SortedAfter(plan[j], plan[i])'
    <3>1. /\ plan'[i] = result[k + i - 1] /\ k + i - 1 \in DOMAIN result
          /\ plan'[j] = result[k + j - 1] /\ k + j - 1 \in DOMAIN result
      BY <2>1
    <3>2. i \in Int /\ j \in Int /\ k \in Int
      BY <2>1, <1>2
    <3>3. k + i - 1 < k + j - 1 /\ k + i - 1 # k + j - 1
      BY <2>2, <3>2
    <3>4. plan'[i] # plan'[j]
      BY <3>1, <3>3, <1>2
    <3>5. SortedAfter(plan[j], plan[i])'
      <4>1. DOMAIN result' = DOMAIN result /\ result' = result
        BY <1>1
      <4>2. QED
        BY <3>1, <3>3, <4>1 DEF SortedAfter
    <3>6. QED
      BY <3>4, <3>5
  <2>3. ASSUME NEW t \in chosen \ Elements(plan')
        PROVE  fullDeps[t] \cap Elements(plan') = {}
    <3>1. PICK i \in 1 .. Len(result) : result[i] = t
      BY <1>1, <1>2 DEF Elements
    <3>2. i < k
      BY <3>1, <2>1, <1>2
    <3>3. fullDeps[t] \cap chosen \subseteq { result[x] : x \in 1 .. i - 1 }
      BY <3>1, <1>2 DEF DependenciesFirst
    <3>4. \A x \in 1 .. i - 1, y \in k .. Len(result) : result[x] # result[y]
      <4> SUFFICES ASSUME NEW x \in 1 .. i - 1, NEW y \in k .. Len(result)
                   PROVE  result[x] # result[y]
        OBVIOUS
      <4>1. x \in 1 .. Len(result) /\ y \in 1 .. Len(result) /\ x # y
        BY <3>2, <1>2
      <4>2. QED
        BY <4>1, <1>2
    <3>5. Elements(plan') \subseteq chosen
      BY <2>1, <1>1, <1>2 DEF Elements
    <3>6. SUFFICES ASSUME NEW d \in fullDeps[t], d \in Elements(plan')
                   PROVE  FALSE
      OBVIOUS
    <3>7. PICK x \in 1 .. i - 1 : d = result[x]
      BY <3>3, <3>5, <3>6
    <3>8. PICK y \in k .. Len(result) : d = result[y]
      BY <3>6, <2>1
    <3>9. QED
      BY <3>4, <3>7, <3>8
  <2>4. plan' = <<>> <=> k = Len(result) + 1
    <3>1. Len(plan') = Len(result) - k + 1 /\ k \in Int
      BY <1>2, <1>3, <2>1
    <3>2. plan' = <<>> <=> Len(plan') = 0
      BY <2>1
    <3>3. QED
      BY <3>1, <3>2, <1>2
  <2>5. QED
    BY <2>1, <2>2, <2>3, <2>4
<1>4. CASE config.start = "all"
  <2>1. plan' = result /\ pc' = "done"
    BY <1>4 DEF FilterTargets
  <2>2. plan' = SubSeq(result, 1, Len(result)) /\ 1 \in 1 .. Len(result) + 1
    BY <2>1, <1>2, SubSeqFull
  <2>3. Elements(plan)' = { t \in chosen : IsAskedFor(t) }'
    BY <1>1, <1>4, <2>1 DEF IsAskedFor, Elements
  <2>4. QED
    BY <1>1, <1>3, <1>4, <2>1, <2>2, <2>3 DEF PlanIsComplete, Elements
<1>5. CASE config.start # "all" /\ config.startName \notin Elements(result)
  BY <1>2, <1>5 DEF FilterTargets, PlanIsComplete
<1>6. CASE config.start # "all" /\ config.startName \in Elements(result)
  <2> DEFINE found == CHOOSE i \in DOMAIN result : result[i] = config.startName
             first == IF config.start = "with" THEN found ELSE found + 1
  <2>1. found \in 1 .. Len(result) /\ result[found] = config.startName
    <3>1. \E i \in DOMAIN result : result[i] = config.startName
      BY <1>6 DEF Elements
    <3>2. QED
      BY <3>1, <1>2
  <2>2. plan' = SubSeq(result, first, Len(result))
    BY <1>6 DEF FilterTargets, FromStart
  <2>3. pc' = IF plan' = <<>> THEN "nothing_left" ELSE "done"
    BY <1>6 DEF FilterTargets
  <2> HIDE DEF found
  <2>4. first \in 1 .. Len(result) + 1
    BY <2>1, <1>2
  <2>5. /\ plan' \in Seq(Target)
        /\ Elements(plan') = { result[i] : i \in first .. Len(result) }
        /\ \A i, j \in DOMAIN plan' :
             i < j => plan'[i] # plan'[j] /\ SortedAfter(plan[j], plan[i])'
        /\ \A t \in chosen \ Elements(plan') : fullDeps[t] \cap Elements(plan') = {}
    BY <1>3, <2>2, <2>4
  <2>6. \A t : SortedAfter(t, config.startName)
               <=> t \in { result[i] : i \in found + 1 .. Len(result) }
    <3>1. ASSUME NEW t, SortedAfter(t, config.startName)
          PROVE  t \in { result[i] : i \in found + 1 .. Len(result) }
      <4>1. PICK i, j \in DOMAIN result :
              i < j /\ result[i] = config.startName /\ result[j] = t
        BY <3>1 DEF SortedAfter
      <4>2. i = found
        BY <4>1, <2>1, <1>2
      <4>3. j \in found + 1 .. Len(result)
        BY <4>1, <4>2, <1>2
      <4>4. QED
        BY <4>1, <4>3
    <3>2. ASSUME NEW i \in found + 1 .. Len(result)
          PROVE  SortedAfter(result[i], config.startName)
      <4>1. i \in DOMAIN result /\ found \in DOMAIN result /\ found < i
        BY <2>1, <1>2
      <4>2. QED
        BY <4>1, <2>1 DEF SortedAfter
    <3>3. QED
      BY <3>1, <3>2
  <2>7. { result[i] : i \in first .. Len(result) } =
          { t \in chosen : IsAskedFor(t) }
    <3>1. { result[i] : i \in found .. Len(result) } =
            {config.startName} \cup { result[i] : i \in found + 1 .. Len(result) }
      <4>1. found .. Len(result) = {found} \cup (found + 1 .. Len(result))
        BY <2>1, <1>2
      <4>2. QED
        BY <4>1, <2>1
    <3>2. { result[i] : i \in first .. Len(result) } \subseteq chosen
      BY <1>1, <1>2, <2>1, <2>4 DEF Elements
    <3>3. CASE config.start = "with"
      <4>1. first = found
        BY <3>3
      <4> HIDE DEF first
      <4>2. QED
        BY <1>6, <2>6, <3>1, <3>2, <3>3, <4>1 DEF IsAskedFor
    <3>4. CASE config.start # "with"
      <4>1. first = found + 1
        BY <3>4
      <4> HIDE DEF first
      <4>2. QED
        BY <1>6, <2>6, <3>2, <3>4, <4>1 DEF IsAskedFor
    <3>5. QED
      BY <3>3, <3>4
  <2>8. { t \in chosen : IsAskedFor(t) }' = { t \in chosen : IsAskedFor(t) }
    BY <1>1 DEF IsAskedFor, SortedAfter
  <2>9. pc' \in {"done", "nothing_left"} /\ (pc' = "nothing_left" <=> plan' = <<>>)
    BY <2>3
  <2> HIDE DEF first
  <2>10. Elements(plan)' = Elements(plan')
    BY DEF Elements
  <2>11. QED
    BY <1>1, <2>5, <2>7, <2>8, <2>9, <2>10 DEF PlanIsComplete
<1>7. QED
  BY <1>4, <1>5, <1>6

(* The start filter changes nothing but the plan.                          *)
LEMMA FilterInvariant == IInv /\ FilterTargets => IInv'
<1> SUFFICES ASSUME IInv, FilterTargets PROVE IInv'
  OBVIOUS
<1> USE DEF IInv
<1>1. /\ declared' = declared /\ config' = config
      /\ chosen' = chosen /\ fullDeps' = fullDeps
      /\ inDegree' = inDegree /\ ready' = ready /\ result' = result
      /\ pc = "filter" /\ Elements(result') = chosen'
  BY DEF FilterTargets, inputs, sorting, LoopOutcome
<1>2. pc' \in {"done", "start_not_built", "nothing_left"}
  BY DEF FilterTargets
<1>3. plan' \in Seq(Target) /\ PlanIsComplete'
  BY FilterPlan
<1>4. TypeOK'
  BY <1>1, <1>2, <1>3 DEF TypeOK, PCs, Failures
<1>5. PlacedWereChosen' /\ LengthCounts' /\ NoRepeats'
  BY <1>1 DEF PlacedWereChosen, LengthCounts, NoRepeats
<1>6. QueueIsExact'
  <2>1. Elements(result') = Elements(result)
    BY <1>1
  <2>2. QED
    BY <1>1, <2>1 DEF QueueIsExact
<1>7. DependenciesFirst'
  BY <1>1 DEF DependenciesFirst
<1>8. SortedSoFar'
  BY <1>1 DEF SortedSoFar, UnchangedBySorting, ShouldRunBefore
<1>9. Untouched' /\ SortedAssertionHolds' /\ LoopOutcome'
  BY <1>1, <1>2 DEF Untouched, SortedAssertionHolds, LoopOutcome
<1>10. QED
  BY <1>3, <1>4, <1>5, <1>6, <1>7, <1>8, <1>9


(* A rejected cycle changes nothing but the program counter.               *)
LEMMA RejectInvariant == IInv /\ RejectCycle => IInv'
<1> SUFFICES ASSUME IInv, RejectCycle PROVE IInv'
  OBVIOUS
<1> USE DEF IInv
<1>1. /\ declared' = declared /\ config' = config /\ plan' = plan
      /\ chosen' = chosen /\ fullDeps' = fullDeps
      /\ inDegree' = inDegree /\ ready' = ready /\ result' = result
      /\ pc = "choose" /\ pc' = "cyclic"
  BY DEF RejectCycle, inputs, sorting
<1>2. TypeOK'
  BY <1>1 DEF TypeOK, PCs, Failures
<1>3. PlacedWereChosen' /\ LengthCounts' /\ NoRepeats'
  BY <1>1 DEF PlacedWereChosen, LengthCounts, NoRepeats
<1>4. QueueIsExact'
  <2>1. Elements(result') = Elements(result)
    BY <1>1
  <2>2. QED
    BY <1>1, <2>1 DEF QueueIsExact
<1>5. DependenciesFirst'
  BY <1>1 DEF DependenciesFirst
<1>6. SortedSoFar'
  BY <1>1 DEF SortedSoFar, UnchangedBySorting, ShouldRunBefore
<1>7. Untouched' /\ SortedAssertionHolds' /\ LoopOutcome' /\ PlanIsComplete'
  BY <1>1 DEF Untouched, SortedAssertionHolds, LoopOutcome, PlanIsComplete
<1>8. QED
  BY <1>2, <1>3, <1>4, <1>5, <1>6, <1>7

LEMMA StutterInvariant == IInv /\ UNCHANGED vars => IInv'
<1> SUFFICES ASSUME IInv, UNCHANGED vars PROVE IInv'
  OBVIOUS
<1> USE DEF IInv, vars
<1>1. TypeOK'
  BY DEF TypeOK
<1>2. PlacedWereChosen' /\ LengthCounts' /\ NoRepeats'
  BY DEF PlacedWereChosen, LengthCounts, NoRepeats
<1>3. QueueIsExact'
  <2>1. Elements(result') = Elements(result)
    OBVIOUS
  <2>2. QED
    BY <2>1 DEF QueueIsExact
<1>4. DependenciesFirst'
  BY DEF DependenciesFirst
<1>5. SortedSoFar'
  BY DEF SortedSoFar, UnchangedBySorting, ShouldRunBefore
<1>6. Untouched' /\ SortedAssertionHolds' /\ LoopOutcome' /\ PlanIsComplete'
  BY DEF Untouched, SortedAssertionHolds, LoopOutcome, PlanIsComplete, Elements,
         IsAskedFor, SortedAfter
<1>7. QED
  BY <1>1, <1>2, <1>3, <1>4, <1>5, <1>6

-----------------------------------------------------------------------------
(* The inductive invariant holds throughout.                               *)
THEOREM Invariance == Spec => []IInv
<1>1. Init => IInv
  BY InitInvariant
<1>2. IInv /\ [Next]_vars => IInv'
  <2> SUFFICES ASSUME IInv, [Next]_vars PROVE IInv'
    OBVIOUS
  <2>1. CASE ChooseTargets
    BY <2>1, ChooseInvariant
  <2>2. CASE RejectCycle
    BY <2>2, RejectInvariant
  <2>3. ASSUME NEW t \in Target, Pop(t) PROVE IInv'
    BY <2>3, PopInvariant
  <2>4. CASE FinishSort
    BY <2>4, FinishInvariant
  <2>5. CASE FilterTargets
    BY <2>5, FilterInvariant
  <2>6. CASE UNCHANGED vars
    BY <2>6, StutterInvariant
  <2>7. QED
    BY <2>1, <2>2, <2>3, <2>4, <2>5, <2>6 DEF Next
<1>3. QED
  BY <1>1, <1>2, PTL DEF Spec

(* Every variable keeps its range; an in-degree never becomes negative.    *)
THEOREM TypeCorrect == Spec => []TypeOK
<1>1. IInv => TypeOK
  BY DEF IInv
<1>2. QED
  BY <1>1, Invariance, PTL

(* No target is placed before a chosen target it depends on.               *)
THEOREM DependenciesComeFirst == Spec => []DependenciesFirst
<1>1. IInv => DependenciesFirst
  BY DEF IInv
<1>2. QED
  BY <1>1, Invariance, PTL

(* "assert result == list(sorted(result))" cannot fail.                    *)
THEOREM SortedAssertion == Spec => []SortedAssertionHolds
<1>1. IInv => SortedAssertionHolds
  BY DEF IInv
<1>2. QED
  BY <1>1, Invariance, PTL

(* The in-degree counters and the queue are exact.                         *)
THEOREM QueueExact == Spec => []QueueIsExact
<1>1. IInv => QueueIsExact
  BY DEF IInv
<1>2. QED
  BY <1>1, Invariance, PTL

(* A reported cycle is one: what is left over when the queue runs empty is *)
(* a set each member of which needs another.                               *)
THEOREM CycleIsReal == Spec => []NoSpuriousCycle
<1>1. IInv => NoSpuriousCycle
  <2> SUFFICES ASSUME IInv, pc = "cycle_in_sort"
               PROVE  \E S \in (SUBSET chosen) \ {{}} : \A t \in S : fullDeps[t] \cap S # {}
    BY DEF NoSpuriousCycle
  <2> DEFINE L == chosen \ Elements(result)
  <2>1. ready = {} /\ Elements(result) # chosen /\ Elements(result) \subseteq chosen
    BY DEF IInv, LoopOutcome, PlacedWereChosen
  <2>2. L \in (SUBSET chosen) \ {{}}
    BY <2>1
  <2>3. \A t \in L : fullDeps[t] \cap L # {}
    <3> SUFFICES ASSUME NEW t \in L PROVE fullDeps[t] \cap L # {}
      OBVIOUS
    <3>1. ~(fullDeps[t] \cap chosen \subseteq Elements(result))
      BY <2>1 DEF IInv, QueueIsExact
    <3>2. QED
      BY <3>1
  <2>4. QED
    BY <2>2, <2>3
<1>2. QED
  BY <1>1, Invariance, PTL

(* The list that is returned is complete, or a dependency-closed suffix.   *)
THEOREM PlanComplete == Spec => []PlanIsComplete
<1>1. IInv => PlanIsComplete
  BY DEF IInv
<1>2. QED
  BY <1>1, Invariance, PTL

(* The counting algorithm implements the declarative order.                *)
THEOREM Refinement == Spec => ImplementsTopoOrder
<1>1. Init => Abstract!Init
  BY DEF Init, Abstract!Init
<1>2. IInv /\ [Next]_vars => [Abstract!Next]_Abstract!vars
  <2> SUFFICES ASSUME IInv, [Next]_vars PROVE [Abstract!Next]_Abstract!vars
    OBVIOUS
  <2> USE DEF IInv
  <2>1. CASE ChooseTargets
    <3>1. result = <<>> /\ result' = result
      BY <2>1 DEF ChooseTargets, Degree, Startable, Untouched
    <3>2. TypeOK'
      BY <2>1, ChooseInvariant
    <3>3. QED
      BY <3>1, <3>2 DEF TypeOK, Abstract!Next, Abstract!Decide
  <2>2. CASE RejectCycle
    BY <2>2 DEF RejectCycle, sorting, Abstract!vars
  <2>3. ASSUME NEW t \in Target, Pop(t) PROVE Abstract!Next
    <3>1. Abstract!Placed = Elements(result)
      BY DEF Abstract!Placed, Elements
    <3>2. Abstract!Available = ready
      BY <3>1 DEF Abstract!Available, QueueIsExact
    <3>3. Abstract!Place(t)
      BY <2>3, <3>2 DEF Pop, Smallest, Startable, Abstract!Place
    <3>4. QED
      BY <3>3 DEF Abstract!Next
  <2>4. CASE FinishSort
    BY <2>4 DEF FinishSort, sorting, Abstract!vars
  <2>5. CASE FilterTargets
    BY <2>5 DEF FilterTargets, sorting, Abstract!vars
  <2>6. CASE UNCHANGED vars
    BY <2>6 DEF vars, Abstract!vars
  <2>7. QED
    BY <2>1, <2>2, <2>3, <2>4, <2>5, <2>6 DEF Next
<1>3. QED
  BY <1>1, <1>2, Invariance, PTL DEF Spec, ImplementsTopoOrder, Abstract!Spec

=============================================================================
