----------------------------- MODULE TargetOrder -----------------------------
(***************************************************************************)
(* TargetManager.get_all_targets() and sort_in_dependency_order(): from    *)
(* the targets named on the command line to the list of targets that will  *)
(* be processed, in order.                                                 *)
(*                                                                         *)
(* The heap is the set "ready": what matters of heapq is that a pop        *)
(* returns the entry with the smallest name_sort_order(), which Rank       *)
(* encodes (run-* last, disk-image-* before them, then by name).           *)
(***************************************************************************)
EXTENDS TargetDeps, Sequences

CONSTANTS
  Rank,         (* name_sort_order(); names, hence keys, are unique           *)
  Registries,   (* the dependency declarations the model ranges over          *)
  Configs       (* the configurations the model ranges over                   *)

ConfigType ==
  [ explicit: SUBSET Target,        \* targets named on the command line
    onlyDependencies: BOOLEAN,      \* --only-dependencies
    includeDependencies: BOOLEAN,   \* --include-dependencies
    includeToolchain: BOOLEAN,      \* --include-toolchain-dependencies
    skipSdk: BOOLEAN,               \* --skip-sdk
    skip: SUBSET Target,            \* what --skip-dependency-filters match
    start: {"all", "with", "after"},\* --start-with, --start-after
    startName: Target ]

ASSUME OrderAssumption ==
  /\ Rank \in [Target -> Nat]
  /\ \A t, u \in Target : Rank[t] = Rank[u] => t = u
  /\ Registries \subseteq Registry
  /\ Configs \subseteq ConfigType

VARIABLES
  declared,    (* "dependencies" of every project class                         *)
  config,      (* the parsed command line                                       *)
  pc,          (* where get_all_targets() is                                    *)
  chosen,      (* chosen_targets                                                *)
  fullDeps,    (* _cached_full_deps of the chosen targets                       *)
  inDegree,    (* in_degree                                                     *)
  ready,       (* priority_queue                                                *)
  result,      (* result of the sort                                            *)
  plan         (* what get_all_targets() returns                                *)

inputs == <<declared, config>>
sorting == <<inDegree, ready, result>>
vars == <<declared, config, pc, chosen, fullDeps, inDegree, ready, result, plan>>

Failures ==
  {"cyclic", "cycle_in_sort", "unsorted", "start_not_built", "nothing_left"}
PCs == {"choose", "sort", "filter", "done"} \cup Failures

Elements(s) == { s[i] : i \in DOMAIN s }

-----------------------------------------------------------------------------
(* What the configuration makes recursive_dependencies() compute for t,    *)
(* and the unfiltered options of _cache_full_dependencies().               *)
FilteredOptions(t) ==
  [ toolchain |-> config.includeToolchain /\ t \notin NoToolchainDeps,
    sdk       |-> ~config.skipSdk,
    skip      |-> config.skip ]

FullOptions == [ toolchain |-> TRUE, sdk |-> TRUE, skip |-> config.skip ]

WantsDependencies(t) == config.includeDependencies \/ t \in MustBuild

GetDependencies(t) ==
  IF WantsDependencies(t)
  THEN RecursiveDependencies(declared, FilteredOptions(t), t)
  ELSE {}

Chosen ==
  (IF config.onlyDependencies THEN {} ELSE config.explicit)
    \cup UNION { GetDependencies(t) : t \in config.explicit }

DependencyCycle ==
  \/ \E t \in config.explicit :
       WantsDependencies(t) /\ CycleFound(declared, FilteredOptions(t), t)
  \/ \E t \in Chosen : CycleFound(declared, FullOptions, t)

(* Mutants of the next two: also count dependencies that are not chosen,   *)
(* and let a target start when one dependency is missing.                  *)
DegreeInAll(deps, members, t) == Cardinality(deps[t])
StartsEarly(degree) == degree <= 1

(* in_degree counts "if dep in adj", and a target is queued at zero.       *)
Degree(deps, members, t) == Cardinality(deps[t] \cap members)
Startable(degree) == degree = 0

(* A mutant of Smallest: the queue is a list.                              *)
AnyOf(t) == t \in ready
Smallest(t) == \A u \in ready : Rank[t] <= Rank[u]

(* The first half of get_all_targets(): collect the targets and their      *)
(* dependencies, cache the full dependencies of each, and set up Kahn's    *)
(* algorithm for them.                                                     *)
ChooseTargets ==
  /\ pc = "choose"
  /\ ~DependencyCycle
  /\ chosen' = Chosen
  /\ fullDeps' = [ t \in Target |->
                     IF t \in chosen'
                     THEN RecursiveDependencies(declared, FullOptions, t)
                     ELSE {} ]
  /\ inDegree' = [ t \in Target |->
                     IF t \in chosen'
                     THEN Degree(fullDeps', chosen', t)
                     ELSE 0 ]
  /\ ready' = { t \in chosen' : Startable(inDegree'[t]) }
  /\ pc' = "sort"
  /\ UNCHANGED <<inputs, result, plan>>

(* fatal_error("Cyclic dependency found").                                 *)
RejectCycle ==
  /\ pc = "choose"
  /\ DependencyCycle
  /\ pc' = "cyclic"
  /\ UNCHANGED <<inputs, chosen, fullDeps, sorting, plan>>

(* One turn of "while priority_queue".                                     *)
Pop(t) ==
  /\ pc = "sort"
  /\ t \in ready
  /\ Smallest(t)
  /\ result' = Append(result, t)
  /\ inDegree' = [ n \in Target |->
                     IF n \in chosen /\ t \in fullDeps[n]
                     THEN inDegree[n] - 1
                     ELSE inDegree[n] ]
  /\ ready' = (ready \ {t}) \cup
              { n \in chosen : t \in fullDeps[n] /\ Startable(inDegree'[n]) }
  /\ UNCHANGED <<inputs, pc, chosen, fullDeps, plan>>

(* A mutant of ShouldRunBefore: without "the other way around".            *)
ComparesNames(a, b) == a \in fullDeps[b] \/ Rank[a] < Rank[b]

(* Target.__lt__, the comparison that sorted() uses.                       *)
ShouldRunBefore(a, b) ==
  \/ a \in fullDeps[b]
  \/ b \notin fullDeps[a] /\ Rank[a] < Rank[b]

(* A stable sort leaves a list as it is exactly if no element is less than *)
(* the one before it.                                                      *)
UnchangedBySorting(s) ==
  \A i \in 1 .. Len(s) - 1 : ~ShouldRunBefore(s[i + 1], s[i])

(* The checks once the queue is empty.                                     *)
FinishSort ==
  /\ pc = "sort"
  /\ ready = {}
  /\ pc' = IF Len(result) # Cardinality(chosen) THEN "cycle_in_sort"
           ELSE IF ~UnchangedBySorting(result) THEN "unsorted"
           ELSE "filter"
  /\ UNCHANGED <<inputs, chosen, fullDeps, sorting, plan>>

(* A mutant of FromStart: --start-after drops the next target, too.        *)
SkipsOne ==
  LET found == CHOOSE i \in DOMAIN result : result[i] = config.startName
  IN  SubSeq(result, IF config.start = "with" THEN found ELSE found + 2,
             Len(result))

(* --start-with and --start-after drop a prefix of the sorted list.        *)
FromStart ==
  LET found == CHOOSE i \in DOMAIN result : result[i] = config.startName
  IN  SubSeq(result, IF config.start = "with" THEN found ELSE found + 1,
             Len(result))

FilterTargets ==
  /\ pc = "filter"
  /\ \/ /\ config.start = "all"
        /\ plan' = result
        /\ pc' = "done"
     \/ /\ config.start # "all"
        /\ config.startName \notin Elements(result)
        /\ pc' = "start_not_built"
        /\ UNCHANGED plan
     \/ /\ config.start # "all"
        /\ config.startName \in Elements(result)
        /\ plan' = FromStart
        /\ pc' = IF plan' = <<>> THEN "nothing_left" ELSE "done"
  /\ UNCHANGED <<inputs, chosen, fullDeps, sorting>>

-----------------------------------------------------------------------------
Init ==
  /\ declared \in Registries
  /\ config \in Configs
  /\ pc = "choose"
  /\ chosen = {}
  /\ fullDeps = [t \in Target |-> {}]
  /\ inDegree = [t \in Target |-> 0]
  /\ ready = {}
  /\ result = <<>>
  /\ plan = <<>>

Next ==
  \/ ChooseTargets
  \/ RejectCycle
  \/ \E t \in Target : Pop(t)
  \/ FinishSort
  \/ FilterTargets

Spec == Init /\ [][Next]_vars

-----------------------------------------------------------------------------
(* The ranges of the variables.                                            *)
TypeOK ==
  /\ declared \in Registry
  /\ config \in ConfigType
  /\ pc \in PCs
  /\ chosen \in SUBSET Target
  /\ fullDeps \in [Target -> SUBSET Target]
  /\ inDegree \in [Target -> Nat]
  /\ ready \in SUBSET Target
  /\ result \in Seq(Target)
  /\ plan \in Seq(Target)

(* Nothing is placed before a chosen target that it depends on, however    *)
(* the declarations, the options and the names are arranged: the loop of   *)
(* sort_in_dependency_order() never emits a node too early.                *)
DependenciesFirst ==
  \A i \in DOMAIN result :
    fullDeps[result[i]] \cap chosen \subseteq { result[k] : k \in 1 .. i - 1 }

(* "assert result == list(sorted(result))" never fails, although the       *)
(* comparison it sorts with is not transitive.                             *)
SortedAssertionHolds == pc # "unsorted"

(* The counters are in step with the list: every target counts those of    *)
(* its dependencies that are still to be placed, and the queue holds       *)
(* exactly the unplaced targets that wait for none, so that an empty queue *)
(* with targets left over can only mean a cycle.                           *)
QueueIsExact ==
  /\ \A t \in chosen :
       inDegree[t] = Cardinality((fullDeps[t] \cap chosen) \ Elements(result))
  /\ ready = { t \in chosen \ Elements(result) :
                 fullDeps[t] \cap chosen \subseteq Elements(result) }

(* "A cycle was detected" is not raised for an acyclic selection: there    *)
(* are targets left over each of which needs another one of them.          *)
NoSpuriousCycle ==
  pc = "cycle_in_sort" =>
    \E S \in (SUBSET chosen) \ {{}} : \A t \in S : fullDeps[t] \cap S # {}

(* Whether t comes after u in the sorted list, and is asked for.           *)
SortedAfter(t, u) ==
  \E i, j \in DOMAIN result : i < j /\ result[i] = u /\ result[j] = t

IsAskedFor(t) ==
  \/ config.start = "all"
  \/ config.start = "with" /\ t = config.startName
  \/ SortedAfter(t, config.startName)

(* Without a start filter exactly the chosen targets are processed; with   *)
(* --start-with exactly the named one and those after it, and with         *)
(* --start-after those, in the order of the sorted list and each once.     *)
(* The error that nothing is left is raised exactly if nothing is.  What   *)
(* was dropped needs nothing that is kept, so that a run from the named    *)
(* target on goes on where an earlier one has stopped; what is kept may    *)
(* need what was dropped, which is what the options are for.               *)
PlanIsComplete ==
  pc \in {"done", "nothing_left"} =>
    /\ Elements(plan) = { t \in chosen : IsAskedFor(t) }
    /\ \A i, j \in DOMAIN plan :
         i < j => plan[i] # plan[j] /\ SortedAfter(plan[j], plan[i])
    /\ config.start # "all" => (pc = "nothing_left" <=> plan = <<>>)
    /\ \A t \in chosen \ Elements(plan) : fullDeps[t] \cap Elements(plan) = {}

(* The counting algorithm implements the declarative order, in particular  *)
(* its result is the one order the selection determines.                   *)
Abstract == INSTANCE TopoOrder WITH members <- chosen,
                                    needs <- fullDeps,
                                    order <- result
ImplementsTopoOrder == Abstract!Spec
=============================================================================
