------------------------------ MODULE TargetRun ------------------------------
(***************************************************************************)
(* The life of the targets in one run of cheribuild: the loops of          *)
(* real_main() over the sorted targets (and build_target() of the Jenkins  *)
(* front end), the methods of Target that create, check, set up and run a  *)
(* project at most once, and the calls that come back to them from inside  *)
(* a project: get_instance(), and dependency_error(), which offers to      *)
(* build what is missing.                                                  *)
(*                                                                         *)
(* Everything is one thread.  "calls" is what that thread has still to do: *)
(* first the call it is in, then the ones that wait for it to return.  A   *)
(* method of a project class is a "hook": it may ask for the instances     *)
(* that Asks lists, its own included, miss the targets that Tools lists,   *)
(* and fail.                                                               *)
(***************************************************************************)
EXTENDS Sequences, FiniteSets, Naturals

CONSTANTS
  Targets,
  Deps,          (* the full dependencies of each target                      *)
  Asks,          (* Asks[hook][t]: instances that this method of t asks for   *)
  Tools,         (* Tools[hook][t]: what dependency_error() may offer there   *)
  Plans,         (* results of get_all_targets(), ordered by dependency       *)
  Lists          (* targets named to the Jenkins front end, in any order      *)

Kinds == {"BUILD", "TEST", "BENCHMARK"}
Hooks == {"check", "setup"} \cup Kinds
Pairs == {"instance", "tool"} \X Targets

(* What has to be prepared (checked and set up) or built in the course of  *)
(* preparing or building a target.  That a setup() asks for its own        *)
(* project is not counted: drm-kmod does, through a method of CheriBSD.    *)
Stages == {"prepare", "BUILD"} \X Targets

Asked(hooks, t) == {"prepare"} \X UNION { Asks[h][t] : h \in hooks }
Offered(hooks, t) == {"prepare", "BUILD"} \X UNION { Tools[h][t] : h \in hooks }

NeedsOf(stage, t) ==
  IF stage = "BUILD"
  THEN {<<"prepare", t>>} \cup Asked({"BUILD"}, t) \cup Offered({"BUILD"}, t)
  ELSE Asked({"check"}, t) \cup (Asked({"setup"}, t) \ {<<"prepare", t>>})
         \cup Offered({"check", "setup"}, t)

Needs == [ s \in Stages |-> NeedsOf(s[1], s[2]) ]

Acyclic(needs) ==
  \A S \in (SUBSET Stages) \ {{}} : \E s \in S : needs[s] \cap S = {}

Elements(s) == { s[i] : i \in DOMAIN s }

ASSUME RunAssumption ==
  /\ Deps \in [Targets -> SUBSET Targets]
  /\ Asks \in [Hooks -> [Targets -> SUBSET Targets]]
  /\ Tools \in [Hooks -> [Targets -> SUBSET Targets]]
  /\ Acyclic(Needs)
  /\ \A p \in Plans :
       /\ p \in Seq(Targets)
       /\ \A i, j \in DOMAIN p : p[i] \in Deps[p[j]] \/ p[i] = p[j] => i <= j
  /\ Lists \subseteq Seq(Targets)

VARIABLES
  frontEnd,      (* "cheribuild" or "jenkins"                                 *)
  action,        (* config.action                                             *)
  plan,          (* chosen_targets                                            *)
  calls,         (* the calls under way and waiting                           *)
  project,       (* targets with a project instance                           *)
  depsChecked,   (* _system_deps_checked                                      *)
  setupCalled,   (* _setup_called                                             *)
  setupLate,     (* _setup_late_called                                        *)
  done,          (* _completed, _tests_have_run and _benchmarks_have_run      *)
  returned,      (* hooks that have returned, as <<hook, target>> (history)   *)
  started,       (* how often run hooks were begun (history)                  *)
  outcome        (* how the process ends                                      *)

inputs == <<frontEnd, action, plan>>
flags == <<project, depsChecked, setupCalled, setupLate, done>>
vars == <<inputs, calls, flags, returned, started, outcome>>

(* A call that has not begun.                                              *)
Call(op, t) == [op |-> op, target |-> t, at |-> "start", left |-> {}]

Loop(op, ts) == [ i \in DOMAIN ts |-> Call(op, ts[i]) ]

LoopIf(kind, ts) == IF kind \in action THEN Loop(kind, ts) ELSE <<>>

(* A mutant of MainCalls: without the loop over check_system_deps().       *)
NoCheckLoop ==
  LoopIf("BUILD", plan) \o LoopIf("TEST", plan) \o LoopIf("BENCHMARK", plan)

(* The four loops at the end of real_main().                               *)
MainCalls ==
  Loop("check", plan) \o LoopIf("BUILD", plan) \o LoopIf("TEST", plan)
    \o LoopIf("BENCHMARK", plan)

(* The two loops of _jenkins_main(), the second over build_target().       *)
JenkinsCalls ==
  IF action \cap {"BUILD", "TEST"} = {} THEN <<>>
  ELSE Loop("check", plan) \o Loop("target", plan)

Init ==
  /\ action \in SUBSET Kinds
  /\ \/ frontEnd = "cheribuild" /\ plan \in Plans
     \/ frontEnd = "jenkins" /\ plan \in Lists
  /\ calls = IF frontEnd = "cheribuild" THEN MainCalls ELSE JenkinsCalls
  /\ project = {}
  /\ depsChecked = {}
  /\ setupCalled = {}
  /\ setupLate = {}
  /\ done = [k \in Kinds |-> {}]
  /\ returned = {}
  /\ started = [k \in Kinds |-> [t \in Targets |-> 0]]
  /\ outcome = "running"

-----------------------------------------------------------------------------
(* The call under way, and what its return leaves.                         *)
Current(op, at) ==
  /\ outcome = "running"
  /\ calls # <<>>
  /\ Head(calls).op = op
  /\ Head(calls).at = at

Self == Head(calls).target

Return == calls' = Tail(calls)

Continue(at, left) ==
  calls' = << [Head(calls) EXCEPT !.at = at, !.left = left] >> \o Tail(calls)

Assert(condition) ==
  outcome' = IF condition THEN outcome ELSE "assertion"

Wants(hook, t) ==
  ({"instance"} \X Asks[hook][t]) \cup ({"tool"} \X Tools[hook][t])

-----------------------------------------------------------------------------
(* check_system_deps(): create the project if there is none, and call      *)
(* check_system_dependencies() unless that has been done.  The base class  *)
(* sets _system_deps_checked before the classes derived from it look.      *)
CheckSystemDeps ==
  /\ Current("check", "start")
  /\ project' = project \cup {Self}
  /\ IF Self \in depsChecked
     THEN Return /\ UNCHANGED depsChecked
     ELSE /\ depsChecked' = depsChecked \cup {Self}
          /\ Continue("check", Wants("check", Self))
  /\ UNCHANGED <<inputs, setupCalled, setupLate, done, returned, started, outcome>>

(* A mutant of FirstCheck: get_or_create_project() does not check.         *)
NoCheck(t) == <<>>
FirstCheck(t) == << Call("check", t) >>

(* get_or_create_project(): the same first, ...                            *)
GetOrCreateProject ==
  /\ Current("get", "start")
  /\ project' = project \cup {Self}
  /\ calls' = FirstCheck(Self)
              \o << [Head(calls) EXCEPT !.at = "checked"] >> \o Tail(calls)
  /\ UNCHANGED <<inputs, depsChecked, setupCalled, setupLate, done, returned,
                 started, outcome>>

(* A mutant of ToBeSetUp: it looks at the flag that is set when the work   *)
(* is done.                                                                *)
NotDoneYet(t) == t \notin setupLate
ToBeSetUp(t) == t \notin setupCalled

(* ... then setup(), whose body begins with super().setup(), ...           *)
Setup ==
  /\ Current("get", "checked")
  /\ IF ToBeSetUp(Self)
     THEN /\ Assert(Self \notin setupCalled \cup setupLate)
          /\ setupCalled' = setupCalled \cup {Self}
          /\ Continue("setup", Wants("setup", Self))
     ELSE /\ Continue("late", {})
          /\ UNCHANGED <<setupCalled, outcome>>
  /\ UNCHANGED <<inputs, project, depsChecked, setupLate, done, returned, started>>

(* ... and setup_late(), also once.  It is in the middle of setup() if     *)
(* that asks for its own project.                                          *)
SetupLate ==
  /\ Current("get", "late")
  /\ setupLate' = setupLate \cup {Self}
  /\ Return
  /\ UNCHANGED <<inputs, project, depsChecked, setupCalled, done, returned,
                 started, outcome>>

(* Mutants of AlreadyRun: the flag is not looked at, and another one is.   *)
NeverRun(kind, t) == FALSE
SetUpAlready(kind, t) == t \in setupCalled
AlreadyRun(kind, t) == t \in done[kind]

(* execute(), run_tests() and run_benchmarks() up to the call of           *)
(* get_or_create_project() in _do_run().                                   *)
DoRun(kind) ==
  /\ Current(kind, "start")
  /\ IF AlreadyRun(kind, Self)
     THEN Return /\ UNCHANGED outcome
     ELSE /\ Assert(Self \in project)
          /\ calls' = << Call("get", Self) >>
                      \o << [Head(calls) EXCEPT !.at = "ready"] >> \o Tail(calls)
  /\ UNCHANGED <<inputs, flags, returned, started>>

(* The call of process(), run_tests() or run_benchmarks() of the project.  *)
Begin(kind) ==
  /\ Current(kind, "ready")
  /\ started' = [started EXCEPT ![kind][Self] = @ + 1]
  /\ Continue(kind, Wants(kind, Self))
  /\ UNCHANGED <<inputs, flags, returned, outcome>>

(* build_target() of the Jenkins front end, which has no benchmarks.       *)
BuildTarget ==
  /\ Current("target", "start")
  /\ calls' = (<< Call("get", Self) >> \o LoopIf("BUILD", << Self >>)
                                      \o LoopIf("TEST", << Self >>))
              \o << [Head(calls) EXCEPT !.at = "built"] >> \o Tail(calls)
  /\ UNCHANGED <<inputs, flags, returned, started, outcome>>

BuildTargetReturns ==
  /\ Current("target", "built")
  /\ Return
  /\ UNCHANGED <<inputs, flags, returned, started, outcome>>

-----------------------------------------------------------------------------
(* A hook of the current project is under way.                             *)
InHook(hook) ==
  Current(IF hook = "setup" THEN "get" ELSE hook, hook)

Answered(x) == [Head(calls) EXCEPT !.left = @ \ {x}]

(* Other.get_instance(self).                                               *)
GetInstance(hook, t) ==
  /\ InHook(hook)
  /\ <<"instance", t>> \in Head(calls).left
  /\ calls' = << Call("get", t), Answered(<<"instance", t>>) >> \o Tail(calls)
  /\ UNCHANGED <<inputs, flags, returned, started, outcome>>

Installing(t) == << Call("check", t), Call("get", t), Call("BUILD", t) >>

(* dependency_error() with a cheribuild target.  It is a method of this    *)
(* project, or of the one that is missing, if this hook has asked for it   *)
(* (qt5.py:107).  Before setup_late() of that project it is fatal; later   *)
(* it is if the user does not want the target to be built.                 *)
MayOffer(hook, t) ==
  \/ Self \in setupLate
  \/ t \in setupLate /\ <<"instance", t>> \in Wants(hook, Self) \ Head(calls).left

DependencyError(hook, t) ==
  /\ InHook(hook)
  /\ <<"tool", t>> \in Head(calls).left
  /\ \/ outcome' = "failed" /\ UNCHANGED calls
     \/ /\ MayOffer(hook, t)
        /\ calls' = Installing(t) \o << Answered(<<"tool", t>>) >> \o Tail(calls)
        /\ UNCHANGED outcome
  /\ UNCHANGED <<inputs, flags, returned, started>>

(* Any exception and any other fatal error ends the process.               *)
HookFails(hook) ==
  /\ InHook(hook)
  /\ outcome' = "failed"
  /\ UNCHANGED <<inputs, calls, flags, returned, started>>

(* The hook returns.  After process() and the like the flag is set.        *)
HookReturns(hook) ==
  /\ InHook(hook)
  /\ returned' = returned \cup {<<hook, Self>>}
  /\ IF hook = "setup" THEN Continue("late", {}) ELSE Return
  /\ done' = IF hook \in Kinds THEN [done EXCEPT ![hook] = @ \cup {Self}]
             ELSE done
  /\ UNCHANGED <<inputs, project, depsChecked, setupCalled, setupLate, started,
                 outcome>>

Finish ==
  /\ outcome = "running"
  /\ calls = <<>>
  /\ outcome' = "done"
  /\ UNCHANGED <<inputs, calls, flags, returned, started>>

Next ==
  \/ CheckSystemDeps
  \/ GetOrCreateProject
  \/ Setup
  \/ SetupLate
  \/ BuildTarget
  \/ BuildTargetReturns
  \/ \E kind \in Kinds : DoRun(kind) \/ Begin(kind)
  \/ \E hook \in Hooks :
       \/ \E t \in Targets : GetInstance(hook, t) \/ DependencyError(hook, t)
       \/ HookFails(hook)
       \/ HookReturns(hook)
  \/ Finish

Spec == Init /\ [][Next]_vars

-----------------------------------------------------------------------------
(* A call is nested if a hook of some project waits for it.                *)
Nested == \E j \in 2 .. Len(calls) : calls[j].at \in Hooks

Running(kind) == Current(kind, kind)
Planned == Elements(plan)

(* The ranges of the variables, and in which order the flags of a target   *)
(* are set.                                                                *)
TypeOK ==
  /\ frontEnd \in {"cheribuild", "jenkins"}
  /\ action \subseteq Kinds
  /\ plan \in Seq(Targets)
  /\ calls \in Seq([ op: {"check", "get", "target"} \cup Kinds, target: Targets,
                     at: {"start", "checked", "late", "ready", "built"} \cup Hooks,
                     left: SUBSET Pairs ])
  /\ project \subseteq Targets
  /\ depsChecked \subseteq project
  /\ setupCalled \subseteq depsChecked
  /\ setupLate \subseteq setupCalled
  /\ done \in [Kinds -> SUBSET setupLate]
  /\ returned \subseteq Hooks \X Targets
  /\ started \in [Kinds -> [Targets -> Nat]]
  /\ outcome \in {"running", "done", "failed", "assertion"}

(* A target is not built, tested or benchmarked twice, although several    *)
(* others may have offered to build it before main() comes to it.          *)
EachRunsOnce ==
  \A k \in Kinds, t \in Targets : started[k][t] <= 1

(* When main() builds a target, all of its other dependencies that are to  *)
(* be built in this run have been.  (The Jenkins front end builds in the   *)
(* order in which the targets are named.)                                  *)
ProcessAfterDependencies ==
  frontEnd = "cheribuild" /\ Running("BUILD") /\ ~Nested =>
    (Deps[Self] \cap Planned) \ {Self} \subseteq done["BUILD"]

(* "check_system_deps should be called before setup()", and it has         *)
(* returned by then; a project is built, tested and benchmarked after its  *)
(* setup() has returned and setup_late() was called, also if it is built   *)
(* in the middle of the setup() of another.  No "assert" of these methods  *)
(* fails, whatever the projects ask for: there is a project when _do_run() *)
(* wants one, and setup() and setup_late() are called once.                *)
StagesInOrder ==
  /\ outcome # "assertion"
  /\ \A t \in setupCalled : <<"check", t>> \in returned
  /\ \A k \in Kinds, t \in Targets :
       started[k][t] > 0 => t \in setupLate /\ <<"setup", t>> \in returned

(* No method of a project is entered again while it runs, although it may  *)
(* lead to a call that asks for this project; and what is handed out has   *)
(* been set up to the end, except to a call for the project itself.        *)
SetupIsWhole ==
  /\ \A i, j \in DOMAIN calls :
       calls[i].at \in Hooks /\ calls[i].at = calls[j].at /\ i # j
         => calls[i].target # calls[j].target
  /\ Current("get", "late") /\ <<"setup", Self>> \notin returned
       => Len(calls) > 1 /\ calls[2].target = Self
=============================================================================
