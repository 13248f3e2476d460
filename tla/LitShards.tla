------------------------------ MODULE LitShards ------------------------------
(***************************************************************************)
(* The sharded libc++ test run: test-scripts/run_libcxx_tests.py with the  *)
(* parts of run_remote_lit_test.py that talk to its main process.          *)
(*                                                                         *)
(* One process per shard boots CheriBSD, tests an SSH connection and runs  *)
(* lit.  After each preparatory stage it puts a NEXT_STAGE message on the  *)
(* queue mp_q and waits on a barrier that the main process releases when   *)
(* all shards have got that far.                                           *)
(*                                                                         *)
(* Abstractions.  mp_q is a multiprocessing.Queue, which keeps the order   *)
(* of the messages of one process only: it is one sequence per shard.      *)
(* Releasing the barrier lets all waiting shards go in one step.  Time is  *)
(* a counter that passes the boot and then the test limit; waiting on the  *)
(* barrier has the same four-hour limit as the tests.  A shard ends        *)
(* because of what it does itself or because the main process kills it.    *)
(* The main process is not interrupted by the user.                        *)
(***************************************************************************)
EXTENDS Naturals, Sequences, FiniteSets

CONSTANTS
  Shard,       (* the shard numbers 1 .. parallel_jobs                          *)
  NoPort,      (* the initial value of LitShardProcess.ssh_port                 *)
  GivenPort,   (* the port of an explicit --ssh-port                            *)
  PortIsGiven  (* whether --ssh-port was passed; if not each shard finds a port *)

ASSUME ShardsAssumption ==
  /\ IsFiniteSet(Shard)
  /\ Cardinality(Shard) > 1       \* main() does not call run_parallel() for one
  /\ NoPort \notin Shard \cup {GivenPort}
  /\ PortIsGiven \in BOOLEAN

(* The clock: max_boot_time and max_test_duration, and where it stops.     *)
BootLimit == 1
TestLimit == 2
MaxClock == 3

Stages == <<"FINDING_SSH_PORT", "BOOTING_CHERIBSD",
            "TESTING_SSH_CONNECTION", "RUNNING_TESTS">>
ShardStage == { Stages[i] : i \in DOMAIN Stages }
MainStage == ShardStage \cup {"EXITED", "FAILED", "TIMED_OUT"}
Level(stage) == CHOOSE i \in DOMAIN Stages : Stages[i] = stage
Following(stage) == Stages[Level(stage) + 1]

Completed == [kind |-> "COMPLETED"]
Failure == [kind |-> "FAILURE"]
NextStage(from, to) == [kind |-> "NEXT_STAGE", from |-> from, to |-> to]

VARIABLES
  (* shards *)
  stage,        (* CURRENT_STAGE in each shard process                          *)
  at,           (* what the shard process is doing                              *)
  (* shared *)
  portQueue,    (* ssh_port_queue: pairs of port and shard                      *)
  mpQueue,      (* mp_q, per sending shard                                      *)
  barrier,      (* "open", or "broken" after a wait timed out                   *)
  clock,
  (* main process *)
  pc,           (* where run_parallel_impl() is                                 *)
  portReads,    (* how many ports it has tried to read                          *)
  sshPort,      (* LitShardProcess.ssh_port                                     *)
  mainStage,    (* LitShardProcess.stage                                        *)
  remaining,    (* remaining_processes                                          *)
  notBooted,    (* not_booted_processes                                         *)
  inNextStage,  (* processes_in_next_stage: the stages that were reported       *)
  retrying,     (* retrying_queue_read                                          *)
  timedOut,     (* timed_out                                                    *)
  outcome       (* how run_parallel_impl() ends                                 *)

shardVars == <<stage, at>>
mainVars == <<portReads, sshPort, mainStage, remaining, notBooted, inNextStage,
              retrying, timedOut, outcome>>
vars == <<stage, at, portQueue, mpQueue, barrier, clock, pc, portReads, sshPort,
          mainStage, remaining, notBooted, inNextStage, retrying, timedOut, outcome>>

(* "working" on its stage, "named" its port, about to be "arriving" at the *)
(* barrier, "waiting" there, "raising" an exception that libcxx_main()     *)
(* still has to report, "leaving" with nothing more to send, "gone".       *)
Activity ==
  {"working", "named", "arriving", "waiting", "raising", "leaving", "gone"}

Alive(s) == at[s] # "gone"
Waiting == { s \in Shard : at[s] = "waiting" }
NWaiting == IF barrier = "broken" THEN 0 ELSE Cardinality(Waiting)

-----------------------------------------------------------------------------
(* The shard process.                                                      *)

(* set_cmdline_args(): tell the main process which port is used.           *)
AnnouncePort(s) ==
  /\ at[s] = "working"
  /\ stage[s] = "FINDING_SSH_PORT"
  /\ portQueue' = portQueue \cup {<<IF PortIsGiven THEN GivenPort ELSE s, s>>}
  /\ at' = [at EXCEPT ![s] = "named"]
  /\ UNCHANGED <<stage, mpQueue, barrier, clock, pc, mainVars>>

(* Mutants of the next two: the message is lost, nobody passes a barrier.  *)
PutLost(s, msg) == mpQueue
PassThrough == "working"

Put(s, msg) == [mpQueue EXCEPT ![s] = Append(@, msg)]
AfterNotifying == "arriving"

(* notify_main_process() up to barrier.wait(), at the end of a stage.      *)
NotifyMainProcess(s) ==
  /\ \/ at[s] = "named"
     \/ at[s] = "working" /\ stage[s] \in {"BOOTING_CHERIBSD", "TESTING_SSH_CONNECTION"}
  /\ mpQueue' = Put(s, NextStage(stage[s], Following(stage[s])))
  /\ stage' = [stage EXCEPT ![s] = Following(@)]
  /\ at' = [at EXCEPT ![s] = AfterNotifying]
  /\ UNCHANGED <<portQueue, barrier, clock, pc, mainVars>>

Arrive(s) ==
  /\ at[s] = "arriving"
  /\ barrier = "open"
  /\ at' = [at EXCEPT ![s] = "waiting"]
  /\ UNCHANGED <<stage, portQueue, mpQueue, barrier, clock, pc, mainVars>>

(* A wait on the barrier took four hours.                                  *)
BarrierTimeout(s) ==
  /\ at[s] = "waiting"
  /\ barrier = "open"
  /\ clock > TestLimit
  /\ barrier' = "broken"
  /\ UNCHANGED <<shardVars, portQueue, mpQueue, clock, pc, mainVars>>

(* An exception of stage s: the handlers around it put FAILURE.  Inside    *)
(* run_remote_lit_tests() that happens there and, unless the exception is  *)
(* one that runtests() or run_and_kill_children_on_exit() stop, again in   *)
(* libcxx_main().                                                          *)
Raise(s, next) ==
  /\ mpQueue' = Put(s, Failure)
  /\ at' = [at EXCEPT ![s] = next]
  /\ UNCHANGED <<stage, portQueue, barrier, clock, pc, mainVars>>

InsideLitTests(s) ==
  \/ stage[s] = "TESTING_SSH_CONNECTION"
  \/ stage[s] = "RUNNING_TESTS"

FailStage(s) ==
  /\ at[s] = "working"
  /\ \/ Raise(s, "leaving")
     \/ InsideLitTests(s) /\ Raise(s, "raising")

(* BrokenBarrierError is an exception nothing on the way stops.            *)
BarrierBroken(s) ==
  /\ at[s] \in {"arriving", "waiting"}
  /\ barrier = "broken"
  /\ Raise(s, IF InsideLitTests(s) THEN "raising" ELSE "leaving")

RaiseAgain(s) ==
  /\ at[s] = "raising"
  /\ Raise(s, "leaving")

(* lit ran to the end, with or without failed tests.  What is left is to   *)
(* clean up, and an exception there is a FAILURE in libcxx_main().         *)
LitFinished(s) ==
  /\ at[s] = "working"
  /\ stage[s] = "RUNNING_TESTS"
  /\ mpQueue' = Put(s, Completed)
  /\ \E next \in {"leaving", "raising"} : at' = [at EXCEPT ![s] = next]
  /\ UNCHANGED <<stage, portQueue, barrier, clock, pc, mainVars>>

(* failure(..., exit=True) is a SystemExit, which sends no message.        *)
ExitSilently(s) ==
  /\ at[s] = "working"
  /\ at' = [at EXCEPT ![s] = "gone"]
  /\ UNCHANGED <<stage, portQueue, mpQueue, barrier, clock, pc, mainVars>>

Leave(s) ==
  /\ at[s] = "leaving"
  /\ at' = [at EXCEPT ![s] = "gone"]
  /\ UNCHANGED <<stage, portQueue, mpQueue, barrier, clock, pc, mainVars>>

Tick ==
  /\ clock < MaxClock
  /\ clock' = clock + 1
  /\ UNCHANGED <<shardVars, portQueue, mpQueue, barrier, pc, mainVars>>

-----------------------------------------------------------------------------
(* The main process: run_parallel_impl().                                  *)

(* "ports" reads the ports, "loop" is the head of the while loop, "get"    *)
(* mp_q.get(), "empty" its handler of Empty, "release" the wait for all    *)
(* shards to reach the barrier, "finish" what follows the loop, "reap" the *)
(* last wait_or_terminate_all_shards().                                    *)
MainPCs == {"ports", "loop", "get", "empty", "release", "finish", "reap", "done"}
Outcomes == {"running", "success", "error", "fatal", "assertion"}

MainOnly == UNCHANGED <<shardVars, portQueue, mpQueue, barrier, clock>>

(* ssh_ports, which nothing is ever appended to.                           *)
SeenPorts == {}

(* A mutant of NextPC: one read too many.                                  *)
NextPCLate == IF portReads' = Cardinality(Shard) + 1 THEN "loop" ELSE "ports"

NextPC == IF portReads' = Cardinality(Shard) THEN "loop" ELSE "ports"

ReadPort ==
  /\ pc = "ports"
  /\ \E msg \in portQueue :
       /\ portQueue' = portQueue \ {msg}
       /\ sshPort' = [sshPort EXCEPT ![msg[2]] = msg[1]]
       /\ timedOut' = (timedOut \/ msg[1] \in SeenPorts)
  /\ portReads' = portReads + 1
  /\ pc' = NextPC
  /\ UNCHANGED <<shardVars, mpQueue, barrier, clock, mainStage, remaining,
                 notBooted, inNextStage, retrying, outcome>>

(* ssh_port_queue.get(timeout=1) raises Empty.                             *)
PortTimeout ==
  /\ pc = "ports"
  /\ portQueue = {}
  /\ timedOut' = TRUE
  /\ portReads' = portReads + 1
  /\ pc' = NextPC
  /\ MainOnly
  /\ UNCHANGED <<sshPort, mainStage, remaining, notBooted, inNextStage, retrying,
                 outcome>>

(* A mutant of BootTimeout: it compares the two limits, like TestTimeout.  *)
BootTimeoutMistaken == notBooted # {} /\ BootLimit > TestLimit

BootTimeout == notBooted # {} /\ clock > BootLimit
TestTimeout == BootLimit > TestLimit

(* The head of the loop, up to the read from mp_q.                         *)
LoopHead ==
  /\ pc = "loop"
  /\ \/ /\ remaining = {}
        /\ pc' = "finish"
        /\ UNCHANGED <<mainStage, timedOut>>
     \/ /\ remaining # {} /\ timedOut
        /\ mainStage' = [s \in Shard |-> IF s \in remaining THEN "TIMED_OUT"
                                                            ELSE mainStage[s]]
        /\ pc' = "finish"
        /\ UNCHANGED timedOut
     \/ /\ remaining # {} /\ ~timedOut
        /\ BootTimeout \/ TestTimeout
        /\ timedOut' = TRUE
        /\ UNCHANGED <<pc, mainStage>>
     \/ /\ remaining # {} /\ ~timedOut
        /\ ~BootTimeout /\ ~TestTimeout
        /\ pc' = "get"
        /\ UNCHANGED <<mainStage, timedOut>>
  /\ MainOnly
  /\ UNCHANGED <<portReads, sshPort, remaining, notBooted, inNextStage, retrying,
                 outcome>>

(* mp_q.get() returns the next message of shard s.                         *)
Receive(s, msg) ==
  /\ pc = "get"
  /\ mpQueue[s] # <<>>
  /\ msg = Head(mpQueue[s])
  /\ mpQueue' = [mpQueue EXCEPT ![s] = Tail(@)]
  /\ retrying' = FALSE
  /\ UNCHANGED <<shardVars, portQueue, barrier, clock, portReads, sshPort>>

GetCompleted(s) ==
  /\ Receive(s, Completed)
  /\ remaining' = remaining \ {s}
  /\ mainStage' = [mainStage EXCEPT ![s] = "EXITED"]
  /\ pc' = "loop"
  /\ UNCHANGED <<notBooted, inNextStage, timedOut, outcome>>

(* The assertions on the stages, and not_booted_processes.remove().        *)
StageReportIsSane(s, msg) ==
  /\ mainStage[s] = msg.from
  /\ inNextStage # <<>> => inNextStage[Len(inNextStage)] = msg.to
  /\ msg.from = "BOOTING_CHERIBSD" => s \in notBooted

GetNextStage(s) ==
  \E i \in 1 .. Len(Stages) - 1 :
    LET msg == NextStage(Stages[i], Stages[i + 1]) IN
    /\ Receive(s, msg)
    /\ UNCHANGED <<remaining, timedOut>>
    /\ \/ /\ ~StageReportIsSane(s, msg)
          /\ outcome' = "assertion"
          /\ pc' = "reap"
          /\ UNCHANGED <<mainStage, notBooted, inNextStage>>
       \/ /\ StageReportIsSane(s, msg)
          /\ inNextStage' = Append(inNextStage, msg.to)
          /\ mainStage' = [mainStage EXCEPT ![s] = msg.to]
          /\ notBooted' = IF msg.from = "BOOTING_CHERIBSD" THEN notBooted \ {s}
                                                           ELSE notBooted
          /\ pc' = IF Len(inNextStage') = Cardinality(Shard) THEN "release"
                                                             ELSE "loop"
          /\ UNCHANGED outcome

GetFailure(s) ==
  /\ Receive(s, Failure)
  /\ mainStage' = [mainStage EXCEPT ![s] = "FAILED"]
  /\ remaining' = remaining \ {s}
  /\ \/ /\ mainStage[s] # "RUNNING_TESTS"
        /\ timedOut' = TRUE
        /\ pc' = "finish"
     \/ /\ mainStage[s] = "RUNNING_TESTS"
        /\ pc' = "loop"
        /\ UNCHANGED timedOut
  /\ UNCHANGED <<notBooted, inNextStage, outcome>>

(* mp_q.get() times out: there was nothing to read.                        *)
GetEmpty ==
  /\ pc = "get"
  /\ \A s \in Shard : mpQueue[s] = <<>>
  /\ pc' = "empty"
  /\ MainOnly
  /\ UNCHANGED mainVars

(* Mutants of Dead: is_alive() is not asked, or always true.               *)
AllRemaining == remaining
NoneOfThem == {}
Dead == { s \in remaining : ~Alive(s) }

(* The look for dead processes afterwards: read once more, and if it was   *)
(* the second time in a row, give up on every dead process.                *)
CheckDead ==
  /\ pc = "empty"
  /\ remaining' = IF retrying THEN remaining \ Dead ELSE remaining
  /\ retrying' = (retrying \/ Dead # {})
  /\ pc' = "loop"
  /\ MainOnly
  /\ UNCHANGED <<portReads, sshPort, mainStage, notBooted, inNextStage, timedOut,
                 outcome>>

(* All shards have reported the stage: wait until they are at the barrier, *)
(* then be the last to arrive there.                                       *)
ReleaseBarrier ==
  /\ pc = "release"
  /\ NWaiting = Cardinality(Shard)
  /\ at' = [s \in Shard |-> "working"]
  /\ inNextStage' = <<>>
  /\ pc' = "loop"
  /\ UNCHANGED <<stage, portQueue, mpQueue, barrier, clock, portReads, sshPort,
                 mainStage, remaining, notBooted, retrying, timedOut, outcome>>

(* "died before reaching the barrier!"                                     *)
DeadBeforeBarrier ==
  /\ pc = "release"
  /\ NWaiting < Cardinality(Shard)
  /\ \E s \in Shard : ~Alive(s)
  /\ outcome' = "fatal"
  /\ pc' = "reap"
  /\ MainOnly
  /\ UNCHANGED <<portReads, sshPort, mainStage, remaining, notBooted, inNextStage,
                 retrying, timedOut>>

(* After the loop.                                                         *)
Finish ==
  /\ pc = "finish"
  /\ outcome' = IF timedOut THEN "error"
                ELSE IF notBooted # {} THEN "fatal" ELSE "success"
  /\ pc' = "reap"
  /\ MainOnly
  /\ UNCHANGED <<portReads, sshPort, mainStage, remaining, notBooted, inNextStage,
                 retrying, timedOut>>

(* wait_or_terminate_all_shards(): a shard that does not end within the    *)
(* grace period is killed.                                                 *)
Terminate(s) ==
  /\ pc = "reap"
  /\ Alive(s)
  /\ at' = [at EXCEPT ![s] = "gone"]
  /\ UNCHANGED <<stage, portQueue, mpQueue, barrier, clock, pc, mainVars>>

AllReaped ==
  /\ pc = "reap"
  /\ \A s \in Shard : ~Alive(s)
  /\ pc' = "done"
  /\ MainOnly
  /\ UNCHANGED mainVars

-----------------------------------------------------------------------------
Init ==
  /\ stage = [s \in Shard |-> "FINDING_SSH_PORT"]
  /\ at = [s \in Shard |-> "working"]
  /\ portQueue = {}
  /\ mpQueue = [s \in Shard |-> <<>>]
  /\ barrier = "open"
  /\ clock = 0
  /\ pc = "ports"
  /\ portReads = 0
  /\ sshPort = [s \in Shard |-> NoPort]
  /\ mainStage = [s \in Shard |-> "FINDING_SSH_PORT"]
  /\ remaining = Shard
  /\ notBooted = Shard
  /\ inNextStage = <<>>
  /\ retrying = FALSE
  /\ timedOut = FALSE
  /\ outcome = "running"

(* Steps a shard takes without waiting for CheriBSD.                       *)
ShardStep(s) ==
  \/ Arrive(s)
  \/ BarrierTimeout(s)
  \/ BarrierBroken(s)
  \/ RaiseAgain(s)
  \/ Leave(s)
  \/ at[s] = "named" /\ NotifyMainProcess(s)

(* The end of the stage that the shard is working on.                      *)
StageEnds(s) ==
  \/ AnnouncePort(s)
  \/ at[s] = "working" /\ NotifyMainProcess(s)
  \/ LitFinished(s)
  \/ FailStage(s)
  \/ ExitSilently(s)

Main ==
  \/ ReadPort
  \/ PortTimeout
  \/ LoopHead
  \/ \E s \in Shard : GetCompleted(s) \/ GetNextStage(s) \/ GetFailure(s)
  \/ GetEmpty
  \/ CheckDead
  \/ ReleaseBarrier
  \/ DeadBeforeBarrier
  \/ Finish
  \/ \E s \in Shard : Terminate(s)
  \/ AllReaped

Next ==
  \/ \E s \in Shard : ShardStep(s) \/ StageEnds(s)
  \/ Tick
  \/ Main

Spec == Init /\ [][Next]_vars

(* Processes keep running and time passes; booting, in particular, may     *)
(* take forever.                                                           *)
Fairness ==
  /\ WF_vars(Main)
  /\ WF_vars(Tick)
  /\ \A s \in Shard : WF_vars(ShardStep(s))

(* lit has a timeout per test, so that it comes to an end; so does the SSH *)
(* test if the connection does not hang.                                   *)
TestsEnd ==
  \A s \in Shard : WF_vars(InsideLitTests(s) /\ StageEnds(s))

FairSpec == Spec /\ Fairness

-----------------------------------------------------------------------------
Messages == {Completed, Failure}
              \cup { NextStage(Stages[i], Stages[i + 1]) : i \in 1 .. Len(Stages) - 1 }

(* A shard sends a message per stage, COMPLETED and at most two FAILUREs.  *)
MaxMessages == Len(Stages) + 2

(* The types of the variables.                                             *)
TypeOK ==
  /\ stage \in [Shard -> ShardStage]
  /\ at \in [Shard -> Activity]
  /\ portQueue \subseteq (Shard \cup {GivenPort}) \X Shard
  /\ \A s \in Shard : mpQueue[s] \in Seq(Messages) /\ Len(mpQueue[s]) <= MaxMessages
  /\ barrier \in {"open", "broken"}
  /\ clock \in 0 .. MaxClock
  /\ pc \in MainPCs
  /\ portReads \in 0 .. Cardinality(Shard)
  /\ sshPort \in [Shard -> Shard \cup {GivenPort, NoPort}]
  /\ mainStage \in [Shard -> MainStage]
  /\ remaining \subseteq Shard
  /\ notBooted \subseteq Shard
  /\ inNextStage \in Seq(ShardStage) /\ Len(inNextStage) <= Cardinality(Shard)
  /\ retrying \in BOOLEAN
  /\ timedOut \in BOOLEAN
  /\ outcome \in Outcomes

(* No shard works on a stage before all the others have finished the stage *)
(* before it: what the barrier, and the counting of NEXT_STAGE messages    *)
(* that decides when the main process joins it, are for.                   *)
InLockStep ==
  \A s, t \in Shard : at[s] = "working" => Level(stage[t]) >= Level(stage[s])

(* The stage the main process has on record for a shard that it has not    *)
(* given up, together with the reports it has not read yet, is the stage   *)
(* of the shard, and no report breaks an assertion: `assert                *)
(* target_process.stage == shard_result[2]`, the one that compares with    *)
(* the shards that reported before, or not_booted_processes.remove().      *)
Reported(s) ==
  Cardinality({ i \in DOMAIN mpQueue[s] : mpQueue[s][i].kind = "NEXT_STAGE" })

MainKnowsTheStage ==
  /\ outcome # "assertion"
  /\ \A s \in Shard : mainStage[s] \in ShardStage
       => Level(mainStage[s]) + Reported(s) = Level(stage[s])

(* The main process stops watching a shard only when that shard has        *)
(* nothing left to do but to report how it ended, and takes the run for a  *)
(* success only when none is left to watch and every one has booted.       *)
WatchedToTheEnd ==
  /\ \A s \in Shard \ remaining : at[s] \in {"raising", "leaving", "gone"}
  /\ outcome = "success" =>
       \A s \in Shard : /\ Level(stage[s]) > Level("BOOTING_CHERIBSD")
                        /\ at[s] \notin {"working", "arriving", "waiting"}

(* If the tests come to an end, so does the main process, leaving no shard *)
(* behind, whatever the shards do while they boot: no wait on the barrier, *)
(* on mp_q or for a dead shard is forever.                                 *)
MainTerminates == TestsEnd => <>(pc = "done" /\ \A s \in Shard : ~Alive(s))

(* Even if nothing a shard waits for ever happens, the time for booting is *)
(* limited: "If any shard has not yet booted CheriBSD after 10 minutes     *)
(* something went horribly wrong".                                         *)
BootingIsLimited == <>(pc = "done" \/ notBooted = {})

-----------------------------------------------------------------------------
(* What a comment of run_parallel_impl() says, and the code does not do.   *)

(* "if the shard takes longer than 4 hours to run something went wrong"    *)
TestingIsLimited == clock > TestLimit ~> pc = "done"
=============================================================================
