---------------------------- MODULE LitShardsProofs ----------------------------
(***************************************************************************)
(* The safety properties of LitShards, for any number of shards.  The      *)
(* stages are run in rounds, and a round ends when the barrier is          *)
(* released; the invariant says where each shard, its queue and the main   *)
(* process can be in one round.                                            *)
(***************************************************************************)
EXTENDS LitShards, FiniteSetTheorems, SequenceTheorems, TLAPS

(* The shard cannot get any further.                                       *)
Over(s) == at[s] \in {"raising", "leaving", "gone"}

(* The main process has still to read that the shard has ended a stage.    *)
Unread(s) == mpQueue[s] # <<>> /\ mpQueue[s][1].kind = "NEXT_STAGE"

(* The shards whose reports of this round have been read.                  *)
Counted(r) == { s \in Shard : Level(stage[s]) = r + 1 /\ ~Unread(s) }

(* In round r each shard works on stage r or has reported its end.         *)
InRound(r) ==
  \A s \in Shard :
    /\ Level(stage[s]) \in {r, r + 1}
    /\ at[s] \in {"working", "named"} => Level(stage[s]) = r
    /\ at[s] \in {"arriving", "waiting"} => Level(stage[s]) = r + 1
    /\ at[s] = "named" => stage[s] = "FINDING_SSH_PORT"

(* At most the report of this round, and before anything else.             *)
QueuesInRound(r) ==
  \A s \in Shard :
    /\ at[s] \in {"working", "named"} => mpQueue[s] = <<>>
    /\ at[s] \in {"arriving", "waiting"} => Len(mpQueue[s]) <= 1
    /\ at[s] = "raising" => Len(mpQueue[s]) <= 2
    /\ Len(mpQueue[s]) <= 3
    /\ \A i \in 1 .. Len(mpQueue[s]) :
         IF mpQueue[s][i].kind = "NEXT_STAGE"
         THEN /\ i = 1
              /\ mpQueue[s][i] = NextStage(Stages[r], Stages[r + 1])
              /\ Level(stage[s]) = r + 1
         ELSE Over(s)

(* inNextStage counts the reports of this round that have been read.       *)
ReportsCounted(r) ==
  /\ Len(inNextStage) = Cardinality(Counted(r))
  /\ \A i \in 1 .. Len(inNextStage) : inNextStage[i] = Stages[r + 1]

(* What the main process has on record, and whom it has given up.          *)
RecordsAreTrue ==
  \A s \in Shard :
    /\ mainStage[s] \in ShardStage =>
         Level(stage[s]) = Level(mainStage[s]) + (IF Unread(s) THEN 1 ELSE 0)
    /\ mainStage[s] \in {"EXITED", "FAILED"} => ~Unread(s) /\ Over(s)
    /\ mainStage[s] = "TIMED_OUT" => pc \in {"finish", "reap", "done"}
    /\ mainStage[s] \in {"FINDING_SSH_PORT", "BOOTING_CHERIBSD"} => s \in notBooted
    /\ s \notin notBooted => Level(stage[s]) > 2
    /\ s \notin remaining => Over(s)

(* What the main process knows from where it is.                           *)
WhereMainIs ==
  /\ pc = "ports" => portReads < Cardinality(Shard)
  /\ pc = "release" => Len(inNextStage) = Cardinality(Shard)
  /\ pc = "finish" /\ ~timedOut => remaining = {}
  /\ outcome = "success" => remaining = {} /\ notBooted = {}
  /\ outcome # "assertion"

(* The types, but for the lengths, which depend on the rounds.             *)
Types ==
  /\ stage \in [Shard -> ShardStage]
  /\ at \in [Shard -> Activity]
  /\ portQueue \subseteq (Shard \cup {GivenPort}) \X Shard
  /\ mpQueue \in [Shard -> Seq(Messages)]
  /\ barrier \in {"open", "broken"}
  /\ clock \in 0 .. MaxClock
  /\ pc \in MainPCs
  /\ portReads \in 0 .. Cardinality(Shard)
  /\ sshPort \in [Shard -> Shard \cup {GivenPort, NoPort}]
  /\ mainStage \in [Shard -> MainStage]
  /\ remaining \subseteq Shard
  /\ notBooted \subseteq Shard
  /\ inNextStage \in Seq(ShardStage)
  /\ retrying \in BOOLEAN
  /\ timedOut \in BOOLEAN
  /\ outcome \in Outcomes

IInv ==
  /\ Types
  /\ RecordsAreTrue
  /\ WhereMainIs
  /\ \E r \in 1 .. 4 : InRound(r) /\ QueuesInRound(r) /\ ReportsCounted(r)

-----------------------------------------------------------------------------
(* What Level() is: stages are numbered 1 to 4.                            *)
LEMMA Levels ==
  /\ DOMAIN Stages = 1 .. 4 /\ Len(Stages) = 4
  /\ \A i \in 1 .. 4 : Stages[i] \in ShardStage /\ Level(Stages[i]) = i
  /\ \A st \in ShardStage : Level(st) \in 1 .. 4 /\ Stages[Level(st)] = st
  /\ "FINDING_SSH_PORT" \in ShardStage /\ Level("FINDING_SSH_PORT") = 1
  /\ "BOOTING_CHERIBSD" \in ShardStage /\ Level("BOOTING_CHERIBSD") = 2
  /\ "TESTING_SSH_CONNECTION" \in ShardStage /\ Level("TESTING_SSH_CONNECTION") = 3
  /\ "RUNNING_TESTS" \in ShardStage /\ Level("RUNNING_TESTS") = 4
<1>1. DOMAIN Stages = 1 .. 4 /\ Len(Stages) = 4
  BY DEF Stages
<1>2. /\ Stages[1] = "FINDING_SSH_PORT" /\ Stages[2] = "BOOTING_CHERIBSD"
      /\ Stages[3] = "TESTING_SSH_CONNECTION" /\ Stages[4] = "RUNNING_TESTS"
  BY DEF Stages
<1>3. \A i, j \in 1 .. 4 : Stages[i] = Stages[j] => i = j
  BY <1>2
<1>4. \A i \in 1 .. 4 : Level(Stages[i]) = i
  BY <1>1, <1>3 DEF Level
<1>5. ShardStage = { Stages[i] : i \in 1 .. 4 }
  BY <1>1 DEF ShardStage
<1>6. \A st \in ShardStage : \E i \in 1 .. 4 : st = Stages[i]
  BY <1>5
<1>7. \A i \in 1 .. 4 : Stages[i] \in ShardStage
  BY <1>5
<1>8. \A st \in ShardStage : Level(st) \in 1 .. 4 /\ Stages[Level(st)] = st
  BY <1>4, <1>6
<1>9. 1 \in 1 .. 4 /\ 2 \in 1 .. 4 /\ 3 \in 1 .. 4 /\ 4 \in 1 .. 4
  OBVIOUS
<1> QED
  BY <1>1, <1>2, <1>4, <1>7, <1>8, <1>9

(* A message is a report exactly if its kind says so.                      *)
LEMMA MessageKinds ==
  /\ Completed \in Messages /\ Completed.kind = "COMPLETED"
  /\ Failure \in Messages /\ Failure.kind = "FAILURE"
  /\ \A i \in 1 .. 3 : NextStage(Stages[i], Stages[i + 1]) \in Messages
  /\ \A a, b : /\ NextStage(a, b).kind = "NEXT_STAGE"
               /\ NextStage(a, b).from = a /\ NextStage(a, b).to = b
<1>1. 1 .. Len(Stages) - 1 = 1 .. 3
  BY Levels
<1> QED
  BY <1>1 DEF Messages, Completed, Failure, NextStage

(* The shards are finitely many, and so are those that were counted.       *)
LEMMA CountedIsFinite ==
  ASSUME NEW r \in 1 .. 4
  PROVE  /\ IsFiniteSet(Counted(r))
         /\ Cardinality(Counted(r)) \in Nat /\ Cardinality(Shard) \in Nat
         /\ Cardinality(Counted(r)) <= Cardinality(Shard)
         /\ Cardinality(Counted(r)) = Cardinality(Shard) => Counted(r) = Shard
<1>1. Counted(r) \subseteq Shard
  BY DEF Counted
<1> QED
  BY <1>1, ShardsAssumption, FS_Subset, FS_CardinalityType

(* Putting a message at the end of a queue, and taking the first one.      *)
LEMMA AppendToQueue ==
  ASSUME NEW q \in Seq(Messages), NEW m \in Messages
  PROVE  /\ Append(q, m) \in Seq(Messages)
         /\ Len(Append(q, m)) = Len(q) + 1
         /\ \A i \in 1 .. Len(q) : Append(q, m)[i] = q[i]
         /\ Append(q, m)[Len(q) + 1] = m
         /\ Append(q, m) # <<>>
  OBVIOUS

LEMMA TailOfQueue ==
  ASSUME NEW q \in Seq(Messages), q # <<>>
  PROVE  /\ Head(q) = q[1] /\ q[1] \in Messages
         /\ Tail(q) \in Seq(Messages)
         /\ Len(Tail(q)) = Len(q) - 1 /\ Len(q) \in Nat \ {0}
         /\ \A i \in 1 .. Len(Tail(q)) : Tail(q)[i] = q[i + 1]
  BY HeadTailProperties

(* A queue with at most one report, and that in front, has Reported(s)     *)
(* say whether there is one.                                               *)
LEMMA ReportedIsUnread ==
  ASSUME NEW s \in Shard, mpQueue[s] \in Seq(Messages),
         \A i \in 1 .. Len(mpQueue[s]) : mpQueue[s][i].kind = "NEXT_STAGE" => i = 1
  PROVE  Reported(s) = IF Unread(s) THEN 1 ELSE 0
<1> DEFINE R == { i \in DOMAIN mpQueue[s] : mpQueue[s][i].kind = "NEXT_STAGE" }
<1>1. DOMAIN mpQueue[s] = 1 .. Len(mpQueue[s]) /\ Len(mpQueue[s]) \in Nat
  OBVIOUS
<1>2. CASE Unread(s)
  <2>1. 1 \in R
    BY <1>1, <1>2 DEF Unread
  <2>2. R = {1}
    BY <1>1, <2>1
  <2> QED
    BY <1>2, <2>2, FS_Singleton DEF Reported
<1>3. CASE ~Unread(s)
  <2>1. R = {}
    BY <1>1, <1>3 DEF Unread
  <2> QED
    BY <1>3, <2>1, FS_EmptySet DEF Reported
<1> QED
  BY <1>2, <1>3

LEMMA InitHolds == Init => IInv
<1> SUFFICES ASSUME Init PROVE IInv
  OBVIOUS
<1>1. Cardinality(Shard) \in Nat /\ Cardinality(Shard) > 1
  BY ShardsAssumption, FS_CardinalityType
<1>a. <<>> \in Seq(Messages) /\ <<>> \in Seq(ShardStage) /\ Len(<<>>) = 0
  OBVIOUS
<1>b. /\ stage \in [Shard -> ShardStage] /\ at \in [Shard -> Activity]
      /\ mpQueue \in [Shard -> Seq(Messages)]
      /\ sshPort \in [Shard -> Shard \cup {GivenPort, NoPort}]
      /\ mainStage \in [Shard -> MainStage]
  BY <1>a, Levels DEF Init, Activity, MainStage
<1>c. /\ portReads \in 0 .. Cardinality(Shard) /\ clock \in 0 .. MaxClock
  BY <1>1 DEF Init, MaxClock
<1>e. /\ pc \in MainPCs /\ outcome \in Outcomes /\ barrier \in {"open", "broken"}
      /\ retrying \in BOOLEAN /\ timedOut \in BOOLEAN
  BY DEF Init, MainPCs, Outcomes
<1>d. /\ portQueue \subseteq (Shard \cup {GivenPort}) \X Shard
      /\ remaining \subseteq Shard /\ notBooted \subseteq Shard
      /\ inNextStage \in Seq(ShardStage)
  BY <1>a DEF Init
<1>2. Types
  BY <1>b, <1>c, <1>d, <1>e DEF Types
<1>3. \A s \in Shard : ~Unread(s)
  BY DEF Init, Unread
<1>4. RecordsAreTrue
  BY <1>3, Levels DEF Init, RecordsAreTrue
<1>5. WhereMainIs
  BY <1>1 DEF Init, WhereMainIs
<1>6. InRound(1)
  BY Levels DEF Init, InRound
<1>7. QueuesInRound(1)
  BY DEF Init, QueuesInRound
<1>8. Counted(1) = {}
  BY Levels DEF Init, Counted
<1>9. ReportsCounted(1)
  <2>1. Cardinality(Counted(1)) = 0
    BY <1>8, FS_EmptySet
  <2>2. Len(inNextStage) = 0
    BY <1>a DEF Init
  <2> QED
    BY <2>1, <2>2 DEF ReportsCounted
<1> QED
  BY <1>2, <1>4, <1>5, <1>6, <1>7, <1>9 DEF IInv

(* A step in which a shard gives up or is killed, with at most one more    *)
(* message, which is no report.                                            *)
LEMMA ShardIsOver ==
  ASSUME IInv, NEW s \in Shard, NEW next \in {"raising", "leaving", "gone"},
         NEW q \in Seq(Messages),
         q = mpQueue[s] \/ q = Append(mpQueue[s], Completed)
                        \/ q = Append(mpQueue[s], Failure),
         Len(q) <= 3, next = "raising" => Len(q) <= 2,
         at' = [at EXCEPT ![s] = next],
         mpQueue' = [mpQueue EXCEPT ![s] = q],
         UNCHANGED <<stage, portQueue, barrier, clock, pc, mainVars>>
  PROVE  IInv'
<1>a. Types /\ RecordsAreTrue /\ WhereMainIs
  BY DEF IInv
<1>r. PICK r \in 1 .. 4 : InRound(r) /\ QueuesInRound(r) /\ ReportsCounted(r)
  BY DEF IInv
<1>t. at \in [Shard -> Activity] /\ mpQueue \in [Shard -> Seq(Messages)]
  BY <1>a DEF Types
<1>1. \A t \in Shard : /\ at'[t] = (IF t = s THEN next ELSE at[t])
                       /\ mpQueue'[t] = (IF t = s THEN q ELSE mpQueue[t])
  BY <1>t
<1>2. /\ Len(mpQueue[s]) \in Nat /\ Len(q) \in Nat
      /\ \A i \in 1 .. Len(q) :
           \/ i \in 1 .. Len(mpQueue[s]) /\ q[i] = mpQueue[s][i]
           \/ i = Len(mpQueue[s]) + 1 /\ q[i].kind # "NEXT_STAGE"
      /\ Len(mpQueue[s]) <= Len(q) /\ (mpQueue[s] # <<>> => q[1] = mpQueue[s][1])
  <2>1. mpQueue[s] \in Seq(Messages) /\ Len(mpQueue[s]) \in Nat /\ Len(q) \in Nat
    BY <1>t
  <2>2. ASSUME NEW m \in {Completed, Failure}, q = Append(mpQueue[s], m)
        PROVE  /\ Len(q) = Len(mpQueue[s]) + 1
               /\ \A i \in 1 .. Len(mpQueue[s]) : q[i] = mpQueue[s][i]
               /\ q[Len(mpQueue[s]) + 1].kind # "NEXT_STAGE"
    <3>1. m \in Messages /\ m.kind # "NEXT_STAGE"
      BY MessageKinds
    <3> QED
      BY <2>1, <2>2, <3>1, AppendToQueue
  <2>3. CASE q = mpQueue[s]
    BY <2>1, <2>3
  <2>4. CASE q # mpQueue[s]
    <3>1. /\ Len(q) = Len(mpQueue[s]) + 1
          /\ \A i \in 1 .. Len(mpQueue[s]) : q[i] = mpQueue[s][i]
          /\ q[Len(mpQueue[s]) + 1].kind # "NEXT_STAGE"
      BY <2>2, <2>4
    <3>2. mpQueue[s] # <<>> => 1 \in 1 .. Len(mpQueue[s])
      BY <2>1
    <3> QED
      BY <2>1, <3>1, <3>2
  <2> QED
    BY <2>3, <2>4
<1>3. \A t \in Shard : Unread(t)' = Unread(t)
  <2>1. q # <<>> /\ q[1].kind = "NEXT_STAGE" <=> Unread(s)
    BY <1>2, <1>t DEF Unread
  <2> QED
    BY <1>1, <2>1 DEF Unread
<1>4. \A t \in Shard : (Over(t) => Over(t)') /\ Over(s)'
  BY <1>1 DEF Over
<1>5. UNCHANGED <<stage, portQueue, barrier, clock, pc, portReads, sshPort, mainStage,
                  remaining, notBooted, inNextStage, retrying, timedOut, outcome>>
  BY DEF mainVars
<1>6. Types'
  <2>1. at' \in [Shard -> Activity] /\ mpQueue' \in [Shard -> Seq(Messages)]
    BY <1>t DEF Activity
  <2> QED
    BY <1>a, <1>5, <2>1 DEF Types
<1>7. RecordsAreTrue'
  BY <1>a, <1>3, <1>4, <1>5 DEF RecordsAreTrue
<1>8. WhereMainIs'
  BY <1>a, <1>5 DEF WhereMainIs
<1>9. InRound(r)'
  BY <1>r, <1>1, <1>5 DEF InRound
<1>10. QueuesInRound(r)'
  <2> SUFFICES ASSUME NEW t \in Shard
               PROVE  /\ at'[t] \in {"working", "named"} => mpQueue'[t] = <<>>
                      /\ at'[t] \in {"arriving", "waiting"} => Len(mpQueue'[t]) <= 1
                      /\ at'[t] = "raising" => Len(mpQueue'[t]) <= 2
                      /\ Len(mpQueue'[t]) <= 3
                      /\ \A i \in 1 .. Len(mpQueue'[t]) :
                           IF mpQueue'[t][i].kind = "NEXT_STAGE"
                           THEN /\ i = 1
                                /\ mpQueue'[t][i] = NextStage(Stages[r], Stages[r + 1])
                                /\ Level(stage'[t]) = r + 1
                           ELSE Over(t)'
    BY DEF QueuesInRound
  <2>1. CASE t = s
    BY <1>r, <1>1, <1>2, <1>4, <1>5, <2>1 DEF QueuesInRound
  <2>2. CASE t # s
    BY <1>r, <1>1, <1>4, <1>5, <2>2 DEF QueuesInRound
  <2> QED
    BY <2>1, <2>2
<1>11. ReportsCounted(r)'
  <2>1. Counted(r)' = Counted(r)
    BY <1>3, <1>5 DEF Counted
  <2> QED
    BY <1>r, <1>5, <2>1 DEF ReportsCounted
<1> QED
  BY <1>6, <1>7, <1>8, <1>9, <1>10, <1>11 DEF IInv

(* The report of a shard at the end of its stage.                          *)
LEMMA NotifyHolds ==
  ASSUME IInv, NEW s \in Shard, NotifyMainProcess(s)
  PROVE  IInv'
<1>a. Types /\ RecordsAreTrue /\ WhereMainIs
  BY DEF IInv
<1>r. PICK r \in 1 .. 4 : InRound(r) /\ QueuesInRound(r) /\ ReportsCounted(r)
  BY DEF IInv
<1>t. /\ at \in [Shard -> Activity] /\ mpQueue \in [Shard -> Seq(Messages)]
      /\ stage \in [Shard -> ShardStage]
  BY <1>a DEF Types
<1> DEFINE msg == NextStage(Stages[r], Stages[r + 1])
<1>1. at[s] \in {"named", "working"} /\ mpQueue[s] = <<>> /\ ~Unread(s) /\ ~Over(s)
  BY <1>r DEF NotifyMainProcess, QueuesInRound, Unread, Over
<1>2. r \in 1 .. 3 /\ Level(stage[s]) = r /\ stage[s] = Stages[r]
  <2>1. Level(stage[s]) = r /\ stage[s] = Stages[Level(stage[s])]
    BY <1>r, <1>1, <1>t, Levels DEF InRound
  <2>2. Level(stage[s]) \in {1, 2, 3}
    BY <1>r, Levels DEF NotifyMainProcess, InRound
  <2> QED
    BY <2>1, <2>2
<1>3. Following(stage[s]) = Stages[r + 1] /\ Level(Stages[r + 1]) = r + 1
      /\ Stages[r + 1] \in ShardStage
  BY <1>2, Levels DEF Following
<1>4. msg \in Messages /\ msg.kind = "NEXT_STAGE"
  BY <1>2, MessageKinds
<1>5. /\ stage' = [stage EXCEPT ![s] = Stages[r + 1]]
      /\ at' = [at EXCEPT ![s] = "arriving"]
      /\ mpQueue' = [mpQueue EXCEPT ![s] = Append(<<>>, msg)]
      /\ UNCHANGED <<portQueue, barrier, clock, pc, portReads, sshPort, mainStage,
                     remaining, notBooted, inNextStage, retrying, timedOut, outcome>>
  BY <1>1, <1>2, <1>3 DEF NotifyMainProcess, Put, AfterNotifying, mainVars
<1>6. Append(<<>>, msg) \in Seq(Messages) /\ Len(Append(<<>>, msg)) = 1
      /\ Append(<<>>, msg)[1] = msg /\ Append(<<>>, msg) # <<>>
  BY <1>4
<1>7. /\ \A t \in Shard : t # s => /\ stage'[t] = stage[t] /\ at'[t] = at[t]
                                   /\ mpQueue'[t] = mpQueue[t]
                                   /\ Unread(t)' = Unread(t) /\ Over(t)' = Over(t)
      /\ stage'[s] = Stages[r + 1] /\ at'[s] = "arriving"
      /\ mpQueue'[s] = Append(<<>>, msg) /\ Unread(s)' /\ ~Over(s)'
  BY <1>t, <1>5, <1>6, <1>4 DEF Unread, Over
<1>8. Types'
  <2>1. /\ at' \in [Shard -> Activity] /\ mpQueue' \in [Shard -> Seq(Messages)]
        /\ stage' \in [Shard -> ShardStage]
    BY <1>t, <1>3, <1>5, <1>6 DEF Activity
  <2> QED
    BY <1>a, <1>5, <2>1 DEF Types
<1>9. RecordsAreTrue'
  <2>1. \A t \in Shard : t # s => Level(stage'[t]) = Level(stage[t])
    BY <1>7
  <2>2. Level(stage'[s]) = Level(stage[s]) + 1 /\ Level(stage[s]) \in Nat
    BY <1>7, <1>2, <1>3
  <2> QED
    BY <1>a, <1>1, <1>5, <1>7, <2>1, <2>2, Levels DEF RecordsAreTrue
<1>10. WhereMainIs'
  BY <1>a, <1>5 DEF WhereMainIs
<1>11. InRound(r)'
  BY <1>r, <1>3, <1>7 DEF InRound
<1>12. QueuesInRound(r)'
  <2> DEFINE Q(t) ==
               /\ at[t] \in {"working", "named"} => mpQueue[t] = <<>>
               /\ at[t] \in {"arriving", "waiting"} => Len(mpQueue[t]) <= 1
               /\ at[t] = "raising" => Len(mpQueue[t]) <= 2
               /\ Len(mpQueue[t]) <= 3
               /\ \A i \in 1 .. Len(mpQueue[t]) :
                    IF mpQueue[t][i].kind = "NEXT_STAGE"
                    THEN /\ i = 1
                         /\ mpQueue[t][i] = msg
                         /\ Level(stage[t]) = r + 1
                    ELSE Over(t)
  <2>1. ASSUME NEW t \in Shard, t # s PROVE Q(t)'
    <3>1. Q(t)
      BY <1>r DEF QueuesInRound
    <3> QED
      BY <1>7, <2>1, <3>1
  <2>2. Q(s)'
    <3>1. \A i \in 1 .. 1 : i = 1
      OBVIOUS
    <3> QED
      BY <1>3, <1>4, <1>6, <1>7, <3>1
  <2>3. \A t \in Shard : Q(t)'
    BY <2>1, <2>2
  <2> QED
    BY <2>3 DEF QueuesInRound
<1>13. ReportsCounted(r)'
  <2>1. Counted(r)' = Counted(r)
    BY <1>2, <1>7 DEF Counted
  <2> QED
    BY <1>r, <1>5, <2>1 DEF ReportsCounted
<1> QED
  BY <1>8, <1>9, <1>10, <1>11, <1>12, <1>13 DEF IInv

(* What else a shard does.                                                 *)
LEMMA ShardHolds ==
  ASSUME IInv, NEW s \in Shard, ShardStep(s) \/ StageEnds(s)
  PROVE  IInv'
<1>a. Types /\ RecordsAreTrue /\ WhereMainIs
  BY DEF IInv
<1>r. PICK r \in 1 .. 4 : InRound(r) /\ QueuesInRound(r) /\ ReportsCounted(r)
  BY DEF IInv
<1>t. /\ at \in [Shard -> Activity] /\ mpQueue \in [Shard -> Seq(Messages)]
      /\ stage \in [Shard -> ShardStage]
  BY <1>a DEF Types
<1>q. /\ mpQueue[s] \in Seq(Messages) /\ Len(mpQueue[s]) \in Nat
      /\ \A m \in {Completed, Failure} : /\ Append(mpQueue[s], m) \in Seq(Messages)
                                         /\ Len(Append(mpQueue[s], m)) = Len(mpQueue[s]) + 1
  <2>1. mpQueue[s] \in Seq(Messages)
    BY <1>t
  <2> QED
    BY <2>1, MessageKinds, AppendToQueue
<1>l. /\ at[s] \in {"working", "named"} => Len(mpQueue[s]) = 0
      /\ at[s] \in {"arriving", "waiting"} => Len(mpQueue[s]) <= 1
      /\ at[s] = "raising" => Len(mpQueue[s]) <= 2
      /\ Len(mpQueue[s]) <= 3
  BY <1>r, <1>q DEF QueuesInRound
<1>1. CASE AnnouncePort(s)
  <2>1. /\ at[s] = "working" /\ stage[s] = "FINDING_SSH_PORT"
        /\ at' = [at EXCEPT ![s] = "named"]
        /\ UNCHANGED <<stage, mpQueue, barrier, clock, pc, portReads, sshPort, mainStage,
                       remaining, notBooted, inNextStage, retrying, timedOut, outcome>>
    BY <1>1 DEF AnnouncePort, mainVars
  <2>2. \A t \in Shard : /\ at'[t] = (IF t = s THEN "named" ELSE at[t])
                         /\ Unread(t)' = Unread(t) /\ Over(t)' = Over(t)
    BY <1>t, <2>1 DEF Unread, Over
  <2>3. Types'
    <3>1. portQueue' \subseteq (Shard \cup {GivenPort}) \X Shard
      BY <1>a, <1>1 DEF AnnouncePort, Types
    <3>2. at' \in [Shard -> Activity]
      BY <1>t, <2>1 DEF Activity
    <3> QED
      BY <1>a, <2>1, <3>1, <3>2 DEF Types
  <2>4. RecordsAreTrue' /\ WhereMainIs'
    BY <1>a, <2>1, <2>2 DEF RecordsAreTrue, WhereMainIs
  <2>5. InRound(r)' /\ QueuesInRound(r)'
    BY <1>r, <2>1, <2>2 DEF InRound, QueuesInRound
  <2>6. ReportsCounted(r)'
    BY <1>r, <2>1, <2>2 DEF ReportsCounted, Counted
  <2> QED
    BY <2>3, <2>4, <2>5, <2>6 DEF IInv
<1>2. CASE Arrive(s)
  <2>1. /\ at[s] = "arriving" /\ at' = [at EXCEPT ![s] = "waiting"]
        /\ UNCHANGED <<stage, portQueue, mpQueue, barrier, clock, pc, portReads, sshPort,
                       mainStage, remaining, notBooted, inNextStage, retrying, timedOut,
                       outcome>>
    BY <1>2 DEF Arrive, mainVars
  <2>2. \A t \in Shard : /\ at'[t] = (IF t = s THEN "waiting" ELSE at[t])
                         /\ Unread(t)' = Unread(t) /\ Over(t)' = Over(t)
    BY <1>t, <2>1 DEF Unread, Over
  <2>3. Types'
    <3>1. at' \in [Shard -> Activity]
      BY <1>t, <2>1 DEF Activity
    <3> QED
      BY <1>a, <2>1, <3>1 DEF Types
  <2>4. RecordsAreTrue' /\ WhereMainIs'
    BY <1>a, <2>1, <2>2 DEF RecordsAreTrue, WhereMainIs
  <2>5. InRound(r)' /\ QueuesInRound(r)'
    BY <1>r, <2>1, <2>2 DEF InRound, QueuesInRound
  <2>6. ReportsCounted(r)'
    BY <1>r, <2>1, <2>2 DEF ReportsCounted, Counted
  <2> QED
    BY <2>3, <2>4, <2>5, <2>6 DEF IInv
<1>3. CASE BarrierTimeout(s)
  <2>1. /\ barrier' = "broken"
        /\ UNCHANGED <<at, stage, portQueue, mpQueue, clock, pc, portReads, sshPort,
                       mainStage, remaining, notBooted, inNextStage, retrying, timedOut,
                       outcome>>
    BY <1>3 DEF BarrierTimeout, mainVars, shardVars
  <2>2. Types' /\ RecordsAreTrue' /\ WhereMainIs'
    BY <1>a, <2>1 DEF Types, RecordsAreTrue, WhereMainIs, Unread, Over
  <2>3. InRound(r)' /\ QueuesInRound(r)' /\ ReportsCounted(r)'
    BY <1>r, <2>1 DEF InRound, QueuesInRound, ReportsCounted, Counted, Unread, Over
  <2> QED
    BY <2>2, <2>3 DEF IInv
<1>4. ASSUME NEW next \in {"raising", "leaving"}, Raise(s, next),
             at[s] \in {"working", "arriving", "waiting", "raising"},
             at[s] = "raising" => next = "leaving"
      PROVE  IInv'
  <2>1. mpQueue' = [mpQueue EXCEPT ![s] = Append(mpQueue[s], Failure)]
    BY <1>4 DEF Raise, Put
  <2>2. Len(Append(mpQueue[s], Failure)) <= 3
        /\ (next = "raising" => Len(Append(mpQueue[s], Failure)) <= 2)
    BY <1>4, <1>l, <1>q
  <2>3. /\ at' = [at EXCEPT ![s] = next]
        /\ UNCHANGED <<stage, portQueue, barrier, clock, pc, mainVars>>
    BY <1>4 DEF Raise
  <2> QED
    BY <1>q, <2>1, <2>2, <2>3, ShardIsOver
<1>5. CASE FailStage(s)
  <2>1. PICK next \in {"raising", "leaving"} : at[s] = "working" /\ Raise(s, next)
    BY <1>5 DEF FailStage
  <2> QED
    BY <1>4, <2>1
<1>6. CASE BarrierBroken(s)
  <2>1. PICK next \in {"raising", "leaving"} :
          at[s] \in {"arriving", "waiting"} /\ Raise(s, next)
    BY <1>6 DEF BarrierBroken
  <2> QED
    BY <1>4, <2>1
<1>7. CASE RaiseAgain(s)
  BY <1>4, <1>7 DEF RaiseAgain
<1>8. CASE LitFinished(s)
  <2>1. PICK next \in {"leaving", "raising"} : at' = [at EXCEPT ![s] = next]
    BY <1>8 DEF LitFinished
  <2>2. mpQueue' = [mpQueue EXCEPT ![s] = Append(mpQueue[s], Completed)]
    BY <1>8 DEF LitFinished, Put
  <2>4. Append(mpQueue[s], Completed) \in Seq(Messages)
        /\ Len(Append(mpQueue[s], Completed)) <= 2
        /\ Len(Append(mpQueue[s], Completed)) <= 3
    BY <1>8, <1>l, <1>q DEF LitFinished
  <2>3. UNCHANGED <<stage, portQueue, barrier, clock, pc, mainVars>>
    BY <1>8 DEF LitFinished
  <2> QED
    BY <2>1, <2>2, <2>3, <2>4, ShardIsOver
<1>9. CASE ExitSilently(s) \/ Leave(s)
  <2>1. mpQueue' = [mpQueue EXCEPT ![s] = mpQueue[s]]
    BY <1>t, <1>9 DEF ExitSilently, Leave
  <2>2. PICK next \in {"raising", "leaving", "gone"} :
          /\ next # "raising" /\ at' = [at EXCEPT ![s] = next]
          /\ UNCHANGED <<stage, portQueue, barrier, clock, pc, mainVars>>
    BY <1>9 DEF ExitSilently, Leave
  <2>3. Len(mpQueue[s]) <= 3 /\ (next = "raising" => Len(mpQueue[s]) <= 2)
    BY <1>l, <2>2
  <2> QED
    BY <1>q, <2>1, <2>2, <2>3, ShardIsOver
<1> QED
  BY <1>1, <1>2, <1>3, <1>5, <1>6, <1>7, <1>8, <1>9, NotifyHolds DEF ShardStep, StageEnds

(* Steps of the main process that leave the shards and their queues alone. *)
LEMMA RoundStays ==
  ASSUME NEW r \in 1 .. 4, InRound(r), QueuesInRound(r), ReportsCounted(r),
         UNCHANGED <<stage, at, mpQueue, inNextStage>>
  PROVE  /\ InRound(r)' /\ QueuesInRound(r)' /\ ReportsCounted(r)'
         /\ \A s \in Shard : Unread(s)' = Unread(s) /\ Over(s)' = Over(s)
  BY DEF InRound, QueuesInRound, ReportsCounted, Counted, Unread, Over

(* Reading a message: a report is one of this round, and is the only one   *)
(* of its shard; after any other message there is nothing to come.         *)
LEMMA ReadingAMessage ==
  ASSUME NEW r \in 1 .. 4, InRound(r), QueuesInRound(r), Types,
         NEW s \in Shard, mpQueue[s] # <<>>,
         mpQueue' = [mpQueue EXCEPT ![s] = Tail(@)],
         UNCHANGED <<stage, at>>
  PROVE  /\ mpQueue' \in [Shard -> Seq(Messages)]
         /\ InRound(r)' /\ QueuesInRound(r)'
         /\ Head(mpQueue[s]) = mpQueue[s][1] /\ ~Unread(s)'
         /\ \A t \in Shard : /\ Over(t)' = Over(t)
                             /\ t # s => Unread(t)' = Unread(t)
         /\ Unread(s) => /\ Level(stage[s]) = r + 1
                         /\ Head(mpQueue[s]) = NextStage(Stages[r], Stages[r + 1])
                         /\ Counted(r)' = Counted(r) \cup {s} /\ s \notin Counted(r)
         /\ ~Unread(s) => Over(s) /\ Counted(r)' = Counted(r)
<1>t. mpQueue \in [Shard -> Seq(Messages)] /\ mpQueue[s] \in Seq(Messages)
  BY DEF Types
<1>1. /\ Head(mpQueue[s]) = mpQueue[s][1]
      /\ Tail(mpQueue[s]) \in Seq(Messages)
      /\ Len(Tail(mpQueue[s])) = Len(mpQueue[s]) - 1 /\ Len(mpQueue[s]) \in Nat \ {0}
      /\ \A i \in 1 .. Len(Tail(mpQueue[s])) : Tail(mpQueue[s])[i] = mpQueue[s][i + 1]
  BY <1>t, TailOfQueue
<1>2. /\ \A t \in Shard : t # s => mpQueue'[t] = mpQueue[t]
      /\ mpQueue'[s] = Tail(mpQueue[s])
      /\ mpQueue' \in [Shard -> Seq(Messages)]
  BY <1>t, <1>1
<1>3. \A i \in 1 .. Len(Tail(mpQueue[s])) :
        Tail(mpQueue[s])[i].kind # "NEXT_STAGE" /\ Over(s)
  <2> SUFFICES ASSUME NEW i \in 1 .. Len(Tail(mpQueue[s]))
               PROVE  Tail(mpQueue[s])[i].kind # "NEXT_STAGE" /\ Over(s)
    OBVIOUS
  <2>1. i + 1 \in 1 .. Len(mpQueue[s]) /\ i + 1 # 1
    BY <1>1
  <2>2. mpQueue[s][i + 1].kind # "NEXT_STAGE" /\ Over(s)
    BY <2>1 DEF QueuesInRound
  <2> QED
    BY <1>1, <2>2
<1>4. ~Unread(s)'
  <2>1. ASSUME Tail(mpQueue[s]) # <<>> PROVE Tail(mpQueue[s])[1].kind # "NEXT_STAGE"
    <3>1. 1 \in 1 .. Len(Tail(mpQueue[s]))
      BY <1>1, <2>1, EmptySeq
    <3> QED
      BY <1>3, <3>1
  <2> QED
    BY <1>2, <2>1 DEF Unread
<1>5. \A t \in Shard : Over(t)' = Over(t) /\ (t # s => Unread(t)' = Unread(t))
  BY <1>2 DEF Over, Unread
<1>6. InRound(r)'
  BY DEF InRound
<1>7. QueuesInRound(r)'
  <2> DEFINE Q(t) ==
               /\ at[t] \in {"working", "named"} => mpQueue[t] = <<>>
               /\ at[t] \in {"arriving", "waiting"} => Len(mpQueue[t]) <= 1
               /\ at[t] = "raising" => Len(mpQueue[t]) <= 2
               /\ Len(mpQueue[t]) <= 3
               /\ \A i \in 1 .. Len(mpQueue[t]) :
                    IF mpQueue[t][i].kind = "NEXT_STAGE"
                    THEN /\ i = 1
                         /\ mpQueue[t][i] = NextStage(Stages[r], Stages[r + 1])
                         /\ Level(stage[t]) = r + 1
                    ELSE Over(t)
  <2>1. ASSUME NEW t \in Shard, t # s PROVE Q(t)'
    BY <1>2, <1>5, <2>1 DEF QueuesInRound
  <2>2. Q(s)'
    BY <1>1, <1>2, <1>3, <1>5 DEF QueuesInRound
  <2>3. \A t \in Shard : Q(t)'
    BY <2>1, <2>2
  <2> QED
    BY <2>3 DEF QueuesInRound
<1>8. 1 \in 1 .. Len(mpQueue[s])
  BY <1>1
<1>9. ASSUME Unread(s)
      PROVE  /\ Level(stage[s]) = r + 1
             /\ Head(mpQueue[s]) = NextStage(Stages[r], Stages[r + 1])
             /\ Counted(r)' = Counted(r) \cup {s} /\ s \notin Counted(r)
  <2>1. Level(stage[s]) = r + 1
        /\ Head(mpQueue[s]) = NextStage(Stages[r], Stages[r + 1])
    BY <1>1, <1>8, <1>9 DEF QueuesInRound, Unread
  <2>2. Counted(r)' = Counted(r) \cup {s} /\ s \notin Counted(r)
    BY <1>4, <1>5, <1>9, <2>1 DEF Counted
  <2> QED
    BY <2>1, <2>2
<1>10. ASSUME ~Unread(s) PROVE Over(s) /\ Counted(r)' = Counted(r)
  <2>1. Over(s)
    BY <1>8, <1>10 DEF QueuesInRound, Unread
  <2>2. Counted(r)' = Counted(r)
    BY <1>4, <1>5, <1>10 DEF Counted
  <2> QED
    BY <2>1, <2>2
<1> QED
  BY <1>1, <1>2, <1>4, <1>5, <1>6, <1>7, <1>9, <1>10

(* The main process reads a message.                                       *)
LEMMA ReceiveHolds ==
  ASSUME IInv, NEW s \in Shard, GetCompleted(s) \/ GetNextStage(s) \/ GetFailure(s)
  PROVE  IInv'
<1>a. Types /\ RecordsAreTrue /\ WhereMainIs
  BY DEF IInv
<1>r. PICK r \in 1 .. 4 : InRound(r) /\ QueuesInRound(r) /\ ReportsCounted(r)
  BY DEF IInv
<1>t. /\ stage \in [Shard -> ShardStage] /\ mainStage \in [Shard -> MainStage]
      /\ inNextStage \in Seq(ShardStage)
  BY <1>a DEF Types
<1>1. /\ mpQueue[s] # <<>> /\ pc = "get" /\ retrying' = FALSE
      /\ mpQueue' = [mpQueue EXCEPT ![s] = Tail(@)]
      /\ UNCHANGED <<stage, at, portQueue, barrier, clock, portReads, sshPort>>
  BY DEF GetCompleted, GetNextStage, GetFailure, Receive, shardVars
<1>2. /\ mpQueue' \in [Shard -> Seq(Messages)]
      /\ InRound(r)' /\ QueuesInRound(r)'
      /\ Head(mpQueue[s]) = mpQueue[s][1] /\ ~Unread(s)'
      /\ \A t \in Shard : /\ Over(t)' = Over(t)
                          /\ t # s => Unread(t)' = Unread(t)
      /\ Unread(s) => /\ Level(stage[s]) = r + 1
                      /\ Head(mpQueue[s]) = NextStage(Stages[r], Stages[r + 1])
                      /\ Counted(r)' = Counted(r) \cup {s} /\ s \notin Counted(r)
      /\ ~Unread(s) => Over(s) /\ Counted(r)' = Counted(r)
  BY <1>a, <1>r, <1>1, ReadingAMessage
<1>3. CASE GetCompleted(s) \/ GetFailure(s)
  <2>1. Head(mpQueue[s]).kind # "NEXT_STAGE"
    BY <1>3, MessageKinds DEF GetCompleted, GetFailure, Receive
  <2>2. ~Unread(s) /\ Over(s) /\ Counted(r)' = Counted(r)
    BY <1>2, <2>1 DEF Unread
  <2>3. /\ \E st \in {"EXITED", "FAILED"} : mainStage' = [mainStage EXCEPT ![s] = st]
        /\ remaining' = remaining \ {s}
        /\ \/ pc' = "loop" /\ UNCHANGED timedOut
           \/ pc' = "finish" /\ timedOut' = TRUE
        /\ UNCHANGED <<notBooted, inNextStage, outcome>>
    BY <1>3 DEF GetCompleted, GetFailure
  <2>4. /\ \A t \in Shard : t # s => mainStage'[t] = mainStage[t]
        /\ mainStage'[s] \in {"EXITED", "FAILED"}
        /\ mainStage' \in [Shard -> MainStage]
    BY <1>t, <2>3 DEF MainStage
  <2>5. Types'
    BY <1>a, <1>1, <1>2, <2>3, <2>4 DEF Types, MainPCs
  <2>6. RecordsAreTrue'
    <3>1. \A st \in {"EXITED", "FAILED"} :
            st \notin ShardStage \cup {"TIMED_OUT", "FINDING_SSH_PORT", "BOOTING_CHERIBSD"}
      BY DEF ShardStage, Stages
    <3>2. /\ mainStage'[s] \notin ShardStage /\ mainStage'[s] # "TIMED_OUT"
          /\ mainStage'[s] \notin {"FINDING_SSH_PORT", "BOOTING_CHERIBSD"}
          /\ ~Unread(s)' /\ Over(s)'
      BY <1>2, <2>2, <2>4, <3>1
    <3>3. \A t \in Shard : mainStage[t] = "TIMED_OUT" => pc \in {"finish", "reap", "done"}
      BY <1>a DEF RecordsAreTrue
    <3>4. \A t \in Shard : t # s => mainStage'[t] # "TIMED_OUT"
      BY <1>1, <2>4, <3>3
    <3> QED
      BY <1>a, <1>1, <1>2, <2>2, <2>3, <2>4, <3>2, <3>4 DEF RecordsAreTrue
  <2>7. WhereMainIs'
    <3>1. outcome # "success" \/ remaining' = {}
      BY <1>a, <2>3 DEF WhereMainIs
    <3> QED
      BY <1>a, <2>3, <3>1 DEF WhereMainIs
  <2>8. ReportsCounted(r)'
    BY <1>r, <2>2, <2>3 DEF ReportsCounted
  <2> QED
    BY <1>2, <2>5, <2>6, <2>7, <2>8 DEF IInv
<1>4. CASE GetNextStage(s)
  <2>1. PICK i \in 1 .. 3 :
          LET msg == NextStage(Stages[i], Stages[i + 1]) IN
          /\ Head(mpQueue[s]) = msg
          /\ UNCHANGED <<remaining, timedOut>>
          /\ \/ ~StageReportIsSane(s, msg)
             \/ /\ StageReportIsSane(s, msg)
                /\ inNextStage' = Append(inNextStage, msg.to)
                /\ mainStage' = [mainStage EXCEPT ![s] = msg.to]
                /\ notBooted' = IF msg.from = "BOOTING_CHERIBSD" THEN notBooted \ {s}
                                                                 ELSE notBooted
                /\ pc' = IF Len(inNextStage') = Cardinality(Shard) THEN "release"
                                                                   ELSE "loop"
                /\ UNCHANGED outcome
    BY <1>4, Levels DEF GetNextStage, Receive
  <2>2. Unread(s)
    BY <1>1, <1>2, <2>1, MessageKinds DEF Unread
  <2>3. /\ Level(stage[s]) = r + 1 /\ r \in 1 .. 3 /\ i = r
        /\ Counted(r)' = Counted(r) \cup {s} /\ s \notin Counted(r)
    <3>1. Level(stage[s]) \in 1 .. 4 /\ Level(stage[s]) = r + 1
      BY <1>2, <1>t, <2>2, Levels
    <3>2. Stages[i] = Stages[r]
      BY <1>2, <2>1, <2>2, MessageKinds
    <3>3. i = r
      BY <3>2, Levels
    <3> QED
      BY <1>2, <2>2, <3>1, <3>3
  <2> DEFINE from == Stages[r]  to == Stages[r + 1]
  <2>4. from \in ShardStage /\ to \in ShardStage /\ Level(from) = r /\ Level(to) = r + 1
    BY <2>3, Levels
  <2>5. mainStage[s] = from
    <3>1. mainStage[s] \in ShardStage
      <4>1. mainStage[s] \notin {"EXITED", "FAILED", "TIMED_OUT"}
        BY <1>a, <1>1, <2>2 DEF RecordsAreTrue
      <4> QED
        BY <1>t, <4>1 DEF MainStage
    <3>2. Level(stage[s]) = Level(mainStage[s]) + 1 /\ Level(mainStage[s]) \in 1 .. 4
      BY <1>a, <2>2, <3>1, Levels DEF RecordsAreTrue
    <3> QED
      BY <2>3, <3>1, <3>2, Levels
  <2>6. StageReportIsSane(s, NextStage(from, to))
    <3>1. inNextStage # <<>> => inNextStage[Len(inNextStage)] = to
      <4>1. inNextStage # <<>> => Len(inNextStage) \in 1 .. Len(inNextStage)
        BY <1>t
      <4> QED
        BY <1>r, <4>1 DEF ReportsCounted
    <3>2. from = "BOOTING_CHERIBSD" => s \in notBooted
      BY <1>a, <2>5 DEF RecordsAreTrue
    <3> QED
      BY <2>5, <3>1, <3>2, MessageKinds DEF StageReportIsSane
  <2>7. /\ inNextStage' = Append(inNextStage, to)
        /\ mainStage' = [mainStage EXCEPT ![s] = to]
        /\ notBooted' = IF from = "BOOTING_CHERIBSD" THEN notBooted \ {s} ELSE notBooted
        /\ pc' = IF Len(inNextStage') = Cardinality(Shard) THEN "release" ELSE "loop"
        /\ UNCHANGED <<outcome, remaining, timedOut>>
    BY <2>1, <2>3, <2>6, MessageKinds
  <2>8. /\ inNextStage' \in Seq(ShardStage) /\ Len(inNextStage') = Len(inNextStage) + 1
        /\ \A k \in 1 .. Len(inNextStage') : k \in 1 .. Len(inNextStage) \/ inNextStage'[k] = to
        /\ \A k \in 1 .. Len(inNextStage) : inNextStage'[k] = inNextStage[k]
    BY <1>t, <2>4, <2>7
  <2>9. /\ \A t \in Shard : t # s => mainStage'[t] = mainStage[t]
        /\ mainStage'[s] = to
        /\ mainStage' \in [Shard -> MainStage]
    BY <1>t, <2>4, <2>7 DEF MainStage
  <2>10. Types'
    BY <1>a, <1>1, <1>2, <2>7, <2>8, <2>9 DEF Types, MainPCs
  <2>11. RecordsAreTrue'
    <3>1. /\ mainStage'[s] \in ShardStage
          /\ Level(stage'[s]) = Level(mainStage'[s]) /\ ~Unread(s)'
      BY <1>1, <1>2, <2>3, <2>4, <2>9
    <3>2. \A st \in {"EXITED", "FAILED", "TIMED_OUT"} : st \notin ShardStage
      BY DEF ShardStage, Stages
    <3>3. mainStage'[s] \in {"FINDING_SSH_PORT", "BOOTING_CHERIBSD"} => s \in notBooted'
      <4>1. from # "BOOTING_CHERIBSD" \/ Level(to) = 3
        BY <2>4, Levels
      <4>2. to = "FINDING_SSH_PORT" => FALSE
        BY <2>3, <2>4, Levels
      <4>3. to = "BOOTING_CHERIBSD" => from = "FINDING_SSH_PORT"
        BY <2>3, <2>4, Levels
      <4> QED
        BY <1>a, <2>5, <2>7, <2>9, <4>2, <4>3 DEF RecordsAreTrue
    <3>4. s \notin notBooted' => Level(stage'[s]) > 2
      <4>1. from = "BOOTING_CHERIBSD" => r = 2
        BY <2>4, Levels
      <4> QED
        BY <1>a, <1>1, <2>3, <2>7, <4>1 DEF RecordsAreTrue
    <3>5. \A t \in Shard : t # s => (t \in notBooted <=> t \in notBooted')
      BY <2>7
    <3>6. \A t \in Shard : t \notin remaining' => Over(t)'
      BY <1>a, <1>2, <2>7 DEF RecordsAreTrue
    <3>7. \A t \in Shard : mainStage'[t] # "TIMED_OUT"
      BY <1>a, <1>1, <2>9, <3>1, <3>2 DEF RecordsAreTrue
    <3> DEFINE R(t) ==
          /\ mainStage[t] \in ShardStage =>
               Level(stage[t]) = Level(mainStage[t]) + (IF Unread(t) THEN 1 ELSE 0)
          /\ mainStage[t] \in {"EXITED", "FAILED"} => ~Unread(t) /\ Over(t)
          /\ mainStage[t] \in {"FINDING_SSH_PORT", "BOOTING_CHERIBSD"} => t \in notBooted
          /\ t \notin notBooted => Level(stage[t]) > 2
    <3>8. ASSUME NEW t \in Shard, t # s PROVE R(t)'
      <4>1. R(t)
        BY <1>a DEF RecordsAreTrue
      <4> QED
        BY <1>1, <1>2, <2>9, <3>5, <3>8, <4>1
    <3>9. R(s)'
      <4>1. Level(to) \in Nat
        BY <2>3, <2>4
      <4> QED
        BY <3>1, <3>2, <3>3, <3>4, <4>1, <2>9
    <3>10. \A t \in Shard : R(t)'
      BY <3>8, <3>9
    <3> QED
      BY <3>6, <3>7, <3>10 DEF RecordsAreTrue
  <2>12. WhereMainIs'
    BY <1>a, <1>1, <2>7 DEF WhereMainIs
  <2>13. ReportsCounted(r)'
    <3>1. Cardinality(Counted(r) \cup {s}) = Cardinality(Counted(r)) + 1
      BY <2>3, CountedIsFinite, FS_AddElement
    <3> QED
      BY <1>r, <2>3, <2>8, <3>1 DEF ReportsCounted
  <2> QED
    BY <1>2, <2>10, <2>11, <2>12, <2>13 DEF IInv
<1> QED
  BY <1>3, <1>4

(* What else the main process does.                                        *)
LEMMA MainHolds == IInv /\ Main => IInv'
<1> SUFFICES ASSUME IInv, Main PROVE IInv'
  OBVIOUS
<1>a. Types /\ RecordsAreTrue /\ WhereMainIs
  BY DEF IInv
<1>r. PICK r \in 1 .. 4 : InRound(r) /\ QueuesInRound(r) /\ ReportsCounted(r)
  BY DEF IInv
<1>n. Cardinality(Shard) \in Nat /\ portReads \in 0 .. Cardinality(Shard)
  BY <1>a, CountedIsFinite DEF Types
<1>s. ASSUME UNCHANGED <<stage, at, mpQueue, inNextStage>>, Types', WhereMainIs',
             RecordsAreTrue'
      PROVE  IInv'
  BY <1>r, <1>s, RoundStays DEF IInv
<1>u. ASSUME UNCHANGED <<stage, at, mpQueue, inNextStage>>
      PROVE  \A s \in Shard : Unread(s)' = Unread(s) /\ Over(s)' = Over(s)
  BY <1>r, <1>u, RoundStays
<1>1. CASE ReadPort \/ PortTimeout
  <2>1. /\ pc = "ports" /\ portReads' = portReads + 1 /\ pc' = NextPC
        /\ UNCHANGED <<stage, at, mpQueue, barrier, clock, mainStage, remaining,
                       notBooted, inNextStage, retrying, outcome>>
    BY <1>1 DEF ReadPort, PortTimeout, MainOnly, shardVars
  <2>2. /\ portReads' \in 0 .. Cardinality(Shard)
        /\ pc' \in {"loop", "ports"}
        /\ pc' = "ports" => portReads' < Cardinality(Shard)
    BY <1>a, <1>n, <2>1 DEF WhereMainIs, NextPC
  <2>3. /\ portQueue' \subseteq (Shard \cup {GivenPort}) \X Shard
        /\ sshPort' \in [Shard -> Shard \cup {GivenPort, NoPort}]
    <3>1. CASE ReadPort
      <4>1. PICK m \in portQueue : /\ portQueue' = portQueue \ {m}
                                   /\ sshPort' = [sshPort EXCEPT ![m[2]] = m[1]]
        BY <3>1 DEF ReadPort
      <4>2. m[1] \in Shard \cup {GivenPort, NoPort}
        BY <1>a DEF Types
      <4> QED
        BY <1>a, <4>1, <4>2 DEF Types
    <3>2. CASE PortTimeout
      BY <1>a, <3>2 DEF PortTimeout, MainOnly, Types
    <3> QED
      BY <1>1, <3>1, <3>2
  <2>4. timedOut' \in BOOLEAN
    BY <1>a, <1>1 DEF ReadPort, PortTimeout, SeenPorts, Types
  <2>5. Types'
    BY <1>a, <2>1, <2>2, <2>3, <2>4 DEF Types, MainPCs
  <2>6. RecordsAreTrue'
    BY <1>a, <1>u, <2>1 DEF RecordsAreTrue
  <2>7. WhereMainIs'
    BY <1>a, <2>1, <2>2 DEF WhereMainIs
  <2> QED
    BY <1>s, <2>1, <2>5, <2>6, <2>7
<1>2. CASE LoopHead
  <2>1. /\ pc = "loop" /\ pc' \in {"loop", "get", "finish"}
        /\ UNCHANGED <<stage, at, portQueue, mpQueue, barrier, clock, portReads, sshPort,
                       remaining, notBooted, inNextStage, retrying, outcome>>
    BY <1>2 DEF LoopHead, MainOnly, shardVars
  <2>2. \/ UNCHANGED mainStage
        \/ /\ mainStage' = [s \in Shard |-> IF s \in remaining THEN "TIMED_OUT"
                                            ELSE mainStage[s]]
           /\ pc' = "finish"
    BY <1>2 DEF LoopHead
  <2>3. timedOut' \in BOOLEAN /\ (pc' = "finish" => timedOut' \/ remaining = {})
    <3>1. timedOut' \in BOOLEAN
      BY <1>a, <1>2 DEF LoopHead, Types
    <3>2. pc' = "finish" => timedOut' \/ remaining = {}
      BY <1>2 DEF LoopHead
    <3> QED
      BY <3>1, <3>2
  <2>4. mainStage' \in [Shard -> MainStage]
    BY <1>a, <2>2 DEF Types, MainStage
  <2>5. Types'
    BY <1>a, <2>1, <2>3, <2>4 DEF Types, MainPCs
  <2>6. RecordsAreTrue'
    <3>1. CASE UNCHANGED mainStage
      BY <1>a, <1>u, <2>1, <3>1 DEF RecordsAreTrue
    <3>2. CASE /\ mainStage' = [s \in Shard |-> IF s \in remaining THEN "TIMED_OUT"
                                                ELSE mainStage[s]]
               /\ pc' = "finish"
      <4>1. /\ "TIMED_OUT" \notin ShardStage
            /\ "TIMED_OUT" \notin {"EXITED", "FAILED", "FINDING_SSH_PORT", "BOOTING_CHERIBSD"}
        BY DEF ShardStage, Stages
      <4>2. \A s \in Shard : mainStage'[s] = "TIMED_OUT" \/ mainStage'[s] = mainStage[s]
        BY <3>2
      <4> QED
        BY <1>a, <1>u, <2>1, <3>2, <4>1, <4>2 DEF RecordsAreTrue
    <3> QED
      BY <2>2, <3>1, <3>2
  <2>7. WhereMainIs'
    BY <1>a, <2>1, <2>3 DEF WhereMainIs
  <2> QED
    BY <1>s, <2>1, <2>5, <2>6, <2>7
<1>3. ASSUME NEW s \in Shard, GetCompleted(s) \/ GetNextStage(s) \/ GetFailure(s)
      PROVE  IInv'
  BY <1>3, ReceiveHolds
<1>4. CASE GetEmpty \/ AllReaped
  <2>1. /\ pc \in {"get", "reap"} /\ pc' \in {"empty", "done"}
        /\ pc = "get" => pc' = "empty"
        /\ pc = "reap" => pc' = "done"
        /\ UNCHANGED <<stage, at, portQueue, mpQueue, barrier, clock, portReads, sshPort,
                       mainStage, remaining, notBooted, inNextStage, retrying, timedOut,
                       outcome>>
    BY <1>4 DEF GetEmpty, AllReaped, MainOnly, shardVars, mainVars
  <2>2. Types' /\ WhereMainIs'
    BY <1>a, <2>1 DEF Types, MainPCs, WhereMainIs
  <2>3. RecordsAreTrue'
    BY <1>a, <1>u, <2>1 DEF RecordsAreTrue
  <2> QED
    BY <1>s, <2>1, <2>2, <2>3
<1>5. CASE CheckDead
  <2>1. /\ pc = "empty" /\ pc' = "loop"
        /\ remaining' = IF retrying THEN remaining \ Dead ELSE remaining
        /\ retrying' = (retrying \/ Dead # {})
        /\ UNCHANGED <<stage, at, portQueue, mpQueue, barrier, clock, portReads, sshPort,
                       mainStage, notBooted, inNextStage, timedOut, outcome>>
    BY <1>5 DEF CheckDead, MainOnly, shardVars
  <2>2. Types'
    BY <1>a, <2>1 DEF Types, MainPCs
  <2>3. RecordsAreTrue'
    <3>1. \A s \in Shard : s \notin remaining' => s \notin remaining \/ Over(s)
      BY <2>1 DEF Dead, Alive, Over
    <3> QED
      BY <1>a, <1>u, <2>1, <3>1 DEF RecordsAreTrue
  <2>4. WhereMainIs'
    BY <1>a, <2>1 DEF WhereMainIs, Dead
  <2> QED
    BY <1>s, <2>1, <2>2, <2>3, <2>4
<1>6. CASE DeadBeforeBarrier \/ Finish
  <2>1. /\ pc \in {"release", "finish"} /\ pc' = "reap"
        /\ outcome' \in {"fatal", "error", "success"}
        /\ outcome' = "success" => pc = "finish" /\ ~timedOut /\ notBooted = {}
        /\ UNCHANGED <<stage, at, portQueue, mpQueue, barrier, clock, portReads, sshPort,
                       mainStage, remaining, notBooted, inNextStage, retrying, timedOut>>
    BY <1>6 DEF DeadBeforeBarrier, Finish, MainOnly, shardVars
  <2>2. Types'
    BY <1>a, <2>1 DEF Types, MainPCs, Outcomes
  <2>3. RecordsAreTrue'
    BY <1>a, <1>u, <2>1 DEF RecordsAreTrue
  <2>4. WhereMainIs'
    BY <1>a, <2>1 DEF WhereMainIs
  <2> QED
    BY <1>s, <2>1, <2>2, <2>3, <2>4
<1>7. ASSUME NEW s \in Shard, Terminate(s) PROVE IInv'
  <2>1. mpQueue' = [mpQueue EXCEPT ![s] = mpQueue[s]] /\ mpQueue[s] \in Seq(Messages)
    BY <1>a, <1>7 DEF Terminate, Types
  <2>2. PICK next \in {"raising", "leaving", "gone"} :
          /\ next # "raising" /\ at' = [at EXCEPT ![s] = next]
          /\ UNCHANGED <<stage, portQueue, barrier, clock, pc, mainVars>>
    BY <1>7 DEF Terminate
  <2>3. Len(mpQueue[s]) <= 3 /\ (next = "raising" => Len(mpQueue[s]) <= 2)
    BY <1>r, <2>2 DEF QueuesInRound
  <2> QED
    BY <2>1, <2>2, <2>3, ShardIsOver
<1>8. CASE ReleaseBarrier
  <2>1. /\ pc = "release" /\ pc' = "loop" /\ inNextStage' = <<>>
        /\ NWaiting = Cardinality(Shard)
        /\ at' = [s \in Shard |-> "working"]
        /\ UNCHANGED <<stage, portQueue, mpQueue, barrier, clock, portReads, sshPort,
                       mainStage, remaining, notBooted, retrying, timedOut, outcome>>
    BY <1>8 DEF ReleaseBarrier
  <2>2. \A s \in Shard : at[s] = "waiting"
    <3>1. Cardinality(Shard) # 0
      BY ShardsAssumption, CountedIsFinite
    <3>2. Cardinality(Waiting) = Cardinality(Shard)
      BY <2>1, <3>1 DEF NWaiting
    <3>3. Waiting \in SUBSET Shard
      BY DEF Waiting
    <3>4. Waiting = Shard
      BY <3>2, <3>3, ShardsAssumption, FS_Subset
    <3> QED
      BY <3>4 DEF Waiting
  <2>3. \A s \in Shard : Level(stage[s]) = r + 1 /\ ~Unread(s)
    <3>1. Counted(r) = Shard
      BY <1>a, <1>r, <2>1, CountedIsFinite DEF WhereMainIs, ReportsCounted
    <3> QED
      BY <3>1 DEF Counted
  <2>4. r + 1 \in 1 .. 4
    <3>1. PICK s : s \in Shard
      BY ShardsAssumption, FS_EmptySet
    <3>2. stage[s] \in ShardStage
      BY <1>a, <3>1 DEF Types
    <3>3. Level(stage[s]) \in 1 .. 4 /\ Level(stage[s]) = r + 1
      BY <2>3, <3>1, <3>2, Levels
    <3> QED
      BY <3>3
  <2>5. \A s \in Shard : mpQueue[s] = <<>>
    <3> SUFFICES ASSUME NEW s \in Shard PROVE mpQueue[s] = <<>>
      OBVIOUS
    <3>1. mpQueue[s] \in Seq(Messages) /\ (mpQueue[s] # <<>> => 1 \in 1 .. Len(mpQueue[s]))
      <4>1. mpQueue[s] \in Seq(Messages)
        BY <1>a DEF Types
      <4> QED
        BY <4>1, EmptySeq
    <3>2. mpQueue[s] # <<>> => mpQueue[s][1].kind = "NEXT_STAGE" \/ Over(s)
      BY <1>r, <3>1 DEF QueuesInRound
    <3> QED
      BY <2>2, <2>3, <3>2 DEF Unread, Over
  <2>6. \A s \in Shard : /\ at'[s] = "working" /\ mpQueue'[s] = <<>>
                         /\ ~Unread(s)' /\ ~Over(s)
    BY <2>1, <2>2, <2>5 DEF Unread, Over
  <2>7. Types'
    <3>1. inNextStage' \in Seq(ShardStage)
      BY <2>1
    <3>2. at' \in [Shard -> Activity]
      BY <2>1 DEF Activity
    <3> QED
      BY <1>a, <2>1, <3>1, <3>2 DEF Types, MainPCs
  <2>8. RecordsAreTrue'
    BY <1>a, <2>1, <2>3, <2>6 DEF RecordsAreTrue
  <2>9. WhereMainIs'
    BY <1>a, <2>1 DEF WhereMainIs
  <2>10. InRound(r + 1)'
    BY <2>1, <2>3, <2>6 DEF InRound
  <2>11. QueuesInRound(r + 1)'
    BY <2>6 DEF QueuesInRound
  <2>12. ReportsCounted(r + 1)'
    <3>1. Counted(r + 1)' = {}
      BY <2>1, <2>3 DEF Counted
    <3>2. Cardinality(Counted(r + 1)') = 0
      BY <3>1, FS_EmptySet
    <3>3. Len(inNextStage') = 0
      BY <2>1
    <3> QED
      BY <3>2, <3>3 DEF ReportsCounted
  <2> QED
    BY <2>4, <2>7, <2>8, <2>9, <2>10, <2>11, <2>12 DEF IInv
<1> QED
  BY <1>1, <1>2, <1>3, <1>4, <1>5, <1>6, <1>7, <1>8 DEF Main

LEMMA StepHolds == IInv /\ [Next]_vars => IInv'
<1> SUFFICES ASSUME IInv, [Next]_vars PROVE IInv'
  OBVIOUS
<1>a. Types /\ RecordsAreTrue /\ WhereMainIs
  BY DEF IInv
<1>r. PICK r \in 1 .. 4 : InRound(r) /\ QueuesInRound(r) /\ ReportsCounted(r)
  BY DEF IInv
<1>1. CASE Tick \/ UNCHANGED vars
  <2>1. /\ clock' \in 0 .. MaxClock
        /\ UNCHANGED <<stage, at, portQueue, mpQueue, barrier, pc, portReads, sshPort,
                       mainStage, remaining, notBooted, inNextStage, retrying, timedOut,
                       outcome>>
    BY <1>a, <1>1 DEF Types, MaxClock, Tick, vars, shardVars, mainVars
  <2>2. Types' /\ RecordsAreTrue' /\ WhereMainIs'
    BY <1>a, <2>1 DEF Types, RecordsAreTrue, WhereMainIs, Unread, Over
  <2> QED
    BY <1>r, <2>1, <2>2, RoundStays DEF IInv
<1> QED
  BY <1>1, ShardHolds, MainHolds DEF Next

-----------------------------------------------------------------------------
(* IInv holds in every state, for any number of shards.                    *)
THEOREM Invariance == Spec => []IInv
<1>1. Init => IInv
  BY InitHolds
<1>2. IInv /\ [Next]_vars => IInv'
  BY StepHolds
<1> QED
  BY <1>1, <1>2, PTL DEF Spec

(* Each variable of run_parallel_impl() and of the shards has its type; no *)
(* queue gets longer than MaxMessages, no stage is reported more often     *)
(* than there are shards.                                                  *)
THEOREM TypeCorrect == Spec => []TypeOK
<1>1. IInv => TypeOK
  <2> SUFFICES ASSUME IInv PROVE TypeOK
    OBVIOUS
  <2>r. PICK r \in 1 .. 4 : InRound(r) /\ QueuesInRound(r) /\ ReportsCounted(r)
    BY DEF IInv
  <2>1. \A s \in Shard : mpQueue[s] \in Seq(Messages) /\ Len(mpQueue[s]) <= MaxMessages
    <3>1. MaxMessages = 6
      BY Levels DEF MaxMessages
    <3>2. \A s \in Shard : mpQueue[s] \in Seq(Messages) /\ Len(mpQueue[s]) <= 3
      BY <2>r DEF IInv, Types, QueuesInRound
    <3> QED
      BY <3>1, <3>2
  <2>2. Len(inNextStage) <= Cardinality(Shard)
    BY <2>r, CountedIsFinite DEF ReportsCounted
  <2> QED
    BY <2>1, <2>2 DEF IInv, Types, TypeOK
<1> QED
  BY <1>1, Invariance, PTL

(* The barrier does what it is for: no shard begins a stage that another   *)
(* is not at the end of, however many shards there are and whatever        *)
(* becomes of them.                                                        *)
THEOREM LockStep == Spec => []InLockStep
<1>1. IInv => InLockStep
  BY DEF IInv, InRound, InLockStep
<1> QED
  BY <1>1, Invariance, PTL

(* No assertion about the stages fails in run_parallel_impl(), and what it *)
(* has on record for a shard is true up to what it has not read.           *)
THEOREM RecordsOfStages == Spec => []MainKnowsTheStage
<1>1. IInv => MainKnowsTheStage
  <2> SUFFICES ASSUME IInv PROVE MainKnowsTheStage
    OBVIOUS
  <2>r. PICK r \in 1 .. 4 : InRound(r) /\ QueuesInRound(r) /\ ReportsCounted(r)
    BY DEF IInv
  <2>1. \A s \in Shard : Reported(s) = IF Unread(s) THEN 1 ELSE 0
    BY <2>r, ReportedIsUnread DEF IInv, Types, QueuesInRound
  <2> QED
    BY <2>1 DEF IInv, RecordsAreTrue, WhereMainIs, MainKnowsTheStage
<1> QED
  BY <1>1, Invariance, PTL

(* The main process gives up watching a shard only when that has nothing   *)
(* left to do, and success means that every shard has booted and ended.    *)
THEOREM NoneGivenUpEarly == Spec => []WatchedToTheEnd
<1>1. IInv => WatchedToTheEnd
  BY Levels DEF IInv, RecordsAreTrue, WhereMainIs, WatchedToTheEnd, Over
<1> QED
  BY <1>1, Invariance, PTL
=============================================================================
