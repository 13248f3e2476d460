---------------------------- MODULE TargetRunProofs ----------------------------
(***************************************************************************)
(* The safety properties of TargetRun, for any targets and whatever their  *)
(* projects ask for.  The invariant is about the stack of calls: which     *)
(* calls may wait for which, and what each has established when it goes    *)
(* on.  That no hook of a target is entered while it runs comes from the   *)
(* flags and, for process(), from the needs that have no cycle.            *)
(***************************************************************************)
EXTENDS TargetRun, SequenceTheorems, TLAPS

(* What a stage of a target needs, directly or not: a member of every set  *)
(* that has what it needs directly and is closed.                          *)
Closed(C) == \A u \in C : Needs[u] \subseteq C
Below(s) ==
  { u \in Stages : \A C \in SUBSET Stages : Needs[s] \subseteq C /\ Closed(C) => u \in C }

CallType ==
  [ op: {"check", "get", "target"} \cup Kinds, target: Targets,
    at: {"start", "checked", "late", "ready", "built"} \cup Hooks, left: SUBSET Pairs ]

(* Both are done for a target before any of its kinds is run.              *)
Preparing == {"check", "get"}

Stage(c) == << IF c.op = "BUILD" THEN "BUILD" ELSE "prepare", c.target >>

AsksForItself(t) == t \in Asks["setup"][t]

(* Call a was made for what setup() of b asks for itself.                  *)
Own(b, a) ==
  Stage(a) = Stage(b) /\ a.at \notin Hooks /\ AsksForItself(b.target)

(* Call b waits for call a, directly or not.  Only the loops, and          *)
(* build_target(), wait for tests and benchmarks; what is done in a check, *)
(* a setup or a build is what that needs; and a setup may have asked for   *)
(* its own project.                                                        *)
MayWaitFor(b, a) ==
  /\ b.at \notin {"start", "built"} => a.op \in Preparing \cup {"BUILD"}
  /\ b.at = "built" => a.op # "target"
  /\ b.at = "check" \/ (b.op = "BUILD" /\ b.at \in {"ready", "BUILD"}) =>
       Stage(a) \in Below(Stage(b))
  /\ b.at = "setup" => Stage(a) \in Below(Stage(b)) \/ Own(b, a)

NoHookReentered ==
  \A j \in 1 .. Len(calls), i \in 1 .. Len(calls) :
    i < j => MayWaitFor(calls[j], calls[i])

(* What a setup() asks for itself, it asks for directly: no other target   *)
(* is between.                                                             *)
OwnCalls ==
  \A j \in 1 .. Len(calls), i \in 1 .. Len(calls) :
    i < j /\ calls[j].at = "setup" /\ Stage(calls[i]) = Stage(calls[j]) =>
      \A n \in i + 1 .. j - 1 : calls[n].target = calls[j].target

(* What a call has established, from where it is.                          *)
Established(c) ==
  /\ c.op = "check" => c.at \in {"start", "check"}
  /\ c.op = "get" => c.at \in {"start", "checked", "setup", "late"}
  /\ c.op = "target" => c.at \in {"start", "built"} /\ frontEnd = "jenkins"
  /\ c.op \in Kinds => c.at \in {"start", "ready", c.op}
  /\ c.left # {} => c.at \in Hooks /\ c.left \subseteq Wants(c.at, c.target)
  /\ c.at = "check" => c.target \in depsChecked \ setupCalled
  /\ c.at = "setup" => /\ c.target \in setupCalled
                       /\ c.target \in setupLate => AsksForItself(c.target)
  /\ c.at = "late" => /\ c.target \in setupCalled
                      /\ <<"setup", c.target>> \in returned \/ AsksForItself(c.target)
  /\ c.at = "ready" => c.target \notin done[c.op]
  /\ c.at \in Kinds => c.target \in setupLate

CallsEstablished == \A j \in 1 .. Len(calls) : Established(calls[j])

(* Call j will find done what it goes on from, or a call above it sees to  *)
(* that.                                                                   *)
SeenTo(j) ==
  LET c == calls[j] IN
  /\ c.at = "checked" => \/ <<"check", c.target>> \in returned
                         \/ /\ j > 1 /\ calls[j - 1].op = "check"
                            /\ calls[j - 1].target = c.target
  /\ c.at = "ready" => \/ c.target \in setupLate
                       \/ /\ j > 1 /\ calls[j - 1].op = "get"
                          /\ calls[j - 1].target = c.target
  /\ c.op \in Kinds => \/ c.target \in project
                       \/ \E i \in 1 .. Len(calls) :
                            /\ i < j /\ calls[i].op \in Preparing
                            /\ calls[i].at = "start" /\ calls[i].target = c.target

CallsSeenTo == \A j \in 1 .. Len(calls) : SeenTo(j)

InHookOnStack(hook, t) ==
  \E j \in 1 .. Len(calls) : calls[j].at = hook /\ calls[j].target = t

(* A flag is set before the hook, which has returned or is on the stack.   *)
FlagsOf(t) ==
  /\ <<"check", t>> \in returned => t \in depsChecked
  /\ t \in depsChecked => <<"check", t>> \in returned \/ InHookOnStack("check", t)
  /\ t \in setupCalled => /\ <<"check", t>> \in returned
                          /\ <<"setup", t>> \in returned \/ InHookOnStack("setup", t)
  /\ \A k \in Kinds :
       /\ started[k][t] <= 1
       /\ started[k][t] > 0 => /\ t \in setupLate
                               /\ <<"setup", t>> \in returned
                               /\ t \in done[k] \/ InHookOnStack(k, t)

FlagsAreTrue == \A t \in Targets : FlagsOf(t)

(* The calls of the loops of main() in order, of which m - 1 have returned. *)
Loops == MainCalls

Finished(n) ==
  Loops[n].op = "BUILD" => Loops[n].target \in done["BUILD"]

(* The depth of the stack above the calls that have not begun.             *)
Depth(m) == Len(calls) + m - Len(Loops)

AtCall(m) ==
  /\ Depth(m) > 0
  /\ \A n \in 1 .. m - 1 : Finished(n)
  /\ calls[Depth(m)].op = Loops[m].op /\ calls[Depth(m)].target = Loops[m].target
  /\ \A n \in 1 .. Len(Loops) : n > m => calls[Depth(n)] = Loops[n]
  /\ \A i \in 1 .. Depth(m) - 1 :
       calls[i].op = "BUILD" => \E j \in i + 1 .. Depth(m) : calls[j].at \in Hooks

InLoops ==
  frontEnd = "cheribuild" => calls = <<>> \/ \E m \in 1 .. Len(Loops) : AtCall(m)

PlanIsOrdered ==
  frontEnd = "cheribuild" => \A a, b \in 1 .. Len(plan) :
    plan[a] \in Deps[plan[b]] /\ plan[a] # plan[b] => a < b

Types ==
  /\ frontEnd \in {"cheribuild", "jenkins"}
  /\ action \subseteq Kinds
  /\ plan \in Seq(Targets)
  /\ calls \in Seq(CallType)
  /\ project \subseteq Targets
  /\ depsChecked \subseteq project
  /\ setupCalled \subseteq depsChecked
  /\ setupLate \subseteq setupCalled
  /\ done \in [Kinds -> SUBSET setupLate]
  /\ returned \subseteq Hooks \X Targets
  /\ started \in [Kinds -> [Targets -> Nat]]
  /\ outcome \in {"running", "done", "failed"}

IInv ==
  /\ Types
  /\ PlanIsOrdered
  /\ NoHookReentered
  /\ OwnCalls
  /\ CallsEstablished
  /\ CallsSeenTo
  /\ FlagsAreTrue
  /\ InLoops

-----------------------------------------------------------------------------
(* What is needed by something below s is below s; as the needs have no    *)
(* cycle, s is not below itself.                                           *)
LEMMA NeedsType == Needs \in [Stages -> SUBSET Stages]
<1>1. ASSUME NEW hook \in Hooks, NEW t \in Targets
      PROVE  Asks[hook][t] \subseteq Targets /\ Tools[hook][t] \subseteq Targets
  BY RunAssumption
<1>2. "check" \in Hooks /\ "setup" \in Hooks /\ "BUILD" \in Hooks
  BY DEF Hooks, Kinds
<1>3. ASSUME NEW t \in Targets, NEW hooks \in SUBSET Hooks
      PROVE  Asked(hooks, t) \subseteq Stages /\ Offered(hooks, t) \subseteq Stages
  <2>1. UNION { Asks[h][t] : h \in hooks } \subseteq Targets
    BY <1>1
  <2>2. UNION { Tools[h][t] : h \in hooks } \subseteq Targets
    BY <1>1
  <2> QED
    BY <2>1, <2>2 DEF Asked, Offered, Stages
<1>4. ASSUME NEW s \in Stages PROVE NeedsOf(s[1], s[2]) \subseteq Stages
  <2>1. s[2] \in Targets /\ <<"prepare", s[2]>> \in Stages
    BY DEF Stages
  <2>2. /\ Asked({"BUILD"}, s[2]) \subseteq Stages
        /\ Offered({"BUILD"}, s[2]) \subseteq Stages
    BY <1>2, <1>3, <2>1
  <2>3. /\ Asked({"check"}, s[2]) \subseteq Stages
        /\ Asked({"setup"}, s[2]) \subseteq Stages
        /\ Offered({"check", "setup"}, s[2]) \subseteq Stages
    BY <1>2, <1>3, <2>1
  <2> QED
    BY <2>1, <2>2, <2>3 DEF NeedsOf
<1> QED
  BY <1>4 DEF Needs

LEMMA BelowIsClosed ==
  ASSUME NEW s \in Stages
  PROVE  /\ Below(s) \subseteq Stages
         /\ Needs[s] \subseteq Below(s)
         /\ \A u \in Below(s) : Needs[u] \subseteq Below(s)
  BY NeedsType DEF Below, Closed

LEMMA NeverBelowItself ==
  ASSUME NEW s \in Stages
  PROVE  s \notin Below(s)
<1> SUFFICES ASSUME s \in Below(s) PROVE FALSE
  OBVIOUS
<1> DEFINE S == { u \in Stages : s \in Below(u) }
<1>1. PICK u \in S : Needs[u] \cap S = {}
  BY RunAssumption DEF Acyclic
<1> DEFINE C == { v \in Stages : \E w \in Needs[u] : v = w \/ v \in Below(w) }
<1>2. Needs[u] \subseteq C /\ Closed(C)
  <2>0. Needs[u] \subseteq Stages
    BY NeedsType
  <2>1. ASSUME NEW v \in C PROVE Needs[v] \subseteq C
    <3>1. PICK w \in Needs[u] : v = w \/ v \in Below(w)
      OBVIOUS
    <3>2. w \in Stages
      BY <2>0
    <3>3. Needs[v] \subseteq Below(w)
      BY <3>1, <3>2, BelowIsClosed
    <3> QED
      BY <3>2, <3>3, BelowIsClosed
  <2> QED
    BY <2>0, <2>1 DEF Closed
<1>3. s \in C
  BY <1>2 DEF Below
<1>4. PICK w \in Needs[u] : s = w \/ s \in Below(w)
  BY <1>3
<1>5. w \in Stages
  BY NeedsType
<1>6. w \notin S
  BY <1>1
<1>7. s = w
  BY <1>4, <1>5, <1>6
<1> QED
  BY <1>6, <1>7

(* What is below a stage, in the terms of the model.                       *)
LEMMA Chains ==
  ASSUME NEW s \in Stages, NEW u \in Stages, u = s \/ u \in Below(s)
  PROVE  /\ Needs[u] \subseteq Below(s)
         /\ u[1] = "BUILD" =>
              /\ <<"prepare", u[2]>> \in Below(s)
              /\ \A t \in Asks["BUILD"][u[2]] : <<"prepare", t>> \in Below(s)
              /\ \A t \in Tools["BUILD"][u[2]] :
                   <<"prepare", t>> \in Below(s) /\ <<"BUILD", t>> \in Below(s)
         /\ u[1] = "prepare" =>
              /\ \A t \in Asks["check"][u[2]] : <<"prepare", t>> \in Below(s)
              /\ \A t \in Asks["setup"][u[2]] :
                   t # u[2] => <<"prepare", t>> \in Below(s)
              /\ \A t \in Tools["check"][u[2]] \cup Tools["setup"][u[2]] :
                   <<"prepare", t>> \in Below(s) /\ <<"BUILD", t>> \in Below(s)
<1>1. Needs[u] \subseteq Below(s)
  BY BelowIsClosed
<1>2. Needs[u] = NeedsOf(u[1], u[2])
  BY DEF Needs
<1>3. ASSUME u[1] = "BUILD"
      PROVE  /\ <<"prepare", u[2]>> \in Needs[u]
             /\ \A t \in Asks["BUILD"][u[2]] : <<"prepare", t>> \in Needs[u]
             /\ \A t \in Tools["BUILD"][u[2]] :
                  <<"prepare", t>> \in Needs[u] /\ <<"BUILD", t>> \in Needs[u]
  <2>1. Needs[u] = {<<"prepare", u[2]>>} \cup Asked({"BUILD"}, u[2])
                     \cup Offered({"BUILD"}, u[2])
    BY <1>2, <1>3 DEF NeedsOf
  <2>2. \A t \in Asks["BUILD"][u[2]] : <<"prepare", t>> \in Asked({"BUILD"}, u[2])
    BY DEF Asked
  <2>3. \A t \in Tools["BUILD"][u[2]] : /\ <<"prepare", t>> \in Offered({"BUILD"}, u[2])
                                        /\ <<"BUILD", t>> \in Offered({"BUILD"}, u[2])
    BY DEF Offered
  <2> QED
    BY <2>1, <2>2, <2>3
<1>4. ASSUME u[1] = "prepare"
      PROVE  /\ \A t \in Asks["check"][u[2]] : <<"prepare", t>> \in Needs[u]
             /\ \A t \in Asks["setup"][u[2]] : t # u[2] => <<"prepare", t>> \in Needs[u]
             /\ \A t \in Tools["check"][u[2]] \cup Tools["setup"][u[2]] :
                  <<"prepare", t>> \in Needs[u] /\ <<"BUILD", t>> \in Needs[u]
  <2>1. Needs[u] = Asked({"check"}, u[2]) \cup (Asked({"setup"}, u[2]) \ {<<"prepare", u[2]>>})
                     \cup Offered({"check", "setup"}, u[2])
    BY <1>2, <1>4 DEF NeedsOf
  <2>2. /\ \A t \in Asks["check"][u[2]] : <<"prepare", t>> \in Asked({"check"}, u[2])
        /\ \A t \in Asks["setup"][u[2]] : <<"prepare", t>> \in Asked({"setup"}, u[2])
    BY DEF Asked
  <2>3. \A t \in Tools["check"][u[2]] \cup Tools["setup"][u[2]] :
          /\ <<"prepare", t>> \in Offered({"check", "setup"}, u[2])
          /\ <<"BUILD", t>> \in Offered({"check", "setup"}, u[2])
    BY DEF Offered
  <2>4. \A t : t # u[2] => <<"prepare", t>> # <<"prepare", u[2]>>
    OBVIOUS
  <2> QED
    BY <2>1, <2>2, <2>3, <2>4
<1> QED
  BY <1>1, <1>3, <1>4

LEMMA StagesOfCalls ==
  ASSUME NEW c \in CallType
  PROVE  /\ Stage(c) \in Stages
         /\ c.op = "BUILD" => Stage(c) = <<"BUILD", c.target>>
         /\ c.op # "BUILD" => Stage(c) = <<"prepare", c.target>>
BY DEF Stage, Stages, CallType

-----------------------------------------------------------------------------
(* Every step that changes the stack returns from its first call, or       *)
(* changes that and puts the calls of P before it.                         *)
Popped ==
  /\ calls' \in Seq(CallType)
  /\ Len(calls) \in Nat /\ Len(calls) >= 1
  /\ Len(calls') = Len(calls) - 1
  /\ \A j \in 2 .. Len(calls) : calls'[j - 1] = calls[j]

Pushed(k, P, c) ==
  /\ calls' \in Seq(CallType)
  /\ Len(calls) \in Nat /\ Len(calls) >= 1
  /\ Len(calls') = k + Len(calls)
  /\ \A i \in 1 .. k : calls'[i] = P[i]
  /\ calls'[k + 1] = c
  /\ \A j \in 2 .. Len(calls) : calls'[k + j] = calls[j]

LEMMA PopStep ==
  ASSUME calls \in Seq(CallType), calls # <<>>, Return
  PROVE  Popped
<1>1. Len(calls) \in Nat /\ Len(calls) >= 1
  BY EmptySeq, LenProperties
<1>2. Tail(calls) \in Seq(CallType) /\ Len(Tail(calls)) = Len(calls) - 1
  BY HeadTailProperties
<1>3. \A j \in 1 .. Len(Tail(calls)) : Tail(calls)[j] = calls[j + 1]
  BY HeadTailProperties
<1> QED
  BY <1>1, <1>2, <1>3 DEF Return, Popped

LEMMA PushStep ==
  ASSUME calls \in Seq(CallType), calls # <<>>, NEW P \in Seq(CallType),
         NEW c \in CallType, calls' = P \o << c >> \o Tail(calls)
  PROVE  Pushed(Len(P), P, c)
<1>1. Len(calls) \in Nat /\ Len(calls) >= 1
  BY EmptySeq, LenProperties
<1>2. Tail(calls) \in Seq(CallType) /\ Len(Tail(calls)) = Len(calls) - 1
  BY HeadTailProperties
<1>3. \A j \in 1 .. Len(Tail(calls)) : Tail(calls)[j] = calls[j + 1]
  BY HeadTailProperties
<1>4. /\ P \o << c >> \in Seq(CallType)
      /\ Len(P \o << c >>) = Len(P) + 1
      /\ \A i \in 1 .. Len(P) : (P \o << c >>)[i] = P[i]
      /\ (P \o << c >>)[Len(P) + 1] = c
      /\ Len(P) \in Nat
  OBVIOUS
<1> DEFINE Q == P \o << c >>
<1>5. /\ calls' \in Seq(CallType)
      /\ Len(calls') = Len(Q) + Len(Tail(calls))
      /\ \A i \in 1 .. Len(Q) : calls'[i] = Q[i]
      /\ \A i \in 1 .. Len(Tail(calls)) : calls'[Len(Q) + i] = Tail(calls)[i]
  <2> HIDE DEF Q
  <2>1. Q \in Seq(CallType) /\ Len(Q) \in Nat
    BY <1>4 DEF Q
  <2>2. calls' = Q \o Tail(calls)
    BY DEF Q
  <2>3. /\ Q \o Tail(calls) \in Seq(CallType)
        /\ Len(Q \o Tail(calls)) = Len(Q) + Len(Tail(calls))
        /\ \A i \in 1 .. Len(Q) + Len(Tail(calls)) :
             (Q \o Tail(calls))[i]
               = IF i <= Len(Q) THEN Q[i] ELSE Tail(calls)[i - Len(Q)]
    BY <2>1, <1>2, ConcatProperties
  <2>4. ASSUME NEW i \in 1 .. Len(Tail(calls))
        PROVE  calls'[Len(Q) + i] = Tail(calls)[i]
    <3>1. Len(Q) + i \in 1 .. Len(Q) + Len(Tail(calls)) /\ ~(Len(Q) + i <= Len(Q))
          /\ (Len(Q) + i) - Len(Q) = i
      BY <2>1, <1>1, <1>2
    <3> QED
      BY <3>1, <2>2, <2>3
  <2>5. ASSUME NEW i \in 1 .. Len(Q) PROVE calls'[i] = Q[i]
    <3>1. i \in 1 .. Len(Q) + Len(Tail(calls)) /\ i <= Len(Q)
      BY <2>1, <1>1, <1>2
    <3> QED
      BY <3>1, <2>2, <2>3
  <2> QED
    BY <2>2, <2>3, <2>4, <2>5
<1> HIDE DEF Q
<1>6. \A j \in 2 .. Len(calls) : calls'[Len(P) + j] = calls[j]
  <2> SUFFICES ASSUME NEW j \in 2 .. Len(calls) PROVE calls'[Len(P) + j] = calls[j]
    OBVIOUS
  <2>1. j - 1 \in 1 .. Len(Tail(calls))
    BY <1>1, <1>2
  <2>2. calls'[Len(Q) + (j - 1)] = Tail(calls)[j - 1]
    BY <2>1, <1>5
  <2>3. Tail(calls)[j - 1] = calls[(j - 1) + 1]
    BY <2>1, <1>3
  <2>4. Len(Q) + (j - 1) = Len(P) + j /\ (j - 1) + 1 = j
    BY <1>1, <1>4 DEF Q
  <2> QED
    BY <2>2, <2>3, <2>4
<1>7. Len(calls') = Len(P) + Len(calls)
  BY <1>1, <1>2, <1>4, <1>5 DEF Q
<1>8. \A i \in 1 .. Len(P) : calls'[i] = P[i]
  BY <1>4, <1>5 DEF Q
<1>9. calls'[Len(P) + 1] = c
  BY <1>4, <1>5 DEF Q
<1> QED
  BY <1>1, <1>5, <1>6, <1>7, <1>8, <1>9 DEF Pushed

-----------------------------------------------------------------------------
(* Every part of the invariant, first when a call returns, then when calls *)
(* are made.                                                               *)
LEMMA WaitingOnPop ==
  ASSUME Popped, NoHookReentered
  PROVE  NoHookReentered'
<1> SUFFICES ASSUME NEW j \in 1 .. Len(calls'), NEW i \in 1 .. Len(calls'), i < j
             PROVE  MayWaitFor(calls'[j], calls'[i])
  BY DEF NoHookReentered
<1>1. /\ calls'[j] = calls[j + 1] /\ calls'[i] = calls[i + 1]
      /\ j + 1 \in 1 .. Len(calls) /\ i + 1 \in 1 .. Len(calls) /\ i + 1 < j + 1
  <2>1. /\ j + 1 \in 2 .. Len(calls) /\ i + 1 \in 2 .. Len(calls) /\ i + 1 < j + 1
        /\ (j + 1) - 1 = j /\ (i + 1) - 1 = i
    BY DEF Popped
  <2> QED
    BY <2>1 DEF Popped
<1> QED
  BY <1>1 DEF NoHookReentered

LEMMA WaitingOnPush ==
  ASSUME NEW k \in Nat, NEW P, NEW c, Pushed(k, P, c), NoHookReentered,
         \A j \in 2 .. Len(calls) : MayWaitFor(calls[j], c),
         \A i \in 1 .. k :
           /\ P[i].at = "start"
           /\ MayWaitFor(c, P[i])
           /\ \A j \in 2 .. Len(calls) : MayWaitFor(calls[j], P[i])
  PROVE  NoHookReentered'
<1> SUFFICES ASSUME NEW j \in 1 .. Len(calls'), NEW i \in 1 .. Len(calls'), i < j
             PROVE  MayWaitFor(calls'[j], calls'[i])
  BY DEF NoHookReentered
<1>0. /\ Len(calls) \in Nat /\ Len(calls) >= 1 /\ Len(calls') = k + Len(calls)
      /\ calls'[k + 1] = c
  BY DEF Pushed
<1>1. CASE j <= k
  <2>1. calls'[j] = P[j] /\ P[j].at = "start"
    BY <1>1 DEF Pushed
  <2> QED
    BY <2>1 DEF MayWaitFor
<1>2. CASE j = k + 1
  <2>1. i \in 1 .. k
    BY <1>2, <1>0
  <2>2. calls'[j] = c /\ calls'[i] = P[i]
    BY <1>2, <2>1, <1>0 DEF Pushed
  <2> QED
    BY <2>1, <2>2
<1>3. CASE j > k + 1
  <2>1. j - k \in 2 .. Len(calls) /\ k + (j - k) = j
    BY <1>3, <1>0
  <2>2. calls'[j] = calls[j - k]
    BY <2>1 DEF Pushed
  <2>3. CASE i <= k
    <3>1. calls'[i] = P[i] /\ i \in 1 .. k
      BY <2>3 DEF Pushed
    <3> QED
      BY <3>1, <2>1, <2>2
  <2>4. CASE i = k + 1
    <3>1. calls'[i] = c
      BY <2>4, <1>0
    <3> QED
      BY <3>1, <2>1, <2>2
  <2>5. CASE i > k + 1
    <3>1. /\ i - k \in 2 .. Len(calls) /\ k + (i - k) = i
          /\ i - k < j - k
      BY <2>5, <1>0
    <3>2. calls'[i] = calls[i - k]
      BY <3>1 DEF Pushed
    <3>3. MayWaitFor(calls[j - k], calls[i - k])
      <4>1. i - k \in 1 .. Len(calls) /\ j - k \in 1 .. Len(calls) /\ i - k < j - k
        BY <2>1, <3>1, <1>0
      <4>2. PICK a \in 1 .. Len(calls), b \in 1 .. Len(calls) :
              a = i - k /\ b = j - k /\ a < b
        BY <4>1
      <4>3. MayWaitFor(calls[b], calls[a])
        BY <4>2 DEF NoHookReentered
      <4> QED
        BY <4>2, <4>3
    <3> QED
      BY <3>2, <3>3, <2>2
  <2> QED
    BY <2>3, <2>4, <2>5, <1>0
<1> QED
  BY <1>1, <1>2, <1>3, <1>0

LEMMA OwnOnPop ==
  ASSUME Popped, OwnCalls
  PROVE  OwnCalls'
<1> SUFFICES ASSUME NEW j \in 1 .. Len(calls'), NEW i \in 1 .. Len(calls'), i < j,
                    calls'[j].at = "setup", Stage(calls'[i]) = Stage(calls'[j]),
                    NEW n \in i + 1 .. j - 1
             PROVE  calls'[n].target = calls'[j].target
  BY DEF OwnCalls, Stage
<1>1. /\ j + 1 \in 2 .. Len(calls) /\ i + 1 \in 2 .. Len(calls) /\ i + 1 < j + 1
      /\ n + 1 \in 2 .. Len(calls) /\ n + 1 \in (i + 1) + 1 .. (j + 1) - 1
      /\ (j + 1) - 1 = j /\ (i + 1) - 1 = i /\ (n + 1) - 1 = n
  BY DEF Popped
<1>2. calls'[j] = calls[j + 1] /\ calls'[i] = calls[i + 1] /\ calls'[n] = calls[n + 1]
  BY <1>1 DEF Popped
<1>3. j + 1 \in 1 .. Len(calls) /\ i + 1 \in 1 .. Len(calls)
  BY <1>1
<1> QED
  BY <1>1, <1>2, <1>3 DEF OwnCalls

LEMMA OwnOnPush ==
  ASSUME NEW k \in Nat, NEW P, NEW c, Pushed(k, P, c), OwnCalls,
         c.op = calls[1].op, c.target = calls[1].target,
         \A i \in 1 .. k : P[i].at = "start",
         c.at = "setup" => k <= 1 \/ \A i \in 1 .. k : Stage(P[i]) # Stage(c),
         \A i \in 1 .. k, j \in 2 .. Len(calls) :
           calls[j].at = "setup" /\ Stage(P[i]) = Stage(calls[j]) =>
             /\ Stage(calls[1]) = Stage(calls[j])
             /\ \A n \in 1 .. k : P[n].target = calls[j].target
  PROVE  OwnCalls'
<1> SUFFICES ASSUME NEW j \in 1 .. Len(calls'), NEW i \in 1 .. Len(calls'), i < j,
                    calls'[j].at = "setup", Stage(calls'[i]) = Stage(calls'[j]),
                    NEW n \in i + 1 .. j - 1
             PROVE  calls'[n].target = calls'[j].target
  BY DEF OwnCalls, Stage
<1>0. /\ Len(calls) \in Nat /\ Len(calls) >= 1 /\ Len(calls') = k + Len(calls)
      /\ calls'[k + 1] = c
  BY DEF Pushed
<1>1. CASE j <= k
  <2>1. calls'[j] = P[j] /\ P[j].at = "start"
    BY <1>1 DEF Pushed
  <2> QED
    BY <2>1
<1>2. CASE j = k + 1
  <2>1. c.at = "setup"
    BY <1>0, <1>2
  <2>a. i \in 1 .. k /\ calls'[j] = c
    BY <1>0, <1>2
  <2>b. calls'[i] = P[i]
    BY <2>a DEF Pushed
  <2>c. k <= 1
    BY <2>1, <2>a, <2>b
  <2>2. k <= 1 /\ i >= 1 /\ j - 1 <= 1
    BY <2>c, <1>0, <1>2
  <2>3. i \in Int /\ j \in Int /\ n \in Int /\ i + 1 <= n /\ n <= j - 1
    BY <1>0
  <2>4. FALSE
    BY <2>2, <2>3
  <2> QED
    BY <2>4
<1>3. CASE j > k + 1
  <2>1. PICK m \in 2 .. Len(calls) : k + m = j
    <3>1. j - k \in 2 .. Len(calls) /\ k + (j - k) = j
      BY <1>3, <1>0
    <3> QED
      BY <3>1
  <2>a. m \in 1 .. Len(calls)
    BY <1>0
  <2>b. calls'[j] = calls[m]
    BY <2>1 DEF Pushed
  <2>2. calls'[j] = calls[m] /\ m \in 1 .. Len(calls)
    BY <2>a, <2>b
  <2>3. Stage(c) = Stage(calls[1])
    BY DEF Stage
(* What is below call 1 of the old stack.                                  *)
  <2>4. ASSUME NEW l \in 1 .. m - 1, Stage(calls[l]) = Stage(calls[m])
        PROVE  \A d \in l + 1 .. m - 1 : calls[d].target = calls[m].target
    <3>1. l \in 1 .. Len(calls) /\ l < m
      BY <2>1, <2>4
    <3> QED
      BY <2>2, <2>4, <3>1 DEF OwnCalls
  <2>5. ASSUME NEW d \in 2 .. m - 1, n = k + d PROVE calls'[n] = calls[d]
    <3>1. d \in 2 .. Len(calls)
      BY <2>1, <2>5
    <3> QED
      BY <2>5, <3>1 DEF Pushed
  <2>6. CASE i <= k
    <3>1. calls'[i] = P[i] /\ i \in 1 .. k
      BY <2>6 DEF Pushed
    <3>2. /\ Stage(calls[1]) = Stage(calls[m])
          /\ \A d \in 1 .. k : P[d].target = calls[m].target
      BY <3>1, <2>1, <2>2
    <3>3. CASE n <= k
      <4>1. n \in 1 .. k /\ calls'[n] = P[n]
        BY <3>3 DEF Pushed
      <4> QED
        BY <4>1, <3>2, <2>2
    <3>4. CASE n = k + 1
      <4>1. calls'[n] = c /\ calls[1].target = calls[m].target
        BY <3>2, <3>4, <1>0 DEF Stage
      <4> QED
        BY <4>1, <2>2
    <3>5. CASE n > k + 1
      <4>1. n - k \in 2 .. m - 1 /\ n = k + (n - k) /\ 1 \in 1 .. m - 1
        BY <3>5, <2>1, <1>0
      <4>2. calls'[n] = calls[n - k]
        BY <4>1, <2>5
      <4>3. n - k \in 1 + 1 .. m - 1
        BY <4>1
      <4> QED
        BY <4>1, <4>2, <4>3, <3>2, <2>2, <2>4
    <3> QED
      BY <3>3, <3>4, <3>5, <1>0
  <2>7. CASE i > k
    <3>1. PICK l \in 1 .. m - 1 : i = k + l
      <4>1. i - k \in 1 .. m - 1 /\ i = k + (i - k)
        BY <2>1, <2>7
      <4> QED
        BY <4>1
    <3>2. Stage(calls[l]) = Stage(calls[m])
      <4>1. CASE l = 1
        BY <4>1, <3>1, <2>2, <2>3, <1>0
      <4>2. CASE l # 1
        <5>1. l \in 2 .. Len(calls)
          BY <4>2, <3>1, <2>1
        <5>2. calls'[k + l] = calls[l]
          BY <5>1 DEF Pushed
        <5> QED
          BY <5>2, <3>1, <2>2
      <4> QED
        BY <4>1, <4>2
    <3>3. n - k \in l + 1 .. m - 1 /\ n - k \in 2 .. m - 1 /\ n = k + (n - k)
      BY <3>1, <2>1
    <3>4. calls'[n] = calls[n - k]
      BY <3>3, <2>5
    <3> QED
      BY <3>2, <3>3, <3>4, <2>2, <2>4
  <2> QED
    BY <2>6, <2>7, <1>0
<1> QED
  BY <1>1, <1>2, <1>3, <1>0

(* The calls that wait, and stay as they are in every step.                *)
Waiting == { calls[j] : j \in 2 .. Len(calls) }

LEMMA EstablishedOnPop ==
  ASSUME Popped, \A w \in Waiting : Established(w)'
  PROVE  CallsEstablished'
<1> SUFFICES ASSUME NEW j \in 1 .. Len(calls') PROVE Established(calls[j])'
  BY DEF CallsEstablished
<1>1. j + 1 \in 2 .. Len(calls) /\ (j + 1) - 1 = j
  BY DEF Popped
<1>2. calls'[j] = calls[j + 1]
  BY <1>1 DEF Popped
<1>3. PICK w \in Waiting : w = calls'[j]
  BY <1>1, <1>2 DEF Waiting
<1>4. Established(w)'
  OBVIOUS
<1> QED
  BY <1>3, <1>4 DEF Established

LEMMA EstablishedOnPush ==
  ASSUME NEW k \in Nat, NEW P, NEW c, Pushed(k, P, c),
         \A i \in 1 .. k : /\ P[i].op \in Preparing \cup Kinds
                           /\ P[i].at = "start" /\ P[i].left = {},
         Established(c)',
         \A w \in Waiting : Established(w)'
  PROVE  CallsEstablished'
<1> SUFFICES ASSUME NEW j \in 1 .. Len(calls') PROVE Established(calls[j])'
  BY DEF CallsEstablished
<1>0. /\ Len(calls) \in Nat /\ Len(calls) >= 1 /\ Len(calls') = k + Len(calls)
      /\ calls'[k + 1] = c
  BY DEF Pushed
<1>1. CASE j <= k
  <2>1. calls'[j] = P[j] /\ j \in 1 .. k
    BY <1>1 DEF Pushed
  <2>2. /\ calls'[j].op \in Preparing \cup Kinds
        /\ calls'[j].at = "start" /\ calls'[j].left = {}
    BY <2>1
  <2> QED
    BY <2>2 DEF Established, Preparing, Kinds
<1>2. CASE j = k + 1
  BY <1>0, <1>2 DEF Established
<1>3. CASE j > k + 1
  <2>1. j - k \in 2 .. Len(calls) /\ k + (j - k) = j
    BY <1>3, <1>0
  <2>2. calls'[j] = calls[j - k]
    BY <2>1 DEF Pushed
  <2>3. PICK w \in Waiting : w = calls'[j]
    BY <2>1, <2>2 DEF Waiting
  <2>4. Established(w)'
    OBVIOUS
  <2> QED
    BY <2>3, <2>4 DEF Established
<1> QED
  BY <1>1, <1>2, <1>3, <1>0

(* What a call does not undo of what others wait for.                      *)
NothingUndone ==
  /\ project \subseteq project'
  /\ setupLate \subseteq setupLate'
  /\ returned \subseteq returned'

LEMMA SeenToOnPop ==
  ASSUME Popped, CallsSeenTo, NothingUndone,
         calls[1].op = "check" => <<"check", calls[1].target>> \in returned',
         calls[1].op = "get" => calls[1].target \in setupLate',
         calls[1].op \in Preparing => calls[1].target \in project'
  PROVE  CallsSeenTo'
<1> SUFFICES ASSUME NEW j \in 1 .. Len(calls') PROVE SeenTo(j)'
  BY DEF CallsSeenTo
<1>1. /\ j + 1 \in 2 .. Len(calls) /\ (j + 1) - 1 = j
      /\ Len(calls) \in Nat /\ Len(calls') = Len(calls) - 1
  BY DEF Popped
<1>2. calls'[j] = calls[j + 1]
  BY <1>1 DEF Popped
<1>3. SeenTo(j + 1)
  BY <1>1 DEF CallsSeenTo
<1>4. j > 1 => calls'[j - 1] = calls[j]
  <2> SUFFICES ASSUME j > 1 PROVE calls'[j - 1] = calls[j]
    OBVIOUS
  <2>1. j \in 2 .. Len(calls)
    BY <1>1
  <2> QED
    BY <2>1 DEF Popped
<1> DEFINE d == calls[j + 1]
<1>5. d.at = "checked" => \/ <<"check", d.target>> \in returned'
                          \/ /\ j > 1 /\ calls'[j - 1].op = "check"
                             /\ calls'[j - 1].target = d.target
  <2>1. CASE j = 1
    BY <2>1, <1>1, <1>3 DEF SeenTo, NothingUndone
  <2>2. CASE j > 1
    BY <2>2, <1>1, <1>3, <1>4 DEF SeenTo, NothingUndone
  <2> QED
    BY <2>1, <2>2
<1>6. d.at = "ready" => \/ d.target \in setupLate'
                        \/ /\ j > 1 /\ calls'[j - 1].op = "get"
                           /\ calls'[j - 1].target = d.target
  <2>1. CASE j = 1
    BY <2>1, <1>1, <1>3 DEF SeenTo, NothingUndone
  <2>2. CASE j > 1
    BY <2>2, <1>1, <1>3, <1>4 DEF SeenTo, NothingUndone
  <2> QED
    BY <2>1, <2>2
<1>7. ASSUME d.op \in Kinds, d.target \notin project'
      PROVE  \E i \in 1 .. Len(calls') :
                /\ i < j /\ calls'[i].op \in Preparing
                /\ calls'[i].at = "start" /\ calls'[i].target = d.target
  <2>1. PICK i \in 1 .. Len(calls) :
          /\ i < j + 1 /\ calls[i].op \in Preparing
          /\ calls[i].at = "start" /\ calls[i].target = d.target
    BY <1>3, <1>7 DEF SeenTo, NothingUndone
  <2>2. i # 1
    BY <2>1, <1>7
  <2>3. i \in 2 .. Len(calls) /\ i - 1 \in 1 .. Len(calls') /\ i - 1 < j
    BY <2>1, <2>2, <1>1
  <2>4. calls'[i - 1] = calls[i]
    BY <2>3 DEF Popped
  <2> QED
    BY <2>1, <2>3, <2>4
<1> QED
  BY <1>2, <1>5, <1>6, <1>7 DEF SeenTo

LEMMA SeenToOnPush ==
  ASSUME NEW k \in Nat, NEW P, NEW c, Pushed(k, P, c), CallsSeenTo, NothingUndone,
         c.op = calls[1].op, c.target = calls[1].target,
         \A i \in 1 .. k : P[i].at = "start",
         \A i \in 1 .. k : P[i].op \in Kinds =>
           \E n \in 1 .. k : /\ n < i /\ P[n].op \in Preparing
                             /\ P[n].target = P[i].target,
         c.at = "checked" => /\ k > 0 /\ P[k].op = "check"
                             /\ P[k].target = c.target,
         c.at = "ready" => /\ k > 0 /\ P[k].op = "get"
                           /\ P[k].target = c.target,
         calls[1].op \in Preparing /\ calls[1].at = "start"
           => calls[1].target \in project'
  PROVE  CallsSeenTo'
<1> SUFFICES ASSUME NEW j \in 1 .. Len(calls') PROVE SeenTo(j)'
  BY DEF CallsSeenTo
<1>0. /\ Len(calls) \in Nat /\ Len(calls) >= 1 /\ Len(calls') = k + Len(calls)
      /\ calls'[k + 1] = c
  BY DEF Pushed
<1>a. \A i \in 1 .. k : calls'[i] = P[i] /\ i \in 1 .. Len(calls')
  BY <1>0 DEF Pushed
<1>1. CASE j <= k
  <2>1. j \in 1 .. k /\ calls'[j] = P[j] /\ P[j].at = "start"
    BY <1>1, <1>a
  <2>2. ASSUME P[j].op \in Kinds
        PROVE  \E i \in 1 .. Len(calls') :
                  /\ i < j /\ calls'[i].op \in Preparing
                  /\ calls'[i].at = "start" /\ calls'[i].target = P[j].target
    <3>1. PICK n \in 1 .. k : /\ n < j /\ P[n].op \in Preparing
                              /\ P[n].target = P[j].target
      BY <2>1, <2>2
    <3>2. calls'[n] = P[n] /\ n \in 1 .. Len(calls') /\ P[n].at = "start"
      BY <1>a
    <3> QED
      BY <3>1, <3>2
  <2> QED
    BY <2>1, <2>2 DEF SeenTo
<1>2. CASE j = k + 1
  <2>1. calls'[j] = c
    BY <1>0, <1>2
  <2>2. 1 \in 1 .. Len(calls) /\ ~ \E i \in 1 .. Len(calls) : i < 1
    BY <1>0
  <2>3. c.op \in Kinds => c.target \in project'
    BY <2>2 DEF CallsSeenTo, SeenTo, NothingUndone
  <2>4. k > 0 => j > 1 /\ calls'[j - 1] = P[k]
    <3> SUFFICES ASSUME k > 0 PROVE j > 1 /\ calls'[j - 1] = P[k]
      OBVIOUS
    <3>1. k \in 1 .. k /\ j - 1 = k /\ j > 1
      BY <1>2
    <3> QED
      BY <3>1, <1>a
  <2> QED
    BY <2>1, <2>3, <2>4 DEF SeenTo
<1>3. CASE j > k + 1
  <2>m. PICK m \in 2 .. Len(calls) : k + m = j
    <3>1. j - k \in 2 .. Len(calls) /\ k + (j - k) = j
      BY <1>3, <1>0
    <3> QED
      BY <3>1
  <2>1. k + m = j /\ m \in 1 .. Len(calls)
    BY <2>m, <1>0
  <2>2. calls'[j] = calls[m]
    BY <2>1 DEF Pushed
  <2>3. SeenTo(m)
    BY <2>1 DEF CallsSeenTo
  <2>4. /\ j > 1
        /\ calls'[j - 1].op = calls[m - 1].op
        /\ calls'[j - 1].target = calls[m - 1].target
    <3>1. CASE m = 2
      <4>1. j - 1 = k + 1 /\ m - 1 = 1 /\ j > 1
        BY <3>1, <2>1
      <4> QED
        BY <4>1, <1>0
    <3>2. CASE m > 2
      <4>1. m - 1 \in 2 .. Len(calls) /\ k + (m - 1) = j - 1 /\ j > 1
        BY <3>2, <2>m, <2>1, <1>0
      <4>2. calls'[k + (m - 1)] = calls[m - 1]
        BY <4>1 DEF Pushed
      <4> QED
        BY <4>1, <4>2
    <3> QED
      BY <3>1, <3>2, <2>1
  <2>5. ASSUME calls[m].op \in Kinds, calls[m].target \notin project'
        PROVE  \E i \in 1 .. Len(calls') :
                  /\ i < j /\ calls'[i].op \in Preparing
                  /\ calls'[i].at = "start" /\ calls'[i].target = calls[m].target
    <3>1. PICK i \in 1 .. Len(calls) :
            /\ i < m /\ calls[i].op \in Preparing
            /\ calls[i].at = "start" /\ calls[i].target = calls[m].target
      BY <2>3, <2>5 DEF SeenTo, NothingUndone
    <3>2. i # 1
      BY <3>1, <2>5
    <3>3. i \in 2 .. Len(calls) /\ k + i \in 1 .. Len(calls') /\ k + i < j
      BY <3>1, <3>2, <2>1, <1>0
    <3>4. calls'[k + i] = calls[i]
      BY <3>3 DEF Pushed
    <3> QED
      BY <3>1, <3>3, <3>4
  <2>6. calls[m].at = "checked" => \/ <<"check", calls[m].target>> \in returned'
                                   \/ /\ calls'[j - 1].op = "check"
                                      /\ calls'[j - 1].target = calls[m].target
    BY <2>3, <2>4 DEF SeenTo, NothingUndone
  <2>7. calls[m].at = "ready" => \/ calls[m].target \in setupLate'
                                 \/ /\ calls'[j - 1].op = "get"
                                    /\ calls'[j - 1].target = calls[m].target
    BY <2>3, <2>4 DEF SeenTo, NothingUndone
  <2> QED
    BY <2>2, <2>4, <2>5, <2>6, <2>7 DEF SeenTo
<1> QED
  BY <1>1, <1>2, <1>3, <1>0

LEMMA HooksOnPop ==
  ASSUME Popped, NEW hook, NEW t, InHookOnStack(hook, t),
         calls[1].at # hook \/ calls[1].target # t
  PROVE  InHookOnStack(hook, t)'
<1>1. PICK j \in 1 .. Len(calls) : calls[j].at = hook /\ calls[j].target = t
  BY DEF InHookOnStack
<1>2. j # 1
  BY <1>1
<1>3. j \in 2 .. Len(calls) /\ j - 1 \in 1 .. Len(calls')
  BY <1>1, <1>2 DEF Popped
<1>4. calls'[j - 1] = calls[j]
  BY <1>3 DEF Popped
<1> QED
  BY <1>1, <1>3, <1>4 DEF InHookOnStack

LEMMA HooksOnPush ==
  ASSUME NEW k \in Nat, NEW P, NEW c, Pushed(k, P, c), c.target = calls[1].target,
         NEW hook, NEW t
  PROVE  /\ c.at = hook /\ c.target = t => InHookOnStack(hook, t)'
         /\ InHookOnStack(hook, t) /\ (calls[1].at = hook => c.at = hook)
              => InHookOnStack(hook, t)'
<1>0. /\ Len(calls) \in Nat /\ Len(calls) >= 1 /\ Len(calls') = k + Len(calls)
      /\ calls'[k + 1] = c
  BY DEF Pushed
<1>1. ASSUME c.at = hook, c.target = t PROVE InHookOnStack(hook, t)'
  <2>1. k + 1 \in 1 .. Len(calls')
    BY <1>0
  <2> QED
    BY <1>0, <1>1, <2>1 DEF InHookOnStack
<1>2. ASSUME InHookOnStack(hook, t), calls[1].at = hook => c.at = hook
      PROVE  InHookOnStack(hook, t)'
  <2>1. PICK j \in 1 .. Len(calls) : calls[j].at = hook /\ calls[j].target = t
    BY <1>2 DEF InHookOnStack
  <2>2. CASE j = 1
    BY <1>1, <1>2, <2>1, <2>2
  <2>3. CASE j # 1
    <3>1. j \in 2 .. Len(calls) /\ k + j \in 1 .. Len(calls')
      BY <2>3, <1>0
    <3>2. calls'[k + j] = calls[j]
      BY <3>1 DEF Pushed
    <3> QED
      BY <2>1, <3>1, <3>2 DEF InHookOnStack
  <2> QED
    BY <2>2, <2>3
<1> QED
  BY <1>1, <1>2

-----------------------------------------------------------------------------
(* The loops of main(): what is run has been checked before, and what is   *)
(* built comes after what precedes it in the plan.                         *)
Checks(s) ==
  \A a \in 1 .. Len(plan) :
    \E i \in 1 .. Len(s) : s[i].op = "check" /\ s[i].target = plan[a]

Builds(s, n, t) ==
  \E i \in 1 .. Len(s) : i < n /\ s[i].op = "BUILD" /\ s[i].target = t

LoopsInOrder(s) ==
  /\ s \in Seq(CallType)
  /\ \A n \in 1 .. Len(s) :
       /\ s[n].at = "start" /\ s[n].left = {} /\ s[n].op # "target"
       /\ s[n].op \in Kinds =>
            \E i \in 1 .. Len(s) :
              i < n /\ s[i].op = "check" /\ s[i].target = s[n].target
       /\ s[n].op = "BUILD" =>
            \E b \in 1 .. Len(plan) :
              /\ s[n].target = plan[b]
              /\ \A a \in 1 .. b - 1 : Builds(s, n, plan[a])

LEMMA OneMoreLoop ==
  ASSUME plan \in Seq(Targets), NEW s, LoopsInOrder(s),
         NEW op \in Preparing \cup Kinds, op \in Kinds => Checks(s),
         NEW r, r = s \o Loop(op, plan)
  PROVE  LoopsInOrder(r) /\ (op = "check" \/ Checks(s) => Checks(r))
<1> DEFINE T == Loop(op, plan)
<1>1. Len(plan) \in Nat /\ \A b \in 1 .. Len(plan) : plan[b] \in Targets
  BY LenProperties, ElementOfSeq
<1>2. /\ T \in Seq(CallType) /\ Len(T) = Len(plan)
      /\ \A b \in 1 .. Len(plan) : /\ T[b].op = op /\ T[b].target = plan[b]
                                    /\ T[b].at = "start" /\ T[b].left = {}
  <2>1. DOMAIN plan = 1 .. Len(plan)
    BY LenProperties
  <2>2. \A b \in 1 .. Len(plan) : Call(op, plan[b]) \in CallType
    BY <1>1 DEF Call, CallType, Preparing, Kinds
  <2>3. T = [i \in 1 .. Len(plan) |-> Call(op, plan[i])]
    BY <2>1 DEF Loop
  <2>4. T \in Seq(CallType) /\ Len(T) = Len(plan)
    BY <2>2, <2>3, <1>1
  <2> QED
    BY <2>3, <2>4 DEF Call
<1> HIDE DEF T
<1>3. s \in Seq(CallType) /\ Len(s) \in Nat
  BY LenProperties DEF LoopsInOrder
<1>r. r = s \o T
  BY DEF T
<1>4. /\ r \in Seq(CallType) /\ Len(r) = Len(s) + Len(plan)
      /\ \A i \in 1 .. Len(s) + Len(plan) :
           r[i] = IF i <= Len(s) THEN s[i] ELSE T[i - Len(s)]
  <2>0. s \in Seq(CallType) /\ T \in Seq(CallType)
    BY <1>2, <1>3
  <2>1. /\ s \o T \in Seq(CallType)
        /\ Len(s \o T) = Len(s) + Len(T)
        /\ \A i \in 1 .. Len(s) + Len(T) :
             (s \o T)[i] = IF i <= Len(s) THEN s[i] ELSE T[i - Len(s)]
    BY <2>0, ConcatProperties
  <2> QED
    BY <2>1, <1>2, <1>r
<1>5. \A i \in 1 .. Len(s) : r[i] = s[i] /\ i \in 1 .. Len(r)
  BY <1>1, <1>3, <1>4
<1>6. ASSUME NEW b \in 1 .. Len(plan)
      PROVE  /\ Len(s) + b \in 1 .. Len(r)
             /\ r[Len(s) + b].op = op /\ r[Len(s) + b].target = plan[b]
             /\ r[Len(s) + b].at = "start" /\ r[Len(s) + b].left = {}
  <2>1. /\ Len(s) + b \in 1 .. Len(r) /\ ~(Len(s) + b <= Len(s))
        /\ (Len(s) + b) - Len(s) = b
    BY <1>1, <1>3, <1>4
  <2> QED
    BY <2>1, <1>2, <1>4
<1>7. ASSUME NEW n \in 1 .. Len(r), n > Len(s)
      PROVE  \E b \in 1 .. Len(plan) : n = Len(s) + b
  <2>1. n - Len(s) \in 1 .. Len(plan) /\ n = Len(s) + (n - Len(s))
    BY <1>1, <1>3, <1>4, <1>7
  <2> QED
    BY <2>1
<1>8. ASSUME NEW n \in 1 .. Len(r)
      PROVE  /\ r[n].at = "start" /\ r[n].left = {} /\ r[n].op # "target"
             /\ r[n].op \in Kinds =>
                  \E i \in 1 .. Len(r) :
                    i < n /\ r[i].op = "check" /\ r[i].target = r[n].target
  <2>1. CASE n <= Len(s)
    <3>1. n \in 1 .. Len(s)
      BY <2>1
    <3> QED
      BY <3>1, <1>5 DEF LoopsInOrder
  <2>2. CASE n > Len(s)
    <3>1. PICK b \in 1 .. Len(plan) : n = Len(s) + b
      BY <1>7, <2>2
    <3>2. /\ r[n].op = op /\ r[n].target = plan[b]
          /\ r[n].at = "start" /\ r[n].left = {} /\ op # "target"
      BY <3>1, <1>6 DEF Preparing, Kinds
    <3>3. ASSUME op \in Kinds
          PROVE  \E i \in 1 .. Len(r) :
                    i < n /\ r[i].op = "check" /\ r[i].target = plan[b]
      <4>1. PICK i \in 1 .. Len(s) : s[i].op = "check" /\ s[i].target = plan[b]
        BY <3>3 DEF Checks
      <4>2. i < n /\ r[i] = s[i] /\ i \in 1 .. Len(r)
        BY <2>2, <1>3, <1>5
      <4> QED
        BY <4>1, <4>2
    <3>4. r[n].op \in Kinds =>
            \E i \in 1 .. Len(r) :
              i < n /\ r[i].op = "check" /\ r[i].target = r[n].target
      BY <3>2, <3>3
    <3> QED
      BY <3>2, <3>4
  <2>3. n <= Len(s) \/ n > Len(s)
    BY <1>3
  <2> QED
    BY <2>1, <2>2, <2>3
<1>9. ASSUME NEW n \in 1 .. Len(r), r[n].op = "BUILD"
      PROVE  \E b \in 1 .. Len(plan) :
                /\ r[n].target = plan[b]
                /\ \A a \in 1 .. b - 1 : Builds(r, n, plan[a])
  <2>1. CASE n <= Len(s)
    <3>1. n \in 1 .. Len(s) /\ r[n] = s[n]
      BY <2>1, <1>5
    <3>2. PICK b \in 1 .. Len(plan) :
            /\ s[n].target = plan[b]
            /\ \A a \in 1 .. b - 1 : Builds(s, n, plan[a])
      BY <3>1, <1>9 DEF LoopsInOrder
    <3>3. \A a \in 1 .. b - 1 : Builds(r, n, plan[a])
      BY <3>2, <1>5 DEF Builds
    <3> QED
      BY <3>1, <3>2, <3>3
  <2>2. CASE n > Len(s)
    <3>1. PICK b \in 1 .. Len(plan) : n = Len(s) + b
      BY <1>7, <2>2
    <3>2. op = "BUILD" /\ r[n].target = plan[b]
      BY <3>1, <1>6, <1>9
    <3>3. ASSUME NEW a \in 1 .. b - 1 PROVE Builds(r, n, plan[a])
      <4>1. a \in 1 .. Len(plan) /\ Len(s) + a < n
        BY <3>1, <1>1, <1>3
      <4>2. Len(s) + a \in 1 .. Len(r) /\ r[Len(s) + a].op = "BUILD"
            /\ r[Len(s) + a].target = plan[a]
        BY <4>1, <1>6, <3>2
      <4> QED
        BY <4>1, <4>2 DEF Builds
    <3> QED
      BY <3>2, <3>3
  <2>3. n <= Len(s) \/ n > Len(s)
    BY <1>3
  <2> QED
    BY <2>1, <2>2, <2>3
<1>10. ASSUME op = "check" PROVE Checks(r)
  <2>1. \A b \in 1 .. Len(plan) : /\ Len(s) + b \in 1 .. Len(r)
                                  /\ r[Len(s) + b].op = "check"
                                  /\ r[Len(s) + b].target = plan[b]
    BY <1>6, <1>10
  <2> QED
    BY <2>1 DEF Checks
<1>11. ASSUME Checks(s) PROVE Checks(r)
  BY <1>5, <1>11 DEF Checks
<1>12. LoopsInOrder(r)
  BY <1>4, <1>8, <1>9 DEF LoopsInOrder
<1> QED
  BY <1>10, <1>11, <1>12

LEMMA PerhapsOneMoreLoop ==
  ASSUME plan \in Seq(Targets), NEW s, LoopsInOrder(s), Checks(s),
         NEW kind \in Kinds, NEW r, r = s \o LoopIf(kind, plan)
  PROVE  LoopsInOrder(r) /\ Checks(r)
<1>1. CASE kind \in action
  <2>1. r = s \o Loop(kind, plan)
    BY <1>1 DEF LoopIf
  <2> QED
    BY <2>1, OneMoreLoop
<1>2. CASE kind \notin action
  <2>1. s \in Seq(CallType)
    BY DEF LoopsInOrder
  <2>2. r = s
    BY <1>2, <2>1, ConcatEmptySeq DEF LoopIf
  <2> QED
    BY <2>2
<1> QED
  BY <1>1, <1>2

LEMMA ChecksFirst ==
  ASSUME plan \in Seq(Targets), NEW op \in {"check", "target"}
  PROVE  /\ Loop(op, plan) \in Seq(CallType)
         /\ Len(Loop(op, plan)) = Len(plan)
         /\ \A b \in 1 .. Len(plan) : Loop(op, plan)[b] = Call(op, plan[b])
<1>1. /\ DOMAIN plan = 1 .. Len(plan) /\ Len(plan) \in Nat
      /\ \A b \in 1 .. Len(plan) : plan[b] \in Targets
  BY LenProperties, ElementOfSeq
<1>2. \A b \in 1 .. Len(plan) : Call(op, plan[b]) \in CallType
  BY <1>1 DEF Call, CallType
<1>3. Loop(op, plan) = [b \in 1 .. Len(plan) |-> Call(op, plan[b])]
  BY <1>1 DEF Loop
<1> QED
  BY <1>1, <1>2, <1>3

LEMMA LoopsAreInOrder ==
  ASSUME plan \in Seq(Targets)
  PROVE  LoopsInOrder(Loops)
<1>1. LoopsInOrder(<<>>)
  BY DEF LoopsInOrder
<1>2. PICK checked : checked = Loop("check", plan)
  OBVIOUS
<1>3. LoopsInOrder(checked) /\ Checks(checked)
  <2>1. Loop("check", plan) \in Seq(CallType)
    BY ChecksFirst
  <2>2. checked = <<>> \o Loop("check", plan)
    BY <1>2, <2>1, ConcatEmptySeq
  <2>3. "check" \in Preparing \cup Kinds /\ "check" \notin Kinds
    BY DEF Preparing, Kinds
  <2> QED
    BY <1>1, <2>2, <2>3, OneMoreLoop
<1>4. "BUILD" \in Kinds /\ "TEST" \in Kinds /\ "BENCHMARK" \in Kinds
  BY DEF Kinds
<1>5. PICK built : built = checked \o LoopIf("BUILD", plan)
  OBVIOUS
<1>6. LoopsInOrder(built) /\ Checks(built)
  BY <1>3, <1>4, <1>5, PerhapsOneMoreLoop
<1>7. PICK tested : tested = built \o LoopIf("TEST", plan)
  OBVIOUS
<1>8. LoopsInOrder(tested) /\ Checks(tested)
  BY <1>4, <1>6, <1>7, PerhapsOneMoreLoop
<1>9. PICK all : all = tested \o LoopIf("BENCHMARK", plan)
  OBVIOUS
<1>10. LoopsInOrder(all)
  BY <1>4, <1>8, <1>9, PerhapsOneMoreLoop
<1> QED
  BY <1>2, <1>5, <1>7, <1>9, <1>10 DEF Loops, MainCalls

(* The calls that either front end begins with.                            *)
LEMMA FirstCalls ==
  ASSUME plan \in Seq(Targets), NEW s, s = MainCalls \/ s = JenkinsCalls
  PROVE  /\ s \in Seq(CallType)
         /\ \A n \in 1 .. Len(s) :
              /\ s[n].at = "start" /\ s[n].left = {}
              /\ s[n].op \in Kinds =>
                   \E i \in 1 .. Len(s) :
                     i < n /\ s[i].op = "check" /\ s[i].target = s[n].target
<1>1. CASE s = MainCalls
  BY <1>1, LoopsAreInOrder DEF Loops, LoopsInOrder
<1>2. CASE s = <<>>
  BY <1>2
<1>3. CASE s = Loop("check", plan) \o Loop("target", plan)
  <2>1. PICK a, b : a = Loop("check", plan) /\ b = Loop("target", plan)
    OBVIOUS
  <2>2. /\ a \in Seq(CallType) /\ b \in Seq(CallType) /\ Len(plan) \in Nat
        /\ Len(a) = Len(plan) /\ Len(b) = Len(plan)
        /\ \A i \in 1 .. Len(plan) :
             a[i] = Call("check", plan[i]) /\ b[i] = Call("target", plan[i])
    BY <2>1, ChecksFirst, LenProperties
  <2>3. /\ s \in Seq(CallType) /\ Len(s) = Len(a) + Len(b)
        /\ \A i \in 1 .. Len(a) + Len(b) :
             s[i] = IF i <= Len(a) THEN a[i] ELSE b[i - Len(a)]
    BY <1>3, <2>1, <2>2, ConcatProperties
  <2>a. \A i \in 1 .. Len(plan) :
          /\ a[i].op \notin Kinds /\ a[i].at = "start" /\ a[i].left = {}
          /\ b[i].op \notin Kinds /\ b[i].at = "start" /\ b[i].left = {}
    <3>1. \A op \in {"check", "target"}, t \in Targets :
            /\ Call(op, t).op \notin Kinds
            /\ Call(op, t).at = "start" /\ Call(op, t).left = {}
      BY DEF Call, Kinds
    <3>2. \A i \in 1 .. Len(plan) : plan[i] \in Targets
      BY ElementOfSeq
    <3> QED
      BY <2>2, <3>1, <3>2
  <2>4. ASSUME NEW n \in 1 .. Len(s)
        PROVE  s[n].op \notin Kinds /\ s[n].at = "start" /\ s[n].left = {}
    <3>1. CASE n <= Len(a)
      <4>1. n \in 1 .. Len(plan)
        BY <3>1, <2>2, <2>3
      <4>2. s[n] = a[n]
        BY <3>1, <2>3
      <4> QED
        BY <4>1, <4>2, <2>a
    <3>2. CASE n > Len(a)
      <4>1. n - Len(a) \in 1 .. Len(plan)
        BY <3>2, <2>2, <2>3
      <4>2. s[n] = b[n - Len(a)]
        BY <3>2, <2>2, <2>3
      <4> QED
        BY <4>1, <4>2, <2>a
    <3> QED
      BY <3>1, <3>2, <2>2
  <2> QED
    BY <2>3, <2>4
<1> QED
  BY <1>1, <1>2, <1>3 DEF JenkinsCalls

-----------------------------------------------------------------------------
(* The loops go on with their next call when one returns to them.          *)
LEMMA InLoopsOnPop ==
  ASSUME Popped, InLoops, LoopsInOrder(Loops), Loops' = Loops, calls # <<>>,
         frontEnd' = frontEnd,
         done["BUILD"] \subseteq done'["BUILD"],
         calls[1].op = "BUILD" => calls[1].target \in done'["BUILD"]
  PROVE  InLoops'
<1> SUFFICES ASSUME frontEnd = "cheribuild" PROVE InLoops'
  BY DEF InLoops
<1>1. PICK m \in 1 .. Len(Loops) : AtCall(m)
  BY DEF InLoops
<1>2. /\ Len(Loops) \in Nat /\ Len(calls) \in Nat /\ Len(calls) >= 1
      /\ Len(calls') = Len(calls) - 1 /\ calls' \in Seq(CallType)
      /\ \A j \in 2 .. Len(calls) : calls'[j - 1] = calls[j]
  BY LenProperties DEF LoopsInOrder, Popped
<1>3. \A n \in 1 .. m - 1 : Finished(n)'
  BY <1>1 DEF AtCall, Finished
<1>4. CASE Depth(m) > 1
  <2>1. Depth(m) - 1 \in 1 .. Len(calls') /\ Depth(m)' = Depth(m) - 1
        /\ Depth(m) \in 2 .. Len(calls)
    BY <1>2, <1>4 DEF Depth
  <2>2. /\ calls'[Depth(m) - 1].op = Loops[m].op
        /\ calls'[Depth(m) - 1].target = Loops[m].target
    BY <1>1, <1>2, <2>1 DEF AtCall
  <2>3. ASSUME NEW n \in 1 .. Len(Loops), n > m PROVE calls'[Depth(n)'] = Loops[n]
    <3>1. Depth(n) \in 2 .. Len(calls) /\ Depth(n)' = Depth(n) - 1
      BY <1>2, <1>4, <2>3 DEF Depth
    <3>2. calls[Depth(n)] = Loops[n]
      BY <1>1, <2>3 DEF AtCall
    <3> QED
      BY <3>1, <3>2, <1>2
  <2>4. ASSUME NEW i \in 1 .. (Depth(m) - 1) - 1, calls'[i].op = "BUILD"
        PROVE  \E j \in i + 1 .. Depth(m) - 1 : calls'[j].at \in Hooks
    <3>1. /\ i + 1 \in 2 .. Len(calls) /\ (i + 1) - 1 = i
          /\ i + 1 \in 1 .. Depth(m) - 1
      BY <1>2, <2>1
    <3>2. calls[i + 1].op = "BUILD"
      BY <3>1, <1>2, <2>4
    <3>3. PICK j \in (i + 1) + 1 .. Depth(m) : calls[j].at \in Hooks
      BY <3>1, <3>2, <1>1 DEF AtCall
    <3>4. j \in 2 .. Len(calls) /\ j - 1 \in i + 1 .. Depth(m) - 1
      BY <2>1, <3>3
    <3> QED
      BY <3>3, <3>4, <1>2
  <2>5. AtCall(m)'
    BY <1>3, <2>1, <2>2, <2>3, <2>4 DEF AtCall
  <2> QED
    BY <2>5 DEF InLoops
<1>5. CASE Depth(m) = 1
  <2>1. Len(calls) = 1 + Len(Loops) - m
    BY <1>2, <1>5 DEF Depth
  <2>2. Finished(m)'
    BY <1>1, <1>5 DEF AtCall, Finished
  <2>3. CASE m = Len(Loops)
    <3>1. Len(calls') = 0
      BY <1>2, <2>1, <2>3
    <3> QED
      BY <3>1, <1>2, EmptySeq DEF InLoops
  <2>4. CASE m # Len(Loops)
    <3>1. m + 1 \in 1 .. Len(Loops) /\ Depth(m + 1)' = 1 /\ Depth(m + 1) = 2
          /\ 2 \in 2 .. Len(calls)
      BY <1>2, <2>1, <2>4 DEF Depth
    <3>2. calls'[1] = Loops[m + 1]
      <4>1. calls[2] = Loops[m + 1]
        BY <3>1, <1>1 DEF AtCall
      <4>2. calls'[2 - 1] = calls[2]
        BY <3>1, <1>2
      <4> QED
        BY <4>1, <4>2
    <3>3. \A n \in 1 .. (m + 1) - 1 : Finished(n)'
      BY <1>3, <2>2, <1>2
    <3>4. ASSUME NEW n \in 1 .. Len(Loops), n > m + 1 PROVE calls'[Depth(n)'] = Loops[n]
      <4>1. Depth(n) \in 2 .. Len(calls) /\ Depth(n)' = Depth(n) - 1
        BY <1>2, <2>1, <3>4 DEF Depth
      <4>2. calls[Depth(n)] = Loops[n]
        BY <1>1, <3>4 DEF AtCall
      <4> QED
        BY <4>1, <4>2, <1>2
    <3>5. 1 .. 1 - 1 = {}
      OBVIOUS
    <3>6. AtCall(m + 1)'
      BY <3>1, <3>2, <3>3, <3>4, <3>5 DEF AtCall
    <3> QED
      BY <3>1, <3>6 DEF InLoops
  <2> QED
    BY <2>3, <2>4
<1>6. Depth(m) > 1 \/ Depth(m) = 1
  <2>1. Depth(m) > 0
    BY <1>1 DEF AtCall
  <2> QED
    BY <2>1, <1>2 DEF Depth
<1> QED
  BY <1>4, <1>5, <1>6

LEMMA InLoopsOnPush ==
  ASSUME NEW k \in Nat, NEW P, NEW c, Pushed(k, P, c), InLoops, LoopsInOrder(Loops),
         Loops' = Loops, calls # <<>>, frontEnd' = frontEnd,
         c.op = calls[1].op, c.target = calls[1].target,
         done["BUILD"] \subseteq done'["BUILD"],
         frontEnd = "cheribuild" =>
           \A i \in 1 .. k : P[i].op = "BUILD" => c.at \in Hooks
  PROVE  InLoops'
<1> SUFFICES ASSUME frontEnd = "cheribuild" PROVE InLoops'
  BY DEF InLoops
<1>1. PICK m \in 1 .. Len(Loops) : AtCall(m)
  BY DEF InLoops
<1>2. /\ Len(Loops) \in Nat /\ Len(calls) \in Nat /\ Len(calls) >= 1
      /\ Len(calls') = k + Len(calls)
      /\ \A j \in 1 .. k : calls'[j] = P[j]
      /\ calls'[k + 1] = c
      /\ \A j \in 2 .. Len(calls) : calls'[k + j] = calls[j]
  BY LenProperties DEF LoopsInOrder, Pushed
<1>3. \A n \in 1 .. m - 1 : Finished(n)'
  BY <1>1 DEF AtCall, Finished
<1>4. /\ Depth(m) \in 1 .. Len(calls)
      /\ \A n \in 1 .. Len(Loops) : Depth(n)' = k + Depth(n)
  <2>1. Depth(m) > 0
    BY <1>1 DEF AtCall
  <2> QED
    BY <2>1, <1>2 DEF Depth
<1>5. \A j \in 1 .. Len(calls) : /\ calls'[k + j].op = calls[j].op
                                 /\ calls'[k + j].target = calls[j].target
  <2> SUFFICES ASSUME NEW j \in 1 .. Len(calls)
               PROVE  /\ calls'[k + j].op = calls[j].op
                      /\ calls'[k + j].target = calls[j].target
    OBVIOUS
  <2>1. CASE j = 1
    BY <2>1, <1>2
  <2>2. CASE j # 1
    <3>1. j \in 2 .. Len(calls)
      BY <2>2, <1>2
    <3> QED
      BY <3>1, <1>2
  <2> QED
    BY <2>1, <2>2
<1>6. /\ Depth(m)' > 0
      /\ calls'[Depth(m)'].op = Loops[m].op
      /\ calls'[Depth(m)'].target = Loops[m].target
  BY <1>1, <1>4, <1>5 DEF AtCall
<1>7. ASSUME NEW n \in 1 .. Len(Loops), n > m PROVE calls'[Depth(n)'] = Loops[n]
  <2>1. Depth(n) \in 2 .. Len(calls)
    BY <1>2, <1>4, <1>7 DEF Depth
  <2>2. calls[Depth(n)] = Loops[n]
    BY <1>1, <1>7 DEF AtCall
  <2> QED
    BY <2>1, <2>2, <1>2, <1>4
<1>8. ASSUME NEW i \in 1 .. Depth(m)' - 1, calls'[i].op = "BUILD"
      PROVE  \E j \in i + 1 .. Depth(m)' : calls'[j].at \in Hooks
  <2>1. CASE i <= k
    <3>1. i \in 1 .. k /\ k + 1 \in i + 1 .. Depth(m)'
      BY <2>1, <1>4
    <3>2. P[i].op = "BUILD"
      BY <3>1, <1>2, <1>8
    <3>3. calls'[k + 1].at \in Hooks
      BY <3>1, <3>2, <1>2
    <3> QED
      BY <3>1, <3>3
  <2>2. CASE i > k
    <3>1. PICK d \in 1 .. Depth(m) - 1 : k + d = i
      <4>1. i - k \in 1 .. Depth(m) - 1 /\ k + (i - k) = i
        BY <2>2, <1>4
      <4> QED
        BY <4>1
    <3>2. calls[d].op = "BUILD"
      <4>1. d \in 1 .. Len(calls)
        BY <3>1, <1>4
      <4> QED
        BY <4>1, <3>1, <1>5, <1>8
    <3>3. PICK j \in d + 1 .. Depth(m) : calls[j].at \in Hooks
      BY <3>2, <1>1 DEF AtCall
    <3>4. j \in 2 .. Len(calls) /\ k + j \in i + 1 .. Depth(m)'
      BY <3>1, <3>3, <1>4
    <3> QED
      BY <3>3, <3>4, <1>2
  <2> QED
    BY <2>1, <2>2
<1>9. AtCall(m)'
  BY <1>3, <1>6, <1>7, <1>8 DEF AtCall
<1> QED
  BY <1>9 DEF InLoops

-----------------------------------------------------------------------------
(* What the invariant says of the call under way and of those that wait.   *)
LEMMA CurrentCall ==
  ASSUME IInv, calls # <<>>
  PROVE  /\ calls[1] = Head(calls) /\ Self = calls[1].target
         /\ calls[1] \in CallType /\ Self \in Targets
         /\ Established(calls[1])
         /\ calls[1].at = "checked" => <<"check", Self>> \in returned
         /\ calls[1].at = "ready" => Self \in setupLate
         /\ calls[1].op \in Kinds => Self \in project
         /\ \A w \in Waiting : /\ w \in CallType /\ Established(w)
                               /\ MayWaitFor(w, calls[1])
<1>1. calls \in Seq(CallType) /\ Len(calls) \in Nat /\ Len(calls) >= 1
  BY EmptySeq, LenProperties DEF IInv, Types
<1>2. 1 \in 1 .. Len(calls) /\ calls[1] \in CallType /\ calls[1] = Head(calls)
  <2>1. 1 \in 1 .. Len(calls)
    BY <1>1
  <2> QED
    BY <1>1, <2>1, ElementOfSeq
<1>3. Self = calls[1].target /\ Self \in Targets
  BY <1>2 DEF Self, CallType
<1>4. SeenTo(1) /\ ~ (1 > 1) /\ ~ \E i \in 1 .. Len(calls) : i < 1
  BY <1>2, <1>1 DEF IInv, CallsSeenTo
<1>5. /\ calls[1].at = "checked" => <<"check", Self>> \in returned
      /\ calls[1].at = "ready" => Self \in setupLate
      /\ calls[1].op \in Kinds => Self \in project
  BY <1>3, <1>4 DEF SeenTo
<1>6. ASSUME NEW w \in Waiting
      PROVE  w \in CallType /\ Established(w) /\ MayWaitFor(w, calls[1])
  <2>1. PICK j \in 2 .. Len(calls) : w = calls[j]
    BY DEF Waiting
  <2>2. j \in 1 .. Len(calls) /\ 1 < j
    BY <1>1
  <2>3. w \in CallType
    BY <2>1, <2>2, <1>1, ElementOfSeq
  <2>4. Established(w)
    BY <2>1, <2>2 DEF IInv, CallsEstablished
  <2>5. MayWaitFor(w, calls[1])
    BY <2>1, <2>2, <1>2 DEF IInv, NoHookReentered
  <2> QED
    BY <2>3, <2>4, <2>5
<1>7. Established(calls[1])
  BY <1>2 DEF IInv, CallsEstablished
<1> QED
  BY <1>2, <1>3, <1>5, <1>6, <1>7

(* Which hooks of the target of the call under way may wait for it: only   *)
(* a setup() that asks for its own project.                                *)
LEMMA NoneDeeper ==
  ASSUME IInv, calls # <<>>
  PROVE  /\ \A w \in Waiting : w.target = Self =>
              /\ w.at # "check"
              /\ w.at = "setup" => calls[1].op \in Preparing /\ AsksForItself(Self)
              /\ calls[1].op \in Kinds =>
                   w.at # calls[1].op /\ ~(w.at = "ready" /\ w.op = calls[1].op)
         /\ InHookOnStack("check", Self) => calls[1].at = "check"
         /\ InHookOnStack("setup", Self) =>
              \/ calls[1].at = "setup"
              \/ calls[1].op \in Preparing /\ AsksForItself(Self)
         /\ \A k \in Kinds :
              calls[1].op = k /\ InHookOnStack(k, Self) => calls[1].at = k
<1>0. /\ calls[1] = Head(calls) /\ Self = calls[1].target /\ Self \in Targets
      /\ calls[1] \in CallType
      /\ \A w \in Waiting : /\ w \in CallType /\ Established(w)
                            /\ MayWaitFor(w, calls[1])
  BY CurrentCall
<1>1. PICK prepare, build \in Stages :
        prepare = <<"prepare", Self>> /\ build = <<"BUILD", Self>>
  BY <1>0 DEF Stages
<1>2. /\ prepare \notin Below(prepare) /\ build \notin Below(build)
      /\ build \notin Below(prepare)
  <2>1. prepare \notin Below(prepare) /\ build \notin Below(build)
    BY NeverBelowItself
  <2>2. build \in Below(prepare) => prepare \in Below(prepare)
    BY <1>1, Chains
  <2> QED
    BY <2>1, <2>2
<1>3. /\ calls[1].op = "BUILD" => Stage(calls[1]) = build
      /\ calls[1].op # "BUILD" => Stage(calls[1]) = prepare
  BY <1>0, <1>1, StagesOfCalls
<1>4. ASSUME NEW w \in Waiting, w.target = Self
      PROVE  /\ w.at # "check"
             /\ w.at = "setup" => calls[1].op \in Preparing /\ AsksForItself(Self)
             /\ calls[1].op \in Kinds =>
                  w.at # calls[1].op /\ ~(w.at = "ready" /\ w.op = calls[1].op)
  <2>1. w \in CallType /\ Established(w) /\ MayWaitFor(w, calls[1])
    BY <1>0
  <2>2. /\ w.op = "BUILD" => Stage(w) = build
        /\ w.op # "BUILD" => Stage(w) = prepare
    BY <2>1, <1>1, <1>4, StagesOfCalls
  <2>3. /\ w.at = "check" => w.op = "check"
        /\ w.at = "setup" => w.op = "get"
        /\ \A k \in Kinds : w.at = k => w.op = k
    BY <2>1 DEF Established, CallType, Kinds
  <2>4. w.at # "check"
    BY <2>1, <2>2, <2>3, <1>2, <1>3 DEF MayWaitFor
  <2>5. ASSUME w.at = "setup"
        PROVE  calls[1].op \in Preparing /\ AsksForItself(Self)
    <3>1. Stage(w) = prepare
      BY <2>2, <2>3, <2>5
    <3>2. Own(w, calls[1])
      BY <2>1, <2>5, <3>1, <1>2, <1>3 DEF MayWaitFor
    <3>3. Stage(calls[1]) = prepare /\ AsksForItself(Self)
      BY <3>1, <3>2, <1>4 DEF Own
    <3>4. calls[1].op # "BUILD"
      BY <3>3, <1>1, <1>3
    <3>5. calls[1].op \in Preparing \cup {"BUILD"}
      BY <2>1, <2>5 DEF MayWaitFor
    <3> QED
      BY <3>3, <3>4, <3>5
  <2>6. ASSUME calls[1].op \in Kinds,
               w.at = calls[1].op \/ (w.at = "ready" /\ w.op = calls[1].op)
        PROVE  FALSE
    <3>1. w.op = calls[1].op /\ w.at \notin {"start", "built"}
      BY <2>3, <2>6 DEF Kinds
    <3>2. calls[1].op = "BUILD"
      BY <2>1, <2>6, <3>1 DEF MayWaitFor, Preparing, Kinds
    <3>3. Stage(calls[1]) \in Below(Stage(w))
      BY <2>1, <2>6, <3>1, <3>2 DEF MayWaitFor
    <3> QED
      BY <3>1, <3>2, <3>3, <1>2, <1>3, <2>2
  <2> QED
    BY <2>4, <2>5, <2>6
<1>5. ASSUME NEW hook, InHookOnStack(hook, Self), calls[1].at # hook
      PROVE  \E w \in Waiting : w.at = hook /\ w.target = Self
  <2>1. PICK j \in 1 .. Len(calls) : calls[j].at = hook /\ calls[j].target = Self
    BY <1>5 DEF InHookOnStack
  <2>2. Len(calls) \in Nat /\ j # 1
    BY <1>5, <2>1, LenProperties DEF IInv, Types
  <2>3. j \in 2 .. Len(calls)
    BY <2>2
  <2> QED
    BY <2>1, <2>3 DEF Waiting
<1>6. /\ InHookOnStack("check", Self) => calls[1].at = "check"
      /\ InHookOnStack("setup", Self) =>
           \/ calls[1].at = "setup"
           \/ calls[1].op \in Preparing /\ AsksForItself(Self)
      /\ \A k \in Kinds :
           calls[1].op = k /\ InHookOnStack(k, Self) => calls[1].at = k
  <2>1. InHookOnStack("check", Self) => calls[1].at = "check"
    BY <1>4, <1>5
  <2>2. InHookOnStack("setup", Self) =>
          \/ calls[1].at = "setup"
          \/ calls[1].op \in Preparing /\ AsksForItself(Self)
    BY <1>4, <1>5
  <2>3. ASSUME NEW k \in Kinds, calls[1].op = k, InHookOnStack(k, Self)
        PROVE  calls[1].at = k
    BY <2>3, <1>4, <1>5
  <2> QED
    BY <2>1, <2>2, <2>3
<1> QED
  BY <1>4, <1>6

(* No step does for a target what a call that waits is about to do.        *)
NotOvertaken(w) ==
  /\ w.at = "check" => w.target \notin setupCalled'
  /\ w.at = "setup" /\ w.target \in setupLate' => AsksForItself(w.target)
  /\ w.at = "ready" => w.target \notin done'[w.op]

LEMMA StillEstablished ==
  ASSUME IInv, calls # <<>>, frontEnd' = frontEnd,
         depsChecked \subseteq depsChecked', setupCalled \subseteq setupCalled',
         setupLate \subseteq setupLate', returned \subseteq returned',
         \A w \in Waiting : NotOvertaken(w)
  PROVE  \A w \in Waiting : Established(w)'
<1> SUFFICES ASSUME NEW w \in Waiting PROVE Established(w)'
  OBVIOUS
<1>1. Established(w)
  BY CurrentCall
<1> QED
  BY <1>1 DEF Established, NotOvertaken

(* A flag that is set stays set, and a hook stays on the stack until it    *)
(* returns.                                                                *)
LEMMA FlagsOnStep ==
  ASSUME FlagsAreTrue,
         depsChecked \subseteq depsChecked', setupLate \subseteq setupLate',
         returned \subseteq returned', \A k \in Kinds : done[k] \subseteq done'[k],
         \A t \in Targets :
           /\ <<"check", t>> \in returned' => t \in depsChecked'
           /\ t \in depsChecked' \ depsChecked => InHookOnStack("check", t)'
           /\ t \in setupCalled' \ setupCalled =>
                <<"check", t>> \in returned' /\ InHookOnStack("setup", t)'
           /\ InHookOnStack("check", t) =>
                InHookOnStack("check", t)' \/ <<"check", t>> \in returned'
           /\ InHookOnStack("setup", t) =>
                InHookOnStack("setup", t)' \/ <<"setup", t>> \in returned'
           /\ \A k \in Kinds :
                /\ InHookOnStack(k, t) => InHookOnStack(k, t)' \/ t \in done'[k]
                /\ \/ started'[k][t] = started[k][t]
                   \/ /\ started'[k][t] <= 1 /\ t \in setupLate'
                      /\ <<"setup", t>> \in returned' /\ InHookOnStack(k, t)'
  PROVE  FlagsAreTrue'
<1> SUFFICES ASSUME NEW t \in Targets PROVE FlagsOf(t)'
  BY DEF FlagsAreTrue
<1>1. FlagsOf(t)
  BY DEF FlagsAreTrue
<1>2. <<"check", t>> \in returned' => t \in depsChecked'
  OBVIOUS
<1>3. t \in depsChecked' => <<"check", t>> \in returned' \/ InHookOnStack("check", t)'
  BY <1>1 DEF FlagsOf
<1>4. t \in setupCalled' =>
        /\ <<"check", t>> \in returned'
        /\ <<"setup", t>> \in returned' \/ InHookOnStack("setup", t)'
  BY <1>1 DEF FlagsOf
<1>5. ASSUME NEW k \in Kinds
      PROVE  /\ started'[k][t] <= 1
             /\ started'[k][t] > 0 => /\ t \in setupLate'
                                      /\ <<"setup", t>> \in returned'
                                      /\ t \in done'[k] \/ InHookOnStack(k, t)'
  <2>1. /\ started[k][t] <= 1
        /\ started[k][t] > 0 => /\ t \in setupLate
                                /\ <<"setup", t>> \in returned
                                /\ t \in done[k] \/ InHookOnStack(k, t)
    BY <1>1 DEF FlagsOf
  <2>2. InHookOnStack(k, t) => InHookOnStack(k, t)' \/ t \in done'[k]
    OBVIOUS
  <2>3. done[k] \subseteq done'[k]
    OBVIOUS
  <2>4. CASE started'[k][t] = started[k][t]
    BY <2>1, <2>2, <2>3, <2>4
  <2>5. CASE /\ started'[k][t] <= 1 /\ t \in setupLate'
             /\ <<"setup", t>> \in returned' /\ InHookOnStack(k, t)'
    BY <2>5
  <2> QED
    BY <2>4, <2>5
<1> QED
  BY <1>2, <1>3, <1>4, <1>5 DEF FlagsOf

(* Nothing is done, and no hook leaves the stack.                          *)
LEMMA FlagsStay ==
  ASSUME FlagsAreTrue, UNCHANGED <<depsChecked, setupCalled, done, returned, started>>,
         setupLate \subseteq setupLate',
         \A hook \in Hooks, t \in Targets : InHookOnStack(hook, t) => InHookOnStack(hook, t)'
  PROVE  FlagsAreTrue'
<1>1. "check" \in Hooks /\ "setup" \in Hooks /\ \A k \in Kinds : k \in Hooks
  BY DEF Hooks
<1>2. \A t \in Targets : <<"check", t>> \in returned => t \in depsChecked
  BY DEF FlagsAreTrue, FlagsOf
<1> QED
  BY <1>1, <1>2, FlagsOnStep

(* The three ways in which a call goes on.                                 *)
LEMMA ContinueStep ==
  ASSUME IInv, calls # <<>>,
         NEW at \in {"start", "checked", "late", "ready", "built"} \cup Hooks,
         NEW left \in SUBSET Pairs, Continue(at, left)
  PROVE  \E c \in CallType : /\ Pushed(0, <<>>, c)
                             /\ c.op = calls[1].op /\ c.target = calls[1].target
                             /\ c.at = at /\ c.left = left
<1>1. PICK c : c = [Head(calls) EXCEPT !.at = at, !.left = left]
  OBVIOUS
<1>2. calls[1] \in CallType /\ calls[1] = Head(calls)
  BY CurrentCall
<1>3. /\ c \in CallType
      /\ c.op = calls[1].op /\ c.target = calls[1].target
      /\ c.at = at /\ c.left = left
  BY <1>1, <1>2 DEF CallType
<1>4. <<>> \o << c >> = << c >> /\ <<>> \in Seq(CallType) /\ Len(<<>>) = 0
  BY <1>3
<1>5. calls \in Seq(CallType) /\ calls' = <<>> \o << c >> \o Tail(calls)
  BY <1>1, <1>4 DEF Continue, IInv, Types
<1>6. Pushed(0, <<>>, c)
  BY <1>3, <1>4, <1>5, PushStep
<1> QED
  BY <1>3, <1>6

LEMMA CallStep ==
  ASSUME IInv, calls # <<>>, NEW P \in Seq(CallType), NEW c \in CallType,
         calls' = P \o << c >> \o Tail(calls)
  PROVE  Pushed(Len(P), P, c)
BY PushStep DEF IInv, Types

LEMMA Prepared ==
  ASSUME UNCHANGED inputs, IInv
  PROVE  /\ Loops' = Loops /\ LoopsInOrder(Loops)
         /\ PlanIsOrdered'
<1>1. frontEnd' = frontEnd /\ action' = action /\ plan' = plan
  BY DEF inputs
<1>2. Loops' = Loops
  BY <1>1 DEF Loops, MainCalls, LoopIf
<1>3. LoopsInOrder(Loops)
  BY LoopsAreInOrder DEF IInv, Types
<1> QED
  BY <1>1, <1>2, <1>3 DEF IInv, PlanIsOrdered

LEMMA PopHolds ==
  ASSUME IInv, calls # <<>>, Popped, UNCHANGED inputs, Types', FlagsAreTrue',
         NothingUndone,
         depsChecked \subseteq depsChecked', setupCalled \subseteq setupCalled',
         done["BUILD"] \subseteq done'["BUILD"],
         \A w \in Waiting : NotOvertaken(w),
         calls[1].op = "check" => <<"check", Self>> \in returned',
         calls[1].op = "get" => Self \in setupLate',
         calls[1].op \in Preparing => Self \in project',
         calls[1].op = "BUILD" => Self \in done'["BUILD"]
  PROVE  IInv'
<1>1. Self = calls[1].target
  BY CurrentCall
<1>f. frontEnd' = frontEnd
  BY DEF inputs
<1>2. NoHookReentered' /\ OwnCalls'
  BY WaitingOnPop, OwnOnPop DEF IInv
<1>3. CallsEstablished'
  BY <1>f, EstablishedOnPop, StillEstablished DEF NothingUndone
<1>4. CallsSeenTo'
  BY <1>1, SeenToOnPop DEF IInv
<1>5. Loops' = Loops /\ LoopsInOrder(Loops) /\ PlanIsOrdered'
  BY Prepared
<1>6. InLoops'
  BY <1>1, <1>f, <1>5, InLoopsOnPop DEF IInv
<1> QED
  BY <1>2, <1>3, <1>4, <1>5, <1>6 DEF IInv

LEMMA PushHolds ==
  ASSUME IInv, calls # <<>>, NEW k \in Nat, NEW P, NEW c, Pushed(k, P, c),
         UNCHANGED inputs, Types', FlagsAreTrue',
         NothingUndone,
         depsChecked \subseteq depsChecked', setupCalled \subseteq setupCalled',
         done["BUILD"] \subseteq done'["BUILD"],
         \A w \in Waiting : NotOvertaken(w),
         c.op = calls[1].op, c.target = calls[1].target,
         Established(c)',
         \A i \in 1 .. k : /\ P[i].op \in Preparing \cup Kinds
                           /\ P[i].at = "start" /\ P[i].left = {}
                           /\ MayWaitFor(c, P[i])
                           /\ \A w \in Waiting : MayWaitFor(w, P[i])
                           /\ P[i].op \in Kinds => c.at \in Hooks \/ c.op = "target",
         \A w \in Waiting :
           c.at \in Hooks /\ Own(w, calls[1]) => w.at # "setup",
         c.at = "setup" => k <= 1 \/ \A i \in 1 .. k : Stage(P[i]) # Stage(c),
         \A i \in 1 .. k, w \in Waiting :
           w.at = "setup" /\ Stage(P[i]) = Stage(w) =>
             /\ Stage(calls[1]) = Stage(w)
             /\ \A n \in 1 .. k : P[n].target = w.target,
         \A i \in 1 .. k : P[i].op \in Kinds =>
           \E n \in 1 .. k : /\ n < i /\ P[n].op \in Preparing
                             /\ P[n].target = P[i].target,
         c.at = "checked" => /\ k > 0 /\ P[k].op = "check"
                             /\ P[k].target = c.target,
         c.at = "ready" => /\ k > 0 /\ P[k].op = "get"
                           /\ P[k].target = c.target,
         calls[1].op \in Preparing /\ calls[1].at = "start" => Self \in project'
  PROVE  IInv'
<1>1. Self = calls[1].target
  BY CurrentCall
<1>f. frontEnd' = frontEnd
  BY DEF inputs
<1>w. \A j \in 2 .. Len(calls) : calls[j] \in Waiting
  BY DEF Waiting
<1>2. NoHookReentered'
  <2>1. ASSUME NEW w \in Waiting PROVE MayWaitFor(w, c)
    <3>1. MayWaitFor(w, calls[1])
      BY CurrentCall
    <3>2. Stage(c) = Stage(calls[1])
      BY DEF Stage
    <3>3. w.at = "setup" /\ Own(w, calls[1]) => Own(w, c)
      BY <3>2 DEF Own
    <3> QED
      BY <3>1, <3>2, <3>3 DEF MayWaitFor
  <2> QED
    BY <2>1, <1>w, WaitingOnPush DEF IInv
<1>o. OwnCalls'
  BY <1>w, OwnOnPush DEF IInv
<1>3. CallsEstablished'
  BY <1>f, EstablishedOnPush, StillEstablished DEF NothingUndone
<1>4. CallsSeenTo'
  BY <1>1, SeenToOnPush DEF IInv
<1>5. Loops' = Loops /\ LoopsInOrder(Loops) /\ PlanIsOrdered'
  BY Prepared
<1>6. frontEnd = "cheribuild" =>
        \A i \in 1 .. k : P[i].op = "BUILD" => c.at \in Hooks
  <2>1. c.op = "target" => frontEnd = "jenkins"
    BY <1>f DEF Established
  <2> QED
    BY <2>1 DEF Kinds
<1>7. InLoops'
  BY <1>f, <1>5, <1>6, InLoopsOnPush DEF IInv
<1> QED
  BY <1>2, <1>o, <1>3, <1>4, <1>5, <1>7 DEF IInv

LEMMA WantsArePairs ==
  ASSUME NEW hook \in Hooks, NEW t \in Targets
  PROVE  Wants(hook, t) \in SUBSET Pairs
<1>1. Asks[hook][t] \subseteq Targets /\ Tools[hook][t] \subseteq Targets
  BY RunAssumption
<1> QED
  BY <1>1 DEF Wants, Pairs

-----------------------------------------------------------------------------
(* Each of the methods preserves the invariant.                            *)
LEMMA CheckSystemDepsHolds ==
  ASSUME IInv, CheckSystemDeps
  PROVE  IInv'
<1>1. /\ calls # <<>> /\ Head(calls).op = "check" /\ Head(calls).at = "start"
      /\ project' = project \cup {Self}
      /\ UNCHANGED <<inputs, setupCalled, setupLate, done, returned, started, outcome>>
  BY DEF CheckSystemDeps, Current
<1>2. /\ calls[1] = Head(calls) /\ Self = calls[1].target /\ Self \in Targets
      /\ \A w \in Waiting : w \in CallType /\ Established(w)
  BY <1>1, CurrentCall
<1>3. NothingUndone
  BY <1>1 DEF NothingUndone
<1>4. \A w \in Waiting : NotOvertaken(w)
  BY <1>1, <1>2 DEF Established, NotOvertaken
<1>5. CASE Self \in depsChecked
  <2>1. Return /\ UNCHANGED depsChecked
    BY <1>5 DEF CheckSystemDeps
  <2>2. Popped
    BY <1>1, <2>1, PopStep DEF IInv, Types
  <2>3. Types'
    BY <1>1, <1>2, <2>1, <2>2 DEF IInv, Types, Popped, inputs
  <2>4. \A hook \in Hooks, t \in Targets : InHookOnStack(hook, t) => InHookOnStack(hook, t)'
    <3>1. "start" \notin Hooks
      BY DEF Hooks, Kinds
    <3> QED
      BY <1>1, <1>2, <2>2, <3>1, HooksOnPop
  <2>5. FlagsAreTrue'
    BY <1>1, <2>1, <2>4, FlagsStay DEF IInv
  <2>6. <<"check", Self>> \in returned
    <3>1. ~InHookOnStack("check", Self)
      BY <1>1, <1>2, NoneDeeper DEF Hooks
    <3> QED
      BY <1>2, <1>5, <3>1 DEF IInv, FlagsAreTrue, FlagsOf
  <2> QED
    BY <1>1, <1>2, <1>3, <1>4, <2>1, <2>2, <2>3, <2>5, <2>6, PopHolds
<1>6. CASE Self \notin depsChecked
  <2>1. depsChecked' = depsChecked \cup {Self} /\ Continue("check", Wants("check", Self))
    BY <1>6 DEF CheckSystemDeps
  <2>2. PICK left \in SUBSET Pairs : left = Wants("check", Self)
    BY <1>2, WantsArePairs DEF Hooks
  <2>3. PICK c \in CallType : /\ Pushed(0, <<>>, c)
                              /\ c.op = calls[1].op /\ c.target = calls[1].target
                              /\ c.at = "check" /\ c.left = left
    <3>1. Continue("check", left)
      BY <2>1, <2>2
    <3> QED
      BY <1>1, <3>1, ContinueStep DEF Hooks
  <2>4. Types'
    BY <1>1, <1>2, <2>1, <2>3 DEF IInv, Types, Pushed, inputs
  <2>5. \A hook \in Hooks, t \in Targets :
          /\ InHookOnStack(hook, t) => InHookOnStack(hook, t)'
          /\ hook = "check" /\ t = Self => InHookOnStack(hook, t)'
    <3>1. "start" \notin Hooks
      BY DEF Hooks, Kinds
    <3> QED
      BY <1>1, <1>2, <2>3, <3>1, HooksOnPush
  <2>6. FlagsAreTrue'
    <3>1. "check" \in Hooks /\ "setup" \in Hooks /\ \A k \in Kinds : k \in Hooks
      BY DEF Hooks
    <3>2. \A t \in Targets : <<"check", t>> \in returned => t \in depsChecked
      BY DEF IInv, FlagsAreTrue, FlagsOf
    <3> QED
      BY <1>1, <2>1, <2>5, <3>1, <3>2, FlagsOnStep DEF IInv
  <2>7. Established(c)'
    <3>1. c.target \in depsChecked' \ setupCalled'
      BY <1>1, <1>2, <1>6, <2>1, <2>3 DEF IInv, Types
    <3> QED
      BY <1>1, <1>2, <2>2, <2>3, <3>1 DEF Established, Hooks, Kinds
  <2>8. ASSUME NEW w \in Waiting, w.at = "setup", Own(w, calls[1]) PROVE FALSE
    <3>1. w.target = Self
      BY <1>2, <2>8 DEF Own, Stage
    <3> QED
      BY <1>2, <1>6, <2>8, <3>1 DEF Established, IInv, Types
  <2> QED
    BY <1>1, <1>2, <1>3, <1>4, <2>1, <2>3, <2>4, <2>6, <2>7, <2>8, PushHolds
<1> QED
  BY <1>5, <1>6

LEMMA GetOrCreateProjectHolds ==
  ASSUME IInv, GetOrCreateProject
  PROVE  IInv'
<1>1. /\ calls # <<>> /\ Head(calls).op = "get" /\ Head(calls).at = "start"
      /\ project' = project \cup {Self}
      /\ calls' = << Call("check", Self) >>
                  \o << [Head(calls) EXCEPT !.at = "checked"] >> \o Tail(calls)
      /\ UNCHANGED <<inputs, depsChecked, setupCalled, setupLate, done, returned,
                     started, outcome>>
  BY DEF GetOrCreateProject, Current, FirstCheck
<1>2. /\ calls[1] = Head(calls) /\ calls[1] \in CallType
      /\ Self = calls[1].target /\ Self \in Targets
      /\ Established(calls[1])
      /\ \A w \in Waiting : w \in CallType /\ Established(w) /\ MayWaitFor(w, calls[1])
  BY <1>1, CurrentCall
<1>3. PICK c : c = [Head(calls) EXCEPT !.at = "checked"]
  OBVIOUS
<1>4. /\ c \in CallType /\ c.at = "checked" /\ c.op = "get" /\ c.target = Self
      /\ c.left = calls[1].left
  BY <1>1, <1>2, <1>3 DEF CallType
<1>5. PICK first \in CallType : first = Call("check", Self)
  BY <1>2 DEF Call, CallType
<1>6. /\ first.op = "check" /\ first.target = Self
      /\ first.at = "start" /\ first.left = {}
  BY <1>5 DEF Call
<1> DEFINE P == << first >>
<1>7. P \in Seq(CallType) /\ Len(P) = 1 /\ \A i \in 1 .. 1 : P[i] = first
  OBVIOUS
<1> HIDE DEF P
<1>8. Pushed(1, P, c)
  <2>1. calls' = P \o << c >> \o Tail(calls)
    BY <1>1, <1>3, <1>5 DEF P
  <2> QED
    BY <2>1, <1>1, <1>4, <1>7, CallStep
<1>9. Types'
  BY <1>1, <1>2, <1>8 DEF IInv, Types, Pushed, inputs
<1>10. FlagsAreTrue'
  <2>1. \A hook \in Hooks, t \in Targets : InHookOnStack(hook, t) => InHookOnStack(hook, t)'
    <3>1. "start" \notin Hooks
      BY DEF Hooks, Kinds
    <3> QED
      BY <1>1, <1>2, <1>4, <1>8, <3>1, HooksOnPush
  <2> QED
    BY <1>1, <2>1, FlagsStay DEF IInv
<1>11. Established(c)'
  BY <1>1, <1>2, <1>4 DEF Established, Hooks, Kinds
<1>a. Stage(first) = Stage(calls[1]) /\ "start" \notin Hooks /\ "checked" \notin Hooks
  BY <1>1, <1>2, <1>6 DEF Stage, Hooks, Kinds
<1>12. MayWaitFor(c, first) /\ \A w \in Waiting : MayWaitFor(w, first)
  <2>1. MayWaitFor(c, first)
    BY <1>4, <1>6 DEF MayWaitFor, Preparing
  <2>2. ASSUME NEW w \in Waiting PROVE MayWaitFor(w, first)
    <3>1. MayWaitFor(w, calls[1])
      BY <1>2
    <3>2. Own(w, calls[1]) => Own(w, first)
      BY <1>a, <1>6 DEF Own
    <3>3. first.op \in Preparing /\ first.op # "target"
      BY <1>6 DEF Preparing
    <3> QED
      BY <3>1, <3>2, <3>3, <1>a DEF MayWaitFor
  <2> QED
    BY <2>1, <2>2
<1>13. \A w \in Waiting : NotOvertaken(w)
  BY <1>1, <1>2 DEF Established, NotOvertaken
<1>14. NothingUndone
  BY <1>1 DEF NothingUndone
<1>15. \A i \in 1 .. 1 : /\ P[i].op \in Preparing /\ P[i].op \notin Kinds
                         /\ P[i].at = "start" /\ P[i].left = {}
                         /\ MayWaitFor(c, P[i])
                         /\ \A w \in Waiting : MayWaitFor(w, P[i])
  BY <1>6, <1>7, <1>12 DEF Preparing, Kinds
<1>16. P[1].op = "check" /\ P[1].target = c.target
  BY <1>4, <1>6, <1>7
<1>17. ASSUME NEW i \in 1 .. 1, NEW w \in Waiting, w.at = "setup", Stage(P[i]) = Stage(w)
       PROVE  /\ Stage(calls[1]) = Stage(w)
              /\ \A n \in 1 .. 1 : P[n].target = w.target
  <2>1. P[i] = first
    BY <1>7
  <2>2. first.target = w.target
    BY <2>1, <1>17 DEF Stage
  <2> QED
    BY <1>7, <1>17, <1>a, <2>1, <2>2
<1> QED
  BY <1>17, <1>a, <1>1, <1>2, <1>4, <1>8, <1>9, <1>10, <1>11, <1>13, <1>14, <1>15, <1>16, PushHolds

LEMMA SetupHolds ==
  ASSUME IInv, Setup
  PROVE  IInv'
<1>1. /\ calls # <<>> /\ Head(calls).op = "get" /\ Head(calls).at = "checked"
      /\ UNCHANGED <<inputs, project, depsChecked, setupLate, done, returned, started>>
  BY DEF Setup, Current
<1>2. /\ calls[1] = Head(calls) /\ Self = calls[1].target /\ Self \in Targets
      /\ <<"check", Self>> \in returned
      /\ \A w \in Waiting : w \in CallType /\ Established(w)
  BY <1>1, CurrentCall
<1>3. /\ \A w \in Waiting : w.at = "check" => w.target # Self
      /\ InHookOnStack("setup", Self) => AsksForItself(Self)
  BY <1>1, <1>2, NoneDeeper
<1>a. "checked" \notin Hooks
  BY DEF Hooks, Kinds
<1>4. CASE Self \notin setupCalled
  <2>a. Self \notin setupCalled \cup setupLate
    BY <1>4 DEF IInv, Types
  <2>1. /\ setupCalled' = setupCalled \cup {Self}
        /\ Continue("setup", Wants("setup", Self))
        /\ outcome' = outcome
    BY <1>4, <2>a DEF Setup, Assert, ToBeSetUp
  <2>2. PICK left \in SUBSET Pairs : left = Wants("setup", Self)
    BY <1>2, WantsArePairs DEF Hooks
  <2>3. PICK c \in CallType : /\ Pushed(0, <<>>, c)
                              /\ c.op = calls[1].op /\ c.target = calls[1].target
                              /\ c.at = "setup" /\ c.left = left
    <3>1. Continue("setup", left)
      BY <2>1, <2>2
    <3>2. "setup" \in {"start", "checked", "late", "ready", "built"} \cup Hooks
      BY DEF Hooks
    <3> QED
      BY <1>1, <3>1, <3>2, ContinueStep
  <2>4. Self \in depsChecked
    BY <1>2 DEF IInv, FlagsAreTrue, FlagsOf
  <2>5. Types'
    BY <1>1, <1>2, <2>1, <2>3, <2>4 DEF IInv, Types, Pushed, inputs
  <2>6. \A hook \in Hooks, t \in Targets :
          /\ InHookOnStack(hook, t) => InHookOnStack(hook, t)'
          /\ hook = "setup" /\ t = Self => InHookOnStack(hook, t)'
    BY <1>1, <1>2, <2>3, <1>a, HooksOnPush
  <2>7. FlagsAreTrue'
    <3>1. "check" \in Hooks /\ "setup" \in Hooks /\ \A k \in Kinds : k \in Hooks
      BY DEF Hooks
    <3>2. \A t \in Targets : <<"check", t>> \in returned => t \in depsChecked
      BY DEF IInv, FlagsAreTrue, FlagsOf
    <3> QED
      BY <1>1, <1>2, <2>1, <2>6, <3>1, <3>2, FlagsOnStep DEF IInv
  <2>8. Established(c)'
    <3>1. c.target \in setupCalled' \ setupLate'
      BY <1>1, <1>2, <1>4, <2>1, <2>3 DEF IInv, Types
    <3> QED
      BY <1>1, <1>2, <2>2, <2>3, <3>1 DEF Established, Hooks, Kinds
  <2>9. \A w \in Waiting : NotOvertaken(w)
    BY <1>1, <1>2, <1>3, <2>1 DEF Established, NotOvertaken
  <2>10. NothingUndone
    BY <1>1 DEF NothingUndone
  <2>11. ASSUME NEW w \in Waiting, w.at = "setup", Own(w, calls[1]) PROVE FALSE
    <3>1. w.target = Self
      BY <1>2, <2>11 DEF Own, Stage
    <3> QED
      BY <1>2, <1>4, <2>11, <3>1 DEF Established
  <2> QED
    BY <1>1, <1>2, <2>1, <2>3, <2>5, <2>7, <2>8, <2>9, <2>10, <2>11, PushHolds
<1>5. CASE Self \in setupCalled
  <2>1. Continue("late", {}) /\ setupCalled' = setupCalled /\ outcome' = outcome
    BY <1>5 DEF Setup, ToBeSetUp
  <2>3. PICK c \in CallType : /\ Pushed(0, <<>>, c)
                              /\ c.op = calls[1].op /\ c.target = calls[1].target
                              /\ c.at = "late" /\ c.left = {}
    <3>1. PICK none \in SUBSET Pairs : none = {}
      OBVIOUS
    <3>2. PICK at \in {"start", "checked", "late", "ready", "built"} \cup Hooks :
            at = "late"
      OBVIOUS
    <3>3. Continue(at, none)
      BY <2>1, <3>1, <3>2
    <3> QED
      BY <1>1, <3>1, <3>2, <3>3, ContinueStep
  <2>5. Types'
    BY <1>1, <1>2, <2>1, <2>3 DEF IInv, Types, Pushed, inputs
  <2>6. \A hook \in Hooks, t \in Targets : InHookOnStack(hook, t) => InHookOnStack(hook, t)'
    BY <1>1, <1>2, <2>3, <1>a, HooksOnPush
  <2>7. FlagsAreTrue'
    BY <1>1, <2>1, <2>6, FlagsStay DEF IInv
  <2>8. Established(c)'
    <3>2. <<"setup", Self>> \in returned \/ AsksForItself(Self)
      BY <1>2, <1>3, <1>5 DEF IInv, FlagsAreTrue, FlagsOf
    <3> QED
      BY <1>1, <1>2, <1>5, <2>1, <2>3, <3>2 DEF Established, Hooks, Kinds
  <2>9. \A w \in Waiting : NotOvertaken(w)
    BY <1>1, <1>2, <2>1 DEF Established, NotOvertaken
  <2>10. NothingUndone
    BY <1>1 DEF NothingUndone
  <2>11. c.at \notin Hooks
    BY <2>3 DEF Hooks, Kinds
  <2> QED
    BY <1>1, <1>2, <2>1, <2>3, <2>5, <2>7, <2>8, <2>9, <2>10, <2>11, PushHolds
<1> QED
  BY <1>4, <1>5

LEMMA SetupLateHolds ==
  ASSUME IInv, SetupLate
  PROVE  IInv'
<1>1. /\ calls # <<>> /\ Head(calls).op = "get" /\ Head(calls).at = "late"
      /\ setupLate' = setupLate \cup {Self} /\ Return
      /\ UNCHANGED <<inputs, project, depsChecked, setupCalled, done, returned,
                     started, outcome>>
  BY DEF SetupLate, Current
<1>2. /\ calls[1] = Head(calls) /\ Self = calls[1].target /\ Self \in Targets
      /\ Established(calls[1])
      /\ \A w \in Waiting : w \in CallType /\ Established(w)
  BY <1>1, CurrentCall
<1>3. Self \in setupCalled
  BY <1>1, <1>2 DEF Established
<1>4. \A w \in Waiting : w.at = "setup" /\ w.target = Self => AsksForItself(Self)
  BY <1>1, NoneDeeper
<1>5. Popped
  BY <1>1, PopStep DEF IInv, Types
<1>6. Types'
  <2>1. done' \in [Kinds -> SUBSET setupLate']
    BY <1>1 DEF IInv, Types
  <2> QED
    BY <1>1, <1>2, <1>3, <1>5, <2>1 DEF IInv, Types, Popped, inputs
<1>7. FlagsAreTrue'
  <2>1. \A hook \in Hooks, t \in Targets : InHookOnStack(hook, t) => InHookOnStack(hook, t)'
    <3>1. "late" \notin Hooks
      BY DEF Hooks, Kinds
    <3> QED
      BY <1>1, <1>2, <1>5, <3>1, HooksOnPop
  <2> QED
    BY <1>1, <2>1, FlagsStay DEF IInv
<1>8. \A w \in Waiting : NotOvertaken(w)
  BY <1>1, <1>2, <1>4 DEF Established, NotOvertaken
<1>9. NothingUndone
  BY <1>1 DEF NothingUndone
<1>10. Self \in project'
  BY <1>1, <1>3 DEF IInv, Types
<1> QED
  BY <1>1, <1>2, <1>5, <1>6, <1>7, <1>8, <1>9, <1>10, PopHolds

LEMMA DoRunHolds ==
  ASSUME IInv, NEW kind \in Kinds, DoRun(kind)
  PROVE  IInv'
<1>1. /\ calls # <<>> /\ Head(calls).op = kind /\ Head(calls).at = "start"
      /\ UNCHANGED <<inputs, flags, returned, started>>
  BY DEF DoRun, Current
<1>2. /\ calls[1] = Head(calls) /\ calls[1] \in CallType
      /\ Self = calls[1].target /\ Self \in Targets
      /\ Self \in project /\ Established(calls[1])
      /\ \A w \in Waiting : w \in CallType /\ Established(w) /\ MayWaitFor(w, calls[1])
  BY <1>1, CurrentCall
<1>3. /\ project' = project /\ depsChecked' = depsChecked /\ done' = done
      /\ setupCalled' = setupCalled /\ setupLate' = setupLate
      /\ returned' = returned /\ started' = started
  BY <1>1 DEF flags
<1>4. \A w \in Waiting : NotOvertaken(w)
  BY <1>2, <1>3 DEF Established, NotOvertaken
<1>5. NothingUndone
  BY <1>3 DEF NothingUndone
<1>6. "start" \notin Hooks /\ kind \notin Preparing /\ kind # "check" /\ kind # "get"
  BY DEF Hooks, Kinds, Preparing
<1>7. CASE AlreadyRun(kind, Self)
  <2>1. Return /\ outcome' = outcome /\ Self \in done[kind]
    BY <1>7 DEF DoRun, AlreadyRun
  <2>2. Popped
    BY <1>1, <2>1, PopStep DEF IInv, Types
  <2>3. Types'
    BY <1>1, <1>3, <2>1, <2>2 DEF IInv, Types, Popped, inputs
  <2>4. FlagsAreTrue'
    <3>1. \A hook \in Hooks, t \in Targets : InHookOnStack(hook, t) => InHookOnStack(hook, t)'
      BY <1>1, <1>2, <1>6, <2>2, HooksOnPop
    <3> QED
      BY <1>1, <1>3, <3>1, FlagsStay DEF IInv
  <2>5. calls[1].op = "BUILD" => Self \in done'["BUILD"]
    BY <1>1, <1>2, <1>3, <2>1
  <2> QED
    BY <1>1, <1>2, <1>3, <1>4, <1>5, <1>6, <2>2, <2>3, <2>4, <2>5, PopHolds
<1>8. CASE ~AlreadyRun(kind, Self)
  <2>1. /\ outcome' = outcome /\ Self \notin done[kind]
        /\ calls' = << Call("get", Self) >>
                    \o << [Head(calls) EXCEPT !.at = "ready"] >> \o Tail(calls)
    BY <1>2, <1>8 DEF DoRun, AlreadyRun, Assert
  <2>2. PICK c : c = [Head(calls) EXCEPT !.at = "ready"]
    OBVIOUS
  <2>3. /\ c \in CallType /\ c.at = "ready" /\ c.op = kind /\ c.target = Self
        /\ c.left = calls[1].left
    BY <1>1, <1>2, <2>2 DEF CallType
  <2>4. PICK first \in CallType : first = Call("get", Self)
    BY <1>2 DEF Call, CallType
  <2>5. /\ first.op = "get" /\ first.target = Self
        /\ first.at = "start" /\ first.left = {}
    BY <2>4 DEF Call
  <2> DEFINE P == << first >>
  <2>6. P \in Seq(CallType) /\ Len(P) = 1 /\ \A i \in 1 .. 1 : P[i] = first
    OBVIOUS
  <2> HIDE DEF P
  <2>7. Pushed(1, P, c)
    <3>1. calls' = P \o << c >> \o Tail(calls)
      BY <2>1, <2>2, <2>4 DEF P
    <3> QED
      BY <3>1, <1>1, <2>3, <2>6, CallStep
  <2>8. Types'
    BY <1>1, <1>3, <2>1, <2>7 DEF IInv, Types, Pushed, inputs
  <2>9. FlagsAreTrue'
    <3>1. \A hook \in Hooks, t \in Targets : InHookOnStack(hook, t) => InHookOnStack(hook, t)'
      BY <1>1, <1>2, <1>6, <2>3, <2>7, HooksOnPush
    <3> QED
      BY <1>1, <1>3, <3>1, FlagsStay DEF IInv
  <2>10. Established(c)'
    <3>1. c.left = {}
      BY <1>1, <1>2, <1>6, <2>3 DEF Established
    <3> QED
      BY <1>3, <1>6, <2>1, <2>3, <3>1 DEF Established, Hooks, Kinds
  <2>a. PICK prepare \in Stages : prepare = <<"prepare", Self>>
    BY <1>2 DEF Stages
  <2>b. /\ Stage(first) = prepare /\ Stage(c) = Stage(calls[1])
        /\ kind = "BUILD" => Stage(c) = <<"BUILD", Self>>
    BY <1>1, <1>2, <2>a, <2>3, <2>5 DEF Stage
  <2>c. ASSUME NEW w \in Waiting
        PROVE  /\ MayWaitFor(w, first)
               /\ w.at = "setup" => Stage(first) # Stage(w)
    <3>1. w \in CallType /\ MayWaitFor(w, calls[1])
      BY <1>2
    <3>2. first.op \in Preparing /\ first.op # "target"
      BY <2>5 DEF Preparing
    <3>3. CASE kind # "BUILD"
      <4>1. w.at \in {"start", "built"}
        BY <1>1, <1>2, <1>6, <3>1, <3>3 DEF MayWaitFor
      <4> QED
        BY <3>2, <4>1 DEF MayWaitFor
    <3>4. CASE kind = "BUILD"
      <4>1. Stage(w) \in Stages
        BY <3>1, StagesOfCalls
      <4>2. ASSUME Stage(c) \in Below(Stage(w))
            PROVE  prepare \in Below(Stage(w)) /\ Stage(first) # Stage(w)
        <5>1. PICK u \in Stages : u = <<"BUILD", Self>>
          BY <1>2 DEF Stages
        <5>2. u \in Below(Stage(w)) /\ u[1] = "BUILD" /\ u[2] = Self
          BY <2>b, <3>4, <4>2, <5>1
        <5>3. <<"prepare", u[2]>> \in Below(Stage(w))
          BY <4>1, <5>2, Chains
        <5>4. prepare \in Below(Stage(w))
          BY <2>a, <5>2, <5>3
        <5> QED
          BY <2>b, <4>1, <5>4, NeverBelowItself
      <4>3. w.at = "setup" => Stage(c) \in Below(Stage(w))
        <5>1. ASSUME w.at = "setup", Own(w, calls[1]) PROVE FALSE
          <6>1. w.op = "get"
            BY <1>2, <5>1 DEF Established, CallType, Kinds
          <6>2. Stage(w) = <<"prepare", w.target>>
            BY <3>1, <6>1, StagesOfCalls
          <6> QED
            BY <2>b, <3>4, <5>1, <6>2 DEF Own
        <5> QED
          BY <2>b, <3>1, <5>1 DEF MayWaitFor
      <4> QED
        BY <2>b, <3>1, <3>2, <4>2, <4>3 DEF MayWaitFor
    <3> QED
      BY <3>3, <3>4
  <2>d. MayWaitFor(c, first)
    <3>1. kind = "BUILD" => Stage(first) \in Below(Stage(c))
      <4> SUFFICES ASSUME kind = "BUILD" PROVE Stage(first) \in Below(Stage(c))
        OBVIOUS
      <4>1. PICK u \in Stages : u = <<"BUILD", Self>>
        BY <1>2 DEF Stages
      <4>2. <<"prepare", u[2]>> \in Below(u)
        BY <4>1, Chains
      <4> QED
        BY <2>a, <2>b, <4>1, <4>2
    <3> QED
      BY <2>3, <2>5, <3>1 DEF MayWaitFor, Preparing
  <2>11. MayWaitFor(c, first) /\ \A w \in Waiting : MayWaitFor(w, first)
    BY <2>c, <2>d
  <2>12. \A i \in 1 .. 1 : /\ P[i].op \in Preparing /\ P[i].op \notin Kinds
                           /\ P[i].at = "start" /\ P[i].left = {}
                           /\ MayWaitFor(c, P[i])
                           /\ \A w \in Waiting : MayWaitFor(w, P[i])
    BY <2>5, <2>6, <2>11 DEF Preparing, Kinds
  <2>13. P[1].op = "get" /\ P[1].target = c.target
    BY <2>3, <2>5, <2>6
  <2>14. c.at \notin Hooks /\ c.at # "setup"
    BY <2>3 DEF Hooks, Kinds
  <2>15. \A i \in 1 .. 1, w \in Waiting :
           w.at = "setup" => Stage(P[i]) # Stage(w)
    BY <2>6, <2>c
  <2> QED
    BY <1>1, <1>2, <1>3, <1>4, <1>5, <1>6, <2>3, <2>7, <2>8, <2>9, <2>10, <2>12,
       <2>13, <2>14, <2>15, PushHolds
<1> QED
  BY <1>7, <1>8

LEMMA BeginHolds ==
  ASSUME IInv, NEW kind \in Kinds, Begin(kind)
  PROVE  IInv'
<1>1. /\ calls # <<>> /\ Head(calls).op = kind /\ Head(calls).at = "ready"
      /\ started' = [started EXCEPT ![kind][Self] = @ + 1]
      /\ Continue(kind, Wants(kind, Self))
      /\ UNCHANGED <<inputs, flags, returned, outcome>>
  BY DEF Begin, Current
<1>2. /\ calls[1] = Head(calls) /\ Self = calls[1].target /\ Self \in Targets
      /\ Self \in setupLate /\ Established(calls[1])
      /\ \A w \in Waiting : w \in CallType /\ Established(w)
  BY <1>1, CurrentCall
<1>3. /\ project' = project /\ depsChecked' = depsChecked /\ done' = done
      /\ setupCalled' = setupCalled /\ setupLate' = setupLate
      /\ returned' = returned /\ outcome' = outcome
  BY <1>1 DEF flags
<1>4. kind \in Hooks /\ "ready" \notin Hooks /\ kind \notin Preparing
      /\ kind \notin {"checked", "ready", "start", "late", "check", "setup"}
  BY DEF Hooks, Kinds, Preparing
<1>5. PICK left \in SUBSET Pairs : left = Wants(kind, Self)
  BY <1>2, <1>4, WantsArePairs
<1>6. PICK c \in CallType : /\ Pushed(0, <<>>, c)
                            /\ c.op = calls[1].op /\ c.target = calls[1].target
                            /\ c.at = kind /\ c.left = left
  <2>1. Continue(kind, left)
    BY <1>1, <1>5
  <2>2. kind \in {"start", "checked", "late", "ready", "built"} \cup Hooks
    BY <1>4
  <2> QED
    BY <1>1, <2>1, <2>2, ContinueStep
<1>7. started[kind][Self] = 0
  <2>1. Self \notin done[kind]
    BY <1>1, <1>2 DEF Established
  <2>2. ~InHookOnStack(kind, Self)
    BY <1>1, <1>2, <1>4, NoneDeeper
  <2>3. started[kind][Self] \in Nat
    BY <1>2 DEF IInv, Types
  <2>4. FlagsOf(Self)
    BY <1>2 DEF IInv, FlagsAreTrue
  <2>5. started[kind][Self] > 0 => Self \in done[kind] \/ InHookOnStack(kind, Self)
    BY <2>4 DEF FlagsOf
  <2> QED
    BY <2>1, <2>2, <2>3, <2>5
<1>8. /\ started' \in [Kinds -> [Targets -> Nat]]
      /\ started'[kind][Self] = 1
      /\ \A k \in Kinds, t \in Targets :
           k # kind \/ t # Self => started'[k][t] = started[k][t]
  <2>1. started \in [Kinds -> [Targets -> Nat]]
    BY DEF IInv, Types
  <2> QED
    BY <1>1, <1>2, <1>7, <2>1
<1>9. Types'
  BY <1>1, <1>3, <1>6, <1>8 DEF IInv, Types, Pushed, inputs
<1>10. FlagsAreTrue'
  <2>1. \A hook \in Hooks, t \in Targets :
          /\ InHookOnStack(hook, t) => InHookOnStack(hook, t)'
          /\ hook = kind /\ t = Self => InHookOnStack(hook, t)'
    BY <1>1, <1>2, <1>4, <1>6, HooksOnPush
  <2>2. \A t \in Targets : <<"check", t>> \in returned => t \in depsChecked
    BY DEF IInv, FlagsAreTrue, FlagsOf
  <2>3. <<"setup", Self>> \in returned
    <3>1. Self \in setupCalled
      BY <1>2 DEF IInv, Types
    <3>2. ~InHookOnStack("setup", Self)
      BY <1>1, <1>2, <1>4, NoneDeeper
    <3> QED
      BY <1>2, <3>1, <3>2 DEF IInv, FlagsAreTrue, FlagsOf
  <2>4. ASSUME NEW t \in Targets, NEW k \in Kinds
        PROVE  \/ started'[k][t] = started[k][t]
               \/ /\ started'[k][t] <= 1 /\ t \in setupLate'
                  /\ <<"setup", t>> \in returned' /\ InHookOnStack(k, t)'
    <3>1. CASE k = kind /\ t = Self
      BY <1>2, <1>3, <1>4, <1>8, <2>1, <2>3, <3>1
    <3>2. CASE k # kind \/ t # Self
      BY <1>8, <3>2
    <3> QED
      BY <3>1, <3>2
  <2>5. "check" \in Hooks /\ "setup" \in Hooks /\ \A k \in Kinds : k \in Hooks
    BY DEF Hooks
  <2> QED
    BY <1>3, <2>1, <2>2, <2>4, <2>5, FlagsOnStep DEF IInv
<1>11. Established(c)'
  <2>1. c.target \in setupLate' /\ c.left \subseteq Wants(c.at, c.target)
    BY <1>2, <1>3, <1>5, <1>6
  <2> QED
    BY <1>1, <1>2, <1>4, <1>6, <2>1 DEF Established
<1>12. \A w \in Waiting : NotOvertaken(w)
  BY <1>2, <1>3 DEF Established, NotOvertaken
<1>13. NothingUndone
  BY <1>3 DEF NothingUndone
<1>14. c.at # "checked" /\ c.at # "ready" /\ calls[1].op \notin Preparing
  BY <1>1, <1>2, <1>4, <1>6
<1>15. depsChecked \subseteq depsChecked' /\ setupCalled \subseteq setupCalled'
       /\ done["BUILD"] \subseteq done'["BUILD"]
  BY <1>3
<1>16. UNCHANGED inputs /\ calls # <<>>
  BY <1>1
<1>17. ASSUME NEW w \in Waiting, w.at = "setup", Own(w, calls[1]) PROVE FALSE
  <2>1. w.target = Self
    BY <1>2, <1>17 DEF Own, Stage
  <2> QED
    BY <1>1, <1>2, <1>4, <1>17, <2>1, NoneDeeper
<1>18. c.at # "setup"
  BY <1>4, <1>6
<1> QED
  BY <1>6, <1>9, <1>10, <1>11, <1>12, <1>13, <1>14, <1>15, <1>16, <1>17, <1>18, PushHolds

(* What build_target() calls.                                              *)
StagesOf(t) ==
  << Call("get", t) >> \o LoopIf("BUILD", << t >>) \o LoopIf("TEST", << t >>)

AreStagesOf(P, t) ==
  /\ P \in Seq(CallType) /\ Len(P) \in Nat /\ Len(P) >= 1
  /\ P[1].op = "get"
  /\ \A i \in 1 .. Len(P) : /\ P[i].op \in {"get", "BUILD", "TEST"}
                            /\ P[i].target = t
                            /\ P[i].at = "start" /\ P[i].left = {}

LEMMA CallsOfBuildTarget ==
  ASSUME NEW t \in Targets
  PROVE  AreStagesOf(StagesOf(t), t)
<1>p. PICK P : P = StagesOf(t)
  OBVIOUS
<1>1. \A kind \in {"BUILD", "TEST"} :
        Loop(kind, << t >>) = << Call(kind, t) >>
  <2>1. \A x : DOMAIN << t >> = {1} /\ << t >>[1] = t /\ DOMAIN << x >> = {1} /\ << x >>[1] = x
    OBVIOUS
  <2> QED
    BY <2>1 DEF Loop
<1>2. PICK E \in SUBSET CallType :
        E = { c \in CallType : /\ c.op \in {"get", "BUILD", "TEST"} /\ c.target = t
                               /\ c.at = "start" /\ c.left = {} }
  OBVIOUS
<1>3. /\ Call("get", t) \in E /\ Call("get", t).op = "get"
      /\ \A kind \in {"BUILD", "TEST"} : Call(kind, t) \in E
  BY <1>2 DEF Call, CallType, Kinds
<1>4. PICK get \in E : get = Call("get", t) /\ get.op = "get"
  BY <1>3
<1>5. ASSUME NEW kind \in {"BUILD", "TEST"} PROVE LoopIf(kind, << t >>) \in Seq(E)
  <2>1. PICK c \in E : c = Call(kind, t)
    BY <1>3
  <2>2. << c >> \in Seq(E) /\ <<>> \in Seq(E)
    OBVIOUS
  <2> QED
    BY <1>1, <2>1, <2>2 DEF LoopIf
<1>6. PICK b \in Seq(E), e \in Seq(E) :
        b = LoopIf("BUILD", << t >>) /\ e = LoopIf("TEST", << t >>)
  BY <1>5
<1>7. << get >> \in Seq(E) /\ Len(<< get >>) = 1 /\ << get >>[1] = get
  OBVIOUS
<1>a. PICK Q : Q = << get >> \o b
  OBVIOUS
<1>8. Q \in Seq(E) /\ Len(Q) >= 1 /\ Q[1] = get
  <2>1. /\ << get >> \o b \in Seq(E) /\ Len(<< get >> \o b) = 1 + Len(b)
        /\ (<< get >> \o b)[1] = get
    BY <1>7, ConcatProperties, LenProperties
  <2>2. Len(b) \in Nat
    BY LenProperties
  <2> QED
    BY <1>a, <2>1, <2>2
<1>9. P = Q \o e
  BY <1>p, <1>4, <1>6, <1>a DEF StagesOf
<1>10. Len(Q) \in Nat /\ Len(e) \in Nat
  BY <1>8, LenProperties
<1>11. /\ P \in Seq(E) /\ Len(P) = Len(Q) + Len(e) /\ P[1] = Q[1]
  <2>1. /\ Q \o e \in Seq(E) /\ Len(Q \o e) = Len(Q) + Len(e)
        /\ \A i \in 1 .. Len(Q) + Len(e) :
             (Q \o e)[i] = IF i <= Len(Q) THEN Q[i] ELSE e[i - Len(Q)]
    BY <1>8, ConcatProperties
  <2>2. 1 \in 1 .. Len(Q) + Len(e) /\ 1 <= Len(Q)
    BY <1>8, <1>10
  <2> QED
    BY <1>9, <2>1, <2>2
<1>12. \A i \in 1 .. Len(P) : P[i] \in E
  BY <1>11, ElementOfSeq
<1>13. P \in Seq(CallType)
  <2>1. Len(P) \in Nat /\ P \in [1 .. Len(P) -> E]
    BY <1>11, LenProperties
  <2>2. P \in [1 .. Len(P) -> CallType]
    BY <2>1
  <2> QED
    BY <2>1, <2>2, SeqDef
<1>14. Len(P) \in Nat /\ Len(P) >= 1 /\ P[1].op = "get"
  BY <1>4, <1>8, <1>10, <1>11
<1>15. \A i \in 1 .. Len(P) : /\ P[i].op \in {"get", "BUILD", "TEST"}
                              /\ P[i].target = t
                              /\ P[i].at = "start" /\ P[i].left = {}
  BY <1>2, <1>12
<1> QED
  BY <1>p, <1>13, <1>14, <1>15 DEF AreStagesOf

LEMMA BuildTargetHolds ==
  ASSUME IInv, BuildTarget
  PROVE  IInv'
<1>1. /\ calls # <<>> /\ Head(calls).op = "target" /\ Head(calls).at = "start"
      /\ UNCHANGED <<inputs, flags, returned, started, outcome>>
  BY DEF BuildTarget, Current
<1>2. /\ calls[1] = Head(calls) /\ calls[1] \in CallType
      /\ Self = calls[1].target /\ Self \in Targets /\ Established(calls[1])
      /\ \A w \in Waiting : w \in CallType /\ Established(w) /\ MayWaitFor(w, calls[1])
  BY <1>1, CurrentCall
<1>3. /\ project' = project /\ depsChecked' = depsChecked /\ done' = done
      /\ setupCalled' = setupCalled /\ setupLate' = setupLate
      /\ returned' = returned /\ started' = started /\ frontEnd' = frontEnd
  BY <1>1 DEF flags, inputs
<1>4. PICK c : c = [Head(calls) EXCEPT !.at = "built"]
  OBVIOUS
<1>5. /\ c \in CallType /\ c.at = "built" /\ c.op = "target" /\ c.target = Self
      /\ c.left = calls[1].left
  BY <1>1, <1>2, <1>4 DEF CallType
<1>6. PICK P : P = StagesOf(Self)
  OBVIOUS
<1>7. /\ P \in Seq(CallType) /\ Len(P) \in Nat /\ Len(P) >= 1
      /\ P[1].op = "get"
      /\ \A i \in 1 .. Len(P) : /\ P[i].op \in {"get", "BUILD", "TEST"}
                                /\ P[i].target = Self
                                /\ P[i].at = "start" /\ P[i].left = {}
  <2>1. AreStagesOf(P, Self)
    BY <1>2, <1>6, CallsOfBuildTarget
  <2> QED
    BY <2>1 DEF AreStagesOf
<1>8. Pushed(Len(P), P, c)
  <2>1. calls' = P \o << c >> \o Tail(calls)
    BY <1>4, <1>6 DEF BuildTarget, StagesOf
  <2> QED
    BY <2>1, <1>1, <1>5, <1>7, CallStep
<1>9. Types'
  BY <1>1, <1>3, <1>8 DEF IInv, Types, Pushed, inputs
<1>a. "start" \notin Hooks /\ "built" \notin Hooks /\ "target" \notin Preparing \cup Kinds
  BY DEF Hooks, Kinds, Preparing
<1>10. FlagsAreTrue'
  <2>1. \A hook \in Hooks, t \in Targets : InHookOnStack(hook, t) => InHookOnStack(hook, t)'
    BY <1>1, <1>2, <1>5, <1>8, <1>a, HooksOnPush
  <2> QED
    BY <1>1, <1>3, <2>1, FlagsStay DEF IInv
<1>11. Established(c)'
  <2>1. frontEnd' = "jenkins" /\ c.left = {}
    BY <1>1, <1>2, <1>3, <1>5, <1>a DEF Established
  <2> QED
    BY <1>5, <1>a, <2>1 DEF Established, Kinds
<1>12. \A w \in Waiting : NotOvertaken(w)
  BY <1>2, <1>3 DEF Established, NotOvertaken
<1>13. NothingUndone
  BY <1>3 DEF NothingUndone
(* Only calls that have not begun wait for build_target().                 *)
<1>14. ASSUME NEW w \in Waiting PROVE w.at = "start"
  BY <1>1, <1>2, <1>a DEF MayWaitFor
<1>15. \A i \in 1 .. Len(P) :
         /\ P[i].op \in Preparing \cup Kinds
         /\ P[i].at = "start" /\ P[i].left = {}
         /\ MayWaitFor(c, P[i])
         /\ \A w \in Waiting : MayWaitFor(w, P[i])
         /\ P[i].op \in Kinds => c.at \in Hooks \/ c.op = "target"
  <2> SUFFICES ASSUME NEW i \in 1 .. Len(P)
               PROVE  /\ P[i].op \in Preparing \cup Kinds
                      /\ MayWaitFor(c, P[i])
                      /\ \A w \in Waiting : MayWaitFor(w, P[i])
    BY <1>5, <1>7
  <2>1. P[i].op \in {"get", "BUILD", "TEST"}
    BY <1>7
  <2>2. P[i].op \in Preparing \cup Kinds
    BY <2>1 DEF Preparing, Kinds
  <2>3. MayWaitFor(c, P[i])
    BY <1>5, <2>1 DEF MayWaitFor
  <2>4. \A w \in Waiting : MayWaitFor(w, P[i])
    BY <1>14 DEF MayWaitFor
  <2> QED
    BY <2>2, <2>3, <2>4
<1>16. \A i \in 1 .. Len(P) : P[i].op \in Kinds =>
         \E n \in 1 .. Len(P) : /\ n < i /\ P[n].op \in Preparing
                                /\ P[n].target = P[i].target
  <2> SUFFICES ASSUME NEW i \in 1 .. Len(P), P[i].op \in Kinds
               PROVE  \E n \in 1 .. Len(P) : /\ n < i /\ P[n].op \in Preparing
                                             /\ P[n].target = P[i].target
    OBVIOUS
  <2>1. i # 1
    BY <1>7 DEF Kinds
  <2>2. 1 \in 1 .. Len(P) /\ 1 < i
    BY <1>7, <2>1
  <2>3. P[1].op \in Preparing
    BY <1>7 DEF Preparing
  <2> QED
    BY <1>7, <2>2, <2>3
<1>17. c.at \notin Hooks /\ c.at # "setup" /\ c.at # "checked" /\ c.at # "ready"
       /\ calls[1].op \notin Preparing
  BY <1>1, <1>2, <1>5, <1>a
<1>18. \A w \in Waiting : w.at # "setup"
  BY <1>14
<1>19. UNCHANGED inputs /\ calls # <<>> /\ Len(P) \in Nat
  BY <1>1, <1>7
<1>20. /\ c.op = calls[1].op /\ c.target = calls[1].target
       /\ depsChecked \subseteq depsChecked' /\ setupCalled \subseteq setupCalled'
       /\ done["BUILD"] \subseteq done'["BUILD"]
  BY <1>1, <1>2, <1>3, <1>5
<1> QED
  BY <1>8, <1>9, <1>10, <1>11, <1>12, <1>13, <1>15, <1>16, <1>17, <1>18, <1>19, <1>20,
     PushHolds

LEMMA BuildTargetReturnsHolds ==
  ASSUME IInv, BuildTargetReturns
  PROVE  IInv'
<1>1. /\ calls # <<>> /\ Head(calls).op = "target" /\ Head(calls).at = "built"
      /\ Return /\ UNCHANGED <<inputs, flags, returned, started, outcome>>
  BY DEF BuildTargetReturns, Current
<1>2. /\ calls[1] = Head(calls)
      /\ \A w \in Waiting : Established(w)
  BY <1>1, CurrentCall
<1>3. /\ project' = project /\ depsChecked' = depsChecked /\ done' = done
      /\ setupCalled' = setupCalled /\ setupLate' = setupLate
      /\ returned' = returned /\ started' = started
  BY <1>1 DEF flags
<1>4. Popped
  BY <1>1, PopStep DEF IInv, Types
<1>5. Types'
  BY <1>1, <1>3, <1>4 DEF IInv, Types, Popped, inputs
<1>6. FlagsAreTrue'
  <2>1. \A hook \in Hooks, t \in Targets : InHookOnStack(hook, t) => InHookOnStack(hook, t)'
    <3>1. "built" \notin Hooks
      BY DEF Hooks, Kinds
    <3> QED
      BY <1>1, <1>2, <1>4, <3>1, HooksOnPop
  <2> QED
    BY <1>3, <2>1, FlagsStay DEF IInv
<1>7. \A w \in Waiting : NotOvertaken(w)
  BY <1>2, <1>3 DEF Established, NotOvertaken
<1>8. NothingUndone
  BY <1>3 DEF NothingUndone
<1>9. "target" \notin Preparing /\ "target" # "BUILD"
  BY DEF Preparing
<1> QED
  BY <1>1, <1>2, <1>3, <1>4, <1>5, <1>6, <1>7, <1>8, <1>9, PopHolds DEF Preparing

(* In a hook: it is the stage of the call under way, which waits at it for *)
(* what it asks for.                                                       *)
LEMMA HookUnderWay ==
  ASSUME IInv, NEW hook \in Hooks, InHook(hook)
  PROVE  /\ calls # <<>> /\ calls[1] = Head(calls) /\ calls[1] \in CallType
         /\ calls[1].at = hook /\ Self = calls[1].target /\ Self \in Targets
         /\ calls[1].op = IF hook = "setup" THEN "get" ELSE hook
         /\ Established(calls[1])
         /\ \A w \in Waiting : w \in CallType /\ Established(w) /\ MayWaitFor(w, calls[1])
BY CurrentCall DEF InHook, Current

LEMMA Unwinding ==
  ASSUME IInv, NEW hook \in Hooks, InHook(hook), NEW x \in Head(calls).left,
         NEW c, c = Answered(x), UNCHANGED <<inputs, flags, returned>>
  PROVE  /\ c \in CallType /\ c.at = hook
         /\ c.op = calls[1].op /\ c.target = calls[1].target
         /\ Established(c)'
         /\ x \in Wants(hook, Self)
<1>1. /\ calls[1] = Head(calls) /\ calls[1] \in CallType /\ calls[1].at = hook
      /\ Self = calls[1].target /\ Established(calls[1])
  BY HookUnderWay
<1>2. c = [calls[1] EXCEPT !.left = calls[1].left \ {x}]
  BY <1>1 DEF Answered
<1>3. /\ c \in CallType /\ c.at = hook
      /\ c.op = calls[1].op /\ c.target = calls[1].target
      /\ c.left = calls[1].left \ {x}
  BY <1>1, <1>2 DEF CallType
<1>4. x \in Wants(hook, Self) /\ c.left \subseteq Wants(c.at, c.target)
  BY <1>1, <1>3 DEF Established
<1>5. /\ depsChecked' = depsChecked /\ setupCalled' = setupCalled
      /\ setupLate' = setupLate /\ done' = done /\ returned' = returned
      /\ frontEnd' = frontEnd
  BY DEF inputs, flags
<1>6. Established(c)'
  BY <1>1, <1>3, <1>4, <1>5 DEF Established
<1> QED
  BY <1>3, <1>4, <1>6

(* What a hook asks for or offers is needed by all that wait for the hook. *)
LEMMA AskedInHook ==
  ASSUME IInv, NEW hook \in Hooks, InHook(hook), NEW t \in Targets,
         NEW a \in CallType, a.at = "start", a.target = t,
         a.op \in Preparing \cup {"BUILD"},
         \/ <<"instance", t>> \in Wants(hook, Self) /\ a.op = "get"
         \/ <<"tool", t>> \in Wants(hook, Self),
         NEW c \in CallType, c.at = hook, c.op = calls[1].op, c.target = Self
  PROVE  /\ MayWaitFor(c, a)
         /\ \A w \in Waiting : MayWaitFor(w, a) /\ (w.at = "setup" => Stage(a) # Stage(w))
         /\ hook = "setup" /\ <<"tool", t>> \in Wants(hook, Self) => Stage(a) # Stage(c)
<1>1. /\ calls[1] \in CallType /\ calls[1].at = hook
      /\ Self = calls[1].target /\ Self \in Targets
      /\ calls[1].op = IF hook = "setup" THEN "get" ELSE hook
      /\ \A w \in Waiting : w \in CallType /\ Established(w) /\ MayWaitFor(w, calls[1])
  BY HookUnderWay
<1>2. PICK s0 \in Stages : s0 = Stage(c) /\ s0 = Stage(calls[1])
  <2>1. Stage(c) = Stage(calls[1]) /\ Stage(c) \in Stages
    BY <1>1, StagesOfCalls DEF Stage
  <2> QED
    BY <2>1
<1>3. CASE hook \in {"TEST", "BENCHMARK"}
  <2>1. ASSUME NEW w \in Waiting PROVE w.at \in {"start", "built"}
    BY <1>1, <1>3 DEF MayWaitFor, Preparing
  <2>2. MayWaitFor(c, a)
    BY <1>1, <1>3 DEF MayWaitFor
  <2>3. ASSUME NEW w \in Waiting PROVE MayWaitFor(w, a) /\ w.at # "setup"
    <3>1. a.op # "target"
      BY DEF Preparing
    <3> QED
      BY <2>1, <3>1 DEF MayWaitFor
  <2> QED
    BY <1>3, <2>2, <2>3
<1>4. CASE hook \in {"check", "setup", "BUILD"}
  <2>1. /\ s0[2] = Self
        /\ hook = "BUILD" => s0[1] = "BUILD"
        /\ hook # "BUILD" => s0[1] = "prepare" /\ s0 = <<"prepare", Self>>
    BY <1>1, <1>2, <1>4 DEF Stage
  <2>2. Stage(a) \in {<<"prepare", t>>, <<"BUILD", t>>}
        /\ (a.op = "get" => Stage(a) = <<"prepare", t>>)
    BY DEF Stage
  <2>3. ASSUME NEW s \in Stages, s0 = s \/ s0 \in Below(s)
        PROVE  \/ Stage(a) \in Below(s)
               \/ /\ hook = "setup" /\ t = Self /\ AsksForItself(Self)
                  /\ Stage(a) = s0 /\ <<"tool", t>> \notin Wants(hook, Self)
    <3>1. /\ s0[1] = "BUILD" =>
               /\ \A x \in Asks["BUILD"][Self] : <<"prepare", x>> \in Below(s)
               /\ \A x \in Tools["BUILD"][Self] :
                    <<"prepare", x>> \in Below(s) /\ <<"BUILD", x>> \in Below(s)
          /\ s0[1] = "prepare" =>
               /\ \A x \in Asks["check"][Self] : <<"prepare", x>> \in Below(s)
               /\ \A x \in Asks["setup"][Self] : x # Self => <<"prepare", x>> \in Below(s)
               /\ \A x \in Tools["check"][Self] \cup Tools["setup"][Self] :
                    <<"prepare", x>> \in Below(s) /\ <<"BUILD", x>> \in Below(s)
      BY <2>1, <2>3, Chains
    <3>2. CASE <<"tool", t>> \in Wants(hook, Self)
      <4>1. t \in Tools[hook][Self]
        BY <3>2 DEF Wants
      <4>2. <<"prepare", t>> \in Below(s) /\ <<"BUILD", t>> \in Below(s)
        BY <1>4, <2>1, <3>1, <4>1
      <4> QED
        BY <2>2, <4>2
    <3>3. CASE <<"tool", t>> \notin Wants(hook, Self)
      <4>1. t \in Asks[hook][Self] /\ Stage(a) = <<"prepare", t>>
        BY <2>2, <3>3 DEF Wants
      <4>2. CASE hook = "setup" /\ t = Self
        BY <2>1, <3>3, <4>1, <4>2 DEF AsksForItself
      <4>3. CASE ~(hook = "setup" /\ t = Self)
        BY <1>4, <2>1, <3>1, <4>1, <4>3
      <4> QED
        BY <4>2, <4>3
    <3> QED
      BY <3>2, <3>3
  <2>4. MayWaitFor(c, a)
    <3>1. \/ Stage(a) \in Below(Stage(c))
          \/ hook = "setup" /\ AsksForItself(Self) /\ Stage(a) = Stage(c)
      BY <1>2, <2>3
    <3>2. "start" \notin Hooks
      BY DEF Hooks, Kinds
    <3>3. hook = "setup" /\ AsksForItself(Self) /\ Stage(a) = Stage(c) => Own(c, a)
      BY <3>2 DEF Own
    <3> QED
      BY <1>4, <3>1, <3>3 DEF MayWaitFor
  <2>5. ASSUME NEW w \in Waiting
        PROVE  MayWaitFor(w, a) /\ (w.at = "setup" => Stage(a) # Stage(w))
    <3>1. /\ w \in CallType /\ Stage(w) \in Stages
          /\ MayWaitFor(w, calls[1])
      BY <1>1, StagesOfCalls
    <3>2. ~Own(w, calls[1])
      BY <1>1 DEF Own
    <3>3. ASSUME s0 \in Below(Stage(w))
          PROVE  Stage(a) \in Below(Stage(w)) /\ Stage(a) # Stage(w)
      <4>1. Stage(a) \in Below(Stage(w))
        BY <3>1, <3>3, <2>3
      <4> QED
        BY <4>1, <3>1, NeverBelowItself
    <3>4. a.op # "target" /\ a.op \in Preparing \cup {"BUILD"}
      BY DEF Preparing
    <3> QED
      BY <1>2, <3>1, <3>2, <3>3, <3>4 DEF MayWaitFor
  <2>6. ASSUME hook = "setup", <<"tool", t>> \in Wants(hook, Self)
        PROVE  Stage(a) # Stage(c)
    <3>1. Stage(a) \in Below(s0)
      BY <2>3, <2>6
    <3> QED
      BY <1>2, <3>1, NeverBelowItself
  <2> QED
    BY <2>4, <2>5, <2>6
<1> QED
  BY <1>3, <1>4 DEF Hooks, Kinds

LEMMA TwoInFront ==
  ASSUME NEW S, NEW a \in S, NEW b \in S, NEW s \in Seq(S)
  PROVE  << a, b >> \o s = << a >> \o << b >> \o s
OBVIOUS

LEMMA GetInstanceHolds ==
  ASSUME IInv, NEW hook \in Hooks, NEW t \in Targets, GetInstance(hook, t)
  PROVE  IInv'
<1>1. /\ InHook(hook) /\ <<"instance", t>> \in Head(calls).left
      /\ calls' = << Call("get", t), Answered(<<"instance", t>>) >> \o Tail(calls)
      /\ UNCHANGED <<inputs, flags, returned, started, outcome>>
  BY DEF GetInstance
<1>2. /\ calls # <<>> /\ calls[1] = Head(calls) /\ calls[1].at = hook
      /\ Self = calls[1].target /\ Self \in Targets
      /\ calls[1].op = IF hook = "setup" THEN "get" ELSE hook
      /\ \A w \in Waiting : w \in CallType /\ Established(w) /\ MayWaitFor(w, calls[1])
  BY <1>1, HookUnderWay
<1>3. PICK x \in Head(calls).left : x = <<"instance", t>>
  BY <1>1
<1>4. PICK c : c = Answered(x)
  OBVIOUS
<1>5. /\ c \in CallType /\ c.at = hook
      /\ c.op = calls[1].op /\ c.target = calls[1].target
      /\ Established(c)'
      /\ x \in Wants(hook, Self)
  BY <1>1, <1>4, Unwinding
<1>7. PICK first \in CallType : first = Call("get", t)
  BY DEF Call, CallType
<1>8. /\ first.op = "get" /\ first.target = t
      /\ first.at = "start" /\ first.left = {}
  BY <1>7 DEF Call
<1> DEFINE P == << first >>
<1>9. P \in Seq(CallType) /\ Len(P) = 1 /\ (\A i \in 1 .. 1 : P[i] = first)
  OBVIOUS
<1>10. calls' = P \o << c >> \o Tail(calls)
  <2>1. Tail(calls) \in Seq(CallType)
    BY <1>2, HeadTailProperties DEF IInv, Types
  <2>2. calls' = << first, c >> \o Tail(calls)
    BY <1>1, <1>3, <1>4, <1>7
  <2> QED
    BY <1>5, <2>1, <2>2, TwoInFront
<1> HIDE DEF P
<1>11. Pushed(1, P, c)
  BY <1>2, <1>5, <1>9, <1>10, CallStep
<1>12. Types'
  BY <1>1, <1>11 DEF IInv, Types, Pushed, inputs, flags
<1>13. FlagsAreTrue'
  <2>1. \A h \in Hooks, u \in Targets : InHookOnStack(h, u) => InHookOnStack(h, u)'
    BY <1>2, <1>5, <1>11, HooksOnPush
  <2> QED
    BY <1>1, <2>1, FlagsStay DEF IInv, flags
<1>14. /\ MayWaitFor(c, first)
       /\ \A w \in Waiting : MayWaitFor(w, first) /\ (w.at = "setup" => Stage(first) # Stage(w))
  <2>1. first.op \in Preparing \cup {"BUILD"} /\ c.target = Self
    BY <1>2, <1>5, <1>8 DEF Preparing
  <2>2. <<"instance", t>> \in Wants(hook, Self)
    BY <1>3, <1>5
  <2> QED
    BY <1>1, <1>5, <1>8, <2>1, <2>2, AskedInHook
<1>15. /\ project' = project /\ depsChecked' = depsChecked /\ done' = done
       /\ setupCalled' = setupCalled /\ setupLate' = setupLate
       /\ returned' = returned /\ UNCHANGED inputs
  BY <1>1 DEF flags
<1>16. \A w \in Waiting : NotOvertaken(w)
  BY <1>2, <1>15 DEF Established, NotOvertaken
<1>17. NothingUndone
  BY <1>15 DEF NothingUndone
<1>18. \A i \in 1 .. 1 : /\ P[i].op \in Preparing /\ P[i].op \notin Kinds
                         /\ P[i].at = "start" /\ P[i].left = {}
                         /\ MayWaitFor(c, P[i])
                         /\ \A w \in Waiting : MayWaitFor(w, P[i])
  BY <1>8, <1>9, <1>14 DEF Preparing, Kinds
<1>19. c.at # "checked" /\ c.at # "ready" /\ calls[1].at # "start"
  BY <1>2, <1>5 DEF Hooks, Kinds
<1>20. \A w \in Waiting : ~Own(w, calls[1])
  BY <1>2 DEF Own
<1>21. \A i \in 1 .. 1, w \in Waiting : w.at = "setup" => Stage(P[i]) # Stage(w)
  BY <1>9, <1>14
<1> QED
  BY <1>2, <1>5, <1>11, <1>12, <1>13, <1>15, <1>16, <1>17, <1>18, <1>19, <1>20, <1>21,
     PushHolds

(* A step that only ends the process.                                      *)
LEMMA EndHolds ==
  ASSUME IInv, UNCHANGED <<inputs, calls, flags, returned, started>>,
         outcome' \in {"running", "done", "failed"}
  PROVE  IInv'
<1>1. /\ frontEnd' = frontEnd /\ action' = action /\ plan' = plan /\ calls' = calls
      /\ project' = project /\ depsChecked' = depsChecked /\ done' = done
      /\ setupCalled' = setupCalled /\ setupLate' = setupLate
      /\ returned' = returned /\ started' = started
  BY DEF inputs, flags
<1>2. Types'
  BY <1>1 DEF IInv, Types
<1>3. PlanIsOrdered' /\ Loops' = Loops
  BY Prepared
<1>4. NoHookReentered' /\ OwnCalls'
  BY <1>1 DEF IInv, NoHookReentered, OwnCalls
<1>5. CallsEstablished'
  BY <1>1 DEF IInv, CallsEstablished, Established
<1>6. CallsSeenTo'
  BY <1>1 DEF IInv, CallsSeenTo, SeenTo
<1>7. FlagsAreTrue'
  <2>1. \A hook \in Hooks, t \in Targets : InHookOnStack(hook, t) => InHookOnStack(hook, t)'
    BY <1>1 DEF InHookOnStack
  <2> QED
    BY <1>1, <2>1, FlagsStay DEF IInv
<1>8. InLoops'
  <2>1. \A m \in 1 .. Len(Loops) : AtCall(m)' <=> AtCall(m)
    BY <1>1, <1>3 DEF AtCall, Depth, Finished
  <2> QED
    BY <1>1, <1>3, <2>1 DEF IInv, InLoops
<1> QED
  BY <1>2, <1>3, <1>4, <1>5, <1>6, <1>7, <1>8 DEF IInv

LEMMA DependencyErrorHolds ==
  ASSUME IInv, NEW hook \in Hooks, NEW t \in Targets, DependencyError(hook, t)
  PROVE  IInv'
<1>1. /\ InHook(hook) /\ <<"tool", t>> \in Head(calls).left
      /\ UNCHANGED <<inputs, flags, returned, started>>
  BY DEF DependencyError
<1>2. CASE outcome' = "failed" /\ UNCHANGED calls
  BY <1>1, <1>2, EndHolds
<1>3. CASE /\ MayOffer(hook, t)
           /\ calls' = Installing(t) \o << Answered(<<"tool", t>>) >> \o Tail(calls)
           /\ UNCHANGED outcome
  <2>1. /\ calls # <<>> /\ calls[1] = Head(calls) /\ calls[1].at = hook
        /\ Self = calls[1].target /\ Self \in Targets
        /\ calls[1].op = IF hook = "setup" THEN "get" ELSE hook
        /\ Established(calls[1])
        /\ \A w \in Waiting : w \in CallType /\ Established(w) /\ MayWaitFor(w, calls[1])
    BY <1>1, HookUnderWay
  <2>3. PICK x \in Head(calls).left : x = <<"tool", t>>
    BY <1>1
  <2>4. PICK c : c = Answered(x)
    OBVIOUS
  <2>5. /\ c \in CallType /\ c.at = hook
        /\ c.op = calls[1].op /\ c.target = calls[1].target
        /\ Established(c)'
        /\ x \in Wants(hook, Self)
    BY <1>1, <2>4, Unwinding
  <2>7. PICK P : P = Installing(t)
    OBVIOUS
  <2>8. /\ P \in Seq(CallType) /\ Len(P) = 3
        /\ P[1] = Call("check", t) /\ P[2] = Call("get", t) /\ P[3] = Call("BUILD", t)
    <3>1. /\ Call("check", t) \in CallType /\ Call("get", t) \in CallType
          /\ Call("BUILD", t) \in CallType
      BY DEF Call, CallType, Kinds
    <3> QED
      BY <2>7, <3>1 DEF Installing
  <2>9. /\ P[1].op = "check" /\ P[2].op = "get" /\ P[3].op = "BUILD"
        /\ \A i \in 1 .. 3 : /\ P[i].target = t /\ P[i].at = "start" /\ P[i].left = {}
    <3>1. \A i \in 1 .. 3 : i = 1 \/ i = 2 \/ i = 3
      OBVIOUS
    <3> QED
      BY <2>8, <3>1 DEF Call
  <2>10. Pushed(3, P, c)
    <3>1. calls' = P \o << c >> \o Tail(calls)
      BY <1>3, <2>3, <2>4, <2>7
    <3> QED
      BY <2>1, <2>5, <2>8, <3>1, CallStep
  <2>11. Types'
    BY <1>1, <1>3, <2>10 DEF IInv, Types, Pushed, inputs, flags
  <2>12. FlagsAreTrue'
    <3>1. \A h \in Hooks, u \in Targets : InHookOnStack(h, u) => InHookOnStack(h, u)'
      BY <2>1, <2>5, <2>10, HooksOnPush
    <3> QED
      BY <1>1, <3>1, FlagsStay DEF IInv, flags
  <2>13. ASSUME NEW i \in 1 .. 3
         PROVE  /\ P[i].op \in Preparing \cup {"BUILD"}
                /\ MayWaitFor(c, P[i])
                /\ \A w \in Waiting :
                     MayWaitFor(w, P[i]) /\ (w.at = "setup" => Stage(P[i]) # Stage(w))
                /\ hook = "setup" => Stage(P[i]) # Stage(c)
    <3>1. P[i].op \in Preparing \cup {"BUILD"}
      <4>1. i = 1 \/ i = 2 \/ i = 3
        OBVIOUS
      <4> QED
        BY <2>9, <4>1 DEF Preparing
    <3>2. PICK a \in CallType : a = P[i]
      BY <2>8, ElementOfSeq
    <3>3. a.target = t /\ a.at = "start" /\ a.op \in Preparing \cup {"BUILD"}
      BY <2>9, <3>1, <3>2
    <3>4. <<"tool", t>> \in Wants(hook, Self) /\ c.target = Self
      BY <2>1, <2>3, <2>5
    <3>5. /\ MayWaitFor(c, a)
          /\ \A w \in Waiting : MayWaitFor(w, a) /\ (w.at = "setup" => Stage(a) # Stage(w))
          /\ hook = "setup" => Stage(a) # Stage(c)
      BY <1>1, <2>5, <3>3, <3>4, AskedInHook
    <3> QED
      BY <3>1, <3>2, <3>5
  <2>14. \A i \in 1 .. 3 : /\ P[i].op \in Preparing \cup Kinds
                           /\ P[i].at = "start" /\ P[i].left = {}
                           /\ MayWaitFor(c, P[i])
                           /\ \A w \in Waiting : MayWaitFor(w, P[i])
                           /\ P[i].op \in Kinds => c.at \in Hooks
    <3> SUFFICES ASSUME NEW i \in 1 .. 3
                 PROVE  /\ P[i].op \in Preparing \cup Kinds
                        /\ P[i].at = "start" /\ P[i].left = {}
                        /\ MayWaitFor(c, P[i])
                        /\ \A w \in Waiting : MayWaitFor(w, P[i])
                        /\ P[i].op \in Kinds => c.at \in Hooks
      OBVIOUS
    <3>1. P[i].target = t /\ P[i].at = "start" /\ P[i].left = {}
      BY <2>9
    <3>2. P[i].op \in Preparing \cup Kinds
      BY <2>13 DEF Kinds
    <3> QED
      BY <2>5, <2>13, <3>1, <3>2
  <2>15. \A i \in 1 .. 3 : P[i].op \in Kinds =>
           \E n \in 1 .. 3 : n < i /\ P[n].op \in Preparing /\ P[n].target = P[i].target
    <3> SUFFICES ASSUME NEW i \in 1 .. 3, P[i].op \in Kinds
                 PROVE  \E n \in 1 .. 3 : /\ n < i /\ P[n].op \in Preparing
                                          /\ P[n].target = P[i].target
      OBVIOUS
    <3>1. i # 1
      BY <2>9 DEF Kinds
    <3>2. 1 \in 1 .. 3 /\ 1 < i
      BY <3>1
    <3> QED
      BY <2>9, <3>2 DEF Preparing
  <2>16. /\ project' = project /\ depsChecked' = depsChecked /\ done' = done
         /\ setupCalled' = setupCalled /\ setupLate' = setupLate
         /\ returned' = returned /\ UNCHANGED inputs
    BY <1>1 DEF flags
  <2>17. \A w \in Waiting : NotOvertaken(w)
    BY <2>1, <2>16 DEF Established, NotOvertaken
  <2>18. NothingUndone
    BY <2>16 DEF NothingUndone
  <2>19. c.at # "checked" /\ c.at # "ready"
    BY <2>5 DEF Hooks, Kinds
  <2>20. \A w \in Waiting : ~Own(w, calls[1])
    BY <2>1 DEF Own
  <2>21. /\ \A i \in 1 .. 3, w \in Waiting : w.at = "setup" => Stage(P[i]) # Stage(w)
         /\ c.at = "setup" => \A i \in 1 .. 3 : Stage(P[i]) # Stage(c)
    BY <2>5, <2>13
  <2>22. calls[1].at # "start"
    BY <2>1 DEF Hooks, Kinds
  <2> QED
    BY <2>1, <2>5, <2>10, <2>11, <2>12, <2>14, <2>15, <2>16, <2>17, <2>18,
       <2>19, <2>20, <2>21, <2>22, PushHolds
<1> QED
  BY <1>2, <1>3 DEF DependencyError

LEMMA HookFailsHolds ==
  ASSUME IInv, NEW hook \in Hooks, HookFails(hook)
  PROVE  IInv'
BY EndHolds DEF HookFails

LEMMA HookReturnsHolds ==
  ASSUME IInv, NEW hook \in Hooks, HookReturns(hook)
  PROVE  IInv'
<1>1. /\ InHook(hook)
      /\ returned' = returned \cup {<<hook, Self>>}
      /\ IF hook = "setup" THEN Continue("late", {}) ELSE Return
      /\ done' = IF hook \in Kinds THEN [done EXCEPT ![hook] = @ \cup {Self}]
                 ELSE done
      /\ UNCHANGED <<inputs, project, depsChecked, setupCalled, setupLate, started,
                     outcome>>
  BY DEF HookReturns
<1>2. /\ calls # <<>> /\ calls[1] = Head(calls) /\ calls[1].at = hook
      /\ Self = calls[1].target /\ Self \in Targets
      /\ calls[1].op = IF hook = "setup" THEN "get" ELSE hook
      /\ Established(calls[1])
      /\ \A w \in Waiting : w \in CallType /\ Established(w) /\ MayWaitFor(w, calls[1])
  BY <1>1, HookUnderWay
<1>3. /\ hook \in Kinds => Self \in setupLate
      /\ hook = "check" => Self \in depsChecked
      /\ hook = "setup" => Self \in setupCalled
  BY <1>2 DEF Established
<1>4. /\ done' \in [Kinds -> SUBSET setupLate']
      /\ \A k \in Kinds : done[k] \subseteq done'[k]
      /\ hook \in Kinds => Self \in done'[hook]
      /\ \A k \in Kinds, t \in Targets :
           t \in done'[k] => t \in done[k] \/ (k = hook /\ t = Self)
  <2>1. done \in [Kinds -> SUBSET setupLate]
    BY DEF IInv, Types
  <2>2. CASE hook \in Kinds
    <3>1. done' = [done EXCEPT ![hook] = @ \cup {Self}] /\ setupLate' = setupLate
      BY <1>1, <2>2
    <3> QED
      BY <2>1, <2>2, <3>1, <1>3
  <2>3. CASE hook \notin Kinds
    <3>1. done' = done /\ setupLate' = setupLate
      BY <1>1, <2>3
    <3> QED
      BY <2>1, <2>3, <3>1
  <2> QED
    BY <2>2, <2>3
<1>5. \A w \in Waiting : NotOvertaken(w)
  <2> SUFFICES ASSUME NEW w \in Waiting PROVE NotOvertaken(w)
    OBVIOUS
  <2>1. /\ w.at = "check" => w.target \notin setupCalled'
        /\ w.at = "setup" /\ w.target \in setupLate' => AsksForItself(w.target)
    BY <1>1, <1>2 DEF Established
  <2>2. ASSUME w.at = "ready" PROVE w.target \notin done'[w.op]
    <3>1. w.target \notin done[w.op] /\ w.op \in Kinds /\ w.target \in Targets
      BY <1>2, <2>2 DEF Established, CallType, Kinds
    <3>2. ~(w.op = hook /\ w.target = Self)
      <4> SUFFICES ASSUME w.op = hook, w.target = Self PROVE FALSE
        OBVIOUS
      <4>1. calls[1].op = w.op
        BY <1>2, <3>1 DEF Kinds
      <4> QED
        BY <1>2, <2>2, <3>1, <4>1, NoneDeeper
    <3> QED
      BY <1>4, <3>1, <3>2
  <2> QED
    BY <2>1, <2>2 DEF NotOvertaken
<1>6. NothingUndone /\ depsChecked \subseteq depsChecked' /\ setupCalled \subseteq setupCalled'
      /\ done["BUILD"] \subseteq done'["BUILD"] /\ UNCHANGED inputs
  BY <1>1, <1>4 DEF NothingUndone, Kinds
<1>7. /\ returned' \subseteq Hooks \X Targets
      /\ \A t \in Targets : /\ <<"check", t>> \in returned' => t \in depsChecked'
                            /\ <<"check", t>> \in returned => <<"check", t>> \in returned'
                            /\ <<"setup", t>> \in returned => <<"setup", t>> \in returned'
  BY <1>1, <1>2, <1>3 DEF IInv, Types, FlagsAreTrue, FlagsOf
(* What is needed of the stack for the flags.                              *)
<1>8. ASSUME \A h \in Hooks, t \in Targets :
               InHookOnStack(h, t) => InHookOnStack(h, t)' \/ (h = hook /\ t = Self)
      PROVE  FlagsAreTrue'
  <2>1. "check" \in Hooks /\ "setup" \in Hooks /\ \A k \in Kinds : k \in Hooks
    BY DEF Hooks
  <2>2. /\ depsChecked' = depsChecked /\ setupCalled' = setupCalled
        /\ setupLate' = setupLate /\ started' = started /\ returned \subseteq returned'
    BY <1>1
  <2>3. ASSUME NEW t \in Targets
        PROVE  /\ InHookOnStack("check", t) =>
                    InHookOnStack("check", t)' \/ <<"check", t>> \in returned'
               /\ InHookOnStack("setup", t) =>
                    InHookOnStack("setup", t)' \/ <<"setup", t>> \in returned'
    BY <1>1, <1>8, <2>1
  <2>4. ASSUME NEW t \in Targets, NEW k \in Kinds
        PROVE  InHookOnStack(k, t) => InHookOnStack(k, t)' \/ t \in done'[k]
    BY <1>4, <1>8, <2>1
  <2> QED
    BY <1>4, <1>7, <2>2, <2>3, <2>4, FlagsOnStep DEF IInv
<1>9. CASE hook = "setup"
  <2>1. Continue("late", {}) /\ calls[1].op = "get"
    BY <1>1, <1>2, <1>9
  <2>2. PICK c \in CallType : /\ Pushed(0, <<>>, c)
                              /\ c.op = calls[1].op /\ c.target = calls[1].target
                              /\ c.at = "late" /\ c.left = {}
    <3>1. PICK none \in SUBSET Pairs : none = {}
      OBVIOUS
    <3>2. PICK at \in {"start", "checked", "late", "ready", "built"} \cup Hooks :
            at = "late"
      OBVIOUS
    <3>3. Continue(at, none)
      BY <2>1, <3>1, <3>2
    <3> QED
      BY <1>2, <3>1, <3>2, <3>3, ContinueStep
  <2>3. Types'
    BY <1>1, <1>4, <1>7, <2>2 DEF IInv, Types, Pushed, inputs
  <2>4. FlagsAreTrue'
    <3>1. ASSUME NEW h \in Hooks, NEW t \in Targets, InHookOnStack(h, t)
          PROVE  InHookOnStack(h, t)' \/ (h = hook /\ t = Self)
      <4>1. CASE h # hook
        BY <1>2, <2>2, <3>1, <4>1, HooksOnPush
      <4>2. CASE h = hook
        <5>1. CASE t # Self
          <6>1. PICK j \in 1 .. Len(calls) : calls[j].at = h /\ calls[j].target = t
            BY <3>1 DEF InHookOnStack
          <6>2. j # 1
            BY <1>2, <5>1, <6>1
          <6>3. /\ j \in 2 .. Len(calls) /\ 0 + j \in 1 .. Len(calls') /\ 0 + j = j
            BY <6>2, <2>2 DEF Pushed
          <6>4. calls'[j] = calls[j]
            BY <6>3, <2>2 DEF Pushed
          <6> QED
            BY <6>1, <6>3, <6>4 DEF InHookOnStack
        <5> QED
          BY <5>1, <4>2
      <4> QED
        BY <4>1, <4>2
    <3> QED
      BY <3>1, <1>8
  <2>5. Established(c)'
    <3>1. c.target \in setupCalled' /\ <<"setup", c.target>> \in returned'
      BY <1>1, <1>2, <1>3, <1>9, <2>2
    <3> QED
      BY <2>1, <2>2, <3>1 DEF Established, Hooks, Kinds
  <2>6. calls[1].at # "start" /\ c.at \notin Hooks
    BY <1>2, <1>9, <2>2 DEF Hooks, Kinds
  <2> QED
    BY <1>2, <1>5, <1>6, <2>2, <2>3, <2>4, <2>5, <2>6, PushHolds
<1>10. CASE hook # "setup"
  <2>1. Return /\ calls[1].op = hook /\ hook \in {"check"} \cup Kinds
    BY <1>1, <1>2, <1>10 DEF Hooks
  <2>2. Popped
    BY <1>2, <2>1, PopStep DEF IInv, Types
  <2>3. Types'
    BY <1>1, <1>4, <1>7, <2>2 DEF IInv, Types, Popped, inputs
  <2>4. FlagsAreTrue'
    <3>1. \A h \in Hooks, t \in Targets :
            InHookOnStack(h, t) => InHookOnStack(h, t)' \/ (h = hook /\ t = Self)
      BY <1>2, <2>2, HooksOnPop
    <3> QED
      BY <3>1, <1>8
  <2>5. /\ calls[1].op = "check" => <<"check", Self>> \in returned'
        /\ calls[1].op # "get"
        /\ calls[1].op \in Preparing => Self \in project'
        /\ calls[1].op = "BUILD" => Self \in done'["BUILD"]
    <3>1. hook = "check" => Self \in project'
      BY <1>1, <1>3 DEF IInv, Types
    <3>2. hook # "get" /\ (hook \in Preparing => hook = "check")
          /\ (hook = "BUILD" => hook \in Kinds)
      BY <2>1 DEF Preparing, Kinds
    <3>3. hook = "check" => <<"check", Self>> \in returned'
      BY <1>1
    <3> QED
      BY <1>4, <2>1, <3>1, <3>2, <3>3
  <2> QED
    BY <1>2, <1>5, <1>6, <2>2, <2>3, <2>4, <2>5, PopHolds
<1> QED
  BY <1>9, <1>10

LEMMA FinishHolds ==
  ASSUME IInv, Finish
  PROVE  IInv'
BY EndHolds DEF Finish

LEMMA StutterHolds ==
  ASSUME IInv, UNCHANGED vars
  PROVE  IInv'
<1>1. UNCHANGED <<inputs, calls, flags, returned, started>> /\ outcome' = outcome
  BY DEF vars
<1> QED
  BY <1>1, EndHolds DEF IInv, Types

LEMMA InitHolds ==
  ASSUME Init
  PROVE  IInv
<1>1. /\ action \subseteq Kinds /\ frontEnd \in {"cheribuild", "jenkins"}
      /\ calls = MainCalls \/ calls = JenkinsCalls
      /\ frontEnd = "cheribuild" => calls = Loops
      /\ project = {} /\ depsChecked = {} /\ setupCalled = {} /\ setupLate = {}
      /\ done = [k \in Kinds |-> {}] /\ returned = {}
      /\ started = [k \in Kinds |-> [t \in Targets |-> 0]]
      /\ outcome = "running"
  BY DEF Init, Loops
<1>2. plan \in Seq(Targets) /\ PlanIsOrdered
  <2>1. CASE frontEnd = "cheribuild" /\ plan \in Plans
    <3>1. /\ plan \in Seq(Targets)
          /\ \A i, j \in DOMAIN plan : plan[i] \in Deps[plan[j]] \/ plan[i] = plan[j] => i <= j
      BY <2>1, RunAssumption
    <3>2. DOMAIN plan = 1 .. Len(plan) /\ Len(plan) \in Nat
      BY <3>1, LenProperties
    <3>3. ASSUME NEW a \in 1 .. Len(plan), NEW b \in 1 .. Len(plan),
                 plan[a] \in Deps[plan[b]], plan[a] # plan[b]
          PROVE  a < b
      <4>1. a <= b /\ a # b
        BY <3>1, <3>2, <3>3
      <4> QED
        BY <4>1
    <3> QED
      BY <3>1, <3>3 DEF PlanIsOrdered
  <2>2. CASE frontEnd = "jenkins" /\ plan \in Lists
    BY <2>2, RunAssumption DEF PlanIsOrdered
  <2> QED
    BY <2>1, <2>2 DEF Init
<1>3. /\ calls \in Seq(CallType) /\ Len(calls) \in Nat
      /\ \A n \in 1 .. Len(calls) :
           /\ calls[n].op = "target" => frontEnd = "jenkins"
           /\ calls[n].at = "start" /\ calls[n].left = {}
           /\ calls[n].op \in Kinds =>
                \E i \in 1 .. Len(calls) :
                  i < n /\ calls[i].op = "check" /\ calls[i].target = calls[n].target
  <2>1. /\ calls \in Seq(CallType)
        /\ \A n \in 1 .. Len(calls) :
             /\ calls[n].at = "start" /\ calls[n].left = {}
             /\ calls[n].op \in Kinds =>
                  \E i \in 1 .. Len(calls) :
                    i < n /\ calls[i].op = "check" /\ calls[i].target = calls[n].target
    BY <1>1, <1>2, FirstCalls
  <2>2. ASSUME NEW n \in 1 .. Len(calls), calls[n].op = "target", frontEnd = "cheribuild"
        PROVE  FALSE
    <3>1. calls = Loops
      BY <1>1, <2>2
    <3> QED
      BY <1>2, <2>2, <3>1, LoopsAreInOrder DEF LoopsInOrder
  <2> QED
    BY <1>1, <2>1, <2>2, LenProperties
<1>4. "start" \notin Hooks /\ "start" \notin Kinds
  BY DEF Hooks, Kinds
<1>5. Types
  BY <1>1, <1>2, <1>3 DEF Types
<1>6. NoHookReentered /\ OwnCalls
  <2>1. NoHookReentered
    BY <1>3, <1>4 DEF NoHookReentered, MayWaitFor
  <2>2. OwnCalls
    BY <1>3 DEF OwnCalls
  <2> QED
    BY <2>1, <2>2
<1>7. CallsEstablished
  <2> SUFFICES ASSUME NEW n \in 1 .. Len(calls) PROVE Established(calls[n])
    BY DEF CallsEstablished
  <2>1. /\ calls[n].at = "start" /\ calls[n].left = {}
        /\ calls[n].op = "target" => frontEnd = "jenkins"
    BY <1>3
  <2> QED
    BY <2>1, <1>4 DEF Established
<1>8. CallsSeenTo
  <2> SUFFICES ASSUME NEW n \in 1 .. Len(calls) PROVE SeenTo(n)
    BY DEF CallsSeenTo
  <2>1. ASSUME calls[n].op \in Kinds
        PROVE  \E i \in 1 .. Len(calls) :
                  /\ i < n /\ calls[i].op \in Preparing
                  /\ calls[i].at = "start" /\ calls[i].target = calls[n].target
    <3>1. PICK i \in 1 .. Len(calls) :
            i < n /\ calls[i].op = "check" /\ calls[i].target = calls[n].target
      BY <1>3, <2>1
    <3> QED
      BY <3>1, <1>3 DEF Preparing
  <2>2. calls[n].at # "checked" /\ calls[n].at # "ready"
    BY <1>3
  <2> QED
    BY <2>1, <2>2 DEF SeenTo
<1>9. FlagsAreTrue
  BY <1>1 DEF FlagsAreTrue, FlagsOf
<1>10. InLoops
  <2> SUFFICES ASSUME frontEnd = "cheribuild"
               PROVE  calls = <<>> \/ \E m \in 1 .. Len(Loops) : AtCall(m)
    BY DEF InLoops
  <2>0. calls = Loops
    BY <1>1
  <2>1. CASE Len(calls) = 0
    BY <2>1, <1>3, EmptySeq
  <2>2. CASE Len(calls) > 0
    <3>1. 1 \in 1 .. Len(Loops) /\ \A n \in 1 .. Len(Loops) : Depth(n) = n
      BY <2>0, <1>3, <2>2 DEF Depth
    <3>2. 1 .. 1 - 1 = {}
      OBVIOUS
    <3>3. AtCall(1)
      BY <2>0, <3>1, <3>2 DEF AtCall
    <3> QED
      BY <3>1, <3>3
  <2> QED
    BY <2>1, <2>2, <1>3
<1> QED
  BY <1>2, <1>5, <1>6, <1>7, <1>8, <1>9, <1>10 DEF IInv

LEMMA StepHolds ==
  ASSUME IInv, [Next]_vars
  PROVE  IInv'
<1>1. CASE Next
  <2>1. ASSUME NEW kind \in Kinds, DoRun(kind) \/ Begin(kind) PROVE IInv'
    BY <2>1, DoRunHolds, BeginHolds
  <2>2. ASSUME NEW hook \in Hooks, NEW t \in Targets,
               GetInstance(hook, t) \/ DependencyError(hook, t)
        PROVE  IInv'
    BY <2>2, GetInstanceHolds, DependencyErrorHolds
  <2>3. ASSUME NEW hook \in Hooks, HookFails(hook) \/ HookReturns(hook) PROVE IInv'
    BY <2>3, HookFailsHolds, HookReturnsHolds
  <2> QED
    BY <1>1, <2>1, <2>2, <2>3, CheckSystemDepsHolds, GetOrCreateProjectHolds,
       SetupHolds, SetupLateHolds, BuildTargetHolds, BuildTargetReturnsHolds, FinishHolds
       DEF Next
<1>2. CASE UNCHANGED vars
  BY <1>2, StutterHolds
<1> QED
  BY <1>1, <1>2

-----------------------------------------------------------------------------
(* IInv holds in every state, whatever the projects ask for and offer.     *)
THEOREM Invariance == Spec => []IInv
<1>1. Init => IInv
  BY InitHolds
<1>2. IInv /\ [Next]_vars => IInv'
  BY StepHolds
<1> QED
  BY <1>1, <1>2, PTL DEF Spec

(* The flags of a target are set in the order of its life, and the stack   *)
(* has nothing but the calls that real_main(), build_target() and the      *)
(* methods of Target make.                                                 *)
THEOREM TypeCorrect == Spec => []TypeOK
<1>1. IInv => TypeOK
  BY DEF IInv, Types, TypeOK, CallType
<1> QED
  BY <1>1, Invariance, PTL

(* process(), run_tests() and run_benchmarks() of a target are entered at  *)
(* most once, however many others have offered to build it.                *)
THEOREM RunsOnce == Spec => []EachRunsOnce
<1>1. IInv => EachRunsOnce
  <2>1. ASSUME IInv, NEW k \in Kinds, NEW t \in Targets PROVE started[k][t] <= 1
    BY <2>1 DEF IInv, FlagsAreTrue, FlagsOf
  <2> QED
    BY <2>1 DEF EachRunsOnce
<1> QED
  BY <1>1, Invariance, PTL

(* When setup() of a target is called, its system check has returned; when *)
(* one of its kinds is run, its setup() has returned and setup_late() was  *)
(* called; and no assertion of Target fails.                               *)
THEOREM StagesAreInOrder == Spec => []StagesInOrder
<1>1. IInv => StagesInOrder
  <2>1. ASSUME IInv PROVE outcome # "assertion" /\ setupCalled \subseteq Targets
    BY <2>1 DEF IInv, Types
  <2>2. ASSUME IInv, NEW t \in Targets, t \in setupCalled
        PROVE  <<"check", t>> \in returned
    BY <2>2 DEF IInv, FlagsAreTrue, FlagsOf
  <2>3. ASSUME IInv, NEW k \in Kinds, NEW t \in Targets, started[k][t] > 0
        PROVE  t \in setupLate /\ <<"setup", t>> \in returned
    BY <2>3 DEF IInv, FlagsAreTrue, FlagsOf
  <2> QED
    BY <2>1, <2>2, <2>3 DEF StagesInOrder
<1> QED
  BY <1>1, Invariance, PTL

(* No method of a project is entered again while it runs; and a project    *)
(* that is handed out in the middle of its setup() goes to a call for that *)
(* project itself.                                                         *)
THEOREM SetupsAreWhole == Spec => []SetupIsWhole
<1>1. ASSUME IInv, NEW i \in 1 .. Len(calls), NEW j \in 1 .. Len(calls), i < j,
             calls[i].at \in Hooks, calls[i].at = calls[j].at,
             calls[i].target = calls[j].target
      PROVE  FALSE
  <2>1. calls[i] \in CallType /\ calls[j] \in CallType
    BY <1>1, ElementOfSeq DEF IInv, Types
  <2>2. Established(calls[i]) /\ Established(calls[j]) /\ MayWaitFor(calls[j], calls[i])
    BY <1>1 DEF IInv, CallsEstablished, NoHookReentered
  <2>3. calls[i].op = calls[j].op
        /\ calls[i].op = IF calls[i].at = "setup" THEN "get" ELSE calls[i].at
    BY <1>1, <2>1, <2>2 DEF Established, CallType, Hooks, Kinds
  <2>4. Stage(calls[i]) = Stage(calls[j])
    BY <1>1, <2>3 DEF Stage
  <2>5. calls[i].op \in Preparing \cup {"BUILD"}
    BY <1>1, <2>2 DEF MayWaitFor, Hooks, Kinds
  <2>6. calls[j].at = "check" \/ calls[j].at = "BUILD" \/ calls[j].at = "setup"
    BY <1>1, <2>3, <2>5 DEF Hooks, Kinds, Preparing
  <2>7. Stage(calls[i]) \in Below(Stage(calls[j]))
    BY <1>1, <2>2, <2>3, <2>6 DEF MayWaitFor, Own
  <2> QED
    BY <2>1, <2>4, <2>7, StagesOfCalls, NeverBelowItself
<1>2. ASSUME IInv, Current("get", "late"), <<"setup", Self>> \notin returned
      PROVE  Len(calls) > 1 /\ calls[2].target = Self
  <2>1. /\ calls # <<>> /\ calls[1] = Head(calls) /\ calls[1] \in CallType
        /\ Self = calls[1].target /\ Self \in Targets
        /\ Established(calls[1])
        /\ calls[1].op = "get" /\ calls[1].at = "late"
    BY <1>2, CurrentCall DEF Current
  <2>2. Self \in setupCalled
    BY <2>1 DEF Established
  <2>3. PICK j \in 1 .. Len(calls) : calls[j].at = "setup" /\ calls[j].target = Self
    BY <1>2, <2>1, <2>2 DEF IInv, FlagsAreTrue, FlagsOf, InHookOnStack
  <2>4. j # 1 /\ Len(calls) \in Nat
    BY <1>2, <2>1, <2>3, LenProperties DEF IInv, Types
  <2>5. calls[j] \in CallType /\ Established(calls[j])
    BY <1>2, ElementOfSeq DEF IInv, Types, CallsEstablished
  <2>6. calls[j].op = "get"
    BY <2>3, <2>5 DEF Established, CallType, Kinds
  <2>7. Stage(calls[1]) = Stage(calls[j])
    BY <2>1, <2>3, <2>6 DEF Stage
  <2>8. CASE j = 2
    BY <2>3, <2>4, <2>8
  <2>9. CASE j # 2
    <3>1. 1 \in 1 .. Len(calls) /\ 1 < j /\ 2 \in 1 + 1 .. j - 1 /\ Len(calls) > 1
      BY <2>4, <2>9
    <3>2. calls[2].target = calls[j].target
      BY <1>2, <2>3, <2>7, <3>1 DEF IInv, OwnCalls
    <3> QED
      BY <2>3, <3>1, <3>2
  <2> QED
    BY <2>8, <2>9
<1>3. IInv => SetupIsWhole
  <2> SUFFICES ASSUME IInv PROVE SetupIsWhole
    OBVIOUS
  <2>1. DOMAIN calls = 1 .. Len(calls) /\ Len(calls) \in Nat
    BY LenProperties DEF IInv, Types
  <2>2. ASSUME NEW i \in 1 .. Len(calls), NEW j \in 1 .. Len(calls), i # j,
               calls[i].at \in Hooks, calls[i].at = calls[j].at,
               calls[i].target = calls[j].target
        PROVE  FALSE
    <3>1. i < j \/ j < i
      BY <2>1, <2>2
    <3> QED
      BY <1>1, <2>2, <3>1
  <2> QED
    BY <1>2, <2>1, <2>2 DEF SetupIsWhole
<1> QED
  BY <1>3, Invariance, PTL

(* When the loop over execute() builds a target, all the other targets of  *)
(* the plan that it depends on have been built.                            *)
THEOREM DependenciesAreBuilt == Spec => []ProcessAfterDependencies
<1>1. IInv => ProcessAfterDependencies
  <2> SUFFICES ASSUME IInv, frontEnd = "cheribuild", Running("BUILD"), ~Nested
               PROVE  (Deps[Self] \cap Planned) \ {Self} \subseteq done["BUILD"]
    BY DEF ProcessAfterDependencies
  <2>1. calls # <<>> /\ Head(calls).op = "BUILD"
    BY DEF Running, Current
  <2>2. calls[1] = Head(calls) /\ Self = calls[1].target
    BY <2>1, CurrentCall
  <2>3. PICK m \in 1 .. Len(Loops) : AtCall(m)
    BY <2>1 DEF IInv, InLoops
  <2>4. LoopsInOrder(Loops) /\ Len(Loops) \in Nat /\ Len(calls) \in Nat
    BY LoopsAreInOrder, LenProperties DEF IInv, Types, LoopsInOrder
  <2>5. Depth(m) = 1
    <3> SUFFICES ASSUME Depth(m) # 1 PROVE FALSE
      OBVIOUS
    <3>1. 1 \in 1 .. Depth(m) - 1 /\ Depth(m) <= Len(calls)
      <4>1. Depth(m) > 0
        BY <2>3 DEF AtCall
      <4> QED
        BY <4>1, <2>4 DEF Depth
    <3>2. PICK j \in 1 + 1 .. Depth(m) : calls[j].at \in Hooks
      BY <2>1, <2>2, <2>3, <3>1 DEF AtCall
    <3>3. j \in 2 .. Len(calls)
      BY <2>4, <3>1 DEF Depth
    <3> QED
      BY <3>2, <3>3 DEF Nested
  <2>6. Loops[m].op = "BUILD" /\ Loops[m].target = Self
    BY <2>1, <2>2, <2>3, <2>5 DEF AtCall
  <2>7. PICK b \in 1 .. Len(plan) :
          Self = plan[b] /\ \A a \in 1 .. b - 1 : Builds(Loops, m, plan[a])
    BY <2>4, <2>6 DEF LoopsInOrder
  <2>8. ASSUME NEW t \in (Deps[Self] \cap Planned) \ {Self} PROVE t \in done["BUILD"]
    <3>1. DOMAIN plan = 1 .. Len(plan) /\ Len(plan) \in Nat
      BY LenProperties DEF IInv, Types
    <3>2. PICK a \in 1 .. Len(plan) : t = plan[a]
      BY <3>1 DEF Planned, Elements
    <3>3. a < b
      BY <2>7, <2>8, <3>2 DEF IInv, PlanIsOrdered
    <3>4. a \in 1 .. b - 1
      BY <3>1, <3>3
    <3>5. PICK i \in 1 .. Len(Loops) :
            i < m /\ Loops[i].op = "BUILD" /\ Loops[i].target = t
      BY <2>7, <3>2, <3>4 DEF Builds
    <3>6. i \in 1 .. m - 1
      BY <2>4, <3>5
    <3> QED
      BY <2>3, <3>5, <3>6 DEF AtCall, Finished
  <2> QED
    BY <2>8
<1> QED
  BY <1>1, Invariance, PTL
=============================================================================
