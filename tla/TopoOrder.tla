------------------------------ MODULE TopoOrder ------------------------------
(***************************************************************************)
(* What sorting the chosen targets promises, without queues or counters:   *)
(* targets are placed one by one, each only after every chosen target it   *)
(* depends on, and among the targets that may be placed the one with the   *)
(* smallest sorting key goes first.  The order is therefore a function of  *)
(* the chosen set and of the dependencies alone.                           *)
(***************************************************************************)
EXTENDS Naturals, Sequences

CONSTANTS
  Target,    (* the targets there are                     *)
  Rank       (* the sorting key of a target               *)

VARIABLES
  members,   (* the targets to be ordered                 *)
  needs,     (* for every target the targets it needs     *)
  order      (* the targets placed so far                 *)

vars == <<members, needs, order>>

Placed == { order[i] : i \in DOMAIN order }

Available ==
  { t \in members \ Placed : needs[t] \cap members \subseteq Placed }

Init ==
  /\ members = {}
  /\ needs = [t \in Target |-> {}]
  /\ order = <<>>

(* What is to be ordered is decided before anything is placed.             *)
Decide ==
  /\ order = <<>>
  /\ members' \in SUBSET Target
  /\ needs' \in [Target -> SUBSET Target]
  /\ UNCHANGED order

Place(t) ==
  /\ t \in Available
  /\ \A u \in Available : Rank[t] <= Rank[u]
  /\ order' = Append(order, t)
  /\ UNCHANGED <<members, needs>>

Next == Decide \/ \E t \in Target : Place(t)

Spec == Init /\ [][Next]_vars
=============================================================================
