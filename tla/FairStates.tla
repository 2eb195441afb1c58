----------------------------- MODULE FairStates -----------------------------
(***************************************************************************)
(* What PPSMC::check promises, whichever engine computes it: one forward  *)
(* search from the initial product nodes, then the fair-states loop       *)
(* (fair.rs): start from the reachable accepting nodes and keep, in each  *)
(* round, only those that reach one of them again within the reachable    *)
(* nodes, until a round changes nothing; the property holds iff no        *)
(* reachable accepting node is left.                                      *)
(*                                                                         *)
(* A search is one atomic step here; MessageReach and BarrierReach        *)
(* compute each of them with many concurrent steps and are shown to      *)
(* implement this module.                                                 *)
(***************************************************************************)
EXTENDS ProductGraph

VARIABLES
  phase,    \* "init", "fair" or "done"
  R,        \* reach[] of the forward search
  F,        \* fair_states
  verdict   \* the Boolean check() returns

vars == <<phase, R, F, verdict>>

(* fair_states[a] starts as reach[a] on every accepting state a. *)
FairInit(reach) == [i \in AutStates |-> IF i \in Accepting THEN reach[i] ELSE {}]

(* One backward search of the loop: the states of F that reach F again   *)
(* within R.                                                              *)
Round == PreReachRef(F, R)

Init ==
  /\ phase = "init"
  /\ R = [i \in AutStates |-> {}]
  /\ F = [i \in AutStates |-> {}]
  /\ verdict = FALSE

Forward ==
  /\ phase = "init"
  /\ R' = PostReachRef(InitReach)
  /\ F' = FairInit(R')
  /\ phase' = "fair"
  /\ UNCHANGED verdict

Shrink ==
  /\ phase = "fair"
  /\ Round # F
  /\ F' = Round
  /\ UNCHANGED <<phase, R, verdict>>

Decide ==
  /\ phase = "fair"
  /\ Round = F
  /\ verdict' = \A a \in Accepting : R[a] \cap F[a] = {}
  /\ phase' = "done"
  /\ UNCHANGED <<R, F>>

Next == Forward \/ Shrink \/ Decide

Spec == Init /\ [][Next]_vars /\ WF_vars(Next)

=============================================================================
