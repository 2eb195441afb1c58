---------------------------- MODULE Traditional ----------------------------
(***************************************************************************)
(* The traditional checker (traditional.rs): the Buchi automaton is       *)
(* encoded in binary as an FSM (BuchiAutomata::to_fsmbdd), composed with   *)
(* the system (FsmBdd::product), and the answer is whether a fair cycle   *)
(* (Emerson-Lei, fair_cycle_with_constrain) meets the reachable states.   *)
(*                                                                         *)
(* The checker is a pure function of the system; its loops are RECURSIVE *)
(* operators.  The model runs it once on a system picked from Systems,    *)
(* so that TLC checks it on every system of the family.                    *)
(***************************************************************************)
EXTENDS Naturals, FiniteSets, SequencesExt

CONSTANTS
  States, Invariants, FsmInit, NumAut, Edges, AutInit, Accepting,
  Fairness,            \* the FAIRNESS constraints of the SMV model, in order
  Systems              \* the transition relations the checker is run on

ASSUME NumAut >= 1

PG(T) == INSTANCE ProductGraph WITH TransRel <- T

VARIABLES
  trans,       \* the system's TRANS
  generalize,  \* the --ga flag (args.generalize_automata)
  checked,  \* traditional::check has returned
  verdict   \* its Boolean result

vars == <<trans, generalize, checked, verdict>>

(* to_fsmbdd: usize::BITS - (num_state - 1).leading_zeros(), the bit     *)
(* length of num_state - 1.                                               *)
RECURSIVE BitLength(_)
BitLength(x) == IF x = 0 THEN 0 ELSE 1 + BitLength(x \div 2)

(* Variant that takes the bit length of num_state itself, minus one. *)
NumEncodeVarShort == BitLength(NumAut) - 1

NumEncodeVar == BitLength(NumAut - 1)

(* automata_state_encode: encode variable b holds bit b of the id. *)
Encode(id) == [b \in 0 .. NumEncodeVar - 1 |-> (id \div 2 ^ b) % 2 = 1]

Codes == [0 .. NumEncodeVar - 1 -> BOOLEAN]

(* The automaton as an FSM: init and fair are the codes of the initial   *)
(* and accepting states; trans holds state(q) & label & next(q') for     *)
(* every edge q -> q', as <<code, system state, next code>>.             *)
AutFsmTrans ==
  UNION { { <<Encode(e[1]), s, Encode(e[2])>> : s \in e[3] } : e \in ToSet(Edges) }

(* FsmBdd::product: init and invariants conjoined (the automaton's       *)
(* invariants are true), transition relations conjoined, justice of the  *)
(* system followed by that of the automaton.                             *)
Node == States \X Codes

ProductInit == FsmInit \X { Encode(i) : i \in AutInit }

InvarNodes == { n \in Node : n[1] \in Invariants }

Step(T, x, y) == <<x[1], y[1]>> \in T /\ <<x[2], x[1], y[2]>> \in AutFsmTrans

(* Variant of the product's justice that leaves out the system's.       *)
JusticeNoFairness == << States \X { Encode(a) : a \in Accepting } >>

Justice ==
  LET sys == IF generalize THEN Fairness ELSE <<>>
  IN  Append([k \in DOMAIN sys |-> sys[k] \X Codes],
             States \X { Encode(a) : a \in Accepting })

(* FsmBdd::post_image and pre_image on the product. *)
PostImg(T, X) ==
  { y \in InvarNodes : \E x \in X \cap InvarNodes : Step(T, x, y) }
PreImg(T, Y) ==
  { x \in InvarNodes : \E y \in Y \cap InvarNodes : Step(T, x, y) }

(* The loop of reachable_with_constrain. *)
RECURSIVE ReachLoop(_, _, _, _, _)
ReachLoop(T, frontier, reach, forward, constrain) ==
  LET next == IF forward THEN PostImg(T, frontier) ELSE PreImg(T, frontier)
      newFrontier == (next \cap constrain) \ reach
  IN  IF newFrontier = {} THEN reach
      ELSE ReachLoop(T, newFrontier, reach \cup newFrontier, forward, constrain)

ReachableWithConstrain(T, state, forward, containFrom, constrain) ==
  LET frontier == state \cap constrain \cap InvarNodes
  IN  ReachLoop(T, frontier, IF containFrom THEN frontier ELSE {}, forward,
                constrain)

ReachableFromInit(T) == ReachableWithConstrain(T, ProductInit, TRUE, TRUE, Node)

(* Variant of the fair-cycle loop whose backward searches count a fair    *)
(* state as reaching itself (contain_from set).                           *)
RECURSIVE FairLoopContainFrom(_, _, _)
FairLoopContainFrom(T, constrain, res) ==
  LET backward(k) ==
        ReachableWithConstrain(T, Justice[k] \cap res, FALSE, TRUE, constrain)
      new == { n \in res : \A k \in DOMAIN Justice : n \in backward(k) }
  IN  IF new = res THEN res ELSE FairLoopContainFrom(T, constrain, new)

(* The loop of fair_cycle_with_constrain: keep the states of res that    *)
(* reach, in one or more steps within constrain, the states of res in    *)
(* every justice set, until nothing changes.                              *)
RECURSIVE FairLoop(_, _, _)
FairLoop(T, constrain, res) ==
  LET backward(k) ==
        ReachableWithConstrain(T, Justice[k] \cap res, FALSE, FALSE, constrain)
      new == { n \in res : \A k \in DOMAIN Justice : n \in backward(k) }
  IN  IF new = res THEN res ELSE FairLoop(T, constrain, new)

FairCycleWithConstrain(T, constrain) == FairLoop(T, constrain, constrain)

(* traditional::check: true iff no fair-cycle state is reachable. *)
TraditionalCheck(T) ==
  LET forward == ReachableFromInit(T)
  IN  FairCycleWithConstrain(T, forward) \cap forward = {}

Init ==
  /\ trans \in Systems
  /\ generalize \in BOOLEAN
  /\ checked = FALSE
  /\ verdict = FALSE

Check ==
  /\ ~checked
  /\ verdict' = TraditionalCheck(trans)
  /\ checked' = TRUE
  /\ UNCHANGED <<trans, generalize>>

Done ==
  /\ checked
  /\ UNCHANGED vars

Next == Check \/ Done

Spec == Init /\ [][Next]_vars /\ WF_vars(Check)

-----------------------------------------------------------------------------
(* Reference: a reachable accepting node of the product of system and    *)
(* automaton lies on a cycle that also meets every FAIRNESS set the      *)
(* checker takes as justice.                                              *)
HasJusticeCycle(T) ==
  LET Plus(n) == PG(T)!PlusFrom({n}, PG(T)!Unconstrained)
      sys == IF generalize THEN Fairness ELSE <<>>
  IN  \E n \in PG(T)!AsNodes(PG(T)!PostReachRef(PG(T)!InitReach)) :
        /\ n[2] \in Accepting
        /\ n \in Plus(n)
        /\ \A k \in DOMAIN sys :
             \E m \in Plus(n) : m[1] \in sys[k] /\ n \in Plus(m)

(* What the property-driven engines compute (FairStates), as a function: *)
(* the fair-states loop from reach on the accepting states.               *)
RECURSIVE FairStatesLoop(_, _, _)
FairStatesLoop(T, R, F) ==
  LET next == PG(T)!PreReachRef(F, R)
  IN  IF next = F THEN F ELSE FairStatesLoop(T, R, next)

PropertyDrivenCheck(T) ==
  LET R == PG(T)!PostReachRef(PG(T)!InitReach)
      F == FairStatesLoop(T, R, [i \in 0 .. NumAut - 1 |->
                                   IF i \in Accepting THEN R[i] ELSE {}])
  IN  \A a \in Accepting : R[a] \cap F[a] = {}

(* traditional::check answers true iff the product has no reachable fair *)
(* cycle, on every system of the family, through the binary encoding of *)
(* the automaton and the Emerson-Lei loop.                                *)
TraditionalCorrect ==
  checked => (verdict <=> ~HasJusticeCycle(trans))

(* Without --ga, the traditional checker and PPSMC::check (fairness      *)
(* folded into the formula) give the same answer on every system of the  *)
(* family.                                                                 *)
AgreesWithPropertyDriven ==
  checked /\ ~generalize => (verdict <=> PropertyDrivenCheck(trans))

=============================================================================
