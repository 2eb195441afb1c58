---------------------------- MODULE AutomataSplit ----------------------------
(***************************************************************************)
(* BuchiAutomata::partition (automata.rs) and its use in                  *)
(* property_driven::check: for every --ev variable k, in order, every    *)
(* automaton state i gets a copy i + n; every edge i -> j labelled l      *)
(* becomes four, into j under l & !v and into j + n under l & v, from i   *)
(* and from i + n, where v is the present-state variable k (BDD variable *)
(* 2k).  Initial and accepting states are copied.  Then PPSMC::check      *)
(* runs on the split automaton.                                           *)
(*                                                                         *)
(* The automaton is a record of the BuchiAutomata fields the engines      *)
(* read; its edges are a sequence in add_edge order, from which forward[] *)
(* and backward[] are the selections of ProductGraph.                     *)
(***************************************************************************)
EXTENDS Naturals, FiniteSets, SequencesExt

CONSTANTS
  States, Invariants, FsmInit,
  NumAut, Edges, AutInit, Accepting,   \* the parsed automaton
  VarNames,   \* the SMV variables in declaration order: symbol k is VarNames[k + 1]
  EvLists,    \* the --ev argument lists
  Systems     \* the transition relations the checker is run on

PG(T, n, E, I, A) ==
  INSTANCE ProductGraph
    WITH TransRel <- T, NumAut <- n, Edges <- E, AutInit <- I, Accepting <- A

VARIABLES
  trans,    \* the system's TRANS
  ba,       \* the automaton: [num, edges, init, acc]
  ev,       \* the --ev variables not split on yet
  checked,  \* PPSMC::check has returned
  verdict   \* its result

vars == <<trans, ba, ev, checked, verdict>>

Parsed == [num |-> NumAut, edges |-> Edges, init |-> AutInit, acc |-> Accepting]

(* forward[i] of an automaton: its edges out of i, in add_edge order. *)
Out(a, i) == SelectSeq(a.edges, LAMBDA e : e[1] = i)

(* The four edges partition adds for edge e out of i. *)
SplitEdge(e, n, v) ==
  LET lo == { s \in e[3] : ~s[v] }
      hi == { s \in e[3] : s[v] }
  IN  << <<e[1], e[2], lo>>, <<e[1] + n, e[2], lo>>,
         <<e[1], e[2] + n, hi>>, <<e[1] + n, e[2] + n, hi>> >>

(* Variant of NumStateOf for an extend_to that loops while len < to. *)
NumStateOfShort(E) ==
  LET idx == { E[k][1] : k \in DOMAIN E } \cup { E[k][2] : k \in DOMAIN E }
  IN  CHOOSE m \in idx : \A j \in idx : j <= m

(* num_state after the edges are re-added: extend_to reaches the largest *)
(* index an edge names.                                                   *)
NumStateOf(E) ==
  LET idx == { E[k][1] : k \in DOMAIN E } \cup { E[k][2] : k \in DOMAIN E }
  IN  1 + CHOOSE m \in idx : \A j \in idx : j <= m

(* Variant of partition that does not copy the accepting states. *)
PartitionNoAcceptCopy(a, k) ==
  LET n == a.num
      v == VarNames[k + 1]
      E == FlattenSeq([i \in 1 .. n |->
             FlattenSeq([m \in DOMAIN Out(a, i - 1) |-> SplitEdge(Out(a, i - 1)[m], n, v)])])
  IN  [num |-> NumStateOf(E), edges |-> E,
       init |-> a.init \cup { s + n : s \in a.init }, acc |-> a.acc]

(* BuchiAutomata::partition(k). *)
Partition(a, k) ==
  LET n == a.num
      v == VarNames[k + 1]
      E == FlattenSeq([i \in 1 .. n |->
             FlattenSeq([m \in DOMAIN Out(a, i - 1) |-> SplitEdge(Out(a, i - 1)[m], n, v)])])
  IN  [num |-> NumStateOf(E), edges |-> E,
       init |-> a.init \cup { s + n : s \in a.init },
       acc |-> a.acc \cup { s + n : s \in a.acc }]

(* What PPSMC::check computes (FairStates), as a function of the system  *)
(* and the automaton: reach[] from the seeds, then the fair-states loop.  *)
RECURSIVE FairLoop(_, _, _, _)
FairLoop(T, a, R, F) ==
  LET next == PG(T, a.num, a.edges, a.init, a.acc)!PreReachRef(F, R)
  IN  IF next = F THEN F ELSE FairLoop(T, a, R, next)

CheckVerdict(T, a) ==
  LET R == PG(T, a.num, a.edges, a.init, a.acc)!PostReachRef(
             PG(T, a.num, a.edges, a.init, a.acc)!InitReach)
      F == FairLoop(T, a, R, [i \in 0 .. a.num - 1 |->
                               IF i \in a.acc THEN R[i] ELSE {}])
  IN  \A i \in a.acc : R[i] \cap F[i] = {}

Init ==
  /\ trans \in Systems
  /\ ba = Parsed
  /\ ev \in EvLists
  /\ checked = FALSE
  /\ verdict = FALSE

(* for var in args.ltl_extend_vars: ba = ba.partition(var) *)
Split ==
  /\ ev # << >>
  /\ ba' = Partition(ba, Head(ev))
  /\ ev' = Tail(ev)
  /\ UNCHANGED <<trans, checked, verdict>>

(* PPSMC::new and PPSMC::check on the split automaton. *)
Check ==
  /\ ev = << >>
  /\ ~checked
  /\ verdict' = CheckVerdict(trans, ba)
  /\ checked' = TRUE
  /\ UNCHANGED <<trans, ba, ev>>

Done ==
  /\ checked
  /\ UNCHANGED vars

Next == Split \/ Check \/ Done

Spec == Init /\ [][Next]_vars /\ WF_vars(Split \/ Check)

-----------------------------------------------------------------------------
TypeOK ==
  /\ ba.edges \in Seq((0 .. ba.num - 1) \X (0 .. ba.num - 1) \X SUBSET States)
  /\ ba.init \subseteq 0 .. ba.num - 1 /\ ba.acc \subseteq 0 .. ba.num - 1
  /\ ev \in Seq(0 .. Len(VarNames) - 1)
  /\ checked \in BOOLEAN /\ verdict \in BOOLEAN

(* check() answers the same on the split automaton as the reference      *)
(* semantics on the parsed one: the split preserves the language (P7).   *)
SplitPreservesVerdict ==
  checked =>
    (verdict <=> ~PG(trans, NumAut, Edges, AutInit, Accepting)!HasFairCycle)

=============================================================================
