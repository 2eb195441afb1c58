---------------------------- MODULE ProductGraph ----------------------------
(***************************************************************************)
(* The data every fixpoint engine of ppsmc works on: the symbolic FSM      *)
(* (FsmBdd) and the explicit-state Buchi automaton with BDD-labelled       *)
(* edges (BuchiAutomata).  A BDD over the present-state variables is       *)
(* modelled by the set of system states it denotes; the operations the     *)
(* engines use (post_image, pre_image, the edge lists) are operators.      *)
(*                                                                         *)
(* The second half defines, from the same operators, the reference         *)
(* semantics that the engines are checked against: the product graph of   *)
(* system and automaton, reachability in it, and the existence of a        *)
(* reachable accepting cycle.                                              *)
(***************************************************************************)
EXTENDS Naturals, FiniteSets, Sequences

CONSTANTS
  States,      \* the valuations of the SMV latches
  TransRel,    \* the transition relation, as a set of <<present, next>>
  Invariants,  \* the INVAR constraint, as a set of states
  FsmInit,     \* the INIT constraint, as a set of states (fsmbdd.init)
  NumAut,      \* number of automaton states (automata.num_state())
  Edges,       \* automaton edges <<from, to, label>> in parse order
  AutInit,     \* automata.init_states
  Accepting    \* automata.accepting_states

AutStates == 0 .. NumAut - 1

ASSUME /\ TransRel \subseteq States \X States
       /\ Invariants \subseteq States /\ FsmInit \subseteq States
       /\ Edges \in Seq(AutStates \X AutStates \X SUBSET States)
       /\ AutInit \subseteq AutStates /\ Accepting \subseteq AutStates

(* FsmBdd::post_image: restrict to INVAR, take the image, restrict again. *)
PostImage(s) ==
  { t \in Invariants : \E u \in s \cap Invariants : <<u, t>> \in TransRel }

(* FsmBdd::pre_image: the dual of PostImage. *)
PreImage(s) ==
  { u \in Invariants : \E t \in s \cap Invariants : <<u, t>> \in TransRel }

(* automata.forward[i] and automata.backward[i], filled by add_edge as     *)
(* duals, in the order the edges were added: the pairs <<neighbour,       *)
(* label>> of the edges out of / into i.                                  *)
Project(seq, k) == [n \in DOMAIN seq |-> <<seq[n][k], seq[n][3]>>]
forward(i)  == Project(SelectSeq(Edges, LAMBDA e : e[1] = i), 2)
backward(i) == Project(SelectSeq(Edges, LAMBDA e : e[2] = i), 1)

AsSet(seq) == { seq[n] : n \in DOMAIN seq }

(* PPSMC::check seeds the forward search: every initial automaton state   *)
(* gets fsmbdd.init (not intersected with INVAR).                         *)
InitReach == [i \in AutStates |-> IF i \in AutInit THEN FsmInit ELSE {}]

-----------------------------------------------------------------------------
(***************************************************************************)
(* Reference semantics.  A node of the product is <<state, automaton       *)
(* state>>; <<s, i>> steps to <<t, j>> when an edge i -> j has a label     *)
(* holding in s and t is a post-image of s.                                *)
(***************************************************************************)
Node == States \X AutStates

(* The product successors of node x, every node but the last of a path   *)
(* being required to lie in C (C = States everywhere for no constraint).  *)
SuccWithin(x, C) ==
  IF x[1] \notin C[x[2]] THEN {}
  ELSE { <<t, e[1]>> : e \in { f \in AsSet(forward(x[2])) : x[1] \in f[2] },
                       t \in PostImage({x[1]}) }

(* The nodes reachable in one or more steps from the nodes X. *)
RECURSIVE Grow(_, _, _)
Grow(X, C, acc) ==
  LET new == UNION { SuccWithin(x, C) : x \in X } \ acc
  IN  IF new = {} THEN acc ELSE Grow(new, C, acc \cup new)

Unconstrained == [i \in AutStates |-> States]

PlusFrom(X, C) == Grow(X, C, {})

AsNodes(f) == { n \in Node : n[1] \in f[n[2]] }

AsFunction(X) == [j \in AutStates |-> { s \in States : <<s, j>> \in X }]

(* What a forward reachability from seeds `from` must return. *)
PostReachRef(from) ==
  LET X == AsNodes(from) IN AsFunction(X \cup PlusFrom(X, Unconstrained))

(* What a backward reachability from `from` within `constraint` must      *)
(* return, intersected with `from`: the seeds that reach a seed in one or  *)
(* more steps through constrained nodes.                                   *)
PreReachRef(from, constraint) ==
  LET X == AsNodes(from)
  IN  AsFunction({ n \in X : PlusFrom({n}, constraint) \cap X # {} })

(* The verdict: the property fails iff a reachable accepting node lies on *)
(* a cycle of the product.                                                 *)
HasFairCycle ==
  \E n \in AsNodes(PostReachRef(InitReach)) :
    n[2] \in Accepting /\ n \in PlusFrom({n}, Unconstrained)

=============================================================================
