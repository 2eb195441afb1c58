-------------------------- MODULE MC_PpsmcMain --------------------------
(* main on an SMV model over latches a and b with INVAR !(a & b),          *)
(* FAIRNESS a and LTLSPEC G F a & G F b, on every deterministic TRANS.     *)
EXTENDS PpsmcMain, MC_Systems

(* smv.vars in declaration order. *)
LatchNames == << "a", "b" >>

(* No split, a split on either latch, and on both. *)
SplitLists == { << >>, << 0 >>, << 1 >>, << 1, 0 >> }

(* ltl2tgba's conditions over the two latches. *)
LatchConds == ("!a" :> NotA) @@ ("!b" :> NotB)

(* The transitions out of s of an automaton with n states: at most k, to *)
(* distinct targets, each under true or !a.                              *)
OutSeqs(n, s, k) ==
  { o \in UNION { [1 .. m -> { <<s, t, l>> : t \in 0 .. n - 1, l \in {Latch, NotA} }] : m \in 0 .. k } :
      \A i, j \in DOMAIN o : i # j => o[i][2] # o[j][2] }

(* Every automaton of one or two states with at most two transitions a  *)
(* state; of three states with at most two out of the initial state and  *)
(* one out of the others; and the automaton of G F a & G F b's negation. *)
WrittenAutomata ==
  { [num |-> 1, edges |-> o0, acc |-> X] : o0 \in OutSeqs(1, 0, 2), X \in SUBSET {0} }
  \cup
  { [num |-> 2, edges |-> o0 \o o1, acc |-> X] :
      o0 \in OutSeqs(2, 0, 2), o1 \in OutSeqs(2, 1, 2), X \in SUBSET {0, 1} }
  \cup
  { [num |-> 3, edges |-> o0 \o o1 \o o2, acc |-> X] :
      o0 \in OutSeqs(3, 0, 2), o1 \in OutSeqs(3, 1, 1), o2 \in OutSeqs(3, 2, 1),
      X \in { {}, {0}, {1, 2} } }
  \cup
  { [num |-> 3, edges |-> GFabEdges, acc |-> {1, 2}] }
=============================================================================
