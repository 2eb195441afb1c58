----------------------------- MODULE MC_SmvBdd -----------------------------
(***************************************************************************)
(* A program for SmvBdd over two latches a and b whose TRANS is a case   *)
(* with no arm for the states where a is false.  Its four defines: d1     *)
(* reads next(b), d2 is a case over d1, d3 reads next(d4) and d2.         *)
(***************************************************************************)
EXTENDS SmvBdd

A == Ident("a")
B == Ident("b")
Nx(e) == PrefixExpr("next", e)

Defines ==
  ("d1" :> AndExpr(A, Nx(B)))
  @@ ("d2" :> CaseExpr(<< << Ident("d1"), NotExpr(A) >>,
                          << NotExpr(Ident("d1")), InfixExpr("xor", A, B) >> >>))
  @@ ("d3" :> InfixExpr("<->", Nx(Ident("d4")), Ident("d2")))
  @@ ("d4" :> OrExpr(A, NotExpr(B)))

Base ==
  [defines |-> Defines, vars |-> << "a", "b" >>, inits |-> << >>,
   trans |-> << >>, invariants |-> << InfixExpr("->", A, Ident("d4")) >>,
   fairness |-> << >>, ltlspecs |-> << >>]

(* A case whose arms do not cover every state: no arm holds when a is    *)
(* false.                                                                 *)
PartialCase ==
  { [Base EXCEPT !.trans = << CaseExpr(<< << A, Nx(B) >> >>) >>] }

=============================================================================
