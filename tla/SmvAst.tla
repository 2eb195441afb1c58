------------------------------ MODULE SmvAst ------------------------------
(***************************************************************************)
(* The abstract syntax of smv-rs (ast.rs): an expression is an            *)
(* identifier, a Boolean literal, a prefix operator applied to an         *)
(* expression, an infix operator applied to two, or a case expression    *)
(* with a sequence of <<condition, value>> arms.  Operators are named by  *)
(* their SMV tokens.                                                      *)
(***************************************************************************)

(* enum Expr. *)
Ident(n)           == [k |-> "id", n |-> n]
LitExpr(b)         == [k |-> "lit", v |-> b]
PrefixExpr(o, a)   == [k |-> "pre", op |-> o, a |-> a]
InfixExpr(o, l, r) == [k |-> "in", op |-> o, l |-> l, r |-> r]
CaseExpr(br)       == [k |-> "case", br |-> br]

(* impl Not, BitAnd and BitOr for Expr. *)
NotExpr(e)    == PrefixExpr("!", e)
AndExpr(l, r) == InfixExpr("&", l, r)
OrExpr(l, r)  == InfixExpr("|", l, r)

=============================================================================
