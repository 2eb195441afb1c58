----------------------------- MODULE SmvInputs -----------------------------
(***************************************************************************)
(* SMV programs as written (see SmvParser!Text): records like Smv with     *)
(* defines a sequence of <<name, expression>> pairs, rest the tokens of a *)
(* construct the grammar lacks, and the layout of the text.  Three        *)
(* families: expressions for the    *)
(* parser, programs whose defines nest through next and case for the BDD  *)
(* construction, and LTLSPECs over defines with and without next for the  *)
(* formula handed to the LTL translator.                                  *)
(***************************************************************************)
EXTENDS Naturals, Sequences, TLC, SmvAst

(* The characters of every word the programs below are written with. *)
SpellTable ==
  { <<"M", "O", "D", "U", "L", "E">>, <<"m", "a", "i", "n">>,
    <<"V", "A", "R">>, <<"I", "V", "A", "R">>,
    <<"D", "E", "F", "I", "N", "E">>, <<"I", "N", "I", "T">>,
    <<"T", "R", "A", "N", "S">>, <<"I", "N", "V", "A", "R">>,
    <<"F", "A", "I", "R", "N", "E", "S", "S">>,
    <<"L", "T", "L", "S", "P", "E", "C">>,
    <<"C", "O", "N", "S", "T", "A", "N", "T", "S">>,
    <<"b", "o", "o", "l", "e", "a", "n">>, <<"c", "a", "s", "e">>,
    <<"e", "s", "a", "c">>, <<"n", "e", "x", "t">>, <<"T", "R", "U", "E">>,
    <<"F", "A", "L", "S", "E">>, <<"G">>, <<"F">>, <<"X">>, <<"U">>, <<"V">>,
    <<"&">>, <<"|">>, <<"x", "o", "r">>, <<"-", ">">>, <<"<", "-", ">">>,
    <<"!">>, <<":", "=">>, <<",">>, <<";">>, <<":">>, <<"(">>, <<")">>,
    <<"?">>, <<"0">>, <<"a">>, <<"_", "a">>, <<"b">>, <<"_", "b">>, <<"c">>,
    <<"d">>, <<"_", "d">>, <<"e">>, <<"g">>, <<"x", ".", "y">>, <<"d", "1">>,
    <<"d", "2">>, <<"d", "3">>, <<"d", "4">>, <<"d", "5">>, <<"d", "6">>,
    <<"A", "S", "S", "I", "G", "N">>, <<"i", "n", "i", "t">>,
    <<"x", "o", "r", "b">> }

(* parse_ident on the names below. *)
NormalizeNames(n) ==
  CASE n = "_a"  -> "a"
    [] n = "_b"  -> "b"
    [] n = "_d"  -> "d"
    [] n = "x.y" -> "x_y"
    [] OTHER     -> n

Va == Ident("a")
Vb == Ident("_b")
Nx(e) == PrefixExpr("next", e)
Id(n) == Ident(n)

Tight == [sep |-> "tight", comment |-> "none"]

(* Both spacings, with a comment line, a comment after tokens, or none. *)
Layouts == [sep : {"tight", "loose"}, comment : {"none", "line", "trailing"}]

EmptyProg == [vars |-> << >>, defines |-> << >>, inits |-> << >>,
              trans |-> << >>, invariants |-> << >>, fairness |-> << >>,
              ltlspecs |-> << >>, rest |-> << >>, layout |-> Tight]

Spec1(e) == [EmptyProg EXCEPT !.ltlspecs = << e >>]

-----------------------------------------------------------------------------
(* Parser family: expressions up to two infix operators of Ops. *)
Leaves == { Va, Vb, LitExpr(TRUE), PrefixExpr("!", Va) }
OneOp(Ops, L) == { InfixExpr(o, l, r) : o \in Ops, l \in L, r \in L }
TwoOps(Ops) ==
  { InfixExpr(o, x, Va) : o \in Ops, x \in OneOp(Ops, {Va, Vb}) }
  \cup { InfixExpr(o, Va, x) : o \in Ops, x \in OneOp(Ops, {Va, Vb}) }
Exprs(Ops) ==
  OneOp(Ops, Leaves) \cup TwoOps(Ops)
  \cup { PrefixExpr(o, x) : o \in {"!", "G"}, x \in OneOp(Ops, {Va, Vb}) }

Cases ==
  { CaseExpr(<< << Va, Vb >>, << LitExpr(TRUE), PrefixExpr("!", Va) >> >>),
    CaseExpr(<< << InfixExpr("&", Va, Vb), Nx(Va) >> >>),
    PrefixExpr("G", PrefixExpr("F", CaseExpr(<< << Vb, Va >> >>))) }

(* Every section, a repeated TRANS, and defines d and _d, one name. *)
Whole ==
  [vars |-> << "a", "_b", "x.y" >>,
   defines |-> << << "d", InfixExpr("&", Va, Vb) >>, << "e", Ident("x.y") >>,
                  << "_d", PrefixExpr("!", Va) >> >>,
   inits |-> << Va, PrefixExpr("!", Vb) >>,
   trans |-> << InfixExpr("<->", Nx(Va), Vb), Nx(Vb),
                InfixExpr("<->", Nx(Va), Vb) >>,
   invariants |-> << InfixExpr("|", Va, Id("e")) >>,
   fairness |-> << Id("d") >>,
   ltlspecs |-> << PrefixExpr("G", PrefixExpr("F", Id("d"))), InfixExpr("U", Va, Vb) >>,
   rest |-> << >>, layout |-> Tight]

(* A CONSTANTS section, an ASSIGN section, which lexes as names, and a   *)
(* conditional over an integer, which lexes but does not parse.           *)
Unsupported ==
  { [Whole EXCEPT !.rest = << "CONSTANTS", "c", ";" >>],
    [Spec1(Va) EXCEPT !.rest = << "ASSIGN", "init", "(", "a", ")", ":=", "TRUE", ";" >>],
    [Spec1(Va) EXCEPT !.rest = << "INIT", "a", "?", "0", ":", "b" >>] }

CodeOps == { "&", "|", "xor", "->", "<->", "U" }

(* Expressions in both spacings; the whole and unsupported programs, and *)
(* the case expressions, in every layout.                                 *)
ParserPrograms ==
  { [Spec1(e) EXCEPT !.layout.sep = s] : e \in Exprs(CodeOps), s \in {"tight", "loose"} }
  \cup { [w EXCEPT !.layout = l] : w \in { Spec1(c) : c \in Cases } \cup { Whole } \cup Unsupported,
                                   l \in Layouts }

(* A name that starts with xor: alone, and after another expression of   *)
(* the same section.                                                      *)
XorPrograms ==
  { [Spec1(InfixExpr("&", Va, Id("xorb"))) EXCEPT !.vars = << "a", "xorb" >>],
    [EmptyProg EXCEPT !.vars = << "a", "xorb" >>, !.ltlspecs = << Va, Id("xorb") >>] }

(* Programs written for the code's own table (the Precedence enum of     *)
(* parser.rs), every operator left associative.                          *)
CodePrec == ("&" :> 1) @@ ("|" :> 2) @@ ("xor" :> 3) @@ ("->" :> 4)
            @@ ("<->" :> 5) @@ ("U" :> 6) @@ ("V" :> 7) @@ ("S" :> 8)

NoRightAssoc == {}

(* The SMV language: ! binds tightest, then &, then | and xor, then <->, *)
(* then -> (right associative).                                          *)
SmvPrec == ("&" :> 4) @@ ("|" :> 3) @@ ("xor" :> 3) @@ ("<->" :> 2)
           @@ ("->" :> 1)

SmvRightAssoc == { "->" }

SmvPrecPrograms == { Spec1(e) : e \in Exprs({ "&", "|", "->", "<->" }) }

-----------------------------------------------------------------------------
(* BDD family, over latches a and b: d1 reads next(b), d2 is a case over *)
(* d1 whose arms cover every state, d3 reads next(d4) and d2, d4 is       *)
(* propositional.  TRANS, INIT and FAIRNESS reach the defines first, in a *)
(* case with overlapping arms, or under next.                             *)
A == Ident("a")
B == Ident("b")

BddDefines ==
  << << "d1", AndExpr(A, Nx(B)) >>,
     << "d2", CaseExpr(<< << Id("d1"), NotExpr(A) >>,
                          << NotExpr(Id("d1")), InfixExpr("xor", A, B) >> >>) >>,
     << "d3", InfixExpr("<->", Nx(Id("d4")), Id("d2")) >>,
     << "d4", OrExpr(A, NotExpr(B)) >> >>

BddBase ==
  [EmptyProg EXCEPT !.vars = << "a", "b" >>, !.defines = BddDefines,
                    !.invariants = << InfixExpr("->", A, Id("d4")) >>]

TransChoices ==
  { << Id("d3") >>,
    << Id("d1"),
       InfixExpr("<->", Nx(A), CaseExpr(<< << B, A >>, << A, NotExpr(B) >>,
                                          << LitExpr(TRUE), NotExpr(A) >> >>)) >>,
    << Nx(Id("d4")), Id("d2") >> }

InitChoices == { << >>, << NotExpr(A), Id("d4") >>, << Id("d2") >> }

FairChoices == { << >>, << Id("d1"), Id("d3") >> }

(* Three programs that panic in SmvBdd::new: a latch declared twice (a   *)
(* and _a), a name never declared, and G in a define.                     *)
BddPrograms ==
  { [BddBase EXCEPT !.trans = t, !.inits = i, !.fairness = f] :
      t \in TransChoices, i \in InitChoices, f \in FairChoices }
  \cup { [BddBase EXCEPT !.vars = << "a", "b", "_a" >>],
         [BddBase EXCEPT !.inits = << Id("c") >>],
         [BddBase EXCEPT !.defines = Append(@, << "g", PrefixExpr("G", A) >>)] }

-----------------------------------------------------------------------------
(* LTL family: d1 reads next, d2 is a propositional case (kept as an     *)
(* atom), d5 mixes d1 and d2, d6 is a case with next in an arm.  Four      *)
(* LTLSPECs over G, F, X, U, V and xor, with and without FAIRNESS d2.     *)
LtlDefines ==
  << << "d1", AndExpr(A, Nx(B)) >>,
     << "d2", CaseExpr(<< << A, NotExpr(B) >>, << LitExpr(TRUE), B >> >>) >>,
     << "d5", OrExpr(Id("d1"), Id("d2")) >>,
     << "d6", CaseExpr(<< << A, Nx(B) >>, << LitExpr(TRUE), Id("d2") >> >>) >> >>

LtlBase ==
  [EmptyProg EXCEPT !.vars = << "a", "b" >>, !.defines = LtlDefines,
     !.inits = << NotExpr(A) >>,
     !.trans = << InfixExpr("<->", Nx(A), Id("d2")), OrExpr(Id("d1"), NotExpr(A)) >>]

SpecChoices ==
  { PrefixExpr("G", PrefixExpr("F", Id("d2"))),
    PrefixExpr("G", InfixExpr("->", Id("d5"), PrefixExpr("X", A))),
    PrefixExpr("F", InfixExpr("U", Id("d6"), B)),
    InfixExpr("V", Id("d2"), InfixExpr("xor", A, Id("d1"))) }

LtlPrograms ==
  { [LtlBase EXCEPT !.ltlspecs = << s >>, !.fairness = f] :
      s \in SpecChoices, f \in { << >>, << Id("d2") >> } }

ExtendChoices == { << >>, << 0 >>, << 1 >>, << 0, 1 >> }

=============================================================================
