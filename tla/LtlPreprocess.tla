--------------------------- MODULE LtlPreprocess ---------------------------
(***************************************************************************)
(* The formula handed to the LTL-to-Buchi translator.  get_ltl            *)
(* (property_driven/mod.rs) optionally flattens every define into the     *)
(* expressions (Smv::flatten_defines, --fd), builds                       *)
(*   !((G trans[x] & ... & G F fair & ...) -> LTLSPEC[0])                 *)
(* for the --e indices x and the FAIRNESS list, and runs                   *)
(* ltl_to_automata_preprocess (ltl.rs): flatten_to_propositional_define   *)
(* replaces each define whose expansion is not propositional by that      *)
(* expansion, flatten_case rewrites case into & | !, and                  *)
(* trans_expr_to_ltl turns next into X.  traditional::check with --ga     *)
(* preprocesses !LTLSPEC[0] of the unflattened program instead.          *)
(***************************************************************************)
EXTENDS Naturals, Sequences, SequencesExt, SmvAst

CONSTANTS
  Programs,   \* Smv records that SmvBdd::new accepts
  Extends,    \* the --e index lists
  MaxPrefix,  \* the longest stem of the lasso words the formula is read on
  MaxLoop     \* the longest loop of those words

None == [k |-> "none"]

VARIABLES
  smv,       \* the program
  mode,      \* "pd": property_driven::check; "trad", "ga": traditional::check
             \* without and with --ga
  extend,    \* args.ltl_extend_trans
  flatten,   \* args.flatten_define
  ltl        \* the formula, None before it is built

vars == <<smv, mode, extend, flatten, ltl>>

-----------------------------------------------------------------------------
(* Smv::flatten_expr: the expression with every define replaced by its   *)
(* flattened body, and case by (c & r) | (!c & rest).  A define is       *)
(* flattened once: its flattened body is stored in defines and its name  *)
(* in flattened.  Returns [e, defines, flattened].                       *)
RECURSIVE FlattenExpr(_, _, _), FlattenArms(_, _, _, _, _)
FlattenArms(br, i, ans, D, F) ==
  IF i = 0 THEN [e |-> ans, defines |-> D, flattened |-> F]
  ELSE LET c == FlattenExpr(br[i][1], D, F)
           r == FlattenExpr(br[i][2], c.defines, c.flattened)
       IN  FlattenArms(br, i - 1,
                       OrExpr(AndExpr(c.e, r.e), AndExpr(NotExpr(c.e), ans)),
                       r.defines, r.flattened)

FlattenExpr(x, D, F) ==
  CASE x.k = "id" /\ x.n \in DOMAIN D /\ x.n \notin F ->
         LET b == FlattenExpr(D[x.n], D, F)
         IN  [e |-> b.e, defines |-> [b.defines EXCEPT ![x.n] = b.e],
              flattened |-> b.flattened \cup {x.n}]
    [] x.k = "id" /\ x.n \in DOMAIN D -> [e |-> D[x.n], defines |-> D, flattened |-> F]
    [] x.k \in {"id", "lit"} -> [e |-> x, defines |-> D, flattened |-> F]
    [] x.k = "pre" ->
         LET a == FlattenExpr(x.a, D, F)
         IN  [a EXCEPT !.e = PrefixExpr(x.op, a.e)]
    [] x.k = "in" ->
         LET l == FlattenExpr(x.l, D, F)
             r == FlattenExpr(x.r, l.defines, l.flattened)
         IN  [r EXCEPT !.e = InfixExpr(x.op, l.e, r.e)]
    [] x.k = "case" ->
         LET last == FlattenExpr(x.br[Len(x.br)][2], D, F)
         IN  FlattenArms(x.br, Len(x.br) - 1, last.e, last.defines, last.flattened)

(* Flattens the list field f of s in order, threading defines and        *)
(* flattened.                                                             *)
FlattenList(s, f, F) ==
  FoldLeft(LAMBDA acc, i :
             LET r == FlattenExpr(acc.smv[f][i], acc.smv.defines, acc.flattened)
             IN  [smv |-> [acc.smv EXCEPT ![f][i] = r.e, !.defines = r.defines],
                  flattened |-> r.flattened],
           [smv |-> s, flattened |-> F], [i \in DOMAIN s[f] |-> i])

(* Smv::flatten_defines: inits, trans, invariants, fairness, ltlspecs. *)
FlattenDefines(s) ==
  LET a == FlattenList(s, "inits", {})
      b == FlattenList(a.smv, "trans", a.flattened)
      c == FlattenList(b.smv, "invariants", b.flattened)
      d == FlattenList(c.smv, "fairness", c.flattened)
  IN  FlattenList(d.smv, "ltlspecs", d.flattened).smv

-----------------------------------------------------------------------------
(* Variant of flatten_to_propositional_define_rec that keeps every       *)
(* define as an atom.                                                     *)
RECURSIVE PropDefineRecKeep(_, _)
PropDefineRecKeep(D, x) ==
  CASE x.k \in {"id", "lit"} -> None
    [] x.k = "pre" ->
         LET a == PropDefineRecKeep(D, x.a)
         IN  IF a # None THEN PrefixExpr(x.op, a)
             ELSE IF x.op = "!" THEN None ELSE PrefixExpr(x.op, x.a)
    [] x.k = "in" ->
         LET l == PropDefineRecKeep(D, x.l)
             r == PropDefineRecKeep(D, x.r)
         IN  IF l = None /\ r = None /\ x.op \in {"&", "|", "<->", "->"} THEN None
             ELSE InfixExpr(x.op, IF l = None THEN x.l ELSE l,
                                  IF r = None THEN x.r ELSE r)
    [] x.k = "case" ->
         LET arms == [i \in DOMAIN x.br |->
                        << PropDefineRecKeep(D, x.br[i][1]), PropDefineRecKeep(D, x.br[i][2]) >>]
         IN  IF \A i \in DOMAIN arms : arms[i] = << None, None >> THEN None
             ELSE CaseExpr([i \in DOMAIN arms |->
                    << IF arms[i][1] = None THEN x.br[i][1] ELSE arms[i][1],
                       IF arms[i][2] = None THEN x.br[i][2] ELSE arms[i][2] >>])

(* flatten_to_propositional_define_rec: None when the expression is      *)
(* propositional (no next, no temporal operator, no xor, and every       *)
(* define it names is propositional), else the expression with every     *)
(* non-propositional define replaced by its rewritten body.              *)
RECURSIVE PropDefineRec(_, _)
PropDefineRec(D, x) ==
  CASE x.k = "id" /\ x.n \in DOMAIN D -> PropDefineRec(D, D[x.n])
    [] x.k \in {"id", "lit"} -> None
    [] x.k = "pre" ->
         LET a == PropDefineRec(D, x.a)
         IN  IF a # None THEN PrefixExpr(x.op, a)
             ELSE IF x.op = "!" THEN None ELSE PrefixExpr(x.op, x.a)
    [] x.k = "in" ->
         LET l == PropDefineRec(D, x.l)
             r == PropDefineRec(D, x.r)
         IN  IF l = None /\ r = None /\ x.op \in {"&", "|", "<->", "->"} THEN None
             ELSE InfixExpr(x.op, IF l = None THEN x.l ELSE l,
                                  IF r = None THEN x.r ELSE r)
    [] x.k = "case" ->
         LET arms == [i \in DOMAIN x.br |->
                        << PropDefineRec(D, x.br[i][1]), PropDefineRec(D, x.br[i][2]) >>]
         IN  IF \A i \in DOMAIN arms : arms[i] = << None, None >> THEN None
             ELSE CaseExpr([i \in DOMAIN arms |->
                    << IF arms[i][1] = None THEN x.br[i][1] ELSE arms[i][1],
                       IF arms[i][2] = None THEN x.br[i][2] ELSE arms[i][2] >>])

PropDefine(D, x) == LET r == PropDefineRec(D, x) IN IF r = None THEN x ELSE r

(* Smv::flatten_case. *)
RECURSIVE FlattenCase(_)
FlattenCase(x) ==
  CASE x.k \in {"id", "lit"} -> x
    [] x.k = "pre" -> PrefixExpr(x.op, FlattenCase(x.a))
    [] x.k = "in"  -> InfixExpr(x.op, FlattenCase(x.l), FlattenCase(x.r))
    [] x.k = "case" ->
         FoldRight(LAMBDA arm, ans :
                     OrExpr(AndExpr(FlattenCase(arm[1]), FlattenCase(arm[2])),
                            AndExpr(NotExpr(FlattenCase(arm[1])), ans)),
                   Front(x.br), FlattenCase(Last(x.br)[2]))

(* trans_expr_to_ltl: next becomes the LTL X. *)
RECURSIVE TransExprToLtl(_)
TransExprToLtl(x) ==
  CASE x.k \in {"id", "lit"} -> x
    [] x.k = "pre" -> PrefixExpr(IF x.op = "next" THEN "X" ELSE x.op, TransExprToLtl(x.a))
    [] x.k = "in"  -> InfixExpr(x.op, TransExprToLtl(x.l), TransExprToLtl(x.r))

(* ltl_to_automata_preprocess. *)
Preprocess(s, x) == TransExprToLtl(FlattenCase(PropDefine(s.defines, x)))

(* get_ltl: trans indices count from 0. *)
GetLtl(s0, ext, fd) ==
  LET s == IF fd THEN FlattenDefines(s0) ELSE s0
      transLtl == FoldLeft(LAMBDA acc, x : AndExpr(acc, PrefixExpr("G", s.trans[x + 1])),
                           LitExpr(TRUE), ext)
      fairness == FoldLeft(LAMBDA acc, f : AndExpr(acc, PrefixExpr("G", PrefixExpr("F", f))),
                           LitExpr(TRUE), s.fairness)
  IN  Preprocess(s, NotExpr(InfixExpr("->", AndExpr(transLtl, fairness), s.ltlspecs[1])))

Init ==
  /\ smv \in Programs
  /\ mode \in {"pd", "trad", "ga"}
  /\ extend \in (IF mode = "pd" THEN Extends ELSE {<< >>})
  /\ flatten \in (IF mode = "ga" THEN {FALSE} ELSE BOOLEAN)
  /\ ltl = None

(* property_driven::check: get_ltl(&smv, &args.ltl_extend_trans,        *)
(* args.flatten_define).                                                 *)
PropertyDriven ==
  /\ mode = "pd" /\ ltl = None
  /\ ltl' = GetLtl(smv, extend, flatten)

(* traditional::check without --ga: the justice list is cleared and     *)
(* get_ltl(&smv, &[], args.flatten_define) carries the fairness.         *)
Traditional ==
  /\ mode = "trad" /\ ltl = None
  /\ ltl' = GetLtl(smv, << >>, flatten)

(* traditional::check with --ga: ltl_to_automata_preprocess(&smv,        *)
(* !smv.ltlspecs[0]).                                                    *)
TraditionalGa ==
  /\ mode = "ga" /\ ltl = None
  /\ ltl' = Preprocess(smv, NotExpr(smv.ltlspecs[1]))

Done ==
  /\ ltl # None
  /\ UNCHANGED vars

(* The formula is computed once from the Smv and the flags. *)
Compute ==
  /\ PropertyDriven \/ Traditional \/ TraditionalGa
  /\ UNCHANGED <<smv, mode, extend, flatten>>

Next == Compute \/ Done

Spec == Init /\ [][Next]_vars
        /\ WF_vars(Compute)

-----------------------------------------------------------------------------
(* Lasso words: st is the sequence of states (latch name |-> value), and  *)
(* position Len(st) is followed by position loop.                          *)
States == [ToSet(smv.vars) -> BOOLEAN]
Words ==
  { [st |-> u \o v, loop |-> Len(u) + 1] :
      u \in BoundedSeq(States, MaxPrefix), v \in BoundedSeq(States, MaxLoop) \ {<< >>} }

Succ(w, i) == IF i < Len(w.st) THEN i + 1 ELSE w.loop

(* The positions visited from i, in order; Len(w.st) steps reach every   *)
(* position that ever follows i.                                           *)
RECURSIVE PathFrom(_, _, _)
PathFrom(w, i, n) == IF n = 0 THEN << >> ELSE << i >> \o PathFrom(w, Succ(w, i), n - 1)
Path(w, i) == PathFrom(w, i, Len(w.st))

(* A state predicate: an automaton label is a BDD over the present-state *)
(* variables, so next reads the same state.                              *)
RECURSIVE Label(_, _, _)
Label(D, x, s) ==
  CASE x.k = "id" /\ x.n \in DOMAIN D -> Label(D, D[x.n], s)
    [] x.k = "id"  -> s[x.n]
    [] x.k = "lit" -> x.v
    [] x.k = "pre" /\ x.op = "!" -> ~Label(D, x.a, s)
    [] x.k = "pre" -> Label(D, x.a, s)
    [] x.k = "in" ->
         LET l == Label(D, x.l, s)  r == Label(D, x.r, s)
         IN  (CASE x.op = "&" -> l /\ r      [] x.op = "|" -> l \/ r
                [] x.op = "xor" -> l # r     [] x.op = "->" -> l => r
                [] x.op = "<->" -> l = r)
    [] x.k = "case" ->
         LET hit == { i \in DOMAIN x.br : Label(D, x.br[i][1], s) }
         IN  IF hit = {} THEN FALSE
             ELSE Label(D, x.br[CHOOSE i \in hit : \A j \in hit : i <= j][2], s)

(* Whether x holds at position i of w.  With expand, a define means its   *)
(* body read along the word (the SMV meaning); without, a define is an    *)
(* atom of the formula, read as the label BuchiAutomata::from_ltl gives   *)
(* it (the BDD SmvBdd::new built for it).  next and X read the next       *)
(* position; a case takes its first arm that holds, else false.           *)
RECURSIVE Sat(_, _, _, _, _)
Sat(D, x, w, i, expand) ==
  LET P == Path(w, i)
      S(y, j) == Sat(D, y, w, j, expand)
  IN
  CASE x.k = "id" /\ x.n \in DOMAIN D ->
         IF expand THEN S(D[x.n], i) ELSE Label(D, D[x.n], w.st[i])
    [] x.k = "id"  -> w.st[i][x.n]
    [] x.k = "lit" -> x.v
    [] x.k = "pre" ->
         (CASE x.op = "!" -> ~S(x.a, i)
            [] x.op \in {"next", "X"} -> S(x.a, Succ(w, i))
            [] x.op = "G" -> \A k \in DOMAIN P : S(x.a, P[k])
            [] x.op = "F" -> \E k \in DOMAIN P : S(x.a, P[k]))
    [] x.k = "in" ->
         (CASE x.op = "&"   -> S(x.l, i) /\ S(x.r, i)
            [] x.op = "|"   -> S(x.l, i) \/ S(x.r, i)
            [] x.op = "xor" -> S(x.l, i) # S(x.r, i)
            [] x.op = "->"  -> S(x.l, i) => S(x.r, i)
            [] x.op = "<->" -> S(x.l, i) = S(x.r, i)
            [] x.op = "U" ->
                 \E k \in DOMAIN P : S(x.r, P[k]) /\ \A j \in 1 .. k - 1 : S(x.l, P[j])
            [] x.op = "V" ->
                 \A k \in DOMAIN P : S(x.r, P[k]) \/ \E j \in 1 .. k - 1 : S(x.l, P[j]))
    [] x.k = "case" ->
         LET hit == { j \in DOMAIN x.br : S(x.br[j][1], i) }
         IN  IF hit = {} THEN FALSE
             ELSE S(x.br[CHOOSE j \in hit : \A m \in hit : j <= m][2], i)

(* The words the checker must find: a run of the program that violates  *)
(* LTLSPEC[0].  With the fairness folded into the formula ("pd", "trad"), *)
(* the run also satisfies every --e TRANS at every step and every         *)
(* FAIRNESS expression infinitely often.                                  *)
Violates(w) ==
  LET D == smv.defines
      Sm(y, j) == Sat(D, y, w, j, TRUE)
      restricted ==
        /\ \A x \in ToSet(extend) : \A j \in ToSet(Path(w, 1)) : Sm(smv.trans[x + 1], j)
        /\ \A f \in ToSet(smv.fairness) : \E j \in w.loop .. Len(w.st) : Sm(f, j)
  IN  IF mode = "ga" THEN ~Sm(smv.ltlspecs[1], 1)
      ELSE restricted /\ ~Sm(smv.ltlspecs[1], 1)

(* The formula get_ltl and ltl_to_automata_preprocess hand to the LTL     *)
(* translator, its atoms read as from_ltl reads them, holds on exactly    *)
(* the words that violate the property: flattening defines (--fd),        *)
(* keeping propositional defines as atoms, rewriting case and next, and   *)
(* folding --e TRANS and FAIRNESS into the formula preserve its meaning.  *)
LtlMeansViolation ==
  ltl # None => \A w \in Words : Sat(smv.defines, ltl, w, 1, FALSE) = Violates(w)

=============================================================================
