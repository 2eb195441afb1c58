------------------------------ MODULE SmvBdd ------------------------------
(***************************************************************************)
(* SmvBdd::new and expr_to_bdd (smv-rs/src/bdd/mod.rs): the parsed SMV    *)
(* program is turned into BDDs.  Latch i is BDD variable 2i, its next     *)
(* state 2i + 1.  Every define is converted, in the iteration order of    *)
(* the defines HashMap, then INVAR (conjoined), TRANS (one BDD per        *)
(* expression), INIT (conjoined) and FAIRNESS (the justice list).  The   *)
(* BDD of a define is cached by name the first time an expression         *)
(* reaches it, and the cache is shared by all these conversions.          *)
(*                                                                         *)
(* A BDD is the set of assignments to the BDD variables it is true on.    *)
(***************************************************************************)
EXTENDS Naturals, Sequences, SequencesExt, FiniteSets, SmvAst, SylvanBdd

(* NumVar, the number of latches of every program, and the BDD          *)
(* operations are SylvanBdd's.                                           *)
CONSTANT Programs   \* the Smv records Smv::parse returns

VARIABLES
  prog,        \* the Smv
  order,       \* the iteration order of smv.defines
  phase,       \* "start", "built", or "panic"
  symbols,     \* name |-> BDD variable of the latch
  defines,     \* name |-> BDD: the define cache
  invariants, trans, init, justice

vars == <<prog, order, phase, symbols, defines, invariants, trans, init, justice>>

BoolInfix == { "&", "|", "xor", "->", "<->" }

(* The infix arm of expr_to_bdd. *)
Infix(op, l, r) ==
  CASE op = "&"   -> BddAnd(l, r)
    [] op = "|"   -> BddOr(l, r)
    [] op = "xor" -> BddXor(l, r)
    [] op = "->"  -> BddOr(BddNot(l), r)
    [] op = "<->" -> BddNot(BddXor(l, r))

Res(b, c) == [bdd |-> b, cache |-> c]

RECURSIVE ToBdd(_, _, _, _), CaseFoldForward(_, _, _, _, _, _),
          CaseFold(_, _, _, _, _, _)

(* Variant of the case arm that folds the arms first to last, so that a  *)
(* later arm takes priority over an earlier one.                         *)
CaseFoldForward(D, S, br, i, ans, C) ==
  IF i = 0 THEN Res(ans, C)
  ELSE LET k == Len(br) - i
           c == ToBdd(D, S, br[k][1], C)
           r == ToBdd(D, S, br[k][2], c.cache)
       IN  CaseFoldForward(D, S, br, i - 1,
                           IfThenElse(c.bdd, r.bdd, ans), r.cache)

(* The case arm: ans starts as the value of the last arm and, for i from *)
(* the next-to-last arm down to the first, becomes                       *)
(* cond_i.if_then_else(value_i, ans).                                    *)
CaseFold(D, S, br, i, ans, C) ==
  IF i = 0 THEN Res(ans, C)
  ELSE LET c == ToBdd(D, S, br[i][1], C)
           r == ToBdd(D, S, br[i][2], c.cache)
       IN  CaseFold(D, S, br, i - 1, IfThenElse(c.bdd, r.bdd, ans),
                    r.cache)

(* expr_to_bdd(manager, symbols, defines, defines_cache, expr): the BDD  *)
(* and the cache after the call.  A define is taken from the cache, or   *)
(* converted and inserted.                                               *)
ToBdd(D, S, e, C) ==
  CASE e.k = "id" /\ e.n \in DOMAIN D ->
         IF e.n \in DOMAIN C THEN Res(C[e.n], C)
         ELSE LET r == ToBdd(D, S, D[e.n], C)
              IN  Res(r.bdd, (e.n :> r.bdd) @@ r.cache)
    [] e.k = "id"  -> Res(IthVar(S[e.n]), C)
    [] e.k = "lit" -> Res(Constant(e.v), C)
    [] e.k = "pre" ->
         LET r == ToBdd(D, S, e.a, C)
         IN  Res(IF e.op = "!" THEN BddNot(r.bdd) ELSE NextState(r.bdd), r.cache)
    [] e.k = "in" ->
         LET l == ToBdd(D, S, e.l, C)
             r == ToBdd(D, S, e.r, l.cache)
         IN  Res(Infix(e.op, l.bdd, r.bdd), r.cache)
    [] e.k = "case" ->
         LET last == ToBdd(D, S, e.br[Len(e.br)][2], C)
         IN  CaseFold(D, S, e.br, Len(e.br) - 1, last.bdd, last.cache)

(* Every subexpression of e. *)
RECURSIVE Sub(_)
Sub(e) ==
  {e} \cup
  CASE e.k = "pre"  -> Sub(e.a)
    [] e.k = "in"   -> Sub(e.l) \cup Sub(e.r)
    [] e.k = "case" -> UNION { Sub(e.br[i][1]) \cup Sub(e.br[i][2]) : i \in DOMAIN e.br }
    [] OTHER        -> {}

(* The panics of SmvBdd::new, which converts every define and every      *)
(* INVAR, TRANS, INIT and FAIRNESS expression whatever the order: the    *)
(* assert! on a latch declared twice, symbols[ident] on a name that is   *)
(* neither a define nor a latch, and todo!() on an LTL operator.         *)
Panics(p) ==
  \/ \E i, j \in DOMAIN p.vars : i < j /\ p.vars[i] = p.vars[j]
  \/ \E e \in UNION { Sub(x) : x \in { p.defines[d] : d \in DOMAIN p.defines }
                        \cup ToSet(p.invariants \o p.trans \o p.inits \o p.fairness) } :
       \/ e.k = "id" /\ e.n \notin DOMAIN p.defines \cup ToSet(p.vars)
       \/ e.k = "pre" /\ e.op \notin {"!", "next"}
       \/ e.k = "in" /\ e.op \notin BoolInfix


(* symbols: latch i is variable i * 2. *)
Symbols(p) == [n \in ToSet(p.vars) |-> 2 * (CHOOSE i \in 0 .. Len(p.vars) - 1 : p.vars[i + 1] = n)]

(* Converts the expressions es in order, threading the cache. *)
ConvertAll(D, S, es, C) ==
  FoldLeft(LAMBDA acc, e :
             LET r == ToBdd(D, S, e, acc.cache)
             IN  [bdds |-> Append(acc.bdds, r.bdd), cache |-> r.cache],
           [bdds |-> << >>, cache |-> C], es)

Conj(bdds) == FoldLeft(LAMBDA acc, b : BddAnd(acc, b), Constant(TRUE), bdds)

Init ==
  /\ prog \in Programs
  /\ order \in SetToSeqs(DOMAIN prog.defines)
  /\ phase = "start"
  /\ symbols = << >>
  /\ defines = << >>
  /\ invariants = Constant(TRUE) /\ trans = << >> /\ init = Constant(TRUE) /\ justice = << >>

(* SmvBdd::new, iterating the defines in order ord. *)
NewIn(ord) ==
  /\ phase = "start"
  /\ IF Panics(prog)
       THEN /\ phase' = "panic"
            /\ UNCHANGED <<symbols, defines, invariants, trans, init, justice>>
       ELSE LET D == prog.defines
                S == Symbols(prog)
                C == FoldLeft(LAMBDA acc, d :
                                LET r == ToBdd(D, S, D[d], acc) IN (d :> r.bdd) @@ r.cache,
                              << >>, ord)
                inv == ConvertAll(D, S, prog.invariants, C)
                tr  == ConvertAll(D, S, prog.trans, inv.cache)
                ini == ConvertAll(D, S, prog.inits, tr.cache)
                jus == ConvertAll(D, S, prog.fairness, ini.cache)
            IN  /\ phase' = "built"
                /\ symbols' = S
                /\ defines' = jus.cache
                /\ invariants' = Conj(inv.bdds)
                /\ trans' = tr.bdds
                /\ init' = Conj(ini.bdds)
                /\ justice' = jus.bdds
  /\ UNCHANGED prog

New == NewIn(order) /\ UNCHANGED order

Done ==
  /\ phase # "start"
  /\ UNCHANGED vars

Next == New \/ Done

Spec == Init /\ [][Next]_vars /\ WF_vars(New)

-----------------------------------------------------------------------------
(* Types: symbols are present-state variables, one per latch; once built *)
(* the cache holds every define and the lists have one BDD per           *)
(* expression.                                                           *)
TypeOK ==
  /\ phase \in {"start", "built", "panic"}
  /\ phase = "built" =>
       /\ symbols \in [ToSet(prog.vars) -> { v \in VarIdx : v % 2 = 0 }]
       /\ DOMAIN defines = DOMAIN prog.defines
       /\ Len(trans) = Len(prog.trans) /\ Len(justice) = Len(prog.fairness)

(* The meaning of an expression of the SMV language in current state s   *)
(* and next state t (functions from latch names to values): a define     *)
(* means its body, next(e) means e in t, and a case means the value of    *)
(* its first arm whose condition holds, false if none holds (the          *)
(* implicit "TRUE : FALSE" arm).                                          *)
RECURSIVE Holds(_, _, _, _)
Holds(D, e, s, t) ==
  CASE e.k = "id" /\ e.n \in DOMAIN D -> Holds(D, D[e.n], s, t)
    [] e.k = "id"  -> s[e.n]
    [] e.k = "lit" -> e.v
    [] e.k = "pre" /\ e.op = "!" -> ~Holds(D, e.a, s, t)
    [] e.k = "pre" -> Holds(D, e.a, t, t)
    [] e.k = "in" ->
         LET l == Holds(D, e.l, s, t)
             r == Holds(D, e.r, s, t)
         IN  (CASE e.op = "&" -> l /\ r     [] e.op = "|" -> l \/ r
                [] e.op = "xor" -> l # r    [] e.op = "->" -> l => r
                [] e.op = "<->" -> l = r)
    [] e.k = "case" ->
         LET hit == { i \in DOMAIN e.br : Holds(D, e.br[i][1], s, t) }
         IN  IF hit = {} THEN FALSE
             ELSE Holds(D, e.br[CHOOSE i \in hit : \A j \in hit : i <= j][2], s, t)

(* The set of assignments on which e holds, latch n being variable       *)
(* symbols[n] and its next state the variable after it.                  *)
Denote(e) ==
  { x \in Asg : Holds(prog.defines, e,
                      [n \in DOMAIN symbols |-> x[symbols[n]]],
                      [n \in DOMAIN symbols |-> x[symbols[n] + 1]]) }

(* SmvBdd::new gives every define, INVAR, TRANS, INIT and FAIRNESS       *)
(* expression the BDD of its meaning, whatever the order the defines map *)
(* is iterated in and whichever conversion first put a define in the     *)
(* cache: the cache, next_state of cached defines and the case fold      *)
(* preserve the semantics of the SMV program.                            *)
BddsDenoteExprs ==
  phase = "built" =>
    /\ \A d \in DOMAIN prog.defines : defines[d] = Denote(prog.defines[d])
    /\ invariants = Conj([i \in DOMAIN prog.invariants |-> Denote(prog.invariants[i])])
    /\ init = Conj([i \in DOMAIN prog.inits |-> Denote(prog.inits[i])])
    /\ trans = [i \in DOMAIN prog.trans |-> Denote(prog.trans[i])]
    /\ justice = [i \in DOMAIN prog.fairness |-> Denote(prog.fairness[i])]

=============================================================================
