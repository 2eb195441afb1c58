------------------------------ MODULE SylvanBdd ------------------------------
(***************************************************************************)
(* The BDD library (sylvan-rs, behind the bdds traits): Sylvan and Bdd    *)
(* wrap the C functions of Sylvan.  A BDD is the set of assignments of    *)
(* the variables 0 .. VarCount - 1 it satisfies, so two BDDs are equal    *)
(* exactly when their nodes are (Sylvan's BDDs are canonical), and a C    *)
(* function is modelled by what it computes.                              *)
(*                                                                         *)
(* VAR_COUNT, what Sylvan::num_var returns, is one more than the largest  *)
(* index ith_var was called with.  SmvBdd::new calls ith_var(2i + 1) for  *)
(* every variable i of the program and every later ith_var has a smaller *)
(* index, so from then on VAR_COUNT is 2 * NumVar.                         *)
(***************************************************************************)
EXTENDS Naturals

CONSTANT NumVar   \* number of present-state variables

VarCount == 2 * NumVar
VarIdx == 0 .. VarCount - 1
Asg == [VarIdx -> BOOLEAN]

(* Sylvan::constant: MTBDD_TRUE or MTBDD_FALSE. *)
Constant(b) == IF b THEN Asg ELSE {}

(* Sylvan::ith_var: Sylvan_ithvar(i). *)
IthVar(i) == { x \in Asg : x[i] }

(* Sylvan::cube: the conjunction of the literals <<var, pol>>. *)
Cube(lits) == LET ls == lits IN { x \in Asg : \A l \in ls : x[l[1]] = l[2] }

(* The Not, BitAnd, BitOr and BitXor impls (and their &Bdd and _assign   *)
(* forms): Sylvan_not, Sylvan_and, Sylvan_or, Sylvan_xor.                *)
BddNot(f) == Asg \ f

BddAnd(f, g) == f \cap g

BddOr(f, g) == f \cup g

BddXor(f, g) == (f \ g) \cup (g \ f)

(* Bdd::is_constant: equality of nodes with Sylvan.constant(value). *)
IsConstant(f, b) == f = Constant(b)

(* Bdd::if_then_else: Sylvan_ite. *)
IfThenElse(f, t, e) == BddOr(BddAnd(f, t), BddAnd(BddNot(f), e))

(* Bdd::and_abstract: Sylvan_and_exists(self, x, cube), the cube being *)
(* Sylvan.cube of the variables vs, all positive: exists vs. (f & g),    *)
(* which keeps the value of every variable outside vs and lets those of *)
(* vs take any value.                                                      *)
AndAbstract(f, g, vs) ==
  { [v \in VarIdx |-> IF v \in vs THEN z[v] ELSE y[v]] : y \in BddAnd(f, g), z \in Asg }

(* Bdd::support: Sylvan_support, the positive cube of the variables f    *)
(* depends on.                                                           *)
Flip(x, v) == [x EXCEPT ![v] = ~x[v]]

BddSupport(f) ==
  LET g   == f
      dep == { w \in VarIdx : \E x \in Asg : (x \in g) # (Flip(x, w) \in g) }
  IN  Cube({ <<v, TRUE>> : v \in dep })

(* Bdd::support_index: the i < num_var for which support & !ith_var(i)   *)
(* is false.                                                             *)
SupportIndex(f) ==
  LET s == BddSupport(f)
  IN  { i \in VarIdx : IsConstant(BddAnd(s, BddNot(IthVar(i))), FALSE) }

(* The map Bdd::next_state builds: 2i |-> ith_var(2i + 1) for every even *)
(* 2i < num_var; previous_state's: 2i + 1 |-> ith_var(2i).               *)
NextMap == [v \in { w \in VarIdx : w % 2 = 0 } |-> v + 1]
PrevMap == [v \in { w \in VarIdx : w % 2 = 1 } |-> v - 1]

(* Sylvan_compose of f with a map: f with each mapped variable replaced  *)
(* by the one it maps to.                                                *)
Compose(f, map) ==
  LET g == f
  IN  { x \in Asg : [v \in VarIdx |-> IF v \in DOMAIN map THEN x[map[v]] ELSE x[v]] \in g }

NextState(f) == Compose(f, NextMap)

PreviousState(f) == Compose(f, PrevMap)

(* Bdd::post_image: Sylvan_relnext(self, tran) over all variables, the   *)
(* states reached from self, renamed to the present-state variables.     *)
BddPostImage(s, t) == PreviousState(AndAbstract(s, t, DOMAIN NextMap))

(* Bdd::pre_image: Sylvan_relprev(tran, self), the states with a        *)
(* successor in self.                                                    *)
BddPreImage(s, t) == AndAbstract(NextState(s), t, DOMAIN PrevMap)

=============================================================================
