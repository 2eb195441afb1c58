----------------------------- MODULE NeverClaim -----------------------------
(***************************************************************************)
(* BuchiAutomata::parse (automata.rs): the never claim ltl2tgba -s prints *)
(* is read block by block with nom, and the automaton is built from the   *)
(* blocks: state_ident_get_id numbers a state identifier when it is first *)
(* met, as a block's label or as a goto target; accept_ and _init in the  *)
(* identifier mark accepting and initial states; skip is a self-loop     *)
(* under (1), that is true.                                               *)
(*                                                                         *)
(* A claim is a sequence of lines, each a record whose kind says what the *)
(* line is: the header, a label "ident:", "if", ":: cond -> goto dest",   *)
(* "fi;", "skip", "false;" and the closing brace.  skip_line consumes one *)
(* line whatever it is; take_until(":") finds the colon of a label line; *)
(* parse_trans matches a transition line only.  An identifier is its      *)
(* sequence of characters.  A condition other than (1) is a string that   *)
(* Expr::from and to_bdd (logic_form, outside this repository) turn into  *)
(* a BDD, here the set of States it denotes, given by CondBdd.            *)
(*                                                                         *)
(* The automaton built is the record AutomataSplit reads: num, the edges  *)
(* in add_edge order <<from, to, label>>, init and acc.                   *)
(***************************************************************************)
EXTENDS Naturals, Sequences, SequencesExt, FiniteSetsExt

CONSTANTS
  States,    \* what a BDD label denotes: a set of states of the SMV model
  CondBdd,   \* condition string |-> the set of States its BDD denotes
  Written    \* the automata whose claims are read: [num, edges, acc], state 0 initial

Line(k) == [k |-> k]
LabelLine(x) == [k |-> "label", ident |-> x]
TransLine(c, x) == [k |-> "trans", cond |-> c, dest |-> x]

AcceptPrefix == << "a", "c", "c", "e", "p", "t", "_" >>
InitSuffix == << "_", "i", "n", "i", "t" >>

Fail == [ok |-> FALSE, pos |-> 0, ident |-> << >>, trans |-> << >>]
StateResult(q, x, ts) == [ok |-> TRUE, pos |-> q, ident |-> x, trans |-> ts]

(* Where many1(parse_trans) stops: the first line from i on that is not a *)
(* transition.                                                            *)
TransEnd(C, i) == Min({ j \in i .. Len(C) + 1 : j > Len(C) \/ C[j].k # "trans" })

(* Variant of parse_state without the skip case. *)
ParseStateNoSkip(C, i) ==
  LET e == TransEnd(C, i + 2)
  IN  IF i > Len(C) \/ C[i].k # "label" \/ e = i + 2 \/ e > Len(C) THEN Fail
      ELSE StateResult(e + 1, C[i].ident,
                       [j \in 1 .. e - i - 2 |-> <<C[i + 1 + j].cond, C[i + 1 + j].dest>>])

(* parse_state at line i: the label, skip_line over the rest of it; then  *)
(* either skip, or skip_line over "if", many1(parse_trans) and skip_line  *)
(* over "fi;".  Each skip_line needs a line to consume.                    *)
ParseState(C, i) ==
  LET e == TransEnd(C, i + 2)
  IN  CASE i > Len(C) \/ C[i].k # "label"   -> Fail
        [] i < Len(C) /\ C[i + 1].k = "skip" ->
             StateResult(i + 2, C[i].ident, << <<"(1)", C[i].ident>> >>)
        [] e = i + 2 \/ e > Len(C)           -> Fail
        [] OTHER ->
             StateResult(e + 1, C[i].ident,
                         [j \in 1 .. e - i - 2 |-> <<C[i + 1 + j].cond, C[i + 1 + j].dest>>])

(* many1(parse_state): the states read and where it stopped. *)
RECURSIVE ManyStates(_, _, _)
MoreStates(C, i, acc, r) ==
  IF r.ok THEN ManyStates(C, r.pos, Append(acc, [ident |-> r.ident, trans |-> r.trans]))
          ELSE [pos |-> i, states |-> acc]
ManyStates(C, i, acc) == MoreStates(C, i, acc, ParseState(C, i))

(* The automaton under construction: ids lists the identifiers in the   *)
(* order state_ident_get_id numbered them, so the id of ids[k] is k - 1  *)
(* and num_state is Len(ids).                                            *)
Empty == [ids |-> << >>, edges |-> << >>, init |-> {}, acc |-> {}]

IdOf(a, x) == CHOOSE k \in DOMAIN a.ids : a.ids[k] = x

(* Variant of state_ident_get_id that numbers x anew every time. *)
GetIdAlwaysNew(a, x) == [a EXCEPT !.ids = Append(@, x)]

(* state_ident_get_id: the id of x, numbered num_state() and extend_to'd *)
(* if x is new.                                                          *)
GetId(a, x) == IF x \in Range(a.ids) THEN a ELSE [a EXCEPT !.ids = Append(@, x)]

(* The label of a transition: (1) is LitExpr(true), anything else the BDD *)
(* of the parsed expression.                                              *)
EdgeBdd(c) == IF c = "(1)" THEN States ELSE CondBdd[c]

(* One transition of the loop over trans: the id of dist, then add_edge. *)
AddTrans(s, a, t) ==
  LET b == GetId(a, t[2])
  IN  [b EXCEPT !.edges = Append(@, <<s, IdOf(b, t[2]) - 1, EdgeBdd(t[1])>>)]

(* One block of the loop over states. *)
AddState(a, st) ==
  LET b == GetId(a, st.ident)
      s == IdOf(b, st.ident) - 1
      c == [b EXCEPT !.acc  = IF IsPrefix(AcceptPrefix, st.ident) THEN @ \cup {s} ELSE @,
                     !.init = IF IsSuffix(InitSuffix, st.ident) THEN @ \cup {s} ELSE @]
  IN  FoldLeft(LAMBDA x, t : AddTrans(s, x, t), c, st.trans)

Automaton(a) == [num |-> Len(a.ids), edges |-> a.edges, init |-> a.init, acc |-> a.acc]

(* Variant of parse without assert!(input.is_empty()). *)
ParseBodyNoAssert(C, m) ==
  IF m.states = << >>
    THEN [ok |-> FALSE, aut |-> Automaton(Empty)]
    ELSE [ok |-> TRUE, aut |-> Automaton(FoldLeft(AddState, Empty, m.states))]

(* BuchiAutomata::parse: skip_line over the header, many1(parse_state),  *)
(* skip_line over the closing brace, assert!(input.is_empty()); ok is     *)
(* FALSE where an unwrap or the assert! panics.                           *)
ParseBody(C, m) ==
  IF m.states = << >> \/ m.pos # Len(C)
    THEN [ok |-> FALSE, aut |-> Automaton(Empty)]
    ELSE [ok |-> TRUE, aut |-> Automaton(FoldLeft(AddState, Empty, m.states))]

Parse(C) == ParseBody(C, ManyStates(C, 2, << >>))

-----------------------------------------------------------------------------
(* The reference: the never claim of an automaton A, as ltl2tgba -s      *)
(* prints it, one block per state in the order of its numbers, the       *)
(* initial state 0 first.  A state is named T0_ or accept_ then init or   *)
(* S<n>; a block is skip for a lone self-loop under true, false; for a   *)
(* state without successors, and the transitions between if and fi;      *)
(* otherwise.                                                             *)
Out(A, s) == SelectSeq(A.edges, LAMBDA e : e[1] = s)

Name(A, s) ==
  (IF s \in A.acc THEN AcceptPrefix ELSE << "T", "0", "_" >>)
    \o (IF s = 0 THEN << "i", "n", "i", "t" >> ELSE << "S", ToString(s) >>)

CondText(l) == IF l = States THEN "(1)" ELSE CHOOSE c \in DOMAIN CondBdd : CondBdd[c] = l

Block(A, s) ==
  LET out == Out(A, s)
  IN  << LabelLine(Name(A, s)) >> \o
      CASE out = << >>                     -> << Line("false") >>
        [] out = << <<s, s, States>> >>    -> << Line("skip") >>
        [] OTHER -> << Line("if") >>
                    \o [j \in DOMAIN out |-> TransLine(CondText(out[j][3]), Name(A, out[j][2]))]
                    \o << Line("fi") >>

Claim(A) ==
  << Line("head") >> \o FlattenSeq([s \in 1 .. A.num |-> Block(A, s - 1)]) \o << Line("foot") >>

(* The states of A in the order the claim first names them: each block's *)
(* label, then the targets of its transitions.                           *)
Mentions(A) == FlattenSeq([s \in 1 .. A.num |-> << s - 1 >> \o [j \in DOMAIN Out(A, s - 1) |-> Out(A, s - 1)[j][2]]])
FirstMention(A, s) == Min({ k \in DOMAIN Mentions(A) : Mentions(A)[k] = s })
Rank(A, s) == Cardinality({ t \in 0 .. A.num - 1 : FirstMention(A, t) < FirstMention(A, s) })

(* A with its states renumbered by Rank. *)
Renumbered(A) ==
  [num   |-> A.num,
   edges |-> FlattenSeq([s \in 1 .. A.num |->
               [j \in DOMAIN Out(A, s - 1) |->
                 << Rank(A, s - 1), Rank(A, Out(A, s - 1)[j][2]), Out(A, s - 1)[j][3] >>]]),
   init  |-> { Rank(A, 0) },
   acc   |-> { Rank(A, s) : s \in A.acc }]

(* BuchiAutomata::parse reads back every claim ltl2tgba writes: the same *)
(* automaton up to the numbering of first mention, with its transitions  *)
(* in the claim's order, an accepting initial state (accept_init) both    *)
(* accepting and initial, and skip a self-loop under true.  Only a claim *)
(* with a false; block, a state without successors, panics.              *)
ClaimRoundTrip ==
  \A A \in Written :
    LET r == Parse(Claim(A))
    IN  IF \A s \in 0 .. A.num - 1 : Out(A, s) # << >>
          THEN r.ok /\ r.aut = Renumbered(A)
          ELSE ~r.ok

=============================================================================
