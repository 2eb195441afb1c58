---------------------------- MODULE SmvFrontEnd ----------------------------
(***************************************************************************)
(* The path from an SMV file to the formula handed to the LTL translator, *)
(* as main and check run it: Smv::from_file (SmvParser), SmvBdd::new     *)
(* (SmvBdd), then get_ltl or ltl_to_automata_preprocess (LtlPreprocess)   *)
(* on the same Smv.  Each stage either finishes or panics, and a panic     *)
(* ends the program.  The iteration order of the defines HashMap is       *)
(* chosen when SmvBdd::new iterates it; the algorithm, --e, --fd and --ga  *)
(* when the formula is built.                                             *)
(***************************************************************************)
EXTENDS Naturals, Sequences, SequencesExt, SmvAst

CONSTANTS
  Programs,       \* the SMV programs written, as syntax
  WrittenPrec,    \* the operator precedences the files are written for
  RightAssoc,     \* the operators written as right associative
  Normalize(_),   \* parse_ident's renaming
  Spellings,      \* the characters of the words the programs are written with
  NumVar,         \* the most latches a program declares
  Extends,        \* the --e index lists
  MaxPrefix,      \* the longest stem of the lasso words
  MaxLoop         \* the longest loop of the lasso words

VARIABLES
  prog, text, phase, smv,                                \* Smv::from_file
  bphase, symbols, defines, invariants, trans, init, justice,  \* SmvBdd::new
  mode, extend, flatten, ltl, fphase                     \* the formula

parserVars == <<prog, text, phase, smv>>
bddVars == <<bphase, symbols, defines, invariants, trans, init, justice>>
ltlVars == <<mode, extend, flatten, ltl, fphase>>
vars == <<parserVars, bddVars, ltlVars>>

P == INSTANCE SmvParser
Bdd == INSTANCE SmvBdd WITH prog <- smv, phase <- bphase, order <- << >>
LtlOf(md, ex, fl) == INSTANCE LtlPreprocess WITH mode <- md, extend <- ex, flatten <- fl

Modes == {"pd", "trad", "ga"}

(* The flags each algorithm reads: --e only the property-driven one, --fd *)
(* not the traditional one with --ga.                                     *)
Flags(m, e, f) == (m # "pd" => e = << >>) /\ (m = "ga" => ~f)

(* The panics between the program and the automaton: smv.ltlspecs[0] and *)
(* smv.trans[x] out of bounds, and an LTLSPEC atom that is neither a      *)
(* define nor a latch, which from_ltl cannot turn into a BDD.            *)
RECURSIVE Names(_)
Names(e) ==
  CASE e.k = "id"   -> {e.n}
    [] e.k = "lit"  -> {}
    [] e.k = "pre"  -> Names(e.a)
    [] e.k = "in"   -> Names(e.l) \cup Names(e.r)
    [] e.k = "case" -> UNION { Names(e.br[i][1]) \cup Names(e.br[i][2]) : i \in DOMAIN e.br }

FormulaPanics(m, e) ==
  \/ smv.ltlspecs = << >>
  \/ m = "pd" /\ \E i \in DOMAIN e : e[i] >= Len(smv.trans)
  \/ ~(Names(smv.ltlspecs[1]) \subseteq DOMAIN smv.defines \cup ToSet(smv.vars))

Init ==
  /\ P!Init
  /\ bphase = "start" /\ symbols = << >> /\ defines = << >>
  /\ invariants = Bdd!Asg /\ trans = << >> /\ init = Bdd!Asg /\ justice = << >>
  /\ mode = "pd" /\ extend = << >> /\ flatten = FALSE
  /\ ltl = LtlOf(mode, extend, flatten)!None /\ fphase = "start"

(* Smv::from_file. *)
Parse ==
  /\ P!Parse
  /\ UNCHANGED <<bddVars, ltlVars>>

(* SmvBdd::new in property_driven::check and traditional::check. *)
Build ==
  /\ phase = "parsed"
  /\ \E order \in SetToSeqs(DOMAIN smv.defines) : Bdd!NewIn(order)
  /\ UNCHANGED <<prog, text, phase, ltlVars>>

(* get_ltl in property_driven::check, or the formula of                  *)
(* traditional::check without and with --ga.                              *)
Formula ==
  /\ bphase = "built" /\ fphase = "start"
  /\ \E m \in Modes, e \in Extends, f \in BOOLEAN :
       /\ Flags(m, e, f)
       /\ mode' = m /\ extend' = e /\ flatten' = f
       /\ IF FormulaPanics(m, e)
            THEN fphase' = "panic" /\ UNCHANGED ltl
            ELSE /\ fphase' = "built"
                 /\ \/ LtlOf(m, e, f)!PropertyDriven
                    \/ LtlOf(m, e, f)!Traditional
                    \/ LtlOf(m, e, f)!TraditionalGa
  /\ UNCHANGED <<parserVars, bddVars>>

Done ==
  /\ \/ phase = "panic" \/ bphase = "panic" \/ fphase # "start"
  /\ UNCHANGED vars

Next == Parse \/ Build \/ Formula \/ Done

Spec == Init /\ [][Next]_vars /\ WF_vars(Parse) /\ WF_vars(Build) /\ WF_vars(Formula)

-----------------------------------------------------------------------------
(* Types of the parser and of the BDD construction. *)
TypeOK == P!TypeOK /\ Bdd!TypeOK

(* Smv::from_file reads every program as it was written (SmvParser). *)
ParsedAsWritten == P!ParsedAsWritten

(* SmvBdd::new, on what the parser returns and in every iteration order  *)
(* of its defines, gives every define, INVAR, TRANS, INIT and FAIRNESS    *)
(* expression the BDD of its meaning (SmvBdd).                            *)
BddsDenoteExprs == Bdd!BddsDenoteExprs

(* The formula handed to the LTL translator holds on exactly the words   *)
(* that violate LTLSPEC[0] (with the --e TRANS and the FAIRNESS folded in *)
(* where get_ltl folds them), whatever the algorithm, --e, --fd and --ga  *)
(* (LtlPreprocess).                                                       *)
LtlMeansViolation == LtlOf(mode, extend, flatten)!LtlMeansViolation

=============================================================================
