----------------------------- MODULE PpsmcMain -----------------------------
(***************************************************************************)
(* main (main.rs): the --algorithm argument selects property_driven::check *)
(* or traditional::check, which run on the same SMV model.  The property- *)
(* driven checker reads --ev (the automaton split, AutomataSplit) and     *)
(* ignores --ga; the traditional one reads --ga (Traditional) and ignores *)
(* --ev.  Both share the system's TRANS and the verdict main prints.      *)
(***************************************************************************)
EXTENDS Naturals, FiniteSets, SequencesExt

CONSTANTS
  States, Invariants, FsmInit, NumAut, Edges, AutInit, Accepting,
  Fairness,   \* the FAIRNESS constraints, read by the traditional checker with --ga
  VarNames,   \* the SMV variables in declaration order
  EvLists,    \* the --ev argument lists
  Systems,    \* the transition relations the checker is run on
  CondBdd,    \* the BDDs of the conditions in ltl2tgba's never claims
  Written     \* the automata whose never claims BuchiAutomata::parse reads

VARIABLES
  algorithm,   \* args.algorithm
  trans, generalize, ba, ev, checked, verdict

vars == <<algorithm, trans, generalize, ba, ev, checked, verdict>>

T == INSTANCE Traditional
S == INSTANCE AutomataSplit
NC == INSTANCE NeverClaim

(* from_ltl: BuchiAutomata::parse of the never claim ltl2tgba writes for *)
(* the property's automaton.                                             *)
FromLtl == NC!Parse(NC!Claim(S!Parsed))

(* The reference: the property's automaton renumbered by first mention,  *)
(* and whether every claim of the bound reads back.                      *)
ClaimAutomaton == NC!Renumbered(S!Parsed)
WrittenReadBack == NC!ClaimRoundTrip

(* Command-line arguments: clap's defaults are property-driven, no --ev, *)
(* no --ga; every combination can be given, but the argument a checker    *)
(* ignores is left at its default.                                        *)
Init ==
  /\ algorithm \in {"PropertyDriven", "Traditional"}
  /\ T!Init
  /\ ba = FromLtl.aut
  /\ ev \in EvLists
  /\ algorithm = "PropertyDriven" => ~generalize
  /\ algorithm = "Traditional" => ev = << >>

(* algorithm(manager, smv, args) for the chosen checker. *)
PropertyDriven ==
  /\ algorithm = "PropertyDriven"
  /\ S!Split \/ S!Check
  /\ UNCHANGED <<algorithm, generalize>>

Traditional ==
  /\ algorithm = "Traditional"
  /\ T!Check
  /\ UNCHANGED <<algorithm, ba, ev>>

Done ==
  /\ checked
  /\ UNCHANGED vars

Next == PropertyDriven \/ Traditional \/ Done

Spec == Init /\ [][Next]_vars /\ WF_vars(PropertyDriven \/ Traditional)

-----------------------------------------------------------------------------
(* The type of the split automaton and of the --ev list. *)
TypeOK == S!TypeOK

(* traditional::check answers true iff the product has no reachable fair *)
(* cycle meeting the justice sets --ga selects (Traditional).             *)
TraditionalCorrect == algorithm = "Traditional" => T!TraditionalCorrect

(* Without --ga the traditional checker answers what the property-driven *)
(* fair-states loop answers on the same system (Traditional).             *)
AgreesWithPropertyDriven == algorithm = "Traditional" => T!AgreesWithPropertyDriven

(* property_driven::check answers on the automaton split by --ev what the *)
(* reference semantics answers on the parsed one (AutomataSplit, P7).     *)
SplitPreservesVerdict == algorithm = "PropertyDriven" => S!SplitPreservesVerdict

(* BuchiAutomata::parse reads back the automaton of every never claim the *)
(* translator writes, renumbered in order of first mention, and panics on *)
(* a claim with a state without successors (NeverClaim); in particular,   *)
(* until --ev splits it, the automaton main holds is the property's      *)
(* automaton so renumbered.                                                *)
ClaimRoundTrip ==
  /\ WrittenReadBack
  /\ ba.num = NumAut => ba = ClaimAutomaton

=============================================================================
