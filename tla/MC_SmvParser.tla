--------------------------- MODULE MC_SmvParser ---------------------------
(* SmvParser on the expressions of SmvInputs written with the precedences *)
(* of the SMV language, over &, |, -> and <->.                            *)
EXTENDS SmvParser, SmvInputs

=============================================================================
