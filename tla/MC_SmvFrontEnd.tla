-------------------------- MODULE MC_SmvFrontEnd --------------------------
(* The three program families of SmvInputs, read with the code's own     *)
(* precedence table.                                                      *)
EXTENDS SmvFrontEnd, SmvInputs

FrontEndPrograms == ParserPrograms \cup BddPrograms \cup LtlPrograms

=============================================================================
