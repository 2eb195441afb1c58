\* A TRANS with an unsatisfiable conjunct, built with --trans-method partition.
CONSTANTS
  NumVar = 2
  Inputs <- UnsatInputs
  AutTrans <- Automata
SPECIFICATION Spec
INVARIANT NoPanic
