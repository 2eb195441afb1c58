\* A model without TRANS, built with --trans-method partition.
CONSTANTS
  NumVar = 2
  Inputs <- NoTrans
  AutTrans <- Automata
SPECIFICATION Spec
INVARIANT ImagesAgree
