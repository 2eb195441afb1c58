\* TRANS lists of one to three conjuncts: partitioned images are exact.
CONSTANTS
  NumVar = 2
  Inputs <- NonEmptyInputs
  AutTrans <- Automata
SPECIFICATION Spec
INVARIANTS TypeOK PartsPreserveRelation ImagesAgree
