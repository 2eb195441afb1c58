CONSTANTS
  NumVar = 2
  Programs <- PartialCase
SPECIFICATION Spec
INVARIANTS
  BddsDenoteExprs
