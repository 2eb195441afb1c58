\* Parser, BDD and formula families, written with the code's precedence table; at most three latches.
CONSTANTS
  Programs <- FrontEndPrograms
  WrittenPrec <- CodePrec
  RightAssoc <- NoRightAssoc
  Normalize <- NormalizeNames
  Spellings <- SpellTable
  NumVar = 3
  Extends <- ExtendChoices
  MaxPrefix = 1
  MaxLoop = 2
SPECIFICATION Spec
INVARIANTS
  TypeOK
  ParsedAsWritten
  BddsDenoteExprs
  LtlMeansViolation
