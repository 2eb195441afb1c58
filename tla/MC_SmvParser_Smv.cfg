CONSTANTS
  Programs <- SmvPrecPrograms
  WrittenPrec <- SmvPrec
  RightAssoc <- SmvRightAssoc
  Normalize <- NormalizeNames
  Spellings <- SpellTable
SPECIFICATION Spec
INVARIANTS
  ParsedAsWritten
