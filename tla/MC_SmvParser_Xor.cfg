\* Names that start with xor, declared and used as the spec allows, written with the code's precedence table.
CONSTANTS
  Programs <- XorPrograms
  WrittenPrec <- CodePrec
  RightAssoc <- NoRightAssoc
  Normalize <- NormalizeNames
  Spellings <- SpellTable
SPECIFICATION Spec
INVARIANTS
  ParsedAsWritten
