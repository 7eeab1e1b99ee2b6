SPECIFICATION Spec
CONSTANTS
  MaxLength = 3
  MaxLiteral = 4
  Texts <- MCTexts
INVARIANTS
  TokensOfText
  Located
PROPERTIES
  ImplementsCursor
CHECK_DEADLOCK FALSE
