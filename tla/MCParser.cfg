SPECIFICATION Spec
CONSTANTS
  Programs <- MCPrograms
  Families = {"expressions", "statements", "declarations", "tokens"}
  Alphabet = {"a", "1", "(", ")", "*", "=", "-", ".", ";", "<", "++", ","}
  MaxTokens = 4
INVARIANTS RoundTrip SemicolonsOptional NothingLost
CHECK_DEADLOCK FALSE
