CONSTANTS
  x = x
  y = y
  Names <- MCNames
  Programs <- MCPrograms
  MaxGlobals = 2
  MaxDecls = 3
  MaxFunctions = 2
  MaxDepth = 2
SPECIFICATION Spec
CHECK_DEADLOCK FALSE
INVARIANTS SameVariable WritesAllowed ReleasesOwn
SYMMETRY NameSymmetry
