CONSTANTS
  Objects = {o1, o2, o3}
  MaxDepth = 2
  MaxLocals = 2
  MaxCount = 3
  Programs <- ReturnsLocal
  Null = Null
  Lit = Lit
  Wild = Wild
  Absent = Absent
SPECIFICATION Spec
CHECK_DEADLOCK FALSE
SYMMETRY Interchangeable
INVARIANT NoTrap
