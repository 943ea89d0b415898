CONSTANTS
  Local <- MCLocal
  Param = {}
  Field = {}
  MaxStatements = 5
  MaxNesting = 1
  Returned = {"integer"}
  x = x
  y = y
  p = p
  f = f
SPECIFICATION Spec
SYMMETRY Symmetry
INVARIANTS
  MemorySafe
