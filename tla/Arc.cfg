CONSTANTS
  Local <- MCLocal
  Param <- MCParam
  Field <- MCField
  MaxStatements = 4
  MaxNesting = 1
  Returned = {"integer", "variable", "new_object"}
  x = x
  y = y
  p = p
  f = f
SPECIFICATION Spec
SYMMETRY Symmetry
INVARIANTS
  TypeOK
  SafeIfPlain
  NothingLeaks
  CallerKeepsItsObject
  CountsAreOwners
  BlocksTerminated
