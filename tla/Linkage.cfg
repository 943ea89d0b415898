SPECIFICATION Spec
CONSTANTS
  A = A
  B = B
  OBJ = OBJ
  Class = {A, B}
  MaxStatements = 4
  Ancestry <- MCAncestry
  MethodTables <- MCMethodTables
  Functions <- MCFunctions
  Alias <- MCAlias
INVARIANTS TypeOK OneBody VtablesResolved CallsFindMethods
