CONSTANTS
  Class <- MCClass
  OBJ = OBJ
  NoClass = NoClass
  Typo = Typo
  FieldName <- MCFieldName
  MethodName <- MCMethodName
  Kind <- MCKind
  MaxFields = 3
  MaxMethods = 2
  A = A
  B = B
  C = C
  f = f
  g = g
  m = m
SPECIFICATION TableSpec
SYMMETRY Symmetry
INVARIANTS
  TableTypeOK
  FieldIndexesRight
  SubclassesCompatible
  VtablesBuildable
  ForwardParents
