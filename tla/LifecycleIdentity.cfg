CONSTANTS
  Class <- MCClass
  OBJ = OBJ
  NoClass = NoClass
  FieldName <- MCFieldName
  MethodName = {}
  Kind <- MCKind
  Newable <- MCClass
  MaxOwnFields = 0
  A = A
  B = B
  C = C
  i = i
  p = p
  o = o
SPECIFICATION Spec
SYMMETRY Symmetry
INVARIANTS
  HeaderNamesType
