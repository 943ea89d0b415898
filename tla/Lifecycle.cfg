CONSTANTS
  Class <- MCClass
  OBJ = OBJ
  NoClass = NoClass
  FieldName <- MCFieldName
  MethodName = {}
  Kind <- MCKind
  Newable <- MCNewable
  MaxOwnFields = 1
  A = A
  B = B
  C = C
  i = i
  p = p
  o = o
SPECIFICATION FairSpec
INVARIANTS
  TypeOK
  FreedOnce
  Initialized
  ReleaseReachesDestructor
PROPERTIES
  KilledIsFreed
