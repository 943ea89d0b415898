CONSTANTS
  Thread <- MCThread
  Var <- MCVar
  Temp <- MCTemp
  Obj <- MCObj
  LowZero <- MCLowZero
  RefModulus <- MCRefModulus
  Null = Null
  t1 = t1
  t2 = t2
  x = x
  y = y
  tmp = tmp
  a = a
  b = b
  low = low
SPECIFICATION FairSpec
INVARIANTS TypeOK AccessesLive NoDangling CountIsOwners
PROPERTIES
  ImplementsOwnership
  OrphansDestroyed
