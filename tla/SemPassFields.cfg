CONSTANTS
  Classes <- ListFirst
  Field <- MCField
  Functions <- MCFunctions
  Methods <- MCMethods
  Sig <- MCSig
  NamespaceName <- MCNamespaceName
  Variable <- MCVariable
  VarType <- MCVarType
  Constructed <- MCConstructed
  Called <- MCCalled
  MaxStatements = 2
  NoClass = NoClass
  List = List
  Node = Node
  Typo = Typo
  f1 = f1
  f2 = f2
  add = add
  mangledF = mangledF
  mangledG = mangledG
  n = n
  w = w
SPECIFICATION Spec
INVARIANTS
  MethodsSeeTheirFields
