CONSTANTS
  Foo = Foo
  Bar = Bar
  putI = putI
  putV = putV
  mk = mk
  num = num
  vi = vi
  vb = vb
  vs = vs
  vp = vp
  vq = vq
  vv = vv
  va = va
  vf = vf
  rad = rad
  nxt = nxt
  flt = flt
  meth = meth
  area = area
  self = self
  nowhere = nowhere
  Class <- MCClass
  Function <- MCFunction
  Signature <- MCSignature
  Variable <- MCVariable
  VariableType <- MCVariableType
  Member <- MCMember
  This = self
  ThisClass = Foo
  Undeclared = nowhere
  Field <- MCField
  Method <- MCMethod
  ReturnType <- Int
  TypeNode <- MCTypeNode
  MaxDepth = 2
SPECIFICATION Spec
INVARIANTS
  MembersCanBeRead
