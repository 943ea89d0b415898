------------------------- MODULE ExpressionsProofs --------------------------
(***************************************************************************)
(* The two visitors agree on every statement of every program: for any     *)
(* classes, functions, variables and members, and expressions of any size, *)
(* the values of the generator have the types of the semantic pass, and    *)
(* what that pass accepts is generated correctly, or the statement uses    *)
(* one of the constructs in Gaps.                                          *)
(***************************************************************************)
EXTENDS Expressions, TLAPS

(* Whatever is not checked, the tables hold types and values, ...          *)
AnyType == {NullType} \cup [base : Bases, stars : Nat, size : Nat, field : BOOLEAN]
AnyValue == [base : Bases \cup {"none"}, stars : Nat]
AnyNode == [place : LhsPlaces \cup ValuePlaces, type : AnyType, value : AnyValue]

Shaped ==
  /\ stack \in Seq(AnyNode)
  /\ Len(stack) <= MaxDepth
  /\ errors \in BOOLEAN
  /\ broken \in BOOLEAN
  /\ gap \in Gaps
  /\ verdict \in {"open", "accepted", "rejected", "crashed"}

(* ... and of a statement without a gap, a node that has a type has one    *)
(* that LLVM knows, and the value of that type; a node without a type has  *)
(* been reported.                                                          *)
Follows(node) ==
  node.value = IF node.place \in LhsPlaces THEN AddressOf(LLVMType(node.type))
               ELSE LLVMType(node.type)

Typed(node) ==
  node.type.base \notin Function /\ LLVMType(node.type) # NoValue /\ Follows(node)

Good(node, reported) == IF node.type = NullType THEN reported ELSE Typed(node)

Sound ==
  gap = "none" =>
    /\ \A i \in 1 .. Len(stack) : Good(stack[i], errors)
    /\ broken => errors
    /\ verdict = "crashed" => errors

IInv == Shaped /\ Sound /\ (verdict = "accepted" => ~errors)

-----------------------------------------------------------------------------
(* Types.                                                                  *)

(* The built-in names are no classes and no functions.                     *)
LEMMA Builtins ==
  /\ \A n \in Integers \cup {"void", "float", "classdef"} : n \in Bases /\ n \notin Function
  /\ "null" \notin Bases /\ "none" \notin Bases
  /\ \A c \in Class : c \in Bases /\ c \notin Function
  BY NamesDistinct DEF Bases, Integers

(* A declared type is a type, and not one of a function.                   *)
LEMMA DataTyped ==
  ASSUME NEW t \in DataType
  PROVE  /\ t \in AnyType /\ FieldOf(t) \in AnyType
         /\ t # NullType /\ FieldOf(t) # NullType
         /\ t.base \notin Function /\ FieldOf(t).base \notin Function
         /\ LLVMType(FieldOf(t)) = LLVMType(t)
<1>1. /\ t \in [base : Bases, stars : Nat, size : Nat, field : BOOLEAN]
      /\ t.base \notin Function /\ t.base # "null"
  BY Builtins DEF DataType
<1>2. /\ FieldOf(t) \in [base : Bases, stars : Nat, size : Nat, field : BOOLEAN]
      /\ FieldOf(t).base = t.base /\ FieldOf(t).stars = t.stars /\ FieldOf(t).size = t.size
  BY <1>1 DEF FieldOf
<1>3. NullType.base = "null"
  BY DEF NullType, Type
<1>4. t # NullType /\ FieldOf(t) # NullType
  BY <1>1, <1>2, <1>3
<1> QED
  BY <1>1, <1>2, <1>4 DEF AnyType, LLVMType

(* getLLVMType gives a value's type, or null.                              *)
LEMMA LLVMTyped ==
  ASSUME NEW t \in AnyType
  PROVE  LLVMType(t) \in AnyValue
  BY Builtins DEF AnyType, AnyValue, LLVMType, NoValue, LLVM, NullType, Type

(* There is an address of everything, and what a pointer points to.        *)
LEMMA Addresses ==
  ASSUME NEW v \in AnyValue
  PROVE  /\ AddressOf(v) \in AnyValue
         /\ AddressOf(v) # NoValue
         /\ AddressOf(v).stars > 0
         /\ Dereferenced(AddressOf(v)) = v
         /\ v.stars > 0 => Dereferenced(v) \in AnyValue
<1>1. /\ AddressOf(v) \in AnyValue
      /\ AddressOf(v).base = v.base /\ AddressOf(v).stars = v.stars + 1
  BY DEF AnyValue, AddressOf
<1>2. AddressOf(v).stars # NoValue.stars
  BY <1>1 DEF NoValue, LLVM, AnyValue
<1>3. \A w \in AnyValue : Dereferenced(w) = [base |-> w.base, stars |-> w.stars - 1]
  BY DEF AnyValue, Dereferenced
<1>5. AddressOf(v).stars - 1 = v.stars /\ v = [base |-> v.base, stars |-> v.stars]
  BY <1>1 DEF AnyValue
<1>6. Dereferenced(AddressOf(v)) = v
  BY <1>1, <1>3, <1>5, Zenon
<1>4. v.stars > 0 => Dereferenced(v) \in AnyValue
  BY DEF AnyValue, Dereferenced
<1> QED
  BY <1>1, <1>2, <1>4, <1>5, <1>6 DEF AnyValue

(* What the semantic pass makes of a load has the value of its type.       *)
LEMMA Loads ==
  ASSUME NEW a \in AnyNode
  PROVE  /\ Load(a) \in AnyNode
         /\ Load(a).type = a.type
         /\ a.place \in LhsPlaces /\ Typed(a) => Typed(Load(a)) /\ Loadable(a)
<1>1. a.value \in AnyValue /\ a.type \in AnyType
  BY DEF AnyNode
<1>2. NoValue \in AnyValue
  BY DEF NoValue, LLVM, AnyValue
<1>3. Load(a) \in AnyNode /\ Load(a).type = a.type /\ Load(a).place = "base"
  BY <1>1, <1>2, Addresses DEF Load, Node, AnyNode, ValuePlaces
<1>4. ASSUME a.place \in LhsPlaces, Typed(a) PROVE Typed(Load(a)) /\ Loadable(a)
  <2>1. LLVMType(a.type) \in AnyValue
    BY <1>1, LLVMTyped
  <2>2. a.value = AddressOf(LLVMType(a.type))
    BY <1>4 DEF Typed, Follows
  <2>3. a.value.stars > 0 /\ Dereferenced(a.value) = LLVMType(a.type)
    BY <2>1, <2>2, Addresses
  <2>4. Load(a).value = LLVMType(a.type)
    BY <2>3 DEF Load, Node
  <2>5. Typed(Load(a))
    BY <1>3, <1>4, <2>4 DEF Typed, Follows, LhsPlaces
  <2>6. a.value.base = a.type.base
    BY <1>4, <2>2 DEF Typed, LLVMType, AddressOf, LLVM
  <2>7. Loadable(a)
    BY <1>4, <2>3, <2>6 DEF Loadable, Typed, LLVM
  <2> QED
    BY <2>5, <2>7
<1> QED
  BY <1>3, <1>4

(* A value that isAssignable admits, without the conversions that it does  *)
(* not see, has the LLVM type of the place it goes to.                     *)
LEMMA AssignableIsExact ==
  ASSUME NEW r \in AnyType, NEW l \in AnyType, NEW u \in BOOLEAN,
         r # NullType, l # NullType, r.base \notin Function, LLVMType(r) # NoValue,
         Exact(r, l), Assignable(r, l, u)
  PROVE  LLVMType(r) = LLVMType(l) /\ l.base = r.base /\ LLVMType(r) # LLVM("void", 0)
<1> DEFINE q == Unfielded(r)
           k == [l EXCEPT !.stars = @ - q.stars]
<1>1. /\ r \in [base : Bases, stars : Nat, size : Nat, field : BOOLEAN]
      /\ l \in [base : Bases, stars : Nat, size : Nat, field : BOOLEAN]
  BY DEF AnyType
<1>2. q.base = r.base /\ q.stars = r.stars /\ q.size = r.size
  BY <1>1 DEF Unfielded
<1>3. r.size = 0 /\ r.base # "float" /\ r.base # "void"
  BY DEF LLVMType, Exact
<1>4. PointerAssignable(q, l, u)
  BY <1>2 DEF Assignable, IsFunction
<1>5. l.stars >= r.stars /\ BaseAssignable(r.base, k, u)
  BY <1>1, <1>2, <1>3, <1>4 DEF PointerAssignable, TargetAssignable
<1>6. k.base = l.base /\ k.size = l.size /\ k.stars = l.stars - r.stars
  BY <1>1, <1>2
<1> HIDE DEF q, k
<1>7. CASE r.base \in Integers
  <2>1. l.stars = r.stars /\ l.size = 0 /\ l.base \in Integers \cup {"float"}
    BY <1>1, <1>3, <1>5, <1>6, <1>7, Builtins
       DEF BaseAssignable, Numeric, Unfielded, IsClass, Type, Integers
  <2> QED
    BY <1>3, <1>7, <2>1 DEF Exact, LLVMType, LLVM, Integers
<1>8. CASE r.base \in Class
  <2>1. r.base \notin Integers \cup {"float", "void", "classdef"}
    BY <1>8, NamesDistinct
  <2>2. IsClass(k) /\ k.base = r.base
    BY <1>5, <2>1 DEF BaseAssignable
  <2>3. l.stars = r.stars /\ l.size = 0 /\ l.base = r.base
    BY <1>1, <1>5, <1>6, <2>2 DEF IsClass
  <2> QED
    BY <1>3, <2>1, <2>3 DEF LLVMType, LLVM
<1>9. CASE r.base = "classdef"
  <2>1. k = Type("classdef", 0)
    BY <1>5, <1>9, NamesDistinct DEF BaseAssignable, Integers
  <2>2. l.stars = r.stars /\ l.size = 0 /\ l.base = r.base
    BY <1>1, <1>5, <1>6, <1>9, <2>1 DEF Type
  <2> QED
    BY <1>3, <1>9, <2>2 DEF LLVMType, LLVM
<1> QED
  BY <1>1, <1>3, <1>7, <1>8, <1>9 DEF Bases

-----------------------------------------------------------------------------
(* Steps.                                                                  *)

(* The last n nodes are nodes, and what is on the stack when they are      *)
(* replaced by another.                                                    *)
LEMMA StackVisited ==
  ASSUME Shaped, NEW n \in 0 .. Len(stack), NEW node \in AnyNode
  PROVE  LET after == Append(SubSeq(stack, 1, Len(stack) - n), node)
         IN  /\ after \in Seq(AnyNode)
             /\ Len(after) = Len(stack) - n + 1
             /\ \A i \in 1 .. Len(after) :
                  after[i] = IF i = Len(stack) - n + 1 THEN node ELSE stack[i]
<1> DEFINE rest == SubSeq(stack, 1, Len(stack) - n)
<1>1. stack \in Seq(AnyNode) /\ Len(stack) \in Nat
  BY DEF Shaped
<1>2. rest \in Seq(AnyNode) /\ Len(rest) = Len(stack) - n
  BY <1>1
<1>3. \A i \in 1 .. Len(stack) - n : rest[i] = stack[i]
  BY <1>1
<1> HIDE DEF rest
<1>4. Len(stack) - n \in Nat
  BY <1>1
<1>5. /\ Append(rest, node) \in Seq(AnyNode)
      /\ Len(Append(rest, node)) = Len(rest) + 1
      /\ \A i \in 1 .. Len(rest) + 1 :
           Append(rest, node)[i] = IF i = Len(rest) + 1 THEN node ELSE rest[i]
  BY <1>2, <1>4
<1>6. /\ Append(rest, node) \in Seq(AnyNode)
      /\ Len(Append(rest, node)) = Len(stack) - n + 1
      /\ \A i \in 1 .. Len(stack) - n + 1 :
           Append(rest, node)[i] = IF i = Len(stack) - n + 1 THEN node ELSE stack[i]
  BY <1>2, <1>3, <1>4, <1>5
<1> QED
  BY <1>6 DEF rest

(* What is logged.                                                         *)
LEMMA Flags ==
  ASSUME IInv
  PROVE  errors \in BOOLEAN /\ broken \in BOOLEAN /\ Len(stack) \in Nat /\ 0 \in 0 .. Len(stack)
  BY DEF IInv, Shaped

(* A visit keeps the invariant if its node is one and, as long as there is *)
(* no gap, is good, and if a mistake of the generator or a crash of the    *)
(* semantic pass comes with an error.                                      *)
LEMMA VisitStep ==
  ASSUME IInv, NEW n \in 0 .. Len(stack), NEW node, NEW unchecked \in Gaps,
         verdict = "open", Len(stack) - n < MaxDepth,
         errors' \in BOOLEAN, broken' \in BOOLEAN, errors => errors',
         gap' = IF gap = "none" THEN unchecked ELSE gap,
         gap = "none" /\ unchecked = "none" => (broken' => broken \/ errors'),
         \/ /\ stack' = <<>> /\ verdict' = "crashed"
            /\ gap = "none" /\ unchecked = "none" => errors'
         \/ /\ stack' = Append(SubSeq(stack, 1, Len(stack) - n), node) /\ verdict' = "open"
            /\ node \in AnyNode
            /\ gap = "none" /\ unchecked = "none" =>
                 IF node.type = NullType THEN errors' ELSE Typed(node)
  PROVE  IInv'
<1>1. Shaped /\ Sound /\ MaxDepth \in Nat
  BY DepthNatural DEF IInv
<1>2. Len(stack) \in Nat
  BY <1>1 DEF Shaped
<1>3. gap' \in Gaps /\ (gap' = "none" => gap = "none" /\ unchecked = "none")
  BY <1>1 DEF Shaped
<1>4. gap' = "none" => (broken' => errors')
  BY <1>1, <1>3 DEF Sound
<1>5. CASE stack' = <<>> /\ verdict' = "crashed" /\ (gap = "none" /\ unchecked = "none" => errors')
  <2>1. stack' \in Seq(AnyNode) /\ Len(stack') = 0 /\ 1 .. Len(stack') = {}
    BY <1>5
  <2>2. Shaped'
    BY <1>1, <1>3, <1>5, <2>1 DEF Shaped
  <2>3. Sound'
    BY <1>3, <1>4, <1>5, <2>1 DEF Sound
  <2> QED
    BY <1>5, <2>2, <2>3 DEF IInv
<1>6. CASE /\ stack' = Append(SubSeq(stack, 1, Len(stack) - n), node) /\ verdict' = "open"
           /\ node \in AnyNode
           /\ gap = "none" /\ unchecked = "none" =>
                IF node.type = NullType THEN errors' ELSE Typed(node)
  <2> DEFINE after == Append(SubSeq(stack, 1, Len(stack) - n), node)
  <2>1. /\ stack' \in Seq(AnyNode)
        /\ Len(stack') = Len(stack) - n + 1
        /\ \A i \in 1 .. Len(stack') :
             stack'[i] = IF i = Len(stack) - n + 1 THEN node ELSE stack[i]
    <3>1. stack' = after
      BY <1>6
    <3>2. /\ after \in Seq(AnyNode)
          /\ Len(after) = Len(stack) - n + 1
          /\ \A i \in 1 .. Len(after) :
               after[i] = IF i = Len(stack) - n + 1 THEN node ELSE stack[i]
      BY <1>1, <1>6, StackVisited
    <3> HIDE DEF after
    <3> QED
      BY <3>1, <3>2
  <2>2. Len(stack') <= MaxDepth
    BY <1>1, <1>2, <2>1
  <2>3. Shaped'
    BY <1>3, <1>6, <2>1, <2>2 DEF Shaped
  <2>4. ASSUME gap' = "none", NEW i \in 1 .. Len(stack') PROVE Good(stack'[i], errors')
    <3>1. CASE i = Len(stack) - n + 1
      BY <1>3, <1>6, <2>1, <2>4, <3>1 DEF Good
    <3>2. CASE i # Len(stack) - n + 1
      <4>1. i \in 1 .. Len(stack) /\ stack'[i] = stack[i]
        BY <1>2, <2>1, <2>4, <3>2
      <4>2. Good(stack[i], errors)
        BY <1>1, <1>3, <2>4, <4>1 DEF Sound
      <4> QED
        BY <4>1, <4>2 DEF Good
    <3> QED
      BY <3>1, <3>2
  <2>5. Sound'
    BY <1>4, <1>6, <2>4 DEF Sound
  <2> QED
    BY <1>6, <2>3, <2>5 DEF IInv
<1> QED
  BY <1>5, <1>6

(* The end of a statement, likewise.                                       *)
LEMMA EndStep ==
  ASSUME IInv, NEW unchecked \in Gaps,
         stack' = <<>>, verdict' \in {"crashed", "rejected", "accepted"},
         verdict' = "accepted" => ~errors',
         errors' \in BOOLEAN, broken' \in BOOLEAN, errors => errors',
         gap' = IF gap = "none" THEN unchecked ELSE gap,
         gap = "none" /\ unchecked = "none" =>
           (broken' => broken \/ errors') /\ (verdict' = "crashed" => errors')
  PROVE  IInv'
<1>1. Shaped /\ Sound /\ MaxDepth \in Nat
  BY DepthNatural DEF IInv
<1>2. gap' \in Gaps /\ (gap' = "none" => gap = "none" /\ unchecked = "none")
  BY <1>1 DEF Shaped
<1>3. stack' \in Seq(AnyNode) /\ Len(stack') = 0 /\ 1 .. Len(stack') = {}
  OBVIOUS
<1>4. Shaped'
  BY <1>1, <1>2, <1>3 DEF Shaped
<1>5. Sound'
  BY <1>1, <1>2, <1>3 DEF Sound
<1> QED
  BY <1>4, <1>5 DEF IInv

-----------------------------------------------------------------------------
(* Leaves.                                                                 *)

(* A node is one if its parts are.                                         *)
LEMMA NodeTyped ==
  ASSUME NEW place \in LhsPlaces \cup ValuePlaces, NEW type \in AnyType, NEW value \in AnyValue
  PROVE  /\ Node(place, type, value) \in AnyNode
         /\ Node(place, type, value).place = place
         /\ Node(place, type, value).type = type
         /\ Node(place, type, value).value = value
  BY DEF Node, AnyNode

(* The types of the built-in values and of nothing.                        *)
LEMMA Constants ==
  /\ NullType \in AnyType /\ NoValue \in AnyValue
  /\ \A b \in Bases, k \in Nat :
       /\ Type(b, k) \in AnyType /\ LLVM(b, k) \in AnyValue
       /\ Type(b, k) # NullType /\ Type(b, k).base = b
       /\ b # "float" => LLVMType(Type(b, k)) = LLVM(b, k)
       /\ LLVM(b, k) # NoValue
<1>1. NullType \in AnyType /\ NoValue \in AnyValue
  BY DEF AnyType, NoValue, LLVM, AnyValue
<1>2. NullType.base = "null" /\ NoValue.base = "none"
  BY DEF NullType, Type, NoValue, LLVM
<1>3. ASSUME NEW b \in Bases, NEW k \in Nat
      PROVE  /\ Type(b, k) \in AnyType /\ LLVM(b, k) \in AnyValue
             /\ Type(b, k) # NullType /\ Type(b, k).base = b
             /\ b # "float" => LLVMType(Type(b, k)) = LLVM(b, k)
             /\ LLVM(b, k) # NoValue
  <2>1. Type(b, k).base = b /\ LLVM(b, k).base = b /\ Type(b, k).size = 0 /\ Type(b, k).stars = k
    BY DEF Type, LLVM
  <2>2. Type(b, k) # NullType /\ LLVM(b, k) # NoValue
    BY <1>2, <2>1, Builtins
  <2>3. Type(b, k) \in AnyType /\ LLVM(b, k) \in AnyValue
    BY DEF Type, LLVM, AnyType, AnyValue
  <2> QED
    BY <2>1, <2>2, <2>3 DEF LLVMType
<1> QED
  BY <1>1, <1>3

(* There are pointers to every type.                                       *)
LEMMA Pointers ==
  ASSUME NEW t \in AnyType, t # NullType
  PROVE  /\ PointerTo(t) \in AnyType /\ PointerTo(t) # NullType
         /\ PointerTo(t).base = t.base /\ PointerTo(t).stars = t.stars + 1
         /\ PointerTo(t).size = t.size /\ PointerTo(t).field = t.field
<1>1. t \in [base : Bases, stars : Nat, size : Nat, field : BOOLEAN]
  BY DEF AnyType
<1>2. /\ PointerTo(t) \in [base : Bases, stars : Nat, size : Nat, field : BOOLEAN]
      /\ PointerTo(t).base = t.base /\ PointerTo(t).stars = t.stars + 1
      /\ PointerTo(t).size = t.size /\ PointerTo(t).field = t.field
  BY <1>1 DEF PointerTo
<1>3. NullType.base \notin Bases
  BY Builtins DEF NullType, Type
<1> QED
  BY <1>2, <1>3 DEF AnyType

(* The node of a name is as declared, but for the names in Gaps.           *)
LEMMA NameGood ==
  ASSUME NEW x \in Names
  PROVE  /\ Name(x) \in AnyNode /\ Name(x).place = "ident"
         /\ Unchecked(x) \in Gaps
         /\ Unchecked(x) = "none" => Name(x).type # NullType /\ Typed(Name(x))
<1> USE NamesDeclared
<1> DEFINE named(t) == Name(x) = Node("ident", t, IF LLVMType(t) = NoValue THEN NoValue
                                                  ELSE AddressOf(LLVMType(t)))
<1>1. "ident" \in LhsPlaces
  BY DEF LhsPlaces
<1>2. ASSUME NEW t \in AnyType, named(t), t # NullType, t.base \notin Function
      PROVE  /\ Name(x) \in AnyNode /\ Name(x).place = "ident" /\ Name(x).type = t
             /\ Name(x).value # NoValue => Typed(Name(x))
  <2>1. LLVMType(t) \in AnyValue
    BY LLVMTyped
  <2>2. Name(x) \in AnyNode /\ Name(x).place = "ident" /\ Name(x).type = t
    BY <1>1, <1>2, <2>1, NodeTyped, Addresses, Constants
  <2>3. ASSUME Name(x).value # NoValue PROVE Typed(Name(x))
    <3>1. LLVMType(t) # NoValue /\ Name(x).value = AddressOf(LLVMType(t))
      BY <1>2, <2>3 DEF Node
    <3> QED
      BY <1>1, <1>2, <2>2, <3>1 DEF Typed, Follows
  <2> QED
    BY <2>2, <2>3
<1>3. CASE x \in Variable
  <2>1. VariableType[x] \in DataType /\ x # This /\ x # Undeclared /\ x \notin Function
    BY <1>3
  <2>2. named(VariableType[x])
    BY <1>3, <2>1 DEF Name
  <2>3. Unchecked(x) = IF Name(x).value = NoValue THEN "no LLVM type" ELSE "none"
    BY <2>1 DEF Unchecked
  <2>4. PICK t \in AnyType : t = VariableType[x] /\ t # NullType /\ t.base \notin Function
    BY <2>1, DataTyped
  <2>5. named(t)
    BY <2>2, <2>4, Zenon
  <2> HIDE DEF named
  <2>6. /\ Name(x) \in AnyNode /\ Name(x).place = "ident" /\ Name(x).type = t
        /\ Name(x).value # NoValue => Typed(Name(x))
    BY <1>2, <2>4, <2>5, Zenon
  <2>7. Unchecked(x) \in Gaps /\ (Unchecked(x) = "none" => Name(x).value # NoValue)
    BY <2>3 DEF Gaps
  <2> QED
    BY <2>4, <2>6, <2>7, Zenon
<1>4. CASE x \in DOMAIN Member
  <2>1. /\ Member[x] \in DataType
        /\ x # This /\ x # Undeclared /\ x \notin Function /\ x \notin Variable
    BY <1>4
  <2>2. named(FieldOf(Member[x]))
    BY <1>4, <2>1 DEF Name
  <2>3. Unchecked(x) = IF Name(x).value = NoValue THEN "no LLVM type" ELSE "none"
    BY <2>1 DEF Unchecked
  <2>4. PICK t \in AnyType : t = FieldOf(Member[x]) /\ t # NullType /\ t.base \notin Function
    BY <2>1, DataTyped
  <2>5. named(t)
    BY <2>2, <2>4, Zenon
  <2> HIDE DEF named
  <2>6. /\ Name(x) \in AnyNode /\ Name(x).place = "ident" /\ Name(x).type = t
        /\ Name(x).value # NoValue => Typed(Name(x))
    BY <1>2, <2>4, <2>5, Zenon
  <2>7. Unchecked(x) \in Gaps /\ (Unchecked(x) = "none" => Name(x).value # NoValue)
    BY <2>3 DEF Gaps
  <2> QED
    BY <2>4, <2>6, <2>7, Zenon
<1>5. CASE x \in Function
  <2>1. x # This /\ x # Undeclared /\ x \notin Variable /\ x \notin DOMAIN Member /\ x \in Bases
    BY <1>5 DEF Bases
  <2>2. Unchecked(x) = "function as value"
    BY <1>5, <2>1 DEF Unchecked
  <2>3. named(Type(x, 0))
    BY <1>5, <2>1 DEF Name
  <2>4. Type(x, 0) \in AnyType /\ LLVMType(Type(x, 0)) \in AnyValue
    BY <2>1, Constants, LLVMTyped
  <2>5. Name(x) \in AnyNode /\ Name(x).place = "ident"
    BY <1>1, <2>3, <2>4, NodeTyped, Addresses, Constants
  <2> QED
    BY <2>2, <2>5 DEF Gaps
<1>6. CASE x = This
  <2>1. x # Undeclared /\ x \notin Variable /\ x \notin DOMAIN Member /\ x \notin Function
    BY <1>6
  <2>2. Unchecked(x) = "this"
    BY <1>6, <2>1 DEF Unchecked
  <2>3. PointerTo(Type(ThisClass, 0)) \in AnyType
    BY Builtins, Constants, Pointers
  <2>4. Name(x) = Node("ident", PointerTo(Type(ThisClass, 0)),
                       LLVMType(PointerTo(Type(ThisClass, 0))))
    BY <1>6, <2>1 DEF Name
  <2>5. Name(x) \in AnyNode /\ Name(x).place = "ident"
    BY <1>1, <2>3, <2>4, NodeTyped, LLVMTyped
  <2> QED
    BY <2>2, <2>5 DEF Gaps
<1>7. CASE x = Undeclared
  <2>1. x # This /\ x \notin Variable /\ x \notin DOMAIN Member /\ x \notin Function
    BY <1>7
  <2>2. Unchecked(x) = "undeclared"
    BY <1>7, <2>1 DEF Unchecked
  <2>3. named(NullType)
    BY <1>7, <2>1 DEF Name
  <2>4. LLVMType(NullType) = NoValue
    BY DEF LLVMType
  <2>5. Name(x) \in AnyNode /\ Name(x).place = "ident"
    BY <1>1, <2>3, <2>4, NodeTyped, Constants
  <2> QED
    BY <2>2, <2>5 DEF Gaps
<1> QED
  BY <1>3, <1>4, <1>5, <1>6, <1>7 DEF Names

(* The children of a node are nodes, and good ones.                        *)
LEMMA Children ==
  ASSUME IInv, NEW n \in 0 .. Len(stack)
  PROVE  /\ Len(stack) \in Nat
         /\ DOMAIN Args(n) = 1 .. n
         /\ \A i \in 1 .. n :
              /\ Args(n)[i] = stack[Len(stack) - n + i]
              /\ Args(n)[i] \in AnyNode
              /\ Args(n)[i].type \in AnyType /\ Args(n)[i].value \in AnyValue
              /\ gap = "none" => Good(Args(n)[i], errors)
<1>1. stack \in Seq(AnyNode) /\ Len(stack) \in Nat
  BY DEF IInv, Shaped
<1>2. DOMAIN Args(n) = 1 .. n /\ \A i \in 1 .. n : Args(n)[i] = stack[Len(stack) - n + i]
  BY <1>1 DEF Args
<1>3. \A i \in 1 .. n : Len(stack) - n + i \in 1 .. Len(stack)
  BY <1>1
<1>4. \A i \in 1 .. Len(stack) : stack[i] \in AnyNode /\ (gap = "none" => Good(stack[i], errors))
  BY <1>1 DEF IInv, Sound
<1>5. \A node \in AnyNode : node.type \in AnyType /\ node.value \in AnyValue
  BY DEF AnyNode
<1> QED
  BY <1>1, <1>2, <1>3, <1>4, <1>5

(* So is the last of them.                                                 *)
LEMMA TopGood ==
  ASSUME IInv, stack # <<>>
  PROVE  /\ Len(stack) \in Nat /\ 1 \in 0 .. Len(stack)
         /\ Top \in AnyNode /\ Top.type \in AnyType /\ Top.value \in AnyValue
         /\ gap = "none" => Good(Top, errors)
<1>1. stack \in Seq(AnyNode) /\ Len(stack) \in Nat
  BY DEF IInv, Shaped
<1>2. Len(stack) # 0
  BY <1>1
<1>3. Args(1)[1] = Top
  BY <1>1, <1>2, Children DEF Top
<1> QED
  BY <1>1, <1>2, <1>3, Children

-----------------------------------------------------------------------------
(* Each kind of node keeps the invariant.  First the leaves.               *)

LEMMA LiteralsKeep ==
  ASSUME IInv, IntLiteral \/ StringLiteral \/ Unvisited \/ EmptyParentheses
  PROVE  IInv'
<1>1. 0 \in 0 .. Len(stack)
  BY Flags
<1>2. {"int32", "int8"} \subseteq Bases /\ "expr" \in ValuePlaces
  BY DEF Bases, Integers, ValuePlaces
<1>3. /\ Type("int32", 0) \in AnyType /\ LLVM("int32", 0) \in AnyValue
      /\ Type("int8", 1) \in AnyType /\ LLVM("int8", 1) \in AnyValue
      /\ NullType \in AnyType /\ NoValue \in AnyValue
      /\ {"none", "unvisited"} \subseteq Gaps
  BY <1>2, Constants DEF Gaps
<1>4. ASSUME NEW b \in {"int32", "int8"}, NEW k \in 0 .. 1
      PROVE  Good(Node("expr", Type(b, k), LLVM(b, k)), errors)
  <2>1. b \in Bases /\ b \notin Function /\ b # "float"
    BY Builtins DEF Integers
  <2>2. /\ Type(b, k) # NullType /\ Type(b, k).base = b
        /\ LLVMType(Type(b, k)) = LLVM(b, k) /\ LLVM(b, k) # NoValue
    BY <2>1, Constants
  <2> QED
    BY <2>1, <2>2 DEF Good, Typed, Follows, Node, LhsPlaces
<1>5. CASE IntLiteral
  <2>1. Node("expr", Type("int32", 0), LLVM("int32", 0)) \in AnyNode
    BY <1>2, <1>3, NodeTyped
  <2>2. Good(Node("expr", Type("int32", 0), LLVM("int32", 0)), errors)
    BY <1>4
  <2> QED
    BY <1>1, <1>3, <1>5, <2>1, <2>2, Flags, VisitStep DEF Good, Visit, Report, IntLiteral, Leaf
<1>6. CASE StringLiteral
  <2>1. Node("expr", Type("int8", 1), LLVM("int8", 1)) \in AnyNode
    BY <1>2, <1>3, NodeTyped
  <2>2. Good(Node("expr", Type("int8", 1), LLVM("int8", 1)), errors)
    BY <1>4
  <2> QED
    BY <1>1, <1>3, <1>6, <2>1, <2>2, Flags, VisitStep DEF Good, Visit, Report, StringLiteral, Leaf
<1>7. Node("expr", NullType, NoValue) \in AnyNode
  BY <1>2, <1>3, NodeTyped
<1>8. CASE Unvisited
  BY <1>1, <1>3, <1>7, <1>8, Flags, VisitStep DEF Good, Visit, Report, Unvisited, Leaf
<1>9. CASE EmptyParentheses
  BY <1>1, <1>3, <1>7, <1>9, Flags, VisitStep DEF Good, Visit, Report, EmptyParentheses
<1> QED
  BY <1>5, <1>6, <1>8, <1>9

LEMMA NamesKeep ==
  ASSUME IInv, NEW x \in Names, Identifier(x) \/ LoadIdentifier(x)
  PROVE  IInv'
<1>1. 0 \in 0 .. Len(stack)
  BY Flags
<1>2. /\ Name(x) \in AnyNode /\ Name(x).place \in LhsPlaces /\ Unchecked(x) \in Gaps
      /\ Unchecked(x) = "none" => Name(x).type # NullType /\ Typed(Name(x))
  BY NameGood DEF LhsPlaces
<1>3. CASE Identifier(x)
  BY <1>1, <1>2, <1>3, Flags, VisitStep DEF Good, Visit, Report, Identifier, Good
<1>4. CASE LoadIdentifier(x)
  <2>1. Load(Name(x)) \in AnyNode /\ Load(Name(x)).type = Name(x).type
    BY <1>2, Loads
  <2>2. Unchecked(x) = "none" => Loadable(Name(x)) /\ Good(Load(Name(x)), errors)
    BY <1>2, Loads DEF Good
  <2>3. (Name(x).type = NullType) \in BOOLEAN /\ (~Loadable(Name(x))) \in BOOLEAN
    BY DEF Loadable
  <2> QED
    BY <1>1, <1>2, <1>4, <2>1, <2>2, <2>3, Flags, VisitStep DEF Good, Visit, Report, LoadIdentifier
<1> QED
  BY <1>3, <1>4

LEMMA NewKeeps ==
  ASSUME IInv, NEW c, New(c)
  PROVE  IInv'
<1>1. 0 \in 0 .. Len(stack) /\ "none" \in Gaps /\ "undeclared" \in Gaps
  BY Flags DEF Gaps
<1> DEFINE node == Node("expr", PointerTo(Type(c, 0)), LLVM(c, 1))
<1>2. ASSUME c \in Class PROVE node \in AnyNode /\ Good(node, errors)
  <2>1. c \in Bases /\ c \notin Function /\ c # "float"
    BY <1>2, Builtins, NamesDistinct
  <2> "expr" \in ValuePlaces
    BY DEF ValuePlaces
  <2>2. PointerTo(Type(c, 0)) = Type(c, 1)
    <3> DEFINE t == Type(c, 0)
    <3>1. t \in [base : Bases, stars : Nat, size : Nat, field : BOOLEAN]
      BY <2>1 DEF Type
    <3>2. PointerTo(t) = [base |-> t.base, stars |-> t.stars + 1, size |-> t.size, field |-> t.field]
      BY <3>1 DEF PointerTo
    <3>3. t.base = c /\ t.stars + 1 = 1 /\ t.size = 0 /\ t.field = FALSE
      BY DEF Type
    <3> HIDE DEF t
    <3>4. PointerTo(t) = [base |-> c, stars |-> 1, size |-> 0, field |-> FALSE]
      BY <3>2, <3>3, Zenon
    <3> QED
      BY <3>4 DEF t, Type
  <2>3. /\ Type(c, 1) \in AnyType /\ LLVM(c, 1) \in AnyValue
        /\ Type(c, 1) # NullType /\ Type(c, 1).base = c
        /\ LLVMType(Type(c, 1)) = LLVM(c, 1) /\ LLVM(c, 1) # NoValue
    BY <2>1, Constants
  <2>4. /\ node \in AnyNode /\ node.place = "expr"
        /\ node.type = Type(c, 1) /\ node.value = LLVM(c, 1)
    BY <2>1, <2>2, <2>3, NodeTyped
  <2> QED
    BY <2>1, <2>3, <2>4 DEF Good, Typed, Follows, LhsPlaces
<1> HIDE DEF node
<1>3. Visit(0, node, c \notin Class)
  BY DEF New, node
<1>4. Report(FALSE, FALSE, IF c \in Class THEN "none" ELSE "undeclared")
  BY DEF New
<1>5. CASE c \in Class
  BY <1>1, <1>2, <1>3, <1>4, <1>5, Flags, VisitStep DEF Good, Visit, Report
<1>6. CASE c \notin Class
  BY <1>1, <1>3, <1>4, <1>6, Flags, VisitStep DEF Good, Visit, Report
<1> QED
  BY <1>5, <1>6

LEMMA SizeOfKeeps ==
  ASSUME IInv, NEW node, SizeOf(node)
  PROVE  IInv'
<1>1. 0 \in 0 .. Len(stack) /\ "unvisited" \in Gaps
  BY Flags DEF Gaps
<1>2. "int32" \in Bases /\ "expr" \in ValuePlaces
  BY DEF Bases, Integers, ValuePlaces
<1>3. (IF Named(node) = NullType THEN NullType ELSE Type("int32", 0)) \in AnyType
  BY <1>2, Constants
<1>4. Node("expr", IF Named(node) = NullType THEN NullType ELSE Type("int32", 0), NoValue)
        \in AnyNode
  BY <1>2, <1>3, Constants, NodeTyped
<1>5. (Named(node) = NullType) \in BOOLEAN
  OBVIOUS
<1> QED
  BY <1>1, <1>4, <1>5, Flags, VisitStep DEF Good, Visit, Report, SizeOf, Leaf

-----------------------------------------------------------------------------
(* The inner nodes.                                                        *)

LEMMA ParenthesesKeep ==
  ASSUME IInv, Parentheses
  PROVE  IInv'
<1> DEFINE node == [Top EXCEPT !.place = "expr"]
<1>1. stack # <<>> /\ Top.place \in ValuePlaces
  BY DEF Parentheses
<1>2. /\ 1 \in 0 .. Len(stack) /\ Top \in AnyNode
      /\ gap = "none" => Good(Top, errors)
  BY <1>1, TopGood
<1>3. "none" \in Gaps /\ "expr" \in ValuePlaces
  BY DEF Gaps, ValuePlaces
<1>4. /\ node \in AnyNode /\ node.place = "expr"
      /\ node.type = Top.type /\ node.value = Top.value
  BY <1>2, <1>3 DEF AnyNode
<1>5. gap = "none" => Good(node, errors)
  BY <1>1, <1>2, <1>4 DEF Good, Typed, Follows, LhsPlaces, ValuePlaces
<1>6. Visit(1, node, FALSE) /\ Report(FALSE, FALSE, "none")
  BY DEF Parentheses
<1> HIDE DEF node
<1> QED
  BY <1>2, <1>3, <1>4, <1>5, <1>6, Flags, VisitStep DEF Good, Visit, Report

LEMMA BinaryOperatorKeeps ==
  ASSUME IInv, NEW compares \in BOOLEAN, BinaryOperator(compares)
  PROVE  IInv'
<1> DEFINE l == Args(2)[1]
           r == Args(2)[2]
           value == IF compares THEN LLVM("bool", 0) ELSE l.value
           sound == /\ l.value = r.value
                    /\ l.value.base \in Integers \/ (compares /\ l.value.stars > 0)
                    /\ l.value.stars = 0 \/ compares
           typed == /\ Unfielded(l.type) = Unfielded(r.type)
                    /\ IF compares THEN IsInt(Unfielded(l.type)) \/ l.type.stars > 0
                                   ELSE IsInt(Unfielded(l.type))
           node == Node("expr", OperatorType(l, compares), value)
<1>1. 2 \in 0 .. Len(stack) /\ AreValues(Args(2))
  BY Flags DEF BinaryOperator
<1>2. /\ l \in AnyNode /\ l.type \in AnyType /\ l.value \in AnyValue
      /\ r \in AnyNode /\ r.type \in AnyType /\ r.value \in AnyValue
      /\ gap = "none" => Good(l, errors) /\ Good(r, errors)
      /\ l.place \in ValuePlaces /\ r.place \in ValuePlaces
  <2>1. /\ l \in AnyNode /\ l.type \in AnyType /\ l.value \in AnyValue
        /\ gap = "none" => Good(l, errors)
        /\ 1 \in DOMAIN Args(2) /\ 2 \in DOMAIN Args(2)
    BY <1>1, Children
  <2>2. /\ r \in AnyNode /\ r.type \in AnyType /\ r.value \in AnyValue
        /\ gap = "none" => Good(r, errors)
    BY <1>1, Children
  <2>3. l.place \in ValuePlaces /\ r.place \in ValuePlaces
    BY <1>1, <2>1 DEF AreValues
  <2> QED
    BY <2>1, <2>2, <2>3
<1>3. /\ Visit(2, node, FALSE)
      /\ Report(FALSE, ~sound, IF typed THEN "none" ELSE "operands")
  BY DEF BinaryOperator
<1> HIDE DEF l, r
<1>4. "none" \in Gaps /\ "operands" \in Gaps
  BY DEF Gaps
<1>5. "bool" \in Bases /\ "bool" \notin Function /\ "bool" # "float" /\ "bool" \in Integers
  BY Builtins DEF Integers
<1>6. /\ Type("bool", 0) \in AnyType /\ LLVM("bool", 0) \in AnyValue
      /\ Type("bool", 0) # NullType /\ Type("bool", 0).base = "bool"
      /\ LLVMType(Type("bool", 0)) = LLVM("bool", 0) /\ LLVM("bool", 0) # NoValue
  BY <1>5, Constants
<1>7. "expr" \in ValuePlaces /\ "expr" \notin LhsPlaces
  BY DEF ValuePlaces, LhsPlaces
<1>8. OperatorType(l, compares) \in AnyType /\ value \in AnyValue
  BY <1>2, <1>6 DEF OperatorType
<1>9. /\ node \in AnyNode /\ node.place = "expr"
      /\ node.type = OperatorType(l, compares) /\ node.value = value
  BY <1>7, <1>8, NodeTyped
<1>10. ASSUME gap = "none", l.type # NullType \/ compares
       PROVE  Typed(node) /\ node.type # NullType
  <2>1. CASE compares
    BY <1>5, <1>6, <1>7, <1>9, <2>1 DEF Typed, Follows, OperatorType
  <2>2. CASE ~compares
    <3>1. Typed(l) /\ l.value = LLVMType(l.type)
      BY <1>2, <1>10, <2>2 DEF Good, Typed, Follows, LhsPlaces, ValuePlaces
    <3> QED
      BY <1>7, <1>9, <1>10, <2>2, <3>1 DEF Typed, Follows, OperatorType
  <2> QED
    BY <2>1, <2>2
<1>11. ASSUME gap = "none", typed, l.type # NullType, r.type # NullType
       PROVE  sound
  <2>1. /\ l.type.base \notin Function /\ LLVMType(l.type) # NoValue
        /\ l.value = LLVMType(l.type) /\ r.value = LLVMType(r.type)
    BY <1>2, <1>11 DEF Good, Typed, Follows, LhsPlaces, ValuePlaces
  <2>2. /\ l.type \in [base : Bases, stars : Nat, size : Nat, field : BOOLEAN]
        /\ r.type \in [base : Bases, stars : Nat, size : Nat, field : BOOLEAN]
    BY <1>2, <1>11 DEF AnyType
  <2>3. /\ Unfielded(l.type).base = l.type.base /\ Unfielded(r.type).base = r.type.base
        /\ Unfielded(l.type).stars = l.type.stars /\ Unfielded(r.type).stars = r.type.stars
        /\ Unfielded(l.type).size = l.type.size /\ Unfielded(r.type).size = r.type.size
    BY <2>2 DEF Unfielded
  <2>4. l.type.base = r.type.base /\ l.type.stars = r.type.stars /\ l.type.size = r.type.size
    BY <1>11, <2>3
  <2>5. l.value = r.value
    BY <1>11, <2>1, <2>4 DEF LLVMType
  <2>6. l.value.base = l.type.base /\ l.value.stars = l.type.stars
    BY <2>1 DEF LLVMType, LLVM
  <2>7. l.type.base \in Integers \/ (compares /\ l.type.stars > 0)
    BY <1>11, <2>3 DEF IsInt
  <2>8. l.type.stars = 0 \/ compares
    BY <1>11, <2>3 DEF IsInt
  <2> QED
    BY <2>5, <2>6, <2>7, <2>8
<1> HIDE DEF node, sound, typed
<1>12. ASSUME gap = "none", typed
       PROVE  /\ sound \/ errors
              /\ IF node.type = NullType THEN errors ELSE Typed(node)
  <2>1. l.type = NullType \/ r.type = NullType => errors
    BY <1>2, <1>12 DEF Good
  <2>2. node.type = NullType => l.type = NullType /\ ~compares
    BY <1>10, <1>12
  <2>3. l.type = NullType /\ ~compares => node.type = NullType
    BY <1>9 DEF OperatorType
  <2> QED
    BY <1>10, <1>11, <1>12, <2>1, <2>2, <2>3
<1>13. CASE typed
  BY <1>1, <1>3, <1>4, <1>9, <1>12, <1>13, Flags, VisitStep DEF Visit, Report
<1>14. CASE ~typed
  BY <1>1, <1>3, <1>4, <1>9, <1>14, Flags, VisitStep DEF Visit, Report
<1> QED
  BY <1>13, <1>14

(* visit(NMemberAccess) makes a node, of the type of the field.            *)
LEMMA MemberTyped ==
  ASSUME NEW b \in AnyNode, NEW f
  PROVE  /\ MemberAccess(b, f) \in AnyNode /\ MemberAccess(b, f).place = "lhs"
         /\ ~HasMember(b, f) <=> MemberAccess(b, f).type = NullType
         /\ UncheckedMember(b, f) \in Gaps
         /\ UncheckedMember(b, f) = "none" /\ HasMember(b, f) =>
              /\ IsClassPointer(b.type) /\ b.place # "base"
              /\ Typed(MemberAccess(b, f))
<1>1. "lhs" \in LhsPlaces /\ b.type \in AnyType
  BY DEF LhsPlaces, AnyNode
<1>2. ~(IsClass(b.type) /\ IsClassPointer(b.type))
  BY DEF IsClass, IsClassPointer
<1>3. /\ UncheckedMember(b, f) \in Gaps
      /\ UncheckedMember(b, f) = "none" /\ HasMember(b, f) =>
           IsClassPointer(b.type) /\ b.place # "base" /\ ~NoFieldType(b, f)
  BY <1>2 DEF UncheckedMember, Gaps, HasMember, MemberClass
<1>4. CASE ~HasMember(b, f)
  <2>1. MemberAccess(b, f) = Node("lhs", NullType, NoValue)
    BY <1>4 DEF MemberAccess
  <2> QED
    BY <1>1, <1>3, <1>4, <2>1, NodeTyped, Constants
<1>5. CASE HasMember(b, f)
  <2> DEFINE t == Field[b.type.base][f]
             m == MemberAccess(b, f)
  <2>1. b.type.base \in Class /\ f \in DOMAIN Field[b.type.base]
    BY <1>5 DEF HasMember, MemberClass, IsClass, IsClassPointer
  <2>2. t \in DataType
    BY <2>1, NamesDeclared
  <2>3. m = Node("lhs", FieldOf(t), IF IsClassPointer(b.type) /\ LLVMType(t) # NoValue
                                    THEN AddressOf(LLVMType(t)) ELSE NoValue)
    BY <1>5 DEF MemberAccess
  <2>4. NoFieldType(b, f) <=> LLVMType(t) = NoValue
    BY <1>5 DEF NoFieldType
  <2> HIDE DEF t, m
  <2>5. /\ t \in AnyType /\ FieldOf(t) \in AnyType /\ FieldOf(t) # NullType
        /\ FieldOf(t).base \notin Function /\ LLVMType(FieldOf(t)) = LLVMType(t)
        /\ LLVMType(t) \in AnyValue
    BY <2>2, DataTyped, LLVMTyped
  <2>6. m \in AnyNode /\ m.place = "lhs" /\ m.type = FieldOf(t)
    BY <1>1, <2>3, <2>5, NodeTyped, Constants, Addresses
  <2>7. IsClassPointer(b.type) /\ LLVMType(t) # NoValue => m.value = AddressOf(LLVMType(t))
    BY <2>3 DEF Node
  <2>8. IsClassPointer(b.type) /\ LLVMType(t) # NoValue => Typed(m)
    BY <1>1, <2>5, <2>6, <2>7 DEF Typed, Follows
  <2> QED
    BY <1>3, <1>5, <2>4, <2>5, <2>6, <2>8 DEF m
<1> QED
  BY <1>4, <1>5

(* An address of a pointer to an object reaches the object.                *)
LEMMA ReachesObject ==
  ASSUME NEW b \in AnyNode, IsClassPointer(b.type), b.place \in LhsPlaces, Typed(b)
  PROVE  Reaches(b)
<1>1. b.value = AddressOf(LLVMType(b.type)) /\ LLVMType(b.type) \in AnyValue
  BY LLVMTyped DEF Typed, Follows, AnyNode
<1>2. Load(b).value = LLVMType(b.type)
  BY <1>1, Addresses DEF Load, Node
<1>3. LLVMType(b.type) = LLVM(b.type.base, 1)
  BY DEF IsClassPointer, Typed, LLVMType
<1> QED
  BY <1>2, <1>3 DEF Reaches

LEMMA LhsMemberKeeps ==
  ASSUME IInv, NEW f, LhsMember(f)
  PROVE  IInv'
<1> DEFINE m == MemberAccess(Top, f)
           crash == Top.type = NullType
           breaks == IsClassPointer(Top.type) /\ ~Reaches(Top)
<1>1. stack # <<>> /\ Top.place \in LhsPlaces
  BY DEF LhsMember
<1>2. /\ 1 \in 0 .. Len(stack) /\ Top \in AnyNode
      /\ gap = "none" => Good(Top, errors)
  BY <1>1, TopGood
<1>3. /\ Visit(1, m, crash)
      /\ Report(~HasMember(Top, f), breaks, UncheckedMember(Top, f))
  BY DEF LhsMember
<1>4. /\ m \in AnyNode /\ UncheckedMember(Top, f) \in Gaps
      /\ ~HasMember(Top, f) <=> m.type = NullType
      /\ UncheckedMember(Top, f) = "none" /\ HasMember(Top, f) => Typed(m)
  BY <1>2, MemberTyped
<1>5. gap = "none" /\ HasMember(Top, f) => ~breaks \/ errors
  BY <1>1, <1>2, ReachesObject DEF Good
<1>6. gap = "none" => (crash => errors)
  BY <1>2 DEF Good
<1> HIDE DEF m, crash, breaks
<1>7. CASE crash
  BY <1>2, <1>3, <1>4, <1>6, <1>7, Flags, VisitStep DEF Visit, Report
<1>8. CASE ~crash
  BY <1>2, <1>3, <1>4, <1>5, <1>8, Flags, VisitStep DEF Visit, Report
<1> QED
  BY <1>7, <1>8

LEMMA LoadMemberKeeps ==
  ASSUME IInv, NEW f, LoadMember(f)
  PROVE  IInv'
<1> DEFINE m == MemberAccess(Top, f)
           crash == Top.type = NullType \/ m.type = NullType
           error == Top.type # NullType /\ ~HasMember(Top, f)
           breaks == ~Loadable(m) \/ (IsClassPointer(Top.type) /\ ~Reaches(Top))
<1>1. stack # <<>> /\ Top.place = "base"
  BY DEF LoadMember
<1>2. /\ 1 \in 0 .. Len(stack) /\ Top \in AnyNode
      /\ gap = "none" => Good(Top, errors)
  BY <1>1, TopGood
<1>3. Visit(1, Load(m), crash) /\ Report(error, breaks, UncheckedMember(Top, f))
  BY DEF LoadMember
<1>4. /\ Load(m) \in AnyNode /\ UncheckedMember(Top, f) \in Gaps
      /\ ~HasMember(Top, f) <=> m.type = NullType
      /\ UncheckedMember(Top, f) = "none" => ~HasMember(Top, f)
  BY <1>1, <1>2, MemberTyped, Loads
<1>5. gap = "none" /\ UncheckedMember(Top, f) = "none" => crash /\ (errors \/ error)
  BY <1>2, <1>4 DEF Good
<1> HIDE DEF m, crash, error, breaks
<1>6. CASE crash
  BY <1>2, <1>3, <1>4, <1>5, <1>6, Flags, VisitStep DEF Visit, Report
<1>7. CASE ~crash
  BY <1>2, <1>3, <1>4, <1>5, <1>7, Flags, VisitStep DEF Visit, Report
<1> QED
  BY <1>6, <1>7

(* Elements of arrays are always in a gap: only their types matter.        *)
LEMMA ElementsKeep ==
  ASSUME IInv, LhsElement \/ LoadElement \/ ElementOfOther
  PROVE  IInv'
<1>1. "array" \in Gaps /\ "array" # "none" /\ "lhs" \in LhsPlaces
  BY DEF Gaps, LhsPlaces
<1>2. ASSUME LhsElement \/ LoadElement
      PROVE  2 \in 0 .. Len(stack) /\ Element(Top) \in AnyNode /\ Load(Element(Top)) \in AnyNode
  <2>1. Len(stack) >= 2 /\ IsArray(Args(2)[1].type)
    BY <1>2 DEF LhsElement, LoadElement, ArrayAndIndex
  <2>2. 2 \in 0 .. Len(stack)
    BY <2>1, Flags
  <2>3. Args(2)[1] = stack[Len(stack) - 2 + 1] /\ Args(2)[1].type \in AnyType
    BY <2>2, Children
  <2>4. Len(stack) - 2 + 1 = Len(stack) - 1
    BY Flags
  <2> DEFINE t == stack[Len(stack) - 1].type
  <2>5. t \in AnyType /\ t # NullType
    BY <2>1, <2>3, <2>4 DEF IsArray, NullType, Type
  <2>6. PointerTo(t) \in AnyType
    BY <2>5, Pointers
  <2>7. Element(Top) \in AnyNode
    BY <1>1, <2>6, Constants, NodeTyped DEF Element
  <2> QED
    BY <2>2, <2>7, Loads
<1>3. CASE LhsElement
  BY <1>1, <1>2, <1>3, Flags, VisitStep DEF Visit, Report, LhsElement
<1>4. CASE LoadElement
  BY <1>1, <1>2, <1>4, Flags, VisitStep DEF Visit, Report, LoadElement
<1>5. CASE ElementOfOther
  <2>1. 1 \in 0 .. Len(stack)
    BY <1>5, TopGood DEF ElementOfOther
  <2>2. Node("lhs", NullType, NoValue) \in AnyNode
    BY <1>1, Constants, NodeTyped
  <2> QED
    BY <1>1, <1>5, <2>1, <2>2, Flags, VisitStep DEF Visit, Report, ElementOfOther
<1> QED
  BY <1>3, <1>4, <1>5

-----------------------------------------------------------------------------
(* Calls.                                                                  *)

(* What the semantic pass admits as an argument or a result fits, if there *)
(* is none of the conversions that it does not see.                        *)
LEMMA AdmittedFits ==
  ASSUME NEW node \in AnyNode, node.place \in ValuePlaces, Typed(node), node.type # NullType,
         NEW t \in DataType, NEW u \in BOOLEAN,
         Exact(node.type, t), Assignable(node.type, t, u)
  PROVE  node.value = LLVMType(t) /\ node.value \notin {NoValue, LLVM("void", 0)}
<1>1. t \in AnyType /\ t # NullType /\ node.type \in AnyType
  BY DataTyped DEF AnyNode
<1>2. LLVMType(node.type) = LLVMType(t) /\ LLVMType(node.type) # LLVM("void", 0)
  BY <1>1, AssignableIsExact DEF Typed
<1>3. node.value = LLVMType(node.type)
  BY DEF Typed, Follows, LhsPlaces, ValuePlaces
<1> QED
  BY <1>2, <1>3 DEF Typed

LEMMA FunctionCallKeeps ==
  ASSUME IInv, NEW f, NEW n \in 0 .. MaxDepth, NEW u \in BOOLEAN, FunctionCall(f, n, u)
  PROVE  IInv'
<1> DEFINE known == f \in Function
           s == Signature[f]
           a == Args(n)
           checked == {i \in 1 .. n : known /\ i <= Len(s.params)}
           enough == IF s.vararg THEN n >= Len(s.params) ELSE n = Len(s.params)
           fits == /\ enough
                   /\ \A i \in checked : a[i].value = LLVMType(s.params[i])
                   /\ \A i \in 1 .. n : a[i].value # NoValue /\ a[i].value # LLVM("void", 0)
           exact == /\ enough
                    /\ \A i \in checked : Exact(a[i].type, s.params[i])
                    /\ \A i \in 1 .. n : Passable(a[i].type)
           node == IF known THEN Node("call", s.result, LLVMType(s.result)) ELSE Name(Undeclared)
           crash == ~known \/ \E i \in checked : a[i].type = NullType
           error == known /\ \E i \in checked :
                      a[i].type # NullType /\ ~Assignable(a[i].type, s.params[i], u)
           unchecked == CASE ~known -> "undeclared"
                          [] known /\ LLVMType(s.result) = NoValue -> "no LLVM type"
                          [] known /\ LLVMType(s.result) # NoValue ->
                               IF exact THEN "none" ELSE "arguments"
<1>1. n <= Len(stack) /\ AreValues(Args(n))
  BY Zenon DEF FunctionCall
<1>2. n \in 0 .. Len(stack)
  BY <1>1, Flags, DepthNatural
<1>3. Visit(n, node, crash) /\ Report(error, known /\ ~fits, unchecked)
  BY DEF FunctionCall
<1>4. DOMAIN a = 1 .. n /\ \A i \in 1 .. n :
        /\ a[i] \in AnyNode /\ a[i].type \in AnyType
        /\ gap = "none" => Good(a[i], errors)
        /\ a[i].place \in ValuePlaces
  BY <1>1, <1>2, Children DEF AreValues
<1>5. unchecked \in Gaps /\ (unchecked = "none" => known /\ LLVMType(s.result) # NoValue /\ exact)
  <2> HIDE DEF known, s, exact
  <2>1. unchecked \in {"undeclared", "no LLVM type", "none", "arguments"}
    OBVIOUS
  <2> QED
    BY <2>1 DEF Gaps
<1>6. "call" \in ValuePlaces /\ "call" \notin LhsPlaces
  BY DEF ValuePlaces, LhsPlaces
<1>7. ASSUME known
      PROVE  /\ s.params \in Seq(DataType) /\ s.result \in DataType
             /\ node \in AnyNode /\ node.type # NullType
             /\ LLVMType(s.result) # NoValue => Typed(node)
  <2>1. s.params \in Seq(DataType) /\ s.result \in DataType
    BY <1>7, Signatures
  <2>2. /\ s.result \in AnyType /\ s.result # NullType /\ s.result.base \notin Function
        /\ LLVMType(s.result) \in AnyValue
    BY <2>1, DataTyped, LLVMTyped
  <2>3. /\ node \in AnyNode /\ node.place = "call" /\ node.type = s.result
        /\ node.value = LLVMType(s.result)
    BY <1>6, <1>7, <2>2, NodeTyped
  <2> QED
    BY <1>6, <2>1, <2>2, <2>3 DEF Typed, Follows
<1> HIDE DEF node, a, s
<1>8. ASSUME gap = "none", unchecked = "none", ~crash, ~error, ~errors
      PROVE  fits
  <2>1. known /\ exact
    BY <1>5, <1>8
  <2>2. ASSUME NEW i \in 1 .. n
        PROVE  /\ a[i].value = LLVMType(a[i].type) /\ Typed(a[i]) /\ a[i].type # NullType
               /\ a[i].value # NoValue /\ a[i].value # LLVM("void", 0)
    <3>1. Passable(a[i].type) /\ Good(a[i], errors) /\ a[i].place \in ValuePlaces
      BY <1>4, <1>8, <2>1
    <3>2. a[i].type # NullType /\ Typed(a[i])
      BY <1>8, <3>1 DEF Good
    <3>3. a[i].value = LLVMType(a[i].type)
      BY <3>1, <3>2 DEF Typed, Follows, LhsPlaces, ValuePlaces
    <3> QED
      BY <3>1, <3>2, <3>3 DEF Passable
  <2>3. ASSUME NEW i \in checked PROVE a[i].value = LLVMType(s.params[i])
    <3>1. i \in 1 .. n /\ i \in 1 .. Len(s.params)
      BY <1>7, <2>1
    <3>2. s.params[i] \in DataType
      BY <1>7, <2>1, <3>1
    <3>3. Exact(a[i].type, s.params[i]) /\ Assignable(a[i].type, s.params[i], u)
      BY <1>8, <2>1, <2>2, <3>1
    <3> QED
      BY <1>4, <2>2, <3>1, <3>2, <3>3, AdmittedFits
  <2> QED
    BY <2>1, <2>2, <2>3
<1>9. ASSUME gap = "none", unchecked = "none", crash PROVE errors
  <2>1. PICK i \in 1 .. n : a[i].type = NullType
    BY <1>5, <1>9
  <2> QED
    BY <1>4, <1>9, <2>1 DEF Good
<1> HIDE DEF known, checked, enough, fits, exact, crash, error, unchecked
<1>10. known \/ crash
  BY DEF crash
<1>11. CASE crash
  BY <1>2, <1>3, <1>5, <1>9, <1>11, Flags, VisitStep DEF Visit, Report
<1>12. CASE ~crash
  <2>1. gap = "none" /\ unchecked = "none" => fits \/ error \/ errors
    BY <1>8, <1>12
  <2>2. gap = "none" /\ unchecked = "none" =>
          IF node.type = NullType THEN errors \/ error ELSE Typed(node)
    BY <1>5, <1>7, <1>10, <1>12
  <2> QED
    BY <1>2, <1>3, <1>5, <1>7, <1>10, <1>12, <2>1, <2>2, Flags, VisitStep DEF Visit, Report
<1> QED
  BY <1>11, <1>12

LEMMA MethodCallKeeps ==
  ASSUME IInv, NEW m, NEW n \in 0 .. MaxDepth, MethodCall(m, n)
  PROVE  IInv'
<1> DEFINE b == stack[Len(stack) - n]
           known == MemberClass(b) /\ m \in DOMAIN Method[b.type.base]
           result == IF known THEN Method[b.type.base][m] ELSE NullType
           node == Node("base", result, IF known /\ IsClassPointer(b.type)
                                        THEN LLVMType(result) ELSE NoValue)
           breaks == n > 0 \/ b.value # LLVM(b.type.base, 1)
           unchecked == CASE IsClass(b.type) -> "class by value"
                          [] ~IsClass(b.type) /\ n > 0 -> "arguments"
                          [] ~IsClass(b.type) /\ n = 0 ->
                               IF known /\ LLVMType(result) = NoValue THEN "no LLVM type" ELSE "none"
<1>1. n < Len(stack) /\ b.place = "base"
  BY Zenon DEF MethodCall
<1>2. /\ n + 1 \in 0 .. Len(stack) /\ n \in Nat
      /\ Len(stack) - (n + 1) + 1 = Len(stack) - n
  BY <1>1, Flags, DepthNatural
<1>3. Visit(n + 1, node, b.type = NullType) /\ Report(~known, breaks, unchecked)
  BY DEF MethodCall
<1>4. /\ b \in AnyNode /\ b.type \in AnyType
      /\ gap = "none" => Good(b, errors)
  <2>1. 1 \in 1 .. n + 1
    BY <1>2
  <2>2. Args(n + 1)[1] = stack[Len(stack) - (n + 1) + 1]
    BY <1>2, <2>1, Children
  <2>3. Args(n + 1)[1] = b
    BY <1>2, <2>2
  <2> HIDE DEF b
  <2> QED
    BY <1>2, <2>1, <2>3, Children
<1> HIDE DEF b
<1>5. unchecked \in Gaps /\ (unchecked = "none" =>
        ~IsClass(b.type) /\ n = 0 /\ ~(known /\ LLVMType(result) = NoValue))
  <2> HIDE DEF known, result
  <2>1. CASE IsClass(b.type)
    BY <2>1 DEF Gaps
  <2>2. CASE ~IsClass(b.type) /\ n > 0
    <3>1. n # 0 /\ unchecked = "arguments"
      BY <1>2, <2>2
    <3> QED
      BY <3>1 DEF Gaps
  <2>3. CASE ~IsClass(b.type) /\ n = 0
    <3>1. unchecked = IF known /\ LLVMType(result) = NoValue THEN "no LLVM type" ELSE "none"
      BY <2>3
    <3> QED
      BY <2>3, <3>1 DEF Gaps
  <2>4. n > 0 \/ n = 0
    BY <1>2
  <2> HIDE DEF unchecked
  <2> QED
    BY <2>1, <2>2, <2>3, <2>4
<1>6. result \in AnyType /\ (known => /\ result # NullType /\ result.base \notin Function)
                         /\ (~known => result = NullType)
  <2>1. CASE known
    <3>1. b.type.base \in Class /\ m \in DOMAIN Method[b.type.base]
      BY <2>1 DEF MemberClass, IsClass, IsClassPointer
    <3> QED
      BY <2>1, <3>1, NamesDeclared, DataTyped
  <2>2. CASE ~known
    BY <2>2, Constants
  <2> QED
    BY <2>1, <2>2
<1> HIDE DEF result, unchecked
<1>7. "base" \in ValuePlaces /\ "base" \notin LhsPlaces
  BY DEF ValuePlaces, LhsPlaces
<1>8. /\ node \in AnyNode /\ node.place = "base" /\ node.type = result
      /\ node.value = (IF known /\ IsClassPointer(b.type) THEN LLVMType(result) ELSE NoValue)
  BY <1>6, <1>7, LLVMTyped, Constants, NodeTyped
<1> HIDE DEF node
<1>9. ASSUME gap = "none", unchecked = "none", known
      PROVE  ~breaks /\ Typed(node) /\ node.type # NullType /\ b.type # NullType
  <2>1. IsClassPointer(b.type)
    BY <1>5, <1>9 DEF MemberClass
  <2>2. b.type # NullType /\ b.type.base # "float" /\ b.type.size = 0 /\ b.type.stars = 1
    BY <2>1, Builtins, NamesDistinct DEF IsClassPointer, NullType, Type
  <2>3. b.value = LLVM(b.type.base, 1)
    BY <1>1, <1>4, <1>7, <1>9, <2>2 DEF Good, Typed, Follows, LLVMType, b
  <2>4. node.value = LLVMType(result)
    BY <1>8, <1>9, <2>1
  <2>5. Typed(node)
    BY <1>5, <1>6, <1>7, <1>8, <1>9, <2>4 DEF Typed, Follows
  <2> QED
    BY <1>5, <1>6, <1>8, <1>9, <2>2, <2>3, <2>5
<1>10. ~known => node.type = NullType
  BY <1>6, <1>8
<1> HIDE DEF known, breaks
<1>11. CASE known
  BY <1>2, <1>3, <1>5, <1>8, <1>9, <1>11, Flags, VisitStep DEF Visit, Report
<1>12. CASE ~known
  BY <1>2, <1>3, <1>5, <1>8, <1>10, <1>12, Flags, VisitStep DEF Visit, Report
<1> QED
  BY <1>11, <1>12

-----------------------------------------------------------------------------
(* The ends of statements.                                                 *)

LEMMA DeclarationKeeps ==
  ASSUME IInv, NEW node, NEW stray \in BOOLEAN, Declaration(node, stray)
  PROVE  IInv'
<1> DEFINE t == Named(node)
           unknown == LLVMType(t) \in {NoValue, LLVM("void", 0)}
           unchecked == CASE stray -> "unvisited"
                          [] ~stray /\ unknown -> "no LLVM type"
                          [] ~stray /\ ~unknown -> "none"
<1>1. End(stray, t = NullType) /\ Report(t = NullType, unknown, unchecked)
  BY DEF Declaration
<1> HIDE DEF t, unknown
<1>2. unchecked \in {"unvisited", "no LLVM type", "none"}
  OBVIOUS
<1>3. unchecked \in Gaps /\ (unchecked = "none" => ~stray /\ ~unknown)
  BY <1>2 DEF Gaps
<1> HIDE DEF unchecked
<1> QED
  BY <1>1, <1>3, Flags, EndStep DEF End, Report

LEMMA AssignmentKeeps ==
  ASSUME IInv, NEW u \in BOOLEAN, Assignment(u)
  PROVE  IInv'
<1> DEFINE l == stack[1]
           r == stack[2]
           crash == l.type = NullType \/ r.type = NullType
           error == ~crash /\ ~Assignable(r.type, l.type, u)
           unchecked == IF Exact(r.type, l.type) THEN "none" ELSE "conversion"
<1>1. Len(stack) = 2 /\ l.place \in LhsPlaces /\ r.place \in ValuePlaces
  BY DEF Assignment
<1>2. End(crash, error) /\ Report(error, ~StoreFits(r, l), unchecked)
  BY DEF Assignment
<1>3. /\ l.type \in AnyType /\ l.value \in AnyValue /\ r.type \in AnyType /\ r.value \in AnyValue
      /\ gap = "none" => Good(l, errors) /\ Good(r, errors)
  <2>1. 2 \in 0 .. Len(stack) /\ Args(2)[1] = l /\ Args(2)[2] = r
    BY <1>1, Children
  <2> QED
    BY <2>1, Children
<1> HIDE DEF l, r
<1>4. unchecked \in Gaps
  BY DEF Gaps
<1>5. ASSUME gap = "none", unchecked = "none", ~crash, ~error PROVE StoreFits(r, l)
  <2>1. /\ Exact(r.type, l.type) /\ Assignable(r.type, l.type, u)
        /\ l.type # NullType /\ r.type # NullType /\ Typed(l) /\ Typed(r)
    BY <1>3, <1>5 DEF Good
  <2>2. /\ LLVMType(r.type) = LLVMType(l.type) /\ LLVMType(r.type) # LLVM("void", 0)
        /\ LLVMType(r.type) # NoValue
    BY <1>3, <2>1, AssignableIsExact DEF Typed
  <2>3. r.value = LLVMType(r.type) /\ l.value = AddressOf(LLVMType(l.type))
    BY <1>1, <2>1 DEF Typed, Follows, LhsPlaces, ValuePlaces
  <2>4. r.value # NoValue /\ r.value # LLVM("void", 0) /\ l.value = AddressOf(r.value)
    BY <2>2, <2>3
  <2>5. l.value.stars > 0
    BY <1>3, <2>4, Addresses
  <2>6. IsClassPointer(r.type) => r.value.stars > 0
    BY <2>2, <2>3 DEF IsClassPointer, LLVMType, LLVM
  <2> QED
    BY <2>4, <2>5, <2>6 DEF StoreFits
<1>6. gap = "none" => (crash => errors)
  BY <1>3 DEF Good
<1> HIDE DEF crash, error, unchecked
<1>7. CASE crash
  BY <1>2, <1>4, <1>6, <1>7, Flags, EndStep DEF End, Report
<1>8. CASE ~crash
  BY <1>2, <1>4, <1>5, <1>8, Flags, EndStep DEF End, Report
<1> QED
  BY <1>7, <1>8

LEMMA ReturnKeeps ==
  ASSUME IInv, NEW u \in BOOLEAN, Return(u)
  PROVE  IInv'
<1> DEFINE crash == Top.type = NullType
           error == ~crash /\ ~Assignable(Top.type, ReturnType, u)
           breaks == Top.value # LLVMType(ReturnType) \/ Top.value = NoValue
           unchecked == IF Exact(Top.type, ReturnType) THEN "none" ELSE "conversion"
<1>1. stack # <<>> /\ Top.place \in ValuePlaces
  BY DEF Return
<1>2. End(crash, error) /\ Report(error, breaks, unchecked)
  BY DEF Return
<1>3. Top \in AnyNode /\ (gap = "none" => Good(Top, errors))
  BY <1>1, TopGood
<1>4. unchecked \in Gaps
  BY DEF Gaps
<1>5. ASSUME gap = "none", unchecked = "none", ~crash, ~error PROVE ~breaks
  BY <1>1, <1>3, <1>5, NamesDeclared, AdmittedFits DEF Good
<1>6. gap = "none" => (crash => errors)
  BY <1>3 DEF Good
<1> HIDE DEF crash, error, breaks, unchecked
<1>7. CASE crash
  BY <1>2, <1>4, <1>6, <1>7, Flags, EndStep DEF End, Report
<1>8. CASE ~crash
  BY <1>2, <1>4, <1>5, <1>8, Flags, EndStep DEF End, Report
<1> QED
  BY <1>7, <1>8

LEMMA ConditionKeeps ==
  ASSUME IInv, Condition
  PROVE  IInv'
<1> DEFINE crash == Top.type = NullType
           error == ~crash /\ ~IsInt(Top.type)
           breaks == Top.value # LLVM("bool", 0)
           unchecked == IF Top.type = Type("bool", 0) THEN "none" ELSE "condition"
<1>1. stack # <<>> /\ Top.place \in ValuePlaces
  <2>1. Len(stack) = 1 /\ Top.place \in ValuePlaces
    BY Zenon DEF Condition
  <2> QED
    BY <2>1
<1>2. End(crash, error) /\ Report(error, breaks, unchecked)
  BY DEF Condition
<1>3. Top \in AnyNode /\ (gap = "none" => Good(Top, errors))
  BY <1>1, TopGood
<1>4. unchecked \in Gaps
  BY DEF Gaps
<1>5. ASSUME gap = "none", unchecked = "none" PROVE ~breaks /\ ~crash
  <2>1. "bool" \in Bases /\ "bool" # "float"
    BY Builtins DEF Integers
  <2>2. Top.type # NullType /\ LLVMType(Top.type) = LLVM("bool", 0)
    BY <1>5, <2>1, Constants
  <2> QED
    BY <1>1, <1>3, <1>5, <2>2 DEF Good, Typed, Follows, LhsPlaces, ValuePlaces
<1> HIDE DEF crash, error, breaks, unchecked
<1> QED
  BY <1>2, <1>4, <1>5, Flags, EndStep DEF End, Report

LEMMA CallStatementKeeps ==
  ASSUME IInv, CallStatement
  PROVE  IInv'
<1>1. "none" \in Gaps
  BY DEF Gaps
<1> QED
  BY <1>1, Flags, EndStep DEF CallStatement, End, Report

-----------------------------------------------------------------------------
(* The invariant.                                                          *)

LEMMA Initially == Init => IInv
<1> SUFFICES ASSUME Init PROVE IInv
  OBVIOUS
<1>1. stack \in Seq(AnyNode) /\ Len(stack) = 0 /\ 1 .. Len(stack) = {}
  BY DEF Init
<1>2. "none" \in Gaps
  BY DEF Gaps
<1>3. Shaped
  <2>1. Len(stack) <= MaxDepth
    BY <1>1, DepthNatural
  <2> QED
    BY <1>1, <1>2, <2>1 DEF Init, Shaped
<1> QED
  BY <1>1, <1>3 DEF Init, IInv, Sound

LEMMA Stepwise == IInv /\ [Next]_vars => IInv'
<1> SUFFICES ASSUME IInv, [Next]_vars PROVE IInv'
  OBVIOUS
<1>1. CASE UNCHANGED vars
  BY <1>1 DEF vars, IInv, Shaped, Sound
<1>2. CASE Next
  BY <1>1, <1>2, LiteralsKeep, NamesKeep, NewKeeps, SizeOfKeeps, ParenthesesKeep,
     BinaryOperatorKeeps, LhsMemberKeeps, LoadMemberKeeps, ElementsKeep, FunctionCallKeeps,
     MethodCallKeeps, DeclarationKeeps, AssignmentKeeps, ReturnKeeps, ConditionKeeps,
     CallStatementKeeps DEF Next, Stopped
<1> QED
  BY <1>1, <1>2

(* In every state the nodes that wait for a parent have types and values,  *)
(* and the inductive invariant holds.                                      *)
LEMMA Inductive == Spec => []IInv
  BY Initially, Stepwise, PTL DEF Spec

(* The tables of both visitors and the compiler's decision have their      *)
(* types, for every program and statement.                                 *)
THEOREM TypesCorrect == Spec => []TypeOK
<1>1. IInv => TypeOK
  <2> SUFFICES ASSUME IInv PROVE TypeOK
    OBVIOUS
  <2>1. NullType.base = "null" /\ NullType.stars = 0
    BY DEF NullType, Type
  <2>2. ASSUME NEW t \in AnyType PROVE t.base \in Bases \cup {"null"} /\ t.stars \in Nat
    BY <2>1 DEF AnyType
  <2>3. ASSUME NEW i \in 1 .. Len(stack)
        PROVE  /\ stack[i].place \in LhsPlaces \cup ValuePlaces
               /\ stack[i].type \in AnyType /\ stack[i].value \in AnyValue
    <3>1. stack[i] \in AnyNode
      BY DEF IInv, Shaped
    <3> QED
      BY <3>1 DEF AnyNode
  <2> QED
    BY <2>2, <2>3 DEF IInv, Shaped, TypeOK, AnyValue
<1> QED
  BY <1>1, Inductive, PTL

(* The two visitors agree on every expression of every program: the value  *)
(* that the generator makes has the LLVM type of the type that the         *)
(* semantic pass gave the node, if nothing unchecked is used.              *)
THEOREM VisitorsAgree == Spec => []ValuesFollowTypes
<1>1. IInv => ValuesFollowTypes
  BY DEF IInv, Sound, ValuesFollowTypes, Good, Typed, Follows
<1> QED
  BY <1>1, Inductive, PTL

(* Whatever the semantic pass accepts is generated with values of the      *)
(* right types, if nothing unchecked is used: the list in Gaps is complete.*)
THEOREM AcceptedLowers == Spec => []AcceptedIsLowered
<1>1. IInv => AcceptedIsLowered
  BY DEF IInv, Shaped, Sound, AcceptedIsLowered
<1> QED
  BY <1>1, Inductive, PTL

(* The semantic pass crashes only after it has logged an error, if nothing *)
(* unchecked is used.                                                      *)
THEOREM CrashesReported == Spec => []CrashesAreReported
<1>1. IInv => CrashesAreReported
  BY DEF IInv, Shaped, Sound, CrashesAreReported
<1> QED
  BY <1>1, Inductive, PTL

=============================================================================
