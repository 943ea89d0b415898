---------------------------- MODULE Expressions ----------------------------
(***************************************************************************)
(* The expressions of one statement in both visitors: the types that the   *)
(* semantic pass gives their nodes (sempass.cpp) and the LLVM values that  *)
(* the generator makes of them (codegen/LLVMCodeGenerator.cpp).            *)
(*                                                                         *)
(* A statement is built from its leaves: the nodes that wait for a parent  *)
(* are on a stack, each with its type and its value, and an action is the  *)
(* visit of one kind of node, by the semantic pass and, if the program is  *)
(* accepted, by the generator.  Which nodes may follow which is the        *)
(* grammar of parser.y; parentheses make every expression a primary, so    *)
(* precedence restricts nothing.                                           *)
(***************************************************************************)
EXTENDS StapleTypes

CONSTANTS
  Variable,      \* the names of local variables and parameters
  VariableType,  \* their types
  Member,        \* Member[x]: the type of field x of the class of the method
  This,          \* the name this
  ThisClass,     \* the class of the method
  Undeclared,    \* a name that is not declared
  Field,         \* Field[c] maps the field names of c, inherited ones too, to types
  Method,        \* Method[c] maps its method names to result types
  ReturnType,    \* the return type of the function
  TypeNode,      \* the type nodes (NType) of declarations and sizeof
  MaxDepth       \* bound: nodes that wait for a parent

ASSUME NamesDeclared ==
  /\ VariableType \in [Variable -> DataType]
  /\ \A x \in DOMAIN Member : Member[x] \in DataType
  /\ \A c \in Class : \A f \in DOMAIN Field[c] : Field[c][f] \in DataType
  /\ \A c \in Class : \A m \in DOMAIN Method[c] : Method[c][m] \in DataType
  /\ ThisClass \in Class /\ ReturnType \in DataType
  /\ This # Undeclared /\ {This, Undeclared} \cap (Variable \cup DOMAIN Member \cup Function) = {}
  /\ Variable \cap DOMAIN Member = {} /\ Function \cap (Variable \cup DOMAIN Member) = {}
ASSUME DepthNatural == MaxDepth \in Nat

VARIABLES
  stack,     \* the nodes without a parent
  errors,    \* whether the semantic pass has logged an error
  broken,    \* whether the generator uses a null value, or one of a wrong type
  gap,       \* the first construct that the semantic pass does not check, or "none"
  verdict    \* "open" until the end of the statement, then the compiler's decision

vars == <<stack, errors, broken, gap, verdict>>

(* A node: its place in the grammar, its entry in typeTable and in mValues.*)
Node(place, type, value) == [place |-> place, type |-> type, value |-> value]

LhsPlaces == {"ident", "lhs"}                 \* denote addresses
ValuePlaces == {"base", "call", "expr"}       \* denote values

Gaps == {"none", "undeclared", "unvisited", "no LLVM type", "array", "this",
         "function as value", "class by value", "member read", "operands",
         "arguments", "conversion", "condition"}

Init ==
  /\ stack = <<>>
  /\ errors = FALSE
  /\ broken = FALSE
  /\ gap = "none"
  /\ verdict = "open"

Top == stack[Len(stack)]
Args(n) == SubSeq(stack, Len(stack) - n + 1, Len(stack))
AreValues(nodes) == \A i \in DOMAIN nodes : nodes[i].place \in ValuePlaces

-----------------------------------------------------------------------------
(* What the visit of a node adds to the state.  A visit that gives a null  *)
(* type to dyn_cast, or calls isAssignable on one, crashes the compiler.   *)

Report(error, breaks, unchecked) ==
  /\ errors' = (errors \/ error)
  /\ broken' = (broken \/ breaks)
  /\ gap' = IF gap = "none" THEN unchecked ELSE gap

(* The visit of a node that has the last n nodes as its children.          *)
Visit(n, node, crash) ==
  /\ verdict = "open"
  /\ Len(stack) - n < MaxDepth
  /\ stack' = IF crash THEN <<>> ELSE Append(SubSeq(stack, 1, Len(stack) - n), node)
  /\ verdict' = IF crash THEN "crashed" ELSE verdict

Leaf(place, type, value) == Visit(0, Node(place, type, value), FALSE)

(* visit(NLoad): the type is that of the address, not of what it points to *)
(* (the second assignment to typeTable undoes the first); the value is     *)
(* what is there.                                                          *)
(* Mistakes for the checks to catch: the type of what it points to; a      *)
(* value that is no pointer dereferenced.                                  *)
Load_Element(a) ==
  Node("base", IF a.type.stars > 0 /\ ~a.type.field THEN [a.type EXCEPT !.stars = @ - 1]
               ELSE a.type,
       IF a.value.stars > 0 THEN Dereferenced(a.value) ELSE NoValue)
Load_Any(a) == Node("base", a.type, Dereferenced(a.value))

Load(a) ==
  Node("base", a.type, IF a.value.stars > 0 THEN Dereferenced(a.value) ELSE NoValue)
Loadable(a) == a.value.stars > 0 /\ a.value \notin {LLVM(f, 1) : f \in Function}

-----------------------------------------------------------------------------
(* Leaves.                                                                 *)

IntLiteral ==
  /\ Leaf("expr", Type("int32", 0), LLVM("int32", 0))
  /\ Report(FALSE, FALSE, "none")

StringLiteral ==
  /\ Leaf("expr", Type("int8", 1), LLVM("int8", 1))
  /\ Report(FALSE, FALSE, "none")

(* A float literal, !e and -e: neither visitor has a visit for NFloatLiteral, *)
(* NNot and NNegitive, so that e is not visited either.                    *)
Unvisited ==
  /\ Leaf("expr", NullType, NoValue)
  /\ Report(FALSE, FALSE, "unvisited")

(* What the name x is declared as; its symbol is the address of a variable *)
(* or a field, a function, or the argument `this` itself.                  *)
Name(x) ==
  LET type == CASE x \in Variable -> VariableType[x]
                [] x \in DOMAIN Member -> FieldOf(Member[x])
                [] x \in Function -> Type(x, 0)
                [] x = This -> PointerTo(Type(ThisClass, 0))
                [] x = Undeclared -> NullType
      t == LLVMType(type)
  IN  Node("ident", type, IF x = This \/ t = NoValue THEN t ELSE AddressOf(t))

Unchecked(x) ==
  CASE x = Undeclared -> "undeclared"
    [] x = This -> "this"
    [] x \in Function -> "function as value"
    [] x \notin Function \cup {Undeclared, This} ->
         IF Name(x).value = NoValue THEN "no LLVM type" ELSE "none"

Names == Variable \cup DOMAIN Member \cup Function \cup {This, Undeclared}

(* ident, on the left of an assignment or as an index: an address.         *)
Identifier(x) ==
  /\ Visit(0, Name(x), FALSE)
  /\ Report(FALSE, FALSE, Unchecked(x))

(* ident in an expression: its value.                                      *)
LoadIdentifier(x) ==
  /\ Visit(0, Load(Name(x)), Name(x).type = NullType)
  /\ Report(FALSE, ~Loadable(Name(x)), Unchecked(x))

(* new C.                                                                  *)
New(c) ==
  /\ Visit(0, Node("expr", PointerTo(Type(c, 0)), LLVM(c, 1)), c \notin Class)
  /\ Report(FALSE, FALSE, IF c \in Class THEN "none" ELSE "undeclared")

(* The generator has no visit(NSizeOf).                                    *)
SizeOf(node) ==
  /\ Leaf("expr", IF Named(node) = NullType THEN NullType ELSE Type("int32", 0), NoValue)
  /\ Report(Named(node) = NullType, FALSE, "unvisited")

-----------------------------------------------------------------------------
(* Inner nodes.                                                            *)

(* (e).  With another number of expressions in it, the parentheses leave   *)
(* the value of the token "(" where a node is expected.                    *)
Parentheses ==
  /\ stack # <<>> /\ Top.place \in ValuePlaces
  /\ Visit(1, [Top EXCEPT !.place = "expr"], FALSE)
  /\ Report(FALSE, FALSE, "none")

EmptyParentheses ==
  /\ Visit(0, Node("expr", NullType, NoValue), TRUE)
  /\ Report(FALSE, FALSE, "unvisited")

(* l + r and l == r: the types of the operands are not checked; arithmetic *)
(* has the type of the left one.                                           *)
OperatorType(l, compares) == IF compares THEN Type("bool", 0) ELSE l.type

BinaryOperator(compares) ==
  /\ Len(stack) >= 2 /\ AreValues(Args(2))
  /\ LET l == Args(2)[1]
         r == Args(2)[2]
         value == IF compares THEN LLVM("bool", 0) ELSE l.value
         sound == /\ l.value = r.value
                  /\ l.value.base \in Integers \/ (compares /\ l.value.stars > 0)
                  /\ l.value.stars = 0 \/ compares
         typed == /\ Unfielded(l.type) = Unfielded(r.type)
                  /\ IF compares THEN IsInt(Unfielded(l.type)) \/ l.type.stars > 0
                                 ELSE IsInt(Unfielded(l.type))
     IN  /\ Visit(2, Node("expr", OperatorType(l, compares), value), FALSE)
         /\ Report(FALSE, ~sound, IF typed THEN "none" ELSE "operands")

(* visit(NMemberAccess) of both visitors, for field f of the node b.  A    *)
(* base that points to an object is wrapped in an NLoad, which in an       *)
(* expression is the second one.  Of a base that is an object the          *)
(* generator makes nothing.                                                *)
MemberClass(b) == IsClassPointer(b.type) \/ IsClass(b.type)
HasMember(b, f) == MemberClass(b) /\ f \in DOMAIN Field[b.type.base]

MemberAccess(b, f) ==
  IF ~HasMember(b, f) THEN Node("lhs", NullType, NoValue)
  ELSE Node("lhs", FieldOf(Field[b.type.base][f]),
            IF IsClassPointer(b.type) /\ LLVMType(Field[b.type.base][f]) # NoValue
            THEN AddressOf(LLVMType(Field[b.type.base][f])) ELSE NoValue)

(* getFieldPtr indexes what the base points to, after the NLoad.           *)
Reaches(b) == Load(b).value = LLVM(b.type.base, 1)

NoFieldType(b, f) == HasMember(b, f) /\ LLVMType(Field[b.type.base][f]) = NoValue

UncheckedMember(b, f) ==
  CASE IsClass(b.type) -> "class by value"
    [] IsClassPointer(b.type) /\ b.place = "base" -> "member read"
    [] IsClassPointer(b.type) /\ b.place # "base" ->
         IF NoFieldType(b, f) THEN "no LLVM type" ELSE "none"
    [] ~IsClass(b.type) /\ ~IsClassPointer(b.type) -> "none"

(* A mistake for the checks to catch: "not a class type" not reported.     *)
LhsMember_Silent(f) ==
  /\ stack # <<>> /\ Top.place \in LhsPlaces
  /\ Visit(1, MemberAccess(Top, f), Top.type = NullType)
  /\ Report(MemberClass(Top) /\ ~HasMember(Top, f),
            IsClassPointer(Top.type) /\ ~Reaches(Top), UncheckedMember(Top, f))

(* b.f on the left of an assignment.                                       *)
LhsMember(f) ==
  /\ stack # <<>> /\ Top.place \in LhsPlaces
  /\ Visit(1, MemberAccess(Top, f), Top.type = NullType)
  /\ Report(~HasMember(Top, f), IsClassPointer(Top.type) /\ ~Reaches(Top),
            UncheckedMember(Top, f))

(* b.f in an expression, loaded; the load is given no type after an error. *)
LoadMember(f) ==
  /\ stack # <<>> /\ Top.place = "base"
  /\ LET m == MemberAccess(Top, f)
     IN  /\ Visit(1, Load(m), Top.type = NullType \/ m.type = NullType)
         /\ Report(Top.type # NullType /\ ~HasMember(Top, f),
                   ~Loadable(m) \/ (IsClassPointer(Top.type) /\ ~Reaches(Top)),
                   UncheckedMember(Top, f))

(* visit(NArrayElementPtr) for the array a and index i: typed as a pointer *)
(* to the whole array; the generator has no visit for it.                  *)
Element(i) ==
  Node("lhs", IF IsInt(i.type) THEN PointerTo(stack[Len(stack) - 1].type) ELSE NullType, NoValue)

ArrayAndIndex(places) ==
  /\ Len(stack) >= 2
  /\ IsArray(Args(2)[1].type) /\ Args(2)[1].place \in places
  /\ Top.place \in {"ident", "expr"}

LhsElement ==
  /\ ArrayAndIndex(LhsPlaces)
  /\ Visit(2, Element(Top), Top.type = NullType)
  /\ Report(Top.type # NullType /\ ~IsInt(Top.type), FALSE, "array")

LoadElement ==
  /\ ArrayAndIndex({"base"})
  /\ Visit(2, Load(Element(Top)), Element(Top).type = NullType)
  /\ Report(Top.type # NullType /\ ~IsInt(Top.type), TRUE, "array")

(* If a is no array, nothing is reported and the index not visited; the    *)
(* missing type crashes at once in an NLoad, or where it is used.          *)
ElementOfOther ==
  /\ stack # <<>> /\ Top.place \in LhsPlaces \cup {"base"} /\ ~IsArray(Top.type)
  /\ Visit(1, Node("lhs", NullType, NoValue), Top.type = NullType \/ Top.place = "base")
  /\ Report(FALSE, FALSE, "array")

-----------------------------------------------------------------------------
(* Calls.  Their number of arguments is not checked, and those behind the  *)
(* parameters have any type.  Arguments are not visited if the callee is   *)
(* unknown (n = 0).                                                        *)

(* What isAssignable does not see: the width of integers, and void.        *)
Exact(r, l) ==
  /\ r.base # "void"
  /\ {r.base, l.base} \subseteq Integers \cup {"float"} => r.base = l.base

Passable(t) == LLVMType(t) \notin {NoValue, LLVM("void", 0)}

FunctionCall(f, n, u) ==
  /\ n <= Len(stack) /\ AreValues(Args(n)) /\ (f \notin Function => n = 0)
  /\ LET known == f \in Function
         s == Signature[f]
         a == Args(n)
         checked == {i \in 1 .. n : known /\ i <= Len(s.params)}
         enough == IF s.vararg THEN n >= Len(s.params) ELSE n = Len(s.params)
         fits == /\ enough
                 /\ \A i \in checked : a[i].value = LLVMType(s.params[i])
                 /\ \A i \in 1 .. n : a[i].value # NoValue /\ a[i].value # LLVM("void", 0)
         exact == /\ enough
                  /\ \A i \in checked : Exact(a[i].type, s.params[i])
                  /\ \A i \in 1 .. n : Passable(a[i].type)
     IN  /\ Visit(n, IF known THEN Node("call", s.result, LLVMType(s.result)) ELSE Name(Undeclared),
                  ~known \/ \E i \in checked : a[i].type = NullType)
         /\ Report(known /\ \E i \in checked :
                     a[i].type # NullType /\ ~Assignable(a[i].type, s.params[i], u),
                   known /\ ~fits,
                   CASE ~known -> "undeclared"
                     [] known /\ LLVMType(s.result) = NoValue -> "no LLVM type"
                     [] known /\ LLVMType(s.result) # NoValue ->
                          IF exact THEN "none" ELSE "arguments")

(* The method's StapleFunction has no parameters: its constructor drops    *)
(* them (stapletype.h:57).  No argument is checked, and the LLVM function  *)
(* takes `this` alone.                                                     *)
MethodCall(m, n) ==
  /\ n < Len(stack) /\ AreValues(Args(n)) /\ stack[Len(stack) - n].place = "base"
  /\ LET b == stack[Len(stack) - n]
         known == MemberClass(b) /\ m \in DOMAIN Method[b.type.base]
         result == IF known THEN Method[b.type.base][m] ELSE NullType
     IN  /\ known \/ n = 0
         /\ Visit(n + 1, Node("base", result, IF known /\ IsClassPointer(b.type)
                                              THEN LLVMType(result) ELSE NoValue),
                  b.type = NullType)
         /\ Report(~known,
                   n > 0 \/ b.value # LLVM(b.type.base, 1),
                   CASE IsClass(b.type) -> "class by value"
                     [] ~IsClass(b.type) /\ n > 0 -> "arguments"
                     [] ~IsClass(b.type) /\ n = 0 ->
                          IF known /\ LLVMType(result) = NoValue THEN "no LLVM type" ELSE "none")

-----------------------------------------------------------------------------
(* Statements.                                                             *)

End(crash, error) ==
  /\ verdict = "open"
  /\ verdict' = CASE crash -> "crashed"
                  [] ~crash /\ (errors \/ error) -> "rejected"
                  [] ~crash /\ ~errors /\ ~error -> "accepted"
  /\ stack' = <<>>

(* T x;  The constructor without an initial value leaves assignmentExpr    *)
(* unset, and the semantic pass visits whatever it points to: `stray`.     *)
(* T x = e; is this and then Assign, in both visitors.                     *)
Declaration(node, stray) ==
  /\ stack = <<>>
  /\ LET t == Named(node)
     IN  /\ End(stray, t = NullType)
         /\ Report(t = NullType, LLVMType(t) \in {NoValue, LLVM("void", 0)},
                   CASE stray -> "unvisited"
                     [] ~stray /\ LLVMType(t) \in {NoValue, LLVM("void", 0)} -> "no LLVM type"
                     [] ~stray /\ LLVMType(t) \notin {NoValue, LLVM("void", 0)} -> "none")

(* The generator stores a pointer to an object with stp_storeStrong, after *)
(* casting both pointers; a StapleField of such pointers is stored as is.  *)
StoreFits(r, l) ==
  IF IsClassPointer(r.type) THEN l.value.stars > 0 /\ r.value.stars > 0
  ELSE r.value # NoValue /\ l.value = AddressOf(r.value) /\ r.value # LLVM("void", 0)

Assignment(u) ==
  /\ Len(stack) = 2 /\ stack[1].place \in LhsPlaces /\ stack[2].place \in ValuePlaces
  /\ LET l == stack[1]
         r == stack[2]
         crash == l.type = NullType \/ r.type = NullType
         error == ~crash /\ ~Assignable(r.type, l.type, u)
     IN  /\ End(crash, error)
         /\ Report(error, ~StoreFits(r, l),
                   IF Exact(r.type, l.type) THEN "none" ELSE "conversion")

Return(u) ==
  /\ Len(stack) = 1 /\ Top.place \in ValuePlaces
  /\ LET crash == Top.type = NullType
         error == ~crash /\ ~Assignable(Top.type, ReturnType, u)
     IN  /\ End(crash, error)
         /\ Report(error, Top.value # LLVMType(ReturnType) \/ Top.value = NoValue,
                   IF Exact(Top.type, ReturnType) THEN "none" ELSE "conversion")

(* if(e): any StapleInt passes, but no StapleField of one; a branch needs  *)
(* one bit.                                                                *)
Condition ==
  /\ Len(stack) = 1 /\ Top.place \in ValuePlaces
  /\ LET crash == Top.type = NullType
         error == ~crash /\ ~IsInt(Top.type)
     IN  /\ End(crash, error)
         /\ Report(error, Top.value # LLVM("bool", 0),
                   IF Top.type = Type("bool", 0) THEN "none" ELSE "condition")

CallStatement ==
  /\ Len(stack) = 1 /\ Top.place = "call"
  /\ End(FALSE, FALSE)
  /\ Report(FALSE, FALSE, "none")

Stopped == verdict # "open" /\ UNCHANGED vars

FieldNames == UNION {DOMAIN Field[c] : c \in Class}
MethodNames == UNION {DOMAIN Method[c] : c \in Class}

Next ==
  \/ IntLiteral \/ StringLiteral \/ Unvisited
  \/ \E x \in Names : Identifier(x) \/ LoadIdentifier(x)
  \/ \E c \in Class \cup {Undeclared} : New(c)
  \/ \E node \in TypeNode : SizeOf(node)
  \/ Parentheses \/ EmptyParentheses
  \/ \E compares \in BOOLEAN : BinaryOperator(compares)
  \/ \E f \in FieldNames \cup {Undeclared} : LhsMember(f) \/ LoadMember(f)
  \/ LhsElement \/ LoadElement \/ ElementOfOther
  \/ \E f \in Function \cup {Undeclared}, n \in 0 .. MaxDepth, u \in BOOLEAN : FunctionCall(f, n, u)
  \/ \E m \in MethodNames \cup {Undeclared}, n \in 0 .. MaxDepth : MethodCall(m, n)
  \/ \E node \in TypeNode, stray \in BOOLEAN : Declaration(node, stray)
  \/ \E u \in BOOLEAN : Assignment(u) \/ Return(u)
  \/ Condition \/ CallStatement
  \/ Stopped

Spec == Init /\ [][Next]_vars

-----------------------------------------------------------------------------

(* The types of the nodes that wait for a parent, in typeTable and mValues,*)
(* and of the compiler's decision.                                         *)
TypeOK ==
  /\ Len(stack) <= MaxDepth
  /\ \A i \in 1 .. Len(stack) :
       /\ stack[i].place \in LhsPlaces \cup ValuePlaces
       /\ stack[i].type.base \in Bases \cup {"null"} /\ stack[i].type.stars \in Nat
       /\ stack[i].value.base \in Bases \cup {"none"} /\ stack[i].value.stars \in Nat
  /\ errors \in BOOLEAN /\ broken \in BOOLEAN /\ gap \in Gaps
  /\ verdict \in {"open", "accepted", "rejected", "crashed"}

(* The two visitors agree: the generator's value for an expression has the *)
(* LLVM type of the type that the semantic pass gave it, and its value for *)
(* what stands on the left of an assignment is the address of one, as long *)
(* as the statement uses nothing that goes unchecked.                      *)
ValuesFollowTypes ==
  gap = "none" =>
    \A i \in 1 .. Len(stack) : stack[i].type # NullType =>
      stack[i].value = IF stack[i].place \in LhsPlaces
                       THEN AddressOf(LLVMType(stack[i].type)) ELSE LLVMType(stack[i].type)

(* The checks suffice: the generator comes to a correct end with every     *)
(* statement that the semantic pass accepts, unless it contains one of the *)
(* constructs that are not checked.                                        *)
AcceptedIsLowered == gap = "none" /\ verdict = "accepted" => ~broken

(* The semantic pass does not crash before it has logged an error, unless  *)
(* one of these constructs is used.                                        *)
CrashesAreReported == gap = "none" /\ verdict = "crashed" => errors

(* test.stp:7 reads a member of an object: no statement is to fail for     *)
(* that alone.                                                             *)
MembersCanBeRead == gap = "member read" /\ verdict = "accepted" => ~broken

=============================================================================
