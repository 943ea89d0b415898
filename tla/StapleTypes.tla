---------------------------- MODULE StapleTypes ----------------------------
(***************************************************************************)
(* The types of Staple (types/stapletype.h), their names (visit(NType) of  *)
(* sempass.cpp), the relation isAssignable between them                    *)
(* (types/stapletype.cpp), and the LLVM types they are generated as        *)
(* (getLLVMType of codegen/LLVMCodeGenerator.cpp).                         *)
(***************************************************************************)
EXTENDS Naturals, Sequences

CONSTANTS
  Class,       \* the classes of the program
  Function,    \* its functions, prototypes included
  Signature    \* Signature[f]: [params, result, vararg] of function f

(* A StapleType: `stars` StaplePointers to a base, or to an array of it if *)
(* size is not 0; `field` if it is the StapleField of such a type.  Bases  *)
(* are the StapleVoid, -Int, -Float, -Class, -ClassDef and -Function types.*)
Type(base, stars) == [base |-> base, stars |-> stars, size |-> 0, field |-> FALSE]
ArrayOf(base, size) == [Type(base, 0) EXCEPT !.size = size]
PointerTo(t) == [t EXCEPT !.stars = @ + 1]
FieldOf(t) == [t EXCEPT !.field = TRUE]
NullType == Type("null", 0)

Integers == {"bool", "int8", "int16", "int32"}
Bases == Integers \cup {"void", "float", "classdef"} \cup Class \cup Function

(* Names of classes and functions are other than those of built-in types.  *)
ASSUME NamesDistinct ==
  /\ Class \cap Function = {}
  /\ (Class \cup Function) \cap (Integers \cup {"void", "float", "classdef", "null", "none"}) = {}

(* The types that variables, fields and results can be declared with.      *)
DataType == [base : Bases \ Function, stars : Nat, size : Nat, field : {FALSE}]

ASSUME Signatures ==
  \A f \in Function : Signature[f] \in
    [params : Seq(DataType), result : DataType, vararg : BOOLEAN]

IsInt(t) == ~t.field /\ t.stars = 0 /\ t.size = 0 /\ t.base \in Integers
IsClass(t) == ~t.field /\ t.stars = 0 /\ t.size = 0 /\ t.base \in Class
IsClassPointer(t) == ~t.field /\ t.stars = 1 /\ t.size = 0 /\ t.base \in Class
IsArray(t) == ~t.field /\ t.stars = 0 /\ t.size # 0
IsFunction(t) == ~t.field /\ t.stars = 0 /\ t.size = 0 /\ t.base \in Function

(* The names of the built-in types, unsigned ones like signed ones.         *)
Builtin ==
  [void |-> "void", uint |-> "int32", int |-> "int32", int32 |-> "int32",
   uint8 |-> "int8", int8 |-> "int8", uint16 |-> "int16", int16 |-> "int16",
   float |-> "float", float32 |-> "float", bool |-> "bool"]

(* The type that a node NType names: null, with an error, if it is unknown.*)
Named(node) ==
  LET base == IF node.name \in DOMAIN Builtin THEN Builtin[node.name] ELSE node.name
  IN  CASE base \notin Bases \ Function -> NullType
        [] base \in Bases \ Function /\ node.isArray -> ArrayOf(base, node.count)
        [] base \in Bases \ Function /\ ~node.isArray -> Type(base, node.count)

-----------------------------------------------------------------------------
(* isAssignable: r->isAssignable(l) asks whether a value of type r may be  *)
(* stored where l is.  StapleVoidType's has no return statement; the       *)
(* answer it happens to give is the argument u.                            *)

Unfielded(t) == [t EXCEPT !.field = FALSE]
Numeric(t) == ~t.field /\ t.stars = 0 /\ t.size = 0 /\ t.base \in Integers \cup {"float"}

(* Types that are no pointers, arrays, fields or functions.  Widths are    *)
(* not compared.                                                           *)
BaseAssignable(base, l, u) ==
  \/ base = "void" /\ u
  \/ base \in Integers /\ Numeric(Unfielded(l))
  \/ base = "float" /\ Numeric(l)
  \/ base \in Class /\ IsClass(l) /\ l.base = base
  \/ base = "classdef" /\ l = Type("classdef", 0)

(* Behind the stars of a pointer.                                          *)
TargetAssignable(r, l, u) ==
  IF r.size # 0
  THEN IsArray(l) /\ r.size = l.size /\ BaseAssignable(r.base, Type(l.base, 0), u)
  ELSE BaseAssignable(r.base, l, u)

(* A pointer is assignable where there is a pointer to what its element is *)
(* assignable to; a StapleField of pointers does not count as one.         *)
PointerAssignable(r, l, u) ==
  /\ r.stars > 0 => ~l.field
  /\ l.stars >= r.stars
  /\ TargetAssignable([r EXCEPT !.stars = 0], [l EXCEPT !.stars = @ - r.stars], u)

FunctionAssignable(f, g, u) ==
  LET F == Signature[f]
      G == Signature[g]
  IN  /\ PointerAssignable(F.result, G.result, u)
      /\ Len(F.params) = Len(G.params)
      /\ \A i \in DOMAIN F.params : PointerAssignable(F.params[i], G.params[i], u)

(* A mistake for the checks to catch: the names of classes not compared.   *)
Assignable_AnyClass(r, l, u) ==
  PointerAssignable(Unfielded(r), IF l.base \in Class THEN [l EXCEPT !.base = r.base] ELSE l, u)

Assignable(r, l, u) ==
  IF IsFunction(Unfielded(r))
  THEN IsFunction(l) /\ FunctionAssignable(r.base, l.base, u)
  ELSE PointerAssignable(Unfielded(r), l, u)

-----------------------------------------------------------------------------
(* LLVM types, and values by their types: stars are LLVM pointers.         *)

LLVM(base, stars) == [base |-> base, stars |-> stars]
NoValue == LLVM("none", 0)     \* a null llvm::Value* or llvm::Type*
Dereferenced(v) == [v EXCEPT !.stars = @ - 1]
AddressOf(v) == [v EXCEPT !.stars = @ + 1]

(* Arrays and floats have no case in getLLVMType.                          *)
LLVMType(t) ==
  IF t = NullType \/ t.size # 0 \/ t.base = "float"
  THEN NoValue ELSE LLVM(t.base, t.stars)

=============================================================================
