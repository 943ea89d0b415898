--------------------------- MODULE MCExpressions ---------------------------
(* A small instance of Expressions for TLC: the function is a method of    *)
(* Foo that returns int.                                                   *)
EXTENDS Expressions, TLC

CONSTANTS
  Foo, Bar,                      \* classes
  putI, putV, mk, num,           \* functions
  vi, vb, vs, vp, vq, vv, va, vf, \* variables
  rad, nxt, flt, meth, area, self, nowhere  \* fields, a method, this, an unknown name

MCClass == {Foo, Bar}
MCFunction == {putI, putV, mk, num}

Int == Type("int32", 0)
FooPtr == Type(Foo, 1)

(* A procedure, a function with more arguments like printf in the tests,   *)
(* one from objects to objects, and one that returns a float.              *)
MCSignature ==
     (putI :> [params |-> <<Int>>, result |-> Type("void", 0), vararg |-> FALSE])
  @@ (putV :> [params |-> <<Type("int8", 1)>>, result |-> Int, vararg |-> TRUE])
  @@ (mk :> [params |-> <<FooPtr>>, result |-> FooPtr, vararg |-> FALSE])
  @@ (num :> [params |-> <<>>, result |-> Type("float", 0), vararg |-> FALSE])

(* A class by value, an array, a float, and pointers to two classes.       *)
MCVariableType ==
     (vi :> Int) @@ (vb :> Type("int8", 0)) @@ (vs :> Type("int8", 1))
  @@ (vp :> FooPtr) @@ (vq :> Type(Bar, 1)) @@ (vv :> Type(Foo, 0))
  @@ (va :> ArrayOf("int32", 5)) @@ (vf :> Type("float", 0))
MCVariable == DOMAIN MCVariableType

MCMember == (rad :> Int) @@ (nxt :> FooPtr) @@ (flt :> Type("float", 0))
MCField == (Foo :> MCMember) @@ (Bar :> (rad :> Int))
MCMethod ==
  (Foo :> (meth :> Int)) @@ (Bar :> ((meth :> FooPtr) @@ (area :> Type("float", 1))))

MCTypeNode ==
  [name : {"int", "void", "float", Foo, nowhere}, isArray : {FALSE}, count : {0, 1}]
  \cup {[name |-> "uint8", isArray |-> TRUE, count |-> 5]}

=============================================================================
