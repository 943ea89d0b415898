-------------------------- MODULE MCMethodLinkage --------------------------
(***************************************************************************)
(* Two classes, B a subclass of A, in either order, with a method that B   *)
(* overrides, one that only A has, and in some programs one with the name  *)
(* of a generated function or of another function's symbol, or two of one  *)
(* name; and functions two of which have one name.                         *)
(***************************************************************************)
EXTENDS MethodLinkage, TLC

CONSTANTS A, B

MCAncestry == (OBJ :> <<OBJ>>) @@ (A :> <<A, OBJ>>) @@ (B :> <<B, A, OBJ>>)

Void(name) == [name |-> name, result |-> "void"]

MCMethodTables ==
  {(A :> <<Void("m"), Void("n")>>) @@ (B :> <<Void("m")>>),
   (A :> <<Void("m")>>) @@ (B :> <<Void("init")>>),
   (A :> <<Void("kill")>>) @@ (B :> <<Void("n")>>),
   (A :> <<Void("n")>>) @@ (B :> <<[name |-> "m", result |-> "int"]>>),
   (A :> <<Void("m"), Void("m")>>) @@ (B :> <<>>)}

MCFunctions == <<"main", "f", "f">>

(* Function f of a package that is named like B's first name.              *)
MCAlias == (<<"function", "f">> :> <<"symbol", 1>>) @@ (<<B, "n">> :> <<"symbol", 1>>)
=============================================================================
