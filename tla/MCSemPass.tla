----------------------------- MODULE MCSemPass ------------------------------
(* Small instances of SemPass for TLC.  In `List` the class with a method  *)
(* is the last one; in `ListFirst` it is the first, as in README.md.       *)
EXTENDS SemPass, TLC

CONSTANTS List, Node, Typo, f1, f2, add, mangledF, mangledG, n, w

MCClasses == <<Node, List>>
ListFirst == <<List, Node>>

(* Both classes have a field n, of different types.                        *)
MCField == (Node :> (n :> IntType)) @@ (List :> (n :> Pointer(Node)))

MCFunctions == <<f1, f2>>
MCMethods == << <<List, add>> >>

MCSig == (f1 :> [param |-> n, type |-> IntType, result |-> IntType])
      @@ (f2 :> [param |-> w, type |-> Pointer(Node), result |-> Pointer(Node)])
      @@ (add :> [param |-> w, type |-> IntType, result |-> IntType])

MCNamespaceName == (f1 :> mangledF) @@ (f2 :> mangledG)

MCVariable == {n, w}
MCVarType == {IntType, Pointer(List), Pointer(Typo)}
MCConstructed == {Node, Typo}
MCCalled == {f2, w}

=============================================================================
