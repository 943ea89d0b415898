------------------------- MODULE MCObjectLifecycle --------------------------
(* Small instances of ObjectLifecycle for TLC: every hierarchy of three    *)
(* classes, with one field of each kind.                                   *)
EXTENDS ObjectLifecycle

CONSTANTS A, B, C, i, p, o

MCClass == {A, B, C}
MCFieldName == {i, p, o}
MCKind == (i :> "int") @@ (p :> "pointer") @@ (o :> "inline")

(* `new obj` is accepted as well.                                         *)
MCNewable == MCClass \cup {OBJ}

Symmetry == Permutations(MCClass)

=============================================================================
