---------------------------- MODULE MCClassTable ----------------------------
(* A small instance of ClassTable for TLC: a chain of up to three classes  *)
(* below obj, two field names (so that a name can be declared twice) and a *)
(* user method next to one that is named kill.                             *)
EXTENDS ClassTable

CONSTANTS A, B, C, f, g, m

MCClass == {A, B, C}
MCFieldName == {f, g}
MCMethodName == {m, "kill"}
MCKind == [n \in MCFieldName |-> "int"]

Symmetry == Permutations(MCClass)

=============================================================================
