---------------------------- MODULE MCArcCodegen ----------------------------
(* Small instances of ArcCodegen for TLC.                                  *)
EXTENDS ArcCodegen, TLC

CONSTANTS x, y, p, f

MCLocal == {x, y}
MCParam == {p}
MCField == {f}

Symmetry == Permutations(MCLocal)

=============================================================================
