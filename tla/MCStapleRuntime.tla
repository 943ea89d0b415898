-------------------------- MODULE MCStapleRuntime --------------------------
(* Small instances of StapleRuntime for TLC. *)
EXTENDS StapleRuntime

CONSTANTS
  t1, t2,      \* threads
  x, y,        \* variables
  tmp,         \* a temporary
  a, b, low    \* objects; low is the one at a multiple of 2^32

MCThread == {t1, t2}
MCVar == {x, y}
MCTemp == {tmp}
MCObj == {a, b, low}
MCLowZero == {low}

(* Two variables, one temporary and two threads can own an object at once: *)
(* the count reaches the last value it has.                                *)
MCRefModulus == 5

=============================================================================
