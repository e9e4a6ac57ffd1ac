------------------------------ MODULE PageMath ------------------------------
(***************************************************************************)
(* The arithmetic macros of include/Xc/kernel.h.                           *)
(***************************************************************************)
EXTENDS Integers

LeastOf(a, b) == IF a < b THEN a ELSE b
MostOf(a, b) == IF a > b THEN a ELSE b

(* round_down and round_up, for a power of two. *)
AlignDown(x, a) == x - (x % a)
AlignUp(x, a) == AlignDown(x + a - 1, a)
=============================================================================
