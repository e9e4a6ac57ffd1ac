------------------------------- MODULE MCSlub -------------------------------
(* Three blocks, the third of the smallest order.  Blocks of one order are *)
(* alike.                                                                  *)
EXTENDS Slub

CONSTANTS f1, f2, f3
MCOoFrames == {f1, f2}
FrameSymmetry == Permutations(MCOoFrames)
=============================================================================
