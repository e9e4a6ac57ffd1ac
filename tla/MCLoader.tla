------------------------------ MODULE MCLoader ------------------------------
(* Floppy drives of several formats, one of them with a single head, and a *)
(* drive with long tracks.                                                 *)
EXTENDS Loader

Drive(spt, heads, cylinders) == [spt |-> spt, heads |-> heads, cylinders |-> cylinders]
MCGeometries == {Drive(18, 2, 80), Drive(36, 2, 80), Drive(15, 2, 80), Drive(9, 2, 40),
                 Drive(18, 1, 80), Drive(63, 16, 20)}
=============================================================================
