----------------------------- MODULE MCBootMem -----------------------------
(* A machine of up to 72 pages of 16 bytes: low memory below a hole, the   *)
(* kernel image behind it, and one more entry of any kind anywhere.        *)
EXTENDS BootMem

CONSTANTS
    Tops,    \* where the main memory ends
    Marks    \* where the third entry may start and end

Entry(a, b, t) == [addr |-> a, size |-> b - a, type |-> t]
LowMemory == Entry(0, 24, E820_RAM)

Thirds == {Entry(a, b, t) : a \in Marks, b \in Marks, t \in {1, 2, 3}}

(* The loader has put the image into usable memory, and the third entry is *)
(* first or between the others, which may be in descending order.          *)
MCBiosMaps ==
    LET Main(top) == Entry(TextStart, top, E820_RAM)
        maps == UNION { { <<LowMemory, Main(top)>>, <<Main(top)>> }
                        \cup UNION { { <<x, LowMemory, Main(top)>>,
                                       <<Main(top), x, LowMemory>> }
                                     : x \in {y \in Thirds : y.size >= 0} }
                        : top \in Tops }
        Loaded(m) == \A x \in TextStart .. KernelEnd - 1 : TypeAt(m, x) = E820_RAM
    IN {m \in maps : Loaded(m)}
=============================================================================
