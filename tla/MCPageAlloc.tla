---------------------------- MODULE MCPageAlloc ----------------------------
(***************************************************************************)
(* Instances of PageAlloc for TLC: a DMA zone of pages 0..3 and a NORMAL   *)
(* zone of pages 4..10, which ends inside a page block; blocks of up to    *)
(* four pages, and page blocks of four pages.                              *)
(***************************************************************************)
EXTENDS PageAllocProofs

MCZones == {0, 1}
MCZoneStart == [z \in MCZones |-> IF z = 0 THEN 0 ELSE 4]
MCZoneEnd == [z \in MCZones |-> IF z = 0 THEN 4 ELSE 11]
MCSize == [o \in 0 .. MAX_ORDER |-> 2 ^ o]
MCWatermark == [z \in MCZones |-> 0]

(* Shorter than a chunk of 32 pages, so pages 1..10 are released singly. *)
MCSingles == {<<1, 11>>}
(* With chunks of two pages: 3 and 8 singly, 4..5 and 6..7 as chunks. *)
MCChunk == {<<3, 9>>}
=============================================================================
