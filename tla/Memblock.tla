------------------------------ MODULE Memblock ------------------------------
(***************************************************************************)
(* The early memory bookkeeping of mm/memblock.c: two arrays of regions,   *)
(* usable memory and reservations, kept sorted and merged.                 *)
(*                                                                         *)
(* An array is the sequence of its first cnt regions.  An empty array has  *)
(* one region of size zero, as in the code.                                *)
(***************************************************************************)
EXTENDS PageMath, SequencesExt

CONSTANTS
    PAGE_SIZE,              \* bytes in a page
    INIT_MEMBLOCK_REGIONS   \* regions an array can hold

MEMBLOCK_ERROR == 0

Region(base, size) == [base |-> base, size |-> size]
EndOf(r) == r.base + r.size
NoRegions == <<Region(0, 0)>>

PFN_DOWN(x) == x \div PAGE_SIZE
PFN_UP(x) == (x + PAGE_SIZE - 1) \div PAGE_SIZE

memblock_remove_region(regions, i) ==
    IF Len(regions) = 1 THEN NoRegions ELSE RemoveAt(regions, i)

(* The end of memblock_add_region: the region goes to its place in the     *)
(* array, or nowhere when the array is full.                               *)
InsertRegion(regions, base, size) ==
    LET below == {i \in 1 .. Len(regions) : regions[i].base <= base}
        place == Cardinality(below) + 1
    IN IF regions = NoRegions
       THEN [ok |-> TRUE, regions |-> <<Region(base, size)>>]
       ELSE IF Len(regions) >= INIT_MEMBLOCK_REGIONS
       THEN [ok |-> FALSE, regions |-> regions]
       ELSE [ok |-> TRUE, regions |-> InsertAt(regions, place, Region(base, size))]

(* The loop of memblock_add_region from region i on: a region that the new *)
(* one reaches beyond is taken out and joined to it.                       *)
RECURSIVE AddFrom(_, _, _, _)
AddFrom(regions, i, base, size) ==
    LET end   == base + size
        rgn   == regions[i]
        rend  == EndOf(rgn)
        start == LeastOf(base, rgn.base)
    IN IF i > Len(regions) \/ rgn.base > end \/ rgn.size = 0
       THEN InsertRegion(regions, base, size)
       ELSE IF rend >= end
       THEN [ok |-> TRUE, regions |-> [regions EXCEPT ![i] = Region(start, rend - start)]]
       ELSE IF base <= rend
       THEN AddFrom(memblock_remove_region(regions, i), i, start, end - start)
       ELSE AddFrom(regions, i + 1, base, size)

memblock_add_region(regions, base, size) == AddFrom(regions, 1, base, size)

(* A reservation that finds the array full is lost without a word. *)
memblock_x86_reserve_range(regions, start, end) ==
    IF start = end THEN regions
    ELSE memblock_add_region(regions, start, end - start).regions

(* Mutant: only looks at where the area starts. *)
OverlappingStart(reserved, base, size) ==
    {i \in 1 .. Len(reserved) : reserved[i].base <= base /\ base < EndOf(reserved[i])}

(* Indices of the reservations that meet [base, base + size). *)
Overlapping(reserved, base, size) ==
    {i \in 1 .. Len(reserved) :
        base < EndOf(reserved[i]) /\ reserved[i].base < base + size}

(* Downwards from base, the first aligned place free of reservations. *)
RECURSIVE SearchDown(_, _, _, _, _)
SearchDown(reserved, start, base, size, align) ==
    LET met == Overlapping(reserved, base, size)
        res_base == reserved[Min(met)].base
    IN IF start > base THEN MEMBLOCK_ERROR
       ELSE IF met = {} THEN base
       ELSE IF res_base < size THEN MEMBLOCK_ERROR
       ELSE SearchDown(reserved, start, AlignDown(res_base - size, align), size, align)

memblock_find_region(reserved, start, end, size, align) ==
    IF end < size THEN MEMBLOCK_ERROR
    ELSE SearchDown(reserved, IF start = 0 THEN PAGE_SIZE ELSE start,
                    AlignDown(end - size, align), size, align)

(* memblock_find_base from region i down: the highest place in             *)
(* [start, end) of a memory region.  It stops at a region below start.     *)
RECURSIVE FindBaseFrom(_, _, _, _, _, _, _)
FindBaseFrom(i, memory, reserved, size, align, start, end) ==
    LET bottom == MostOf(memory[i].base, start)
        top    == LeastOf(EndOf(memory[i]), end)
        found  == IF memory[i].size < size \/ bottom >= top THEN MEMBLOCK_ERROR
                  ELSE memblock_find_region(reserved, bottom, top, size, align)
    IN IF i = 0 THEN MEMBLOCK_ERROR
       ELSE IF memory[i].size >= size /\ EndOf(memory[i]) <= start THEN MEMBLOCK_ERROR
       ELSE IF found # MEMBLOCK_ERROR THEN found
       ELSE FindBaseFrom(i - 1, memory, reserved, size, align, start, end)

memblock_find_in_range(memory, reserved, start, end, size, align) ==
    FindBaseFrom(Len(memory), memory, reserved, size, align, start, end)

(* The whole pages of a region below last_pfn, <<start, end>>. *)
memblock_x86_find_active_region(r, last_pfn) ==
    <<PFN_UP(r.base), LeastOf(PFN_DOWN(EndOf(r)), last_pfn)>>
=============================================================================
