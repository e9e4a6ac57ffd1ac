------------------------------ MODULE NodeMap ------------------------------
(***************************************************************************)
(* The early_node_map of mm/page_alloc.c: the page ranges that hold        *)
(* memory, as the zones are computed from it and memory is handed out      *)
(* before the page allocator runs.  There is one node, so the nid of an    *)
(* entry is always the one asked for.                                      *)
(***************************************************************************)
EXTENDS Memblock, Ranges

CONSTANTS
    MAX_ACTIVE_REGIONS,   \* entries early_node_map can hold
    SMP_CACHE_BYTES       \* alignment of early allocations

(* add_active_range.  Two of its tests read the end of entry 0 instead of  *)
(* entry i; the ranges it is given ascend and do not touch.                *)
add_active_range(map, start_pfn, end_pfn) ==
    LET Inside(i)  == start_pfn >= map[i].start /\ end_pfn <= map[1].end
        Extends(i) == start_pfn <= map[1].end /\ end_pfn > map[i].end
        Precedes(i) == start_pfn < map[i].start /\ end_pfn >= map[i].start
        hits == {i \in DOMAIN map : Inside(i) \/ Extends(i) \/ Precedes(i)}
        h == Min(hits)
    IN IF hits # {} /\ Inside(h) THEN map
       ELSE IF hits # {} /\ Extends(h) THEN [map EXCEPT ![h].end = end_pfn]
       ELSE IF hits # {} THEN [map EXCEPT ![h].start = start_pfn]
       ELSE IF Len(map) >= MAX_ACTIVE_REGIONS THEN map
       ELSE Append(map, PfnRange(start_pfn, end_pfn))

memblock_x86_register_active_regions(map, memory, last_pfn) ==
    LET Step(m, r) == LET pages == memblock_x86_find_active_region(r, last_pfn)
                      IN IF pages[1] >= pages[2] THEN m
                         ELSE add_active_range(m, pages[1], pages[2])
        reg[i \in 0 .. Len(memory)] == IF i = 0 THEN map ELSE Step(reg[i - 1], memory[i])
    IN reg[Len(memory)]

find_min_pfn_for_node(map) ==
    IF map = <<>> THEN 0 ELSE Min({map[i].start : i \in DOMAIN map})

(* The end that get_pfn_range_for_nid finds; its start is the one above. *)
NodeEnd(map) == Max({0} \cup {map[i].end : i \in DOMAIN map})

(* Mutant: the end of the last entry, even when it is below the range. *)
UnclippedEnd(prev_end, start) == prev_end

(* Where the hole before an entry of the map starts. *)
HoleStart(prev_end, start) == MostOf(prev_end, start)

(* __absent_pages_in_range: the pages of a range in no entry.  The sorted  *)
(* map is walked up to the first entry that ends behind the range.         *)
__absent_pages_in_range(map, start, end) ==
    LET Step(w, e) ==
            LET e_start == LeastOf(e.start, end)
            IN IF w.prev_end >= end THEN w
               ELSE [prev_end |-> e.end,
                     holes |-> w.holes + (IF e_start <= start THEN 0
                                          ELSE e_start - HoleStart(w.prev_end, start))]
        walk[i \in 0 .. Len(map)] == IF i = 0 THEN [prev_end |-> 0, holes |-> 0]
                                     ELSE Step(walk[i - 1], map[i])
        last == walk[Len(map)]
    IN last.holes + (IF end > last.prev_end THEN end - MostOf(last.prev_end, start) ELSE 0)

(* find_memory_core_early: the place of an early allocation of size bytes  *)
(* in [goal, limit), from entry i down.                                    *)
RECURSIVE FindEarlyFrom(_, _, _, _, _, _, _, _)
FindEarlyFrom(i, map, memory, reserved, size, align, goal, limit) ==
    LET start == MostOf(map[i].start * PAGE_SIZE, goal)
        end   == LeastOf(map[i].end * PAGE_SIZE, limit)
        addr  == IF start >= end THEN MEMBLOCK_ERROR
                 ELSE memblock_find_in_range(memory, reserved, start, end, size, align)
    IN IF i = 0 THEN MEMBLOCK_ERROR
       ELSE IF addr # MEMBLOCK_ERROR THEN addr
       ELSE FindEarlyFrom(i - 1, map, memory, reserved, size, align, goal, limit)

find_memory_core_early(map, memory, reserved, size, align, goal, limit) ==
    FindEarlyFrom(Len(map), map, memory, reserved, size, align, goal, limit)

(* __get_free_all_memory_range: the whole pages of the node map below      *)
(* end_pfn that no reservation touches.  The array has two slots for each  *)
(* entry and reservation.                                                  *)
(* Mutant: no slots for the tails of split ranges. *)
OneSlotEach(map, reserved) == Len(map)

FreeRangeSlots(map, reserved) == 2 * (Len(reserved) + Len(map))

(* Mutant: the page a reservation starts in is not part of it. *)
FirstWholePfn(r) == PFN_UP(r.base)

FirstPfn(r) == PFN_DOWN(r.base)

memblock_x86_subtract_reserved(range, reserved) ==
    LET Step(s, r) == subtract_range(s, FirstPfn(r), PFN_UP(EndOf(r)))
        left[i \in 0 .. Len(reserved)] == IF i = 0 THEN range ELSE Step(left[i - 1], reserved[i])
    IN left[Len(reserved)]

__get_free_all_memory_range(map, reserved, end_pfn, top_pfn) ==
    LET slots == <<>> \o [i \in 1 .. FreeRangeSlots(map, reserved) |-> FreeSlot]
        Add(w, e) == add_range(w.range, w.nr, e.start, e.end)
        filled[i \in 0 .. Len(map)] == IF i = 0 THEN [range |-> slots, nr |-> 0]
                                       ELSE Add(filled[i - 1], map[i])
        below == subtract_range(filled[Len(map)].range, end_pfn, top_pfn)
    IN clean_sort_range(memblock_x86_subtract_reserved(below, reserved))
=============================================================================
