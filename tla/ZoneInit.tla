------------------------------ MODULE ZoneInit ------------------------------
(***************************************************************************)
(* How mm/page_alloc.c divides the node's pages [node_start, node_end)     *)
(* into zones: ZONE_DMA below a fixed page, ZONE_NORMAL above it, and      *)
(* ZONE_MOVABLE cut off from the top of the last of the two.               *)
(***************************************************************************)
EXTENDS PageMath

CONSTANT MAX_ORDER_NR_PAGES   \* pages of the largest block

ASSUME MaxOrderAssumption == MAX_ORDER_NR_PAGES \in Nat \ {0}

ZONE_DMA == 0
ZONE_NORMAL == 1
ZONE_MOVABLE == 2
ZoneIds == 0 .. 2

(* find_usable_zone_for_movable: the highest zone that is not empty.  The  *)
(* code runs off the table when both are; ZONE_DMA never is.               *)
MovableZone(lowest, highest) ==
    IF highest[ZONE_NORMAL] > lowest[ZONE_NORMAL] THEN ZONE_NORMAL ELSE ZONE_DMA

(* find_zone_movable_pfns_for_nodes: the movable zone takes the last tenth *)
(* of that zone, from a multiple of the largest block on.                  *)
MovablePfn(lowest, highest) ==
    LET z == MovableZone(lowest, highest)
    IN AlignUp(lowest[z] + ((highest[z] - lowest[z]) \div 10) * 9, MAX_ORDER_NR_PAGES)

(* The tables free_area_init_nodes fills in: arch_zone_lowest_possible_pfn *)
(* and arch_zone_highest_possible_pfn, movable_zone, zone_movable_pfn.     *)
ArchZones(min_pfn, max_dma_pfn, max_low_pfn) ==
    LET lowest  == [z \in ZoneIds |-> CASE z = ZONE_DMA -> min_pfn
                                        [] z = ZONE_NORMAL -> max_dma_pfn
                                        [] z = ZONE_MOVABLE -> 0]
        highest == [z \in ZoneIds |-> CASE z = ZONE_DMA -> max_dma_pfn
                                        [] z = ZONE_NORMAL -> MostOf(max_low_pfn, max_dma_pfn)
                                        [] z = ZONE_MOVABLE -> 0]
    IN [lowest |-> lowest, highest |-> highest,
        movable_zone |-> MovableZone(lowest, highest),
        movable_pfn |-> MovablePfn(lowest, highest)]

(* adjust_zone_range_for_zone_movable, on the range r = <<start, end>>. *)
AdjustForMovable(arch, z, node_end, r) ==
    LET movable == arch.movable_pfn
    IN IF movable = 0 THEN r
       ELSE IF z = ZONE_MOVABLE
       THEN <<movable, LeastOf(node_end, arch.highest[arch.movable_zone])>>
       ELSE IF r[1] < movable /\ r[2] > movable THEN <<r[1], movable>>
       ELSE IF r[1] >= movable THEN <<r[2], r[2]>>
       ELSE r

zone_spanned_pages_in_node(arch, z, node_start, node_end) ==
    LET r == AdjustForMovable(arch, z, node_end, <<arch.lowest[z], arch.highest[z]>>)
    IN IF r[2] < node_start \/ r[1] > node_end THEN 0
       ELSE LeastOf(r[2], node_end) - MostOf(r[1], node_start)

(* The range whose holes zone_absent_pages_in_node counts.  It is clipped  *)
(* to the node before it is adjusted, not after.                           *)
AbsentRange(arch, z, node_start, node_end) ==
    AdjustForMovable(arch, z, node_end,
        <<MostOf(arch.lowest[z], node_start), LeastOf(arch.highest[z], node_end)>>)

(* Where free_area_init_core puts a zone: behind the ones before it. *)
ZoneStartPfn(arch, z, node_start, node_end) ==
    LET Span(y) == zone_spanned_pages_in_node(arch, y, node_start, node_end)
    IN CASE z = ZONE_DMA -> node_start
         [] z = ZONE_NORMAL -> node_start + Span(ZONE_DMA)
         [] z = ZONE_MOVABLE -> node_start + Span(ZONE_DMA) + Span(ZONE_NORMAL)

(* The zones cover the node: every page lies in exactly one of them, the   *)
(* one its number asks for.  DMA pages are below max_dma_pfn and movable   *)
(* ones from movable_pfn on.                                               *)
ZonesTile(arch, node_start, node_end) ==
    LET Span(z) == zone_spanned_pages_in_node(arch, z, node_start, node_end)
        Start(z) == ZoneStartPfn(arch, z, node_start, node_end)
    IN /\ \A z \in ZoneIds : Span(z) \in Nat
       /\ Span(ZONE_DMA) + Span(ZONE_NORMAL) + Span(ZONE_MOVABLE) = node_end - node_start
       /\ Span(ZONE_DMA) > 0 => Start(ZONE_DMA) + Span(ZONE_DMA) <= arch.highest[ZONE_DMA]
       /\ Span(ZONE_NORMAL) > 0 => Start(ZONE_NORMAL) >= arch.highest[ZONE_DMA]
       /\ Span(ZONE_MOVABLE) > 0 => Start(ZONE_MOVABLE) = MostOf(arch.movable_pfn, node_start)
=============================================================================
