-------------------------- MODULE ZoneInitProofs --------------------------
(***************************************************************************)
(* The zones tile the node, for every size of memory: the arithmetic of    *)
(* free_area_init_nodes and zone_spanned_pages_in_node loses no page and   *)
(* gives none to two zones.                                                *)
(***************************************************************************)
EXTENDS ZoneInit, TLAPS

(* round_up never rounds down. *)
LEMMA AlignUpNat ==
    ASSUME NEW x \in Nat, NEW a \in Nat \ {0}
    PROVE  AlignUp(x, a) \in Nat /\ AlignUp(x, a) >= x
<1>1. (x + a - 1) % a \in 0 .. a - 1
  BY SMT
<1>2. x + a - 1 \in Nat
  BY SMT
<1> QED
  BY <1>1, <1>2, SMT DEF AlignUp, AlignDown

(* find_zone_movable_pfns_for_nodes cuts inside the zone it cuts, or above *)
(* it, never below its start.                                              *)
LEMMA MovableAbove ==
    ASSUME NEW low \in Nat, NEW high \in Nat, low <= high
    PROVE  LET p == AlignUp(low + ((high - low) \div 10) * 9, MAX_ORDER_NR_PAGES)
           IN p \in Nat /\ p >= low
<1> DEFINE x == low + ((high - low) \div 10) * 9
<1>1. x \in Nat /\ x >= low
  BY SMT
<1>2. AlignUp(x, MAX_ORDER_NR_PAGES) \in Nat /\ AlignUp(x, MAX_ORDER_NR_PAGES) >= x
  <2> HIDE DEF x
  <2> QED BY <1>1, AlignUpNat, MaxOrderAssumption
<1> QED
  <2> DEFINE p == AlignUp(x, MAX_ORDER_NR_PAGES)
  <2>1. p \in Nat /\ p >= x
    BY <1>2
  <2>2. p >= low
    <3> HIDE DEF p, x
    <3> QED BY <2>1, <1>1, SMT
  <2> QED BY <2>1, <2>2

(* The fields of the tables free_area_init_nodes fills in. *)
LEMMA ArchZonesFields ==
    ASSUME NEW min \in Nat, NEW max_dma \in Nat, NEW max_low \in Nat, min < max_dma
    PROVE  LET a == ArchZones(min, max_dma, max_low)
           IN /\ a.lowest[ZONE_DMA] = min
              /\ a.lowest[ZONE_NORMAL] = max_dma
              /\ a.lowest[ZONE_MOVABLE] = 0
              /\ a.highest[ZONE_DMA] = max_dma
              /\ a.highest[ZONE_NORMAL] = MostOf(max_low, max_dma)
              /\ a.highest[ZONE_MOVABLE] = 0
              /\ a.movable_zone = (IF max_low > max_dma THEN ZONE_NORMAL ELSE ZONE_DMA)
              /\ a.movable_pfn \in Nat
              /\ a.movable_pfn >= (IF max_low > max_dma THEN max_dma ELSE min)
<1> DEFINE a == ArchZones(min, max_dma, max_low)
<1> DEFINE lowest == [z \in ZoneIds |-> CASE z = ZONE_DMA -> min
                                          [] z = ZONE_NORMAL -> max_dma
                                          [] z = ZONE_MOVABLE -> 0]
<1> DEFINE highest == [z \in ZoneIds |-> CASE z = ZONE_DMA -> max_dma
                                           [] z = ZONE_NORMAL -> MostOf(max_low, max_dma)
                                           [] z = ZONE_MOVABLE -> 0]
<1>1. /\ lowest[ZONE_DMA] = min
      /\ lowest[ZONE_NORMAL] = max_dma
      /\ lowest[ZONE_MOVABLE] = 0
  BY DEF ZoneIds, ZONE_DMA, ZONE_NORMAL, ZONE_MOVABLE
<1>2. /\ highest[ZONE_DMA] = max_dma
      /\ highest[ZONE_NORMAL] = MostOf(max_low, max_dma)
      /\ highest[ZONE_MOVABLE] = 0
  BY DEF ZoneIds, ZONE_DMA, ZONE_NORMAL, ZONE_MOVABLE
<1>3. /\ a.lowest = lowest
      /\ a.highest = highest
      /\ a.movable_zone = MovableZone(lowest, highest)
      /\ a.movable_pfn = MovablePfn(lowest, highest)
  BY DEF ArchZones
<1> HIDE DEF a, lowest, highest
<1>4. MovableZone(lowest, highest) = (IF max_low > max_dma THEN ZONE_NORMAL ELSE ZONE_DMA)
  BY <1>1, <1>2 DEF MovableZone, MostOf
<1>5. CASE max_low > max_dma
  <2>1. MovablePfn(lowest, highest) =
            AlignUp(max_dma + ((max_low - max_dma) \div 10) * 9, MAX_ORDER_NR_PAGES)
    <3>1. MovableZone(lowest, highest) = ZONE_NORMAL
      BY <1>4, <1>5
    <3>2. highest[ZONE_NORMAL] = max_low
      BY <1>2, <1>5 DEF MostOf
    <3> QED BY <3>1, <3>2, <1>1 DEF MovablePfn
  <2>2. MovablePfn(lowest, highest) \in Nat /\ MovablePfn(lowest, highest) >= max_dma
    <3>1. max_dma <= max_low
      BY <1>5
    <3> QED BY <2>1, <3>1, MovableAbove
  <2> QED BY <1>1, <1>2, <1>3, <1>4, <1>5, <2>2 DEF a
<1>6. CASE ~(max_low > max_dma)
  <2>1. MovablePfn(lowest, highest) =
            AlignUp(min + ((max_dma - min) \div 10) * 9, MAX_ORDER_NR_PAGES)
    <3>1. MovableZone(lowest, highest) = ZONE_DMA
      BY <1>4, <1>6
    <3> QED BY <3>1, <1>1, <1>2 DEF MovablePfn
  <2>2. MovablePfn(lowest, highest) \in Nat /\ MovablePfn(lowest, highest) >= min
    <3>1. min <= max_dma
      OBVIOUS
    <3> QED BY <2>1, <3>1, MovableAbove
  <2> QED BY <1>1, <1>2, <1>3, <1>4, <1>6, <2>2 DEF a
<1> QED BY <1>5, <1>6

(* Zone initialisation (free_area_init_nodes, free_area_init_core): for    *)
(* every node [min, node_end) that starts below the DMA limit and ends in  *)
(* low memory, the zones' spans are natural numbers that add up to the     *)
(* node, and each zone starts where its pages start.                       *)
THEOREM ZonesTileNode ==
    ASSUME NEW min \in Nat, NEW max_dma \in Nat, NEW max_low \in Nat, NEW node_end \in Nat,
           min < max_dma, min <= node_end, node_end <= max_low
    PROVE  ZonesTile(ArchZones(min, max_dma, max_low), min, node_end)
<1> DEFINE a == ArchZones(min, max_dma, max_low)
           Span(z) == zone_spanned_pages_in_node(a, z, min, node_end)
           m == a.movable_pfn
<1>1. /\ a.lowest[ZONE_DMA] = min
      /\ a.lowest[ZONE_NORMAL] = max_dma
      /\ a.lowest[ZONE_MOVABLE] = 0
      /\ a.highest[ZONE_DMA] = max_dma
      /\ a.highest[ZONE_NORMAL] = MostOf(max_low, max_dma)
      /\ a.highest[ZONE_MOVABLE] = 0
      /\ a.movable_zone = (IF max_low > max_dma THEN ZONE_NORMAL ELSE ZONE_DMA)
      /\ m \in Nat
      /\ m >= (IF max_low > max_dma THEN max_dma ELSE min)
  BY ArchZonesFields
<1> HIDE DEF a
<1> DEFINE Tiled(d, n, v) == /\ d \in Nat /\ n \in Nat /\ v \in Nat
                             /\ d + n + v = node_end - min
                             /\ d > 0 => min + d <= max_dma
                             /\ n > 0 => min + d >= max_dma
                             /\ v > 0 => min + d + n = MostOf(m, min)
<1>2. ASSUME max_low > max_dma
      PROVE  Tiled(Span(ZONE_DMA), Span(ZONE_NORMAL), Span(ZONE_MOVABLE))
  <2>1. Span(ZONE_DMA) = LeastOf(max_dma, node_end) - min
    BY <1>1, <1>2 DEF zone_spanned_pages_in_node, AdjustForMovable, LeastOf, MostOf,
                      ZONE_DMA, ZONE_MOVABLE
  <2>2. Span(ZONE_NORMAL) = IF node_end <= max_dma THEN 0 ELSE LeastOf(m, node_end) - max_dma
    BY <1>1, <1>2 DEF zone_spanned_pages_in_node, AdjustForMovable, LeastOf, MostOf,
                      ZONE_NORMAL, ZONE_MOVABLE
  <2>3. Span(ZONE_MOVABLE) = IF node_end <= m THEN 0 ELSE node_end - m
    BY <1>1, <1>2 DEF zone_spanned_pages_in_node, AdjustForMovable, LeastOf, MostOf,
                      ZONE_NORMAL, ZONE_MOVABLE
  <2>4. m \in Nat /\ m >= max_dma
    BY <1>1, <1>2
  <2> HIDE DEF Span, m
  <2>5. Tiled(Span(ZONE_DMA), Span(ZONE_NORMAL), Span(ZONE_MOVABLE))
    BY <1>2, <2>1, <2>2, <2>3, <2>4 DEF LeastOf, MostOf
  <2> QED BY <2>5
<1>3. ASSUME ~(max_low > max_dma)
      PROVE  Tiled(Span(ZONE_DMA), Span(ZONE_NORMAL), Span(ZONE_MOVABLE))
  <2>1. Span(ZONE_DMA) = IF m = 0 THEN node_end - min ELSE LeastOf(m, node_end) - min
    BY <1>1, <1>3 DEF zone_spanned_pages_in_node, AdjustForMovable, LeastOf, MostOf,
                      ZONE_DMA, ZONE_MOVABLE
  <2>2. Span(ZONE_NORMAL) = 0
    BY <1>1, <1>3 DEF zone_spanned_pages_in_node, AdjustForMovable, LeastOf, MostOf,
                      ZONE_NORMAL, ZONE_MOVABLE
  <2>3. Span(ZONE_MOVABLE) = IF m = 0 \/ node_end <= m THEN 0 ELSE node_end - m
    BY <1>1, <1>3 DEF zone_spanned_pages_in_node, AdjustForMovable, LeastOf, MostOf,
                      ZONE_DMA, ZONE_MOVABLE
  <2>4. m \in Nat /\ m >= min
    BY <1>1, <1>3
  <2> HIDE DEF Span, m
  <2>5. Tiled(Span(ZONE_DMA), Span(ZONE_NORMAL), Span(ZONE_MOVABLE))
    BY <1>3, <2>1, <2>2, <2>3, <2>4 DEF LeastOf, MostOf
  <2> QED BY <2>5
<1>4. Tiled(Span(ZONE_DMA), Span(ZONE_NORMAL), Span(ZONE_MOVABLE))
  BY <1>2, <1>3
<1>5. ZonesTile(a, min, node_end)
  BY <1>1, <1>4 DEF ZonesTile, ZoneStartPfn, ZoneIds, ZONE_DMA, ZONE_NORMAL, ZONE_MOVABLE
<1> QED BY <1>5 DEF a
=============================================================================
