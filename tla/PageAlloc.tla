----------------------------- MODULE PageAlloc -----------------------------
(***************************************************************************)
(* The zoned buddy page allocator of mm/page_alloc.c, together with the    *)
(* hand-over of boot memory to it by mm/nobootmem.c.                       *)
(*                                                                         *)
(* The kernel is uniprocessor and the allocator runs with interrupts off   *)
(* (local_irq_save, spin_lock_irqsave), so there is at most one operation  *)
(* in progress; it is held in the variable op.  The loops of the code      *)
(* (merging in __free_one_page, splitting in expand, the zonelist scan,    *)
(* the "goto again" of buffered_rmqueue) are one action per iteration.     *)
(*                                                                         *)
(* A free list is the set of the pages whose lru is on it: where the code  *)
(* takes the head of a list the model takes any member.                    *)
(***************************************************************************)
EXTENDS Integers, FiniteSets

CONSTANTS
    Zones,            \* indices of the populated zones: 0 DMA, 1 NORMAL
    ZoneStart,        \* zone_start_pfn of each zone
    ZoneEnd,          \* zone_start_pfn + spanned_pages of each zone
    MAX_ORDER,        \* one more than the largest block order
    Size,             \* Size[o] = 1 << o, the pages of a block of order o
    pageblock_order,  \* order of a page block
    ChunkOrder,       \* ilog2(BITS_PER_LONG)
    FreeRanges,       \* what get_free_all_memory_range returns: pairs <<start, end>>
    Watermark,        \* zone->watermark[WMARK_LOW] of each zone
    NoList            \* the list of a page that is on none

Orders == 0 .. MAX_ORDER - 1
Pages == UNION {ZoneStart[z] .. ZoneEnd[z] - 1 : z \in Zones}

MAX_NR_ZONES == 3

MIGRATE_UNMOVABLE   == 0
MIGRATE_RECLAIMABLE == 1
MIGRATE_MOVABLE     == 2
MIGRATE_PCPTYPES    == 3
MIGRATE_RESERVE     == 3
MIGRATE_ISOLATE     == 4
MigrateTypes == 0 .. 4
PcpTypes     == 0 .. MIGRATE_PCPTYPES - 1

(* Blocks are pairs <<first page, order>>. *)
FreeLists == Zones \X Orders \X MigrateTypes
Blocks == Pages \X Orders
Span(b) == b[1] .. b[1] + Size[b[2]] - 1

ASSUME GeometryAssumption ==
    /\ MAX_ORDER \in Nat \ {0}
    /\ Size \in [0 .. MAX_ORDER -> Nat \ {0}]
    /\ Size[0] = 1
    /\ \A o \in 0 .. MAX_ORDER - 1 : Size[o + 1] = 2 * Size[o]
    /\ pageblock_order \in Orders \ {0}
    /\ ChunkOrder \in Nat \ {0}

ASSUME ZoneAssumption ==
    /\ NoList \notin FreeLists
    /\ Zones \subseteq 0 .. MAX_NR_ZONES - 1
    /\ ZoneStart \in [Zones -> Nat]
    /\ ZoneEnd \in [Zones -> Nat]
    /\ \A y, z \in Zones : y < z => ZoneEnd[y] <= ZoneStart[z]
    /\ Watermark \in [Zones -> Nat]

VARIABLES
    bootq,        \* blocks free_all_bootmem has still to release
    buddy,        \* buddy[p]: page_order of p when PageBuddy(p), -1 otherwise
    lru,          \* lru[p]: the free list p is on
    nr_free,      \* nr_free[<<z, o>>]: zone z's free_area[o].nr_free
    free_pages,   \* free_pages[z]: vm_stat[NR_FREE_PAGES] of zone z
    blocktype,    \* migrate type of each page block
    pcp,          \* boot_pageset, the one per-cpu page set all zones share
    count,        \* count[p]: page->_count
    owned,        \* blocks handed out by __alloc_pages_nodemask, not freed yet
    lost,         \* blocks dropped by buffered_rmqueue after check_new_page failed
    op            \* the operation in progress

vars == <<bootq, buddy, lru, nr_free, free_pages, blocktype, pcp, count, owned, lost, op>>

-----------------------------------------------------------------------------
(* Pages, zones and page blocks. *)

page_zone(p) == CHOOSE z \in Zones : ZoneStart[z] <= p /\ p < ZoneEnd[z]

(* pfn_to_bitidx: page blocks are counted from the start of the zone. *)
PageBlock(p) ==
    LET z == page_zone(p) IN <<z, (p - ZoneStart[z]) \div Size[pageblock_order]>>
PageBlocks == {PageBlock(p) : p \in Pages}

(* memmap_init_zone marks a block movable at each pfn aligned to a page block; *)
(* the bitmap is zero, that is unmovable, elsewhere.                           *)
InitialType(pb) ==
    IF \E p \in Pages : PageBlock(p) = pb /\ p % Size[pageblock_order] = 0
    THEN MIGRATE_MOVABLE ELSE MIGRATE_UNMOVABLE

get_pageblock_migratetype(p) == blocktype[PageBlock(p)]

(* Mutant: the buddy is always the block above. *)
find_buddy_above(p, o) == p + Size[o]

__find_buddy_index(p, o) ==
    IF (p \div Size[o]) % 2 = 0 THEN p + Size[o] ELSE p - Size[o]

page_is_buddy(p, b, o) ==
    b \in Pages /\ page_zone(b) = page_zone(p) /\ buddy[b] = o

FreeList(z, o, mt) == {p \in Pages : lru[p] = <<z, o, mt>>}

(* __free_pages_memory: single pages up to the first and after the last multiple *)
(* of BITS_PER_LONG, blocks of BITS_PER_LONG pages between them.                 *)
Chunks(start, end) ==
    LET n == 2 ^ ChunkOrder
        first == ((start + n - 1) \div n) * n
        last == (end \div n) * n
    IN  IF last <= first
        THEN {<<p, 0>> : p \in start .. end - 1}
        ELSE {<<p, 0>> : p \in (start .. first - 1) \cup (last .. end - 1)}
             \cup {<<p, ChunkOrder>> : p \in {q \in first .. last - 1 : q % n = 0}}
BootBlocks == UNION {Chunks(r[1], r[2]) : r \in FreeRanges}

(* The blocks of free_all_bootmem lie in memory, each in one zone, and are disjoint. *)
ASSUME BootAssumption ==
    /\ BootBlocks \subseteq Blocks
    /\ \A b \in BootBlocks : Span(b) \subseteq Pages
    /\ \A b \in BootBlocks : \A p \in Span(b) : page_zone(p) = page_zone(b[1])
    /\ \A b, c \in BootBlocks :
          b # c => b[1] + Size[b[2]] <= c[1] \/ c[1] + Size[c[2]] <= b[1]

-----------------------------------------------------------------------------
(* The operation in progress.  page and cur are the block it has taken off a     *)
(* list and not placed yet, list the migrate type its remainders are filed       *)
(* under; high (the highest zone allowed), order and mt are the request.         *)

NoPage == -1
Idle == [pc |-> "idle", high |-> -1, zone |-> -1, order |-> 0, mt |-> 0,
         page |-> NoPage, cur |-> 0, list |-> 0]

(* Mutant: pages wait on the list shared by the zones until there are six. *)
setup_pageset_high(batch) ==
    [count |-> 0, high |-> 6 * (batch + 1), batch |-> 1, pages |-> {}]

(* boot_pageset as set up by setup_pageset(&boot_pageset, 0); an element of pages *)
(* is a page, the list it is on and its page_private.                             *)
setup_pageset(batch) ==
    [count |-> 0, high |-> 6 * batch, batch |-> IF batch > 1 THEN batch ELSE 1,
     pages |-> {}]

Init ==
    /\ bootq = BootBlocks
    /\ buddy = [p \in Pages |-> -1]
    /\ lru = [p \in Pages |-> NoList]
    /\ nr_free = [a \in Zones \X Orders |-> 0]
    /\ free_pages = [z \in Zones |-> 0]
    /\ blocktype = [pb \in PageBlocks |-> InitialType(pb)]
    /\ pcp = setup_pageset(0)
    /\ count = [p \in Pages |-> 1]
    /\ owned = {}
    /\ lost = {}
    /\ op = Idle

-----------------------------------------------------------------------------
(* Freeing. *)

(* __free_pages once put_page_testzero has found the count zero.  A single page   *)
(* joins the per-cpu list of its block's type (free_hot_cold_page); a larger one  *)
(* goes to free_one_page directly.                                                *)
FreeBlock(p, o) ==
    LET mt == get_pageblock_migratetype(p)
        entry == [page |-> p, private |-> mt,
                  type |-> IF mt >= MIGRATE_PCPTYPES THEN MIGRATE_MOVABLE ELSE mt]
        request(pc) == [Idle EXCEPT !.pc = pc, !.zone = page_zone(p), !.order = o]
    IN  IF o = 0 /\ mt # MIGRATE_ISOLATE
        THEN /\ pcp' = [pcp EXCEPT !.count = @ + 1, !.pages = @ \cup {entry}]
             /\ op' = IF pcp.count + 1 >= pcp.high THEN request("drain") ELSE Idle
        ELSE /\ op' = [request("merge") EXCEPT !.page = p, !.cur = o, !.list = mt]
             /\ UNCHANGED pcp

(* __free_pages_bootmem on the next block of free_all_bootmem.  In a block of     *)
(* BITS_PER_LONG pages the loop stores to the count of the first page only.       *)
FreePagesBootmem ==
    /\ op.pc = "idle"
    /\ \E b \in bootq :
          /\ \A c \in bootq : b[1] <= c[1]
          /\ bootq' = bootq \ {b}
          /\ count' = [count EXCEPT ![b[1]] = 0]
          /\ FreeBlock(b[1], b[2])
    /\ UNCHANGED <<buddy, lru, nr_free, free_pages, blocktype, owned, lost>>

(* Mutant: the count is not dropped. *)
FreePagesKeepCount(b) ==
    /\ op.pc = "idle"
    /\ b \in owned
    /\ owned' = owned \ {b}
    /\ FreeBlock(b[1], b[2])
    /\ UNCHANGED <<bootq, buddy, lru, nr_free, free_pages, blocktype, count, lost>>

(* __free_pages by the owner of a block. *)
FreePages(b) ==
    /\ op.pc = "idle"
    /\ b \in owned
    /\ owned' = owned \ {b}
    /\ count' = [count EXCEPT ![b[1]] = @ - 1]
    /\ FreeBlock(b[1], b[2])
    /\ UNCHANGED <<bootq, buddy, lru, nr_free, free_pages, blocktype, lost>>

(* free_pcppages_bulk for count = pcp->batch = 1: the lists are visited in the    *)
(* order 1, 2, 0 and a page of the first non-empty one goes to the zone of the    *)
(* page whose release started the drain.  FreePcpPagesKeepCount is its mutant     *)
(* without pcp->count -= pcp->batch.                                              *)
Turn(type) == (type + 2) % MIGRATE_PCPTYPES
FreePcpPagesKeepCount ==
    /\ op.pc = "drain"
    /\ \E e \in pcp.pages :
          /\ \A d \in pcp.pages : Turn(e.type) <= Turn(d.type)
          /\ pcp' = [pcp EXCEPT !.pages = @ \ {e}]
          /\ op' = [op EXCEPT !.pc = "merge", !.page = e.page, !.list = e.private]
    /\ UNCHANGED <<bootq, buddy, lru, nr_free, free_pages, blocktype, count, owned, lost>>
FreePcpPagesBulk ==
    /\ op.pc = "drain"
    /\ \E e \in pcp.pages :
          /\ \A d \in pcp.pages : Turn(e.type) <= Turn(d.type)
          /\ pcp' = [pcp EXCEPT !.count = @ - pcp.batch, !.pages = @ \ {e}]
          /\ op' = [op EXCEPT !.pc = "merge", !.page = e.page, !.list = e.private]
    /\ UNCHANGED <<bootq, buddy, lru, nr_free, free_pages, blocktype, count, owned, lost>>

(* One turn of the loop of __free_one_page. *)
Mergeable ==
    /\ op.cur < MAX_ORDER - 1
    /\ page_is_buddy(op.page, __find_buddy_index(op.page, op.cur), op.cur)
(* Mutant: the order goes up twice. *)
MergeBuddyTwice ==
    /\ op.pc = "merge"
    /\ Mergeable
    /\ LET b == __find_buddy_index(op.page, op.cur) IN
          /\ lru' = [lru EXCEPT ![b] = NoList]
          /\ buddy' = [buddy EXCEPT ![b] = -1]
          /\ nr_free' = [nr_free EXCEPT ![<<op.zone, op.cur>>] = @ - 1]
          /\ op' = [op EXCEPT !.page = IF b < @ THEN b ELSE @, !.cur = @ + 2]
    /\ UNCHANGED <<bootq, free_pages, blocktype, pcp, count, owned, lost>>

MergeBuddy ==
    /\ op.pc = "merge"
    /\ Mergeable
    /\ LET b == __find_buddy_index(op.page, op.cur) IN
          /\ lru' = [lru EXCEPT ![b] = NoList]
          /\ buddy' = [buddy EXCEPT ![b] = -1]
          /\ nr_free' = [nr_free EXCEPT ![<<op.zone, op.cur>>] = @ - 1]
          /\ op' = [op EXCEPT !.page = IF b < @ THEN b ELSE @, !.cur = @ + 1]
    /\ UNCHANGED <<bootq, free_pages, blocktype, pcp, count, owned, lost>>

(* Mutant: the block is filed under the order it was freed with. *)
InsertBlockUnmerged ==
    /\ op.pc = "merge"
    /\ ~Mergeable
    /\ buddy' = [buddy EXCEPT ![op.page] = op.order]
    /\ lru' = [lru EXCEPT ![op.page] = <<op.zone, op.order, op.list>>]
    /\ nr_free' = [nr_free EXCEPT ![<<op.zone, op.order>>] = @ + 1]
    /\ free_pages' = [free_pages EXCEPT ![op.zone] = @ + Size[op.order]]
    /\ op' = Idle
    /\ UNCHANGED <<bootq, blocktype, pcp, count, owned, lost>>

(* The end of __free_one_page and of its caller. *)
InsertBlock ==
    /\ op.pc = "merge"
    /\ ~Mergeable
    /\ buddy' = [buddy EXCEPT ![op.page] = op.cur]
    /\ lru' = [lru EXCEPT ![op.page] = <<op.zone, op.cur, op.list>>]
    /\ nr_free' = [nr_free EXCEPT ![<<op.zone, op.cur>>] = @ + 1]
    /\ free_pages' = [free_pages EXCEPT ![op.zone] = @ + Size[op.order]]
    /\ op' = Idle
    /\ UNCHANGED <<bootq, blocktype, pcp, count, owned, lost>>

-----------------------------------------------------------------------------
(* Allocating. *)

(* The zonelist visits the populated zones from the preferred one down. *)
ScanFrom(zs) ==
    IF zs = {} THEN Idle
    ELSE [op EXCEPT !.pc = "scan", !.zone = CHOOSE z \in zs : \A y \in zs : y <= z]

(* Mutant: the blocks of order 0 are not subtracted. *)
FreeBelowFromOne(z, o) ==
    LET sum[k \in 0 .. o] ==
            IF k <= 1 THEN 0 ELSE sum[k-1] + nr_free[<<z, k-1>>] * Size[k-1]
    IN  sum

(* __zone_watermark_ok.  lowmem_reserve is 0 and unsigned, so the first           *)
(* comparison is: a negative free_pages passes it.                                *)
FreeBelow(z, o) ==
    LET sum[k \in 0 .. o] ==
            IF k = 0 THEN 0 ELSE sum[k-1] + nr_free[<<z, k-1>>] * Size[k-1]
    IN  sum
__zone_watermark_ok(z, o) ==
    LET free == free_pages[z] - (Size[o] + 1) IN
        /\ free < 0 \/ free > Watermark[z]
        /\ \A k \in 1 .. o : free - FreeBelow(z, o)[k] > Watermark[z] \div Size[k]

(* Mutant: the zonelist is not cut at the zone the mask allows. *)
AllocPagesAnyZone(highzone, o, mt) ==
    /\ op.pc = "idle"
    /\ bootq = {}
    /\ op' = [ScanFrom(Zones) EXCEPT !.high = highzone, !.order = o, !.mt = mt]
    /\ UNCHANGED <<bootq, buddy, lru, nr_free, free_pages, blocktype, pcp, count, owned, lost>>

(* __alloc_pages_nodemask: the first zone of the zonelist at or below the one the *)
(* gfp mask allows.                                                               *)
AllocPages(highzone, o, mt) ==
    /\ op.pc = "idle"
    /\ bootq = {}
    /\ op' = [ScanFrom({z \in Zones : z <= highzone}) EXCEPT
                 !.high = highzone, !.order = o, !.mt = mt]
    /\ UNCHANGED <<bootq, buddy, lru, nr_free, free_pages, blocktype, pcp, count, owned, lost>>

(* Mutant: a zone below its watermark ends the scan. *)
TryZoneOnce ==
    /\ op.pc = "scan"
    /\ op' = IF __zone_watermark_ok(op.zone, op.order) THEN [op EXCEPT !.pc = "rmqueue"] ELSE Idle
    /\ UNCHANGED <<bootq, buddy, lru, nr_free, free_pages, blocktype, pcp, count, owned, lost>>

(* get_page_from_freelist looks at one zone of the zonelist. *)
TryZone ==
    /\ op.pc = "scan"
    /\ op' = IF __zone_watermark_ok(op.zone, op.order)
             THEN [op EXCEPT !.pc = "rmqueue"]
             ELSE ScanFrom({z \in Zones : z < op.zone})
    /\ UNCHANGED <<bootq, buddy, lru, nr_free, free_pages, blocktype, pcp, count, owned, lost>>

(* prep_new_page on a block that left the free lists: check_new_page refuses it   *)
(* when a page has a count or a mapcount (PageBuddy is a mapcount), and           *)
(* buffered_rmqueue then starts again without giving the block back.              *)
check_new_page(p) == count[p] # 0 \/ buddy[p] # -1
PrepNewPage(p, o) ==
    IF \E q \in Span(<<p, o>>) : check_new_page(q)
    THEN /\ lost' = lost \cup {<<p, o>>}
         /\ op' = [op EXCEPT !.pc = "rmqueue", !.page = NoPage, !.cur = 0]
         /\ UNCHANGED <<count, owned>>
    ELSE /\ count' = [count EXCEPT ![p] = 1]
         /\ owned' = owned \cup {<<p, o>>}
         /\ op' = Idle
         /\ UNCHANGED lost

(* buffered_rmqueue takes a single page from the per-cpu list if it has one. *)
PcpList(mt) == {e \in pcp.pages : e.type = mt}
RmqueuePcp ==
    /\ op.pc = "rmqueue"
    /\ op.order = 0
    /\ \E e \in PcpList(op.mt) :
          /\ pcp' = [pcp EXCEPT !.count = @ - 1, !.pages = @ \ {e}]
          /\ PrepNewPage(e.page, 0)
    /\ UNCHANGED <<bootq, buddy, lru, nr_free, free_pages, blocktype>>

(* The orders at which the zone has a free block large enough. *)
Fits(mt) == {k \in op.order .. MAX_ORDER - 1 : FreeList(op.zone, k, mt) # {}}
EnterRmqueue == op.pc = "rmqueue" /\ (op.order = 0 => PcpList(op.mt) = {})

(* __rmqueue_smallest: the smallest sufficient block of the wanted type.          *)
(* RmqueueSmallestNoDel is its mutant without list_del.                           *)
TakeBlock(p, k, mt) ==
    /\ buddy' = [buddy EXCEPT ![p] = -1]
    /\ nr_free' = [nr_free EXCEPT ![<<op.zone, k>>] = @ - 1]
    /\ op' = [op EXCEPT !.pc = "expand", !.page = p, !.cur = k, !.list = mt]
RmqueueSmallestNoDel(mt) ==
    \E k \in Fits(mt) :
        /\ \A j \in Fits(mt) : k <= j
        /\ \E p \in FreeList(op.zone, k, mt) : TakeBlock(p, k, mt)
        /\ UNCHANGED <<bootq, lru, free_pages, blocktype, pcp, count, owned, lost>>
RmqueueSmallest(mt) ==
    \E k \in Fits(mt) :
        /\ \A j \in Fits(mt) : k <= j
        /\ \E p \in FreeList(op.zone, k, mt) :
              /\ lru' = [lru EXCEPT ![p] = NoList]
              /\ TakeBlock(p, k, mt)
        /\ UNCHANGED <<bootq, free_pages, blocktype, pcp, count, owned, lost>>

(* Mutant: the movable lists are in no row. *)
fallbacks_short ==
    [mt \in PcpTypes |->
        IF mt = MIGRATE_UNMOVABLE THEN <<MIGRATE_RECLAIMABLE, MIGRATE_RESERVE, 0, 0, 0>>
        ELSE <<MIGRATE_UNMOVABLE, MIGRATE_RESERVE, 0, 0, 0>>]

(* The rows of fallbacks: the columns the initialiser leaves out are zero. *)
fallbacks ==
    [mt \in PcpTypes |->
        CASE mt = MIGRATE_UNMOVABLE   -> <<MIGRATE_RECLAIMABLE, MIGRATE_MOVABLE, MIGRATE_RESERVE, 0, 0>>
          [] mt = MIGRATE_RECLAIMABLE -> <<MIGRATE_UNMOVABLE, MIGRATE_MOVABLE, MIGRATE_RESERVE, 0, 0>>
          [] mt = MIGRATE_MOVABLE     -> <<MIGRATE_RECLAIMABLE, MIGRATE_UNMOVABLE, MIGRATE_RESERVE, 0, 0>>]

(* The places <<order, column>> at which __rmqueue_fallback finds a list that is  *)
(* not empty, and the one it finds first: the largest order, then the first type. *)
FallbackHits ==
    {h \in (op.order .. MAX_ORDER - 1) \X (1 .. 5) :
        /\ fallbacks[op.mt][h[2]] # MIGRATE_RESERVE
        /\ FreeList(op.zone, h[1], fallbacks[op.mt][h[2]]) # {}}
FirstHit(h) ==
    \A g \in FallbackHits : g[1] < h[1] \/ (g[1] = h[1] /\ h[2] <= g[2])

(* move_freepages_block: the free blocks of p's page block, none when the page    *)
(* block reaches past the zone.                                                   *)
MovedBlocks(p) ==
    LET start == p - (p % Size[pageblock_order])
        end == start + Size[pageblock_order] - 1
        from == IF start < ZoneStart[op.zone] THEN p ELSE start
    IN  IF end >= ZoneEnd[op.zone] THEN {} ELSE {q \in from .. end : buddy[q] # -1}
MovedPages(p) == Cardinality(UNION {Span(<<q, buddy[q]>>) : q \in MovedBlocks(p)})

(* set_pageblock_migratetype and change_pageblock_range on the page blocks taken  *)
(* over: p's own when half of it was moved, all those of a block that holds whole *)
(* page blocks.                                                                   *)
ClaimedPageBlocks(p, k, steal) ==
    (IF steal /\ MovedPages(p) >= Size[pageblock_order - 1] THEN {PageBlock(p)} ELSE {})
    \cup
    (IF k >= pageblock_order
     THEN {PageBlock(q) : q \in {r \in Span(<<p, k>>) : (r - p) % Size[pageblock_order] = 0}}
     ELSE {})

(* __rmqueue_fallback: a block of another type, with the rest of its page block   *)
(* when the block is large or the request reclaimable.                            *)
RmqueueFallback ==
    \E h \in FallbackHits :
        /\ FirstHit(h)
        /\ LET k == h[1]
               mt == fallbacks[op.mt][h[2]]
               steal == k >= pageblock_order \div 2 \/ op.mt = MIGRATE_RECLAIMABLE
           IN  \E p \in FreeList(op.zone, k, mt) :
                 /\ lru' = [q \in Pages |->
                       IF q = p THEN NoList
                       ELSE IF steal /\ q \in MovedBlocks(p) THEN <<op.zone, buddy[q], op.mt>>
                       ELSE lru[q]]
                 /\ blocktype' = [pb \in PageBlocks |->
                       IF pb \in ClaimedPageBlocks(p, k, steal) THEN op.mt ELSE blocktype[pb]]
                 /\ TakeBlock(p, k, IF steal THEN op.mt ELSE mt)
        /\ UNCHANGED <<bootq, free_pages, pcp, count, owned, lost>>

(* __rmqueue: the wanted type, then the fallbacks, then the reserve. *)
RmqueueType ==
    IF Fits(op.mt) = {} /\ FallbackHits = {} THEN MIGRATE_RESERVE ELSE op.mt
Rmqueue ==
    /\ EnterRmqueue
    /\ RmqueueSmallest(RmqueueType)
RmqueueSteal ==
    /\ EnterRmqueue
    /\ Fits(op.mt) = {}
    /\ RmqueueFallback
RmqueueFail ==
    /\ EnterRmqueue
    /\ Fits(op.mt) = {} /\ FallbackHits = {} /\ Fits(MIGRATE_RESERVE) = {}
    /\ op' = [op EXCEPT !.pc = "full"]
    /\ UNCHANGED <<bootq, buddy, lru, nr_free, free_pages, blocktype, pcp, count, owned, lost>>

(* Mutant: the scan does not move on. *)
ThisZoneFullAgain ==
    /\ op.pc = "full"
    /\ op' = [op EXCEPT !.pc = "scan"]
    /\ UNCHANGED <<bootq, buddy, lru, nr_free, free_pages, blocktype, pcp, count, owned, lost>>

(* this_zone_full: on to the next zone, NULL after the last. *)
ThisZoneFull ==
    /\ op.pc = "full"
    /\ op' = ScanFrom({z \in Zones : z < op.zone})
    /\ UNCHANGED <<bootq, buddy, lru, nr_free, free_pages, blocktype, pcp, count, owned, lost>>

(* Mutant: nr_free is not counted up. *)
ExpandUncounted ==
    /\ op.pc = "expand"
    /\ op.cur > op.order
    /\ LET half == op.cur - 1
           upper == op.page + Size[half]
       IN  /\ buddy' = [buddy EXCEPT ![upper] = half]
           /\ lru' = [lru EXCEPT ![upper] = <<op.zone, half, op.list>>]
           /\ op' = [op EXCEPT !.cur = half]
    /\ UNCHANGED <<bootq, nr_free, free_pages, blocktype, pcp, count, owned, lost>>

(* One turn of the loop of expand: the upper half goes back to the free lists. *)
Expand ==
    /\ op.pc = "expand"
    /\ op.cur > op.order
    /\ LET half == op.cur - 1
           upper == op.page + Size[half]
       IN  /\ buddy' = [buddy EXCEPT ![upper] = half]
           /\ lru' = [lru EXCEPT ![upper] = <<op.zone, half, op.list>>]
           /\ nr_free' = [nr_free EXCEPT ![<<op.zone, half>>] = @ + 1]
           /\ op' = [op EXCEPT !.cur = half]
    /\ UNCHANGED <<bootq, free_pages, blocktype, pcp, count, owned, lost>>

(* The end of rmqueue_bulk: a single page goes by way of the per-cpu list. *)
RmqueueBulk ==
    /\ op.pc = "expand"
    /\ op.cur = op.order /\ op.order = 0
    /\ free_pages' = [free_pages EXCEPT ![op.zone] = @ - 1]
    /\ pcp' = [pcp EXCEPT !.count = @ + 1,
                          !.pages = @ \cup {[page |-> op.page, private |-> op.mt, type |-> op.mt]}]
    /\ op' = [op EXCEPT !.pc = "rmqueue", !.page = NoPage]
    /\ UNCHANGED <<bootq, buddy, lru, nr_free, blocktype, count, owned, lost>>

(* The end of buffered_rmqueue for a larger block. *)
HandOut ==
    /\ op.pc = "expand"
    /\ op.cur = op.order /\ op.order > 0
    /\ free_pages' = [free_pages EXCEPT ![op.zone] = @ - Size[op.order]]
    /\ PrepNewPage(op.page, op.order)
    /\ UNCHANGED <<bootq, buddy, lru, nr_free, blocktype, pcp>>

-----------------------------------------------------------------------------
Request ==
    \/ \E z \in Zones, o \in Orders, mt \in PcpTypes : AllocPages(z, o, mt)
    \/ \E b \in owned : FreePages(b)

(* The steps of an operation that has begun; nothing can interrupt it. *)
Continue ==
    \/ FreePcpPagesBulk \/ MergeBuddy \/ InsertBlock
    \/ TryZone \/ ThisZoneFull
    \/ RmqueuePcp \/ Rmqueue \/ RmqueueSteal \/ RmqueueFail
    \/ Expand \/ RmqueueBulk \/ HandOut

Next == FreePagesBootmem \/ Request \/ Continue
Spec == Init /\ [][Next]_vars
FairSpec == Spec /\ WF_vars(FreePagesBootmem \/ Continue)

-----------------------------------------------------------------------------
(* Where memory is: every block with the kind of holder it has. *)
InFlight == IF op.page = NoPage THEN {} ELSE {<<"op", op.page, op.cur>>}
Placed ==
    {<<"boot", b[1], b[2]>> : b \in bootq}
    \cup {<<"free", p, buddy[p]>> : p \in {q \in Pages : buddy[q] # -1}}
    \cup {<<"pcp", e.page, 0>> : e \in pcp.pages}
    \cup {<<"owned", b[1], b[2]>> : b \in owned}
    \cup {<<"lost", b[1], b[2]>> : b \in lost}
    \cup InFlight

Entries == [page : Pages, private : MigrateTypes, type : PcpTypes]
Pagesets == [count : Int, high : Nat, batch : Nat, pages : SUBSET Entries]
Steps == {"idle", "drain", "merge", "scan", "rmqueue", "expand", "full"}
Operations ==
    [pc : Steps, high : Zones \cup {-1}, zone : Zones \cup {-1}, order : Orders,
     mt : PcpTypes, page : Pages \cup {NoPage}, cur : Orders, list : MigrateTypes]

(* The state has the shape of the structures of mmzone.h and mm_types.h. *)
TypeOK ==
    /\ bootq \subseteq Blocks
    /\ buddy \in [Pages -> Orders \cup {-1}]
    /\ lru \in [Pages -> FreeLists \cup {NoList}]
    /\ nr_free \in [Zones \X Orders -> Int]
    /\ free_pages \in [Zones -> Int]
    /\ blocktype \in [PageBlocks -> MigrateTypes]
    /\ pcp \in Pagesets
    /\ count \in [Pages -> Int]
    /\ owned \subseteq Blocks
    /\ lost \subseteq Blocks
    /\ op \in Operations

(* No page is in two blocks: through every interleaving of splits, merges, steals *)
(* and releases, blocks that are free, on the per-cpu list, handed out, dropped,  *)
(* in hand or not yet released by the boot allocator never overlap.               *)
NoOverlap ==
    \A x, y \in Placed :
        x # y => x[2] + Size[x[3]] <= y[2] \/ y[2] + Size[y[3]] <= x[2]

(* No page is forgotten: each page free_all_bootmem was to release is always in   *)
(* some block, whatever loop of the allocator is half way through.                *)
Conservation ==
    UNION {Span(b) : b \in BootBlocks} = UNION {Span(<<x[2], x[3]>>) : x \in Placed}

(* Between operations free memory is fully merged: __free_one_page leaves no two  *)
(* free buddies of one order side by side in a zone.                              *)
Coalesced ==
    op.pc = "idle" =>
        \A p \in Pages :
            buddy[p] \in 0 .. MAX_ORDER - 2 =>
                ~page_is_buddy(p, __find_buddy_index(p, buddy[p]), buddy[p])

(* A page is on a free list exactly when it is PageBuddy, and then on a list of   *)
(* its own zone and its own order; boot_pageset, which all zones share, never     *)
(* carries a page of one zone into the lists of another.                          *)
WellFiled ==
    \A p \in Pages :
        /\ lru[p] = NoList <=> buddy[p] = -1
        /\ lru[p] # NoList => lru[p][1] = page_zone(p) /\ lru[p][2] = buddy[p]

(* The counters agree with the lists: nr_free at every step, NR_FREE_PAGES, which *)
(* the watermark check reads, between operations.                                 *)
FreeOf(z) == {p \in Pages : buddy[p] # -1 /\ page_zone(p) = z}
FreeAccounting ==
    \A z \in Zones :
        /\ \A o \in Orders :
              nr_free[<<z, o>>] = Cardinality({p \in FreeOf(z) : buddy[p] = o})
        /\ op.pc = "idle" =>
              free_pages[z] = Cardinality(UNION {Span(<<p, buddy[p]>>) : p \in FreeOf(z)})

(* buffered_rmqueue gives up on a zone only when the zone has no block of the     *)
(* order asked for or a larger one: the fallback table reaches every list.        *)
FullMeansNone ==
    op.pc = "full" => \A p \in FreeOf(op.zone) : buddy[p] < op.order

(* What the watermark check promises for order > 0: a zone that passes it has a   *)
(* block large enough, so __rmqueue fails only after check_new_page dropped some. *)
WatermarkSound ==
    op.pc = "full" /\ op.order > 0 => lost # {}

(* A block handed out has the order asked for, is aligned to its size, lies in a  *)
(* zone the gfp mask allows, and its first page is the only one with a count.     *)
GrantMeetsRequest ==
    [][\A b \in owned' \ owned :
          /\ b[2] = op.order
          /\ b[1] % Size[b[2]] = 0
          /\ \A p \in Span(b) : page_zone(p) = page_zone(b[1]) /\ page_zone(p) <= op.high
          /\ \A p \in Span(b) : count'[p] = IF p = b[1] THEN 1 ELSE 0]_vars

(* A request for one page fails only when every zone it allows is down to the     *)
(* watermark: the zonelist scan leaves no allowed zone out.                       *)
FailureJustified ==
    [][op.pc \in {"scan", "full"} /\ op'.pc = "idle" /\ op.order = 0 =>
          \A z \in Zones : z <= op.high => free_pages[z] <= Watermark[z] + 2]_vars

(* Every call returns: the merge, split, zonelist and "goto again" loops end. *)
OperationEnds == op.pc # "idle" ~> op.pc = "idle"

(* check_new_page takes a page that still has a count for a bad page; a block the *)
(* allocator took from its own free lists is never bad.                           *)
NoBadPage == lost = {}

(* The allocator is a FrameAllocator: every block it hands out was free memory    *)
(* released at boot, and is nobody else's until __free_pages.                     *)
Frames == INSTANCE FrameAllocator WITH
    Cover <- [b \in Blocks |-> Span(b)], Boot <- BootBlocks,
    reserved <- bootq, held <- owned, dropped <- lost
AllocatesFrames == Frames!Spec

=============================================================================
