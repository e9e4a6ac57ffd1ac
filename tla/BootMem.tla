------------------------------ MODULE BootMem ------------------------------
(***************************************************************************)
(* The boot path of memory, from startup_32 (kernel/head_32.S) through     *)
(* start_kernel (kernel/init.c) to free_all_bootmem: the provisional page  *)
(* tables, the firmware map, the reservations, the direct mapping          *)
(* (mm/init_32.c), the node map and the zones (mm/page_alloc.c), and the   *)
(* pages that go to the page allocator.  One action per function that      *)
(* start_kernel calls, in its order.                                       *)
(*                                                                         *)
(* Addresses are bytes of physical memory.  The sizes are parameters, so   *)
(* that a machine of some tens of pages has every boundary of a real one.  *)
(***************************************************************************)
EXTENDS E820, NodeMap, ZoneInit, FiniteSets

CONSTANTS
    BiosMaps,            \* the firmware maps the loader may have stored
    TextStart, BssStop,  \* _text and __bss_stop, physical
    BrkBase, KernelEnd,  \* __brk_base and _end, physical
    MappingBeyondEnd,    \* MAPPING_BEYOND_END
    PTRS_PER_PTE,        \* entries of a page table
    PTRS_PER_PGD,        \* entries of the page directory
    KernelSlot,          \* page directory index of PAGE_OFFSET
    FixedEntries,        \* __end_of_fixed_addresses
    MAXMEM_PFN,          \* first page the direct mapping does not reach
    MAX_DMA_PFN,         \* first page above ZONE_DMA
    SizeofPage, SizeofRange, SizeofWaitQueue, SizeofLong,
    PAGES_PER_WAITQUEUE,
    NR_PAGEBLOCK_BITS,
    BITS_PER_LONG        \* pages __free_pages_memory releases at a time

VARIABLES
    pc,              \* the next function start_kernel calls
    bios,            \* boot_params.e820_map
    e820,            \* the kernel's copy
    memory, reserved, current_limit,           \* struct memblock
    max_pfn, max_low_pfn, max_pfn_mapped, brk_end,
    pgd,             \* swapper_pg_dir: pfn of the table in each slot, 0 for none
    pt,              \* the page tables: pfn of a table -> its entries
    pgt_buf,         \* pgt_buf_start, pgt_buf_end, pgt_buf_top
    early_node_map,
    mem_map,         \* address and first page of the struct page array
    zones,           \* node_zones, as far as they are initialised
    page_zone,       \* zone in the flags of each initialised struct page
    zonelist,        \* node_zonelists[0]
    early,           \* the areas in use so far: [kind, base, size]
    freed            \* the blocks released: <<first page, pages>>

blocks == <<memory, reserved, current_limit>>
limits == <<max_pfn, max_low_pfn, max_pfn_mapped, brk_end>>
tables == <<pgd, pt, pgt_buf>>
node   == <<early_node_map, mem_map, zones, page_zone, zonelist>>
vars   == <<pc, bios, e820, blocks, limits, tables, node, early, freed>>

Area(kind, base, size) == [kind |-> kind, base |-> base, size |-> size]
Bytes(a) == a.base .. a.base + a.size - 1
PteSize == PAGE_SIZE \div PTRS_PER_PTE
NoTable == 0

(* panic, and a fault before trap_init, stop the machine. *)
Halt == pc' = "halted"

Init ==
    /\ pc = "startup_32"
    /\ bios \in BiosMaps
    /\ e820 = <<>>
    /\ memory = NoRegions /\ reserved = NoRegions /\ current_limit = 0
    /\ max_pfn = 0 /\ max_low_pfn = 0 /\ max_pfn_mapped = 0 /\ brk_end = BrkBase
    /\ pgd = [i \in 0 .. PTRS_PER_PGD - 1 |-> NoTable]
    /\ pt = <<>>
    /\ pgt_buf = [start |-> 0, end |-> 0, top |-> 0]
    /\ early_node_map = <<>> /\ zones = <<>> /\ page_zone = <<>> /\ zonelist = <<>>
    /\ mem_map = [addr |-> 0, first |-> 0]
    /\ early = {} /\ freed = <<>>

(* The provisional page tables, one after the other from __brk_base: each  *)
(* goes into the slot of its addresses and into the kernel's slot, until   *)
(* the image and MAPPING_BEYOND_END more are mapped.                       *)
startup_32 ==
    LET reach == PTRS_PER_PTE * PAGE_SIZE
        n == MostOf(1, AlignUp(KernelEnd + MappingBeyondEnd, reach) \div reach)
        Table(i) == PFN_DOWN(BrkBase) + i
    IN /\ pc = "startup_32"
       /\ pgd' = [s \in DOMAIN pgd |->
                     IF s \in 0 .. n - 1 THEN Table(s)
                     ELSE IF s \in KernelSlot .. KernelSlot + n - 1 THEN Table(s - KernelSlot)
                     ELSE NoTable]
       /\ pt' = [t \in {Table(i) : i \in 0 .. n - 1} |->
                    [k \in 0 .. PTRS_PER_PTE - 1 |-> (t - Table(0)) * PTRS_PER_PTE + k]]
       /\ brk_end' = BrkBase + n * PAGE_SIZE
       /\ max_pfn_mapped' = n * PTRS_PER_PTE
       /\ early' = {Area("text", TextStart, BssStop - TextStart),
                    Area("brk", BrkBase, n * PAGE_SIZE)}
       /\ pc' = "memblock_init"
       /\ UNCHANGED <<bios, e820, blocks, max_pfn, max_low_pfn, pgt_buf, node, freed>>

(* memblock_init and the reservation of the kernel image. *)
memblock_init ==
    /\ pc = "memblock_init"
    /\ memory' = NoRegions
    /\ reserved' = memblock_x86_reserve_range(NoRegions, TextStart, BssStop)
    /\ current_limit' = MAX_ARCH_PFN * PAGE_SIZE
    /\ pc' = "setup_memory_map"
    /\ UNCHANGED <<bios, e820, limits, tables, node, early, freed>>

setup_memory_map ==
    /\ pc = "setup_memory_map"
    /\ e820' = sanitize_e820_map(bios)
    /\ pc' = "find_low_pfn_range"
    /\ UNCHANGED <<bios, blocks, limits, tables, node, early, freed>>

(* max_pfn and find_low_pfn_range (lowmem_pfn_init or highmem_pfn_init:    *)
(* what the direct mapping does not reach is given up), reserve_brk and    *)
(* the first current_limit.                                                *)
find_low_pfn_range ==
    LET end_pfn == LeastOf(e820_end_of_ram_pfn(e820), MAXMEM_PFN)
    IN /\ pc = "find_low_pfn_range"
       /\ max_pfn' = end_pfn
       /\ max_low_pfn' = end_pfn
       /\ reserved' = memblock_x86_reserve_range(reserved, BrkBase, brk_end)
       /\ current_limit' = max_pfn_mapped * PAGE_SIZE
       /\ pc' = "fill_memory"
       /\ UNCHANGED <<bios, e820, memory, max_pfn_mapped, brk_end, tables, node, early, freed>>

fill_memory ==
    LET filled == memblock_x86_fill(e820, memory)
    IN /\ pc = "fill_memory"
       /\ memory' = filled.regions
       /\ IF filled.ok THEN pc' = "find_early_table_space" ELSE Halt
       /\ UNCHANGED <<bios, e820, reserved, current_limit, limits, tables, node, early, freed>>

(* find_early_table_space asks for a page of upper tables, one page table  *)
(* for each run of PTRS_PER_PTE pages and the tables of the fixed          *)
(* mappings, all in memory that is mapped already.                         *)
TableSpace(end) ==
    LET Entries(shift) == AlignUp(end, shift) \div shift
        reach == PTRS_PER_PTE * PAGE_SIZE
    IN AlignUp(Entries(reach) * PteSize, PAGE_SIZE)
       + AlignUp(Entries(reach) * PteSize, PAGE_SIZE)
       + AlignUp(Entries(PAGE_SIZE) * PteSize, PAGE_SIZE)
       + AlignUp(FixedEntries * PteSize, PAGE_SIZE)

(* Mutant: the end of memory, mapped or not. *)
EndOfMemory == max_low_pfn * PAGE_SIZE

good_end == max_pfn_mapped * PAGE_SIZE

find_early_table_space ==
    LET size == TableSpace(max_low_pfn * PAGE_SIZE)
        base == memblock_find_in_range(memory, reserved, 0, good_end, size, PAGE_SIZE)
    IN /\ pc = "find_early_table_space"
       /\ IF base = MEMBLOCK_ERROR
          THEN Halt /\ UNCHANGED pgt_buf
          ELSE /\ pgt_buf' = [start |-> PFN_DOWN(base), end |-> PFN_DOWN(base),
                              top |-> PFN_DOWN(base) + PFN_DOWN(size)]
               /\ pc' = "init_memory_mapping"
       /\ UNCHANGED <<bios, e820, blocks, limits, pgd, pt, node, early, freed>>

(* The ranges init_memory_mapping collects in mr: to the end of the first  *)
(* page table, the part made of whole tables, and the rest.  Neighbours    *)
(* with one page size are merged, and every page is a small one.           *)
MapRanges(end_pfn) ==
    LET first  == LeastOf(PTRS_PER_PTE, end_pfn)
        second == AlignDown(end_pfn, PTRS_PER_PTE)
        saved  == SelectSeq(<<PfnRange(0, first),
                              PfnRange(AlignUp(first, PTRS_PER_PTE), second),
                              PfnRange(MostOf(first, second), end_pfn)>>,
                            LAMBDA r : r.start < r.end)
        Merge(s, r) == IF s # <<>> /\ Last(s).end = r.start
                       THEN [s EXCEPT ![Len(s)].end = r.end]
                       ELSE Append(s, r)
        merged[i \in 0 .. Len(saved)] == IF i = 0 THEN <<>> ELSE Merge(merged[i - 1], saved[i])
    IN merged[Len(saved)]

(* kernel_physical_mapping_init for one range.  A slot without a table     *)
(* gets the next page of the buffer (alloc_low_page), zeroed; the second   *)
(* pass only changes protections.  Between the two the lowest slot is      *)
(* cleared.  w holds the tables and the buffer.                            *)
kernel_physical_mapping_init(w, r) ==
    LET Slot(pfn) == KernelSlot + pfn \div PTRS_PER_PTE
        new == {s \in Slot(r.start) .. Slot(r.end - 1) : w.pgd[s] = NoTable}
        Page(s) == w.buf.end + Cardinality({t \in new : t < s})
        end == w.buf.end + Cardinality(new)
        pgd1 == [s \in DOMAIN w.pgd |-> IF s \in new THEN Page(s) ELSE w.pgd[s]]
        pt1 == [t \in DOMAIN w.pt \cup w.buf.end .. end - 1 |->
                   [k \in 0 .. PTRS_PER_PTE - 1 |->
                       LET here == {pfn \in r.start .. r.end - 1 :
                                       pgd1[Slot(pfn)] = t /\ pfn % PTRS_PER_PTE = k}
                       IN IF here # {} THEN Max(here)
                          ELSE IF t \in DOMAIN w.pt THEN w.pt[t][k] ELSE NoTable]]
    IN [pgd |-> [pgd1 EXCEPT ![0] = NoTable], pt |-> pt1,
        buf |-> [w.buf EXCEPT !.end = end], panic |-> w.panic \/ end > w.buf.top]

(* init_memory_mapping: afterwards all low memory is mapped and the tables *)
(* that were used are reserved.                                            *)
init_memory_mapping ==
    LET mr == MapRanges(max_low_pfn)
        mapped[i \in 0 .. Len(mr)] ==
            IF i = 0 THEN [pgd |-> pgd, pt |-> pt, buf |-> pgt_buf, panic |-> FALSE]
            ELSE kernel_physical_mapping_init(mapped[i - 1], mr[i])
        w == mapped[Len(mr)]
        used == Area("pgtable", w.buf.start * PAGE_SIZE, (w.buf.end - w.buf.start) * PAGE_SIZE)
    IN /\ pc = "init_memory_mapping"
       /\ IF w.panic
          THEN Halt /\ UNCHANGED <<blocks, limits, tables, early>>
          ELSE /\ pgd' = w.pgd /\ pt' = w.pt /\ pgt_buf' = w.buf
               /\ reserved' = memblock_x86_reserve_range(reserved, used.base,
                                                         used.base + used.size)
               /\ max_pfn_mapped' = max_low_pfn
               /\ current_limit' = max_low_pfn * PAGE_SIZE
               /\ early' = IF used.size = 0 THEN early ELSE early \cup {used}
               /\ pc' = "initmem_init"
               /\ UNCHANGED <<memory, max_pfn, max_low_pfn, brk_end>>
       /\ UNCHANGED <<bios, e820, node, freed>>

initmem_init ==
    /\ pc = "initmem_init"
    /\ early_node_map' =
           memblock_x86_register_active_regions(early_node_map, memory, max_low_pfn)
    /\ pc' = "free_area_init_nodes"
    /\ UNCHANGED <<bios, e820, blocks, limits, tables, mem_map, zones, page_zone, zonelist,
                   early, freed>>

(* alloc_bootmem_node_nopanic: the address, or MEMBLOCK_ERROR for NULL.    *)
(* When the search fails the code makes it once more, to the same end.     *)
alloc_bootmem_node_nopanic(res, size) ==
    find_memory_core_early(early_node_map, memory, res, size, SMP_CACHE_BYTES, 0, current_limit)

node_start == find_min_pfn_for_node(early_node_map)
node_end == NodeEnd(early_node_map)
arch == ArchZones(node_start, MAX_DMA_PFN, max_low_pfn)
Spanned(z) == zone_spanned_pages_in_node(arch, z, node_start, node_end)
Absent(z) == LET r == AbsentRange(arch, z, node_start, node_end)
             IN __absent_pages_in_range(early_node_map, r[1], r[2])

(* free_area_init_nodes sorts the map; the zone tables it fills in are     *)
(* arch, above.                                                            *)
free_area_init_nodes ==
    /\ pc = "free_area_init_nodes"
    /\ early_node_map' = sort(early_node_map)
    /\ pc' = "alloc_node_mem_map"
    /\ UNCHANGED <<bios, e820, blocks, limits, tables, mem_map, zones, page_zone, zonelist,
                   early, freed>>

(* alloc_node_mem_map: the struct page array, which covers whole blocks.   *)
(* Without room the array is at NULL, and the first write to it faults.    *)
alloc_node_mem_map ==
    LET spanned == Spanned(ZONE_DMA) + Spanned(ZONE_NORMAL) + Spanned(ZONE_MOVABLE)
        start == AlignDown(node_start, MAX_ORDER_NR_PAGES)
        end   == AlignUp(node_start + spanned, MAX_ORDER_NR_PAGES)
        size  == (end - start) * SizeofPage
        addr  == alloc_bootmem_node_nopanic(reserved, size)
    IN /\ pc = "alloc_node_mem_map"
       /\ IF addr = MEMBLOCK_ERROR
          THEN Halt /\ UNCHANGED <<reserved, mem_map, early>>
          ELSE /\ reserved' = memblock_x86_reserve_range(reserved, addr, addr + size)
               /\ mem_map' = [addr |-> addr, first |-> start]
               /\ early' = early \cup {Area("mem_map", addr, size)}
               /\ pc' = "free_area_init_core"
       /\ UNCHANGED <<bios, e820, memory, current_limit, limits, tables, early_node_map,
                      zones, page_zone, zonelist, freed>>

(* usemap_size: NR_PAGEBLOCK_BITS for each block, in whole longs. *)
usemap_size(zonesize) ==
    AlignUp((AlignUp(zonesize, MAX_ORDER_NR_PAGES) \div MAX_ORDER_NR_PAGES) * NR_PAGEBLOCK_BITS,
            8 * SizeofLong) \div 8

(* wait_table_hash_nr_entries: the power of two that reaches the number of *)
(* groups of pages, at least 4 (and at most 4096).                         *)
wait_table_hash_nr_entries(pages) ==
    MostOf(4, Min({4096} \cup {n \in {2 ^ k : k \in 0 .. 12} : n >= pages \div PAGES_PER_WAITQUEUE}))

(* One turn of free_area_init_core, for zone j: its sizes, its page block  *)
(* bitmap (setup_usemap), its wait table (init_currently_empty_zone, whose *)
(* error is not looked at and leaves zone_start_pfn unset) and its struct  *)
(* pages (memmap_init_zone), with every block in the zone made movable.  A *)
(* write to a bitmap at NULL faults.                                       *)
free_area_init_core ==
    LET j     == Len(zones)
        size  == Spanned(j)
        real  == size - Absent(j)
        memmap_pages == PFN_UP(size * SizeofPage)
        place == ZoneStartPfn(arch, j, node_start, node_end)
        bitmap  == usemap_size(size)
        usemap  == alloc_bootmem_node_nopanic(reserved, bitmap)
        res1    == IF usemap = MEMBLOCK_ERROR THEN reserved
                   ELSE memblock_x86_reserve_range(reserved, usemap, usemap + bitmap)
        waiters == wait_table_hash_nr_entries(size) * SizeofWaitQueue
        wait    == alloc_bootmem_node_nopanic(res1, waiters)
        res2    == IF wait = MEMBLOCK_ERROR THEN res1
                   ELSE memblock_x86_reserve_range(res1, wait, wait + waiters)
        start   == IF wait = MEMBLOCK_ERROR THEN 0 ELSE place
        marked  == {p \in place .. place + size - 1 :
                       start <= p /\ p < start + size /\ p % MAX_ORDER_NR_PAGES = 0}
        zone == [start |-> start, spanned |-> size, bitmap |-> bitmap, wait_table |-> wait,
                 present |-> IF real >= memmap_pages THEN real - memmap_pages ELSE real,
                 movable |-> {(p - start) \div MAX_ORDER_NR_PAGES : p \in marked}]
        empty == [zone EXCEPT !.start = 0, !.bitmap = 0, !.wait_table = 0, !.movable = {}]
    IN /\ pc = "free_area_init_core"
       /\ \/ /\ size = 0
             /\ zones' = Append(zones, empty)
             /\ UNCHANGED <<reserved, page_zone, early>>
             /\ pc' = IF j = ZONE_MOVABLE THEN "build_all_zonelists" ELSE pc
          \/ /\ size # 0
             /\ usemap = MEMBLOCK_ERROR /\ marked # {}
             /\ Halt
             /\ UNCHANGED <<zones, reserved, page_zone, early>>
          \/ /\ size # 0
             /\ usemap # MEMBLOCK_ERROR \/ marked = {}
             /\ zones' = Append(zones, zone)
             /\ reserved' = res2
             /\ page_zone' = [p \in DOMAIN page_zone \cup place .. place + size - 1 |->
                                 IF p \in place .. place + size - 1 THEN j ELSE page_zone[p]]
             /\ early' = early \cup {a \in {Area("usemap", usemap, bitmap),
                                            Area("wait_table", wait, waiters)} :
                                        a.base # MEMBLOCK_ERROR}
             /\ pc' = IF j = ZONE_MOVABLE THEN "build_all_zonelists" ELSE pc
       /\ UNCHANGED <<bios, e820, memory, current_limit, limits, tables, early_node_map,
                      mem_map, zonelist, freed>>

(* Zone j of node_zones is zones[j + 1]. *)
build_all_zonelists ==
    /\ pc = "build_all_zonelists"
    /\ zonelist' = SelectSeq(<<ZONE_MOVABLE, ZONE_NORMAL, ZONE_DMA>>,
                             LAMBDA z : zones[z + 1].present # 0)
    /\ pc' = "free_all_bootmem"
    /\ UNCHANGED <<bios, e820, blocks, limits, tables, early_node_map, mem_map, zones,
                   page_zone, early, freed>>

(* The blocks __free_pages_memory releases for a range: single pages up to *)
(* a multiple of BITS_PER_LONG, then so many at a time, then single pages. *)
FreeBlocks(r) ==
    LET start_aligned == AlignUp(r.start, BITS_PER_LONG)
        end_aligned   == AlignDown(r.end, BITS_PER_LONG)
        Singles(a, b) == [i \in 1 .. b - a |-> <<a + i - 1, 1>>]
        Chunks(a, b)  == [i \in 1 .. (b - a) \div BITS_PER_LONG |->
                             <<a + (i - 1) * BITS_PER_LONG, BITS_PER_LONG>>]
    IN IF end_aligned <= start_aligned THEN Singles(r.start, r.end)
       ELSE Singles(r.start, start_aligned) \o Chunks(start_aligned, end_aligned)
            \o Singles(end_aligned, r.end)

(* free_all_bootmem.  The range array is in memory nothing else uses but   *)
(* is not reserved (find_range_array): its pages are released too.         *)
free_all_bootmem ==
    LET size == FreeRangeSlots(early_node_map, reserved) * SizeofRange
        addr == memblock_find_in_range(memory, reserved, 0, current_limit, size, SizeofRange)
        ranges == __get_free_all_memory_range(early_node_map, reserved, max_low_pfn, MAX_ARCH_PFN)
    IN /\ pc = "free_all_bootmem"
       /\ IF addr = MEMBLOCK_ERROR
          THEN Halt /\ UNCHANGED <<early, freed>>
          ELSE /\ early' = early \cup {Area("range", addr, size)}
               /\ freed' = FlattenSeq([i \in DOMAIN ranges |-> FreeBlocks(ranges[i])])
               /\ pc' = "done"
       /\ UNCHANGED <<bios, e820, blocks, limits, tables, node>>

Next ==
    \/ startup_32
    \/ memblock_init
    \/ setup_memory_map
    \/ find_low_pfn_range
    \/ fill_memory
    \/ find_early_table_space
    \/ init_memory_mapping
    \/ initmem_init
    \/ free_area_init_nodes
    \/ alloc_node_mem_map
    \/ free_area_init_core
    \/ build_all_zonelists
    \/ free_all_bootmem

Spec == Init /\ [][Next]_vars

-----------------------------------------------------------------------------
(* Properties. *)

Boundaries == UNION {{bios[i].addr, LastAddr(bios[i])} : i \in DOMAIN bios}

(* All bytes of lo .. hi - 1 are usable memory in the given map. *)
AllRam(map, lo, hi) ==
    \A x \in {lo} \cup {b \in Boundaries : lo < b /\ b < hi} : TypeAt(map, x) = E820_RAM

WholeRamPage(map, p) == AllRam(map, p * PAGE_SIZE, (p + 1) * PAGE_SIZE)

Touches(a, p) == a.base < (p + 1) * PAGE_SIZE /\ p * PAGE_SIZE < a.base + a.size

(* The boot data that stays in use.  The range array is read for the last  *)
(* time while the pages are released, its own among them.                  *)
LiveAreas == {a \in early : a.kind # "range"}

(* The sanitized map says of every address what the firmware's entries     *)
(* say, the largest type where they overlap, with sorted entries that do   *)
(* not overlap or repeat a type.  A map that ran out of room says so only  *)
(* up to its last entry (sanitize_e820_map).                               *)
SanitizeRight ==
    e820 # <<>> /\ Len(bios) > 1 =>
        LET points == {0} \cup Boundaries
            known  == IF Len(e820) < E820MAX THEN points
                      ELSE {x \in points : x < LastAddr(Last(e820))}
        IN /\ \A x \in known : TypeAt(e820, x) = TypeAt(bios, x)
           /\ \A i \in 1 .. Len(e820) - 1 :
                 \/ LastAddr(e820[i]) < e820[i + 1].addr
                 \/ LastAddr(e820[i]) = e820[i + 1].addr /\ e820[i].type # e820[i + 1].type

(* What boot code has put in memory never overlaps: the image, the         *)
(* provisional and the final page tables, mem_map, the zones' bitmaps and  *)
(* wait tables, the range array.  All of it is usable memory that the      *)
(* kernel has mapped when it writes there.                                 *)
EarlyDisjoint ==
    \A a \in early :
        /\ AllRam(bios, a.base, a.base + a.size)
        /\ a.base + a.size <= max_pfn_mapped * PAGE_SIZE
        /\ \A b \in early \ {a} : Bytes(a) \cap Bytes(b) = {}

Maps(p) ==
    LET t == pgd[KernelSlot + p \div PTRS_PER_PTE]
    IN t # NoTable /\ pt[t][p % PTRS_PER_PTE] = p

Mapped == {"initmem_init", "free_area_init_nodes", "alloc_node_mem_map",
           "free_area_init_core", "build_all_zonelists", "free_all_bootmem", "done"}

(* The provisional tables map the buffer the final ones are built in.  The *)
(* final ones map every page of low memory at its place, from tables in    *)
(* pages of their own that are reserved, and nothing at address 0          *)
(* (kernel_physical_mapping_init).                                         *)
DirectMapRight ==
    /\ pc = "init_memory_mapping" => \A p \in pgt_buf.start .. pgt_buf.top - 1 : Maps(p)
    /\ pc \in Mapped =>
          LET used == {s \in KernelSlot .. PTRS_PER_PGD - 1 : pgd[s] # NoTable}
          IN /\ \A p \in 0 .. max_low_pfn - 1 : Maps(p)
             /\ \A s, t \in used : s # t => pgd[s] # pgd[t]
             /\ \A s \in used : \E r \in ToSet(reserved) :
                    /\ r.base <= pgd[s] * PAGE_SIZE
                    /\ (pgd[s] + 1) * PAGE_SIZE <= EndOf(r)
             /\ pgd[0] = NoTable

ZonesDone == {"build_all_zonelists", "free_all_bootmem", "done"}

(* The zones cover the node; each struct page is inside mem_map and names  *)
(* the zone its page is in; a zone counts the usable pages it has, less    *)
(* its share of mem_map; the bits of its blocks are inside its bitmap; a   *)
(* zone with pages left over is on the zonelist (free_area_init_core).     *)
ZonesRight ==
    pc \in ZonesDone =>
        /\ ZonesTile(arch, node_start, node_end)
        /\ DOMAIN page_zone = node_start .. node_end - 1
        /\ \E a \in early : /\ a.kind = "mem_map" /\ a.base = mem_map.addr
                            /\ mem_map.first <= node_start
                            /\ (node_end - mem_map.first) * SizeofPage <= a.size
        /\ \A z \in ZoneIds :
              LET zone == zones[z + 1]
                  pages == {p \in DOMAIN page_zone : page_zone[p] = z}
                  usable == Cardinality({p \in pages : WholeRamPage(e820, p)})
                  memmap == PFN_UP(zone.spanned * SizeofPage)
              IN /\ zone.spanned = Cardinality(pages)
                 /\ zone.present = IF usable >= memmap THEN usable - memmap ELSE usable
                 /\ \A k \in zone.movable : (k + 1) * NR_PAGEBLOCK_BITS <= 8 * zone.bitmap
                 /\ zone.wait_table # MEMBLOCK_ERROR => zone.start = Min(pages)
                 /\ usable > memmap /\ pc # "build_all_zonelists" => z \in ToSet(zonelist)

FreedPages(b) == b[1] .. b[1] + b[2] - 1

(* No page goes to the page allocator twice, or while it holds anything    *)
(* but usable memory, or while boot data that stays in use is in it, which *)
(* the range array does not; each block released is aligned and lies in    *)
(* one zone, and that zone has its free lists, which                       *)
(* init_currently_empty_zone skips when there is no memory for the wait    *)
(* table (free_all_memory_core_early).                                     *)
FreedSafe ==
    \A i \in DOMAIN freed :
        /\ freed[i][1] % freed[i][2] = 0
        /\ \E z \in ZoneIds : /\ zones[z + 1].wait_table # MEMBLOCK_ERROR
                              /\ \A p \in FreedPages(freed[i]) : page_zone[p] = z
        /\ \A p \in FreedPages(freed[i]) :
              /\ WholeRamPage(bios, p)
              /\ \A a \in LiveAreas : ~Touches(a, p)
        /\ \A k \in DOMAIN freed \ {i} : FreedPages(freed[i]) \cap FreedPages(freed[k]) = {}

(* No page is lost: every whole page of low memory with no boot data that  *)
(* stays in use has been released when start_kernel goes on                *)
(* (get_free_all_memory_range, clean_sort_range).                          *)
FreedAll ==
    pc = "done" =>
        \A p \in 0 .. max_low_pfn - 1 :
            WholeRamPage(e820, p) /\ (\A a \in LiveAreas : ~Touches(a, p))
            => \E i \in DOMAIN freed : p \in FreedPages(freed[i])
=============================================================================
