------------------------------ MODULE SlubBoot ------------------------------
(***************************************************************************)
(* How the slab allocator of mm/slub.c comes up: kmem_cache_init makes the *)
(* cache of caches and the cache of node structures from a temporary page, *)
(* moves them into objects of their own and creates the kmalloc caches;    *)
(* early_irq_init is the first caller.                                     *)
(*                                                                         *)
(* A place is where a struct kmem_cache is: in the temporary page, or an   *)
(* object <<slab, number>>.  The cpu structure of a cache is in the tail   *)
(* of a place.  Slabs are numbered as they are allocated.                  *)
(***************************************************************************)
EXTENDS SlubSizes, SequencesExt

CONSTANTS
    NrIrqs,       \* descriptors early_irq_init allocates for
    Sizes,        \* sizes asked of kmalloc
    ObjSizes,     \* object sizes of other caches
    Null

VARIABLES
    pc,
    ram_zero,     \* whether free memory happens to be zero
    temp,         \* whether the temporary page is allocated
    slab_state,
    kmem_cache, kmem_cache_node,   \* places
    cache,        \* place -> struct kmem_cache: sizes, node, cpu_slab
    cpu,          \* place -> the struct kmem_cache_cpu in its tail
    node,         \* object -> the struct kmem_cache_node in it: its partial list
    slab,         \* slab -> the cache page->slab names, and its free objects
    kmalloc_caches,
    kstat,        \* the objects early_irq_init has got
    early_boot_irqs_disabled, irqs_on,
    answer        \* what the last caller was given

boot == <<ram_zero, temp, slab_state>>
heads == <<kmem_cache, kmem_cache_node, kmalloc_caches>>
heap == <<cache, cpu, node, slab>>
irqs == <<kstat, early_boot_irqs_disabled, irqs_on>>
vars == <<pc, boot, heads, heap, irqs, answer>>

(* The two places of the temporary page. *)
TempCache == <<0, 1>>
TempNode == <<0, 2>>

SizeofCache == 76         \* kmem_size
SizeofCpu == 16
SizeofNode == 28
CpuOffset == AlignUp(SizeofCache, 2 * SizeofPointer)
kmalloc_size == AlignUp(CpuOffset + nr_cpu_ids * SizeofCpu, CacheLine)

CacheSizes == calculate_sizes(kmalloc_size, 0, TRUE, FALSE)
NodeSizes == calculate_sizes(SizeofNode, 0, TRUE, FALSE)

Init ==
    /\ pc = "kmem_cache_init"
    /\ ram_zero \in BOOLEAN
    /\ temp = FALSE
    /\ slab_state = "DOWN"
    /\ kmem_cache = Null /\ kmem_cache_node = Null
    /\ kmalloc_caches = [i \in 0 .. SLUB_PAGE_SHIFT - 1 |-> Null]
    /\ cache = <<>> /\ cpu = <<>> /\ node = <<>> /\ slab = <<>>
    /\ kstat = <<>> /\ early_boot_irqs_disabled = TRUE /\ irqs_on = FALSE
    /\ answer = Null

(* A page fault, a panic, or a list that starts at whatever was in memory. *)
Dies == pc' = "dead" /\ UNCHANGED <<boot, heads, heap, irqs, answer>>

-----------------------------------------------------------------------------
(* The masks of include/Xc/gfp.h, as sets of the bits that matter.         *)
(* kmem_cache_init allocates with GFP_NOWAIT, which has none of them; the  *)
(* node structures are allocated with GFP_KERNEL, but all from the slab    *)
(* early_kmem_cache_node_alloc made, so that no window opens for them.     *)

GFP_KERNEL == {"__GFP_WAIT", "__GFP_IO", "__GFP_FS"}
__GFP_BITS_MASK == {"__GFP_DMA", "__GFP_WAIT", "__GFP_HIGH", "__GFP_IO", "__GFP_FS"}

(* The || between the flags makes them the number 1, which is __GFP_DMA. *)
GFP_BOOT_MASK == __GFP_BITS_MASK \ {"__GFP_DMA"}

gfp_allowed_mask == IF early_boot_irqs_disabled THEN GFP_BOOT_MASK ELSE __GFP_BITS_MASK

-----------------------------------------------------------------------------
(* One allocation, as slab_alloc makes it while nothing else runs.  h is a *)
(* record of the heap: cache, cpu, node, slab.                             *)

Heap == [cache |-> cache, cpu |-> cpu, node |-> node, slab |-> slab]

NewSlab(h, s) ==
    LET n == Len(h.slab) + 1
    IN [owner |-> s, sizes |-> h.cache[s].sizes,
        free |-> [i \in 1 .. h.cache[s].sizes.objects |-> <<n, i>>]]

FirstPartial(h, s) ==
    LET n == h.cache[s].node IN IF n = Null THEN <<>> ELSE h.node[n]

NeedsSlab(h, s) == h.cpu[h.cache[s].cpu_slab] = <<>> /\ FirstPartial(h, s) = <<>>

(* The heap after the first object of s is taken: from the cpu's list,     *)
(* else from the first partial slab, else from a new one.  The object is   *)
(* the head of what Available lists.                                       *)
Available(h, s) ==
    LET mine == h.cpu[h.cache[s].cpu_slab]
        part == FirstPartial(h, s)
    IN IF mine # <<>> THEN mine
       ELSE IF part # <<>> THEN h.slab[Head(part)].free
       ELSE NewSlab(h, s).free

Take(h, s) ==
    LET mine == h.cpu[h.cache[s].cpu_slab]
        part == FirstPartial(h, s)
        left == [h EXCEPT !.cpu[h.cache[s].cpu_slab] = Tail(Available(h, s))]
    IN IF mine # <<>> THEN left
       ELSE IF part # <<>>
       THEN [left EXCEPT !.node[h.cache[s].node] = Tail(part), !.slab[Head(part)].free = <<>>]
       ELSE [left EXCEPT !.slab = Append(@, [NewSlab(h, s) EXCEPT !.free = <<>>])]

SetHeap(h) == cache' = h.cache /\ cpu' = h.cpu /\ node' = h.node /\ slab' = h.slab

(* allocate_slab has interrupts on while the page allocator works for a    *)
(* caller that may wait.                                                   *)
OpensWindow(s, gfp) ==
    NeedsSlab(Heap, s) /\ "__GFP_WAIT" \in gfp \cap gfp_allowed_mask /\ ~irqs_on

(* Mutant: the cpu structure stays in the temporary page. *)
CpuSlabStays(place, old) == old

(* Where cpu_slab points after a cache has been copied to place. *)
CpuSlab(place, old) == place

Put(f, k, v) == [x \in DOMAIN f \cup {k} |-> IF x = k THEN v ELSE f[x]]

(* kmem_cache_open at a place once there is a node structure n for it.     *)
(* alloc_kmem_cache_cpus sets one tid, of kmem_cache_node at that; the     *)
(* list is empty only if memory is zero.                                   *)
Opened(h, place, sizes, n) ==
    [h EXCEPT !.cache = Put(h.cache, place, [sizes |-> sizes, node |-> n, cpu_slab |-> place]),
              !.cpu = Put(h.cpu, place, <<>>),
              !.node = Put(h.node, n, <<>>)]

-----------------------------------------------------------------------------
(* kmem_cache_init.  A page the allocator does not have is an address that *)
(* nothing is mapped at.                                                   *)

temp_page ==
    /\ pc = "kmem_cache_init"
    /\ \/ Dies
       \/ /\ temp' = TRUE
          /\ kmem_cache' = TempCache /\ kmem_cache_node' = TempNode
          /\ pc' = "open_node"
          /\ UNCHANGED <<ram_zero, slab_state, kmalloc_caches, heap, irqs, answer>>

(* The first object of the first slab is the node structure of its own     *)
(* cache, and the slab is on its partial list.                             *)
early_kmem_cache_node_alloc(h, s, first) ==
    [h EXCEPT !.slab = Append(@, [NewSlab(h, s) EXCEPT !.free = Tail(@)]),
              !.node[first] = <<first[1]>>]

open_node ==
    LET first == <<1, 1>>
        h == Opened(Heap, TempNode, NodeSizes, first)
    IN /\ pc = "open_node"
       /\ \/ Dies
          \/ /\ SetHeap(early_kmem_cache_node_alloc(h, TempNode, first))
             /\ slab_state' = "PARTIAL"
             /\ pc' = "open_cache"
             /\ UNCHANGED <<ram_zero, temp, heads, irqs, answer>>

(* The node structure comes from kmem_cache_node, whose cpu structure is   *)
(* read for the first time here.                                           *)
open_cache ==
    LET n == Head(Available(Heap, TempNode))
    IN /\ pc = "open_cache"
       /\ \/ ~ram_zero /\ Dies
          \/ /\ SetHeap(Opened(Take(Heap, TempNode), TempCache, CacheSizes, n))
             /\ pc' = "move_cache"
             /\ UNCHANGED <<boot, heads, irqs, answer>>

(* A cache moves into an object of kmem_cache: everything in the old place *)
(* is copied, the cpu structure too, and cpu_slab is set anew.             *)
Moved(h, old, new) ==
    [h EXCEPT !.cache = Put(h.cache, new,
                            [h.cache[old] EXCEPT !.cpu_slab = CpuSlab(new, @)]),
              !.cpu = Put(h.cpu, new, h.cpu[old])]

move_cache ==
    LET new == Head(Available(Heap, TempCache))
    IN /\ pc = "move_cache"
       /\ \/ Dies
          \/ /\ kmem_cache' = new
             /\ SetHeap(Moved(Take(Heap, TempCache), TempCache, new))
             /\ pc' = "move_node"
             /\ UNCHANGED <<boot, kmem_cache_node, kmalloc_caches, irqs, answer>>

(* Mutant: corrects every slab. *)
kmem_cache_bootstrap_fixup_all(h, place) ==
    [h EXCEPT !.slab = [k \in DOMAIN h.slab |-> [h.slab[k] EXCEPT !.owner = place]]]

(* Corrects the slabs on the partial list of the cache at place. *)
kmem_cache_bootstrap_fixup(h, place) ==
    LET Owner(k) == IF k \in ToSet(h.node[h.cache[place].node]) THEN place ELSE h.slab[k].owner
    IN [h EXCEPT !.slab = [k \in DOMAIN h.slab |-> [h.slab[k] EXCEPT !.owner = Owner(k)]]]

(* kmem_cache_node moves as well, and the temporary page is released. *)
move_node ==
    LET new == Head(Available(Heap, kmem_cache))
        h   == Moved(Take(Heap, kmem_cache), TempNode, new)
    IN /\ pc = "move_node"
       /\ kmem_cache_node' = new
       /\ SetHeap(kmem_cache_bootstrap_fixup(kmem_cache_bootstrap_fixup(h, new), kmem_cache))
       /\ temp' = FALSE
       /\ pc' = "create_kmalloc_caches"
       /\ UNCHANGED <<ram_zero, slab_state, kmem_cache, kmalloc_caches, irqs, answer>>

(* create_kmalloc_cache, for the first index there is no cache for. *)
create_kmalloc_cache ==
    LET i     == Min({k \in 1 .. SLUB_PAGE_SHIFT - 1 : kmalloc_caches[k] = Null})
        sizes == calculate_sizes(KmallocSize(i), ARCH_MINALIGN, FALSE, FALSE)
        place == Head(Available(Heap, kmem_cache))
        h     == Take(Heap, kmem_cache)
        n     == Head(Available(h, kmem_cache_node))
    IN /\ pc = "create_kmalloc_caches"
       /\ SetHeap(Opened(Take(h, kmem_cache_node), place, sizes, n))
       /\ kmalloc_caches' = [kmalloc_caches EXCEPT ![i] = place]
       /\ slab_state' = IF i = SLUB_PAGE_SHIFT - 1 THEN "UP" ELSE slab_state
       /\ pc' = IF i = SLUB_PAGE_SHIFT - 1 THEN "early_irq_init" ELSE pc
       /\ UNCHANGED <<ram_zero, temp, kmem_cache, kmem_cache_node, irqs, answer>>

-----------------------------------------------------------------------------
(* early_irq_init asks for a word for each descriptor.  What it is given   *)
(* when there is no page, NULL, is written to at once.                     *)
early_irq_init ==
    LET s == kmalloc_caches[kmalloc_index(4)]
    IN /\ pc = "early_irq_init"
       /\ \/ /\ OpensWindow(s, GFP_KERNEL)
             /\ irqs_on' = TRUE
             /\ UNCHANGED <<pc, boot, heads, heap, kstat, early_boot_irqs_disabled, answer>>
          \/ /\ NeedsSlab(Heap, s) /\ ~OpensWindow(s, GFP_KERNEL)
             /\ Dies
          \/ /\ ~OpensWindow(s, GFP_KERNEL)
             /\ SetHeap(Take(Heap, s))
             /\ kstat' = Append(kstat, Head(Available(Heap, s)))
             /\ irqs_on' = FALSE
             /\ pc' = IF Len(kstat') = NrIrqs THEN "start_kernel" ELSE pc
             /\ UNCHANGED <<boot, heads, early_boot_irqs_disabled, answer>>

(* start_kernel turns interrupts on, and allows every flag. *)
start_kernel ==
    /\ pc = "start_kernel"
    /\ early_boot_irqs_disabled' = FALSE
    /\ irqs_on' = TRUE
    /\ pc' = "running"
    /\ UNCHANGED <<boot, heads, heap, kstat, answer>>

(* Once the kernel runs the model follows one call.                        *)

(* No places: what kmalloc returns for size 0, and what is in memory       *)
(* before kmalloc_caches.                                                  *)
ZERO_SIZE_PTR == <<-1, 16>>
Stray == <<-1, 0>>

(* The code that fills it is commented out. *)
kmalloc_dma_caches == [i \in 0 .. SLUB_PAGE_SHIFT - 1 |-> Null]

get_slab(size, dma) ==
    IF size = 0 THEN ZERO_SIZE_PTR
    ELSE IF dma THEN kmalloc_dma_caches[slab_index(size)]
    ELSE kmalloc_caches[slab_index(size)]

(* kmalloc_slab, and what kmalloc makes of its NULL for size 0.  Index -1  *)
(* is before the array.                                                    *)
kmalloc_slab(size) ==
    CASE kmalloc_index(size) = 0 -> ZERO_SIZE_PTR
      [] kmalloc_index(size) = -1 -> Stray
      [] OTHER -> kmalloc_caches[kmalloc_index(size)]

(* A kmalloc by any caller, of a size the compiler knows or does not, with *)
(* SLUB_DMA or without, and what it gets: a block of pages, an object of a *)
(* cache, the pointer for size 0, or NULL.                                 *)
kmalloc(size, constant, dma) ==
    LET s == IF constant /\ ~dma THEN kmalloc_slab(size) ELSE get_slab(size, dma)
        Answer(o) == [size |-> size, dma |-> dma, cache |-> s, object |-> o]
    IN /\ pc = "running" /\ answer = Null
       /\ \/ /\ size > SLUB_MAX_SIZE
             /\ answer' = [size |-> size, pages |-> 2 ^ get_order(size), object |-> Null]
             /\ UNCHANGED <<pc, heap>>
          \/ /\ size <= SLUB_MAX_SIZE /\ s = Stray
             /\ pc' = "dead"
             /\ UNCHANGED <<heap, answer>>
          \/ /\ size <= SLUB_MAX_SIZE /\ s \in {Null, ZERO_SIZE_PTR}
             /\ answer' = Answer(s)
             /\ UNCHANGED <<pc, heap>>
          \/ /\ size <= SLUB_MAX_SIZE /\ s \in DOMAIN cache
             /\ \/ /\ NeedsSlab(Heap, s)
                   /\ answer' = Answer(Null)
                   /\ UNCHANGED heap
                \/ /\ answer' = Answer(Head(Available(Heap, s)))
                   /\ SetHeap(Take(Heap, s))
             /\ UNCHANGED pc
       /\ UNCHANGED <<boot, heads, irqs>>

(* kmem_cache_open, in an object its caller took from kmem_cache, for a    *)
(* cache of any object size.  It fails when calculate_sizes does, with a   *)
(* panic for SLAB_PANIC, and leaves the object to its caller; the slab of  *)
(* the node structures has objects left.                                   *)
kmem_cache_open(objsize, hwcache, ctor) ==
    LET place == Head(Available(Heap, kmem_cache))
        h     == Take(Heap, kmem_cache)
        sizes == calculate_sizes(objsize, 0, hwcache, ctor)
        n     == Head(Available(h, kmem_cache_node))
    IN /\ pc = "running" /\ answer = Null
       /\ \/ /\ sizes.order < 0
             /\ pc' = "dead"
             /\ UNCHANGED <<heap, answer>>
          \/ /\ answer' = [hwcache |-> hwcache, ctor |-> ctor, sizes |-> sizes, object |-> place]
             /\ SetHeap(IF sizes.order < 0 THEN h
                        ELSE Opened(Take(h, kmem_cache_node), place, sizes, n))
             /\ UNCHANGED pc
       /\ UNCHANGED <<boot, heads, irqs>>

Next ==
    \/ temp_page \/ open_node \/ open_cache \/ move_cache \/ move_node
    \/ create_kmalloc_cache \/ early_irq_init \/ start_kernel
    \/ \E size \in Sizes, constant, dma \in BOOLEAN : kmalloc(size, constant, dma)
    \/ \E objsize \in ObjSizes, hwcache, ctor \in BOOLEAN :
          kmem_cache_open(objsize, hwcache, ctor)

Spec == Init /\ [][Next]_vars

-----------------------------------------------------------------------------
(* Properties. *)

Moving == {"kmem_cache_init", "open_node", "open_cache", "move_cache", "move_node", "dead"}

(* The cache a call of kmem_cache_open has made, and what other callers    *)
(* were given.                                                             *)
NewCache ==
    IF answer # Null /\ "sizes" \in DOMAIN answer /\ answer.sizes.order >= 0
    THEN answer.object ELSE Null
LiveCaches == ({kmem_cache, kmem_cache_node, NewCache} \cup Range(kmalloc_caches)) \ {Null}
Answered == IF answer = Null THEN {} ELSE {answer.object} \ {Null, ZERO_SIZE_PTR, NewCache}
NodesOf(places) == {cache[p].node : p \in places}
FreeList(p) == cpu[cache[p].cpu_slab]
Slots(k) == {<<k, i>> : i \in 1 .. slab[k].sizes.objects}

(* Every cache is in an object of its own, with room for its cpu structure *)
(* and with a node structure of its own, and every object of every slab is *)
(* either one of these, or given to a caller, or on the list of one cache, *)
(* once; nothing of that is in the temporary page (kmem_cache_init).       *)
BootLive ==
    pc \notin Moving =>
        LET used == LiveCaches \cup NodesOf(LiveCaches) \cup ToSet(kstat) \cup Answered
            free == UNION {ToSet(FreeList(p)) : p \in LiveCaches}
        IN /\ Cardinality(LiveCaches) = Cardinality({NewCache} \ {Null})
                  + 2 + Cardinality({i \in DOMAIN kmalloc_caches : kmalloc_caches[i] # Null})
           /\ Cardinality(used) =
                  2 * Cardinality(LiveCaches) + Len(kstat) + Cardinality(Answered)
           /\ Cardinality(free) = MapThenSumSet(LAMBDA p : Len(FreeList(p)), LiveCaches)
           /\ used \cap free = {}
           /\ used \cup free = UNION {Slots(k) : k \in DOMAIN slab}
           /\ \A p \in LiveCaches :
                 /\ cache[p].cpu_slab = p
                 /\ slab[p[1]].sizes.objsize >= CpuOffset + SizeofCpu
                 /\ slab[cache[p].node[1]].sizes.objsize >= SizeofNode
                 /\ \A o \in ToSet(FreeList(p)) : slab[o[1]].sizes = cache[p].sizes

(* kfree goes to the cache that page->slab names.  For every object that   *)
(* kmalloc gave a caller it names the cache the object came from, which is *)
(* alive.  Every other slab names its cache or, as the first two do, the   *)
(* place its cache had in the temporary page: kmem_cache_bootstrap_fixup   *)
(* reaches partial lists only, and these slabs are on none.                *)
KfreeFinds ==
    pc \notin Moving =>
        /\ \A o \in ToSet(kstat) : slab[o[1]].owner = kmalloc_caches[kmalloc_index(4)]
        /\ \A o \in Answered : "cache" \in DOMAIN answer =>
              slab[o[1]].owner = answer.cache /\ answer.cache \in LiveCaches
        /\ \A k \in DOMAIN slab :
              /\ slab[k].owner \in LiveCaches \cup {TempCache, TempNode}
              /\ slab[k].sizes = cache[slab[k].owner].sizes

(* A kmalloc gets an object of the smallest cache whose objects are large  *)
(* enough, whether the compiler or get_slab picks it, or NULL; above two   *)
(* pages it gets the smallest block.  With SLUB_DMA it gets nothing up to  *)
(* two pages, rather than memory a device does not reach.  A constant size *)
(* between one and two pages, for which kmalloc_index has no cache, stops  *)
(* the kernel.                                                             *)
KmallocFits ==
    answer # Null /\ "size" \in DOMAIN answer =>
        LET size == answer.size
            Objsize(p) == cache[p].sizes.objsize
            fit == {p \in Range(kmalloc_caches) \ {Null} : Objsize(p) >= size}
        IN IF size > SLUB_MAX_SIZE
           THEN /\ answer.pages * PAGE_SIZE >= size
                /\ answer.pages * PAGE_SIZE < 2 * size
           ELSE IF size = 0 THEN answer.object = ZERO_SIZE_PTR
           ELSE IF answer.dma THEN answer.object = Null
           ELSE /\ answer.cache \in fit
                /\ \A p \in fit : Objsize(answer.cache) <= Objsize(p)
                /\ answer.object # Null => slab[answer.object[1]].sizes.objsize >= size

(* The objects of a cache are aligned, hold the free pointer beside what a *)
(* constructor left, and do not straddle cache lines without need.  A slab *)
(* holds what is said of it, is no larger than slub_max_order unless the   *)
(* object is, and leaves more than a quarter unused only when no slab of   *)
(* two objects or more would do better (calculate_sizes, calculate_order). *)
SizesRight ==
    answer # Null /\ "sizes" \in DOMAIN answer =>
        LET z == answer.sizes
            Block(order) == PAGE_SIZE * 2 ^ order
            Wasteful(order) == 4 * (Block(order) % z.size) > Block(order)
        IN /\ z.objsize <= z.size /\ z.offset + SizeofPointer <= z.size
           /\ answer.ctor => z.offset >= z.objsize
           /\ z.size % z.align = 0 /\ z.align % ARCH_MINALIGN = 0
           /\ answer.hwcache => z.align >= LeastOf(z.objsize, CacheLine)
           /\ IF z.order < 0 THEN z.size > Block(MAX_ORDER - 1)
              ELSE /\ z.objects \in 1 .. MAX_OBJS_PER_PAGE
                   /\ z.objects * z.size <= Block(z.order)
                   /\ z.min_objects >= 1 /\ z.min_order <= z.order
                   /\ z.order > slub_max_order => z.order = z.min_order
                   /\ Wasteful(z.order) =>
                         \A order \in 0 .. slub_max_order :
                             order_objects(order, z.size) >= 2 => Wasteful(order)

(* init.c:143 says early_boot_irqs_disabled: until it is cleared, nothing  *)
(* turns interrupts on.                                                    *)
EarlyIrqsOff == early_boot_irqs_disabled => ~irqs_on
=============================================================================
