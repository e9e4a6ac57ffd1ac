# Xc: TLA+ specifications

Xc is a small x86-32 kernel in C that follows the structure of Linux. These
modules specify the parts of it that keep state. TLC checks them on small
instances and TLAPS proves the main invariants for every size.

## The build that is modelled

The Makefiles fix the configuration: one processor (no `CONFIG_SMP`), one memory
node, `CONFIG_X86_32`, `CONFIG_PREEMPT`, `CONFIG_MMU`. The body of `__schedule`
is commented out, so there is one task. The only concurrency is interrupts.

## Parts of the system

| Part | Source | Module |
| --- | --- | --- |
| Real-mode loader | `setup/` | `Loader` |
| Memory map | `kernel/e820.c` | `E820` |
| Early reservations | `mm/memblock.c` | `Memblock` |
| Ranges, heap sort | `kernel/range.c`, `lib/sort.c` | `Ranges` |
| Kernel page tables | `kernel/head_32.S`, `mm/init_32.c` | `BootMem` |
| Node map, early allocation | `mm/page_alloc.c`, `mm/nobootmem.c` | `NodeMap` |
| Zone and node set-up | `mm/page_alloc.c` | `ZoneInit`, `BootMem` |
| Hand-over of boot memory | `mm/nobootmem.c` | `BootMem`, then `PageAlloc` |
| Page allocator | `mm/page_alloc.c`, `mm/mmzone.c` | `PageAlloc` |
| Slab allocator | `mm/slub.c` | `Slub` |
| Slab sizes, bootstrap, kmalloc | `mm/slub.c`, `slub_def.h`, `gfp.h` | `SlubSizes`, `SlubBoot` |
| Interrupt descriptors, flow handler | `kernel/irq/*.c` | `Irq` |
| 8259A controllers | `kernel/i8259.c` | `I8259` |
| Interrupt entry, nesting counts | `kernel/irq.c`, `kernel/softirq.c`, `hardirq.h` | `Irq` |
| `start_kernel` | `kernel/init.c` | `BootMem`, `SlubBoot`, `Irq`, a stretch each |

The parts that no module models are under "Not modelled".

The loader leaves a kernel image and a firmware memory map. Boot memory flows from
the map through memblock to the page allocator, which serves the slab allocator.
Interrupts enter through `do_IRQ`, which finds the descriptor and runs its flow
handler, which masks and acknowledges the line at the 8259A.

The modules meet where the code does. `BootMem` composes `E820`, `Memblock`,
`Ranges`, `NodeMap` and `ZoneInit`. `PageAlloc` starts with memory to be released
in single pages or chunks, which is the form `FreedSafe` and `FreedAll` of
`BootMem` describe. `Slub` and `SlubBoot` take blocks from an allocator that may
also refuse, which is what `FrameAllocator` promises.

## PageAlloc

### State

| Variable | In the code |
| --- | --- |
| `bootq` | what `free_all_bootmem` has still to release |
| `buddy` | `PageBuddy` and `page_order` of each page |
| `lru` | which `free_area[order].free_list[type]` a page is on |
| `nr_free`, `free_pages` | `free_area[].nr_free`, `vm_stat[NR_FREE_PAGES]` |
| `blocktype` | the page block bitmap |
| `pcp` | `boot_pageset`: its count, limits and lists |
| `count` | `page->_count` |
| `owned`, `lost` | blocks callers hold, blocks dropped after `check_new_page` |
| `op` | the locals of the call in progress |

A block is a pair of first page and order. A free list is a set: `list_add` or
`list_add_tail` decides only which member is taken first, and the model takes any.

### Actions

`FreePagesBootmem` is one call of `__free_pages_bootmem`, in the order
`free_all_memory_core_early` makes them. `AllocPages` and `FreePages` start a
call of `__alloc_pages_nodemask` or `__free_pages`. The other actions are the turns of the loops
inside: `FreePcpPagesBulk`, `MergeBuddy` and `InsertBlock` for release; `TryZone`,
`RmqueuePcp`, `Rmqueue`, `RmqueueSteal`, `RmqueueFail`, `ThisZoneFull`, `Expand`,
`RmqueueBulk` and `HandOut` for allocation. No handler of the kernel allocates
memory and there is one task, so calls do not overlap.

### What is left out, and why

- `free_pages_prepare` cannot fail for a caller that frees what it was given, and
  `free_pages_check` clears the head and tail flags before `PageCompound` is tested,
  so `destroy_compound_page` is never reached.
- No code makes a page block `MIGRATE_RESERVE` or `MIGRATE_ISOLATE`. The tests for
  them are in the model and never true.
- Watermarks and `lowmem_reserve` are never set, so they are zero. The proofs hold
  for any watermark.
- The slow path of `__alloc_pages_nodemask` is commented out; a failed scan returns
  NULL.
- Zeroing pages changes nothing the model keeps.

### Runs

| Run | Shows |
| --- | --- |
| `page_alloc_singles` | All invariants and the two action properties when boot memory comes as single pages |
| `page_alloc_chunk` | The inductive invariant, `FullMeansNone`, the refinement and termination when it comes in chunks |
| `page_alloc_bad_page` | A violation: see Findings |

Bounds: a DMA zone of pages 0..3 and a NORMAL zone of pages 4..10, orders 0 to 2,
page blocks of four pages. This is the smallest layout with two zones to scan,
blocks that merge and split twice, a block as large as a page block, and a zone
that ends inside one. In the kernel a page block is the largest block too
(`pageblock_order` is `MAX_ORDER - 1`). Chunks of two pages stand for the code's 32:
smaller than the largest block, so chunks merge with each other.

There is no symmetry: pages are numbers.

Deadlock is checked. Fairness is weak fairness of the release of boot memory and of
the steps of a call (`FairSpec`): the processor executes code it has entered, and
no step waits for another party. Callers are not fair; they may stop asking.

### The abstract specification

`FrameAllocator` has blocks that are reserved, held or dropped, and grants a block
only if its pages are nobody's. `AllocatesFrames` is its specification under the
mapping of `bootq`, `owned` and `lost` to those sets.

### Proofs

`PageAllocProofs` holds for every set of zones, every `MAX_ORDER`, every page block
order and every boot memory that meets the assumptions of `PageAlloc`.

| Theorem | States |
| --- | --- |
| `Invariance` | `Spec => []IInv` |
| `TypeCorrect` | `Spec => []TypeOK` |
| `BlocksDisjoint` | `Spec => []NoOverlap` |
| `ListsWellFiled` | `Spec => []WellFiled` |
| `Refinement` | `Spec => AllocatesFrames` |

`NoOverlap` is not inductive: merging is safe only because a page on a list is the
head of a free block of that list's order, and because the buddy test compares
zones. `IInv` therefore adds that lists and `PageBuddy` agree, that every
block lies in boot memory and in one zone, what is in hand at each control point, and that the
per-cpu list holds a page only in the middle of a call and that page is of the
call's zone. One lemma per action shows that it keeps `IInv`. The lemmas on
sets of blocks (a subset, a move, a merge and a split stay separate) carry the
geometry.

Only model-checked: `Conservation`, `Coalesced`, `FreeAccounting`,
`FullMeansNone`, `WatermarkSound` and `NoBadPage`, which count or need induction
over sums; the action properties; and `OperationEnds`, which is liveness.

## Irq and I8259

`I8259` has the two chips and the driver's functions; `Irq` extends it with the
descriptors, the processor and the task.

### State

| Variable | In the code |
| --- | --- |
| `cached_irq_mask`, `irq_err_count` | the driver's variables |
| `imr`, `irr`, `isr` | the chips' mask, request and in-service registers (external) |
| `stage` | how far `start_kernel` has come |
| `depth`, `action` | `desc->depth`, the flags of the handlers in `desc->action` |
| `disabled`, `inprogress`, `oneshot` | `IRQD_IRQ_DISABLED`, `IRQD_IRQ_INPROGRESS`, `IRQS_ONESHOT` |
| `frames` | the interrupted contexts: task, then interrupts, the running one last |
| `preempt_count` | of the task's stack and of the interrupt stack |
| `spurious`, `reopened` | history: spurious interrupts; lines enabled while in progress |

### Actions

`start_kernel` is the sequence that sets interrupts up, from whatever state the
firmware left the chips in. `setup_irq`, `disable_irq_nosync` and `enable_irq`
are what drivers call; the last two also from handlers. An interrupt is five
kinds of steps: `do_IRQ` (or `do_IRQ_spurious`) up to the flow handler, `handle_irq`
up to the first handler, `handle_irq_event_percpu` from one handler of a line to
the next, `handle_irq_event` to the end of the flow handler, and `irq_exit`. A
handler may enable interrupts (`HandlerEnable`), and can then be interrupted at
any point. Code with interrupts off is one step, since nothing can see its middle
but the chips, and they see only the registers it writes.

The drivers of the tree are the timer (line 0) and the cascade (line 2). The
model lets drivers use the interface in any way the code accepts: unbalanced
enables, lines shared or not, calls from handlers.

### What is left out, and why

- `IRQS_PENDING`, `IRQS_POLL_INPROGRESS` and `IRQS_SPURIOUS_DISABLED` are never set,
  `IRQS_SUSPENDED` only by a suspend that no code requests. `force_irqthreads` is 0,
  and the 8259A chip has no `irq_set_type`, `irq_startup` or `irq_enable`. The branches
  on them are dead.
- `IRQD_IRQ_MASKED` is read only in such a branch. (`irq_state_clr_masked` sets the
  flag instead of clearing it.)
- Interrupts are off until `start_kernel` turns them on. The window that `SlubBoot`
  finds before that (`early_irqs`) is not part of `Irq`: the vectors then still lead to
  the handlers of `head_32.S`, not to `do_IRQ`.
- Threads are commented out, so a line with `IRQF_ONESHOT` stays masked after its
  first interrupt. Properties about open lines exempt such lines.
- The 32 bits of `thread_mask` limit handlers of a shared oneshot line; the bound on
  handlers is below it.

### Runs

| Run | Shows |
| --- | --- |
| `irq_nested` | The safety properties, with nested handlers and a spurious interrupt |
| `irq_fair` | `RequestsServed` when handlers leave interrupts off |

Bounds: lines 7 and 15, one on each chip, with the cascade. They are the lines
spurious interrupts arrive on, so a handler, a real and a spurious interrupt of
one line meet. Depth 2 and two handlers per line are the least with nested
disables and with shared lines; one spurious interrupt suffices, since a refused
one leaves nothing behind but the mask bit.

Deadlock is checked. `FairSpec` has weak fairness of what the processor runs with
interrupts off and of `TaskIrqOn`: sections with interrupts off end. It has strong
fairness of `do_IRQ`: the processor takes a pending interrupt at the first
instruction boundary with interrupts on. It assumes nothing of code that can be
interrupted, because a device that requests fast enough stops it for good. For
that reason `irq_fair` has handlers that keep interrupts off, as the kernel's
own do, and `RequestsServed` excuses a line while a line of higher
priority requests: the chips do starve it.

`RequestsReachHandlers` is as strong as the code allows. `handle_level_irq` drops
an interrupt of a line in progress, and the line is edge triggered, so the request
is gone. This happens only if some handler calls `enable_irq` for a line whose own
handler is in progress with interrupts on.

### Proofs

`IrqProofs` holds for every set of lines, handlers and flags and for any bounds.

| Theorem | States |
| --- | --- |
| `Invariance` | `Spec => []IInv` |
| `MasksAgree` | `Spec => []MaskCoherent` |
| `DisabledStaysMasked` | `Spec => []DisabledIsMasked` |
| `EnabledStaysOpen` | `Spec => []EnabledIsOpen` |
| `AcknowledgedFirst` | `Spec => []AckBeforeHandlers` |
| `HandlersNotReentered` | `Spec => []NoReentry` |
| `RequestsNotLost` | `Spec => []RequestsReachHandlers` |
| `DisablesHeld` | `Spec => DisableHeld` |

The properties depend on each other. A line is not left masked because a refused
interrupt means another frame will unmask it, which needs the in-progress flag to
match the frames; that in turn needs every interrupted context to be the task or a
handler (`FrameOrder`), and a masked line while in progress (`MaskedLines`). `IInv` is
their conjunction with what boot establishes (`EarlyBoot`) and the bounds on what is in
service (`InService`); it is the proofs' own and no property of a run. Three lemmas reduce the driver's byte-wise writes to setting or
clearing one bit, four describe the stack of contexts, and one lemma per step
shows that it keeps `IInv`.

Only model-checked: `NestingBounded`, which counts frames; `PreemptCounts`, which
is arithmetic on bit fields; `RequestsServed`, which is liveness.

## Boot memory

`BootMem` runs from `startup_32` to the end of `free_all_bootmem`, one action per
function that `start_kernel` calls. The algorithms are operators of modules of
their own.

| Module | Operators |
| --- | --- |
| `PageMath` | rounding, minimum, maximum |
| `E820` | `sanitize_e820_map` (change points, bubble sort, sweep), `memblock_x86_fill`, `e820_end_pfn` |
| `Memblock` | `memblock_add_region`, the search from the top, the free pages of a region |
| `Ranges` | `add_range`, `subtract_range`, `clean_sort_range`, `sort` |
| `NodeMap` | `add_active_range`, absent pages, early allocation, the free ranges |
| `ZoneInit` | zone limits, the movable zone, spans and starts of zones |

### State

| Variable | In the code |
| --- | --- |
| `bios`, `e820` | `boot_params.e820_map` and the kernel's copy |
| `memory`, `reserved`, `current_limit` | `struct memblock` |
| `max_pfn`, `max_low_pfn`, `max_pfn_mapped`, `brk_end` | the variables of these names |
| `pgd`, `pt`, `pgt_buf` | page directory, page tables, the buffer for new tables |
| `early_node_map`, `mem_map`, `zones`, `page_zone`, `zonelist` | the node, its zones and struct pages |
| `early` | every area boot code has put something in |
| `freed` | the blocks given to the page allocator |

`Init` is the state in which the loader jumps to `startup_32`, with any map of `BiosMaps`. An allocation
that fails leads where the code leads: to `panic`, or on with the error ignored.

### Runs

`boot_memory` checks six invariants. `SanitizeRight` compares the sanitized map with
`TypeAt`, the meaning of a map at an address. `EarlyDisjoint` says that no two
areas overlap and that each is in mapped, usable memory. `DirectMapRight` and
`ZonesRight` describe the page tables and the zones. `FreedSafe` and `FreedAll` say
that exactly the free pages reach the page allocator, each once. The range array counts
as free there: `find_range_array` does not reserve it, and its pages are released while it
is read for the last time.

Bounds: pages of 16 bytes, page tables of 16 entries, up to 72 pages. The marks at which
map entries start and end are inside and at the edges of pages, of the kernel
image, of `ZONE_DMA` (page 16) and of the direct mapping (page 60). The main memory
has five sizes: three around the least that boot needs, one that lies inside the
reach of the direct mapping, one beyond it. With a third entry of any type, before or between
the others, maps have holes, overlaps, equal boundaries and a full table
(`E820MAX` is 4). A page block takes 64 bits of a bitmap of words of 128, so that one
block more or less changes the size of the bitmap. The array of ten regions is as large as boot needs; the real one has 128.

The run has no deadlock check: boot ends, or halts in `panic`.

### Proofs

`ZoneInitProofs` proves `ZonesTileNode` for every node that starts below the DMA
limit and ends in low memory, and every size of the largest block: the spans that
`zone_spanned_pages_in_node` computes add up to the node, and every zone starts
where its pages do. The argument: `MovableAbove` bounds the first movable page from
below, `ArchZonesFields` reduces the tables to numbers, and the two cases, with and
without a `ZONE_NORMAL`, are linear arithmetic. `ZonesTile` is a conjunct of
`ZonesRight`; the other conjuncts and invariants are only model-checked, since they
rest on recursion over maps.

## Slub and SlubBoot

### Slub

`Slub` is one cache with callers on levels: a task, and interrupt handlers on top
of it. A level moves only while those above are idle. An action is the code between two
points at which an interrupt can come in.

| Variable | In the code |
| --- | --- |
| `cpu` | `freelist` and `page` of `s->cpu_slab` |
| `seen` | the levels whose reading of `cpu_slab->tid` is still current |
| `slab`, `next` | the struct pages of slabs; the free pointer inside each object |
| `partial`, `nr_partial` | the node's list |
| `pc`, `op`, `off` | per level: place, locals, interrupts off |
| `held`, `lost` | the bag of objects callers were given; objects dropped from the cpu's list |

A caller may write into what it holds, so the free pointer of such an object is
`Junk`. Whether `__CMPXCHG_DOUBLE` is set is a choice of `Init`: the kernel's caches
have it, a cache with debug flags would not. `slab_alloc` reads the first object's free
pointer in a step of its own (`alloc_next`), after the list and before the exchange.

| Run | Shows |
| --- | --- |
| `slub_irq` | `EachObjectOnce`, `PartialRight` and that the cache implements `ObjectPool` |
| `slub_lost` | A violation: see Findings |
| `slub_free` | A violation: see Findings |

`ObjectPool` promises that an object is granted only while nobody has it and that
a slab stays while an object of it is held. What is held is a bag, so that a second
grant of an object is a step the pool does not have. `EachObjectOnce` counts lost objects as
a place of their own, so that it can hold beside `slub_lost`.

Bounds: two blocks of two objects and one of one object, which stand for `s->oo` and
`s->min`; a task and one handler; `min_partial` 0, so that slabs are discarded. Two
levels give every interruption of one call by another; a handler over a handler
meets the same points. Blocks of one order are symmetric, and no property tells
them apart. `slub_free` uses weak fairness of the steps of a level: the processor
executes what it has entered. It has the task alone, so that no interrupt can be the
reason the call does not end.

### SlubBoot and SlubSizes

`SlubSizes` has the arithmetic of object and slab sizes and the choice of a kmalloc
cache, with the real constants. `SlubBoot` follows `kmem_cache_init` step by step,
then `early_irq_init`, then one call: any `kmalloc`, of a constant size or not, with
`SLUB_DMA` or without, or `kmem_cache_open` of a cache of any size, which may fail or
panic. A place is where a `struct kmem_cache` is: the temporary page or
an object. `ram_zero` says whether free memory happens to be zero, because the cpu
structure behind a cache is never cleared.

| Run | Shows |
| --- | --- |
| `slub_boot` | `BootLive`, `KfreeFinds`, `KmallocFits`, `SizesRight` |
| `early_irqs` | A violation: see Findings |

`BootLive` accounts for every object of every slab after the move out of the temporary
page. `KfreeFinds` is about the way back: `page->slab`, which `kfree` follows, names the
live cache of every object that `kmalloc` gave out. The first two slabs name the
temporary page for good, but hold caches and node structures only.

Bounds: 16 descriptors, the legacy lines; sizes 0 to 300 and around every power of two
up to 2^15 for `kmalloc`; object sizes 1 to 700, then every 97, and around the powers
of two to 2^22 for `kmem_cache_open`. These cover the table, every change of order and both ends.
The run has no deadlock check: boot may fail, and the model follows one call.

## Loader

`Loader` is the boot sector, the memory map query, the A20 gate and the jump to
protected mode. Memory is addressed in sectors, and `mem` says which sector of the
disk is where. Byte and word arithmetic keeps its width. The BIOS is external: a
read succeeds if it stays on one track and in one segment, and may always fail; the
map query may end at any entry, with an error or with something else than a map.

`loader` checks `LoadRight` (just the sectors read so far are in memory, in order,
and no read crosses a track or a segment) and `HandedOver` (all that was read for the
kernel is where the processor fetches it, with 18 sectors per track it is the kernel's
image, the loader is intact, the map fits and is what was reported but for its last
entry). The image follows the 18 sectors of boot sector and setup on disk, while
`load_sectors` starts at head 1: on the other drives the two are different places, and
`HandedOver` says no more than that what was read has arrived.

Bounds: six drives, with one head, odd track lengths and tracks longer than the loader; a map of
at most 3 entries, for 128; three turns of `enable_a20`, for 255. The words `a20_test`
compares are 0 to 2, equal or not. The sizes of loader and kernel are the real ones.
There is no deadlock check: the loader ends.

## Findings

- `mm/page_alloc.c:1079`: the loop of `__free_pages_bootmem` clears the count of the
  first page of a chunk only. `check_new_page` later refuses blocks with the others,
  and `buffered_rmqueue` drops them (`page_alloc_bad_page`).
- `mm/slub.c:201`: `cmpxchg_double_slab` passes `&page`, so that the exchange never
  succeeds and `__slab_free` loops for ever (`slub_free`). The comment at line 1170
  takes the branch for disabled; `asm/cmpxchg_32.h:23` enables it.
- `mm/slub.c:762`: `__slab_alloc` reloads the cpu structure "due to the possible
  preemption" (line 729) but does not look at its list, and overwrites what an
  interrupt has put there (`slub_lost`). No handler of the tree uses the allocator yet.
- `include/Xc/gfp.h:71`: a `||` in `GFP_BOOT_MASK` leaves `__GFP_WAIT` allowed, so the
  first slab of `early_irq_init` is allocated with interrupts on, before the
  controllers are set up (`early_irqs`).

Observed while modelling, and part of the models, but in no run of their own:

- `deactivate_slab` ends with a second `spin_lock` (`slub.c:703`); on one processor this
  only shifts the preemption count.
- `init_kmem_cache_cpus` sets the tid of `kmem_cache_node`, not of the cache it is given,
  and nothing clears the cpu structure behind a cache.
- `kmem_cache_bootstrap_fixup` corrects slabs on the partial list only, and has nothing to
  correct: both slabs are the cpu's by then. They keep `page->slab` pointing into the
  released page; nothing frees their objects.
- `kmalloc_index` returns -1 for constant sizes above one page up to two, and `kmalloc`
  then uses what is in memory before `kmalloc_caches`.
- `kmalloc` with `SLUB_DMA` returns `NULL` for every size up to two pages but 0: the loop
  that fills `kmalloc_dma_caches` is commented out (`slub.c:1335`).
- The comment at `e820.c:77` says change points are swapped when `curaddr > lastaddr`;
  the code at line 81 swaps them when `curaddr < lastaddr`, which is what sorts them.
- `detect_memory_e820` drops an entry that comes with `ebx` 0. Firmware may return
  its last entry so.
- The kernel is read from head 1 on, which is where it is on disk only with 18 sectors
  per track. A failed read is not retried, and the result of `enable_a20` is ignored.
- A full memblock array drops a reservation without a word.
- `add_active_range` compares with entry 0 instead of entry i, harmless for ascending
  ranges.
- `free_area_init_core` ignores the result of `init_currently_empty_zone`. A zone whose pages
  are all its share of `mem_map` has no present pages and is not on the zonelist.

## Not modelled

- Timer and delay calibration: `calibrate_delay_converge` waits for `jiffies` to change,
  and `timer_interrupt` does not advance it. Boot never gets past this loop, and a model
  would say only that.
- Scheduler, wait queues, pids, kernel threads: the body of `__schedule` and the run
  queues are commented out or under `#if 0`.
- `fork.c`, `process*.c`, `sched_fair.c`, `setup_percpu.c`, `rbtree.c`, `pgtable.c`,
  `util.c`: in no Makefile's object list.
- Descriptor tables, traps, processor identification: straight-line register set-up with
  no state that a later step decides on.
- `printk`, `panic`, string functions: formatting and screen output.
- Header-only helpers (lists, bit operations, atomics): where they are used, the models
  have their effect on sets, sequences and flags.
- 8259A hooks `mask_all`, `restore_mask`, `make_irq`, `irq_pending`: no caller.

Beyond the prover: liveness (`OperationEnds`, `RequestsServed`, `FreeReturns`), and what
recursive definitions compute (`SanitizeRight`, `EachObjectOnce`, the size arithmetic).

## Running

    tlc -workers 2 -config PageAllocSingles.cfg MCPageAlloc
    tlc -workers 2 -config PageAllocChunk.cfg MCPageAlloc
    tlc -workers 2 -config PageAllocBadPage.cfg MCPageAlloc
    tlc -workers 2 -config IrqNested.cfg MCIrq
    tlc -workers 2 -config IrqFair.cfg MCIrq
    tlc -workers 2 -config BootMem.cfg MCBootMem
    tlc -workers 2 -config SlubIrq.cfg MCSlub
    tlc -workers 2 -config SlubLost.cfg MCSlub
    tlc -workers 2 -config SlubFree.cfg MCSlub
    tlc -workers 2 -config SlubBoot.cfg MCSlubBoot
    tlc -workers 2 -config SlubEarly.cfg MCSlubBoot
    tlc -workers 2 -config Loader.cfg MCLoader
    tlapm PageAllocProofs.tla
    tlapm IrqProofs.tla
    tlapm ZoneInitProofs.tla

The runs with `BadPage`, `Lost`, `Free` and `Early` in their names end with the
violations listed under Findings.
