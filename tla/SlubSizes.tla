----------------------------- MODULE SlubSizes -----------------------------
(***************************************************************************)
(* The arithmetic of mm/slub.c and include/Xc/slub_def.h: how large the    *)
(* objects and the slabs of a cache are, and which cache serves a kmalloc. *)
(* No cache reserves space at the end of a slab (s->reserved is 0).        *)
(***************************************************************************)
EXTENDS PageMath, Sequences, FiniteSetsExt

PAGE_SHIFT == 12
PAGE_SIZE == 2 ^ PAGE_SHIFT
MAX_ORDER == 11
MAX_OBJS_PER_PAGE == 32767
slub_max_order == 3
nr_cpu_ids == 1
SizeofPointer == 4
CacheLine == 32
ARCH_MINALIGN == 8
MIN_PARTIAL == 5
MAX_PARTIAL == 10

(* fls: the number of the highest bit set, from 1; 0 for 0. *)
fls(x) == Cardinality({k \in 0 .. 30 : 2 ^ k <= x})

(* get_order: the smallest order whose block holds size bytes. *)
get_order(size) == Min({k \in 0 .. 18 : size <= PAGE_SIZE * 2 ^ k})

order_objects(order, size) == (PAGE_SIZE * 2 ^ order) \div size

(* calculate_alignment: the cache line is halved while two objects fit. *)
calculate_alignment(hwcache, align, objsize) ==
    LET lines  == {CacheLine \div (2 ^ k) : k \in 0 .. 5}
        ralign == IF hwcache THEN Min({r \in lines : 2 * r > CacheLine \/ objsize <= r}) ELSE 0
    IN AlignUp(MostOf(MostOf(align, ralign), ARCH_MINALIGN), SizeofPointer)

(* slab_order: the first order, from one that holds min_objects on, whose  *)
(* leftover is at most the given fraction; one above max_order for none.   *)
slab_order(size, min_objects, max_order, fract_leftover) ==
    LET first == MostOf(0, fls(min_objects * size - 1) - PAGE_SHIFT)
        good  == {order \in first .. max_order :
                     LET slab_size == PAGE_SIZE * 2 ^ order
                     IN /\ slab_size >= min_objects * size
                        /\ slab_size % size <= slab_size \div fract_leftover}
    IN IF order_objects(0, size) > MAX_OBJS_PER_PAGE
       THEN get_order(size * MAX_OBJS_PER_PAGE) - 1
       ELSE IF good # {} THEN Min(good) ELSE MostOf(first, max_order + 1)

(* calculate_order: with as many objects as there should be, then with     *)
(* fewer, and each time with a sixteenth, an eighth and a quarter left     *)
(* over; then one object; then one in a block of any order; -1 for none.   *)
calculate_order(size) ==
    LET most == LeastOf(4 * (fls(nr_cpu_ids) + 1), order_objects(slub_max_order, size))
        Try(i) == slab_order(size, most - (i \div 3), slub_max_order, 16 \div (2 ^ (i % 3)))
        good == {i \in 0 .. 3 * (most - 1) - 1 : Try(i) <= slub_max_order}
        one  == slab_order(size, 1, slub_max_order, 1)
        any  == slab_order(size, 1, MAX_ORDER, 1)
    IN IF good # {} THEN Try(Min(good))
       ELSE IF one <= slub_max_order THEN one
       ELSE IF any < MAX_ORDER THEN any ELSE -1

(* Mutant: the free pointer shares the last word of the object. *)
WithPointerInside(size, ctor) == size

(* Room for a free pointer of its own, behind an object that has a         *)
(* constructor.                                                            *)
WithPointer(size, ctor) == IF ctor THEN size + SizeofPointer ELSE size

(* calculate_sizes and set_min_partial.  order is -1 when they fail. *)
calculate_sizes(objsize, align, hwcache, ctor) ==
    LET inuse == AlignUp(objsize, SizeofPointer)
        al    == calculate_alignment(hwcache, align, objsize)
        size  == AlignUp(WithPointer(inuse, ctor), al)
        order == calculate_order(size)
        min   == get_order(size)
    IN [objsize |-> objsize, inuse |-> inuse, offset |-> IF ctor THEN inuse ELSE 0,
        align |-> al, size |-> size, order |-> order,
        objects |-> IF order < 0 THEN 0 ELSE order_objects(order, size),
        min_order |-> min, min_objects |-> order_objects(min, size),
        min_partial |-> LeastOf(MostOf(fls(size) - 1, MIN_PARTIAL), MAX_PARTIAL)]

-----------------------------------------------------------------------------
(* kmalloc. *)

KMALLOC_SHIFT_LOW == 3
SLUB_PAGE_SHIFT == PAGE_SHIFT + 2
SLUB_MAX_SIZE == 2 * PAGE_SIZE

size_index == <<3, 4, 5, 5, 6, 6, 6, 6, 1, 1, 1, 1, 7, 7, 7, 7, 2, 2, 2, 2, 2, 2, 2, 2>>

(* Mutant: one too high for sizes that are a multiple of 8. *)
size_index_elem_high(bytes) == LeastOf(23, bytes \div 8)

size_index_elem(bytes) == (bytes - 1) \div 8

(* The index get_slab looks a size up with, when it is not 0. *)
slab_index(size) ==
    IF size <= 192 THEN size_index[size_index_elem(size) + 1] ELSE fls(size - 1)

(* kmalloc_index, for a constant size: -1 above a page. *)
kmalloc_index(size) ==
    LET fits == {k \in KMALLOC_SHIFT_LOW .. 12 : size <= 2 ^ k}
    IN IF size = 0 THEN 0
       ELSE IF 64 < size /\ size <= 96 THEN 1
       ELSE IF 128 < size /\ size <= 192 THEN 2
       ELSE IF fits = {} THEN -1 ELSE Min(fits)

(* The object sizes kmem_cache_init gives the kmalloc caches. *)
KmallocSize(i) == CASE i = 1 -> 96 [] i = 2 -> 192 [] OTHER -> 2 ^ i
=============================================================================
