-------------------------------- MODULE Slub --------------------------------
(***************************************************************************)
(* One cache of the slab allocator, mm/slub.c: the cpu's slab and its list *)
(* of free objects, the partial list of the node, and the slabs.           *)
(*                                                                         *)
(* Callers run at levels: level 1 is the task, level l + 1 an interrupt    *)
(* handler that runs on top of level l.  A level moves only while those    *)
(* above it are idle, and a handler starts only while interrupts are on.   *)
(* An action is what the code does between two points where it can be      *)
(* interrupted.                                                            *)
(*                                                                         *)
(* cpu_slab->tid is only ever compared with an earlier reading, so the     *)
(* model keeps the set of levels whose reading is still current and can    *)
(* still be compared.  In the code a reading also becomes current again    *)
(* after 2^32 increments.                                                  *)
(***************************************************************************)
EXTENDS Integers, Sequences, SequencesExt, Bags, BagsExt

CONSTANTS
    OoFrames,       \* blocks of the preferred order (s->oo) there may be
    MinFrames,      \* blocks of the smallest order (s->min)
    OoObjects,      \* objects of a slab of the preferred order
    MinObjects,     \* objects of a slab of the smallest order
    MIN_PARTIAL,    \* s->min_partial
    DoubleFlags,    \* whether s->flags has __CMPXCHG_DOUBLE: a set of choices
    MaxLevel,
    Null, Junk

VARIABLES
    cmpxchg_double,  \* s->flags & __CMPXCHG_DOUBLE
    cpu,             \* freelist and page of s->cpu_slab
    seen,            \* levels whose reading of cpu_slab->tid is current
    slab,            \* struct page of each frame that is a slab
    next,            \* the word at s->offset of each object
    partial, nr_partial,   \* the node's list
    pc, op, off,     \* of each level: its place, its locals, interrupts off
    held,            \* bag of the objects callers have, one copy per caller
    lost             \* objects the cpu's list held when it was overwritten

lists == <<slab, next, partial, nr_partial>>
callers == <<pc, op, off, held>>
vars == <<cmpxchg_double, cpu, seen, lists, callers, lost>>

ObjectsOf(f, n) == {<<f, i>> : i \in 1 .. n}
oo_objects(f) == IF f \in OoFrames THEN OoObjects ELSE MinObjects
Frames == OoFrames \cup MinFrames
Objects == UNION {ObjectsOf(f, oo_objects(f)) : f \in Frames}
Levels == 1 .. MaxLevel
virt_to_head_page(o) == o[1]
Owned == UNION {ObjectsOf(f, slab[f].objects) : f \in DOMAIN slab}

(* The objects of a list: the first, and on along the free pointers. *)
RECURSIVE Chain(_, _, _)
Chain(nx, o, n) ==
    IF o \notin Objects \/ n = 0 THEN <<>> ELSE <<o>> \o Chain(nx, nx[o], n - 1)
ListOf(nx, o) == Chain(nx, o, Cardinality(Objects))

NoOp == [obj |-> Null, prior |-> Null, counters |-> Null, n |-> FALSE]
Counters(page) == [inuse |-> page.inuse, objects |-> page.objects, frozen |-> page.frozen]

Init ==
    /\ cmpxchg_double \in DoubleFlags
    /\ cpu = [freelist |-> Null, page |-> Null]
    /\ seen = {}
    /\ slab = <<>>
    /\ next = [o \in Objects |-> Junk]
    /\ partial = <<>> /\ nr_partial = 0
    /\ pc = [l \in Levels |-> "idle"]
    /\ op = [l \in Levels |-> NoOp]
    /\ off = [l \in Levels |-> FALSE]
    /\ held = EmptyBag /\ lost = {}

-----------------------------------------------------------------------------
(* Levels. *)

At(l, place) == pc[l] = place /\ \A k \in Levels : k > l => pc[k] = "idle"

(* A handler that finds the level below outside the allocator is no        *)
(* different from that level calling it.                                   *)
MayStart(l) == At(l, "idle") /\ \A k \in 1 .. l - 1 : pc[k] # "idle" /\ ~off[k]

Goto(l, place) == pc' = [pc EXCEPT ![l] = place]

(* The caller has its answer and interrupts are as they were. *)
Return(l) ==
    /\ Goto(l, "idle")
    /\ op' = [op EXCEPT ![l] = NoOp]
    /\ off' = [off EXCEPT ![l] = FALSE]

-----------------------------------------------------------------------------
(* Allocation. *)

(* slab_alloc starts, or starts over, by reading the tid. *)
ReadTid(l, place) ==
    /\ seen' = seen \cup {l}
    /\ Goto(l, place)

slab_alloc(l) ==
    /\ MayStart(l)
    /\ ReadTid(l, "alloc_object")
    /\ UNCHANGED <<cmpxchg_double, cpu, lists, op, off, held, lost>>

alloc_object(l) ==
    /\ At(l, "alloc_object")
    /\ op' = [op EXCEPT ![l].obj = cpu.freelist]
    /\ \/ /\ cpu.freelist # Null
          /\ Goto(l, "alloc_next")
          /\ UNCHANGED seen
       \/ /\ cpu.freelist = Null
          /\ Goto(l, "slow_alloc")
          /\ seen' = seen \ {l}
    /\ UNCHANGED <<cmpxchg_double, cpu, lists, off, held, lost>>

(* get_freepointer_safe: reads the object's free pointer, whoever has the  *)
(* object by now.                                                          *)
alloc_next(l) ==
    /\ At(l, "alloc_next")
    /\ op' = [op EXCEPT ![l].prior = next[op[l].obj]]
    /\ Goto(l, "alloc_cmpxchg")
    /\ UNCHANGED <<cmpxchg_double, cpu, seen, lists, off, held, lost>>

(* The caller gets o and may write anything into it. *)
HandOut(l, nx, o) ==
    /\ held' = BagAdd(held, o)
    /\ next' = [nx EXCEPT ![o] = Junk]
    /\ Return(l)

(* irqsafe_cpu_cmpxchg_double finds the list and the tid unchanged. *)
Current(l, o) == cpu.freelist = o /\ l \in seen

alloc_cmpxchg(l) ==
    LET o == op[l].obj
    IN /\ At(l, "alloc_cmpxchg")
       /\ \/ /\ Current(l, o)
             /\ cpu' = [cpu EXCEPT !.freelist = op[l].prior]
             /\ seen' = {}
             /\ HandOut(l, next, o)
             /\ UNCHANGED <<slab, partial, nr_partial>>
          \/ /\ ~Current(l, o)
             /\ ReadTid(l, "alloc_object")
             /\ UNCHANGED <<cpu, lists, op, off, held>>
       /\ UNCHANGED <<cmpxchg_double, lost>>

(* Mutant: the object handed out stays the first of the list. *)
load_freelist_first(l, c, nx, o) ==
    /\ lost' = lost \cup ToSet(ListOf(nx, c.freelist))
    /\ cpu' = [c EXCEPT !.freelist = o]
    /\ seen' = {}
    /\ HandOut(l, nx, o)

(* load_freelist: the list that starts at o replaces the one in c. *)
load_freelist(l, c, nx, o) ==
    /\ lost' = lost \cup ToSet(ListOf(nx, c.freelist))
    /\ cpu' = [c EXCEPT !.freelist = nx[o]]
    /\ seen' = {}
    /\ HandOut(l, nx, o)

(* A slab whose free objects all go to the cpu. *)
Frozen(page) ==
    [page EXCEPT !.freelist = Null, !.inuse = page.objects, !.frozen = TRUE]

(* get_partial: the node's first slab, or none. *)
get_partial == IF nr_partial = 0 THEN Null ELSE Head(partial)

add_partial(list, f, tail) == IF tail THEN Append(list, f) ELSE <<f>> \o list

(* __slab_alloc, with interrupts off: from what was freed to the cpu's     *)
(* slab meanwhile, else from the first partial slab, else on to a new one. *)
(* It does not look at the cpu's list again, and a slab it leaves behind   *)
(* full does not change the tid.  allocate_slab turns interrupts on for a  *)
(* caller that may wait, which only a task may (__GFP_WAIT).               *)
__slab_alloc(l) ==
    LET page   == cpu.page
        object == IF page = Null THEN Null ELSE slab[page].freelist
        slab1  == IF page = Null THEN slab
                  ELSE [slab EXCEPT ![page] = [Frozen(@) EXCEPT !.frozen = object # Null]]
        p == get_partial
    IN /\ At(l, "slow_alloc")
       /\ \/ /\ object # Null
             /\ slab' = slab1
             /\ load_freelist(l, cpu, next, object)
             /\ UNCHANGED <<partial, nr_partial>>
          \/ /\ object = Null /\ p # Null
             /\ slab' = [slab1 EXCEPT ![p] = Frozen(@)]
             /\ partial' = Tail(partial)
             /\ nr_partial' = nr_partial - 1
             /\ load_freelist(l, [cpu EXCEPT !.page = p], next, slab1[p].freelist)
          \/ /\ object = Null /\ p = Null
             /\ slab' = slab1
             /\ cpu' = [cpu EXCEPT !.page = Null]
             /\ Goto(l, "new_slab")
             /\ \E wait \in BOOLEAN : (wait => l = 1) /\ off' = [off EXCEPT ![l] = ~wait]
             /\ UNCHANGED <<seen, next, partial, nr_partial, op, held, lost>>
       /\ UNCHANGED cmpxchg_double

Without(sl, f) == [g \in DOMAIN sl \ {f} |-> sl[g]]
Cleared(nx, f) == [o \in Objects |-> IF virt_to_head_page(o) = f THEN Junk ELSE nx[o]]

(* An empty slab goes back to the page allocator once there are enough.    *)
Discards(inuse, nr) == inuse = 0 /\ nr > MIN_PARTIAL

(* deactivate_slab, on a record w of the cache's state: the objects of the *)
(* cpu's list go back to the slab one by one, and it is discarded, put on  *)
(* the partial list, or left alone as full.  The code takes list_lock a    *)
(* second time where it should release it; on one cpu only the preemption  *)
(* count, which this model leaves out, sees that.                          *)
deactivate_slab(w) ==
    LET p == w.cpu.page
        chain == ListOf(w.next, w.cpu.freelist)
        k == Len(chain)
        old == w.slab[p]
        nx == [o \in Objects |->
                  IF o \notin ToSet(chain) THEN w.next[o]
                  ELSE LET i == CHOOSE j \in 1 .. k : chain[j] = o
                       IN IF i = 1 THEN old.freelist ELSE chain[i - 1]]
        new == [old EXCEPT !.freelist = IF k = 0 THEN @ ELSE chain[k],
                           !.inuse = @ - k, !.frozen = FALSE]
        idle == [w EXCEPT !.cpu = [freelist |-> Null, page |-> Null]]
        tail == old.freelist # Null
    IN IF Discards(new.inuse, w.nr_partial)
       THEN [idle EXCEPT !.slab = Without(@, p), !.next = Cleared(nx, p)]
       ELSE IF new.freelist # Null
       THEN [idle EXCEPT !.slab[p] = new, !.next = nx,
                         !.partial = add_partial(@, p, tail),
                         !.nr_partial = @ + 1]
       ELSE [idle EXCEPT !.slab[p] = new]

(* The list new_slab makes of the objects of frame f. *)
FreshNext(f) ==
    [o \in Objects |-> IF virt_to_head_page(o) # f THEN next[o]
                       ELSE IF o[2] < oo_objects(f) THEN <<f, o[2] + 1>> ELSE Null]

(* allocate_slab: the page allocator gives a block of the preferred order, *)
(* or of the smallest, or none.                                            *)
allocate_slab == (Frames \ DOMAIN slab) \cup {Null}

(* The end of __slab_alloc.  Interrupts may have been on while the page    *)
(* allocator worked: a slab the cpu got meanwhile is flushed.              *)
new_slab(l) ==
    /\ At(l, "new_slab")
    /\ \/ \E f \in allocate_slab \ {Null} :
             LET n == oo_objects(f)
                 w == [cpu |-> cpu, slab |-> slab, next |-> FreshNext(f),
                       partial |-> partial, nr_partial |-> nr_partial]
                 d == IF cpu.page = Null THEN w ELSE deactivate_slab(w)
                 page == [freelist |-> Null, inuse |-> n, objects |-> n, frozen |-> TRUE]
             IN /\ slab' = [g \in DOMAIN d.slab \cup {f} |-> IF g = f THEN page ELSE d.slab[g]]
                /\ partial' = d.partial
                /\ nr_partial' = d.nr_partial
                /\ load_freelist(l, [d.cpu EXCEPT !.page = f], d.next, <<f, 1>>)
       \/ /\ Null \in allocate_slab
          /\ Return(l)
          /\ UNCHANGED <<cpu, seen, lists, held, lost>>
    /\ UNCHANGED cmpxchg_double

-----------------------------------------------------------------------------
(* Release. *)

slab_free(l, o) ==
    /\ MayStart(l)
    /\ BagIn(o, held)
    /\ held' = BagRemove(held, o)
    /\ ReadTid(l, "free_page")
    /\ op' = [op EXCEPT ![l].obj = o]
    /\ UNCHANGED <<cmpxchg_double, cpu, lists, off, lost>>

free_page(l) ==
    /\ At(l, "free_page")
    /\ \/ /\ virt_to_head_page(op[l].obj) = cpu.page
          /\ Goto(l, "free_link")
          /\ UNCHANGED seen
       \/ /\ virt_to_head_page(op[l].obj) # cpu.page
          /\ Goto(l, "free_prior")
          /\ seen' = seen \ {l}
    /\ UNCHANGED <<cmpxchg_double, cpu, lists, op, off, held, lost>>

free_link(l) ==
    /\ At(l, "free_link")
    /\ next' = [next EXCEPT ![op[l].obj] = cpu.freelist]
    /\ Goto(l, "free_cmpxchg")
    /\ UNCHANGED <<cmpxchg_double, cpu, seen, slab, partial, nr_partial,
                   op, off, held, lost>>

(* The cmpxchg of slab_free reads the list it expects anew, so that only   *)
(* the tid decides.                                                        *)
free_cmpxchg(l) ==
    /\ At(l, "free_cmpxchg")
    /\ \/ /\ Current(l, cpu.freelist)
          /\ cpu' = [cpu EXCEPT !.freelist = op[l].obj]
          /\ seen' = {}
          /\ Return(l)
       \/ /\ ~Current(l, cpu.freelist)
          /\ ReadTid(l, "free_page")
          /\ UNCHANGED <<cpu, op, off>>
    /\ UNCHANGED <<cmpxchg_double, lists, held, lost>>

(* __slab_free reads the slab's list and counters with interrupts on, and  *)
(* turns them off when the slab looks as if it will move between lists.    *)
free_prior(l) ==
    /\ At(l, "free_prior")
    /\ op' = [op EXCEPT ![l].prior = slab[virt_to_head_page(op[l].obj)].freelist]
    /\ Goto(l, "free_counters")
    /\ UNCHANGED <<cmpxchg_double, cpu, seen, lists, off, held, lost>>

free_counters(l) ==
    LET o == op[l].obj
        counters == Counters(slab[virt_to_head_page(o)])
        locks == (counters.inuse = 1 \/ op[l].prior = Null) /\ ~counters.frozen
    IN /\ At(l, "free_counters")
       /\ next' = [next EXCEPT ![o] = op[l].prior]
       /\ op' = [op EXCEPT ![l].counters = counters, ![l].n = @ \/ locks]
       /\ off' = [off EXCEPT ![l] = @ \/ locks]
       /\ Goto(l, "free_update")
       /\ UNCHANGED <<cmpxchg_double, cpu, seen, slab, partial, nr_partial,
                      held, lost>>

(* Mutant: compares the list and not the counters. *)
UpdatesList(l, page) == ~cmpxchg_double /\ page.freelist = op[l].prior

(* cmpxchg_double_slab succeeds.  With __CMPXCHG_DOUBLE it is given the    *)
(* address of its own argument instead of the slab's list, and the address *)
(* of a struct page is never that of an object.                            *)
Updates(l, page) ==
    ~cmpxchg_double /\ page.freelist = op[l].prior /\ Counters(page) = op[l].counters

(* Mutant: a discarded slab stays on the partial list. *)
StaysLinked(f, prior) == partial

(* The partial list after slab f, with prior its list before, is discarded. *)
Unlinked(f, prior) == IF prior = Null THEN partial ELSE SelectSeq(partial, LAMBDA g : g # f)

free_update(l) ==
    LET o     == op[l].obj
        f     == virt_to_head_page(o)
        prior == op[l].prior
        old   == op[l].counters
        new   == [freelist |-> o, inuse |-> old.inuse - 1, objects |-> old.objects,
                  frozen |-> old.frozen]
        moves == op[l].n /\ ~old.frozen
    IN /\ At(l, "free_update")
       /\ \/ /\ ~Updates(l, slab[f])
             /\ Goto(l, "free_prior")
             /\ UNCHANGED <<slab, next, partial, nr_partial, op, off>>
          \/ /\ Updates(l, slab[f])
             /\ moves /\ Discards(new.inuse, nr_partial)
             /\ slab' = Without(slab, f)
             /\ next' = Cleared(next, f)
             /\ partial' = Unlinked(f, prior)
             /\ nr_partial' = IF prior = Null THEN nr_partial ELSE nr_partial - 1
             /\ Return(l)
          \/ /\ Updates(l, slab[f])
             /\ ~(moves /\ Discards(new.inuse, nr_partial))
             /\ slab' = [slab EXCEPT ![f] = new]
             /\ partial' = IF moves /\ prior = Null THEN add_partial(partial, f, TRUE) ELSE partial
             /\ nr_partial' = IF moves /\ prior = Null THEN nr_partial + 1 ELSE nr_partial
             /\ UNCHANGED next
             /\ Return(l)
       /\ UNCHANGED <<cmpxchg_double, cpu, seen, held, lost>>

-----------------------------------------------------------------------------
Call(l) == slab_alloc(l) \/ (\E o \in Objects : slab_free(l, o))

Step(l) ==
    \/ alloc_object(l) \/ alloc_next(l) \/ alloc_cmpxchg(l) \/ __slab_alloc(l) \/ new_slab(l)
    \/ free_page(l) \/ free_link(l) \/ free_cmpxchg(l)
    \/ free_prior(l) \/ free_counters(l) \/ free_update(l)

Next == \E l \in Levels : Call(l) \/ Step(l)

Spec == Init /\ [][Next]_vars

(* The processor keeps executing: the highest level that is not idle moves. *)
FairSpec == Spec /\ \A l \in Levels : WF_vars(Step(l))

-----------------------------------------------------------------------------
(* Properties. *)

Freeing(l) == pc[l] \in {"free_page", "free_link", "free_cmpxchg",
                         "free_prior", "free_counters", "free_update"}

Times(o, list) == Cardinality({i \in DOMAIN list : list[i] = o})
One(b) == IF b THEN 1 ELSE 0

(* Every object of every slab is in exactly one place: with a caller, on   *)
(* its way back, on the cpu's list, on its own slab's list, or lost when   *)
(* __slab_alloc replaced a list an interrupt had filled; and a slab counts *)
(* as in use just the objects that are not on its list (the cmpxchg loops  *)
(* of slab_alloc, slab_free, __slab_alloc, __slab_free, deactivate_slab).  *)
EachObjectOnce ==
    LET own == [f \in DOMAIN slab |-> ListOf(next, slab[f].freelist)]
        cpus   == ListOf(next, cpu.freelist)
        Proper(first, list) == (IF list = <<>> THEN first ELSE next[Last(list)]) = Null
    IN /\ Proper(cpu.freelist, cpus)
       /\ ToSet(cpus) \subseteq Owned
       /\ \A f \in DOMAIN slab :
             /\ Proper(slab[f].freelist, own[f])
             /\ ToSet(own[f]) \subseteq ObjectsOf(f, slab[f].objects)
             /\ slab[f].inuse = slab[f].objects - Len(own[f])
             /\ \A i \in 1 .. slab[f].objects :
                   LET o == <<f, i>>
                   IN CopiesIn(o, held) + One(o \in lost) + Times(o, cpus) + Times(o, own[f])
                      + Cardinality({l \in Levels : Freeing(l) /\ op[l].obj = o}) = 1

(* The partial list has just the slabs that are not the cpu's and have a   *)
(* free object, each once, and nr_partial is its length; the cpu's slab is *)
(* the one slab marked frozen (__slab_alloc, __slab_free,                  *)
(* deactivate_slab).                                                       *)
PartialRight ==
    /\ nr_partial = Len(partial)
    /\ \A i, j \in DOMAIN partial : partial[i] = partial[j] => i = j
    /\ ToSet(partial) = {f \in DOMAIN slab : ~slab[f].frozen /\ slab[f].freelist # Null}
    /\ {f \in DOMAIN slab : slab[f].frozen} = {cpu.page} \ {Null}

(* The cache is an object pool: an object is handed out only while no      *)
(* caller has it, and a slab stays while a caller has an object in it      *)
(* (slab_alloc, slab_free and the discarding of slabs).                    *)
Pool == INSTANCE ObjectPool WITH owned <- Owned
IsPool == Pool!Spec

(* slub.c:729 reloads the cpu's slab "due to the possible preemption":     *)
(* what an interrupt put on the cpu's list meanwhile is kept.              *)
NothingLost == lost = {}

(* slub.c:1170 takes the cmpxchg of a double word for not available; with  *)
(* the locked update in its place, __slab_free always comes to an end.     *)
FreeReturns == \A l \in Levels : (pc[l] = "free_prior") ~> (pc[l] = "idle")
=============================================================================
