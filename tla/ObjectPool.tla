----------------------------- MODULE ObjectPool -----------------------------
(***************************************************************************)
(* What a slab cache promises its callers: an object is handed out only    *)
(* while nobody has it, and memory stays with the cache as long as anybody *)
(* has an object in it.  Slabs come and go at any step.                    *)
(*                                                                         *)
(* held is a bag, so that an object two callers have counts twice: a       *)
(* second grant changes it and is no step of the pool.                     *)
(***************************************************************************)
EXTENDS Bags, BagsExt

CONSTANT Objects

VARIABLES
    owned,   \* the objects of the slabs the cache has
    held     \* the objects callers have, one copy per caller

pvars == <<owned, held>>

Init == owned = {} /\ held = EmptyBag

Grant(o) == ~BagIn(o, held) /\ held' = BagAdd(held, o)
Return(o) == BagIn(o, held) /\ held' = BagRemove(held, o)
ChangeSlabs == UNCHANGED held

Next ==
    /\ owned' \in SUBSET Objects
    /\ BagToSet(held') \subseteq owned'
    /\ ChangeSlabs \/ \E o \in Objects : Grant(o) \/ Return(o)

Spec == Init /\ [][Next]_pvars
=============================================================================
