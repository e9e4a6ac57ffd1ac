-------------------------- MODULE FrameAllocator ---------------------------
(***************************************************************************)
(* What a page allocator promises, with no free lists, counters or orders: *)
(* it hands out blocks of memory that nobody else has, out of the memory   *)
(* the boot allocator has released, and takes them back.                   *)
(***************************************************************************)
CONSTANTS
    Blocks,    \* the blocks that can be handed out
    Cover,     \* Cover[b]: the page frames of block b
    Boot       \* the blocks free_all_bootmem releases

VARIABLES
    reserved,  \* blocks not released yet
    held,      \* blocks handed out
    dropped    \* blocks the allocator will never hand out again

fvars == <<reserved, held, dropped>>

Memory == UNION {Cover[b] : b \in Boot}
Taken == UNION {Cover[b] : b \in reserved \cup held \cup dropped}
Available(b) == Cover[b] \subseteq Memory \ Taken

Init == reserved = Boot /\ held = {} /\ dropped = {}

Release(b) ==
    /\ b \in reserved
    /\ reserved' = reserved \ {b}
    /\ UNCHANGED <<held, dropped>>

Grant(b) ==
    /\ reserved = {}
    /\ Available(b)
    /\ held' = held \cup {b}
    /\ UNCHANGED <<reserved, dropped>>

Return(b) ==
    /\ b \in held
    /\ held' = held \ {b}
    /\ UNCHANGED <<reserved, dropped>>

Drop(b) ==
    /\ reserved = {}
    /\ Available(b)
    /\ dropped' = dropped \cup {b}
    /\ UNCHANGED <<reserved, held>>

Next == \E b \in Blocks : Release(b) \/ Grant(b) \/ Return(b) \/ Drop(b)
Spec == Init /\ [][Next]_fvars
=============================================================================
