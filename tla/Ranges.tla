------------------------------ MODULE Ranges ------------------------------
(***************************************************************************)
(* Page ranges (kernel/range.c) and the heap sort they use (lib/sort.c).   *)
(* A range array is a sequence of its az slots; a slot whose end is zero   *)
(* is free.                                                                *)
(***************************************************************************)
EXTENDS Integers, SequencesExt

PfnRange(start, end) == [start |-> start, end |-> end]
FreeSlot == PfnRange(0, 0)

Exchange(s, i, j) == [s EXCEPT ![i] = s[j], ![j] = s[i]]

(* Heap positions start at 0 in the code: element r is s[r + 1].  The      *)
(* element at r sinks below the larger of its children, among the first n. *)
RECURSIVE SiftDown(_, _, _)
SiftDown(s, r, n) ==
    LET left == 2 * r + 1
        c == IF left < n - 1 /\ s[left + 1].start < s[left + 2].start THEN left + 1 ELSE left
    IN IF left >= n \/ s[r + 1].start >= s[c + 1].start THEN s
       ELSE SiftDown(Exchange(s, r + 1, c + 1), c, n)

Heapify(s) ==
    LET half == Len(s) \div 2
        heap[k \in 0 .. half] == IF k = 0 THEN s ELSE SiftDown(heap[k - 1], half - k, Len(s))
    IN heap[half]

(* sort: the largest element goes to the end, the rest is a heap again. *)
sort(s) ==
    LET n == Len(s)
        done[k \in 0 .. n] ==
            IF k = 0 THEN Heapify(s)
            ELSE SiftDown(Exchange(done[k - 1], 1, n - k + 1), 0, n - k)
    IN IF n = 0 THEN s ELSE done[n - 1]

add_range(range, nr_range, start, end) ==
    IF start >= end \/ nr_range >= Len(range)
    THEN [range |-> range, nr |-> nr_range]
    ELSE [range |-> [range EXCEPT ![nr_range + 1] = PfnRange(start, end)], nr |-> nr_range + 1]

(* What subtract_range does to slot j.  When the middle of a range goes,   *)
(* its tail needs a free slot and is dropped when there is none.           *)
SubtractFrom(range, j, start, end) ==
    LET r == range[j]
        free == {i \in DOMAIN range : range[i].end = 0}
        tail == IF free = {} THEN range ELSE [range EXCEPT ![Min(free)] = PfnRange(end, r.end)]
    IN IF r.end = 0 \/ end <= r.start \/ r.end <= start THEN range
       ELSE IF start <= r.start /\ end >= r.end THEN [range EXCEPT ![j] = FreeSlot]
       ELSE IF start <= r.start THEN [range EXCEPT ![j].start = end]
       ELSE IF end >= r.end THEN [range EXCEPT ![j].end = start]
       ELSE [tail EXCEPT ![j].end = start]

subtract_range(range, start, end) ==
    LET left[j \in 0 .. Len(range)] ==
            IF j = 0 THEN range ELSE SubtractFrom(left[j - 1], j, start, end)
    IN IF start >= end THEN range ELSE left[Len(range)]

(* The first loop of clean_sort_range: a free slot i below k takes the     *)
(* last range that is not behind k.                                        *)
RECURSIVE CloseGaps(_, _, _)
CloseGaps(range, i, k) ==
    LET used == {j \in i + 1 .. k : range[j].end # 0}
    IN IF i >= k THEN range
       ELSE IF range[i].end # 0 THEN CloseGaps(range, i + 1, k)
       ELSE IF used = {} THEN range
       ELSE CloseGaps(Exchange(range, i, Max(used)), i + 1, Max(used) - 1)

(* The ranges in use, sorted; the free slots are no longer looked at. *)
clean_sort_range(range) ==
    LET closed == CloseGaps(range, 1, Len(range))
        free   == {i \in DOMAIN closed : closed[i].end = 0}
        nr_range == IF free = {} THEN Len(closed) ELSE Min(free) - 1
    IN sort(SubSeq(closed, 1, nr_range))
=============================================================================
