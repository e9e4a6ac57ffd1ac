------------------------------- MODULE E820 -------------------------------
(***************************************************************************)
(* The firmware memory map of kernel/e820.c: sanitize_e820_map turns a map *)
(* whose entries may overlap, in any order, into one with sorted, disjoint *)
(* entries; memblock takes its usable memory from the result.              *)
(*                                                                         *)
(* A map is the sequence of its nr_map entries.                            *)
(***************************************************************************)
EXTENDS Memblock

CONSTANTS
    E820MAX,       \* entries a map can hold
    MAX_ARCH_PFN   \* pages a 32-bit address reaches

E820_RAM == 1
E820_RESERVED_KERN == 128

LastAddr(e) == e.addr + e.size

(* The two change points of each entry that is not empty: addr, and the    *)
(* entry pbios they belong to.                                             *)
ChangePoints(map) ==
    LET Points(i) == << [addr |-> map[i].addr, pbios |-> i],
                        [addr |-> LastAddr(map[i]), pbios |-> i] >>
    IN FlattenSeq([i \in DOMAIN map |-> IF map[i].size = 0 THEN <<>> ELSE Points(i)])

IsStart(map, p) == p.addr = map[p.pbios].addr

(* Mutant: leaves points of one address as they come. *)
OutOfOrderByAddr(map, cur, last) == cur.addr < last.addr

(* Two neighbours that are swapped: at one address starts go before ends.  *)
OutOfOrder(map, cur, last) ==
    \/ cur.addr < last.addr
    \/ cur.addr = last.addr /\ IsStart(map, cur) /\ ~IsStart(map, last)

(* One pass of the bubble sort over the points s. *)
SortPass(map, s) ==
    LET Step(t, i) == IF OutOfOrder(map, t[i], t[i - 1])
                      THEN [t EXCEPT ![i] = t[i - 1], ![i - 1] = t[i]]
                      ELSE t
        pass[i \in 0 .. Len(s)] == IF i < 2 THEN s ELSE Step(pass[i - 1], i)
    IN pass[Len(s)]

RECURSIVE SortPoints(_, _)
SortPoints(map, s) ==
    LET t == SortPass(map, s) IN IF t = s THEN s ELSE SortPoints(map, t)

(* The type of the entries that overlap: the largest wins. *)
WinningType(map, overlap) == Max({0} \cup {map[i].type : i \in overlap})

(* What one change point does to the new map.  w holds the locals of the   *)
(* loop; the entry under construction is [last_addr, ...) of last_type.    *)
SweepPoint(map, max_nr_map, w, p) ==
    LET overlap == IF IsStart(map, p) THEN w.overlap \cup {p.pbios}
                                      ELSE w.overlap \ {p.pbios}
        current_type == WinningType(map, overlap)
        size   == p.addr - w.last_addr
        closes == current_type # w.last_type /\ w.last_type # 0 /\ size # 0
        new    == IF closes
                  THEN Append(w.new, [addr |-> w.last_addr, size |-> size, type |-> w.last_type])
                  ELSE w.new
        full   == closes /\ Len(new) >= max_nr_map
    IN IF w.full THEN w
       ELSE [overlap   |-> overlap,
             new       |-> new,
             full      |-> full,
             last_type |-> IF full THEN w.last_type ELSE current_type,
             last_addr |-> IF ~full /\ current_type \notin {w.last_type, 0}
                           THEN p.addr ELSE w.last_addr]

Sweep(map, points) ==
    LET start == [overlap |-> {}, new |-> <<>>, full |-> FALSE, last_type |-> 0, last_addr |-> 0]
        w[chgidx \in 0 .. Len(points)] ==
            IF chgidx = 0 THEN start ELSE SweepPoint(map, E820MAX, w[chgidx - 1], points[chgidx])
    IN w[Len(points)].new

(* sanitize_e820_map gives up on a map of one entry or of too many.  The   *)
(* test for entries that wrap around 2^64 never fails: addresses here are  *)
(* below that.                                                             *)
sanitize_e820_map(map) ==
    IF Len(map) < 2 \/ Len(map) > E820MAX THEN map
    ELSE Sweep(map, SortPoints(map, ChangePoints(map)))

(* memblock_x86_fill: fails when the memory array is full. *)
memblock_x86_fill(map, memory) ==
    LET Step(m, e) == IF ~m.ok \/ e.type \notin {E820_RAM, E820_RESERVED_KERN} THEN m
                      ELSE memblock_add_region(m.regions, e.addr, e.size)
        fill[i \in 0 .. Len(map)] == IF i = 0 THEN [ok |-> TRUE, regions |-> memory]
                                     ELSE Step(fill[i - 1], map[i])
    IN fill[Len(map)]

(* e820_end_pfn: it stops at the first entry that reaches beyond the limit. *)
e820_end_pfn(map, limit_pfn, type) ==
    LET Step(w, e) ==
            LET end_pfn == PFN_DOWN(LastAddr(e))
            IN IF w.stop \/ e.type # type \/ PFN_DOWN(e.addr) >= limit_pfn THEN w
               ELSE IF end_pfn > limit_pfn THEN [stop |-> TRUE, last_pfn |-> limit_pfn]
               ELSE [w EXCEPT !.last_pfn = MostOf(@, end_pfn)]
        end[i \in 0 .. Len(map)] == IF i = 0 THEN [stop |-> FALSE, last_pfn |-> 0]
                                    ELSE Step(end[i - 1], map[i])
    IN LeastOf(end[Len(map)].last_pfn, MAX_ARCH_PFN)

e820_end_of_ram_pfn(map) == e820_end_pfn(map, MAX_ARCH_PFN, E820_RAM)

(* What the map means: the type of the memory at an address, 0 for none.   *)
(* The reference sanitize_e820_map is checked against.                     *)
TypeAt(map, a) ==
    Max({0} \cup {map[i].type : i \in {j \in DOMAIN map :
                                          map[j].addr <= a /\ a < LastAddr(map[j])}})
=============================================================================
