-------------------------- MODULE PageAllocProofs --------------------------
(***************************************************************************)
(* Proofs about PageAlloc for every memory size, zone layout, MAX_ORDER    *)
(* and set of boot ranges that satisfy its assumptions.                    *)
(*                                                                         *)
(* The core is IInv: the blocks of Placed are apart from each other and    *)
(* inside their zones, free lists and PageBuddy agree, and the per-cpu     *)
(* list holds at most the one page the operation in progress put there.    *)
(***************************************************************************)
EXTENDS PageAlloc, TLAPS

(* Two blocks, written as members of Placed, share no page. *)
Apart(x, y) == x[2] + Size[x[3]] <= y[2] \/ y[2] + Size[y[3]] <= x[2]
Separate(S) == \A x, y \in S : x # y => Apart(x, y)

BootPages == UNION {Span(b) : b \in BootBlocks}

(* A block lies in one zone and in the memory released at boot. *)
Inside(x) ==
    /\ x[2] \in Pages
    /\ x[3] \in Orders
    /\ x[2] + Size[x[3]] <= ZoneEnd[page_zone(x[2])]
    /\ \A q \in Pages : x[2] <= q /\ q < x[2] + Size[x[3]] => q \in BootPages

Kinds == {"boot", "free", "pcp", "owned", "lost", "op"}
Sound(S) ==
    /\ S \subseteq Kinds \X Pages \X Orders
    /\ Separate(S)
    /\ \A x \in S : Inside(x)

(* What the program counter says of the rest of op and of the boot queue. *)
Control ==
    /\ op.page # NoPage <=> op.pc \in {"merge", "expand"}
    /\ op.pc # "idle" => op.zone \in Zones
    /\ op.pc \in {"merge", "expand"} => page_zone(op.page) = op.zone
    /\ op.pc = "drain" => op.cur = 0
    /\ op.pc = "expand" => op.order <= op.cur
    /\ op.pc \in {"scan", "rmqueue", "expand", "full"} => bootq = {}

(* boot_pageset holds at most one page, only while an operation is moving it, and *)
(* that page is of the operation's zone.                                          *)
PcpBrief ==
    /\ pcp.high = 0 /\ pcp.batch = 1
    /\ pcp.count = IF pcp.pages = {} THEN 0 ELSE 1
    /\ \A d, e \in pcp.pages : d = e
    /\ \A e \in pcp.pages :
          /\ op.pc \in {"drain", "rmqueue"}
          /\ page_zone(e.page) = op.zone
          /\ op.pc = "rmqueue" => op.order = 0 /\ e.type = op.mt

(* The inductive invariant: through the steps of every operation the blocks stay  *)
(* sound, the free lists agree with PageBuddy and the per-cpu list stays brief.   *)
IInv == TypeOK /\ Sound(Placed) /\ WellFiled /\ Control /\ PcpBrief

-----------------------------------------------------------------------------
(* Sizes are positive and double from one order to the next. *)
LEMMA SizeFacts ==
    /\ \A o \in Orders : Size[o] \in Nat \ {0} /\ Size[o+1] = 2 * Size[o]
    /\ Size[0] = 1 /\ 0 \in Orders
    /\ Orders \subseteq Nat
  BY GeometryAssumption DEF Orders

(* What the name of a free list says. *)
Names(l, z, o) == l # NoList /\ l[1] = z /\ l[2] = o

(* The lists of a zone and an order have names that say so. *)
LEMMA ListParts ==
    \A z \in Zones : \A o \in Orders : \A t \in MigrateTypes : Names(<<z, o, t>>, z, o)
<1> SUFFICES ASSUME NEW z \in Zones, NEW o \in Orders, NEW t \in MigrateTypes
             PROVE  Names(<<z, o, t>>, z, o)
  OBVIOUS
<1>1. <<z, o, t>> \in FreeLists
  BY DEF FreeLists
<1> QED BY <1>1, ZoneAssumption DEF Names

(* A counter of a zone stays an integer. *)
LEMMA CounterTyped ==
    ASSUME NEW f \in [Zones -> Int], NEW z, NEW n \in Int
    PROVE  [f EXCEPT ![z] = n] \in [Zones -> Int]
  OBVIOUS

(* page_zone finds the one zone a page lies in. *)
LEMMA ZoneOfPage ==
    /\ \A p \in Pages : /\ p \in Nat
                        /\ page_zone(p) \in Zones
                        /\ ZoneStart[page_zone(p)] <= p
                        /\ p < ZoneEnd[page_zone(p)]
    /\ \A z \in Zones : \A p \in Nat :
          ZoneStart[z] <= p /\ p < ZoneEnd[z] => p \in Pages /\ page_zone(p) = z
<1>0. Zones \subseteq Nat
  BY ZoneAssumption DEF MAX_NR_ZONES
<1>1. ASSUME NEW p \in Pages
      PROVE /\ p \in Nat
            /\ \E z \in Zones : ZoneStart[z] <= p /\ p < ZoneEnd[z]
  <2>1. PICK z \in Zones : p \in ZoneStart[z] .. ZoneEnd[z] - 1
    BY <1>1 DEF Pages
  <2> QED BY <2>1, ZoneAssumption
<1>2. ASSUME NEW p \in Pages
      PROVE /\ page_zone(p) \in Zones
            /\ ZoneStart[page_zone(p)] <= p
            /\ p < ZoneEnd[page_zone(p)]
  BY <1>1, Zenon DEF page_zone
<1>3. ASSUME NEW z \in Zones, NEW p \in Nat, ZoneStart[z] <= p, p < ZoneEnd[z]
      PROVE p \in Pages /\ page_zone(p) = z
  <2>1. p \in ZoneStart[z] .. ZoneEnd[z] - 1
    BY <1>3, ZoneAssumption
  <2>2. p \in Pages
    BY <2>1 DEF Pages
  <2>3. /\ page_zone(p) \in Zones
        /\ ZoneStart[page_zone(p)] <= p
        /\ p < ZoneEnd[page_zone(p)]
    BY <1>2, <2>2
  <2>4. ASSUME NEW y \in Zones, ZoneStart[y] <= p, p < ZoneEnd[y]
        PROVE y = z
    <3>1. /\ y \in Nat /\ z \in Nat
          /\ ZoneStart[y] \in Nat /\ ZoneEnd[y] \in Nat
          /\ ZoneStart[z] \in Nat /\ ZoneEnd[z] \in Nat
      BY <1>0, ZoneAssumption
    <3>2. /\ y < z => ZoneEnd[y] <= ZoneStart[z]
          /\ z < y => ZoneEnd[z] <= ZoneStart[y]
      BY ZoneAssumption
    <3> QED BY <1>3, <2>4, <3>1, <3>2
  <2> QED BY <2>2, <2>3, <2>4
<1> QED BY <1>1, <1>2, <1>3

LEMMA PageIsSome == \A p \in Pages : p # NoPage
  BY ZoneOfPage DEF NoPage

-----------------------------------------------------------------------------
(* What may happen to a sound set of blocks.  Dropping blocks keeps it sound. *)
LEMMA SoundSubset ==
    ASSUME NEW S, NEW T, Sound(S), T \subseteq S
    PROVE  Sound(T)
  BY DEF Sound, Separate

(* So does giving a block to another holder. *)
LEMMA SoundMove ==
    ASSUME NEW S, NEW T, Sound(S), NEW r \in S, NEW k \in Kinds,
           T \subseteq (S \ {r}) \cup {<<k, r[2], r[3]>>}
    PROVE  Sound(T)
<1> DEFINE n == <<k, r[2], r[3]>>
<1>1. n \in Kinds \X Pages \X Orders /\ n[2] = r[2] /\ n[3] = r[3]
  BY DEF Sound
<1>2. Inside(n)
  BY <1>1 DEF Sound, Inside
<1>3. ASSUME NEW x \in S \ {r}
      PROVE Apart(x, n) /\ Apart(n, x)
  BY <1>1 DEF Sound, Separate, Apart
<1> HIDE DEF n
<1>4. T \subseteq (S \ {r}) \cup {n}
  BY DEF n
<1>5. Separate(T)
  BY <1>3, <1>4 DEF Separate, Sound
<1> QED BY <1>1, <1>2, <1>4, <1>5 DEF Sound

(* The same for a block that is given by its parts. *)
LEMMA SoundHandOver ==
    ASSUME NEW S, NEW T, Sound(S), NEW h, NEW p, NEW o, <<h, p, o>> \in S, NEW k \in Kinds,
           T \subseteq (S \ {<<h, p, o>>}) \cup {<<k, p, o>>}
    PROVE  Sound(T)
<1> DEFINE r == <<h, p, o>>
<1>1. r \in S /\ r[2] = p /\ r[3] = o
  OBVIOUS
<1>2. T \subseteq (S \ {r}) \cup {<<k, p, o>>}
  OBVIOUS
<1> HIDE DEF r
<1> QED BY Zenon, <1>1, <1>2, SoundMove

(* So does merging a block with the one that follows it in the same zone. *)
LEMMA SoundMerge ==
    ASSUME NEW S, NEW T, Sound(S), NEW r \in S, NEW s \in S, NEW k \in Kinds,
           s[3] = r[3], r[3] + 1 \in Orders, s[2] = r[2] + Size[r[3]],
           page_zone(s[2]) = page_zone(r[2]),
           T \subseteq (S \ {r, s}) \cup {<<k, r[2], r[3] + 1>>}
    PROVE  Sound(T)
<1> DEFINE n == <<k, r[2], r[3] + 1>>
<1>1. n \in Kinds \X Pages \X Orders /\ n[2] = r[2] /\ n[3] = r[3] + 1
  BY DEF Sound
<1>2. /\ r[2] \in Nat /\ r[3] \in Orders /\ Size[r[3]] \in Nat
      /\ Size[n[3]] = 2 * Size[r[3]]
  BY Zenon, <1>1, SizeFacts, ZoneOfPage DEF Sound, Inside
<1>3. Inside(n)
  <2>1. n[2] + Size[n[3]] = s[2] + Size[s[3]]
    BY <1>1, <1>2
  <2>2. ASSUME NEW q \in Pages, n[2] <= q, q < n[2] + Size[n[3]]
        PROVE q \in BootPages
    <3>1. q \in Nat
      BY ZoneOfPage
    <3>2. CASE q < s[2]
      BY <1>1, <1>2, <2>2, <3>1, <3>2 DEF Sound, Inside
    <3>3. CASE s[2] <= q
      BY <1>1, <1>2, <2>1, <2>2, <3>1, <3>3 DEF Sound, Inside
    <3> QED BY <1>1, <1>2, <3>1, <3>2, <3>3
  <2>3. n[2] + Size[n[3]] <= ZoneEnd[page_zone(n[2])]
    BY <1>1, <2>1 DEF Sound, Inside
  <2> QED BY <1>1, <2>2, <2>3 DEF Inside
<1>4. ASSUME NEW x \in S \ {r, s}
      PROVE Apart(x, n) /\ Apart(n, x)
  <2>1. Apart(x, r) /\ Apart(x, s)
    BY DEF Sound, Separate
  <2>2. x[2] \in Nat /\ Size[x[3]] \in Nat \ {0}
    BY Zenon, SizeFacts, ZoneOfPage DEF Sound, Inside
  <2> QED BY <1>1, <1>2, <2>1, <2>2 DEF Apart
<1> HIDE DEF n
<1>5. T \subseteq (S \ {r, s}) \cup {n}
  BY DEF n
<1>6. Separate(T)
  BY <1>4, <1>5 DEF Separate, Sound
<1> QED BY <1>1, <1>3, <1>5, <1>6 DEF Sound

(* So does splitting a block into its halves. *)
LEMMA SoundSplit ==
    ASSUME NEW S, NEW T, Sound(S), NEW r \in S, NEW k \in Kinds, NEW l \in Kinds,
           NEW h \in Orders, r[3] = h + 1,
           T \subseteq (S \ {r}) \cup {<<k, r[2], h>>, <<l, r[2] + Size[h], h>>}
    PROVE  Sound(T)
<1> DEFINE n == <<k, r[2], h>>
           m == <<l, r[2] + Size[h], h>>
<1>1. /\ r[2] \in Nat /\ r[2] \in Pages /\ r[3] \in Orders
      /\ Size[h] \in Nat \ {0} /\ Size[r[3]] = 2 * Size[h]
      /\ r[2] + Size[r[3]] <= ZoneEnd[page_zone(r[2])]
  BY SizeFacts, ZoneOfPage DEF Sound, Inside
<1>2. /\ r[2] + Size[h] \in Pages
      /\ page_zone(r[2] + Size[h]) = page_zone(r[2])
  <2>1. /\ page_zone(r[2]) \in Zones
        /\ ZoneStart[page_zone(r[2])] \in Nat /\ ZoneEnd[page_zone(r[2])] \in Nat
        /\ ZoneStart[page_zone(r[2])] <= r[2]
    BY Zenon, <1>1, ZoneOfPage, ZoneAssumption
  <2>2. /\ r[2] + Size[h] \in Nat
        /\ ZoneStart[page_zone(r[2])] <= r[2] + Size[h]
        /\ r[2] + Size[h] < ZoneEnd[page_zone(r[2])]
    BY <1>1, <2>1
  <2> QED BY <2>1, <2>2, ZoneOfPage
<1>3. /\ n \in Kinds \X Pages \X Orders /\ n[2] = r[2] /\ n[3] = h
      /\ m \in Kinds \X Pages \X Orders /\ m[2] = r[2] + Size[h] /\ m[3] = h
  BY <1>1, <1>2
<1>4. ZoneEnd[page_zone(r[2])] \in Nat
  BY Zenon, <1>1, ZoneOfPage, ZoneAssumption
<1>5. \A q \in Pages : r[2] <= q /\ q < r[2] + Size[r[3]] => q \in BootPages
  BY DEF Sound, Inside
<1>6. Inside(n) /\ Inside(m)
  <2>1. Inside(n)
    <3>1. n[2] + Size[n[3]] <= ZoneEnd[page_zone(n[2])]
      BY <1>1, <1>3, <1>4
    <3>2. \A q \in Pages : n[2] <= q /\ q < n[2] + Size[n[3]] => q \in BootPages
      BY <1>1, <1>3, <1>5, ZoneOfPage
    <3> QED BY <1>3, <3>1, <3>2 DEF Inside
  <2>2. Inside(m)
    <3>1. m[2] + Size[m[3]] <= ZoneEnd[page_zone(m[2])]
      BY <1>1, <1>2, <1>3, <1>4
    <3>2. \A q \in Pages : m[2] <= q /\ q < m[2] + Size[m[3]] => q \in BootPages
      BY <1>1, <1>3, <1>5, ZoneOfPage
    <3> QED BY <1>3, <3>1, <3>2 DEF Inside
  <2> QED BY <2>1, <2>2
<1>7. ASSUME NEW x \in S \ {r}
      PROVE Apart(x, n) /\ Apart(n, x) /\ Apart(x, m) /\ Apart(m, x)
  <2>1. Apart(x, r)
    BY DEF Sound, Separate
  <2>2. x[2] \in Nat /\ Size[x[3]] \in Nat \ {0}
    BY SizeFacts, ZoneOfPage DEF Sound, Inside
  <2> QED BY <1>1, <1>3, <2>1, <2>2 DEF Apart
<1>8. Apart(n, m) /\ Apart(m, n)
  BY <1>1, <1>3 DEF Apart
<1> HIDE DEF n, m
<1>9. T \subseteq (S \ {r}) \cup {n, m}
  BY DEF n, m
<1>10. Separate(T)
  BY <1>7, <1>8, <1>9 DEF Separate, Sound
<1> QED BY <1>3, <1>6, <1>9, <1>10 DEF Sound

-----------------------------------------------------------------------------
(* The members of Placed, holder by holder. *)
BootPart == {<<"boot", b[1], b[2]>> : b \in bootq}
FreePart == {<<"free", p, buddy[p]>> : p \in {q \in Pages : buddy[q] # -1}}
PcpPart == {<<"pcp", e.page, 0>> : e \in pcp.pages}
OwnedPart == {<<"owned", b[1], b[2]>> : b \in owned}
LostPart == {<<"lost", b[1], b[2]>> : b \in lost}

LEMMA PlacedParts ==
    Placed = BootPart \cup FreePart \cup PcpPart \cup OwnedPart \cup LostPart \cup InFlight
  BY DEF Placed, BootPart, FreePart, PcpPart, OwnedPart, LostPart

(* The free blocks after one page changes its buddy state. *)
LEMMA FreePartChange ==
    ASSUME buddy \in [Pages -> Orders \cup {-1}], NEW p \in Pages,
           NEW o \in Orders \cup {-1}, buddy' = [buddy EXCEPT ![p] = o]
    PROVE  /\ o = -1 => FreePart' \subseteq FreePart \ {<<"free", p, buddy[p]>>}
           /\ buddy[p] = -1 => FreePart' \subseteq FreePart \cup {<<"free", p, o>>}
<1>1. ASSUME o = -1, NEW x \in FreePart'
      PROVE x \in FreePart \ {<<"free", p, buddy[p]>>}
  <2>1. PICK q \in Pages : buddy'[q] # -1 /\ x = <<"free", q, buddy'[q]>>
    BY <1>1 DEF FreePart
  <2>2. q # p /\ buddy'[q] = buddy[q]
    BY <1>1, <2>1
  <2> QED BY <2>1, <2>2 DEF FreePart
<1>2. ASSUME buddy[p] = -1, NEW x \in FreePart'
      PROVE x \in FreePart \cup {<<"free", p, o>>}
  <2>1. PICK q \in Pages : buddy'[q] # -1 /\ x = <<"free", q, buddy'[q]>>
    BY <1>2 DEF FreePart
  <2>2. CASE q = p
    BY <2>1, <2>2
  <2>3. CASE q # p
    BY <2>1, <2>3 DEF FreePart
  <2> QED BY <2>2, <2>3
<1> QED BY <1>1, <1>2

(* Records of the right shape. *)
LEMMA IdleTyped == Idle \in Operations
  BY SizeFacts DEF Idle, Operations, Steps, NoPage, PcpTypes, MIGRATE_PCPTYPES, MigrateTypes

LEMMA OperationTyped ==
    ASSUME NEW r \in Operations, NEW pc \in Steps, NEW z \in Zones \cup {-1}, NEW o \in Orders
    PROVE  [r EXCEPT !.pc = pc, !.zone = z, !.order = o] \in Operations
  BY Zenon DEF Operations

LEMMA OperationTypedInHand ==
    ASSUME NEW r \in Operations, NEW pc \in Steps, NEW z \in Zones \cup {-1}, NEW o \in Orders,
           NEW p \in Pages \cup {NoPage}, NEW c \in Orders, NEW l \in MigrateTypes
    PROVE  [r EXCEPT !.pc = pc, !.zone = z, !.order = o,
                     !.page = p, !.cur = c, !.list = l] \in Operations
  BY Zenon DEF Operations

LEMMA PagesetTyped ==
    ASSUME NEW r \in Pagesets, NEW n \in Int, NEW E \in SUBSET Entries
    PROVE  [r EXCEPT !.count = n, !.pages = E] \in Pagesets
  BY Zenon DEF Pagesets

LEMMA InitIInv == Init => IInv
<1> SUFFICES ASSUME Init PROVE IInv
  OBVIOUS
<1> USE DEF Init
<1>1. TypeOK
  <2>1. blocktype \in [PageBlocks -> MigrateTypes]
    BY DEF InitialType, MigrateTypes, MIGRATE_MOVABLE, MIGRATE_UNMOVABLE
  <2>2. bootq \subseteq Blocks
    BY BootAssumption
  <2>3. op \in Operations
    BY IdleTyped
  <2>4. pcp \in Pagesets
    BY DEF setup_pageset, Pagesets
  <2> QED BY <2>1, <2>2, <2>3, <2>4 DEF TypeOK
<1>2. Sound(Placed)
  <2>1. Placed = BootPart
    BY PlacedParts DEF FreePart, PcpPart, OwnedPart, LostPart, InFlight, Idle, NoPage, setup_pageset
  <2>2. ASSUME NEW x \in BootPart
        PROVE  \E b \in BootBlocks :
                  x = <<"boot", b[1], b[2]>> /\ b \in Pages \X Orders
    BY BootAssumption DEF BootPart, Blocks
  <2>3. ASSUME NEW x \in BootPart PROVE x \in Kinds \X Pages \X Orders /\ Inside(x)
    <3>1. PICK b \in BootBlocks : x = <<"boot", b[1], b[2]>> /\ b \in Pages \X Orders
      BY <2>2
    <3>2. b[1] \in Nat /\ Size[b[2]] \in Nat \ {0}
      BY Zenon, <3>1, SizeFacts, ZoneOfPage
    <3>3. b[1] + Size[b[2]] <= ZoneEnd[page_zone(b[1])]
      <4>1. b[1] + Size[b[2]] - 1 \in Span(b)
        BY <3>2 DEF Span
      <4>2. page_zone(b[1] + Size[b[2]] - 1) = page_zone(b[1]) /\ b[1] + Size[b[2]] - 1 \in Pages
        BY <4>1, BootAssumption
      <4>3. /\ b[1] + Size[b[2]] - 1 < ZoneEnd[page_zone(b[1])]
            /\ ZoneEnd[page_zone(b[1])] \in Nat
        BY Zenon, <4>2, <3>1, ZoneOfPage, ZoneAssumption
      <4> QED BY <4>3, <3>2
    <3>4. ASSUME NEW q \in Pages, b[1] <= q, q < b[1] + Size[b[2]]
          PROVE q \in BootPages
      <4>1. q \in Span(b)
        BY <3>2, <3>4, ZoneOfPage DEF Span
      <4> QED BY <4>1 DEF BootPages
    <3> QED BY <3>1, <3>3, <3>4 DEF Inside, Kinds
  <2>4. Separate(BootPart)
    <3> SUFFICES ASSUME NEW x \in BootPart, NEW y \in BootPart, x # y PROVE Apart(x, y)
      BY DEF Separate
    <3>1. PICK b \in BootBlocks : x = <<"boot", b[1], b[2]>> /\ b \in Pages \X Orders
      BY <2>2
    <3>2. PICK c \in BootBlocks : y = <<"boot", c[1], c[2]>> /\ c \in Pages \X Orders
      BY <2>2
    <3> QED BY <3>1, <3>2, BootAssumption DEF Apart
  <2> QED BY <2>1, <2>3, <2>4 DEF Sound
<1>3. WellFiled
  BY DEF WellFiled
<1>4. Control
  BY DEF Control, Idle, NoPage
<1>5. PcpBrief
  BY DEF PcpBrief, setup_pageset
<1> QED BY <1>1, <1>2, <1>3, <1>4, <1>5 DEF IInv

-----------------------------------------------------------------------------
(* Freeing.  FreeBlock either puts the page on the empty per-cpu list and starts  *)
(* a drain, or takes the block in hand to merge it.                               *)
LEMMA FreeBlockEffect ==
    ASSUME TypeOK, Control, PcpBrief, op.pc = "idle",
           NEW p \in Pages, NEW o \in Orders, FreeBlock(p, o)
    PROVE  \/ /\ o = 0
              /\ op' = [Idle EXCEPT !.pc = "drain", !.zone = page_zone(p), !.order = o]
              /\ \E e \in Entries :
                    e.page = p /\ pcp' = [pcp EXCEPT !.count = 1, !.pages = {e}]
           \/ /\ \E mt \in MigrateTypes :
                    op' = [Idle EXCEPT !.pc = "merge", !.zone = page_zone(p), !.order = o,
                                       !.page = p, !.cur = o, !.list = mt]
              /\ pcp' = pcp
<1> DEFINE mt == get_pageblock_migratetype(p)
           entry == [page |-> p, private |-> mt,
                     type |-> IF mt >= MIGRATE_PCPTYPES THEN MIGRATE_MOVABLE ELSE mt]
<1>1. mt \in MigrateTypes
  BY DEF get_pageblock_migratetype, TypeOK, PageBlocks
<1>2. entry \in Entries /\ entry.page = p
  BY <1>1 DEF Entries, MigrateTypes, PcpTypes, MIGRATE_PCPTYPES, MIGRATE_MOVABLE
<1>3. pcp.pages = {} /\ pcp.count = 0 /\ pcp.high = 0
  BY DEF PcpBrief
<1>4. CASE o = 0 /\ mt # MIGRATE_ISOLATE
  <2>1. pcp' = [pcp EXCEPT !.count = pcp.count + 1, !.pages = pcp.pages \cup {entry}]
    BY <1>4 DEF FreeBlock
  <2>2. pcp' = [pcp EXCEPT !.count = 1, !.pages = {entry}]
    BY <1>3, <2>1
  <2>3. op' = [Idle EXCEPT !.pc = "drain", !.zone = page_zone(p), !.order = o]
    BY <1>3, <1>4 DEF FreeBlock
  <2> QED BY Zenon, <1>2, <1>4, <2>2, <2>3
<1>5. CASE ~(o = 0 /\ mt # MIGRATE_ISOLATE)
  <2>1. op' = [Idle EXCEPT !.pc = "merge", !.zone = page_zone(p), !.order = o,
                           !.page = p, !.cur = o, !.list = mt]
    BY <1>5 DEF FreeBlock, Idle
  <2>2. pcp' = pcp
    BY <1>5 DEF FreeBlock
  <2> QED BY Zenon, <1>1, <2>1, <2>2
<1> QED BY Zenon, <1>4, <1>5

LEMMA FreeBlockKeeps ==
    ASSUME TypeOK, Control, PcpBrief, op.pc = "idle",
           NEW p \in Pages, NEW o \in Orders, FreeBlock(p, o)
    PROVE  /\ op' \in Operations /\ pcp' \in Pagesets /\ Control' /\ PcpBrief'
           /\ PcpPart' \cup InFlight' \subseteq {<<"pcp", p, o>>}
                 \/ PcpPart' \cup InFlight' \subseteq {<<"op", p, o>>}
<1>0. page_zone(p) \in Zones /\ 0 \in Orders /\ p # NoPage
  BY SizeFacts, ZoneOfPage DEF NoPage
<1>a. pcp \in Pagesets /\ pcp.pages = {} /\ pcp.high = 0 /\ pcp.batch = 1
  BY DEF PcpBrief, TypeOK
<1>1. CASE /\ o = 0
           /\ op' = [Idle EXCEPT !.pc = "drain", !.zone = page_zone(p), !.order = o]
           /\ \E e \in Entries :
                 e.page = p /\ pcp' = [pcp EXCEPT !.count = 1, !.pages = {e}]
  <2>1. PICK e \in Entries : e.page = p /\ pcp' = [pcp EXCEPT !.count = 1, !.pages = {e}]
    BY Zenon, <1>1
  <2>a. pcp' = [pcp EXCEPT !.count = 1, !.pages = {e}] /\ {e} \in SUBSET Entries
    BY <2>1
  <2>b. pcp' \in Pagesets
    <3>1. \A n \in Int : [pcp EXCEPT !.count = n, !.pages = {e}] \in Pagesets
      BY Zenon, <1>a, <2>a, PagesetTyped
    <3>2. 1 \in Int
      OBVIOUS
    <3> QED BY <2>a, <3>1, <3>2, Zenon
  <2>2. pcp'.pages = {e} /\ pcp'.count = 1 /\ pcp'.high = 0 /\ pcp'.batch = 1 /\ pcp' \in Pagesets
    BY <1>a, <2>a, <2>b DEF Pagesets
  <2>c. op' = [Idle EXCEPT !.pc = "drain", !.zone = page_zone(p), !.order = o]
    BY <1>1
  <2>d. op' \in Operations
    BY Zenon, <1>0, <2>c, IdleTyped, OperationTyped DEF Steps
  <2>3. /\ op'.pc = "drain" /\ op'.zone = page_zone(p) /\ op'.page = NoPage /\ op'.cur = 0
        /\ op' \in Operations
    BY <2>c, <2>d DEF Idle
  <2>4. Control'
    BY <1>0, <2>3 DEF Control
  <2>5. PcpBrief'
    BY <2>1, <2>2, <2>3 DEF PcpBrief
  <2>6. PcpPart' \cup InFlight' \subseteq {<<"pcp", p, o>>}
    BY <1>1, <2>1, <2>2, <2>3 DEF PcpPart, InFlight
  <2> QED BY <2>2, <2>3, <2>4, <2>5, <2>6
<1>2. CASE /\ \E mt \in MigrateTypes :
                 op' = [Idle EXCEPT !.pc = "merge", !.zone = page_zone(p), !.order = o,
                                    !.page = p, !.cur = o, !.list = mt]
           /\ pcp' = pcp
  <2>a. PICK mt \in MigrateTypes :
           op' = [Idle EXCEPT !.pc = "merge", !.zone = page_zone(p), !.order = o,
                              !.page = p, !.cur = o, !.list = mt]
    BY Zenon, <1>2
  <2>b. op' \in Operations
    BY Zenon, <1>0, <2>a, IdleTyped, OperationTypedInHand DEF Steps
  <2>1. /\ op'.pc = "merge" /\ op'.zone = page_zone(p) /\ op'.page = p /\ op'.cur = o
        /\ op' \in Operations
    BY <2>a, <2>b DEF Idle
  <2>2. Control'
    BY <1>0, <2>1 DEF Control
  <2>3. PcpBrief' /\ pcp' \in Pagesets
    BY <1>2, <1>a DEF PcpBrief
  <2>4. PcpPart' \cup InFlight' \subseteq {<<"op", p, o>>}
    BY <1>2, <1>a, <2>1 DEF PcpPart, InFlight
  <2> QED BY <2>1, <2>2, <2>3, <2>4
<1> QED BY ZenonT(60), <1>1, <1>2, FreeBlockEffect

LEMMA FreePagesBootmemStep == IInv /\ FreePagesBootmem => IInv'
<1> SUFFICES ASSUME IInv, FreePagesBootmem PROVE IInv'
  OBVIOUS
<1> USE DEF IInv
<1>1. PICK b \in bootq :
         /\ bootq' = bootq \ {b}
         /\ count' = [count EXCEPT ![b[1]] = 0]
         /\ FreeBlock(b[1], b[2])
  BY Zenon DEF FreePagesBootmem
<1>2. op.pc = "idle" /\ UNCHANGED <<buddy, lru, nr_free, free_pages, blocktype, owned, lost>>
  BY DEF FreePagesBootmem
<1>3. b = <<b[1], b[2]>> /\ b[1] \in Pages /\ b[2] \in Orders
  BY DEF TypeOK, Blocks
<1>4. /\ op' \in Operations /\ pcp' \in Pagesets /\ Control' /\ PcpBrief'
      /\ PcpPart' \cup InFlight' \subseteq {<<"pcp", b[1], b[2]>>}
            \/ PcpPart' \cup InFlight' \subseteq {<<"op", b[1], b[2]>>}
  BY <1>1, <1>2, <1>3, FreeBlockKeeps
<1>5. TypeOK'
  <2>1. bootq' \subseteq Blocks /\ count' \in [Pages -> Int]
    BY <1>1, <1>3 DEF TypeOK
  <2> QED BY <1>2, <1>4, <2>1 DEF TypeOK
<1>6. Sound(Placed)'
  <2>1. <<"boot", b[1], b[2]>> \in Placed
    BY PlacedParts DEF BootPart
  <2>2. BootPart' \subseteq BootPart \ {<<"boot", b[1], b[2]>>}
    <3> SUFFICES ASSUME NEW x \in BootPart' PROVE x \in BootPart \ {<<"boot", b[1], b[2]>>}
      OBVIOUS
    <3>1. PICK c \in bootq : c # b /\ x = <<"boot", c[1], c[2]>>
      BY <1>1 DEF BootPart
    <3>2. c = <<c[1], c[2]>>
      BY DEF TypeOK, Blocks
    <3> QED BY <1>3, <3>1, <3>2 DEF BootPart
  <2>3. FreePart' = FreePart /\ OwnedPart' = OwnedPart /\ LostPart' = LostPart
    BY <1>2 DEF FreePart, OwnedPart, LostPart
  <2>4. FreePart \cup OwnedPart \cup LostPart \subseteq Placed \ {<<"boot", b[1], b[2]>>}
    BY PlacedParts DEF FreePart, OwnedPart, LostPart
  <2>5. PICK k \in {"pcp", "op"} :
           Placed' \subseteq (Placed \ {<<"boot", b[1], b[2]>>}) \cup {<<k, b[1], b[2]>>}
    <3>1. BootPart \subseteq Placed
      BY PlacedParts
    <3>2. Placed' = BootPart' \cup FreePart' \cup PcpPart' \cup OwnedPart' \cup LostPart' \cup InFlight'
      BY DEF Placed, BootPart, FreePart, PcpPart, OwnedPart, LostPart
    <3> QED BY <1>4, <2>2, <2>3, <2>4, <3>1, <3>2
  <2>6. Sound(Placed')
    <3>1. k \in Kinds
      BY <2>5 DEF Kinds
    <3> QED BY Zenon, <2>1, <2>5, <3>1, SoundHandOver
  <2> QED BY <2>6 DEF Sound, Separate, Apart, Inside
<1>7. WellFiled'
  BY <1>2 DEF WellFiled
<1> QED BY <1>4, <1>5, <1>6, <1>7

LEMMA FreePagesStep == IInv /\ (\E b \in owned : FreePages(b)) => IInv'
<1> SUFFICES ASSUME IInv, NEW b \in owned, FreePages(b) PROVE IInv'
  OBVIOUS
<1> USE DEF IInv
<1>1. /\ owned' = owned \ {b}
      /\ count' = [count EXCEPT ![b[1]] = count[b[1]] - 1]
      /\ FreeBlock(b[1], b[2])
      /\ op.pc = "idle"
      /\ UNCHANGED <<bootq, buddy, lru, nr_free, free_pages, blocktype, lost>>
  BY DEF FreePages
<1>2. b = <<b[1], b[2]>> /\ b[1] \in Pages /\ b[2] \in Orders
  BY DEF TypeOK, Blocks
<1>3. /\ op' \in Operations /\ pcp' \in Pagesets /\ Control' /\ PcpBrief'
      /\ PcpPart' \cup InFlight' \subseteq {<<"pcp", b[1], b[2]>>}
            \/ PcpPart' \cup InFlight' \subseteq {<<"op", b[1], b[2]>>}
  BY <1>1, <1>2, FreeBlockKeeps
<1>4. TypeOK'
  <2>1. owned' \subseteq Blocks /\ count' \in [Pages -> Int]
    BY <1>1, <1>2 DEF TypeOK
  <2> QED BY <1>1, <1>3, <2>1 DEF TypeOK
<1>5. Sound(Placed)'
  <2> DEFINE r == <<"owned", b[1], b[2]>>
  <2>1. r \in Placed
    BY PlacedParts DEF OwnedPart
  <2>2. OwnedPart' \subseteq OwnedPart \ {r}
    <3> SUFFICES ASSUME NEW x \in OwnedPart' PROVE x \in OwnedPart \ {r}
      OBVIOUS
    <3>1. PICK c \in owned : c # b /\ x = <<"owned", c[1], c[2]>>
      BY <1>1 DEF OwnedPart
    <3>2. c = <<c[1], c[2]>>
      BY DEF TypeOK, Blocks
    <3> QED BY <1>2, <3>1, <3>2 DEF OwnedPart
  <2>3. BootPart' = BootPart /\ FreePart' = FreePart /\ LostPart' = LostPart
    BY <1>1 DEF BootPart, FreePart, LostPart
  <2>4. BootPart \cup FreePart \cup LostPart \subseteq Placed \ {r}
    BY PlacedParts DEF BootPart, FreePart, LostPart
  <2>5. PICK k \in {"pcp", "op"} :
           Placed' \subseteq (Placed \ {r}) \cup {<<k, b[1], b[2]>>}
    <3>1. OwnedPart \subseteq Placed
      BY PlacedParts
    <3>2. Placed' = BootPart' \cup FreePart' \cup PcpPart' \cup OwnedPart' \cup LostPart' \cup InFlight'
      BY DEF Placed, BootPart, FreePart, PcpPart, OwnedPart, LostPart
    <3> QED BY <1>3, <2>2, <2>3, <2>4, <3>1, <3>2
  <2>6. Sound(Placed')
    <3>1. k \in Kinds
      BY <2>5 DEF Kinds
    <3> QED BY Zenon, <2>1, <2>5, <3>1, SoundHandOver
  <2> QED BY <2>6 DEF Sound, Separate, Apart, Inside
<1>6. WellFiled'
  BY <1>1 DEF WellFiled
<1> QED BY <1>3, <1>4, <1>5, <1>6

LEMMA FreePcpPagesBulkStep == IInv /\ FreePcpPagesBulk => IInv'
<1> SUFFICES ASSUME IInv, FreePcpPagesBulk PROVE IInv'
  OBVIOUS
<1> USE DEF IInv
<1>1. PICK e \in pcp.pages :
         /\ pcp' = [pcp EXCEPT !.count = pcp.count - pcp.batch, !.pages = pcp.pages \ {e}]
         /\ op' = [op EXCEPT !.pc = "merge", !.page = e.page, !.list = e.private]
  BY Zenon DEF FreePcpPagesBulk
<1>2. /\ op.pc = "drain"
      /\ UNCHANGED <<bootq, buddy, lru, nr_free, free_pages, blocktype, count, owned, lost>>
  BY DEF FreePcpPagesBulk
<1>3. /\ pcp \in Pagesets /\ op \in Operations
      /\ e \in Entries /\ e.page \in Pages /\ e.private \in MigrateTypes
      /\ pcp.pages \ {e} = {} /\ pcp.count = 1 /\ pcp.batch = 1 /\ pcp.high = 0
      /\ e.page # NoPage /\ op.cur = 0 /\ op.zone \in Zones /\ page_zone(e.page) = op.zone
  <2>1. pcp \in Pagesets /\ op \in Operations /\ e \in Entries
    BY DEF TypeOK, Pagesets
  <2>2. e.page \in Pages /\ e.private \in MigrateTypes
    BY <2>1 DEF Entries
  <2>3. pcp.pages \ {e} = {} /\ pcp.count = 1 /\ pcp.batch = 1 /\ pcp.high = 0
    BY DEF PcpBrief
  <2>4. e.page # NoPage
    BY <2>2, ZoneOfPage DEF NoPage
  <2> QED BY <1>2, <2>1, <2>2, <2>3, <2>4 DEF Control, PcpBrief
<1>4. pcp' \in Pagesets /\ op' \in Operations
  <2>1. pcp.count - pcp.batch \in Int /\ pcp.pages \ {e} \in SUBSET Entries
    BY <1>3 DEF Pagesets
  <2>2. pcp' \in Pagesets
    BY Zenon, <1>1, <1>3, <2>1 DEF Pagesets
  <2>3. op' \in Operations
    BY Zenon, <1>1, <1>3 DEF Operations, Steps
  <2> QED BY <2>2, <2>3
<1>5. /\ pcp'.pages = {} /\ pcp'.count = 0 /\ pcp'.batch = 1 /\ pcp'.high = 0
      /\ op'.pc = "merge" /\ op'.page = e.page /\ op'.zone = op.zone /\ op'.cur = 0
  BY <1>1, <1>3 DEF Pagesets, Operations
<1>6. TypeOK'
  BY <1>2, <1>4 DEF TypeOK
<1>7. Sound(Placed)'
  <2> DEFINE r == <<"pcp", e.page, 0>>
  <2>1. r \in Placed
    BY PlacedParts DEF PcpPart
  <2>2. PcpPart' = {} /\ InFlight' = {<<"op", e.page, 0>>}
    BY <1>3, <1>5 DEF PcpPart, InFlight
  <2>3. BootPart' = BootPart /\ FreePart' = FreePart /\ OwnedPart' = OwnedPart /\ LostPart' = LostPart
    BY <1>2 DEF BootPart, FreePart, OwnedPart, LostPart
  <2>4. BootPart \cup FreePart \cup OwnedPart \cup LostPart \subseteq Placed \ {r}
    <3>1. r \notin BootPart \cup FreePart \cup OwnedPart \cup LostPart
      BY DEF BootPart, FreePart, OwnedPart, LostPart
    <3> HIDE DEF r
    <3> QED BY <3>1, PlacedParts
  <2>5. Placed' \subseteq (Placed \ {r}) \cup {<<"op", e.page, 0>>}
    <3>1. Placed' = BootPart' \cup FreePart' \cup PcpPart' \cup OwnedPart' \cup LostPart' \cup InFlight'
      BY DEF Placed, BootPart, FreePart, PcpPart, OwnedPart, LostPart
    <3> QED BY <2>2, <2>3, <2>4, <3>1
  <2>6. Sound(Placed')
    <3>1. "op" \in Kinds
      BY DEF Kinds
    <3> QED BY Zenon, <2>1, <2>5, <3>1, SoundHandOver
  <2> QED BY <2>6 DEF Sound, Separate, Apart, Inside
<1>8. WellFiled'
  BY <1>2 DEF WellFiled
<1>9. Control' /\ PcpBrief'
  BY <1>3, <1>5 DEF Control, PcpBrief
<1> QED BY <1>6, <1>7, <1>8, <1>9

(* No page of a block that is not free is PageBuddy. *)
LEMMA HeldNotBuddy ==
    ASSUME TypeOK, Sound(Placed), NEW x \in Placed, x[1] # "free",
           NEW q \in Pages, x[2] <= q, q < x[2] + Size[x[3]]
    PROVE  buddy[q] = -1
<1> SUFFICES ASSUME buddy[q] # -1 PROVE FALSE
  OBVIOUS
<1> DEFINE y == <<"free", q, buddy[q]>>
<1>1. y \in Placed /\ y[1] = "free" /\ y[2] = q /\ y[3] = buddy[q]
  BY PlacedParts DEF FreePart
<1>2. Apart(x, y)
  BY <1>1 DEF Sound, Separate
<1>3. /\ x[2] \in Nat /\ Size[x[3]] \in Nat /\ q \in Nat
      /\ buddy[q] \in Orders /\ Size[buddy[q]] \in Nat \ {0}
  BY Zenon, SizeFacts, ZoneOfPage DEF Sound, Inside, TypeOK
<1> QED BY <1>1, <1>2, <1>3 DEF Apart

(* The block in hand and its buddy are two placed blocks side by side. *)
LEMMA BuddyAdjacent ==
    ASSUME IInv, op.pc = "merge", Mergeable
    PROVE  LET b == __find_buddy_index(op.page, op.cur) IN
           /\ b \in Pages /\ buddy[b] = op.cur /\ page_zone(b) = page_zone(op.page)
           /\ op.page \in Pages /\ op.cur + 1 \in Orders
           /\ <<"op", op.page, op.cur>> \in Placed /\ <<"free", b, op.cur>> \in Placed
           /\ (b = op.page + Size[op.cur] /\ ~(b < op.page))
                 \/ (op.page = b + Size[op.cur] /\ b < op.page)
<1> DEFINE b == __find_buddy_index(op.page, op.cur)
<1>1. b \in Pages /\ page_zone(b) = page_zone(op.page) /\ buddy[b] = op.cur
  BY DEF Mergeable, page_is_buddy
<1>2. op.page # NoPage /\ op.page \in Pages /\ op.cur \in Orders
  BY DEF IInv, Control, TypeOK, Operations
<1>3. op.page \in Nat /\ Size[op.cur] \in Nat \ {0} /\ b \in Nat
  BY <1>1, <1>2, SizeFacts, ZoneOfPage
<1>4. b = op.page + Size[op.cur] \/ b = op.page - Size[op.cur]
  BY DEF __find_buddy_index
<1>5. op.cur + 1 \in Orders
  <2>1. op.cur < MAX_ORDER - 1
    BY DEF Mergeable
  <2>2. MAX_ORDER \in Nat /\ op.cur \in 0 .. MAX_ORDER - 1
    BY <1>2, GeometryAssumption DEF Orders
  <2>3. op.cur + 1 \in 0 .. MAX_ORDER - 1
    BY <2>1, <2>2
  <2> QED BY <2>3 DEF Orders
<1>6. <<"op", op.page, op.cur>> \in Placed
  BY <1>2, PlacedParts DEF InFlight
<1>7. <<"free", b, op.cur>> \in Placed
  <2>1. op.cur # -1
    BY <1>2 DEF Orders
  <2>2. <<"free", b, op.cur>> \in FreePart
    BY <1>1, <2>1 DEF FreePart
  <2> QED BY <2>2, PlacedParts
<1>8. (b = op.page + Size[op.cur] /\ ~(b < op.page)) \/ (op.page = b + Size[op.cur] /\ b < op.page)
  BY <1>3, <1>4
<1> QED BY <1>1, <1>2, <1>5, <1>6, <1>7, <1>8

LEMMA MergeBuddyStep == IInv /\ MergeBuddy => IInv'
<1> SUFFICES ASSUME IInv, MergeBuddy PROVE IInv'
  OBVIOUS
<1> USE DEF IInv
<1> DEFINE b == __find_buddy_index(op.page, op.cur)
           low == IF b < op.page THEN b ELSE op.page
<1>1. /\ op.pc = "merge" /\ Mergeable
      /\ lru' = [lru EXCEPT ![b] = NoList]
      /\ buddy' = [buddy EXCEPT ![b] = -1]
      /\ nr_free' = [nr_free EXCEPT ![<<op.zone, op.cur>>] = nr_free[<<op.zone, op.cur>>] - 1]
      /\ op' = [op EXCEPT !.page = low, !.cur = op.cur + 1]
      /\ UNCHANGED <<bootq, free_pages, blocktype, pcp, count, owned, lost>>
  BY DEF MergeBuddy
<1>2. /\ b \in Pages /\ buddy[b] = op.cur /\ page_zone(b) = page_zone(op.page)
      /\ op.page \in Pages /\ op.cur + 1 \in Orders
      /\ <<"op", op.page, op.cur>> \in Placed /\ <<"free", b, op.cur>> \in Placed
      /\ (b = op.page + Size[op.cur] /\ ~(b < op.page))
            \/ (op.page = b + Size[op.cur] /\ b < op.page)
  BY <1>1, BuddyAdjacent
<1>3. low \in Pages /\ page_zone(low) = page_zone(op.page) /\ low # NoPage
  BY <1>2, ZoneOfPage DEF NoPage
<1> HIDE DEF low, b
<1>4. /\ op \in Operations /\ op' \in Operations
      /\ op'.pc = "merge" /\ op'.page = low /\ op'.cur = op.cur + 1 /\ op'.zone = op.zone
  <2> DEFINE next == op.cur + 1
  <2>1. next \in Orders /\ op' = [op EXCEPT !.page = low, !.cur = next]
    BY <1>1, <1>2
  <2> HIDE DEF next
  <2>2. op \in Operations
    BY DEF TypeOK
  <2>3. /\ op' \in Operations
        /\ op'.pc = "merge" /\ op'.page = low /\ op'.cur = next /\ op'.zone = op.zone
    BY Zenon, <1>1, <1>3, <2>1, <2>2 DEF Operations
  <2> QED BY <2>2, <2>3 DEF next
<1>5. TypeOK'
  <2>1. op.zone \in Zones /\ op.cur \in Orders
    BY <1>1, <1>4 DEF Control, Operations
  <2>2. lru' \in [Pages -> FreeLists \cup {NoList}] /\ buddy' \in [Pages -> Orders \cup {-1}]
    BY <1>1, <1>2 DEF TypeOK
  <2>3. nr_free' \in [Zones \X Orders -> Int]
    BY <1>1, <2>1 DEF TypeOK
  <2> QED BY <1>1, <1>4, <2>2, <2>3 DEF TypeOK
<1>6. Sound(Placed)'
  <2> DEFINE r == <<"op", op.page, op.cur>>
             s == <<"free", b, op.cur>>
  <2>1. FreePart' \subseteq FreePart \ {s}
    BY Zenon, <1>1, <1>2, FreePartChange DEF TypeOK
  <2>2. /\ BootPart' = BootPart /\ PcpPart' = PcpPart
        /\ OwnedPart' = OwnedPart /\ LostPart' = LostPart
    BY <1>1 DEF BootPart, PcpPart, OwnedPart, LostPart
  <2>3. InFlight' = {<<"op", low, op.cur + 1>>}
    BY <1>3, <1>4 DEF InFlight
  <2>4. /\ BootPart \cup PcpPart \cup OwnedPart \cup LostPart \subseteq Placed \ {r, s}
        /\ FreePart \subseteq Placed \ {r}
    BY PlacedParts DEF BootPart, PcpPart, OwnedPart, LostPart, FreePart
  <2>5. Placed' \subseteq (Placed \ {r, s}) \cup {<<"op", low, op.cur + 1>>}
    <3>1. Placed' = BootPart' \cup FreePart' \cup PcpPart' \cup OwnedPart' \cup LostPart' \cup InFlight'
      BY DEF Placed, BootPart, FreePart, PcpPart, OwnedPart, LostPart
    <3> QED BY <2>1, <2>2, <2>3, <2>4, <3>1
  <2>6. Sound(Placed')
    <3> HIDE DEF r, s
    <3>1. /\ r \in Placed /\ r[2] = op.page /\ r[3] = op.cur
          /\ s \in Placed /\ s[2] = b /\ s[3] = op.cur /\ "op" \in Kinds
      BY <1>2 DEF r, s, Kinds
    <3>2. CASE b = op.page + Size[op.cur] /\ ~(b < op.page)
      <4>1. low = op.page
        BY <3>2 DEF low
      <4> QED BY <1>2, <2>5, <3>1, <3>2, <4>1, SoundMerge
    <3>3. CASE op.page = b + Size[op.cur] /\ b < op.page
      <4>1. low = b /\ {r, s} = {s, r}
        BY <3>3 DEF low
      <4>2. Placed' \subseteq (Placed \ {s, r}) \cup {<<"op", s[2], s[3] + 1>>}
        BY <2>5, <3>1, <4>1
      <4> QED BY <1>2, <3>1, <3>3, <4>2, SoundMerge
    <3> QED BY <1>2, <3>2, <3>3
  <2> QED BY <2>6 DEF Sound, Separate, Apart, Inside
<1>7. WellFiled'
  BY <1>1, <1>2 DEF WellFiled, TypeOK
<1>8. Control'
  BY <1>1, <1>3, <1>4 DEF Control
<1>9. PcpBrief'
  BY <1>1, <1>4 DEF PcpBrief
<1> QED BY <1>5, <1>6, <1>7, <1>8, <1>9

LEMMA InsertBlockStep == IInv /\ InsertBlock => IInv'
<1> SUFFICES ASSUME IInv, InsertBlock PROVE IInv'
  OBVIOUS
<1> USE DEF IInv
<1>1. /\ op.pc = "merge"
      /\ buddy' = [buddy EXCEPT ![op.page] = op.cur]
      /\ lru' = [lru EXCEPT ![op.page] = <<op.zone, op.cur, op.list>>]
      /\ nr_free' = [nr_free EXCEPT ![<<op.zone, op.cur>>] = nr_free[<<op.zone, op.cur>>] + 1]
      /\ free_pages' = [free_pages EXCEPT ![op.zone] = free_pages[op.zone] + Size[op.order]]
      /\ op' = Idle
      /\ UNCHANGED <<bootq, blocktype, pcp, count, owned, lost>>
  BY DEF InsertBlock
<1>2. /\ op.page # NoPage /\ op.page \in Pages /\ op.cur \in Orders /\ op.zone \in Zones
      /\ op.list \in MigrateTypes /\ op.order \in Orders /\ page_zone(op.page) = op.zone
  BY <1>1 DEF Control, TypeOK, Operations
<1>3. <<"op", op.page, op.cur>> \in Placed
  BY <1>2, PlacedParts DEF InFlight
<1>4. buddy[op.page] = -1
  <2>1. op.page \in Nat /\ Size[op.cur] \in Nat \ {0}
    BY Zenon, <1>2, SizeFacts, ZoneOfPage
  <2>2. op.page <= op.page /\ op.page < op.page + Size[op.cur]
    BY <2>1
  <2> QED BY <1>2, <1>3, <2>2, HeldNotBuddy
<1>5. op'.pc = "idle" /\ op'.page = NoPage
  BY <1>1 DEF Idle
<1>6. TypeOK'
  <2>1. <<op.zone, op.cur, op.list>> \in FreeLists
    BY <1>2 DEF FreeLists
  <2>2. lru' \in [Pages -> FreeLists \cup {NoList}] /\ buddy' \in [Pages -> Orders \cup {-1}]
    BY <1>1, <1>2, <2>1 DEF TypeOK
  <2>3. nr_free' \in [Zones \X Orders -> Int]
    BY <1>1, <1>2 DEF TypeOK
  <2>4. free_pages' \in [Zones -> Int]
    <3>1. Size[op.order] \in Nat \ {0}
      BY Zenon, <1>2, SizeFacts
    <3>2. free_pages \in [Zones -> Int]
      BY DEF TypeOK
    <3>3. free_pages[op.zone] + Size[op.order] \in Int
      BY <1>2, <3>1, <3>2
    <3> QED BY Zenon, <1>1, <3>2, <3>3, CounterTyped
  <2> QED BY <1>1, <2>2, <2>3, <2>4, IdleTyped DEF TypeOK
<1>7. Sound(Placed)'
  <2> DEFINE r == <<"op", op.page, op.cur>>
  <2>1. FreePart' \subseteq FreePart \cup {<<"free", op.page, op.cur>>}
    BY Zenon, <1>1, <1>2, <1>4, FreePartChange DEF TypeOK
  <2>2. /\ BootPart' = BootPart /\ PcpPart' = PcpPart
        /\ OwnedPart' = OwnedPart /\ LostPart' = LostPart
    BY <1>1 DEF BootPart, PcpPart, OwnedPart, LostPart
  <2>3. InFlight' = {}
    BY <1>5 DEF InFlight
  <2>4. BootPart \cup PcpPart \cup OwnedPart \cup LostPart \cup FreePart \subseteq Placed \ {r}
    BY PlacedParts DEF BootPart, PcpPart, OwnedPart, LostPart, FreePart
  <2>5. Placed' \subseteq (Placed \ {r}) \cup {<<"free", op.page, op.cur>>}
    <3>1. Placed' = BootPart' \cup FreePart' \cup PcpPart' \cup OwnedPart' \cup LostPart' \cup InFlight'
      BY DEF Placed, BootPart, FreePart, PcpPart, OwnedPart, LostPart
    <3> QED BY <2>1, <2>2, <2>3, <2>4, <3>1
  <2>6. Sound(Placed')
    <3>1. "free" \in Kinds
      BY DEF Kinds
    <3> QED BY Zenon, <1>3, <2>5, <3>1, SoundHandOver
  <2> QED BY <2>6 DEF Sound, Separate, Apart, Inside
<1>8. WellFiled'
  <2> SUFFICES ASSUME NEW p \in Pages
               PROVE /\ lru'[p] = NoList <=> buddy'[p] = -1
                     /\ lru'[p] # NoList => lru'[p][1] = page_zone(p) /\ lru'[p][2] = buddy'[p]
    BY DEF WellFiled
  <2>1. CASE p = op.page
    <3>1. lru'[p] = <<op.zone, op.cur, op.list>> /\ buddy'[p] = op.cur
      BY <1>1, <1>2, <2>1 DEF TypeOK
    <3>2. op.cur # -1
      BY <1>2 DEF Orders
    <3>3. lru'[p] # NoList /\ lru'[p][1] = op.zone /\ lru'[p][2] = op.cur
      <4>1. Names(<<op.zone, op.cur, op.list>>, op.zone, op.cur)
        BY Zenon, <1>2, ListParts
      <4>2. Names(lru'[p], op.zone, op.cur)
        BY Zenon, <3>1, <4>1
      <4> QED BY Zenon, <4>2 DEF Names
    <3> QED BY Zenon, <1>2, <2>1, <3>1, <3>2, <3>3
  <2>2. CASE p # op.page
    BY <1>1, <1>2, <2>2 DEF TypeOK, WellFiled
  <2> QED BY <2>1, <2>2
<1>9. Control' /\ PcpBrief'
  BY <1>1, <1>5 DEF Control, PcpBrief
<1> QED BY <1>6, <1>7, <1>8, <1>9

-----------------------------------------------------------------------------
(* Allocating.  The zonelist scan ends the operation or stands at some zone. *)
LEMMA ScanFromEffect ==
    ASSUME op \in Operations, NEW zs \in SUBSET Zones
    PROVE  \/ zs = {} /\ ScanFrom(zs) = Idle
           \/ /\ zs # {}
              /\ \E z \in zs : ScanFrom(zs) = [op EXCEPT !.pc = "scan", !.zone = z]
<1>1. CASE zs = {}
  BY <1>1 DEF ScanFrom
<1>2. CASE zs # {}
  <2>1. \E z \in zs : \A y \in zs : y <= z
    <3>1. zs \subseteq 0 .. 2
      BY ZoneAssumption DEF MAX_NR_ZONES
    <3>2. CASE 2 \in zs
      BY <3>1, <3>2
    <3>3. CASE 2 \notin zs /\ 1 \in zs
      BY <3>1, <3>3
    <3>4. CASE 2 \notin zs /\ 1 \notin zs
      <4>1. \A x \in zs : x = 0
        BY <3>1, <3>4
      <4>2. PICK x \in zs : TRUE
        BY <1>2
      <4> QED BY <4>1, <4>2
    <3> QED BY <3>2, <3>3, <3>4
  <2> DEFINE top == CHOOSE z \in zs : \A y \in zs : y <= z
  <2>2. top \in zs
    BY <2>1
  <2>3. ScanFrom(zs) = [op EXCEPT !.pc = "scan", !.zone = top]
    BY <1>2 DEF ScanFrom
  <2> QED BY Zenon, <1>2, <2>2, <2>3
<1> QED BY Zenon, <1>1, <1>2

(* The scan touches only op, so of IInv only its conjuncts on op are at stake. *)
LEMMA OnlyOpChanges ==
    ASSUME IInv, op' \in Operations, op.page = NoPage, op'.page = NoPage, pcp.pages = {},
           UNCHANGED <<bootq, buddy, lru, nr_free, free_pages, blocktype, pcp, count, owned, lost>>,
           Control'
    PROVE  IInv'
<1> USE DEF IInv
<1>1. TypeOK'
  BY DEF TypeOK
<1>2. Sound(Placed)'
  <2>1. Placed' = Placed
    BY DEF Placed, InFlight
  <2> QED BY <2>1 DEF Sound, Separate, Apart, Inside
<1>3. WellFiled'
  BY DEF WellFiled
<1>4. PcpBrief'
  BY Zenon DEF PcpBrief
<1> QED BY <1>1, <1>2, <1>3, <1>4

LEMMA AllocPagesStep ==
    ASSUME IInv, NEW high \in Zones, NEW o \in Orders, NEW mt \in PcpTypes,
           AllocPages(high, o, mt)
    PROVE  IInv'
<1> DEFINE zs == {z \in Zones : z <= high}
<1>1. /\ op.pc = "idle" /\ bootq = {}
      /\ op' = [ScanFrom(zs) EXCEPT !.high = high, !.order = o, !.mt = mt]
      /\ UNCHANGED <<bootq, buddy, lru, nr_free, free_pages, blocktype, pcp, count, owned, lost>>
  BY DEF AllocPages
<1>2. op \in Operations /\ op.page = NoPage /\ pcp.pages = {}
  BY <1>1 DEF IInv, TypeOK, Control, PcpBrief
<1>3. high \in zs
  BY ZoneAssumption DEF MAX_NR_ZONES
<1>4. PICK z \in Zones : ScanFrom(zs) = [op EXCEPT !.pc = "scan", !.zone = z]
  BY Zenon, <1>2, <1>3, ScanFromEffect
<1>5. op' = [op EXCEPT !.pc = "scan", !.zone = z, !.high = high, !.order = o, !.mt = mt]
  BY Zenon, <1>1, <1>2, <1>4 DEF Operations
<1>6. op' \in Operations /\ op'.pc = "scan" /\ op'.zone = z /\ op'.page = NoPage
  BY Zenon, <1>2, <1>5 DEF Operations, Steps
<1>7. Control'
  BY <1>1, <1>6 DEF Control
<1> QED BY <1>1, <1>2, <1>6, <1>7, OnlyOpChanges

LEMMA ScanStep ==
    ASSUME IInv, TryZone \/ ThisZoneFull
    PROVE  IInv'
<1> DEFINE zs == {z \in Zones : z < op.zone}
<1>1. /\ op.pc \in {"scan", "full"}
      /\ op' = [op EXCEPT !.pc = "rmqueue"] \/ op' = ScanFrom(zs)
      /\ UNCHANGED <<bootq, buddy, lru, nr_free, free_pages, blocktype, pcp, count, owned, lost>>
  BY DEF TryZone, ThisZoneFull
<1>2. /\ op \in Operations /\ op.page = NoPage /\ pcp.pages = {}
      /\ op.zone \in Zones /\ bootq = {}
  BY <1>1 DEF IInv, TypeOK, Control, PcpBrief
<1>3. CASE op' = [op EXCEPT !.pc = "rmqueue"]
  <2>1. op' \in Operations /\ op'.pc = "rmqueue" /\ op'.zone = op.zone /\ op'.page = NoPage
    BY <1>2, <1>3 DEF Operations, Steps
  <2>2. Control'
    BY <1>1, <1>2, <2>1 DEF Control
  <2> QED BY <1>1, <1>2, <2>1, <2>2, OnlyOpChanges
<1>4. CASE op' = ScanFrom(zs)
  <2>1. CASE op' = Idle
    <3>1. op' \in Operations /\ op'.pc = "idle" /\ op'.page = NoPage
      BY <2>1, IdleTyped DEF Idle
    <3>2. Control'
      BY <3>1 DEF Control
    <3> QED BY <1>1, <1>2, <3>1, <3>2, OnlyOpChanges
  <2>2. CASE \E z \in zs : op' = [op EXCEPT !.pc = "scan", !.zone = z]
    <3>1. PICK z \in Zones : op' = [op EXCEPT !.pc = "scan", !.zone = z]
      BY Zenon, <2>2
    <3>2. op' \in Operations /\ op'.pc = "scan" /\ op'.zone = z /\ op'.page = NoPage
      BY Zenon, <1>2, <3>1 DEF Operations, Steps
    <3>3. Control'
      BY <1>1, <1>2, <3>2 DEF Control
    <3> QED BY <1>1, <1>2, <3>2, <3>3, OnlyOpChanges
  <2> QED BY Zenon, <1>2, <1>4, <2>1, <2>2, ScanFromEffect
<1> QED BY <1>1, <1>3, <1>4

LEMMA RmqueueFailStep == IInv /\ RmqueueFail => IInv'
<1> SUFFICES ASSUME IInv, RmqueueFail PROVE IInv'
  OBVIOUS
<1>1. /\ EnterRmqueue /\ op' = [op EXCEPT !.pc = "full"]
      /\ UNCHANGED <<bootq, buddy, lru, nr_free, free_pages, blocktype, pcp, count, owned, lost>>
  BY DEF RmqueueFail
<1>2. op \in Operations /\ op.page = NoPage /\ op.zone \in Zones /\ bootq = {} /\ pcp.pages = {}
  BY <1>1 DEF IInv, TypeOK, Control, PcpBrief, EnterRmqueue, PcpList
<1>3. op' \in Operations /\ op'.pc = "full" /\ op'.zone = op.zone /\ op'.page = NoPage
  BY <1>1, <1>2 DEF Operations, Steps
<1>4. Control'
  BY <1>1, <1>2, <1>3 DEF Control
<1> QED BY <1>1, <1>2, <1>3, <1>4, OnlyOpChanges

(* A block taken off the free lists is in hand, and the lists that remain agree    *)
(* with PageBuddy, whichever other free blocks of the zone change their type.     *)
LEMMA TakeBlockStep ==
    ASSUME IInv, EnterRmqueue,
           NEW k \in Orders, op.order <= k, NEW mt \in MigrateTypes, NEW list \in MigrateTypes,
           NEW p \in FreeList(op.zone, k, mt), TakeBlock(p, k, list),
           lru' \in [Pages -> FreeLists \cup {NoList}], lru'[p] = NoList,
           \A q \in Pages \ {p} :
              \/ lru'[q] = lru[q]
              \/ buddy[q] # -1 /\ page_zone(q) = op.zone
                    /\ \E t \in MigrateTypes : lru'[q] = <<op.zone, buddy[q], t>>,
           blocktype' \in [PageBlocks -> MigrateTypes],
           UNCHANGED <<bootq, free_pages, pcp, count, owned, lost>>
    PROVE  IInv'
<1>0. TypeOK /\ Sound(Placed) /\ WellFiled /\ Control /\ PcpBrief
  BY DEF IInv
<1>1. /\ buddy' = [buddy EXCEPT ![p] = -1]
      /\ nr_free' = [nr_free EXCEPT ![<<op.zone, k>>] = nr_free[<<op.zone, k>>] - 1]
      /\ op' = [op EXCEPT !.pc = "expand", !.page = p, !.cur = k, !.list = list]
  BY DEF TakeBlock
<1>2. /\ op.pc = "rmqueue" /\ op \in Operations /\ op.page = NoPage
      /\ op.zone \in Zones /\ bootq = {} /\ pcp.pages = {}
  BY <1>0 DEF EnterRmqueue, PcpList, Control, PcpBrief, TypeOK
<1>3. p \in Pages /\ lru[p] = <<op.zone, k, mt>> /\ p # NoPage
  <2>1. p \in Pages /\ lru[p] = <<op.zone, k, mt>>
    BY Zenon DEF FreeList
  <2> QED BY Zenon, <2>1, PageIsSome
<1>4. buddy[p] = k /\ page_zone(p) = op.zone /\ k # -1
  <2>1. lru[p] # NoList /\ lru[p][1] = op.zone /\ lru[p][2] = k
    <3>1. Names(<<op.zone, k, mt>>, op.zone, k)
      BY Zenon, <1>2, ListParts
    <3>2. Names(lru[p], op.zone, k)
      BY Zenon, <1>3, <3>1
    <3> QED BY Zenon, <3>2 DEF Names
  <2> QED BY Zenon, <1>0, <1>3, <2>1, SizeFacts DEF WellFiled
<1>5. /\ op' \in Operations /\ op'.pc = "expand" /\ op'.page = p /\ op'.cur = k
      /\ op'.zone = op.zone /\ op'.order = op.order
  BY Zenon, <1>1, <1>2, <1>3 DEF Operations, Steps
<1>6. TypeOK'
  <2>1. nr_free' \in [Zones \X Orders -> Int]
    BY <1>0, <1>1, <1>2 DEF TypeOK
  <2>2. buddy' \in [Pages -> Orders \cup {-1}]
    BY <1>0, <1>1, <1>3 DEF TypeOK
  <2> QED BY <1>0, <1>5, <2>1, <2>2 DEF TypeOK
<1>7. Sound(Placed)'
  <2> DEFINE r == <<"free", p, k>>
  <2>1. r \in Placed
    BY <1>3, <1>4, PlacedParts DEF FreePart
  <2>2. FreePart' \subseteq FreePart \ {r}
    BY Zenon, <1>0, <1>1, <1>3, <1>4, FreePartChange DEF TypeOK
  <2>3. /\ BootPart' = BootPart /\ PcpPart' = PcpPart
        /\ OwnedPart' = OwnedPart /\ LostPart' = LostPart
    BY DEF BootPart, PcpPart, OwnedPart, LostPart
  <2>4. InFlight' = {<<"op", p, k>>}
    BY <1>3, <1>5 DEF InFlight
  <2>5. /\ BootPart \cup PcpPart \cup OwnedPart \cup LostPart \subseteq Placed \ {r}
        /\ FreePart \subseteq Placed
    <3>1. r \notin BootPart \cup PcpPart \cup OwnedPart \cup LostPart
      BY DEF BootPart, PcpPart, OwnedPart, LostPart
    <3> HIDE DEF r
    <3> QED BY <3>1, PlacedParts
  <2>6. Placed' \subseteq (Placed \ {r}) \cup {<<"op", p, k>>}
    <3>1. Placed' = BootPart' \cup FreePart' \cup PcpPart' \cup OwnedPart' \cup LostPart' \cup InFlight'
      BY Zenon DEF Placed, BootPart, FreePart, PcpPart, OwnedPart, LostPart
    <3>2. FreePart' \subseteq Placed \ {r}
      BY Zenon, <2>2, <2>5
    <3> HIDE DEF r
    <3> QED BY Zenon, <2>3, <2>4, <2>5, <3>1, <3>2
  <2>7. Sound(Placed')
    <3>1. "op" \in Kinds
      BY DEF Kinds
    <3> QED BY Zenon, <1>0, <2>1, <2>6, <3>1, SoundHandOver
  <2> QED BY Zenon, <2>7 DEF Sound, Separate, Apart, Inside
<1>8. WellFiled'
  <2> SUFFICES ASSUME NEW q \in Pages
               PROVE /\ lru'[q] = NoList <=> buddy'[q] = -1
                     /\ lru'[q] # NoList => lru'[q][1] = page_zone(q) /\ lru'[q][2] = buddy'[q]
    BY DEF WellFiled
  <2>1. CASE q = p
    BY <1>0, <1>1, <1>3, <2>1 DEF TypeOK
  <2>2. CASE q # p /\ lru'[q] = lru[q]
    BY <1>0, <1>1, <2>2 DEF TypeOK, WellFiled
  <2>3. CASE q # p /\ buddy[q] # -1 /\ page_zone(q) = op.zone
             /\ \E t \in MigrateTypes : lru'[q] = <<op.zone, buddy[q], t>>
    <3>1. buddy'[q] = buddy[q] /\ buddy[q] \in Orders
      BY SMTT(30), <1>0, <1>1, <2>3 DEF TypeOK
    <3>2. lru'[q] # NoList /\ lru'[q][1] = op.zone /\ lru'[q][2] = buddy[q]
      <4>1. PICK t \in MigrateTypes : lru'[q] = <<op.zone, buddy[q], t>>
        BY Zenon, <2>3
      <4>2. Names(<<op.zone, buddy[q], t>>, op.zone, buddy[q])
        BY Zenon, <1>2, <3>1, ListParts
      <4>3. Names(lru'[q], op.zone, buddy[q])
        BY Zenon, <4>1, <4>2
      <4> QED BY Zenon, <4>3 DEF Names
    <3> QED BY Zenon, <2>3, <3>1, <3>2
  <2> QED BY <2>1, <2>2, <2>3
<1>9. Control' /\ PcpBrief'
  <2>1. Control'
    BY Zenon, <1>0, <1>2, <1>3, <1>4, <1>5 DEF Control
  <2>2. PcpBrief'
    BY Zenon, <1>0, <1>2 DEF PcpBrief
  <2> QED BY <2>1, <2>2
<1> QED BY <1>6, <1>7, <1>8, <1>9 DEF IInv

LEMMA LargerOrder ==
    ASSUME NEW o \in Orders, NEW k \in o .. MAX_ORDER - 1
    PROVE  k \in Orders /\ o <= k
<1>1. MAX_ORDER \in Nat
  BY SMTT(30), GeometryAssumption
<1> QED BY <1>1 DEF Orders

LEMMA RmqueueStep == IInv /\ Rmqueue => IInv'
<1> SUFFICES ASSUME IInv, Rmqueue PROVE IInv'
  OBVIOUS
<1>1. EnterRmqueue /\ RmqueueSmallest(RmqueueType)
  BY DEF Rmqueue
<1>2. op \in Operations /\ op.order \in Orders
  BY DEF IInv, TypeOK, Operations
<1>3. RmqueueType \in MigrateTypes
  <2>1. op.mt \in PcpTypes
    BY <1>2 DEF Operations
  <2> QED BY <2>1 DEF RmqueueType, PcpTypes, MIGRATE_PCPTYPES, MIGRATE_RESERVE, MigrateTypes
<1>a. PICK k \in Fits(RmqueueType) :
         /\ \E p \in FreeList(op.zone, k, RmqueueType) :
               lru' = [lru EXCEPT ![p] = NoList] /\ TakeBlock(p, k, RmqueueType)
         /\ UNCHANGED <<bootq, free_pages, blocktype, pcp, count, owned, lost>>
  BY Zenon, <1>1 DEF RmqueueSmallest
<1>4. PICK p \in FreeList(op.zone, k, RmqueueType) :
         lru' = [lru EXCEPT ![p] = NoList] /\ TakeBlock(p, k, RmqueueType)
  BY Zenon, <1>a
<1>5. k \in Orders /\ op.order <= k
  <2>1. k \in op.order .. MAX_ORDER - 1
    BY DEF Fits
  <2> QED BY <1>2, <2>1, LargerOrder
<1>6. p \in Pages
  BY DEF FreeList
<1>7. /\ lru' \in [Pages -> FreeLists \cup {NoList}] /\ lru'[p] = NoList
      /\ \A q \in Pages \ {p} : lru'[q] = lru[q]
      /\ blocktype' \in [PageBlocks -> MigrateTypes]
  BY Zenon, <1>a, <1>4, <1>6 DEF IInv, TypeOK
<1> QED BY <1>1, <1>3, <1>a, <1>4, <1>5, <1>7, TakeBlockStep

(* The blocks move_freepages_block moves are free blocks of the zone. *)
LEMMA MovedInZone ==
    ASSUME TypeOK, op.zone \in Zones, NEW p \in Pages, page_zone(p) = op.zone,
           NEW q \in MovedBlocks(p)
    PROVE  q \in Pages /\ page_zone(q) = op.zone /\ buddy[q] # -1
<1> DEFINE S == Size[pageblock_order]
           start == p - (p % S)
           end == start + S - 1
           from == IF start < ZoneStart[op.zone] THEN p ELSE start
<1>1. S \in Nat \ {0} /\ p \in Nat /\ ZoneStart[op.zone] <= p
  BY SizeFacts, ZoneOfPage, GeometryAssumption
<1>2. ZoneStart[op.zone] \in Nat /\ ZoneEnd[op.zone] \in Nat
  BY Zenon, ZoneAssumption
<1>3. p % S \in Int
  BY <1>1
<1>4. q \in from .. end /\ buddy[q] # -1 /\ ~(end >= ZoneEnd[op.zone])
  BY DEF MovedBlocks
<1>5. start \in Int /\ end \in Int
  BY <1>1, <1>3
<1> HIDE DEF start, end, S
<1>6. from \in Int /\ ZoneStart[op.zone] <= from
  BY <1>1, <1>2, <1>5
<1>7. q \in Int /\ from <= q /\ q <= end
  BY <1>4, <1>5, <1>6
<1>8. q \in Nat /\ ZoneStart[op.zone] <= q /\ q < ZoneEnd[op.zone]
  BY <1>2, <1>4, <1>5, <1>6, <1>7
<1> QED BY <1>4, <1>8, ZoneOfPage

LEMMA RmqueueStealStep == IInv /\ RmqueueSteal => IInv'
<1> SUFFICES ASSUME IInv, RmqueueSteal PROVE IInv'
  OBVIOUS
<1>1. EnterRmqueue /\ RmqueueFallback
  BY DEF RmqueueSteal
<1>2. /\ op \in Operations /\ op.order \in Orders /\ op.mt \in MigrateTypes
      /\ op.mt \in PcpTypes /\ op.zone \in Zones
  BY <1>1 DEF IInv, TypeOK, Operations, PcpTypes, MIGRATE_PCPTYPES, MigrateTypes, Control, EnterRmqueue
<1>3. PICK h \in FallbackHits :
         LET k == h[1]
             mt == fallbacks[op.mt][h[2]]
             steal == k >= pageblock_order \div 2 \/ op.mt = MIGRATE_RECLAIMABLE
         IN  /\ \E p \in FreeList(op.zone, k, mt) :
                   /\ lru' = [q \in Pages |->
                         IF q = p THEN NoList
                         ELSE IF steal /\ q \in MovedBlocks(p) THEN <<op.zone, buddy[q], op.mt>>
                         ELSE lru[q]]
                   /\ blocktype' = [pb \in PageBlocks |->
                         IF pb \in ClaimedPageBlocks(p, k, steal) THEN op.mt ELSE blocktype[pb]]
                   /\ TakeBlock(p, k, IF steal THEN op.mt ELSE mt)
             /\ UNCHANGED <<bootq, free_pages, pcp, count, owned, lost>>
  BY Zenon, <1>1 DEF RmqueueFallback
<1> DEFINE k == h[1]
           mt == fallbacks[op.mt][h[2]]
           steal == k >= pageblock_order \div 2 \/ op.mt = MIGRATE_RECLAIMABLE
           list == IF steal THEN op.mt ELSE mt
<1>4. PICK p \in FreeList(op.zone, k, mt) :
         /\ lru' = [q \in Pages |->
               IF q = p THEN NoList
               ELSE IF steal /\ q \in MovedBlocks(p) THEN <<op.zone, buddy[q], op.mt>>
               ELSE lru[q]]
         /\ blocktype' = [pb \in PageBlocks |->
               IF pb \in ClaimedPageBlocks(p, k, steal) THEN op.mt ELSE blocktype[pb]]
         /\ TakeBlock(p, k, list)
  BY Zenon, <1>3
<1>5. h \in (op.order .. MAX_ORDER - 1) \X (1 .. 5)
  BY DEF FallbackHits
<1>6. k \in Orders /\ op.order <= k
  BY <1>2, <1>5, LargerOrder
<1>7. mt \in MigrateTypes
  <2>1. h[2] \in 1 .. 5
    BY <1>5
  <2>2. op.mt \in 0 .. 2
    BY <1>2 DEF PcpTypes, MIGRATE_PCPTYPES
  <2> QED BY SMTT(60), <1>2, <2>1, <2>2
          DEF fallbacks, PcpTypes, MigrateTypes, MIGRATE_UNMOVABLE, MIGRATE_RECLAIMABLE,
              MIGRATE_MOVABLE, MIGRATE_RESERVE, MIGRATE_PCPTYPES
<1> HIDE DEF mt, k, steal
<1>8. list \in MigrateTypes
  BY <1>2, <1>7
<1> HIDE DEF list
<1>9. p \in Pages /\ page_zone(p) = op.zone
  <2>1. p \in Pages /\ lru[p] = <<op.zone, k, mt>>
    BY DEF FreeList
  <2>2. lru[p] \in FreeLists /\ lru[p][1] = op.zone
    BY <1>2, <1>6, <1>7, <2>1 DEF FreeLists
  <2> QED BY <2>1, <2>2, ZoneAssumption DEF IInv, WellFiled
<1>10. ASSUME NEW q \in Pages \ {p}
       PROVE  \/ lru'[q] = lru[q]
              \/ buddy[q] # -1 /\ page_zone(q) = op.zone
                    /\ \E t \in MigrateTypes : lru'[q] = <<op.zone, buddy[q], t>>
  <2>1. CASE steal /\ q \in MovedBlocks(p)
    BY ZenonT(60), <1>2, <1>4, <1>9, <2>1, MovedInZone DEF IInv
  <2>2. CASE ~(steal /\ q \in MovedBlocks(p))
    BY <1>4, <2>2
  <2> QED BY <2>1, <2>2
<1>11. lru' \in [Pages -> FreeLists \cup {NoList}] /\ lru'[p] = NoList
  <2>1. lru'[p] = NoList
    BY <1>4, <1>9
  <2>2. ASSUME NEW q \in Pages PROVE lru'[q] \in FreeLists \cup {NoList}
    <3>1. lru[q] \in FreeLists \cup {NoList} /\ buddy[q] \in Orders \cup {-1}
      BY DEF IInv, TypeOK
    <3>2. CASE q = p
      BY <2>1, <3>2
    <3>3. CASE q # p /\ lru'[q] = lru[q]
      BY <3>1, <3>3
    <3>4. CASE buddy[q] # -1 /\ \E t \in MigrateTypes : lru'[q] = <<op.zone, buddy[q], t>>
      BY <1>2, <3>1, <3>4 DEF FreeLists
    <3> QED BY <1>10, <3>2, <3>3, <3>4
  <2> QED BY <1>4, <2>1, <2>2
<1>12. blocktype' \in [PageBlocks -> MigrateTypes]
  BY SMTT(30), <1>2, <1>4 DEF IInv, TypeOK
<1>13. UNCHANGED <<bootq, free_pages, pcp, count, owned, lost>>
  BY <1>3
<1> QED BY Zenon, <1>1, <1>4, <1>6, <1>7, <1>8, <1>10, <1>11, <1>12, <1>13, TakeBlockStep

LEMMA ExpandStep == IInv /\ Expand => IInv'
<1> SUFFICES ASSUME IInv, Expand PROVE IInv'
  OBVIOUS
<1> USE DEF IInv
<1> DEFINE half == op.cur - 1
           upper == op.page + Size[half]
<1>1. /\ op.pc = "expand" /\ op.cur > op.order
      /\ buddy' = [buddy EXCEPT ![upper] = half]
      /\ lru' = [lru EXCEPT ![upper] = <<op.zone, half, op.list>>]
      /\ nr_free' = [nr_free EXCEPT ![<<op.zone, half>>] = nr_free[<<op.zone, half>>] + 1]
      /\ op' = [op EXCEPT !.cur = half]
      /\ UNCHANGED <<bootq, free_pages, blocktype, pcp, count, owned, lost>>
  BY DEF Expand
<1>2. /\ op \in Operations /\ op.page # NoPage /\ op.page \in Pages /\ op.zone \in Zones
      /\ page_zone(op.page) = op.zone /\ op.cur \in Orders /\ op.order \in Orders
      /\ op.list \in MigrateTypes
  BY <1>1 DEF Control, TypeOK, Operations
<1>3. half \in Orders /\ op.cur = half + 1 /\ op.order <= half
  <2>1. MAX_ORDER \in Nat /\ op.cur \in 0 .. MAX_ORDER - 1 /\ op.order \in 0 .. MAX_ORDER - 1
    BY <1>2, GeometryAssumption DEF Orders
  <2>2. half \in 0 .. MAX_ORDER - 1 /\ op.cur = half + 1 /\ op.order <= half
    BY <1>1, <2>1
  <2> QED BY <2>2 DEF Orders
<1> HIDE DEF half
<1>4. /\ op.page \in Nat /\ Size[half] \in Nat \ {0} /\ Size[op.cur] = 2 * Size[half]
  BY <1>2, <1>3, SizeFacts, ZoneOfPage
<1>5. <<"op", op.page, op.cur>> \in Placed
  BY <1>2, PlacedParts DEF InFlight
<1>6. upper \in Pages /\ page_zone(upper) = op.zone
  <2>1. op.page + Size[op.cur] <= ZoneEnd[op.zone]
    <3>1. Inside(<<"op", op.page, op.cur>>)
      BY <1>5 DEF Sound
    <3> QED BY <1>2, <3>1 DEF Inside
  <2>2. ZoneStart[op.zone] \in Nat /\ ZoneEnd[op.zone] \in Nat /\ ZoneStart[op.zone] <= op.page
    BY Zenon, <1>2, ZoneOfPage, ZoneAssumption
  <2>3. upper \in Nat /\ ZoneStart[op.zone] <= upper /\ upper < ZoneEnd[op.zone]
    BY <1>4, <2>1, <2>2
  <2> QED BY <1>2, <2>3, ZoneOfPage
<1>7. buddy[upper] = -1
  <2>1. op.page <= upper /\ upper < op.page + Size[op.cur]
    BY <1>4
  <2> HIDE DEF upper
  <2> QED BY <1>5, <1>6, <2>1, HeldNotBuddy
<1> HIDE DEF upper
<1>8. /\ op' \in Operations /\ op'.pc = "expand" /\ op'.page = op.page /\ op'.cur = half
      /\ op'.zone = op.zone /\ op'.order = op.order
  BY <1>1, <1>2, <1>3 DEF Operations
<1>9. <<op.zone, half, op.list>> \in FreeLists
  BY <1>2, <1>3 DEF FreeLists
<1>10. TypeOK'
  <2>1. lru' \in [Pages -> FreeLists \cup {NoList}] /\ buddy' \in [Pages -> Orders \cup {-1}]
    BY <1>1, <1>3, <1>6, <1>9 DEF TypeOK
  <2>2. nr_free' \in [Zones \X Orders -> Int]
    BY <1>1, <1>2, <1>3 DEF TypeOK
  <2> QED BY <1>1, <1>8, <2>1, <2>2 DEF TypeOK
<1>11. Sound(Placed)'
  <2> DEFINE r == <<"op", op.page, op.cur>>
  <2>1. FreePart' \subseteq FreePart \cup {<<"free", upper, half>>}
    BY Zenon, <1>1, <1>3, <1>6, <1>7, FreePartChange DEF TypeOK
  <2>2. /\ BootPart' = BootPart /\ PcpPart' = PcpPart
        /\ OwnedPart' = OwnedPart /\ LostPart' = LostPart
    BY <1>1 DEF BootPart, PcpPart, OwnedPart, LostPart
  <2>3. InFlight' = {<<"op", op.page, half>>}
    BY <1>2, <1>8 DEF InFlight
  <2>4. BootPart \cup PcpPart \cup OwnedPart \cup LostPart \cup FreePart \subseteq Placed \ {r}
    BY PlacedParts DEF BootPart, PcpPart, OwnedPart, LostPart, FreePart
  <2>5. Placed' \subseteq (Placed \ {r}) \cup {<<"op", op.page, half>>, <<"free", upper, half>>}
    <3>1. Placed' = BootPart' \cup FreePart' \cup PcpPart' \cup OwnedPart' \cup LostPart' \cup InFlight'
      BY DEF Placed, BootPart, FreePart, PcpPart, OwnedPart, LostPart
    <3> QED BY <2>1, <2>2, <2>3, <2>4, <3>1
  <2>6. Sound(Placed')
    <3> HIDE DEF r
    <3>1. /\ r \in Placed /\ r[2] = op.page /\ r[3] = half + 1
          /\ "op" \in Kinds /\ "free" \in Kinds
      BY <1>3, <1>5 DEF r, Kinds
    <3>2. Placed' \subseteq (Placed \ {r}) \cup {<<"op", r[2], half>>, <<"free", r[2] + Size[half], half>>}
      BY <2>5, <3>1 DEF upper
    <3> QED BY <1>3, <3>1, <3>2, SoundSplit
  <2> QED BY <2>6 DEF Sound, Separate, Apart, Inside
<1>12. WellFiled'
  <2> SUFFICES ASSUME NEW p \in Pages
               PROVE /\ lru'[p] = NoList <=> buddy'[p] = -1
                     /\ lru'[p] # NoList => lru'[p][1] = page_zone(p) /\ lru'[p][2] = buddy'[p]
    BY DEF WellFiled
  <2>1. CASE p = upper
    <3>1. lru'[p] = <<op.zone, half, op.list>> /\ buddy'[p] = half
      BY <1>1, <1>6, <2>1 DEF TypeOK
    <3>2. lru'[p] # NoList /\ half # -1
      BY <1>3, <1>9, <3>1, ZoneAssumption DEF Orders
    <3> QED BY <1>6, <2>1, <3>1, <3>2
  <2>2. CASE p # upper
    BY <1>1, <1>6, <2>2 DEF TypeOK, WellFiled
  <2> QED BY <2>1, <2>2
<1>13. Control'
  BY <1>1, <1>2, <1>3, <1>8 DEF Control
<1>14. PcpBrief'
  BY <1>1, <1>8 DEF PcpBrief
<1> QED BY <1>10, <1>11, <1>12, <1>13, <1>14

LEMMA RmqueueBulkStep == IInv /\ RmqueueBulk => IInv'
<1> SUFFICES ASSUME IInv, RmqueueBulk PROVE IInv'
  OBVIOUS
<1> USE DEF IInv
<1> DEFINE e == [page |-> op.page, private |-> op.mt, type |-> op.mt]
<1>1. /\ op.pc = "expand" /\ op.cur = op.order /\ op.order = 0
      /\ free_pages' = [free_pages EXCEPT ![op.zone] = free_pages[op.zone] - 1]
      /\ pcp' = [pcp EXCEPT !.count = pcp.count + 1, !.pages = pcp.pages \cup {e}]
      /\ op' = [op EXCEPT !.pc = "rmqueue", !.page = NoPage]
      /\ UNCHANGED <<bootq, buddy, lru, nr_free, blocktype, count, owned, lost>>
  BY DEF RmqueueBulk
<1>2. /\ op \in Operations /\ op.page # NoPage /\ op.page \in Pages /\ op.zone \in Zones
      /\ page_zone(op.page) = op.zone /\ bootq = {} /\ op.mt \in PcpTypes
  BY <1>1 DEF Control, TypeOK, Operations
<1>3. pcp \in Pagesets /\ pcp.pages = {} /\ pcp.count = 0 /\ pcp.high = 0 /\ pcp.batch = 1
  BY <1>1 DEF PcpBrief, TypeOK
<1>4. e \in Entries /\ e.page = op.page /\ e.type = op.mt
  BY <1>2 DEF Entries, MigrateTypes, PcpTypes, MIGRATE_PCPTYPES
<1> HIDE DEF e
<1>5. /\ pcp' \in Pagesets
      /\ pcp'.pages = {e} /\ pcp'.count = 1 /\ pcp'.high = 0 /\ pcp'.batch = 1
  <2> DEFINE n == pcp.count + 1
             E == pcp.pages \cup {e}
  <2>1. n \in Int /\ n = 1 /\ E \in SUBSET Entries /\ E = {e}
    BY <1>3, <1>4
  <2>2. pcp' = [pcp EXCEPT !.count = n, !.pages = E]
    BY <1>1
  <2> HIDE DEF n, E
  <2>3. /\ pcp' \in Pagesets
        /\ pcp'.pages = E /\ pcp'.count = n /\ pcp'.high = pcp.high /\ pcp'.batch = pcp.batch
    BY Zenon, <1>3, <2>1, <2>2 DEF Pagesets
  <2> QED BY <1>3, <2>1, <2>3
<1>6. /\ op' \in Operations /\ op'.pc = "rmqueue" /\ op'.page = NoPage
      /\ op'.zone = op.zone /\ op'.order = op.order /\ op'.mt = op.mt
  BY Zenon, <1>1, <1>2 DEF Operations, Steps
<1>7. TypeOK'
  <2>1. free_pages' \in [Zones -> Int]
    BY <1>1, <1>2 DEF TypeOK
  <2> QED BY <1>1, <1>5, <1>6, <2>1 DEF TypeOK
<1>8. Sound(Placed)'
  <2> DEFINE r == <<"op", op.page, op.cur>>
  <2>1. r \in Placed
    BY <1>2, PlacedParts DEF InFlight
  <2>2. /\ BootPart' = BootPart /\ FreePart' = FreePart
        /\ OwnedPart' = OwnedPart /\ LostPart' = LostPart
    BY <1>1 DEF BootPart, FreePart, OwnedPart, LostPart
  <2>3. InFlight' = {} /\ PcpPart' = {<<"pcp", op.page, op.cur>>}
    BY <1>1, <1>4, <1>5, <1>6 DEF InFlight, PcpPart
  <2>4. BootPart \cup OwnedPart \cup LostPart \cup FreePart \subseteq Placed \ {r}
    BY PlacedParts DEF BootPart, OwnedPart, LostPart, FreePart
  <2>5. Placed' \subseteq (Placed \ {r}) \cup {<<"pcp", op.page, op.cur>>}
    <3>1. Placed' = BootPart' \cup FreePart' \cup PcpPart' \cup OwnedPart' \cup LostPart' \cup InFlight'
      BY DEF Placed, BootPart, FreePart, PcpPart, OwnedPart, LostPart
    <3> QED BY <2>2, <2>3, <2>4, <3>1
  <2>6. Sound(Placed')
    <3>1. "pcp" \in Kinds
      BY DEF Kinds
    <3> QED BY Zenon, <2>1, <2>5, <3>1, SoundHandOver
  <2> QED BY <2>6 DEF Sound, Separate, Apart, Inside
<1>9. WellFiled'
  BY <1>1 DEF WellFiled
<1>10. Control'
  BY <1>1, <1>2, <1>6 DEF Control
<1>11. PcpBrief'
  BY <1>1, <1>2, <1>4, <1>5, <1>6 DEF PcpBrief
<1> QED BY <1>7, <1>8, <1>9, <1>10, <1>11

(* prep_new_page hands the block out and ends the operation, or drops it and goes *)
(* back to __rmqueue.                                                             *)
LEMMA PrepNewPageEffect ==
    ASSUME TypeOK, NEW p \in Pages, NEW o \in Orders, PrepNewPage(p, o)
    PROVE  /\ op' \in Operations /\ op'.page = NoPage
           /\ op'.pc = "idle" \/ (op'.pc = "rmqueue" /\ op'.zone = op.zone)
           /\ count' \in [Pages -> Int] /\ owned' \subseteq Blocks /\ lost' \subseteq Blocks
           /\ \/ OwnedPart' \subseteq OwnedPart \cup {<<"owned", p, o>>} /\ LostPart' = LostPart
              \/ LostPart' \subseteq LostPart \cup {<<"lost", p, o>>} /\ OwnedPart' = OwnedPart
<1>0. <<p, o>> \in Blocks /\ op \in Operations /\ 0 \in Orders
  BY SizeFacts DEF Blocks, TypeOK
<1>1. CASE \E q \in Span(<<p, o>>) : check_new_page(q)
  <2>1. /\ lost' = lost \cup {<<p, o>>}
        /\ op' = [op EXCEPT !.pc = "rmqueue", !.page = NoPage, !.cur = 0]
        /\ UNCHANGED <<count, owned>>
    BY <1>1 DEF PrepNewPage
  <2>2. /\ op' \in Operations /\ op'.page = NoPage /\ op'.pc = "rmqueue" /\ op'.zone = op.zone
    <3>1. ASSUME NEW c \in Orders
          PROVE  LET n == [op EXCEPT !.pc = "rmqueue", !.page = NoPage, !.cur = c] IN
                 n \in Operations /\ n.page = NoPage /\ n.pc = "rmqueue" /\ n.zone = op.zone
      BY Zenon, <1>0 DEF Operations, Steps
    <3> QED BY <1>0, <2>1, <3>1, Zenon
  <2>3. LostPart' \subseteq LostPart \cup {<<"lost", p, o>>} /\ OwnedPart' = OwnedPart
    BY <2>1 DEF LostPart, OwnedPart
  <2>4. lost' \subseteq Blocks /\ owned' \subseteq Blocks /\ count' \in [Pages -> Int]
    BY <1>0, <2>1 DEF TypeOK
  <2> QED BY <2>2, <2>3, <2>4
<1>2. CASE ~ \E q \in Span(<<p, o>>) : check_new_page(q)
  <2>1. /\ count' = [count EXCEPT ![p] = 1]
        /\ owned' = owned \cup {<<p, o>>}
        /\ op' = Idle
        /\ lost' = lost
    BY <1>2 DEF PrepNewPage
  <2>2. op' \in Operations /\ op'.page = NoPage /\ op'.pc = "idle"
    BY <2>1, IdleTyped DEF Idle
  <2>3. OwnedPart' \subseteq OwnedPart \cup {<<"owned", p, o>>} /\ LostPart' = LostPart
    BY <2>1 DEF LostPart, OwnedPart
  <2>4. lost' \subseteq Blocks /\ owned' \subseteq Blocks /\ count' \in [Pages -> Int]
    BY <1>0, <2>1 DEF TypeOK
  <2> QED BY <2>2, <2>3, <2>4
<1> QED BY <1>1, <1>2

LEMMA HandOutStep == IInv /\ HandOut => IInv'
<1> SUFFICES ASSUME IInv, HandOut PROVE IInv'
  OBVIOUS
<1> USE DEF IInv
<1>1. /\ op.pc = "expand" /\ op.cur = op.order
      /\ free_pages' = [free_pages EXCEPT ![op.zone] = free_pages[op.zone] - Size[op.order]]
      /\ PrepNewPage(op.page, op.order)
      /\ UNCHANGED <<bootq, buddy, lru, nr_free, blocktype, pcp>>
  BY DEF HandOut
<1>2. /\ op.page # NoPage /\ op.page \in Pages /\ op.zone \in Zones
      /\ bootq = {} /\ op.order \in Orders /\ pcp.pages = {}
  BY Zenon, <1>1 DEF Control, TypeOK, Operations, PcpBrief
<1>3. /\ op' \in Operations /\ op'.page = NoPage
      /\ op'.pc = "idle" \/ (op'.pc = "rmqueue" /\ op'.zone = op.zone)
      /\ count' \in [Pages -> Int] /\ owned' \subseteq Blocks /\ lost' \subseteq Blocks
      /\ \/ OwnedPart' \subseteq OwnedPart \cup {<<"owned", op.page, op.order>>} /\ LostPart' = LostPart
         \/ LostPart' \subseteq LostPart \cup {<<"lost", op.page, op.order>>} /\ OwnedPart' = OwnedPart
  BY Zenon, <1>1, <1>2, PrepNewPageEffect
<1>4. TypeOK'
  <2>1. free_pages' \in [Zones -> Int]
    <3>1. Size[op.order] \in Nat \ {0}
      BY Zenon, <1>2, SizeFacts
    <3>2. free_pages \in [Zones -> Int]
      BY DEF TypeOK
    <3>3. free_pages[op.zone] - Size[op.order] \in Int
      BY <1>2, <3>1, <3>2
    <3> QED BY Zenon, <1>1, <3>2, <3>3, CounterTyped
  <2> QED BY <1>1, <1>3, <2>1 DEF TypeOK
<1>5. Sound(Placed)'
  <2> DEFINE r == <<"op", op.page, op.order>>
  <2>1. r \in Placed
    BY ZenonT(60), <1>1, <1>2, PlacedParts DEF InFlight
  <2>2. BootPart' = BootPart /\ FreePart' = FreePart /\ PcpPart' = PcpPart
    BY <1>1 DEF BootPart, FreePart, PcpPart
  <2>3. InFlight' = {}
    BY <1>3 DEF InFlight
  <2>4. BootPart \cup FreePart \cup PcpPart \cup OwnedPart \cup LostPart \subseteq Placed \ {r}
    <3>1. r \notin BootPart \cup FreePart \cup PcpPart \cup OwnedPart \cup LostPart
      BY DEF BootPart, FreePart, PcpPart, OwnedPart, LostPart
    <3> HIDE DEF r
    <3> QED BY <3>1, PlacedParts
  <2>5. PICK k \in {"owned", "lost"} :
           Placed' \subseteq (Placed \ {r}) \cup {<<k, op.page, op.order>>}
    <3>1. Placed' = BootPart' \cup FreePart' \cup PcpPart' \cup OwnedPart' \cup LostPart' \cup InFlight'
      BY DEF Placed, BootPart, FreePart, PcpPart, OwnedPart, LostPart
    <3> QED BY <1>3, <2>2, <2>3, <2>4, <3>1
  <2>6. Sound(Placed')
    <3>1. k \in Kinds
      BY <2>5 DEF Kinds
    <3> QED BY Zenon, <2>1, <2>5, <3>1, SoundHandOver
  <2> QED BY <2>6 DEF Sound, Separate, Apart, Inside
<1>6. WellFiled'
  BY <1>1 DEF WellFiled
<1>7. Control' /\ PcpBrief'
  BY Zenon, <1>1, <1>2, <1>3 DEF Control, PcpBrief
<1> QED BY <1>4, <1>5, <1>6, <1>7

LEMMA RmqueuePcpStep == IInv /\ RmqueuePcp => IInv'
<1> SUFFICES ASSUME IInv, RmqueuePcp PROVE IInv'
  OBVIOUS
<1> USE DEF IInv
<1>1. PICK e \in pcp.pages :
         /\ pcp' = [pcp EXCEPT !.count = pcp.count - 1, !.pages = pcp.pages \ {e}]
         /\ PrepNewPage(e.page, 0)
  BY Zenon DEF RmqueuePcp, PcpList
<1>2. /\ op.pc = "rmqueue"
      /\ UNCHANGED <<bootq, buddy, lru, nr_free, free_pages, blocktype>>
  BY DEF RmqueuePcp
<1>3. /\ pcp \in Pagesets /\ e \in Entries /\ e.page \in Pages /\ 0 \in Orders
      /\ pcp.pages \ {e} = {} /\ pcp.count = 1 /\ pcp.batch = 1 /\ pcp.high = 0
      /\ op.page = NoPage /\ op.zone \in Zones /\ bootq = {}
  <2>1. pcp \in Pagesets /\ e \in Entries
    BY DEF TypeOK, Pagesets
  <2>2. e.page \in Pages
    BY <2>1 DEF Entries
  <2>3. pcp.pages \ {e} = {} /\ pcp.count = 1 /\ pcp.batch = 1 /\ pcp.high = 0
    BY DEF PcpBrief
  <2> QED BY Zenon, <1>2, <2>1, <2>2, <2>3, SizeFacts DEF Control
<1>4. /\ op' \in Operations /\ op'.page = NoPage
      /\ op'.pc = "idle" \/ (op'.pc = "rmqueue" /\ op'.zone = op.zone)
      /\ count' \in [Pages -> Int] /\ owned' \subseteq Blocks /\ lost' \subseteq Blocks
      /\ \/ OwnedPart' \subseteq OwnedPart \cup {<<"owned", e.page, 0>>} /\ LostPart' = LostPart
         \/ LostPart' \subseteq LostPart \cup {<<"lost", e.page, 0>>} /\ OwnedPart' = OwnedPart
  BY <1>1, <1>3, PrepNewPageEffect
<1>5. /\ pcp' \in Pagesets
      /\ pcp'.pages = {} /\ pcp'.count = 0 /\ pcp'.high = 0 /\ pcp'.batch = 1
  <2> DEFINE n == pcp.count - 1
             E == pcp.pages \ {e}
  <2>1. n \in Int /\ n = 0 /\ E \in SUBSET Entries /\ E = {}
    BY <1>3
  <2>2. pcp' = [pcp EXCEPT !.count = n, !.pages = E]
    BY <1>1
  <2> HIDE DEF n, E
  <2>3. /\ pcp' \in Pagesets
        /\ pcp'.pages = E /\ pcp'.count = n /\ pcp'.high = pcp.high /\ pcp'.batch = pcp.batch
    BY Zenon, <1>3, <2>1, <2>2 DEF Pagesets
  <2> QED BY <1>3, <2>1, <2>3
<1>6. TypeOK'
  BY <1>2, <1>4, <1>5 DEF TypeOK
<1>7. Sound(Placed)'
  <2> DEFINE r == <<"pcp", e.page, 0>>
  <2>1. r \in Placed
    BY PlacedParts DEF PcpPart
  <2>2. BootPart' = BootPart /\ FreePart' = FreePart
    BY <1>2 DEF BootPart, FreePart
  <2>3. InFlight' = {} /\ PcpPart' = {}
    BY <1>4, <1>5 DEF InFlight, PcpPart
  <2>4. BootPart \cup FreePart \cup OwnedPart \cup LostPart \subseteq Placed \ {r}
    <3>1. r \notin BootPart \cup FreePart \cup OwnedPart \cup LostPart
      BY DEF BootPart, FreePart, OwnedPart, LostPart
    <3> HIDE DEF r
    <3> QED BY <3>1, PlacedParts
  <2>5. PICK k \in {"owned", "lost"} :
           Placed' \subseteq (Placed \ {r}) \cup {<<k, e.page, 0>>}
    <3>1. Placed' = BootPart' \cup FreePart' \cup PcpPart' \cup OwnedPart' \cup LostPart' \cup InFlight'
      BY DEF Placed, BootPart, FreePart, PcpPart, OwnedPart, LostPart
    <3> QED BY <1>4, <2>2, <2>3, <2>4, <3>1
  <2>6. Sound(Placed')
    <3>1. k \in Kinds /\ Sound(Placed)
      BY <2>5 DEF Kinds
    <3>2. r[2] = e.page /\ r[3] = 0
      OBVIOUS
    <3> HIDE DEF r
    <3> QED BY Zenon, <2>1, <2>5, <3>1, <3>2, SoundMove
  <2> QED BY <2>6 DEF Sound, Separate, Apart, Inside
<1>8. WellFiled'
  BY <1>2 DEF WellFiled
<1>9. Control' /\ PcpBrief'
  BY Zenon, <1>2, <1>3, <1>4, <1>5 DEF Control, PcpBrief
<1> QED BY <1>6, <1>7, <1>8, <1>9

-----------------------------------------------------------------------------
(* The theorems. *)
LEMMA NextKeepsIInv == IInv /\ [Next]_vars => IInv'
<1> SUFFICES ASSUME IInv, [Next]_vars PROVE IInv'
  OBVIOUS
<1>1. CASE FreePagesBootmem
  BY <1>1, FreePagesBootmemStep
<1>2. CASE Request
  BY <1>2, FreePagesStep, AllocPagesStep DEF Request
<1>3. CASE Continue
  BY <1>3, FreePcpPagesBulkStep, MergeBuddyStep, InsertBlockStep, ScanStep, RmqueuePcpStep,
     RmqueueStep, RmqueueStealStep, RmqueueFailStep, ExpandStep, RmqueueBulkStep, HandOutStep
     DEF Continue
<1>4. CASE UNCHANGED vars
  <2>1. Placed' = Placed
    BY <1>4 DEF vars, Placed, InFlight
  <2> QED BY Zenon, <1>4, <2>1
          DEF vars, IInv, TypeOK, Sound, Separate, Apart, Inside, WellFiled, Control, PcpBrief
<1> QED BY <1>1, <1>2, <1>3, <1>4 DEF Next

(* Every reachable state satisfies the inductive invariant. *)
THEOREM Invariance == Spec => []IInv
  BY InitIInv, NextKeepsIInv, PTL DEF Spec

(* The allocator's state always has its type. *)
THEOREM TypeCorrect == Spec => []TypeOK
<1>1. IInv => TypeOK
  BY DEF IInv
<1> QED BY <1>1, Invariance, PTL

(* No page is ever in two blocks, for any memory, zone layout and MAX_ORDER. *)
THEOREM BlocksDisjoint == Spec => []NoOverlap
<1>1. IInv => NoOverlap
  BY DEF IInv, Sound, Separate, Apart, NoOverlap
<1> QED BY <1>1, Invariance, PTL

(* PageBuddy and the free lists always agree, and the per-cpu list all zones      *)
(* share never moves a page into the lists of another zone.                       *)
THEOREM ListsWellFiled == Spec => []WellFiled
<1>1. IInv => WellFiled
  BY DEF IInv
<1> QED BY <1>1, Invariance, PTL

-----------------------------------------------------------------------------
(* The refinement.  A block that is in hand or on the per-cpu list, and not a     *)
(* boot block, is available to the frame allocator.                               *)
LEMMA PlacedAvailable ==
    ASSUME TypeOK, Sound(Placed), bootq = {}, NEW k \in {"op", "pcp"},
           NEW p \in Pages, NEW o \in Orders, <<k, p, o>> \in Placed
    PROVE  Frames!Available(<<p, o>>) /\ <<p, o>> \in Blocks
<1> DEFINE r == <<k, p, o>>
<1>1. <<p, o>> \in Blocks
  BY DEF Blocks
<1>2. r \in Placed /\ r[1] = k /\ r[2] = p /\ r[3] = o /\ Inside(r)
  BY DEF Sound
<1> HIDE DEF r
<1>3. p \in Nat /\ Size[o] \in Nat \ {0}
  BY SizeFacts, ZoneOfPage
<1>4. SUFFICES ASSUME NEW q \in Span(<<p, o>>)
               PROVE  /\ \E b \in BootBlocks : q \in Span(b)
                      /\ \A c \in owned \cup lost : q \notin Span(c)
  <2>1. /\ Frames!Memory = UNION {Span(b) : b \in BootBlocks}
        /\ Frames!Taken = UNION {Span(c) : c \in owned \cup lost}
    <3>1. BootBlocks \subseteq Blocks /\ owned \cup lost \subseteq Blocks
      BY BootAssumption DEF TypeOK
    <3> QED BY Zenon, <3>1 DEF Frames!Memory, Frames!Taken
  <2> QED BY <1>1, <1>4, <2>1 DEF Frames!Available
<1>5. q \in Int /\ p <= q /\ q < p + Size[o]
  BY <1>3 DEF Span
<1>6. q \in BootPages
  <2>1. /\ page_zone(p) \in Zones /\ ZoneStart[page_zone(p)] \in Nat /\ ZoneEnd[page_zone(p)] \in Nat
        /\ ZoneStart[page_zone(p)] <= p /\ p + Size[o] <= ZoneEnd[page_zone(p)]
    BY Zenon, <1>2, ZoneOfPage, ZoneAssumption DEF Inside
  <2>2. q \in Nat /\ ZoneStart[page_zone(p)] <= q /\ q < ZoneEnd[page_zone(p)]
    BY <1>3, <1>5, <2>1
  <2>3. q \in Pages
    BY <2>1, <2>2, ZoneOfPage
  <2> QED BY <1>2, <1>5, <2>3 DEF Inside
<1>7. ASSUME NEW c \in owned \cup lost PROVE q \notin Span(c)
  <2>1. PICK y \in Placed : y[1] \in {"owned", "lost"} /\ y[2] = c[1] /\ y[3] = c[2]
    <3>1. CASE c \in owned
      <4>1. <<"owned", c[1], c[2]>> \in Placed
        BY <3>1, PlacedParts DEF OwnedPart
      <4> QED BY <4>1
    <3>2. CASE c \in lost
      <4>1. <<"lost", c[1], c[2]>> \in Placed
        BY <3>2, PlacedParts DEF LostPart
      <4> QED BY <4>1
    <3> QED BY <3>1, <3>2
  <2>2. y # r
    BY <1>2, <2>1
  <2>3. Apart(r, y)
    BY <1>2, <2>2 DEF Sound, Separate
  <2>4. c[1] \in Nat /\ Size[c[2]] \in Nat \ {0}
    BY <2>1, SizeFacts, ZoneOfPage DEF Sound, Inside
  <2> QED BY SMTT(60), <1>2, <1>3, <1>5, <2>1, <2>3, <2>4 DEF Apart, Span
<1> QED BY <1>6, <1>7 DEF BootPages

(* prep_new_page is a Grant or a Drop. *)
LEMMA PrepNewPageRefines ==
    ASSUME TypeOK, Sound(Placed), bootq = {}, bootq' = bootq, NEW k \in {"op", "pcp"},
           NEW p \in Pages, NEW o \in Orders, <<k, p, o>> \in Placed, PrepNewPage(p, o)
    PROVE  Frames!Next
<1>1. Frames!Available(<<p, o>>) /\ <<p, o>> \in Blocks
  BY PlacedAvailable
<1>2. \/ lost' = lost \cup {<<p, o>>} /\ owned' = owned
      \/ owned' = owned \cup {<<p, o>>} /\ lost' = lost
  BY DEF PrepNewPage
<1>3. Frames!Grant(<<p, o>>) \/ Frames!Drop(<<p, o>>)
  BY <1>1, <1>2 DEF Frames!Grant, Frames!Drop
<1> QED BY <1>1, <1>3 DEF Frames!Next

LEMMA StepRefines == IInv /\ [Next]_vars => [Frames!Next]_<<bootq, owned, lost>>
<1> SUFFICES ASSUME IInv, [Next]_vars PROVE Frames!Next \/ UNCHANGED <<bootq, owned, lost>>
  OBVIOUS
<1>1. CASE FreePagesBootmem
  <2>1. PICK b \in bootq : bootq' = bootq \ {b}
    BY <1>1 DEF FreePagesBootmem
  <2>2. b \in Blocks /\ UNCHANGED <<owned, lost>>
    BY <1>1 DEF FreePagesBootmem, IInv, TypeOK
  <2>3. Frames!Release(b)
    BY <2>1, <2>2 DEF Frames!Release
  <2> QED BY <2>2, <2>3 DEF Frames!Next
<1>2. CASE Request
  <2>1. CASE \E z \in Zones, o \in Orders, mt \in PcpTypes : AllocPages(z, o, mt)
    BY <2>1 DEF AllocPages
  <2>2. ASSUME NEW b \in owned, FreePages(b) PROVE Frames!Next
    <3>1. b \in Blocks
      BY DEF IInv, TypeOK
    <3>2. Frames!Return(b)
      BY <2>2 DEF FreePages, Frames!Return
    <3> QED BY <3>1, <3>2 DEF Frames!Next
  <2> QED BY <1>2, <2>1, <2>2 DEF Request
<1>3. CASE RmqueuePcp
  <2>1. PICK e \in pcp.pages : PrepNewPage(e.page, 0)
    BY <1>3 DEF RmqueuePcp, PcpList
  <2>2. e.page \in Pages /\ 0 \in Orders /\ bootq = {} /\ bootq' = bootq
    <3>1. e \in Entries
      BY DEF IInv, TypeOK, Pagesets
    <3> QED BY <1>3, <3>1, SizeFacts DEF Entries, IInv, Control, RmqueuePcp
  <2>3. <<"pcp", e.page, 0>> \in Placed
    BY PlacedParts DEF PcpPart
  <2> QED BY <2>1, <2>2, <2>3, PrepNewPageRefines DEF IInv
<1>4. CASE HandOut
  <2>1. PrepNewPage(op.page, op.order) /\ op.pc = "expand" /\ op.cur = op.order /\ bootq' = bootq
    BY <1>4 DEF HandOut
  <2>2. op.page # NoPage /\ op.page \in Pages /\ op.order \in Orders /\ bootq = {}
    BY <2>1 DEF IInv, TypeOK, Operations, Control
  <2>3. <<"op", op.page, op.order>> \in Placed
    BY <2>1, <2>2, PlacedParts DEF InFlight
  <2> QED BY <2>1, <2>2, <2>3, PrepNewPageRefines DEF IInv
<1>5. CASE Continue /\ ~RmqueuePcp /\ ~HandOut
  BY Zenon, <1>5 DEF Continue, FreePcpPagesBulk, MergeBuddy, InsertBlock, TryZone, ThisZoneFull,
     Rmqueue, RmqueueSmallest, RmqueueSteal, RmqueueFallback, RmqueueFail, Expand, RmqueueBulk
<1>6. CASE UNCHANGED vars
  BY <1>6 DEF vars
<1> QED BY <1>1, <1>2, <1>3, <1>4, <1>5, <1>6 DEF Next

(* The allocator implements the frame allocator: whatever the requests, a block   *)
(* it hands out is memory released at boot that nobody else holds.                *)
THEOREM Refinement == Spec => AllocatesFrames
<1>1. Init => Frames!Init
  BY DEF Init, Frames!Init
<1> QED BY <1>1, StepRefines, Invariance, PTL DEF Spec, AllocatesFrames, Frames!Spec, Frames!fvars

=============================================================================
