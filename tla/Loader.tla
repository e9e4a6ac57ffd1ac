------------------------------- MODULE Loader -------------------------------
(***************************************************************************)
(* The real-mode loader under setup/: the boot sector moves itself up,     *)
(* reads the rest of the loader and the kernel from the first drive        *)
(* (bootsect.S), asks the firmware for its memory map (memory.c), opens    *)
(* the A20 gate (a20.c), enters protected mode (pm.c) and copies the       *)
(* kernel to 1 MB (pmjump.S).                                              *)
(*                                                                         *)
(* Memory is addressed in sectors of 512 bytes, and mem says which sector  *)
(* of the disk is in it.  Words and bytes keep their width.  Messages, and *)
(* the clearing of the loader's bss behind its code and data, are left     *)
(* out.                                                                    *)
(***************************************************************************)
EXTENDS PageMath, Sequences, SequencesExt

CONSTANTS
    Geometries,        \* sectors per track, heads and cylinders of the drive
    Descriptors,       \* entries of the firmware's memory map
    E820MAX,           \* entries of boot_params.e820_map
    A20_ENABLE_LOOPS, A20_TEST_SHORT,
    Words              \* what may be in the word a20_test compares with

VARIABLES
    pc,
    disk,              \* the drive
    sectors_per_track, max_heads,      \* as the boot sector computes them
    args,              \* the words of load_sectors on the stack
    request,           \* the last read asked of the BIOS: its registers
    mem,               \* sector of memory -> sector of the disk in it
    reported,          \* descriptors the BIOS has returned: entry and ebx
    e820_map,          \* boot_params.e820_map, its first count entries
    a20, loops         \* the gate; the turns enable_a20 has left

vars == <<pc, disk, sectors_per_track, max_heads, args, request, mem, reported, e820_map,
          a20, loops>>

SEG_BOOTSECT2 == 36864     \* 0x9000
SEG_KERNEL == 4096         \* 0x1000
SIZE_SETUP == 17
SIZE_KERNEL == 1024
KERNEL_ENTRY == 2048       \* 1 MB

Sector(seg, off) == (seg * 16 + off) \div 512
Byte(x) == x % 256
Word(x) == x % 65536

(* The place of a sector on the disk. *)
Lba(cylinder, head, sector) == (cylinder * disk.heads + head) * disk.spt + sector - 1

NoRequest == [al |-> 0, ch |-> 0, cl |-> 0, dh |-> 0, es |-> 0, bx |-> 0]
Args(seg, off, rest, cylinder, head, sector) ==
    [seg |-> seg, off |-> off, rest |-> rest,
     cylinder |-> cylinder, head |-> head, sector |-> sector]
SetupArgs == Args(SEG_BOOTSECT2, 512, SIZE_SETUP, 0, 0, 2)
KernelArgs == Args(SEG_KERNEL, 0, SIZE_KERNEL, 0, 1, 1)

Init ==
    /\ pc = "start"
    /\ disk \in Geometries
    /\ sectors_per_track = 0 /\ max_heads = 0
    /\ args = SetupArgs
    /\ request = NoRequest
    /\ mem = <<>>
    /\ reported = <<>> /\ e820_map = <<>>
    /\ a20 \in BOOLEAN /\ loops = 0

(* The boot sector is in its new place.  The drive's parameters are the    *)
(* largest numbers; the loader keeps bounds, one more.                     *)
get_drive_parameters ==
    /\ pc = "start"
    /\ mem' = [a \in {Sector(SEG_BOOTSECT2, 0)} |-> 0]
    /\ sectors_per_track' = Byte(disk.spt + 1)
    /\ max_heads' = Byte(disk.heads)
    /\ args' = SetupArgs
    /\ pc' = "load_setup"
    /\ UNCHANGED <<disk, request, reported, e820_map, a20, loops>>

(* The sectors to the end of the 64 KB segment. *)
SegmentRoom(off) == IF off = 0 THEN 128 ELSE Word(65536 - off) \div 512

(* Mutant: the bound of the track is taken for its last sector. *)
TrackRoomInclusive(sector) == Word(sectors_per_track + 1 - sector)

(* The sectors to the end of the track. *)
TrackRoom(sector) == Word(sectors_per_track - sector)

(* How many sectors the next read asks for. *)
ReadCount(a) ==
    LeastOf(LeastOf(TrackRoom(a.sector), a.rest), SegmentRoom(a.off))

(* Where load_sectors goes on after n sectors. *)
Advance(a, n) ==
    LET last   == Byte(a.sector + n) >= sectors_per_track
        dh     == IF last THEN Byte(a.head + 1) ELSE a.head
        wraps  == dh >= max_heads
        bx     == a.off + Word(n * 512)
        over   == bx >= 65536
    IN [seg      |-> IF over THEN Word(a.seg + 4096) ELSE a.seg,
        off      |-> IF over THEN 0 ELSE bx,
        rest     |-> Word(a.rest - n),
        cylinder |-> IF wraps THEN Byte(a.cylinder + 1) ELSE a.cylinder,
        head     |-> IF wraps THEN 0 ELSE dh,
        sector   |-> IF last THEN 1 ELSE Byte(a.sector + n)]

(* The BIOS can read what is on one track of the drive, into one segment.  *)
OnDisk(r) == r.dh < disk.heads /\ r.ch < disk.cylinders
Readable(r) ==
    /\ OnDisk(r)
    /\ r.al >= 1 /\ r.cl >= 1 /\ r.cl + r.al - 1 <= disk.spt
    /\ r.bx + r.al * 512 <= 65536

(* Memory after the sectors of request r have been read. *)
Read(r) ==
    LET first == Sector(r.es, r.bx)
        area  == first .. first + r.al - 1
    IN [s \in DOMAIN mem \cup area |->
           IF s \in area THEN Lba(r.ch, r.dh, r.cl) + s - first ELSE mem[s]]

(* One turn of the loop of load_sectors, called at place; then is where    *)
(* the caller goes on.  A read the drive fails is not tried again.         *)
load_sectors(place, then) ==
    LET n == ReadCount(args)
        r == [al |-> Byte(n), ch |-> args.cylinder, cl |-> args.sector, dh |-> args.head,
              es |-> args.seg, bx |-> args.off]
        next == Advance(args, Byte(n))
    IN /\ pc = place
       /\ request' = r
       /\ \/ /\ Readable(r)
             /\ mem' = Read(r)
             /\ args' = IF next.rest = 0 THEN KernelArgs ELSE next
             /\ pc' = IF next.rest = 0 THEN then ELSE place
          \/ /\ pc' = "failed"
             /\ UNCHANGED <<mem, args>>
       /\ UNCHANGED <<disk, sectors_per_track, max_heads, reported, e820_map, a20, loops>>

load_setup == load_sectors("load_setup", "load_kernel")
load_kernel == load_sectors("load_kernel", "detect_memory_e820")

(* Mutant: does not look at the size of the map. *)
GoesOnUnbounded(ebx, count) == ebx # 0

(* The condition of the loop of detect_memory_e820. *)
GoesOn(ebx, count) == ebx # 0 /\ count < E820MAX

(* One turn of detect_memory_e820.  The firmware reports an error, or      *)
(* something else than a map, or an entry and where to go on: 0 with the   *)
(* last one, which is not kept.                                            *)
detect_memory_e820 ==
    /\ pc = "detect_memory_e820"
    /\ \/ pc' = "enable_a20" /\ UNCHANGED <<reported, e820_map>>
       \/ pc' = "enable_a20" /\ e820_map' = <<>> /\ UNCHANGED reported
       \/ \E entry \in Descriptors, ebx \in {0, 1} :
             /\ reported' = Append(reported, [entry |-> entry, ebx |-> ebx])
             /\ e820_map' = IF ebx = 0 THEN e820_map ELSE Append(e820_map, entry)
             /\ pc' = IF GoesOn(ebx, Len(e820_map) + 1) THEN pc ELSE "enable_a20"
    /\ loops' = IF pc' = pc THEN loops ELSE A20_ENABLE_LOOPS
    /\ UNCHANGED <<disk, sectors_per_track, max_heads, args, request, mem, a20>>

(* a20_test: counts up the word at 4 * 0x80, low at first, until the word  *)
(* 1 MB above it, high, differs.  Both are the same word while the gate is *)
(* closed.  The word is put back at the end.                               *)
a20_test(gate, n, low, high) == \E i \in 1 .. n : (IF gate THEN high ELSE low + i) # low + i

(* One turn of enable_a20: the gate may open when it is told to, or late,  *)
(* or never.  The caller does not look at the result.                      *)
enable_a20 ==
    /\ pc = "enable_a20"
    /\ \/ /\ loops = 0
          /\ pc' = "protected_mode_jump"
          /\ UNCHANGED <<a20, loops>>
       \/ \E gate \in {a20, TRUE}, low, high \in Words :
             /\ loops > 0
             /\ loops' = loops - 1
             /\ pc' = IF a20_test(gate, A20_TEST_SHORT, low, high)
                      THEN "protected_mode_jump" ELSE pc
             /\ a20' \in {gate, TRUE}
    /\ UNCHANGED <<disk, sectors_per_track, max_heads, args, request, mem, reported, e820_map>>

(* Where an address from 1 MB to 2 MB lands. *)
Behind(gate, sector) == IF gate THEN sector ELSE sector - KERNEL_ENTRY

protected_mode_jump ==
    LET from == Sector(SEG_KERNEL, 0)
        to   == Behind(a20, KERNEL_ENTRY)
        area == to .. to + SIZE_KERNEL - 1
    IN /\ pc = "protected_mode_jump"
       /\ mem' = [s \in DOMAIN mem \cup area |->
                     IF s \in area THEN mem[s - to + from] ELSE mem[s]]
       /\ pc' = "kernel"
       /\ UNCHANGED <<disk, sectors_per_track, max_heads, args, request, reported, e820_map,
                      a20, loops>>

Next ==
    \/ get_drive_parameters
    \/ load_setup
    \/ load_kernel
    \/ detect_memory_e820
    \/ enable_a20
    \/ protected_mode_jump

Spec == Init /\ [][Next]_vars

-----------------------------------------------------------------------------
(* Properties. *)

(* The sectors of memory that hold n sectors of the disk, one after the    *)
(* other, from lba on.                                                     *)
Holds(first, n, lba) ==
    \A k \in 0 .. n - 1 : first + k \in DOMAIN mem /\ mem[first + k] = lba + k

(* On disk the kernel follows the boot sector and the setup.  The loader   *)
(* reads from head 1 on, whatever the drive (bootsect.S:89).               *)
SetupLba == Lba(0, 0, 2)
KernelLba == 1 + SIZE_SETUP
KernelReadFrom == Lba(0, 1, 1)
Loaded(a, size) == size - a.rest

(* However tracks, cylinders and segments fall, load_sectors has put just  *)
(* the sectors read so far into memory, in the order of the disk and       *)
(* without a gap, has touched nothing else, and goes on with the sector    *)
(* that follows; no read crosses the end of a track or of a segment.       *)
LoadRight ==
    /\ request # NoRequest /\ OnDisk(request) => Readable(request)
    /\ pc = "load_setup" =>
          LET n == Loaded(args, SIZE_SETUP)
          IN /\ Holds(Sector(SEG_BOOTSECT2, 512), n, SetupLba)
             /\ Cardinality(DOMAIN mem) = n + 1
             /\ Lba(args.cylinder, args.head, args.sector) = SetupLba + n
    /\ pc = "load_kernel" =>
          LET n == Loaded(args, SIZE_KERNEL)
          IN /\ Holds(Sector(SEG_KERNEL, 0), n, KernelReadFrom)
             /\ Cardinality(DOMAIN mem) = n + SIZE_SETUP + 1
             /\ Lba(args.cylinder, args.head, args.sector) = KernelReadFrom + n

(* The processor fetches what the loader read for a kernel, all of it, and *)
(* on the drives the loader is made for, with 18 sectors per track, that   *)
(* is the image of the kernel.  The loader's own sectors are still intact  *)
(* below it.  The memory map fits and, unless the firmware broke off, is   *)
(* what it reported, in its order, but for its last entry                  *)
(* (detect_memory_e820, protected_mode_jump).                              *)
HandedOver ==
    pc = "kernel" =>
        /\ Holds(Behind(a20, KERNEL_ENTRY), SIZE_KERNEL, KernelReadFrom)
        /\ disk.spt = SIZE_SETUP + 1 =>
              Holds(Behind(a20, KERNEL_ENTRY), SIZE_KERNEL, KernelLba)
        /\ mem[Sector(SEG_BOOTSECT2, 0)] = 0
        /\ Holds(Sector(SEG_BOOTSECT2, 512), SIZE_SETUP, SetupLba)
        /\ Len(e820_map) <= E820MAX
        /\ e820_map = <<>> \/ Len(e820_map) >= Len(reported) - 1
        /\ \A i \in DOMAIN e820_map : e820_map[i] = reported[i].entry
=============================================================================
