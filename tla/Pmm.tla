-------------------------------- MODULE Pmm --------------------------------
(***************************************************************************)
(* The physical memory manager, kernel/src/kernel/pmm.c.                   *)
(*                                                                         *)
(* pmm_init is a sequence of loops over the Limine memory map, run once    *)
(* with interrupts disabled; each iteration is a step here, and `phase`    *)
(* says which loop is running.  Afterwards pmm_allocate_frame and          *)
(* pmm_free_frame are one step each: nothing interleaves with them.        *)
(*                                                                         *)
(* Addresses are counted in frames (address / 0x1000), since all of the    *)
(* PMM's own addresses are multiples of 0x1000; only a memory map entry    *)
(* and the argument of pmm_free_frame have byte granularity.  A bitmap is  *)
(* the set of the frames whose bit is 1.                                   *)
(***************************************************************************)
EXTENDS Integers, Sequences, FiniteSets

CONSTANTS
  FrameSize,     \* bytes of a frame (0x1000)
  ByteBits,      \* frames that one byte of a bitmap describes (8)
  WordFrames,    \* 2^64 / 0x1000: unsigned subtraction wraps at this
  MemoryMaps,    \* the Limine memory maps the kernel may be booted with
  Callers        \* the parts of the kernel that ask for frames

Entry == [base : Nat, length : Nat, usable : BOOLEAN]

\* Physical addresses are far below 2^64: rounding one up does not wrap.
ASSUME PmmAssumption ==
  /\ FrameSize \in Nat \ {0}
  /\ ByteBits \in Nat \ {0}
  /\ WordFrames \in Nat \ {0}
  /\ \A m \in MemoryMaps :
       /\ m \in Seq(Entry)
       /\ \A i \in DOMAIN m :
            m[i].base + m[i].length + FrameSize <= WordFrames * FrameSize

VARIABLES
  memmap,        \* the memory map of this boot
  phase,         \* where pmm_init is; bitmap_ready is phase = "ready"
  entry,         \* i, the index of the loop that is running
  scan,          \* highest_usable_end and largest_usable_{base,end,length}
  frame_count,
  next_frame,    \* next_frame_address of the bump allocator
  reserved,      \* how many frames pmm_init has taken from it
  bitmap_at,     \* bitmap_physical_address
  ownership_at,  \* ownership_bitmap_physical_address
  bitmap,        \* frames marked used in the main bitmap
  ownership,     \* frames marked used in the ownership bitmap
  holds,         \* caller -> the frames it was given and has not freed
  panic          \* the message of the panic that halted the kernel, or ""

booting == <<memmap, entry, scan, frame_count, next_frame, reserved,
             bitmap_at, ownership_at>>
vars == <<booting, phase, bitmap, ownership, holds, panic>>

-----------------------------------------------------------------------------
\* Mutant: a base that is rounded down.
UsableBase_RoundedDown(e) == e.base \div FrameSize

\* usable_base rounds up and usable_end down: only whole frames remain.
UsableBase(e) == (e.base + FrameSize - 1) \div FrameSize
UsableEnd(e)  == (e.base + e.length) \div FrameSize

\* uint64_t subtraction, in frames.
WordSub(a, b) == IF a >= b THEN a - b ELSE a + WordFrames - b

\* Mutant: the last, partly used byte is forgotten.
PagesFor_RoundedDown(frames) ==
  (frames \div ByteBits + FrameSize - 1) \div FrameSize

\* bitmap_page_count for a given frame_count: bits to bytes, bytes to pages.
PagesFor(frames) ==
  LET bytes == (frames + ByteBits - 1) \div ByteBits
  IN  (bytes + FrameSize - 1) \div FrameSize

bitmap_page_count == PagesFor(frame_count)

\* Mutant: the bitmap pages are counted downwards.
Metadata_Below ==
  bitmap_at - bitmap_page_count .. bitmap_at - 1
  \cup ownership_at - bitmap_page_count .. ownership_at - 1

\* The frames that hold the two bitmaps.
Metadata == bitmap_at .. bitmap_at + bitmap_page_count - 1
            \cup ownership_at .. ownership_at + bitmap_page_count - 1

\* Mutants: the bit is not looked at; the last frame is not looked at.
FreeFrames_Unchecked == 0 .. frame_count - 1
FreeFrames_ButLast   == {f \in 0 .. frame_count - 2 : f \notin bitmap}

\* pmm_bitmap_is_frame_free, for every frame the scan in
\* pmm_allocate_frame and pmm_get_free_frame_count looks at.
FreeFrames == {f \in 0 .. frame_count - 1 : f \notin bitmap}

NoScan == [highest |-> 0, base |-> 0, end |-> 0, length |-> 0]

Init ==
  /\ memmap \in MemoryMaps
  /\ phase = "off"
  /\ entry = 1
  /\ scan = NoScan
  /\ frame_count = 0
  /\ next_frame = 0
  /\ reserved = 0
  /\ bitmap_at = 0
  /\ ownership_at = 0
  /\ bitmap = {}
  /\ ownership = {}
  /\ holds = [c \in Callers |-> {}]
  /\ panic = ""

Panic(message) ==
  /\ panic' = message
  /\ UNCHANGED <<booting, phase, bitmap, ownership, holds>>

-----------------------------------------------------------------------------
(* pmm_init                                                                *)

CallInit ==
  /\ panic = "" /\ phase = "off"
  /\ phase' = "scan"
  /\ UNCHANGED <<booting, bitmap, ownership, holds, panic>>

\* Mutant: the last range instead of the biggest.
Scanned_Last(s, e) ==
  [highest |-> IF UsableEnd(e) > s.highest THEN UsableEnd(e) ELSE s.highest,
   base    |-> UsableBase(e),
   end     |-> UsableEnd(e),
   length  |-> WordSub(UsableEnd(e), UsableBase(e))]

\* The highest usable end and the first of the biggest usable ranges so far.
Scanned(s, e) ==
  LET length == WordSub(UsableEnd(e), UsableBase(e))
      high   == IF UsableEnd(e) > s.highest THEN UsableEnd(e) ELSE s.highest
  IN  IF length > s.length
      THEN [highest |-> high, base |-> UsableBase(e), end |-> UsableEnd(e),
            length |-> length]
      ELSE [s EXCEPT !.highest = high]

\* Mutant: the index moves on for usable entries only.
ScanEntry_Stuck ==
  /\ panic = "" /\ phase = "scan"
  /\ entry <= Len(memmap)
  /\ entry' = IF memmap[entry].usable THEN entry + 1 ELSE entry
  /\ scan' = IF memmap[entry].usable THEN Scanned(scan, memmap[entry]) ELSE scan
  /\ UNCHANGED <<memmap, phase, frame_count, next_frame, reserved, bitmap_at,
                 ownership_at, bitmap, ownership, holds, panic>>

ScanEntry ==
  /\ panic = "" /\ phase = "scan"
  /\ entry <= Len(memmap)
  /\ entry' = entry + 1
  /\ scan' = IF memmap[entry].usable THEN Scanned(scan, memmap[entry]) ELSE scan
  /\ UNCHANGED <<memmap, phase, frame_count, next_frame, reserved, bitmap_at,
                 ownership_at, bitmap, ownership, holds, panic>>

SizeBitmaps ==
  /\ panic = "" /\ phase = "scan"
  /\ entry > Len(memmap)
  /\ frame_count' = scan.highest
  /\ IF scan.length < PagesFor(scan.highest) * 2
     THEN /\ panic' = "PMM bitmap does not fit in usable memory"
          /\ UNCHANGED <<phase, next_frame>>
     ELSE /\ phase' = "reserve"
          /\ next_frame' = scan.base
          /\ UNCHANGED panic
  /\ UNCHANGED <<memmap, entry, scan, reserved, bitmap_at, ownership_at,
                 bitmap, ownership, holds>>

\* pmm_allocate_frame while bitmap_ready is 0: the bump allocator.  The first
\* frame becomes the main bitmap, the one after its last page the ownership
\* bitmap.
ReserveBitmapFrame ==
  /\ panic = "" /\ phase = "reserve"
  /\ IF next_frame + 1 <= scan.end
     THEN /\ next_frame' = next_frame + 1
          /\ reserved' = reserved + 1
          /\ bitmap_at' = IF reserved = 0 THEN next_frame ELSE bitmap_at
          /\ ownership_at' = IF reserved = bitmap_page_count THEN next_frame
                                                          ELSE ownership_at
          /\ phase' = IF reserved + 1 = 2 * bitmap_page_count THEN "build"
                                                              ELSE "reserve"
          /\ UNCHANGED <<memmap, entry, scan, frame_count, bitmap, ownership,
                         holds, panic>>
     ELSE Panic("KBM_OUT_OF_MEMORY")

\* Both memsets: every frame blocked, and owned by nobody.
ClearBitmaps ==
  /\ panic = "" /\ phase = "build"
  /\ phase' = "free"
  /\ bitmap' = 0 .. frame_count - 1
  /\ ownership' = {}
  /\ entry' = 1
  /\ UNCHANGED <<memmap, scan, frame_count, next_frame, reserved, bitmap_at,
                 ownership_at, holds, panic>>

FreeUsableEntry ==
  /\ panic = "" /\ phase = "free"
  /\ entry <= Len(memmap)
  /\ entry' = entry + 1
  /\ bitmap' = IF memmap[entry].usable
               THEN bitmap \ (UsableBase(memmap[entry])
                                .. UsableEnd(memmap[entry]) - 1)
               ELSE bitmap
  /\ UNCHANGED <<memmap, phase, scan, frame_count, next_frame, reserved,
                 bitmap_at, ownership_at, ownership, holds, panic>>

\* The two loops over the bitmap pages, and bitmap_ready = 1.
ProtectBitmaps ==
  /\ panic = "" /\ phase = "free"
  /\ entry > Len(memmap)
  /\ bitmap' = bitmap \cup Metadata
  /\ phase' = "ready"
  /\ UNCHANGED <<booting, ownership, holds, panic>>

InitStep ==
  \/ ScanEntry \/ SizeBitmaps \/ ReserveBitmapFrame
  \/ ClearBitmaps \/ FreeUsableEntry \/ ProtectBitmaps

-----------------------------------------------------------------------------
(* The interface.  It may be called before pmm_init, never during it.      *)

pmm_allocate_frame(c) ==
  /\ panic = ""
  /\ \/ /\ phase = "off"              \* next_frame_address and pmm_end are 0
        /\ Panic("KBM_OUT_OF_MEMORY")
     \/ /\ phase = "ready"
        /\ FreeFrames = {}
        /\ Panic("KBM_OUT_OF_MEMORY")
     \/ /\ phase = "ready"
        /\ \E f \in FreeFrames :
             /\ \A g \in FreeFrames : f <= g
             /\ ownership' = ownership \cup {f}
             /\ bitmap' = bitmap \cup {f}
             /\ holds' = [holds EXCEPT ![c] = @ \cup {f}]
        /\ UNCHANGED <<booting, phase, panic>>

\* Mutant: the ownership bitmap is not consulted.
FreeError_Unowned(f, aligned) ==
  CASE phase # "ready" -> "KBM_BITMAP_NOT_READY"
    [] phase = "ready" /\ ~aligned -> "KBM_ADDRESS_NOT_ALIGNED"
    [] phase = "ready" /\ aligned /\ f >= frame_count ->
         "KBM_OUT_OF_FRAME_COUNT"
    [] OTHER -> ""

\* The message of the first check that rejects the address, or "".
FreeError(f, aligned) ==
  CASE phase # "ready" -> "KBM_BITMAP_NOT_READY"
    [] phase = "ready" /\ ~aligned -> "KBM_ADDRESS_NOT_ALIGNED"
    [] phase = "ready" /\ aligned /\ f >= frame_count ->
         "KBM_OUT_OF_FRAME_COUNT"
    [] phase = "ready" /\ aligned /\ f < frame_count
         /\ f \in bitmap_at .. bitmap_at + bitmap_page_count - 1 ->
         "KBM_BETWEEN_BITMAP_ADDRESS"
    [] phase = "ready" /\ aligned /\ f < frame_count
         /\ f \notin bitmap_at .. bitmap_at + bitmap_page_count - 1
         /\ f \notin ownership ->
         "KBM_FRAME_NOT_ALLOCATED"
    [] OTHER -> ""

\* A caller frees one of its frames, or an address that no caller holds; that
\* it leaves the frames of others alone is its part of the bargain.
pmm_free_frame(c, f, aligned) ==
  /\ panic = "" /\ phase \in {"off", "ready"}
  /\ \A d \in Callers \ {c} : f \notin holds[d]
  /\ IF FreeError(f, aligned) # ""
     THEN Panic(FreeError(f, aligned))
     ELSE /\ ownership' = ownership \ {f}
          /\ bitmap' = bitmap \ {f}
          /\ holds' = [holds EXCEPT ![c] = @ \ {f}]
          /\ UNCHANGED <<booting, phase, panic>>

\* cpu_halt_forever.
Halted == panic # "" /\ UNCHANGED vars

Next ==
  \/ CallInit
  \/ InitStep
  \/ \E c \in Callers :
       \/ pmm_allocate_frame(c)
       \/ \E f \in 0 .. frame_count, aligned \in BOOLEAN :
            pmm_free_frame(c, f, aligned)
  \/ Halted

\* Once called, pmm_init runs: the only processor executes nothing else.
Spec == Init /\ [][Next]_vars /\ WF_vars(InitStep)

-----------------------------------------------------------------------------
(* Properties                                                              *)

\* What the memory map says, byte by byte and without any rounding trick: the
\* frames that lie in an entry from their first byte to their last.
EntryFrames(e) ==
  {f \in e.base \div FrameSize .. (e.base + e.length) \div FrameSize :
     /\ e.base <= f * FrameSize
     /\ (f + 1) * FrameSize <= e.base + e.length}

UsableEntries == {memmap[i] : i \in {j \in DOMAIN memmap : memmap[j].usable}}
UsableFrames  == UNION {EntryFrames(e) : e \in UsableEntries}

phases == {"off", "scan", "reserve", "build", "free", "ready"}
panics == {"", "PMM bitmap does not fit in usable memory", "KBM_OUT_OF_MEMORY",
           "KBM_BITMAP_NOT_READY", "KBM_ADDRESS_NOT_ALIGNED",
           "KBM_OUT_OF_FRAME_COUNT", "KBM_BETWEEN_BITMAP_ADDRESS",
           "KBM_FRAME_NOT_ALLOCATED"}

TypeOK ==
  /\ memmap \in MemoryMaps
  /\ phase \in phases
  /\ entry \in 1 .. Len(memmap) + 1
  /\ scan \in [highest : Nat, base : Nat, end : Nat, length : Nat]
  /\ frame_count \in Nat
  /\ next_frame \in Nat
  /\ reserved \in Nat
  /\ bitmap_at \in Nat
  /\ ownership_at \in Nat
  /\ bitmap \in SUBSET Nat
  /\ ownership \in SUBSET Nat
  /\ holds \in [Callers -> SUBSET Nat]
  /\ panic \in panics

\* Every usable frame of the machine is free, or owned by a caller, or part of
\* a bitmap, and only one of these; and no other frame is any of them, so the
\* PMM neither leaks RAM nor hands out what is not RAM, through the rounding
\* of the entries, the bump allocator and any history of calls.
FrameAccounting ==
  phase = "ready" =>
    /\ FreeFrames \cup ownership \cup Metadata = UsableFrames
    /\ FreeFrames \cap ownership = {}
    /\ FreeFrames \cap Metadata = {}
    /\ ownership \cap Metadata = {}

\* A frame is never given to two callers, and the ownership bitmap that
\* pmm_free_frame trusts knows exactly the frames that are out.
NoSharing ==
  /\ \A c, d \in Callers : c # d => holds[c] \cap holds[d] = {}
  /\ UNION {holds[c] : c \in Callers} = ownership

\* While pmm_init builds and protects the bitmaps, they have one bit for every
\* frame below the highest usable address, they are all in usable RAM, and one
\* does not overwrite the other.
BitmapsFit ==
  phase \in {"build", "free", "ready"} =>
    /\ frame_count <= bitmap_page_count * FrameSize * ByteBits
    /\ \A e \in UsableEntries : \A f \in EntryFrames(e) : f < frame_count
    /\ Metadata \subseteq UsableFrames
    /\ bitmap_at + bitmap_page_count = ownership_at

\* pmm_init gives up only if it has to: if no usable entry has room for both
\* bitmaps (or nothing is usable at all).
RefusalJustified ==
  panic # "" /\ phase \in {"scan", "reserve"} =>
    \A e \in UsableEntries :
      \/ Cardinality(EntryFrames(e)) < 2 * PagesFor(frame_count)
      \/ EntryFrames(e) = {}

\* An out-of-memory panic after boot means that every usable frame outside the
\* bitmaps is in some caller's hands.
OutOfMemoryMeansFull ==
  panic = "KBM_OUT_OF_MEMORY" /\ phase = "ready" =>
    UsableFrames \ Metadata = UNION {holds[c] : c \in Callers}

\* pmm_init ends, with the PMM ready or the kernel halted.
InitFinishes == phase = "scan" ~> phase = "ready" \/ panic # ""

\* The two bitmaps, the bump allocator and the checks of pmm_free_frame
\* implement exclusive ownership: no call hands out a frame that is not free,
\* and none accepts the release of a frame that its caller does not hold.
Ownership == INSTANCE FrameOwnership WITH
  ram    <- UsableFrames,
  free   <- IF phase = "ready" THEN FreeFrames ELSE {},
  holds  <- holds,
  status <- IF panic # "" THEN "halted"
            ELSE IF phase = "ready" THEN "open" ELSE "closed"

ImplementsOwnership == Ownership!Spec
=============================================================================
