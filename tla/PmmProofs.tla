------------------------------ MODULE PmmProofs ------------------------------
(***************************************************************************)
(* Pmm keeps its frames accounted for and implements FrameOwnership, for   *)
(* every frame size, every set of memory maps and every set of callers.    *)
(***************************************************************************)
EXTENDS Pmm, FiniteSetTheorems, TLAPS

-----------------------------------------------------------------------------
(* Rounding to whole frames                                                *)

LEMMA DivDef ==
  ASSUME NEW a \in Nat, NEW d \in Nat \ {0}
  PROVE  /\ a \div d \in Nat
         /\ (a \div d) * d <= a
         /\ a < (a \div d) * d + d
BY Z3

LEMMA MulMono ==
  ASSUME NEW p \in Nat, NEW q \in Nat, NEW d \in Nat \ {0}, p <= q
  PROVE  p * d <= q * d
BY Z3

LEMMA DivAtLeast ==
  ASSUME NEW a \in Nat, NEW q \in Nat, NEW d \in Nat \ {0}
  PROVE  q <= a \div d <=> q * d <= a
<1>1. ASSUME q <= a \div d PROVE q * d <= a
  BY <1>1, DivDef, MulMono, SMT
<1>2. ASSUME ~(q <= a \div d) PROVE ~(q * d <= a)
  <2>1. (a \div d) + 1 <= q /\ (a \div d) + 1 \in Nat
    BY <1>2, DivDef, SMT
  <2>2. ((a \div d) + 1) * d <= q * d
    BY <2>1, MulMono
  <2>3. ((a \div d) + 1) * d = (a \div d) * d + d
    BY DivDef, SMT
  <2> QED BY <2>2, <2>3, DivDef, SMT
<1> QED BY <1>1, <1>2

\* Rounding a base up: the frames from there on are those that start at or
\* after the base.
LEMMA RoundUp ==
  ASSUME NEW a \in Nat, NEW q \in Nat, NEW d \in Nat \ {0}
  PROVE  (a + d - 1) \div d <= q <=> a <= q * d
<1>1. a + d - 1 \in Nat /\ q + 1 \in Nat /\ (a + d - 1) \div d \in Nat
  BY DivDef
<1>2. q + 1 <= (a + d - 1) \div d <=> (q + 1) * d <= a + d - 1
  BY <1>1, DivAtLeast
<1>3. (q + 1) * d = q * d + d /\ q * d \in Nat
  BY SMT
<1> QED BY <1>1, <1>2, <1>3, SMT

\* The frames that pmm_init takes from an entry.
UsableRange(e) == UsableBase(e) .. UsableEnd(e) - 1

LEMMA EntryType ==
  ASSUME memmap \in MemoryMaps
  PROVE  /\ Len(memmap) \in Nat
         /\ DOMAIN memmap = 1 .. Len(memmap)
         /\ \A i \in DOMAIN memmap : memmap[i] \in Entry
         /\ \A i \in DOMAIN memmap :
              memmap[i].base + memmap[i].length + FrameSize
                <= WordFrames * FrameSize
BY PmmAssumption

LEMMA RangeType ==
  ASSUME NEW e \in Entry
  PROVE  UsableBase(e) \in Nat /\ UsableEnd(e) \in Nat
<1>1. e.base \in Nat /\ e.length \in Nat
  BY DEF Entry
<1>2. e.base + FrameSize - 1 \in Nat /\ e.base + e.length \in Nat
  BY <1>1, PmmAssumption
<1> QED BY <1>2, DivDef, PmmAssumption DEF UsableBase, UsableEnd

\* The masks of pmm_init select exactly the whole frames of an entry.
LEMMA EntryFramesAreRange ==
  ASSUME NEW e \in Entry
  PROVE  EntryFrames(e) = UsableRange(e)
<1> DEFINE limit == e.base + e.length
<1>1. e.base \in Nat /\ e.length \in Nat /\ limit \in Nat
  BY DEF Entry
<1>2. /\ e.base \div FrameSize \in Nat
      /\ limit \div FrameSize \in Nat
      /\ UsableBase(e) \in Nat
      /\ UsableEnd(e) = limit \div FrameSize
  BY <1>1, DivDef, RangeType, PmmAssumption DEF UsableEnd
<1>3. ASSUME NEW f \in Nat
      PROVE  /\ UsableBase(e) <= f <=> e.base <= f * FrameSize
             /\ f <= UsableEnd(e) - 1 <=> (f + 1) * FrameSize <= limit
  <2>1. UsableBase(e) <= f <=> e.base <= f * FrameSize
    BY <1>1, RoundUp, PmmAssumption DEF UsableBase
  <2>2. f + 1 \in Nat
    OBVIOUS
  <2>3. f + 1 <= limit \div FrameSize <=> (f + 1) * FrameSize <= limit
    BY <1>1, <2>2, DivAtLeast, PmmAssumption
  <2> QED BY <2>1, <2>3, <1>2
<1>4. ASSUME NEW f \in Nat, e.base <= f * FrameSize,
             (f + 1) * FrameSize <= limit
      PROVE  f \in e.base \div FrameSize .. limit \div FrameSize
  <2>1. f + 1 <= limit \div FrameSize
    BY <1>2, <1>3, <1>4
  <2>2. e.base \div FrameSize <= f
    <3>1. SUFFICES ASSUME f + 1 <= e.base \div FrameSize
                   PROVE  FALSE
      BY <1>2
    <3> f + 1 \in Nat
      OBVIOUS
    <3>2. (f + 1) * FrameSize <= e.base
      BY <3>1, <1>1, DivAtLeast, PmmAssumption
    <3>3. (f + 1) * FrameSize = f * FrameSize + FrameSize
          /\ f * FrameSize \in Nat
      BY PmmAssumption, SMT
    <3> QED BY <3>2, <3>3, <1>1, <1>4, PmmAssumption
  <2> QED BY <2>1, <2>2, <1>2
<1>5. EntryFrames(e) \subseteq Nat /\ UsableRange(e) \subseteq Nat
  BY <1>2 DEF EntryFrames, UsableRange
<1>6. ASSUME NEW f \in Nat
      PROVE  f \in EntryFrames(e) <=> f \in UsableRange(e)
  <2>1. f \in UsableRange(e) <=> UsableBase(e) <= f /\ f <= UsableEnd(e) - 1
    BY <1>2 DEF UsableRange
  <2> QED BY <2>1, <1>3, <1>4 DEF EntryFrames
<1> QED BY <1>5, <1>6

\* The frames freed by the first k iterations of the loop over the entries.
Freed(m, k) ==
  {f \in Nat : \E i \in 1 .. k : m[i].usable /\ f \in UsableRange(m[i])}

LEMMA UsableFramesAreFreed ==
  ASSUME memmap \in MemoryMaps
  PROVE  UsableFrames = Freed(memmap, Len(memmap))
<1>1. UsableFrames = UNION {EntryFrames(e) : e \in UsableEntries}
  BY DEF UsableFrames
<1>2. \A f : f \in UsableFrames <=>
        \E i \in DOMAIN memmap :
          memmap[i].usable /\ f \in EntryFrames(memmap[i])
  BY <1>1 DEF UsableEntries
<1>3. \A i \in DOMAIN memmap :
        /\ EntryFrames(memmap[i]) = UsableRange(memmap[i])
        /\ UsableRange(memmap[i]) \subseteq Nat
  BY EntryType, EntryFramesAreRange, RangeType DEF UsableRange
<1> QED BY <1>2, <1>3, EntryType DEF Freed

-----------------------------------------------------------------------------
(* The inductive invariant, one conjunct per part of pmm_init and one for  *)
(* the interface                                                           *)

\* The scan has seen the ends of the entries before `entry`, ...
ScanInv ==
  phase \in {"off", "scan"} =>
    /\ reserved = 0
    /\ phase = "off" => entry = 1
    /\ \A i \in 1 .. entry - 1 :
         memmap[i].usable => UsableEnd(memmap[i]) <= scan.highest

\* ... remembers the range of one of them, if it is not empty, ...
RangeInv ==
  scan.base < scan.end =>
    \E i \in DOMAIN memmap :
      /\ memmap[i].usable
      /\ scan.base = UsableBase(memmap[i])
      /\ scan.end = UsableEnd(memmap[i])

\* ... and after it there is a bit for every usable frame.
CountInv ==
  phase \in {"reserve", "build", "free", "ready"} =>
    \A i \in DOMAIN memmap :
      memmap[i].usable => UsableEnd(memmap[i]) <= frame_count

\* The bump allocator places one bitmap after the other, ...
ReserveInv ==
  phase = "reserve" =>
    /\ next_frame = scan.base + reserved
    /\ reserved = 0 \/ reserved < 2 * bitmap_page_count
    /\ reserved > 0 => next_frame <= scan.end /\ bitmap_at = scan.base
    /\ reserved > bitmap_page_count =>
         ownership_at = scan.base + bitmap_page_count

\* ... both inside the chosen range.
PlacedInv ==
  phase \in {"build", "free", "ready"} =>
    /\ bitmap_at = scan.base
    /\ ownership_at = scan.base + bitmap_page_count
    /\ ownership_at + bitmap_page_count <= scan.end
    /\ bitmap_page_count > 0

\* The second loop frees the ranges of the entries before `entry`.
FreeInv ==
  phase = "free" =>
    bitmap = (0 .. frame_count - 1) \ Freed(memmap, entry - 1)

\* Nothing is handed out before the PMM is ready.
UnownedInv ==
  phase # "ready" => ownership = {} /\ \A c \in Callers : holds[c] = {}

IInv ==
  /\ TypeOK
  /\ ScanInv /\ RangeInv /\ CountInv
  /\ ReserveInv /\ PlacedInv /\ FreeInv /\ UnownedInv
  /\ FrameAccounting
  /\ NoSharing

-----------------------------------------------------------------------------
(* Facts about the operators                                               *)

\* As many bitmap pages as it takes to give every frame a bit.
LEMMA PagesForHolds ==
  ASSUME NEW n \in Nat
  PROVE  /\ PagesFor(n) \in Nat
         /\ n <= PagesFor(n) * FrameSize * ByteBits
         /\ n > 0 => PagesFor(n) > 0
<1> DEFINE bytes == (n + ByteBits - 1) \div ByteBits
           pages == (bytes + FrameSize - 1) \div FrameSize
<1> USE PmmAssumption
<1>1. n + ByteBits - 1 \in Nat /\ bytes \in Nat
  BY DivDef
<1>2. bytes + FrameSize - 1 \in Nat /\ pages \in Nat
  BY <1>1, DivDef
<1>3. n <= bytes * ByteBits
  BY <1>1, RoundUp
<1>4. bytes <= pages * FrameSize /\ pages * FrameSize \in Nat
  <2> HIDE DEF bytes
  <2> bytes <= pages * FrameSize
    BY <1>1, <1>2, RoundUp
  <2> QED BY <1>2
<1> HIDE DEF bytes, pages
<1>5. bytes * ByteBits <= (pages * FrameSize) * ByteBits
  BY <1>1, <1>4, MulMono
<1>6. n <= (pages * FrameSize) * ByteBits
  BY <1>1, <1>3, <1>4, <1>5
<1>7. n > 0 => pages > 0
  <2> SUFFICES ASSUME n > 0, ~(pages > 0) PROVE FALSE
    OBVIOUS
  <2>1. pages = 0
    BY <1>2
  <2> QED BY <1>6, <2>1
<1>8. PagesFor(n) = pages
  BY DEF PagesFor, pages, bytes
<1> QED BY <1>2, <1>6, <1>7, <1>8

\* One iteration of the scan keeps the range of the entry or the one before.
LEMMA ScannedKeeps ==
  ASSUME NEW e \in Entry,
         e.base + e.length + FrameSize <= WordFrames * FrameSize,
         NEW s \in [highest : Nat, base : Nat, end : Nat, length : Nat]
  PROVE  /\ Scanned(s, e)
              \in [highest : Nat, base : Nat, end : Nat, length : Nat]
         /\ s.highest <= Scanned(s, e).highest
         /\ UsableEnd(e) <= Scanned(s, e).highest
         /\ \/ /\ Scanned(s, e).base = UsableBase(e)
               /\ Scanned(s, e).end = UsableEnd(e)
            \/ /\ Scanned(s, e).base = s.base
               /\ Scanned(s, e).end = s.end
<1>1. UsableBase(e) \in Nat /\ UsableEnd(e) \in Nat
  BY RangeType
<1>2. UsableBase(e) <= WordFrames
  <2>1. e.base <= WordFrames * FrameSize
    BY PmmAssumption DEF Entry
  <2> QED BY <2>1, RoundUp, PmmAssumption DEF UsableBase, Entry
<1>3. WordSub(UsableEnd(e), UsableBase(e)) \in Nat
  BY <1>1, <1>2, PmmAssumption DEF WordSub
<1> QED BY <1>1, <1>3 DEF Scanned

-----------------------------------------------------------------------------
(* The invariant holds at boot and is preserved by every step              *)

LEMMA InitIInv == Init => IInv
<1> SUFFICES ASSUME Init PROVE IInv
  OBVIOUS
<1> USE DEF Init
<1>1. Len(memmap) \in Nat
  BY EntryType
<1>2. TypeOK
  <2>1. memmap \in MemoryMaps
    OBVIOUS
  <2>2. scan \in [highest : Nat, base : Nat, end : Nat, length : Nat]
    BY DEF NoScan
  <2>3. entry \in 1 .. Len(memmap) + 1
    <3>1. entry = 1
      OBVIOUS
    <3> HIDE DEF Init
    <3> QED BY <3>1, <1>1
  <2>4. phase \in phases /\ panic \in panics
    BY DEF phases, panics
  <2>5. holds \in [Callers -> SUBSET Nat]
    OBVIOUS
  <2> QED BY <2>1, <2>2, <2>3, <2>4, <2>5 DEF TypeOK
<1>3. ScanInv /\ RangeInv /\ CountInv
  <2>1. entry = 1 /\ reserved = 0 /\ scan.base = 0 /\ scan.end = 0
    BY DEF NoScan
  <2> HIDE DEF Init
  <2>2. ScanInv
    BY <2>1 DEF ScanInv
  <2>3. RangeInv
    BY <2>1 DEF RangeInv
  <2>4. CountInv
    BY DEF Init, CountInv
  <2> QED BY <2>2, <2>3, <2>4
<1>4. ReserveInv /\ PlacedInv /\ FreeInv /\ UnownedInv
  BY DEF ReserveInv, PlacedInv, FreeInv, UnownedInv
<1>5. FrameAccounting /\ NoSharing
  BY DEF FrameAccounting, NoSharing
<1> QED BY <1>2, <1>3, <1>4, <1>5 DEF IInv

\* What a step that leaves the map and the bitmaps' places alone preserves.
LEMMA FramesUnchanged ==
  ASSUME UNCHANGED <<memmap, frame_count, bitmap_at, ownership_at>>
  PROVE  /\ UsableFrames' = UsableFrames
         /\ bitmap_page_count' = bitmap_page_count
         /\ Metadata' = Metadata
BY DEF UsableFrames, UsableEntries, bitmap_page_count, Metadata

LEMMA StepUnchanged == IInv /\ UNCHANGED vars => IInv'
<1> SUFFICES ASSUME IInv, UNCHANGED vars PROVE IInv'
  OBVIOUS
<1> USE FramesUnchanged DEF vars, booting
<1>1. TypeOK'
  BY DEF IInv, TypeOK
<1>2. (ScanInv /\ RangeInv /\ CountInv)'
  BY DEF IInv, ScanInv, RangeInv, CountInv
<1>3. (ReserveInv /\ PlacedInv /\ FreeInv /\ UnownedInv)'
  BY DEF IInv, ReserveInv, PlacedInv, FreeInv, UnownedInv
<1>4. (FrameAccounting /\ NoSharing)'
  BY DEF IInv, FrameAccounting, NoSharing, FreeFrames
<1> QED BY <1>1, <1>2, <1>3, <1>4 DEF IInv

LEMMA StepPanic ==
  ASSUME NEW message \in panics
  PROVE  IInv /\ Panic(message) => IInv'
<1> SUFFICES ASSUME IInv, Panic(message) PROVE IInv'
  OBVIOUS
<1> USE FramesUnchanged DEF Panic, booting
<1>1. TypeOK'
  BY DEF IInv, TypeOK
<1>2. (ScanInv /\ RangeInv /\ CountInv)'
  BY DEF IInv, ScanInv, RangeInv, CountInv
<1>3. (ReserveInv /\ PlacedInv /\ FreeInv /\ UnownedInv)'
  BY DEF IInv, ReserveInv, PlacedInv, FreeInv, UnownedInv
<1>4. (FrameAccounting /\ NoSharing)'
  BY DEF IInv, FrameAccounting, NoSharing, FreeFrames
<1> QED BY <1>1, <1>2, <1>3, <1>4 DEF IInv

LEMMA StepCallInit == IInv /\ CallInit => IInv'
<1> SUFFICES ASSUME IInv, CallInit PROVE IInv'
  OBVIOUS
<1> USE FramesUnchanged DEF CallInit, booting
<1>1. TypeOK'
  BY DEF IInv, TypeOK, phases
<1>2. (ScanInv /\ RangeInv /\ CountInv)'
  BY DEF IInv, TypeOK, ScanInv, RangeInv, CountInv
<1>3. (ReserveInv /\ PlacedInv /\ FreeInv /\ UnownedInv)'
  BY DEF IInv, ReserveInv, PlacedInv, FreeInv, UnownedInv
<1>4. (FrameAccounting /\ NoSharing)'
  BY DEF IInv, FrameAccounting, NoSharing, FreeFrames
<1> QED BY <1>1, <1>2, <1>3, <1>4 DEF IInv

LEMMA StepScanEntry == IInv /\ ScanEntry => IInv'
<1> SUFFICES ASSUME IInv, ScanEntry PROVE IInv'
  OBVIOUS
<1>1. /\ TypeOK /\ ScanInv /\ RangeInv
      /\ UNCHANGED <<memmap, phase, frame_count, next_frame, reserved,
                     bitmap_at, ownership_at, bitmap, ownership, holds, panic>>
      /\ phase = "scan" /\ entry <= Len(memmap) /\ entry' = entry + 1
      /\ memmap \in MemoryMaps
      /\ scan \in [highest : Nat, base : Nat, end : Nat, length : Nat]
  BY DEF IInv, TypeOK, ScanEntry
<1>2. Len(memmap) \in Nat /\ DOMAIN memmap = 1 .. Len(memmap)
  BY <1>1, EntryType
<1>3. entry \in 1 .. Len(memmap)
  BY <1>1, <1>2 DEF TypeOK
<1>4. /\ memmap[entry] \in Entry
      /\ memmap[entry].base + memmap[entry].length + FrameSize
           <= WordFrames * FrameSize
  BY <1>1, <1>2, <1>3, EntryType
<1>5. /\ scan' \in [highest : Nat, base : Nat, end : Nat, length : Nat]
      /\ scan.highest <= scan'.highest
      /\ memmap[entry].usable =>
           UsableEnd(memmap[entry]) <= scan'.highest
      /\ \/ /\ scan'.base = scan.base /\ scan'.end = scan.end
         \/ /\ memmap[entry].usable
            /\ scan'.base = UsableBase(memmap[entry])
            /\ scan'.end = UsableEnd(memmap[entry])
  <2>1. CASE memmap[entry].usable
    <3>1. scan' = Scanned(scan, memmap[entry])
      BY <2>1 DEF ScanEntry
    <3> QED BY <3>1, <2>1, <1>1, <1>4, ScannedKeeps
  <2>2. CASE ~memmap[entry].usable
    <3>1. scan' = scan
      BY <2>2 DEF ScanEntry
    <3>2. scan.highest <= scan.highest
      BY <1>1
    <3> QED BY <3>1, <3>2, <2>2, <1>1
  <2> QED BY <2>1, <2>2
<1>6. TypeOK'
  <2>1. entry' \in 1 .. Len(memmap') + 1
    BY <1>1, <1>2, <1>3
  <2> QED BY <2>1, <1>1, <1>5 DEF TypeOK
<1>7. ScanInv'
  <2> SUFFICES ASSUME NEW i \in 1 .. entry' - 1, memmap[i].usable
               PROVE  UsableEnd(memmap[i]) <= scan'.highest
    BY <1>1 DEF ScanInv
  <2>1. i = entry \/ i \in 1 .. entry - 1
    BY <1>1, <1>3
  <2>2. CASE i = entry
    BY <2>2, <1>5
  <2>3. CASE i \in 1 .. entry - 1
    <3>1. UsableEnd(memmap[i]) <= scan.highest
      BY <2>3, <1>1 DEF ScanInv
    <3>2. i \in DOMAIN memmap
      BY <2>3, <1>2, <1>3
    <3>3. UsableEnd(memmap[i]) \in Nat
      BY <3>2, <1>1, EntryType, RangeType
    <3> QED BY <3>1, <3>3, <1>1, <1>5
  <2> QED BY <2>1, <2>2, <2>3
<1>8. RangeInv'
  BY <1>1, <1>2, <1>3, <1>5 DEF RangeInv
<1>9. (CountInv /\ ReserveInv /\ PlacedInv /\ FreeInv /\ UnownedInv)'
  BY <1>1 DEF IInv, CountInv, ReserveInv, PlacedInv, FreeInv, UnownedInv
<1>10. (FrameAccounting /\ NoSharing)'
  BY <1>1 DEF IInv, FrameAccounting, NoSharing
<1> QED BY <1>6, <1>7, <1>8, <1>9, <1>10 DEF IInv

LEMMA StepSizeBitmaps == IInv /\ SizeBitmaps => IInv'
<1> SUFFICES ASSUME IInv, SizeBitmaps PROVE IInv'
  OBVIOUS
<1>1. /\ TypeOK /\ ScanInv /\ RangeInv
      /\ UNCHANGED <<memmap, entry, scan, reserved, bitmap_at, ownership_at,
                     bitmap, ownership, holds>>
      /\ phase = "scan" /\ reserved = 0 /\ frame_count' = scan.highest
      /\ phase' \in {"scan", "reserve"}
      /\ phase' = "reserve" => next_frame' = scan.base
      /\ memmap \in MemoryMaps
      /\ scan \in [highest : Nat, base : Nat, end : Nat, length : Nat]
  BY DEF IInv, TypeOK, ScanInv, SizeBitmaps
<1>2. Len(memmap) \in Nat /\ DOMAIN memmap = 1 .. Len(memmap)
  BY <1>1, EntryType
<1>3. entry = Len(memmap) + 1
  <2>1. entry \in 1 .. Len(memmap) + 1 /\ entry > Len(memmap)
    BY DEF IInv, TypeOK, SizeBitmaps
  <2> QED BY <2>1, <1>2
<1>4. TypeOK'
  <2>1. next_frame' \in Nat /\ panic' \in panics
    BY <1>1 DEF SizeBitmaps, TypeOK, panics
  <2>2. phase' \in phases /\ frame_count' \in Nat
    BY <1>1 DEF phases
  <2> QED BY <2>1, <2>2, <1>1 DEF TypeOK
<1>5. (ScanInv /\ RangeInv)'
  BY <1>1 DEF ScanInv, RangeInv
<1>6. CountInv'
  <2> SUFFICES ASSUME NEW i \in DOMAIN memmap, memmap[i].usable
               PROVE  UsableEnd(memmap[i]) <= scan.highest
    BY <1>1 DEF CountInv
  <2>1. i \in 1 .. entry - 1
    BY <1>2, <1>3
  <2> QED BY <2>1, <1>1 DEF ScanInv
<1>7. ReserveInv'
  <2>1. bitmap_page_count' \in Nat
    BY <1>1, PagesForHolds DEF bitmap_page_count
  <2>2. ~(reserved' > 0) /\ ~(reserved' > bitmap_page_count')
    BY <2>1, <1>1
  <2> QED BY <2>2, <1>1 DEF ReserveInv
<1>8. (PlacedInv /\ FreeInv /\ UnownedInv)'
  BY <1>1 DEF IInv, PlacedInv, FreeInv, UnownedInv
<1>9. (FrameAccounting /\ NoSharing)'
  BY <1>1 DEF IInv, FrameAccounting, NoSharing
<1> QED BY <1>4, <1>5, <1>6, <1>7, <1>8, <1>9 DEF IInv

LEMMA StepReserve == IInv /\ ReserveBitmapFrame => IInv'
<1> SUFFICES ASSUME IInv, ReserveBitmapFrame PROVE IInv'
  OBVIOUS
<1>1. CASE ~(next_frame + 1 <= scan.end)
  <2>1. Panic("KBM_OUT_OF_MEMORY")
    BY <1>1 DEF ReserveBitmapFrame
  <2>2. "KBM_OUT_OF_MEMORY" \in panics
    BY DEF panics
  <2> QED BY <2>1, <2>2, StepPanic
<1>2. CASE next_frame + 1 <= scan.end
  <2> DEFINE pc == bitmap_page_count
  <2>1. /\ TypeOK /\ RangeInv /\ CountInv /\ ReserveInv /\ UnownedInv
        /\ FrameAccounting /\ NoSharing
        /\ UNCHANGED <<memmap, entry, scan, frame_count, bitmap, ownership,
                       holds, panic>>
        /\ phase = "reserve"
        /\ next_frame' = next_frame + 1
        /\ reserved' = reserved + 1
        /\ bitmap_at' = IF reserved = 0 THEN next_frame ELSE bitmap_at
        /\ ownership_at' = IF reserved = pc THEN next_frame ELSE ownership_at
        /\ phase' = IF reserved + 1 = 2 * pc THEN "build" ELSE "reserve"
    BY <1>2 DEF IInv, ReserveBitmapFrame
  <2>2. /\ next_frame \in Nat /\ reserved \in Nat /\ frame_count \in Nat
        /\ bitmap_at \in Nat /\ ownership_at \in Nat
        /\ scan.base \in Nat /\ scan.end \in Nat
    BY <2>1 DEF TypeOK
  <2>3. pc \in Nat /\ bitmap_page_count' = pc
    BY <2>1, <2>2, PagesForHolds DEF bitmap_page_count
  <2>4. next_frame = scan.base + reserved
    BY <2>1 DEF ReserveInv
  <2>5. pc > 0
    <3>1. scan.base < scan.end
      BY <1>2, <2>2, <2>4
    <3>2. PICK i \in DOMAIN memmap :
            memmap[i].usable /\ scan.end = UsableEnd(memmap[i])
      BY <3>1, <2>1 DEF RangeInv
    <3>3. scan.end <= frame_count
      BY <3>2, <2>1 DEF CountInv
    <3> QED BY <3>1, <3>3, <2>2, PagesForHolds DEF bitmap_page_count
  <2>6. TypeOK'
    <3>1. phase' \in phases
      BY <2>1 DEF phases
    <3>2. /\ next_frame' \in Nat /\ reserved' \in Nat
          /\ bitmap_at' \in Nat /\ ownership_at' \in Nat
      BY <2>1, <2>2
    <3> QED BY <3>1, <3>2, <2>1 DEF TypeOK
  <2>7. (ScanInv /\ RangeInv /\ CountInv /\ FreeInv /\ UnownedInv)'
    BY <2>1 DEF ScanInv, RangeInv, CountInv, FreeInv, UnownedInv
  <2>8. /\ bitmap_at' = scan.base
        /\ reserved + 1 > pc => ownership_at' = scan.base + pc
        /\ reserved + 1 <= 2 * pc
    <3>1. /\ reserved = 0 \/ reserved < 2 * pc
          /\ reserved > 0 => bitmap_at = scan.base
          /\ reserved > pc => ownership_at = scan.base + pc
      BY <2>1 DEF ReserveInv
    <3> HIDE DEF pc
    <3> QED BY <3>1, <2>1, <2>2, <2>3, <2>4, <2>5
  <2>9. ReserveInv'
    <3> SUFFICES ASSUME phase' = "reserve"
                 PROVE  reserved + 1 < 2 * pc
      BY <1>2, <2>1, <2>2, <2>3, <2>4, <2>8 DEF ReserveInv
    <3> HIDE DEF pc
    <3> QED BY <2>1, <2>2, <2>3, <2>8
  <2>10. PlacedInv'
    <3> SUFFICES ASSUME phase' = "build"
                 PROVE  /\ ownership_at' = scan.base + pc
                        /\ ownership_at' + pc <= scan.end
      BY <2>1, <2>3, <2>5, <2>8 DEF PlacedInv
    <3> HIDE DEF pc
    <3>1. reserved + 1 = 2 * pc
      BY <2>1
    <3> QED BY <3>1, <1>2, <2>2, <2>3, <2>4, <2>5, <2>8
  <2>11. (FrameAccounting /\ NoSharing)'
    BY <2>1 DEF FrameAccounting, NoSharing
  <2> QED BY <2>6, <2>7, <2>9, <2>10, <2>11 DEF IInv
<1> QED BY <1>1, <1>2

LEMMA StepClear == IInv /\ ClearBitmaps => IInv'
<1> SUFFICES ASSUME IInv, ClearBitmaps PROVE IInv'
  OBVIOUS
<1>1. /\ TypeOK /\ PlacedInv /\ CountInv /\ RangeInv /\ UnownedInv
      /\ phase = "build" /\ phase' = "free"
      /\ bitmap' = 0 .. frame_count - 1 /\ ownership' = {} /\ entry' = 1
      /\ UNCHANGED <<memmap, scan, frame_count, next_frame, reserved,
                     bitmap_at, ownership_at, holds, panic>>
  BY DEF IInv, ClearBitmaps
<1>2. Len(memmap) \in Nat /\ frame_count \in Nat
  BY <1>1, EntryType DEF TypeOK
<1>3. TypeOK'
  <2>1. entry' \in 1 .. Len(memmap) + 1 /\ bitmap' \subseteq Nat
    BY <1>1, <1>2
  <2>2. phase' \in phases
    BY <1>1 DEF phases
  <2> QED BY <2>1, <2>2, <1>1 DEF TypeOK
<1>4. (ScanInv /\ RangeInv /\ CountInv /\ ReserveInv)'
  BY <1>1 DEF ScanInv, RangeInv, CountInv, ReserveInv
<1>5. PlacedInv'
  BY <1>1, FramesUnchanged DEF PlacedInv
<1>6. FreeInv'
  <2>1. Freed(memmap, 1 - 1) = {}
    BY DEF Freed
  <2> QED BY <2>1, <1>1 DEF FreeInv
<1>7. (UnownedInv /\ FrameAccounting)'
  BY <1>1 DEF UnownedInv, FrameAccounting
<1>8. NoSharing'
  BY <1>1 DEF UnownedInv, NoSharing
<1> QED BY <1>3, <1>4, <1>5, <1>6, <1>7, <1>8 DEF IInv

LEMMA StepFreeUsable == IInv /\ FreeUsableEntry => IInv'
<1> SUFFICES ASSUME IInv, FreeUsableEntry PROVE IInv'
  OBVIOUS
<1>1. /\ TypeOK /\ PlacedInv /\ CountInv /\ RangeInv /\ UnownedInv /\ FreeInv
      /\ NoSharing
      /\ phase = "free" /\ entry <= Len(memmap) /\ entry' = entry + 1
      /\ bitmap' = IF memmap[entry].usable
                   THEN bitmap \ UsableRange(memmap[entry]) ELSE bitmap
      /\ UNCHANGED <<memmap, phase, scan, frame_count, next_frame, reserved,
                     bitmap_at, ownership_at, ownership, holds, panic>>
  BY DEF IInv, FreeUsableEntry, UsableRange
<1>2. Len(memmap) \in Nat /\ frame_count \in Nat
  BY <1>1, EntryType DEF TypeOK
<1>3. entry \in 1 .. Len(memmap)
  BY <1>1, <1>2 DEF TypeOK
<1>4. TypeOK'
  <2>1. entry' \in 1 .. Len(memmap) + 1
    BY <1>1, <1>2, <1>3
  <2>2. bitmap' \subseteq Nat
    BY <1>1 DEF TypeOK
  <2> QED BY <2>1, <2>2, <1>1 DEF TypeOK
<1>5. (ScanInv /\ RangeInv /\ CountInv /\ ReserveInv)'
  BY <1>1 DEF ScanInv, RangeInv, CountInv, ReserveInv
<1>6. PlacedInv'
  BY <1>1, FramesUnchanged DEF PlacedInv
<1>7. FreeInv'
  <2>1. bitmap = (0 .. frame_count - 1) \ Freed(memmap, entry - 1)
    BY <1>1 DEF FreeInv
  <2>2. 1 .. entry = 1 .. (entry - 1) \cup {entry}
    BY <1>3
  <2>3. \A f \in Nat :
          f \in Freed(memmap, entry) <=>
            \/ f \in Freed(memmap, entry - 1)
            \/ memmap[entry].usable /\ f \in UsableRange(memmap[entry])
    BY <2>2 DEF Freed
  <2>4. bitmap' = (0 .. frame_count - 1) \ Freed(memmap, entry)
    <3>1. 0 .. frame_count - 1 \subseteq Nat
      BY <1>2
    <3> QED BY <3>1, <2>1, <2>3, <1>1
  <2>5. entry' - 1 = entry
    BY <1>1, <1>3
  <2> QED BY <2>4, <2>5, <1>1 DEF FreeInv
<1>8. (UnownedInv /\ FrameAccounting /\ NoSharing)'
  BY <1>1 DEF UnownedInv, FrameAccounting, NoSharing
<1> QED BY <1>4, <1>5, <1>6, <1>7, <1>8 DEF IInv

\* After the scan the bitmaps cover all usable frames and lie in usable RAM.
LEMMA PlacedFits ==
  ASSUME TypeOK, CountInv, RangeInv, PlacedInv,
         phase \in {"build", "free", "ready"}
  PROVE  /\ UsableFrames \subseteq 0 .. frame_count - 1
         /\ Metadata \subseteq UsableFrames
<1>1. /\ memmap \in MemoryMaps
      /\ frame_count \in Nat /\ scan.base \in Nat /\ scan.end \in Nat
  BY DEF TypeOK
<1>2. /\ Len(memmap) \in Nat /\ DOMAIN memmap = 1 .. Len(memmap)
      /\ \A i \in DOMAIN memmap :
           UsableBase(memmap[i]) \in Nat /\ UsableEnd(memmap[i]) \in Nat
  BY <1>1, EntryType, RangeType
<1>3. UsableFrames = Freed(memmap, Len(memmap))
  BY <1>1, UsableFramesAreFreed
<1>4. UsableFrames \subseteq 0 .. frame_count - 1
  <2> SUFFICES ASSUME NEW f \in Nat, NEW i \in DOMAIN memmap,
                      memmap[i].usable, f \in UsableRange(memmap[i])
               PROVE  f \in 0 .. frame_count - 1
    BY <1>2, <1>3 DEF Freed
  <2>1. UsableEnd(memmap[i]) <= frame_count
    BY DEF CountInv
  <2> QED BY <2>1, <1>1, <1>2 DEF UsableRange
<1>5. Metadata \subseteq scan.base .. scan.end - 1 /\ scan.base < scan.end
  <2>1. bitmap_page_count \in Nat
    BY <1>1, PagesForHolds DEF bitmap_page_count
  <2>2. /\ bitmap_at = scan.base
        /\ ownership_at = scan.base + bitmap_page_count
        /\ ownership_at + bitmap_page_count <= scan.end
        /\ bitmap_page_count > 0
    BY DEF PlacedInv
  <2> HIDE DEF bitmap_page_count
  <2> QED BY <2>1, <2>2, <1>1 DEF Metadata
<1>6. PICK i \in DOMAIN memmap :
        /\ memmap[i].usable
        /\ scan.base = UsableBase(memmap[i])
        /\ scan.end = UsableEnd(memmap[i])
  BY <1>5 DEF RangeInv
<1>7. UsableRange(memmap[i]) \subseteq Freed(memmap, Len(memmap))
  BY <1>2, <1>6 DEF Freed, UsableRange
<1> QED BY <1>3, <1>4, <1>5, <1>6, <1>7 DEF UsableRange

LEMMA StepProtect == IInv /\ ProtectBitmaps => IInv'
<1> SUFFICES ASSUME IInv, ProtectBitmaps PROVE IInv'
  OBVIOUS
<1>1. /\ TypeOK /\ PlacedInv /\ CountInv /\ RangeInv /\ UnownedInv /\ FreeInv
      /\ NoSharing
      /\ phase = "free" /\ phase' = "ready"
      /\ bitmap' = bitmap \cup Metadata
      /\ UNCHANGED <<memmap, entry, scan, frame_count, next_frame, reserved,
                     bitmap_at, ownership_at, ownership, holds, panic>>
  BY DEF IInv, ProtectBitmaps, booting
<1>2. Len(memmap) \in Nat /\ entry = Len(memmap) + 1
  <2>1. Len(memmap) \in Nat
    BY <1>1, EntryType DEF TypeOK
  <2>2. entry \in 1 .. Len(memmap) + 1 /\ entry > Len(memmap)
    BY <1>1 DEF TypeOK, ProtectBitmaps
  <2> QED BY <2>1, <2>2
<1>3. UsableFrames \subseteq 0 .. frame_count - 1 /\ Metadata \subseteq UsableFrames
  BY <1>1, PlacedFits
<1>4. /\ UsableFrames' = UsableFrames /\ Metadata' = Metadata
      /\ bitmap_page_count' = bitmap_page_count
  BY <1>1, FramesUnchanged
<1>5. TypeOK'
  <2>1. UsableFrames \subseteq Nat
    BY <1>1, UsableFramesAreFreed DEF TypeOK, Freed
  <2>2. bitmap' \subseteq Nat /\ phase' \in phases
    BY <2>1, <1>1, <1>3 DEF TypeOK, phases
  <2> QED BY <2>2, <1>1 DEF TypeOK
<1>6. (ScanInv /\ RangeInv /\ CountInv /\ ReserveInv /\ FreeInv)'
  BY <1>1 DEF ScanInv, RangeInv, CountInv, ReserveInv, FreeInv
<1>7. (PlacedInv /\ UnownedInv)'
  BY <1>1, <1>4 DEF PlacedInv, UnownedInv
<1>8. FrameAccounting'
  <2>1. bitmap = (0 .. frame_count - 1) \ UsableFrames
    <3>1. bitmap = (0 .. frame_count - 1) \ Freed(memmap, entry - 1)
      BY <1>1 DEF FreeInv
    <3>2. entry - 1 = Len(memmap)
      BY <1>2
    <3> QED BY <3>1, <3>2, <1>1, UsableFramesAreFreed DEF TypeOK
  <2>2. FreeFrames' = UsableFrames \ Metadata
    BY <2>1, <1>1, <1>3 DEF FreeFrames
  <2>3. ownership' = {}
    BY <1>1 DEF UnownedInv
  <2> QED BY <2>2, <2>3, <1>3, <1>4 DEF FrameAccounting
<1>9. NoSharing'
  BY <1>1 DEF NoSharing
<1> QED BY <1>5, <1>6, <1>7, <1>8, <1>9 DEF IInv

\* What every call of the interface leaves alone.
LEMMA ReadyKept ==
  ASSUME IInv, UNCHANGED <<booting, phase>>, phase = "ready"
  PROVE  /\ (ScanInv /\ RangeInv /\ CountInv /\ ReserveInv)'
         /\ (PlacedInv /\ FreeInv /\ UnownedInv)'
         /\ UsableFrames' = UsableFrames /\ Metadata' = Metadata
         /\ UsableFrames \subseteq 0 .. frame_count - 1
<1>1. /\ TypeOK /\ RangeInv /\ CountInv /\ PlacedInv
      /\ UNCHANGED <<memmap, entry, scan, frame_count, next_frame, reserved,
                     bitmap_at, ownership_at, phase>>
  BY DEF IInv, booting
<1>2. /\ UsableFrames' = UsableFrames /\ Metadata' = Metadata
      /\ bitmap_page_count' = bitmap_page_count
  BY <1>1, FramesUnchanged
<1>3. (ScanInv /\ RangeInv /\ CountInv /\ ReserveInv)'
  BY <1>1 DEF ScanInv, RangeInv, CountInv, ReserveInv
<1>4. (PlacedInv /\ FreeInv /\ UnownedInv)'
  BY <1>1, <1>2 DEF PlacedInv, FreeInv, UnownedInv
<1> QED BY <1>1, <1>2, <1>3, <1>4, PlacedFits

LEMMA StepAllocate ==
  ASSUME NEW c \in Callers
  PROVE  IInv /\ pmm_allocate_frame(c) => IInv'
<1> SUFFICES ASSUME IInv, pmm_allocate_frame(c) PROVE IInv'
  OBVIOUS
<1>1. CASE Panic("KBM_OUT_OF_MEMORY")
  <2>1. "KBM_OUT_OF_MEMORY" \in panics
    BY DEF panics
  <2> QED BY <2>1, <1>1, StepPanic
<1>2. CASE /\ phase = "ready"
           /\ \E f \in FreeFrames :
                /\ ownership' = ownership \cup {f}
                /\ bitmap' = bitmap \cup {f}
                /\ holds' = [holds EXCEPT ![c] = @ \cup {f}]
           /\ UNCHANGED <<booting, phase, panic>>
  <2>1. PICK f \in FreeFrames :
          /\ ownership' = ownership \cup {f}
          /\ bitmap' = bitmap \cup {f}
          /\ holds' = [holds EXCEPT ![c] = @ \cup {f}]
    BY <1>2
  <2>2. /\ TypeOK /\ FrameAccounting /\ NoSharing
        /\ UNCHANGED <<memmap, entry, scan, frame_count, next_frame, reserved,
                       bitmap_at, ownership_at, phase, panic>>
    BY <1>2 DEF IInv, booting
  <2>3. f \in Nat /\ f \in 0 .. frame_count - 1 /\ f \notin bitmap
    BY <2>2 DEF FreeFrames, TypeOK
  <2>4. TypeOK'
    BY <2>1, <2>2, <2>3 DEF TypeOK
  <2>5. FrameAccounting'
    <3>1. FreeFrames' = FreeFrames \ {f}
      BY <2>1, <2>2 DEF FreeFrames
    <3> QED BY <3>1, <2>1, <2>2, <1>2, ReadyKept DEF FrameAccounting
  <2>6. NoSharing'
    <3>1. f \notin ownership
      BY <2>2, <1>2 DEF FrameAccounting
    <3>2. \A d \in Callers : holds'[d] = IF d = c THEN holds[d] \cup {f}
                                                 ELSE holds[d]
      BY <2>1, <2>2 DEF TypeOK
    <3>3. \A d \in Callers : f \notin holds[d]
      BY <3>1, <2>2 DEF NoSharing
    <3>4. ASSUME NEW d \in Callers, NEW e \in Callers, d # e
          PROVE  holds'[d] \cap holds'[e] = {}
      BY <3>2, <3>3, <3>4, <2>2 DEF NoSharing
    <3>5. \A g : (\E d \in Callers : g \in holds'[d])
                   <=> (\E d \in Callers : g \in holds[d]) \/ g = f
      BY <3>2
    <3>6. \A g : (\E d \in Callers : g \in holds[d]) <=> g \in ownership
      BY <2>2 DEF NoSharing
    <3>7. UNION {holds'[d] : d \in Callers} = ownership'
      BY <3>5, <3>6, <2>1
    <3> QED BY <3>4, <3>7 DEF NoSharing
  <2> QED BY <2>4, <2>5, <2>6, <1>2, ReadyKept DEF IInv
<1> QED BY <1>1, <1>2 DEF pmm_allocate_frame

\* The address that pmm_free_frame accepts is a frame of its caller.
LEMMA FreeAccepts ==
  ASSUME IInv, NEW c \in Callers, NEW f \in 0 .. frame_count,
         NEW aligned \in BOOLEAN,
         \A d \in Callers \ {c} : f \notin holds[d],
         FreeError(f, aligned) = ""
  PROVE  phase = "ready" /\ f \in ownership /\ f \in holds[c]
<1>1. frame_count \in Nat /\ NoSharing
  BY DEF IInv, TypeOK
<1>2. phase = "ready" /\ f \in ownership
  BY <1>1 DEF FreeError
<1> QED BY <1>1, <1>2 DEF NoSharing

LEMMA StepFree ==
  ASSUME NEW c \in Callers, NEW f \in 0 .. frame_count, NEW aligned \in BOOLEAN
  PROVE  IInv /\ pmm_free_frame(c, f, aligned) => IInv'
<1> SUFFICES ASSUME IInv, pmm_free_frame(c, f, aligned) PROVE IInv'
  OBVIOUS
<1>1. CASE FreeError(f, aligned) # ""
  <2>1. FreeError(f, aligned) \in panics
    BY DEF FreeError, panics
  <2> QED BY <2>1, <1>1, StepPanic DEF pmm_free_frame
<1>2. CASE FreeError(f, aligned) = ""
  <2>1. phase = "ready" /\ f \in ownership /\ f \in holds[c]
    BY <1>2, FreeAccepts DEF pmm_free_frame
  <2>2. /\ ownership' = ownership \ {f}
        /\ bitmap' = bitmap \ {f}
        /\ holds' = [holds EXCEPT ![c] = @ \ {f}]
        /\ UNCHANGED <<booting, phase, panic>>
    BY <1>2 DEF pmm_free_frame
  <2>3. /\ TypeOK /\ FrameAccounting /\ NoSharing
        /\ UNCHANGED <<memmap, entry, scan, frame_count, next_frame, reserved,
                       bitmap_at, ownership_at>>
    BY <2>2 DEF IInv, booting
  <2>4. TypeOK'
    BY <2>2, <2>3 DEF TypeOK
  <2>5. FrameAccounting'
    <3>1. f \in 0 .. frame_count - 1 /\ f \notin Metadata
      BY <2>1, <2>2, <2>3, ReadyKept DEF FrameAccounting
    <3>2. FreeFrames' = FreeFrames \cup {f}
      BY <3>1, <2>2, <2>3 DEF FreeFrames
    <3> QED BY <3>1, <3>2, <2>1, <2>2, <2>3, ReadyKept DEF FrameAccounting
  <2>6. NoSharing'
    <3>1. \A d \in Callers : holds'[d] = IF d = c THEN holds[d] \ {f}
                                                 ELSE holds[d]
      BY <2>2, <2>3 DEF TypeOK
    <3>2. \A d \in Callers : d # c => f \notin holds[d]
      BY DEF pmm_free_frame
    <3>3. ASSUME NEW d \in Callers, NEW e \in Callers, d # e
          PROVE  holds'[d] \cap holds'[e] = {}
      BY <3>1, <3>3, <2>3 DEF NoSharing
    <3>4. \A g : (\E d \in Callers : g \in holds'[d])
                   <=> (\E d \in Callers : g \in holds[d]) /\ g # f
      BY <3>1, <3>2
    <3>5. \A g : (\E d \in Callers : g \in holds[d]) <=> g \in ownership
      BY <2>3 DEF NoSharing
    <3>6. UNION {holds'[d] : d \in Callers} = ownership'
      BY <3>4, <3>5, <2>2
    <3> QED BY <3>3, <3>6 DEF NoSharing
  <2> QED BY <2>1, <2>2, <2>4, <2>5, <2>6, ReadyKept DEF IInv
<1> QED BY <1>1, <1>2

-----------------------------------------------------------------------------
(* The theorems                                                            *)

LEMMA StepIInv == IInv /\ [Next]_vars => IInv'
<1> SUFFICES ASSUME IInv, [Next]_vars PROVE IInv'
  OBVIOUS
<1>1. CASE CallInit
  BY <1>1, StepCallInit
<1>2. CASE InitStep
  BY <1>2, StepScanEntry, StepSizeBitmaps, StepReserve, StepClear,
     StepFreeUsable, StepProtect DEF InitStep
<1>3. CASE \E c \in Callers : pmm_allocate_frame(c)
  BY <1>3, StepAllocate
<1>4. CASE \E c \in Callers, f \in 0 .. frame_count, aligned \in BOOLEAN :
             pmm_free_frame(c, f, aligned)
  BY <1>4, StepFree
<1>5. CASE Halted \/ UNCHANGED vars
  BY <1>5, StepUnchanged DEF Halted
<1> QED BY <1>1, <1>2, <1>3, <1>4, <1>5 DEF Next

LEMMA Invariance == Spec => []IInv
BY InitIInv, StepIInv, PTL DEF Spec

\* The variables keep their types, in particular a bitmap never holds a frame
\* that does not exist.
THEOREM TypeCorrect == Spec => []TypeOK
<1>1. IInv => TypeOK
  BY DEF IInv
<1> QED BY <1>1, Invariance, PTL

\* For every memory map, aligned or not: the PMM accounts for each usable
\* frame, exactly once, after any history of calls.
THEOREM AccountsForFrames == Spec => []FrameAccounting
<1>1. IInv => FrameAccounting
  BY DEF IInv
<1> QED BY <1>1, Invariance, PTL

\* For every memory map: no frame is ever given to two callers, and the
\* ownership bitmap holds the frames that are out.
THEOREM NeverShared == Spec => []NoSharing
<1>1. IInv => NoSharing
  BY DEF IInv
<1> QED BY <1>1, Invariance, PTL

\* For every memory map that pmm_init accepts: the two bitmaps are in usable
\* RAM, apart from each other, and as long as the frames need.
THEOREM BitmapsAlwaysFit == Spec => []BitmapsFit
<1>1. IInv => BitmapsFit
  <2> SUFFICES ASSUME IInv, phase \in {"build", "free", "ready"}
               PROVE  BitmapsFit
    BY DEF BitmapsFit
  <2>1. /\ TypeOK /\ CountInv /\ RangeInv /\ PlacedInv
        /\ frame_count \in Nat
    BY DEF IInv, TypeOK
  <2>2. frame_count <= bitmap_page_count * FrameSize * ByteBits
    BY <2>1, PagesForHolds DEF bitmap_page_count
  <2>3. /\ UsableFrames \subseteq 0 .. frame_count - 1
        /\ Metadata \subseteq UsableFrames
    BY <2>1, PlacedFits
  <2>4. ASSUME NEW e \in UsableEntries, NEW f \in EntryFrames(e)
        PROVE  f < frame_count
    <3>1. f \in UsableFrames
      BY DEF UsableFrames
    <3> QED BY <3>1, <2>1, <2>3
  <2>5. bitmap_at + bitmap_page_count = ownership_at
    BY <2>1 DEF PlacedInv
  <2> QED BY <2>2, <2>3, <2>4, <2>5 DEF BitmapsFit
<1> QED BY <1>1, Invariance, PTL

\* An out-of-memory panic after boot is never early.
THEOREM OutOfMemoryIsFull == Spec => []OutOfMemoryMeansFull
<1> DEFINE Full == panic = "KBM_OUT_OF_MEMORY" /\ phase = "ready"
                     => FreeFrames = {}
<1>1. Init => Full
  BY DEF Init
<1>2. IInv /\ Full /\ [Next]_vars => Full'
  <2> SUFFICES ASSUME IInv, Full, [Next]_vars,
                      panic' = "KBM_OUT_OF_MEMORY", phase' = "ready"
               PROVE  FreeFrames' = {}
    OBVIOUS
  <2>1. CASE UNCHANGED <<panic, phase, bitmap, frame_count>>
    BY <2>1 DEF FreeFrames
  <2>2. CASE \E c \in Callers : pmm_allocate_frame(c)
    BY <2>2 DEF pmm_allocate_frame, Panic, FreeFrames, booting
  <2>3. CASE \E c \in Callers, f \in 0 .. frame_count, aligned \in BOOLEAN :
               pmm_free_frame(c, f, aligned)
    BY <2>3 DEF pmm_free_frame, FreeError, Panic
  <2>4. CASE CallInit \/ InitStep
    BY <2>4 DEF CallInit, InitStep, ScanEntry, SizeBitmaps, Panic,
       ReserveBitmapFrame, ClearBitmaps, FreeUsableEntry, ProtectBitmaps
  <2>5. CASE Halted \/ UNCHANGED vars
    BY <2>5, <2>1 DEF Halted, vars, booting
  <2> QED BY <2>2, <2>3, <2>4, <2>5 DEF Next
<1>3. IInv /\ Full => OutOfMemoryMeansFull
  BY DEF IInv, FrameAccounting, NoSharing, OutOfMemoryMeansFull
<1> QED BY <1>1, <1>2, <1>3, Invariance, PTL DEF Spec

-----------------------------------------------------------------------------
(* Why pmm_init gives up                                                   *)

\* No usable entry lies inside one frame and misses both of its ends; of such an
\* entry the rounded base is above the rounded end, and the length wraps.
NoneInsideFrame ==
  \A m \in MemoryMaps : \A i \in DOMAIN m :
    m[i].usable => UsableBase(m[i]) <= UsableEnd(m[i])

\* The range that the scan remembers is as long as any before `entry`, ...
BiggestInv ==
  /\ scan.end = scan.base + scan.length
  /\ phase \in {"off", "scan", "reserve"} =>
       \A i \in 1 .. entry - 1 :
         memmap[i].usable =>
           UsableEnd(memmap[i]) <= UsableBase(memmap[i]) + scan.length

\* ... and if the kernel has halted, pmm_init has looked at all of them and
\* found too little, for the bitmaps or even for one frame.
Halting == panic # ""

RefusalInv ==
  /\ phase = "reserve" =>
       entry = Len(memmap) + 1 /\ 2 * bitmap_page_count <= scan.length
  /\ Halting /\ phase = "scan" =>
       entry = Len(memmap) + 1 /\ scan.length < 2 * bitmap_page_count
  /\ Halting /\ phase = "reserve" => scan.length = 0

\* One iteration keeps the longer of two ranges.
LEMMA ScannedBiggest ==
  ASSUME NEW e \in Entry, UsableBase(e) <= UsableEnd(e),
         NEW s \in [highest : Nat, base : Nat, end : Nat, length : Nat],
         s.end = s.base + s.length
  PROVE  /\ Scanned(s, e).end = Scanned(s, e).base + Scanned(s, e).length
         /\ s.length <= Scanned(s, e).length
         /\ UsableEnd(e) <= UsableBase(e) + Scanned(s, e).length
<1>1. UsableBase(e) \in Nat /\ UsableEnd(e) \in Nat
  BY RangeType
<1>2. WordSub(UsableEnd(e), UsableBase(e)) = UsableEnd(e) - UsableBase(e)
  BY <1>1 DEF WordSub
<1> QED BY <1>1, <1>2 DEF Scanned

LEMMA RefusalScan ==
  ASSUME NoneInsideFrame, IInv, BiggestInv, RefusalInv, ScanEntry
  PROVE  BiggestInv' /\ RefusalInv'
<1>0. ~Halting'
  BY DEF ScanEntry, Halting
<1>1. /\ UNCHANGED <<memmap, phase, frame_count>>
      /\ phase = "scan" /\ entry <= Len(memmap)
      /\ entry' = entry + 1 /\ entry \in 1 .. Len(memmap) + 1
      /\ memmap \in MemoryMaps
      /\ scan \in [highest : Nat, base : Nat, end : Nat, length : Nat]
      /\ scan' \in [highest : Nat, base : Nat, end : Nat, length : Nat]
  BY StepScanEntry DEF IInv, TypeOK, ScanEntry
<1>2. Len(memmap) \in Nat /\ DOMAIN memmap = 1 .. Len(memmap)
  BY <1>1, EntryType
<1>3. entry \in DOMAIN memmap /\ memmap[entry] \in Entry
  BY <1>1, <1>2, EntryType
<1>4. /\ scan'.end = scan'.base + scan'.length
      /\ scan.length <= scan'.length
      /\ memmap[entry].usable =>
           UsableEnd(memmap[entry]) <= UsableBase(memmap[entry]) + scan'.length
  <2>1. CASE memmap[entry].usable
    <3>1. scan' = Scanned(scan, memmap[entry])
      BY <2>1 DEF ScanEntry
    <3>2. UsableBase(memmap[entry]) <= UsableEnd(memmap[entry])
      BY <2>1, <1>1, <1>3 DEF NoneInsideFrame
    <3> QED BY <3>1, <3>2, <1>1, <1>3, ScannedBiggest DEF BiggestInv
  <2>2. CASE ~memmap[entry].usable
    <3>1. scan' = scan
      BY <2>2 DEF ScanEntry
    <3> QED BY <3>1, <2>2, <1>1 DEF BiggestInv
  <2> QED BY <2>1, <2>2
<1>5. ASSUME NEW i \in 1 .. entry, memmap[i].usable
      PROVE  UsableEnd(memmap[i]) <= UsableBase(memmap[i]) + scan'.length
  <2>1. i = entry \/ i \in 1 .. entry - 1
    BY <1>1
  <2>2. CASE i \in 1 .. entry - 1
    <3>1. UsableEnd(memmap[i]) <= UsableBase(memmap[i]) + scan.length
      BY <1>1, <1>5, <2>2 DEF BiggestInv
    <3>2. i \in DOMAIN memmap
      BY <1>1, <1>2, <2>2
    <3>3. UsableBase(memmap[i]) \in Nat /\ UsableEnd(memmap[i]) \in Nat
      BY <3>2, <1>1, EntryType, RangeType
    <3> QED BY <3>1, <3>3, <1>1, <1>4
  <2> QED BY <2>1, <2>2, <1>4, <1>5
<1>6. entry' - 1 = entry
  BY <1>1
<1> QED BY <1>0, <1>1, <1>4, <1>5, <1>6 DEF BiggestInv, RefusalInv

LEMMA RefusalSize ==
  ASSUME IInv, BiggestInv, RefusalInv, SizeBitmaps
  PROVE  BiggestInv' /\ RefusalInv'
<1>1. /\ UNCHANGED <<memmap, entry, scan>> /\ phase = "scan"
      /\ frame_count' = scan.highest
      /\ entry > Len(memmap) /\ entry \in 1 .. Len(memmap) + 1
      /\ scan.highest \in Nat /\ scan.length \in Nat
      /\ Len(memmap) \in Nat
  BY EntryType DEF IInv, TypeOK, SizeBitmaps
<1>2. entry = Len(memmap) + 1
  BY <1>1
<1>3. bitmap_page_count' = PagesFor(scan.highest) /\ PagesFor(scan.highest) \in Nat
  BY <1>1, PagesForHolds DEF bitmap_page_count
<1>4. BiggestInv'
  <2>1. phase' \in {"scan", "reserve"}
    BY DEF SizeBitmaps
  <2> QED BY <1>1, <2>1 DEF BiggestInv
<1>5. CASE scan.length < PagesFor(scan.highest) * 2
  <2>1. phase' = "scan"
    BY <1>5 DEF SizeBitmaps
  <2> QED BY <1>1, <1>2, <1>3, <1>4, <1>5, <2>1 DEF RefusalInv
<1>6. CASE ~(scan.length < PagesFor(scan.highest) * 2)
  <2>1. phase' = "reserve" /\ ~Halting'
    BY <1>6 DEF SizeBitmaps, Halting
  <2> QED BY <1>1, <1>2, <1>3, <1>4, <1>6, <2>1 DEF RefusalInv
<1> QED BY <1>5, <1>6

\* The bump allocator runs out only if there is no frame at all.
LEMMA RefusalReserve ==
  ASSUME IInv, BiggestInv, RefusalInv, ReserveBitmapFrame
  PROVE  BiggestInv' /\ RefusalInv'
<1>1. /\ UNCHANGED <<memmap, entry, scan, frame_count>> /\ phase = "reserve"
  BY DEF ReserveBitmapFrame, Panic, booting
<1>2. bitmap_page_count' = bitmap_page_count
  BY <1>1 DEF bitmap_page_count
<1>3. BiggestInv'
  BY <1>1 DEF BiggestInv, ReserveBitmapFrame, Panic
<1>4. CASE next_frame + 1 <= scan.end
  <2>1. phase' \in {"reserve", "build"} /\ ~Halting'
    BY <1>4 DEF ReserveBitmapFrame, Halting
  <2> QED BY <1>1, <1>2, <1>3, <2>1 DEF RefusalInv
<1>5. CASE ~(next_frame + 1 <= scan.end)
  <2>1. /\ next_frame = scan.base + reserved
        /\ reserved = 0 \/ reserved < 2 * bitmap_page_count
        /\ 2 * bitmap_page_count <= scan.length
        /\ scan.end = scan.base + scan.length
    BY <1>1 DEF IInv, ReserveInv, BiggestInv, RefusalInv
  <2>2. /\ next_frame \in Nat /\ reserved \in Nat /\ frame_count \in Nat
        /\ scan.base \in Nat /\ scan.length \in Nat /\ scan.end \in Nat
    BY DEF IInv, TypeOK
  <2>3. bitmap_page_count \in Nat
    BY <2>2, PagesForHolds DEF bitmap_page_count
  <2>4. scan.length = 0
    BY <1>5, <2>1, <2>2, <2>3
  <2>5. UNCHANGED phase
    BY <1>5 DEF ReserveBitmapFrame, Panic
  <2> QED BY <1>1, <1>2, <1>3, <2>4, <2>5 DEF RefusalInv
<1> QED BY <1>3, <1>4, <1>5

LEMMA RefusalStep ==
  ASSUME NoneInsideFrame, IInv, BiggestInv, RefusalInv, [Next]_vars
  PROVE  BiggestInv' /\ RefusalInv'
<1>1. CASE CallInit
  <2>1. /\ UNCHANGED <<memmap, entry, scan, frame_count>> /\ ~Halting'
        /\ phase = "off" /\ phase' = "scan"
    BY <1>1 DEF CallInit, booting, Halting
  <2> QED BY <2>1 DEF BiggestInv, RefusalInv
<1>2. CASE ScanEntry \/ SizeBitmaps \/ ReserveBitmapFrame
  BY <1>2, RefusalScan, RefusalSize, RefusalReserve
<1>3. CASE ClearBitmaps \/ FreeUsableEntry \/ ProtectBitmaps
  <2>1. scan' = scan /\ phase' \in {"free", "ready"}
    BY <1>3 DEF ClearBitmaps, FreeUsableEntry, ProtectBitmaps, booting
  <2> QED BY <2>1 DEF BiggestInv, RefusalInv
<1>4. CASE \E c \in Callers :
             \/ pmm_allocate_frame(c)
             \/ \E f \in 0 .. frame_count, aligned \in BOOLEAN :
                  pmm_free_frame(c, f, aligned)
  <2>1. UNCHANGED <<memmap, entry, scan, frame_count, phase>>
        /\ phase \in {"off", "ready"}
    BY <1>4 DEF pmm_allocate_frame, pmm_free_frame, Panic, booting
  <2> QED BY <2>1 DEF BiggestInv, RefusalInv
<1>5. CASE Halted \/ UNCHANGED vars
  <2>1. UNCHANGED <<memmap, entry, scan, frame_count, phase, panic>>
    BY <1>5 DEF Halted, vars, booting
  <2> QED BY <2>1 DEF BiggestInv, RefusalInv, bitmap_page_count, Halting
<1> QED BY <1>1, <1>2, <1>3, <1>4, <1>5 DEF Next, InitStep

LEMMA RefusalHolds ==
  ASSUME IInv, BiggestInv, RefusalInv
  PROVE  RefusalJustified
<1> SUFFICES ASSUME Halting, phase \in {"scan", "reserve"},
                    NEW e \in UsableEntries
             PROVE  \/ Cardinality(EntryFrames(e)) < 2 * PagesFor(frame_count)
                    \/ EntryFrames(e) = {}
  BY DEF RefusalJustified, Halting
<1>1. memmap \in MemoryMaps /\ scan.length \in Nat /\ frame_count \in Nat
  BY DEF IInv, TypeOK
<1>2. PICK i \in DOMAIN memmap : e = memmap[i] /\ memmap[i].usable
  BY DEF UsableEntries
<1>3. e \in Entry /\ i \in 1 .. Len(memmap) /\ Len(memmap) \in Nat
  BY <1>1, <1>2, EntryType
<1>4. entry = Len(memmap) + 1
  BY DEF RefusalInv
<1>5. UsableEnd(e) <= UsableBase(e) + scan.length
  BY <1>2, <1>3, <1>4 DEF BiggestInv
<1>6. UsableBase(e) \in Nat /\ UsableEnd(e) \in Nat
  BY <1>3, RangeType
<1>7. EntryFrames(e) = UsableBase(e) .. UsableEnd(e) - 1
  BY <1>3, EntryFramesAreRange DEF UsableRange
<1>8. CASE phase = "reserve"
  <2>1. UsableEnd(e) <= UsableBase(e)
    BY <1>5, <1>6, <1>8 DEF RefusalInv
  <2> QED BY <2>1, <1>6, <1>7
<1>9. CASE phase = "scan"
  <2>1. PagesFor(frame_count) \in Nat /\ scan.length < 2 * PagesFor(frame_count)
    BY <1>1, <1>9, PagesForHolds DEF RefusalInv, bitmap_page_count
  <2>2. Cardinality(EntryFrames(e)) = IF UsableBase(e) > UsableEnd(e) - 1 THEN 0
                                      ELSE UsableEnd(e) - 1 - UsableBase(e) + 1
    <3>1. UsableEnd(e) - 1 \in Int /\ UsableBase(e) \in Int
      BY <1>6
    <3> QED BY <3>1, <1>7, FS_Interval
  <2> QED BY <2>1, <2>2, <1>1, <1>5, <1>6
<1> QED BY <1>8, <1>9

\* If no usable entry lies inside one frame, which Limine's page-aligned entries
\* never do, then pmm_init gives up only where no entry has room for the bitmaps.
THEOREM RefusesOnlyIfFull ==
  ASSUME NoneInsideFrame
  PROVE  Spec => []RefusalJustified
<1>1. Init => BiggestInv /\ RefusalInv
  <2> SUFFICES ASSUME Init PROVE BiggestInv /\ RefusalInv
    OBVIOUS
  <2>1. entry = 1 /\ phase = "off" /\ scan = NoScan
    BY DEF Init
  <2> QED BY <2>1 DEF NoScan, BiggestInv, RefusalInv
<1>2. IInv /\ BiggestInv /\ RefusalInv /\ [Next]_vars => BiggestInv' /\ RefusalInv'
  BY RefusalStep
<1>3. IInv /\ BiggestInv /\ RefusalInv => RefusalJustified
  BY RefusalHolds
<1> QED BY <1>1, <1>2, <1>3, Invariance, PTL DEF Spec

-----------------------------------------------------------------------------
(* Refinement                                                              *)

HaltStep ==
  panic = "" /\ panic' # ""
  /\ UNCHANGED <<memmap, phase, bitmap, frame_count, holds>>

\* A panic, wherever it happens, is a Halt of the abstract allocator.
LEMMA PanicHalts == HaltStep => Ownership!Halt
<1> SUFFICES ASSUME HaltStep PROVE Ownership!Halt
  OBVIOUS
<1>1. /\ panic = "" /\ panic' # ""
      /\ UNCHANGED <<memmap, phase, bitmap, frame_count, holds>>
  BY DEF HaltStep
<1>2. UsableFrames' = UsableFrames
  BY <1>1 DEF UsableFrames, UsableEntries
<1>3. FreeFrames' = FreeFrames
  BY <1>1 DEF FreeFrames
<1> QED BY <1>1, <1>2, <1>3 DEF Ownership!Halt

\* Until the PMM is ready, pmm_init only prepares.
LEMMA BootStutters ==
  ASSUME UNCHANGED <<memmap, holds, panic>>, phase # "ready", phase' # "ready"
  PROVE  UNCHANGED Ownership!vars
<1>1. UsableFrames' = UsableFrames
  BY DEF UsableFrames, UsableEntries
<1> QED BY <1>1 DEF Ownership!vars

LEMMA ProtectOpens == IInv /\ IInv' /\ ProtectBitmaps => Ownership!Open
<1> SUFFICES ASSUME IInv, IInv', ProtectBitmaps PROVE Ownership!Open
  OBVIOUS
<1>1. /\ UNCHANGED <<memmap, holds, panic>>
      /\ panic = "" /\ phase = "free" /\ phase' = "ready"
  BY DEF ProtectBitmaps, booting
<1>2. UsableFrames' = UsableFrames
  BY <1>1 DEF UsableFrames, UsableEntries
<1>3. FreeFrames' \subseteq UsableFrames
  BY <1>1, <1>2 DEF IInv, FrameAccounting
<1> QED BY <1>1, <1>2, <1>3 DEF Ownership!Open

LEMMA AllocateImplements ==
  ASSUME NEW c \in Callers
  PROVE  IInv /\ pmm_allocate_frame(c)
           => Ownership!Halt \/ Ownership!Allocate(c)
<1> SUFFICES ASSUME IInv, pmm_allocate_frame(c)
             PROVE  Ownership!Halt \/ Ownership!Allocate(c)
  OBVIOUS
<1>1. CASE Panic("KBM_OUT_OF_MEMORY")
  <2>1. HaltStep
    BY <1>1 DEF HaltStep, Panic, booting, pmm_allocate_frame
  <2> QED BY <2>1, PanicHalts
<1>2. CASE ~Panic("KBM_OUT_OF_MEMORY")
  <2>1. PICK f \in FreeFrames :
          /\ bitmap' = bitmap \cup {f}
          /\ holds' = [holds EXCEPT ![c] = @ \cup {f}]
    BY <1>2 DEF pmm_allocate_frame
  <2>2. /\ phase = "ready" /\ panic = ""
        /\ UNCHANGED <<memmap, frame_count, phase, panic>>
    BY <1>2 DEF pmm_allocate_frame, booting
  <2>3. FreeFrames' = FreeFrames \ {f}
    BY <2>1, <2>2 DEF FreeFrames
  <2>4. UsableFrames' = UsableFrames
    BY <2>2 DEF UsableFrames, UsableEntries
  <2> QED BY <2>1, <2>2, <2>3, <2>4 DEF Ownership!Allocate
<1> QED BY <1>1, <1>2

LEMMA FreeImplements ==
  ASSUME NEW c \in Callers, NEW f \in 0 .. frame_count, NEW aligned \in BOOLEAN
  PROVE  IInv /\ pmm_free_frame(c, f, aligned)
           => Ownership!Halt \/ Ownership!Release(c)
<1> SUFFICES ASSUME IInv, pmm_free_frame(c, f, aligned)
             PROVE  Ownership!Halt \/ Ownership!Release(c)
  OBVIOUS
<1>1. CASE FreeError(f, aligned) # ""
  <2>1. HaltStep
    BY <1>1 DEF HaltStep, Panic, booting, pmm_free_frame
  <2> QED BY <2>1, PanicHalts
<1>2. CASE FreeError(f, aligned) = ""
  <2>1. phase = "ready" /\ f \in ownership /\ f \in holds[c]
    BY <1>2, FreeAccepts DEF pmm_free_frame
  <2>2. /\ bitmap' = bitmap \ {f}
        /\ holds' = [holds EXCEPT ![c] = @ \ {f}]
        /\ panic = ""
        /\ UNCHANGED <<booting, phase, panic>>
    BY <1>2 DEF pmm_free_frame
  <2>3. UNCHANGED <<memmap, frame_count>>
    BY <2>2 DEF booting
  <2>4. f \in 0 .. frame_count - 1
    BY <2>1, <2>2, ReadyKept DEF IInv, FrameAccounting
  <2>5. FreeFrames' = FreeFrames \cup {f}
    BY <2>2, <2>3, <2>4 DEF FreeFrames
  <2>6. UsableFrames' = UsableFrames
    BY <2>3 DEF UsableFrames, UsableEntries
  <2> QED BY <2>1, <2>2, <2>5, <2>6 DEF Ownership!Release
<1> QED BY <1>1, <1>2

LEMMA InitImplements == Init => Ownership!Init
<1> SUFFICES ASSUME Init PROVE Ownership!Init
  OBVIOUS
<1>1. memmap \in MemoryMaps
  BY DEF Init
<1>2. UsableFrames \subseteq Nat
  BY <1>1, UsableFramesAreFreed DEF Freed
<1> QED BY <1>2 DEF Init, Ownership!Init

LEMMA StepImplements ==
  IInv /\ IInv' /\ [Next]_vars => [Ownership!Next]_(Ownership!vars)
<1> SUFFICES ASSUME IInv, IInv', [Next]_vars
             PROVE  Ownership!Next \/ UNCHANGED Ownership!vars
  OBVIOUS
<1>1. CASE CallInit \/ ScanEntry \/ ClearBitmaps \/ FreeUsableEntry
  BY <1>1, BootStutters
     DEF CallInit, ScanEntry, ClearBitmaps, FreeUsableEntry, booting
<1>2. CASE SizeBitmaps
  <2>1. phase = "scan" /\ phase' \in {"scan", "reserve"} /\ panic = ""
        /\ UNCHANGED <<memmap, holds>>
    BY <1>2 DEF SizeBitmaps
  <2>2. CASE panic' = ""
    BY <2>1, <2>2, BootStutters
  <2>3. CASE panic' # ""
    <3>1. UsableFrames' = UsableFrames
      BY <2>1 DEF UsableFrames, UsableEntries
    <3> QED BY <2>1, <2>3, <3>1 DEF Ownership!Next, Ownership!Halt
  <2> QED BY <2>2, <2>3
<1>3. CASE ReserveBitmapFrame
  <2>1. \/ HaltStep
        \/ /\ UNCHANGED <<memmap, holds, panic>>
           /\ phase = "reserve" /\ phase' \in {"reserve", "build"}
    BY <1>3 DEF ReserveBitmapFrame, HaltStep, Panic, booting
  <2> QED BY <2>1, PanicHalts, BootStutters DEF Ownership!Next
<1>4. CASE ProtectBitmaps
  BY <1>4, ProtectOpens DEF Ownership!Next
<1>5. CASE \E c \in Callers : pmm_allocate_frame(c)
  BY <1>5, AllocateImplements DEF Ownership!Next
<1>6. CASE \E c \in Callers, f \in 0 .. frame_count, aligned \in BOOLEAN :
             pmm_free_frame(c, f, aligned)
  BY <1>6, FreeImplements DEF Ownership!Next
<1>7. CASE Halted \/ UNCHANGED vars
  <2>1. UNCHANGED <<memmap, holds, panic, phase, bitmap, frame_count>>
    BY <1>7 DEF Halted, vars, booting
  <2>2. UsableFrames' = UsableFrames /\ FreeFrames' = FreeFrames
    BY <2>1 DEF UsableFrames, UsableEntries, FreeFrames
  <2> QED BY <2>1, <2>2 DEF Ownership!vars
<1> QED BY <1>1, <1>2, <1>3, <1>4, <1>5, <1>6, <1>7 DEF Next, InitStep

\* The PMM implements exclusive ownership of frames: every call is a step of
\* the abstract allocator, whatever the memory map and the history of calls.
THEOREM Implements == Spec => ImplementsOwnership
<1>1. Ownership!Spec <=> Ownership!Init /\ [][Ownership!Next]_(Ownership!vars)
  BY DEF Ownership!Spec
<1> QED BY <1>1, InitImplements, StepImplements, Invariance, PTL
        DEF Spec, ImplementsOwnership
=============================================================================
