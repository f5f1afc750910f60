-------------------------------- MODULE Heap --------------------------------
(***************************************************************************)
(* The kernel heap, kernel/src/kernel/heap.c: kmalloc and kfree over a     *)
(* free list that is ordered by address, on frames taken from the PMM.     *)
(*                                                                         *)
(* Memory is an array of 8-byte words, the width of every field of a       *)
(* struct heap_block; a header is four words, and whatever it overlaps it  *)
(* overwrites.  Addresses and block sizes are counted in words, requests   *)
(* in bytes.  A call is one step up to its first loop, one per iteration,  *)
(* and one for what follows the loop.                                      *)
(***************************************************************************)
EXTENDS Integers, FiniteSets, FiniteSetsExt

CONSTANTS
  FrameWords,    \* words of a frame (0x1000 / 8)
  Hhdm,          \* heap_hhdm_offset, in words: physical 0 is not a null pointer
  Frames,        \* physical frames that the PMM manages
  Requests,      \* the sizes, in bytes, that kmalloc is asked for
  WordMod,       \* 2^64: the arithmetic of uint64_t is modulo this
  Magic          \* HEAP_BLOCK_MAGIC

NULL == 0
HeaderWords == 4          \* sizeof(struct heap_block)
AlignBytes  == 16
AlignWords  == 2

FrameStart(f) == Hhdm + f * FrameWords
FrameSpan(f)  == FrameStart(f) .. FrameStart(f) + FrameWords - 1
Words         == UNION {FrameSpan(f) : f \in Frames}

\* The magic number, 0x4B424D48, is no address of the HHDM.
ASSUME HeapAssumption ==
  /\ FrameWords \in Nat /\ FrameWords % AlignWords = 0
  /\ FrameWords >= HeaderWords + AlignWords
  /\ Hhdm \in Nat \ {0} /\ Hhdm % AlignWords = 0
  /\ Frames \subseteq Nat /\ IsFiniteSet(Frames)
  /\ WordMod \in Nat \ {0} /\ WordMod % AlignBytes = 0
  /\ Requests \subseteq 0 .. WordMod - 1
  /\ Magic \in Nat \ {0} /\ Magic \notin Words

VARIABLES
  mem,               \* the words of physical memory, through the HHDM
  heap_ready,
  heap_used,         \* heap_used_bytes, in words
  heap_frame_count,
  heap_free_list,
  pmm_free,          \* the frames that the PMM can hand out
  pc,                \* the loop the running call is in, or "idle"
  size,              \* kmalloc: the rounded request
  previous,          \* the link before `current`
  current,           \* the block the running loop looks at
  target,            \* kmalloc: new_frame_header; kfree: the block being freed
  panic,
  \* history, read by no step of the code
  wanted,            \* kmalloc: the bytes the client asked for
  blocks,            \* the headers that divide the heap's frames among them
  live,              \* allocated header -> the bytes its client asked for
  heap_frames,       \* the frames the heap has taken
  clobbered          \* words that a client has written into

state   == <<mem, heap_ready, heap_used, heap_frame_count, heap_free_list>>
locals  == <<pc, size, previous, current, target>>
history == <<wanted, blocks, live, heap_frames, clobbered>>
vars    == <<state, pmm_free, locals, panic, history>>

-----------------------------------------------------------------------------
\* The fields of the header at address a.
Size(a)    == mem[a]
NextOf(a)  == mem[a + 1]
IsFree(a)  == mem[a + 2] # 0
MagicOf(a) == mem[a + 3]

Header(a)  == a .. a + HeaderWords - 1
EndOf(a)   == a + HeaderWords + Size(a)
Payload(a) == a + HeaderWords .. EndOf(a) - 1

\* Mutant: rounded down.
round_up_to_16_Down(bytes) == (bytes \div AlignBytes) * AlignWords

\* round_up_to_16, in words: the addition wraps.
round_up_to_16(bytes) ==
  (((bytes + AlignBytes - 1) % WordMod) \div AlignBytes) * AlignWords

\* Mutant: the head is set only if the list is empty.
HeadAfter_Kept(from, to) ==
  IF heap_free_list = NULL THEN to ELSE heap_free_list

\* Memory m with the link before a list position set: the head, or a header.
Linked(m, from, to) == IF from = NULL THEN m ELSE [m EXCEPT ![from + 1] = to]
HeadAfter(from, to) == IF from = NULL THEN to ELSE heap_free_list

Init ==
  /\ mem = [w \in Words |-> 0]
  /\ heap_ready = FALSE
  /\ heap_used = 0
  /\ heap_frame_count = 0
  /\ heap_free_list = NULL
  /\ pmm_free \in SUBSET Frames
  /\ pc = "idle"
  /\ size = 0 /\ previous = NULL /\ current = NULL /\ target = NULL
  /\ panic = ""
  /\ wanted = 0 /\ blocks = {} /\ live = <<>>
  /\ heap_frames = {} /\ clobbered = {}

\* A call returns: its local variables are gone.
Return ==
  /\ pc' = "idle"
  /\ size' = 0 /\ wanted' = 0
  /\ previous' = NULL /\ current' = NULL /\ target' = NULL

Panic(message) ==
  /\ panic' = message
  /\ UNCHANGED <<state, pmm_free, locals, history>>

\* main.c calls it once.
heap_init ==
  /\ panic = "" /\ pc = "idle"
  /\ ~heap_ready
  /\ heap_ready' = TRUE
  /\ heap_used' = 0
  /\ heap_frame_count' = 0
  /\ heap_free_list' = NULL
  /\ UNCHANGED <<mem, pmm_free, locals, panic, history>>

-----------------------------------------------------------------------------
(* kmalloc                                                                 *)

KmallocError(bytes) ==
  CASE ~heap_ready -> "KBM_HEAP_NOT_INITIATED"
    [] heap_ready /\ bytes = 0 -> "KBM_0_HEAP_ALLOCATION"
    [] heap_ready /\ bytes # 0
         /\ round_up_to_16(bytes) > FrameWords - HeaderWords ->
         "KBM_HEAP_OVERFLOW"
    [] OTHER -> ""

kmalloc(bytes) ==
  /\ panic = "" /\ pc = "idle"
  /\ IF KmallocError(bytes) # ""
     THEN Panic(KmallocError(bytes))
     ELSE /\ pc' = "search"
          /\ size' = round_up_to_16(bytes)
          /\ previous' = NULL
          /\ current' = heap_free_list
          /\ wanted' = bytes
          /\ UNCHANGED <<state, pmm_free, target, panic, blocks, live,
                         heap_frames, clobbered>>

Fits(a) == IsFree(a) /\ Size(a) >= size

\* Mutant: the loop does not advance.
SearchBlock_Stuck ==
  /\ panic = "" /\ pc = "search"
  /\ pc' = IF current = NULL THEN "grow"
           ELSE IF Fits(current) THEN "take" ELSE pc
  /\ UNCHANGED <<state, pmm_free, size, previous, current, target, panic,
                 history>>

\* The first loop, until a block fits or the list ends.
SearchBlock ==
  /\ panic = "" /\ pc = "search"
  /\ IF current # NULL /\ ~Fits(current)
     THEN /\ previous' = current
          /\ current' = NextOf(current)
          /\ UNCHANGED pc
     ELSE /\ pc' = IF current = NULL THEN "grow" ELSE "take"
          /\ UNCHANGED <<previous, current>>
  /\ UNCHANGED <<state, pmm_free, size, target, panic, history>>

\* pmm_allocate_frame returns the lowest free frame or panics.
TakeFrame ==
  /\ panic = "" /\ pc = "grow"
  /\ IF pmm_free = {}
     THEN Panic("KBM_OUT_OF_MEMORY")
     ELSE LET f == Min(pmm_free)
              a == FrameStart(f)
          IN  /\ pmm_free' = pmm_free \ {f}
              /\ mem' = [mem EXCEPT ![a]     = FrameWords - HeaderWords,
                                    ![a + 2] = 1,
                                    ![a + 3] = Magic]
              /\ target' = a
              /\ previous' = NULL
              /\ current' = heap_free_list
              /\ pc' = "place"
              /\ heap_frames' = heap_frames \cup {f}
              /\ UNCHANGED <<heap_ready, heap_used, heap_frame_count,
                             heap_free_list, size, panic, wanted, blocks,
                             live, clobbered>>

\* The second loop finds the new frame's place, then links it.
PlaceFrame ==
  /\ panic = "" /\ pc = "place"
  /\ IF current # NULL /\ current < target
     THEN /\ previous' = current
          /\ current' = NextOf(current)
          /\ UNCHANGED <<state, pc, blocks>>
     ELSE /\ mem' = Linked([mem EXCEPT ![target + 1] = current],
                           previous, target)
          /\ heap_free_list' = HeadAfter(previous, target)
          /\ current' = target
          /\ heap_frame_count' = heap_frame_count + 1
          /\ blocks' = blocks \cup {target}
          /\ pc' = "take"
          /\ UNCHANGED <<heap_ready, heap_used, previous>>
  /\ UNCHANGED <<pmm_free, size, target, panic, wanted, live, heap_frames,
                 clobbered>>

\* Split `current` if the rest can hold a block, unlink it, and return it.
TakeBlock ==
  /\ panic = "" /\ pc = "take"
  /\ LET remaining == Size(current) - size
         rest      == current + HeaderWords + size
         taken(m)  == [m EXCEPT ![current + 1] = NULL, ![current + 2] = 0]
     IN  IF remaining >= HeaderWords + AlignWords
         THEN /\ mem' = taken(Linked(
                          [mem EXCEPT ![rest]     = remaining - HeaderWords,
                                      ![rest + 1] = NextOf(current),
                                      ![rest + 2] = 1,
                                      ![rest + 3] = Magic,
                                      ![current]  = size],
                          previous, rest))
              /\ heap_free_list' = HeadAfter(previous, rest)
              /\ blocks' = blocks \cup {rest}
              /\ clobbered' = clobbered \ Header(rest)
         ELSE /\ mem' = taken(Linked(mem, previous, NextOf(current)))
              /\ heap_free_list' = HeadAfter(previous, NextOf(current))
              /\ UNCHANGED <<blocks, clobbered>>
  /\ heap_used' = heap_used + mem'[current]
  /\ Return
  /\ live' = [a \in DOMAIN live \cup {current} |->
                IF a = current THEN wanted ELSE live[a]]
  /\ UNCHANGED <<heap_ready, heap_frame_count, pmm_free, panic, heap_frames>>

-----------------------------------------------------------------------------
(* kfree                                                                   *)

\* Mutant: is_free is not checked.
KfreeError_Twice(a) ==
  CASE ~heap_ready -> "KBM_HEAP_NOT_INITIATED"
    [] heap_ready /\ MagicOf(a) # Magic -> "KBM_HEAP_INVALID_FREE"
    [] OTHER -> ""

KfreeError(a) ==
  CASE ~heap_ready -> "KBM_HEAP_NOT_INITIATED"
    [] heap_ready /\ MagicOf(a) # Magic -> "KBM_HEAP_INVALID_FREE"
    [] heap_ready /\ MagicOf(a) = Magic /\ IsFree(a) ->
         "KBM_HEAP_DOUBLE_FREE"
    [] OTHER -> ""

\* Mutant: the header keeps its old is_free.
kfree_StillAllocated(a) ==
  /\ panic = "" /\ pc = "idle"
  /\ IF KfreeError(a) # ""
     THEN Panic(KfreeError(a))
     ELSE /\ target' = a
          /\ previous' = NULL
          /\ current' = heap_free_list
          /\ pc' = "insert"
          /\ live' = [b \in DOMAIN live \ {a} |-> live[b]]
          /\ UNCHANGED <<state, pmm_free, size, panic, wanted, blocks,
                         heap_frames, clobbered>>

\* The pointer is one past the header at a; kfree(0) returns at once.
kfree(a) ==
  /\ panic = "" /\ pc = "idle"
  /\ IF KfreeError(a) # ""
     THEN Panic(KfreeError(a))
     ELSE /\ mem' = [mem EXCEPT ![a + 2] = 1]
          /\ target' = a
          /\ previous' = NULL
          /\ current' = heap_free_list
          /\ pc' = "insert"
          /\ live' = [b \in DOMAIN live \ {a} |-> live[b]]
          /\ UNCHANGED <<heap_ready, heap_used, heap_frame_count,
                         heap_free_list, pmm_free, size, panic, wanted, blocks,
                         heap_frames, clobbered>>

\* Mutants: the header of b is lost, or counted twice; b need not touch a; only
\* the following block is joined.
Merged_LostHeader(m, a, b) ==
  IF a # NULL /\ b # NULL /\ a + HeaderWords + m[a] = b
  THEN [m EXCEPT ![a] = @ + m[b], ![a + 1] = m[b + 1]] ELSE m
Merged_TwoHeaders(m, a, b) ==
  IF a # NULL /\ b # NULL /\ a + HeaderWords + m[a] = b
  THEN [m EXCEPT ![a] = @ + 2 * HeaderWords + m[b], ![a + 1] = m[b + 1]] ELSE m
Merged_Apart(m, a, b) ==
  IF a # NULL /\ b # NULL
  THEN [m EXCEPT ![a] = b - a + m[b], ![a + 1] = m[b + 1]] ELSE m
Merged_Forward(m, a, b) ==
  IF a = target /\ b # NULL /\ a + HeaderWords + m[a] = b
  THEN [m EXCEPT ![a] = @ + HeaderWords + m[b], ![a + 1] = m[b + 1]] ELSE m

\* Block a of memory m, joined with the block b behind it if they touch.
Merged(m, a, b) ==
  IF a # NULL /\ b # NULL /\ a + HeaderWords + m[a] = b
  THEN [m EXCEPT ![a] = @ + HeaderWords + m[b], ![a + 1] = m[b + 1]]
  ELSE m

\* The loop finds the block's place; then it is linked and merged with its
\* neighbours, the following block first.
InsertBlock ==
  /\ panic = "" /\ pc = "insert"
  /\ IF current # NULL /\ current < target
     THEN /\ previous' = current
          /\ current' = NextOf(current)
          /\ UNCHANGED <<state, pc, size, target, wanted, blocks>>
     ELSE LET linked == Linked([mem EXCEPT ![target + 1] = current],
                               previous, target)
              joined == Merged(linked, target, current)
          IN  /\ mem' = Merged(joined, previous, target)
              /\ heap_free_list' = HeadAfter(previous, target)
              /\ heap_used' = heap_used - Size(target)
              /\ blocks' = blocks
                   \ ((IF joined # linked THEN {current} ELSE {})
                      \cup (IF mem' # joined THEN {target} ELSE {}))
              /\ Return
              /\ UNCHANGED <<heap_ready, heap_frame_count>>
  /\ UNCHANGED <<pmm_free, panic, live, heap_frames, clobbered>>

-----------------------------------------------------------------------------
(* Its clients, between calls                                              *)

\* A client writes into its payload.  Only a write to the last two words of
\* what once was a header is told apart from none: no other stale word is ever
\* looked at again.
WritePayload ==
  /\ panic = "" /\ pc = "idle"
  /\ \E a \in DOMAIN live : \E w \in Payload(a) :
       /\ mem[w] # 0
       /\ mem[w] = Magic \/ (w + 1 \in Words /\ mem[w + 1] = Magic)
       /\ mem' = [mem EXCEPT ![w] = 0]
       /\ clobbered' = clobbered \cup {w}
  /\ UNCHANGED <<heap_ready, heap_used, heap_frame_count, heap_free_list,
                 pmm_free, locals, panic, wanted, blocks, live, heap_frames>>

\* Another part of the kernel takes a frame from the PMM, or returns its own.
OtherFrames ==
  /\ panic = "" /\ pc = "idle"
  /\ \/ pmm_free # {} /\ pmm_free' = pmm_free \ {Min(pmm_free)}
     \/ \E f \in Frames \ (pmm_free \cup heap_frames) :
          pmm_free' = pmm_free \cup {f}
  /\ UNCHANGED <<state, locals, panic, history>>

\* What a client may pass to kfree: its own block, or by mistake a pointer into
\* the heap's frames, while no client has written where its header would be.
Freeable ==
  DOMAIN live \cup
  {a \in UNION {FrameSpan(f) : f \in heap_frames} :
     /\ a % AlignWords = 0
     /\ a + HeaderWords - 1 \in Words
     /\ Header(a) \cap clobbered = {}}

\* cpu_halt_forever.
Halted == panic # "" /\ UNCHANGED vars

CallStep == SearchBlock \/ TakeFrame \/ PlaceFrame \/ TakeBlock \/ InsertBlock

Next ==
  \/ heap_init
  \/ \E bytes \in Requests : kmalloc(bytes)
  \/ \E a \in Freeable : kfree(a)
  \/ CallStep
  \/ WritePayload
  \/ OtherFrames
  \/ Halted

\* A call that has begun runs on: nothing else executes the heap's code.
Spec == Init /\ [][Next]_vars /\ WF_vars(CallStep)

-----------------------------------------------------------------------------
(* Properties                                                              *)

pcs    == {"idle", "search", "grow", "place", "take", "insert"}
panics == {"", "KBM_HEAP_NOT_INITIATED", "KBM_0_HEAP_ALLOCATION",
           "KBM_HEAP_OVERFLOW", "KBM_OUT_OF_MEMORY", "KBM_HEAP_INVALID_FREE",
           "KBM_HEAP_DOUBLE_FREE"}

TypeOK ==
  /\ mem \in [Words -> Nat]
  /\ heap_ready \in BOOLEAN
  /\ heap_used \in Nat
  /\ heap_frame_count \in Nat
  /\ heap_free_list \in Words \cup {NULL}
  /\ pmm_free \in SUBSET Frames
  /\ pc \in pcs
  /\ size \in Nat /\ wanted \in Nat
  /\ {previous, current, target} \subseteq Words \cup {NULL}
  /\ panic \in panics
  /\ blocks \in SUBSET Words
  /\ DOMAIN live \subseteq blocks
  /\ \A a \in DOMAIN live : live[a] \in Nat
  /\ heap_frames \in SUBSET (Frames \ pmm_free)
  /\ clobbered \in SUBSET Words

FreeBlocks == {b \in blocks : IsFree(b)}
Span(b)    == b .. EndOf(b) - 1
First(S)   == IF S = {} THEN NULL ELSE Min(S)

\* Between calls the blocks divide the heap's frames among them without a gap
\* or an overlap: splitting and merging lose no memory and invent none.
Tiling ==
  pc = "idle" =>
    /\ UNION {Span(b) : b \in blocks}
         = UNION {FrameSpan(f) : f \in heap_frames}
    /\ \A b, c \in blocks : b # c => Span(b) \cap Span(c) = {}

\* Between calls the list holds every free block, in address order, and none
\* that a client has, whatever the order of splits, merges and new frames.
FreeListComplete ==
  pc = "idle" =>
    /\ heap_free_list = First(FreeBlocks)
    /\ \A b \in FreeBlocks : NextOf(b) = First({c \in FreeBlocks : c > b})
    /\ FreeBlocks = blocks \ DOMAIN live

\* The counters that MEM shows: the bytes of the live blocks, however often
\* they were part of bigger ones, and the frames taken from the PMM.
Accounting ==
  pc = "idle" =>
    /\ heap_used = SumFunction([a \in DOMAIN live |-> Size(a)])
    /\ heap_frame_count = Cardinality(heap_frames)

\* Between calls no free block ends where another begins, except where a frame
\* does: kmalloc does not merge a new frame with its neighbours.
Coalesced ==
  pc = "idle" =>
    \A b, c \in FreeBlocks :
      EndOf(b) = c => \E f \in heap_frames : c = FrameStart(f)

\* A client gets at least the bytes it asked for, on a 16-byte boundary.
PayloadFits ==
  \A a \in DOMAIN live :
    /\ live[a] <= Size(a) * 8
    /\ (a + HeaderWords) % AlignWords = 0

\* A header that claims to be allocated is that of a live block: kfree catches
\* every double free and every stale pointer, through merges, splits and
\* headers written over the remains of others, until a client writes where the
\* old header was.
HeadersHonest ==
  \A a \in UNION {FrameSpan(f) : f \in heap_frames} :
    /\ a % AlignWords = 0 /\ a + HeaderWords - 1 \in Words
    /\ MagicOf(a) = Magic /\ ~IsFree(a)
    /\ Header(a) \cap clobbered = {}
    => a \in DOMAIN live

\* No call ever writes into a block that a client holds.
PayloadUntouched ==
  [][\A a \in DOMAIN live \cap DOMAIN live' :
       pc # "idle" \/ pc' # "idle" =>
         \A w \in Payload(a) : mem'[w] = mem[w]]_vars

\* A call that walks the free list comes to its end.
CallsEnd == pc # "idle" ~> pc = "idle" \/ panic # ""

\* The documentation: a request larger than a frame minus its header panics,
\* so no client ever holds a block for one.
OversizePanics ==
  \A a \in DOMAIN live : live[a] <= (FrameWords - HeaderWords) * 8

\* Headers, list, splits and merges implement exclusive extents that stay put.
Grants == INSTANCE MemoryGrants WITH
  arena  <- UNION {FrameSpan(f) : f \in heap_frames},
  grants <- [p \in {a + HeaderWords : a \in DOMAIN live} |->
               Payload(p - HeaderWords)],
  halted <- panic # ""

ImplementsGrants == Grants!Spec
=============================================================================
