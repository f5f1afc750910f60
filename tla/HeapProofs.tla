----------------------------- MODULE HeapProofs -----------------------------
(***************************************************************************)
(* The heap keeps its blocks and its free list in order, leaves its        *)
(* clients' blocks alone and implements MemoryGrants, for every size of a  *)
(* frame, every set of frames and every set of requests.                   *)
(***************************************************************************)
EXTENDS HeapLemmas

-----------------------------------------------------------------------------
(* The inductive invariant                                                 *)

\* The block that the running call has in hand: in no list, and, when it is a
\* new frame's, not among the blocks yet.
Extra  == IF pc \in {"place", "insert"} THEN {target} ELSE {}
All    == blocks \cup Extra
Listed == {b \in All : mem[b + 2] # 0} \ Extra

\* TypeOK, but for the sign of heap_used.
Typed ==
  /\ mem \in [Words -> Nat]
  /\ heap_ready \in BOOLEAN
  /\ heap_used \in Int
  /\ heap_frame_count \in Nat
  /\ heap_free_list \in Words \cup {NULL}
  /\ pmm_free \in SUBSET Frames
  /\ pc \in pcs
  /\ size \in Nat /\ wanted \in Nat
  /\ {previous, current, target} \subseteq Words \cup {NULL}
  /\ panic \in panics
  /\ blocks \in SUBSET Words
  /\ DOMAIN live \subseteq blocks
  /\ \A a \in DOMAIN live : live[a] \in Nat
  /\ heap_frames \in SUBSET (Frames \ pmm_free)
  /\ clobbered \in SUBSET Words

\* Before heap_init the heap has nothing.
Ready == ~heap_ready => pc = "idle" /\ heap_frames = {} /\ blocks = {}

\* The allocated blocks are those that clients have; what is in no list has no
\* successor.
Claims ==
  /\ DOMAIN live = {b \in All : mem[b + 2] = 0}
  /\ \A b \in All \ Listed : mem[b + 1] = NULL

\* Where the running loop is in the list.
Position ==
  pc \in {"search", "place", "take", "insert"} =>
    /\ previous \in Listed \cup {NULL}
    /\ current = Link(mem, heap_free_list, previous)

\* What the running call is about to link, or to take.
InHand ==
  /\ pc \in {"place", "insert"} => mem[target + 2] # 0 /\ previous < target
  /\ pc = "place" => target \in Edges /\ Ends(mem, target) = target + FrameWords
  /\ pc = "insert" => target \in blocks
  /\ pc = "take" => current \in Listed /\ mem[current] >= size

\* The size that kmalloc looks for.
Requested ==
  pc \in {"search", "grow", "place", "take"} =>
    Even(size) /\ size <= FrameWords - HeaderWords

\* What no frame of the heap holds has never been written.
Fresh == \A w \in Words : w \notin Arena => mem[w] = 0

\* Only a client's block looks like one, until the word that says so has been
\* overwritten.
Honest ==
  \A a \in Words :
    /\ Even(a) /\ a + 3 \in Words
    /\ mem[a + 3] = Magic /\ mem[a + 2] = 0 /\ a + 2 \notin clobbered
    => a \in DOMAIN live

\* No request is so large that rounding it up wraps around.
NoWrap == \A bytes \in Requests : bytes + AlignBytes <= WordMod

\* Unless the rounding wraps, a block has what its client asked for, and a word.
Sufficient ==
  NoWrap =>
    /\ \A a \in DOMAIN live : mem[a] > 0 /\ live[a] <= mem[a] * 8
    /\ pc \in {"search", "grow", "place", "take"} => size > 0 /\ wanted <= size * 8

IInv ==
  /\ Typed
  /\ Ready
  /\ Layout(mem, All, Arena)
  /\ Claims
  /\ Chain(mem, Listed, heap_free_list)
  /\ Position
  /\ InHand
  /\ Requested
  /\ Separated(mem, Listed, Edges)
  /\ Fresh
  /\ Honest
  /\ Sufficient

-----------------------------------------------------------------------------
(* The steps that begin a call, and those of others                        *)

LEMMA InitInv ==
  ASSUME Init
  PROVE  IInv
<1> USE DEF Init
<1>0. DOMAIN live = {}
  <2>1. live = <<>>
    BY DEF Init
  <2> HIDE DEF Init
  <2>2. DOMAIN <<>> = {}
    OBVIOUS
  <2> QED
    BY <2>1, <2>2
<1>1. Typed
  <2>1. mem \in [Words -> Nat] /\ pmm_free \in SUBSET Frames
    OBVIOUS
  <2>2. panic \in panics /\ pc \in pcs
    BY DEF panics, pcs
  <2>3. {previous, current, target} \subseteq Words \cup {NULL}
    BY DEF NULL
  <2>4. blocks \in SUBSET Words /\ clobbered \in SUBSET Words
    OBVIOUS
  <2>8. heap_frames \in SUBSET (Frames \ pmm_free)
    OBVIOUS
  <2>5. heap_free_list \in Words \cup {NULL} /\ heap_ready \in BOOLEAN
    OBVIOUS
  <2>6. heap_used = 0 /\ heap_frame_count = 0 /\ size = 0 /\ wanted = 0
    BY Zenon
  <2>7. DOMAIN live \subseteq blocks /\ \A a \in DOMAIN live : live[a] \in Nat
    BY <1>0
  <2> HIDE DEF Init
  <2> QED
    BY <2>1, <2>2, <2>3, <2>4, <2>5, <2>6, <2>7, <2>8 DEF Typed
<1>2. All = {} /\ Listed = {} /\ Arena = {} /\ Edges = {}
  BY DEF All, Extra, Listed, Arena, Edges
<1>3. Layout(mem, All, Arena) /\ Chain(mem, Listed, heap_free_list)
      /\ Separated(mem, Listed, Edges)
  BY <1>2 DEF Layout, Chain, After, Separated, NULL
<1>4. Honest
  <2>1. \A w \in Words : mem[w] = 0
    OBVIOUS
  <2>2. Magic # 0
    BY HeapAssumption
  <2> QED
    BY <2>1, <2>2 DEF Honest
<1>5. Ready /\ Claims /\ Position /\ InHand /\ Requested /\ Fresh /\ Sufficient
  BY <1>0, <1>2 DEF Ready, Claims, Position, InHand, Requested, Fresh, Sufficient
<1> QED
  BY <1>1, <1>3, <1>4, <1>5 DEF IInv

\* What the invariant says of every header.
LEMMA BlockFacts ==
  ASSUME IInv
  PROVE  /\ Arena \subseteq Words /\ Listed \subseteq All /\ All \subseteq Arena
         /\ Words \subseteq Nat /\ NULL \notin Words
         /\ \A b \in All : /\ b \in Nat /\ b # 0 /\ Even(b)
                           /\ mem[b] \in Nat /\ Even(mem[b]) /\ mem[b + 3] = Magic
                           /\ Ends(mem, b) = b + 4 + mem[b] /\ Ends(mem, b) \in Nat
         /\ \A b \in All : /\ b \in Arena /\ b + 1 \in Arena
                           /\ b + 2 \in Arena /\ b + 3 \in Arena
         /\ \A b, c \in All : b # c => Ends(mem, b) <= c \/ Ends(mem, c) <= b
<1>1. Arena \subseteq Words
  BY FrameType DEF IInv, Typed, Arena
<1>2. Layout(mem, All, Arena)
  BY DEF IInv
<1>3. \A b \in All : b \in Arena
  BY <1>2, HeaderInside
<1>4. \A b \in All : /\ b \in Nat /\ b # 0 /\ Even(b)
                     /\ mem[b] \in Nat /\ Even(mem[b]) /\ mem[b + 3] = Magic
                     /\ Ends(mem, b) = b + 4 + mem[b] /\ Ends(mem, b) \in Nat
  BY <1>2, LayoutType
<1>5. \A b \in All : /\ b \in Arena /\ b + 1 \in Arena
                     /\ b + 2 \in Arena /\ b + 3 \in Arena
  BY <1>2, HeaderInside
<1>6. \A b, c \in All : b # c => Ends(mem, b) <= c \/ Ends(mem, c) <= b
  BY <1>2 DEF Layout
<1> QED
  BY <1>1, <1>3, <1>4, <1>5, <1>6, WordsType DEF Listed, NULL

\* The link at a position leads to a listed block or nowhere.
LEMMA LinkType ==
  ASSUME IInv, NEW p \in Listed \cup {NULL}
  PROVE  Link(mem, heap_free_list, p) \in Listed \cup {NULL}
BY LinkIsAfter DEF IInv, After

\* Steps that leave the heap's memory, blocks and clients alone.
LEMMA HeapUnchanged ==
  ASSUME IInv, UNCHANGED <<mem, heap_free_list, All, Extra, live, heap_frames, clobbered>>
  PROVE  /\ Listed' = Listed
         /\ Layout(mem, All, Arena)' /\ Claims' /\ Chain(mem, Listed, heap_free_list)'
         /\ Separated(mem, Listed, Edges)' /\ Fresh' /\ Honest'
<1>1. Listed' = Listed /\ Arena' = Arena /\ Edges' = Edges
  BY DEF Listed, Arena, Edges
<1> QED
  BY <1>1 DEF IInv, Layout, Ends, Claims, Chain, After, Separated, Fresh, Honest

LEMMA PanicKeeps ==
  ASSUME IInv, NEW message \in panics, Panic(message)
  PROVE  IInv'
<1> USE DEF Panic, state, locals, history
<1>1. UNCHANGED <<All, Extra>>
  BY DEF All, Extra
<1>2. Listed' = Listed /\ Edges' = Edges /\ Arena' = Arena
  BY <1>1, HeapUnchanged DEF Edges, Arena
<1>3. Typed'
  BY DEF IInv, Typed
<1>4. Ready' /\ Position' /\ InHand' /\ Requested' /\ Sufficient'
  BY <1>2 DEF IInv, Ready, Position, InHand, Requested, Sufficient, Link, Ends
<1> QED
  BY <1>1, <1>3, <1>4, HeapUnchanged DEF IInv

LEMMA InitKeeps ==
  ASSUME IInv, heap_init
  PROVE  IInv'
<1> USE DEF heap_init, locals, history
<1>1. UNCHANGED <<All, Extra, Listed, Arena, Edges>> /\ All = {} /\ Listed = {} /\ Arena = {}
  BY DEF IInv, Ready, All, Extra, Listed, Arena, Edges
<1>2. Ready'
  BY DEF Ready, IInv
<1>5. Typed'
  <2>1. /\ UNCHANGED <<mem, pmm_free, pc, size, wanted, previous, current, target,
                       panic, blocks, live, heap_frames, clobbered>>
        /\ heap_ready' = TRUE
    BY Zenon
  <2>2. heap_used' = 0 /\ heap_frame_count' = 0
    BY Zenon
  <2>3. heap_free_list' \in Words \cup {NULL}
    OBVIOUS
  <2> HIDE DEF heap_init
  <2>4. heap_ready' \in BOOLEAN
    BY <2>1, Zenon
  <2> QED
    BY <2>1, <2>2, <2>3, <2>4 DEF IInv, Typed
<1>3. Layout(mem, All, Arena)' /\ Chain(mem, Listed, heap_free_list)'
      /\ Separated(mem, Listed, Edges)'
  BY <1>1 DEF Layout, Chain, After, Separated, NULL
<1>4. Claims' /\ Position' /\ InHand' /\ Requested' /\ Fresh' /\ Honest' /\ Sufficient'
  BY <1>1 DEF IInv, Claims, Position, InHand, Requested, Fresh, Honest, Sufficient
<1> QED
  BY <1>2, <1>3, <1>4, <1>5 DEF IInv

\* A request that passes kmalloc's checks is rounded up to an even number of words
\* that fits a frame, and to none below it unless the addition wraps.
LEMMA RoundUp ==
  ASSUME NEW bytes \in 0 .. WordMod - 1
  PROVE  /\ round_up_to_16(bytes) \in Nat
         /\ Even(round_up_to_16(bytes))
         /\ bytes + AlignBytes <= WordMod => bytes <= round_up_to_16(bytes) * 8
         /\ bytes + AlignBytes <= WordMod /\ bytes # 0 => round_up_to_16(bytes) > 0
<1>1. WordMod \in Nat \ {0} /\ bytes \in Nat
  BY HeapAssumption
<1> DEFINE s == (bytes + 15) % WordMod
<1>2. s \in Nat
  <2>1. \A n, d \in Nat : d > 0 => n % d \in Nat
    OBVIOUS
  <2> QED
    BY <1>1, <2>1
<1>3. round_up_to_16(bytes) = (s \div 16) * 2
  BY <1>1 DEF round_up_to_16, AlignBytes, AlignWords
<1>4. bytes + 16 <= WordMod => s = bytes + 15
  <2>1. \A n, d \in Nat : n < d => n % d = n
    OBVIOUS
  <2> QED
    BY <1>1, <2>1
<1> HIDE DEF s
<1>5. s \div 16 \in Nat
  BY <1>2
<1>6. round_up_to_16(bytes) \in Nat /\ round_up_to_16(bytes) % 2 = 0
  <2>1. \A j \in Nat : (j * 2) % 2 = 0
    OBVIOUS
  <2> QED
    BY <1>3, <1>5, <2>1
<1>7. s = bytes + 15 => bytes <= (s \div 16) * 16
  BY <1>1, <1>2
<1> QED
  BY <1>1, <1>3, <1>4, <1>5, <1>6, <1>7 DEF Even, AlignWords, AlignBytes

LEMMA KmallocKeeps ==
  ASSUME IInv, NEW bytes \in Requests, kmalloc(bytes)
  PROVE  IInv'
<1>1. CASE KmallocError(bytes) # ""
  <2>1. Panic(KmallocError(bytes)) /\ KmallocError(bytes) \in panics
    BY <1>1 DEF kmalloc, KmallocError, panics
  <2> QED
    BY <2>1, PanicKeeps
<1>2. CASE KmallocError(bytes) = ""
  <2>1. /\ pc = "idle" /\ pc' = "search" /\ size' = round_up_to_16(bytes)
        /\ previous' = NULL /\ current' = heap_free_list /\ wanted' = bytes
        /\ UNCHANGED <<mem, heap_ready, heap_used, heap_frame_count, heap_free_list,
                       pmm_free, target, panic, blocks, live, heap_frames, clobbered>>
    BY <1>2 DEF kmalloc, state
  <2>2. heap_ready /\ bytes # 0 /\ ~(round_up_to_16(bytes) > FrameWords - HeaderWords)
    BY <1>2 DEF KmallocError
  <2>3. UNCHANGED <<All, Extra>>
    BY <2>1 DEF All, Extra
  <2>4. Listed' = Listed /\ Edges' = Edges
    BY <2>1, <2>3, HeapUnchanged DEF Edges
  <2>5. bytes \in 0 .. WordMod - 1 /\ FrameWords \in Nat /\ bytes \in Nat
    BY HeapAssumption
  <2>6. round_up_to_16(bytes) \in Nat
    BY <2>5, RoundUp
  <2>7. Typed' /\ Ready'
    BY <2>1, <2>2, <2>5, <2>6 DEF IInv, Typed, Ready, pcs, NULL
  <2>8. Position' /\ InHand'
    BY <2>1, <2>4 DEF Position, InHand, Link
  <2>9. Requested'
    BY <2>1, <2>2, <2>5, <2>6, RoundUp DEF Requested, HeaderWords
  <2>10. Sufficient'
    <3>1. NoWrap => size' > 0 /\ wanted' <= size' * 8
      BY <2>1, <2>2, <2>5, RoundUp DEF NoWrap
    <3> QED
      BY <2>1, <3>1 DEF IInv, Sufficient
  <2> QED
    BY <2>1, <2>3, <2>7, <2>8, <2>9, <2>10, HeapUnchanged DEF IInv
<1> QED
  BY <1>1, <1>2

LEMMA SearchKeeps ==
  ASSUME IInv, SearchBlock
  PROVE  IInv'
<1>1. /\ pc = "search"
      /\ UNCHANGED <<mem, heap_ready, heap_used, heap_frame_count, heap_free_list,
                     pmm_free, size, target, panic, wanted, blocks, live, heap_frames,
                     clobbered>>
      /\ pc' \in {"search", "grow", "take"}
  BY DEF SearchBlock, state, history
<1>2. UNCHANGED <<All, Extra>>
  BY <1>1 DEF All, Extra
<1>3. Listed' = Listed /\ Edges' = Edges
  BY <1>1, <1>2, HeapUnchanged DEF Edges
<1>4. current \in Listed \cup {NULL} /\ previous \in Listed \cup {NULL}
      /\ current = Link(mem, heap_free_list, previous) /\ Listed \subseteq Words
  BY <1>1, LinkType, BlockFacts DEF IInv, Position
<1>5. CASE current # NULL /\ ~Fits(current)
  <2>1. previous' = current /\ current' = mem[current + 1] /\ pc' = "search"
    BY <1>1, <1>5 DEF SearchBlock, NextOf
  <2>2. current' = Link(mem, heap_free_list, current) /\ current \in Listed
    BY <1>4, <1>5, <2>1 DEF Link
  <2>3. current' \in Listed \cup {NULL}
    BY <2>2, LinkType
  <2> QED
    <3>1. Typed'
      BY <1>1, <1>4, <2>1, <2>3 DEF IInv, Typed
    <3>2. Ready' /\ Position' /\ InHand' /\ Requested' /\ Sufficient'
      BY <1>1, <1>3, <2>1, <2>2 DEF IInv, Ready, Position, InHand, Requested, Sufficient, Link
    <3> QED
      BY <1>1, <1>2, <3>1, <3>2, HeapUnchanged DEF IInv
<1>6. CASE ~(current # NULL /\ ~Fits(current))
  <2>1. UNCHANGED <<previous, current>> /\ pc' = (IF current = NULL THEN "grow" ELSE "take")
    BY <1>6 DEF SearchBlock
  <2>2. pc' = "take" => current \in Listed /\ mem[current] >= size
    BY <1>4, <1>6, <2>1 DEF Fits, Size
  <2>3. Typed'
    BY <1>1, <2>1 DEF IInv, Typed, pcs
  <2>4. Ready' /\ Position' /\ InHand' /\ Requested' /\ Sufficient'
    BY <1>1, <1>3, <1>4, <2>1, <2>2 DEF IInv, Ready, Position, InHand, Requested, Sufficient, Link
  <2> QED
    BY <1>1, <1>2, <2>3, <2>4, HeapUnchanged DEF IInv
<1> QED
  BY <1>5, <1>6

LEMMA OtherKeeps ==
  ASSUME IInv, OtherFrames
  PROVE  IInv'
<1>1. UNCHANGED <<mem, heap_ready, heap_used, heap_frame_count, heap_free_list, pc, size,
                  previous, current, target, panic, wanted, blocks, live, heap_frames,
                  clobbered>>
  BY DEF OtherFrames, state, locals, history
<1>2. UNCHANGED <<All, Extra>>
  BY <1>1 DEF All, Extra
<1>3. Listed' = Listed /\ Edges' = Edges
  BY <1>1, <1>2, HeapUnchanged DEF Edges
<1>4. pmm_free' \in SUBSET Frames /\ heap_frames \in SUBSET (Frames \ pmm_free')
  BY DEF OtherFrames, IInv, Typed
<1>5. Typed'
  BY <1>1, <1>4 DEF IInv, Typed
<1>6. Ready' /\ Position' /\ InHand' /\ Requested' /\ Sufficient'
  BY <1>1, <1>3 DEF IInv, Ready, Position, InHand, Requested, Sufficient, Link, Ends
<1> QED
  BY <1>1, <1>2, <1>5, <1>6, HeapUnchanged DEF IInv

\* Between calls kfree accepts nothing but a client's block.
LEMMA FreeableHonest ==
  ASSUME IInv, NEW a \in Freeable, MagicOf(a) = Magic, ~IsFree(a)
  PROVE  a \in DOMAIN live
<1>1. CASE a \notin DOMAIN live
  <2>1. /\ a \in Arena /\ a % AlignWords = 0 /\ a + HeaderWords - 1 \in Words
        /\ Header(a) \cap clobbered = {}
    BY <1>1 DEF Freeable, Arena
  <2>2. a \in Words /\ a \in Nat
    BY <2>1, BlockFacts
  <2>3. a + 2 \notin clobbered /\ a + 3 \in Words
    BY <2>1, <2>2 DEF Header, HeaderWords
  <2> QED
    BY <2>1, <2>2, <2>3 DEF IInv, Honest, Even, MagicOf, IsFree
<1> QED
  BY <1>1

LEMMA KfreeKeeps ==
  ASSUME IInv, NEW a \in Freeable, kfree(a)
  PROVE  IInv'
<1>1. CASE KfreeError(a) # ""
  <2>1. Panic(KfreeError(a)) /\ KfreeError(a) \in panics
    BY <1>1 DEF kfree, KfreeError, panics
  <2> QED
    BY <2>1, PanicKeeps
<1>2. CASE KfreeError(a) = ""
  <2>1. heap_ready /\ MagicOf(a) = Magic /\ ~IsFree(a)
    BY <1>2 DEF KfreeError
  <2>2. a \in DOMAIN live
    BY <2>1, FreeableHonest
  <2>3. /\ pc = "idle" /\ pc' = "insert" /\ target' = a /\ previous' = NULL
        /\ current' = heap_free_list /\ mem' = [mem EXCEPT ![a + 2] = 1]
        /\ live' = [b \in DOMAIN live \ {a} |-> live[b]]
        /\ UNCHANGED <<heap_ready, heap_used, heap_frame_count, heap_free_list, pmm_free,
                       size, panic, wanted, blocks, heap_frames, clobbered>>
    BY <1>2 DEF kfree
  <2>4. a \in All /\ a \in blocks /\ All = blocks /\ a \notin Listed /\ All' = All
        /\ Extra = {} /\ Extra' = {a}
    BY <2>2, <2>3 DEF IInv, Claims, Listed, Extra, All
  <2>5. a \in Nat /\ Even(a) /\ a + 2 \in Words /\ a + 2 \in Arena /\ a # 0 /\ a \in Words
    BY <2>4, BlockFacts
  <2>6. /\ mem' \in [Words -> Nat] /\ mem'[a + 2] = 1
        /\ \A w \in Words : w # a + 2 => mem'[w] = mem[w]
    BY <2>3, <2>5 DEF IInv, Typed
  <2>7. ASSUME NEW b \in All
        PROVE  mem'[b] = mem[b] /\ mem'[b + 1] = mem[b + 1] /\ mem'[b + 3] = mem[b + 3]
               /\ (b # a => mem'[b + 2] = mem[b + 2])
    <3>1. b # a => b # a + 2 /\ b + 1 # a + 2 /\ b + 3 # a + 2
      BY <2>4, HeadersApart DEF IInv
    <3>2. b \in Nat /\ b \in Words /\ b + 1 \in Words /\ b + 2 \in Words /\ b + 3 \in Words
      BY BlockFacts
    <3> QED
      BY <2>5, <2>6, <3>1, <3>2
  <2>8. Listed' = Listed
    BY <2>4, <2>6, <2>7 DEF Listed
  <2>9. Arena' = Arena /\ Edges' = Edges
    BY <2>3 DEF Arena, Edges
  <2>10. Layout(mem, All, Arena)' /\ Chain(mem, Listed, heap_free_list)'
         /\ Separated(mem, Listed, Edges)'
    <3>1. SameHeaders(mem, mem', All) /\ Listed \subseteq All
      BY <2>7, BlockFacts DEF SameHeaders
    <3>2. Layout(mem', All, Arena) /\ Chain(mem', Listed, heap_free_list)
          /\ Separated(mem', Listed, Edges)
      BY <2>7, <3>1, SameBlocks DEF IInv
    <3> QED
      BY <2>3, <2>4, <2>8, <2>9, <3>2
  <2>11. Typed'
    <3>1. DOMAIN live' \subseteq DOMAIN live /\ \A b \in DOMAIN live' : live'[b] = live[b]
      BY <2>3
    <3>2. heap_free_list \in Words \cup {NULL}
      BY DEF IInv, Typed
    <3> QED
      BY <2>3, <2>5, <2>6, <3>1, <3>2 DEF IInv, Typed, pcs
  <2>12. Claims'
    <3>1. DOMAIN live' = DOMAIN live \ {a}
      BY <2>3
    <3>2. DOMAIN live' = {b \in All : mem'[b + 2] = 0}
      BY <2>4, <2>6, <2>7, <3>1 DEF IInv, Claims
    <3> QED
      BY <2>4, <2>7, <2>8, <3>2 DEF IInv, Claims
  <2>13. Position' /\ InHand' /\ Requested' /\ Ready'
    BY <2>1, <2>3, <2>4, <2>5, <2>6 DEF Position, InHand, Requested, Ready, Link, NULL
  <2>14. Fresh'
    BY <2>5, <2>6, <2>9 DEF IInv, Fresh
  <2>15. Honest'
    <3> SUFFICES ASSUME NEW x \in Words, Even(x), x + 3 \in Words,
                        mem'[x + 3] = Magic, mem'[x + 2] = 0, x + 2 \notin clobbered
                 PROVE  x \in DOMAIN live'
      BY <2>3 DEF Honest
    <3>1. x \in Nat /\ x + 2 \in Words
      BY EvenBelow, WordsType
    <3>2. x # a
      BY <2>6
    <3>3. x + 3 # a + 2
      BY <2>5, <3>1, EvenNext
    <3>4. mem'[x + 3] = mem[x + 3] /\ mem'[x + 2] = mem[x + 2]
      BY <2>5, <2>6, <3>1, <3>2, <3>3
    <3>5. x \in DOMAIN live
      BY <3>4 DEF IInv, Honest
    <3> QED
      BY <2>3, <3>2, <3>5
  <2>16. Sufficient'
    <3>1. \A b \in DOMAIN live' : b \in DOMAIN live /\ live'[b] = live[b] /\ mem'[b] = mem[b]
      BY <2>3, <2>7 DEF IInv, Claims
    <3> QED
      BY <2>3, <3>1 DEF IInv, Sufficient
  <2> QED
    BY <2>10, <2>11, <2>12, <2>13, <2>14, <2>15, <2>16 DEF IInv
<1> QED
  BY <1>1, <1>2

LEMMA WriteKeeps ==
  ASSUME IInv, WritePayload
  PROVE  IInv'
<1>1. /\ pc = "idle"
      /\ UNCHANGED <<heap_ready, heap_used, heap_frame_count, heap_free_list, pmm_free, pc,
                     size, previous, current, target, panic, wanted, blocks, live, heap_frames>>
  BY DEF WritePayload, locals
<1>0. PICK a \in DOMAIN live : \E w \in Payload(a) :
        mem' = [mem EXCEPT ![w] = 0] /\ clobbered' = clobbered \cup {w}
  BY DEF WritePayload
<1>2. PICK w \in Payload(a) :
        mem' = [mem EXCEPT ![w] = 0] /\ clobbered' = clobbered \cup {w}
  BY <1>0
<1>3. /\ a \in All /\ a \in Nat /\ Ends(mem, a) \in Nat /\ Ends(mem, a) = a + 4 + mem[a]
      /\ w \in a + 4 .. Ends(mem, a) - 1 /\ mem[a] \in Nat
  <2>1. a \in All /\ a \in Nat /\ Ends(mem, a) \in Nat /\ Ends(mem, a) = a + 4 + mem[a]
        /\ mem[a] \in Nat
    BY BlockFacts DEF IInv, Claims
  <2> QED
    BY <2>1 DEF Payload, EndOf, Size, HeaderWords
<1>4. w \in Arena /\ w \in Words
  <2>1. \A x \in a .. Ends(mem, a) - 1 : x \in Arena
    BY <1>3 DEF IInv, Layout
  <2> QED
    BY <1>3, <2>1, BlockFacts
<1>5. /\ mem' \in [Words -> Nat] /\ mem'[w] = 0
      /\ \A x \in Words : x # w => mem'[x] = mem[x]
  BY <1>2, <1>4 DEF IInv, Typed
<1>6. ASSUME NEW b \in All
      PROVE  /\ mem'[b] = mem[b] /\ mem'[b + 1] = mem[b + 1]
             /\ mem'[b + 2] = mem[b + 2] /\ mem'[b + 3] = mem[b + 3]
  <2>1. /\ b \in Nat /\ b \in Words /\ b + 1 \in Words /\ b + 2 \in Words /\ b + 3 \in Words
        /\ mem[b] \in Nat /\ Ends(mem, b) = b + 4 + mem[b]
    BY BlockFacts
  <2>2. b = a \/ Ends(mem, a) <= b \/ Ends(mem, b) <= a
    BY <1>3, BlockFacts
  <2>3. b # w /\ b + 1 # w /\ b + 2 # w /\ b + 3 # w
    BY <1>3, <2>1, <2>2
  <2> QED
    BY <1>5, <2>1, <2>3
<1>7. UNCHANGED <<All, Extra, Listed, Arena, Edges>>
  <2>1. UNCHANGED <<All, Extra, Arena, Edges>>
    BY <1>1 DEF All, Extra, Arena, Edges
  <2> QED
    BY <1>6, <2>1 DEF Listed
<1>8. Layout(mem, All, Arena)' /\ Chain(mem, Listed, heap_free_list)'
      /\ Separated(mem, Listed, Edges)'
  <2>1. SameHeaders(mem, mem', All) /\ Listed \subseteq All
    BY <1>6, BlockFacts DEF SameHeaders
  <2>2. Layout(mem', All, Arena) /\ Chain(mem', Listed, heap_free_list)
        /\ Separated(mem', Listed, Edges)
    BY <1>6, <2>1, SameBlocks DEF IInv
  <2> QED
    BY <1>1, <1>7, <2>2
<1>9. Typed'
  BY <1>1, <1>2, <1>4, <1>5 DEF IInv, Typed
<1>10. Claims' /\ Position' /\ InHand' /\ Requested' /\ Ready'
  BY <1>1, <1>6, <1>7 DEF IInv, Claims, Position, InHand, Requested, Ready
<1>11. Fresh'
  BY <1>4, <1>5, <1>7 DEF IInv, Fresh
<1>12. Honest'
  <2> SUFFICES ASSUME NEW x \in Words, Even(x), x + 3 \in Words,
                      mem'[x + 3] = Magic, mem'[x + 2] = 0, x + 2 \notin clobbered'
               PROVE  x \in DOMAIN live
    BY <1>1 DEF Honest
  <2>1. x \in Nat /\ x + 2 \in Words
    BY EvenBelow, WordsType
  <2>2. x + 2 # w /\ x + 3 # w
    BY <1>2, <1>5, HeapAssumption
  <2> QED
    BY <1>2, <1>5, <2>1, <2>2 DEF IInv, Honest
<1>13. Sufficient'
  BY <1>1, <1>6 DEF IInv, Sufficient, Claims
<1> QED
  BY <1>8, <1>9, <1>10, <1>11, <1>12, <1>13 DEF IInv

-----------------------------------------------------------------------------
(* kmalloc takes a frame and links it                                      *)

LEMMA TakeFrameKeeps ==
  ASSUME IInv, TakeFrame
  PROVE  IInv'
<1>1. CASE pmm_free = {}
  <2>1. Panic("KBM_OUT_OF_MEMORY") /\ "KBM_OUT_OF_MEMORY" \in panics
    BY <1>1 DEF TakeFrame, panics
  <2> QED
    BY <2>1, PanicKeeps
<1>2. CASE pmm_free # {}
  <2> DEFINE f == Min(pmm_free)
             a == FrameStart(f)
  <2>1. /\ pc = "grow" /\ pc' = "place" /\ target' = a /\ previous' = NULL
        /\ current' = heap_free_list /\ pmm_free' = pmm_free \ {f}
        /\ mem' = [mem EXCEPT ![a] = FrameWords - HeaderWords, ![a + 2] = 1,
                              ![a + 3] = Magic]
        /\ heap_frames' = heap_frames \cup {f}
        /\ UNCHANGED <<heap_ready, heap_used, heap_frame_count, heap_free_list, size,
                       panic, wanted, blocks, live, clobbered>>
    BY <1>2 DEF TakeFrame
  <2>2. f \in pmm_free /\ f \in Frames /\ f \notin heap_frames
    <3>1. pmm_free \subseteq Frames /\ heap_frames \subseteq Frames \ pmm_free
      BY DEF IInv, Typed
    <3>2. pmm_free \subseteq Nat
      BY <3>1, HeapAssumption
    <3> QED
      BY <1>2, <3>1, <3>2, MinIsLeast
  <2> HIDE DEF f
  <2>3. /\ a \in Nat /\ a # 0 /\ Even(a) /\ FrameWords \in Nat /\ FrameWords >= 6
        /\ FrameSpan(f) = a .. a + FrameWords - 1 /\ FrameSpan(f) \subseteq Words
        /\ Even(FrameWords)
    BY <2>2, FrameType, HeapAssumption DEF HeaderWords, AlignWords, Even
  <2> HIDE DEF a
  <2>4. /\ a \in FrameSpan(f) /\ a + 1 \in FrameSpan(f) /\ a + 2 \in FrameSpan(f)
        /\ a + 3 \in FrameSpan(f)
    BY <2>3
  <2>5. Arena' = Arena \cup FrameSpan(f) /\ Edges' = Edges \cup {a}
    BY <2>1 DEF Arena, Edges, a
  <2>6. \A w \in FrameSpan(f) : w \notin Arena
    <3>1. \A g \in heap_frames : g \in Frames /\ g # f
      BY <2>2 DEF IInv, Typed
    <3> QED
      BY <2>2, <3>1, FramesDisjoint DEF Arena
  <2>7. /\ mem' \in [Words -> Nat]
        /\ mem'[a] = FrameWords - 4 /\ mem'[a + 2] = 1 /\ mem'[a + 3] = Magic
        /\ \A w \in Words : w # a /\ w # a + 2 /\ w # a + 3 => mem'[w] = mem[w]
    <3>1. /\ a \in Words /\ a + 2 \in Words /\ a + 3 \in Words /\ mem \in [Words -> Nat]
          /\ FrameWords - 4 \in Nat /\ Magic \in Nat
      BY <2>3, <2>4, HeapAssumption DEF IInv, Typed
    <3>2. a # a + 2 /\ a # a + 3 /\ a + 2 # a + 3
      BY <2>3
    <3> QED
      BY <2>1, <3>1, <3>2 DEF HeaderWords
  <2>8. Extra = {} /\ Extra' = {a} /\ All' = All \cup {a} /\ a \notin All
    <3>1. Extra = {} /\ Extra' = {a} /\ All = blocks
      BY <2>1 DEF Extra, All
    <3> QED
      BY <2>1, <2>4, <2>6, <3>1, BlockFacts DEF All
  <2>9. ASSUME NEW b \in All
        PROVE  /\ mem'[b] = mem[b] /\ mem'[b + 1] = mem[b + 1]
               /\ mem'[b + 2] = mem[b + 2] /\ mem'[b + 3] = mem[b + 3]
    <3>1. b \in Arena /\ b + 1 \in Arena /\ b + 2 \in Arena /\ b + 3 \in Arena
          /\ Arena \subseteq Words
      BY BlockFacts
    <3>2. \A w \in Arena : w # a /\ w # a + 2 /\ w # a + 3
      BY <2>4, <2>6
    <3> QED
      BY <2>7, <3>1, <3>2
  <2>10. Listed' = Listed
    BY <2>7, <2>8, <2>9 DEF Listed
  <2>11. SameHeaders(mem, mem', All) /\ Listed \subseteq All
    BY <2>9, BlockFacts DEF SameHeaders
  <2>12. Ends(mem', a) = a + FrameWords
    BY <2>3, <2>7 DEF Ends, HeaderWords
  <2>13. Layout(mem, All, Arena)'
    <3>1. mem'[a] \in Nat /\ Even(mem'[a])
      <4>1. FrameWords \in Int /\ Even(FrameWords - 4)
        BY <2>3, EvenFour
      <4> QED
        BY <2>3, <2>7, <4>1
    <3>2. FrameSpan(f) = a .. Ends(mem', a) - 1
      BY <2>3, <2>12
    <3>3. Layout(mem', All \cup {a}, Arena')
      <4>1. /\ Layout(mem, All, Arena) /\ SameHeaders(mem, mem', All)
            /\ a \in Nat \ {0} /\ Even(a) /\ mem'[a] \in Nat /\ Even(mem'[a])
            /\ mem'[a + 3] = Magic
        BY <2>3, <2>7, <2>11, <3>1 DEF IInv
      <4>2. \A w \in a .. Ends(mem', a) - 1 : w \notin Arena
        BY <2>6, <3>2
      <4>3. Arena' = Arena \cup (a .. Ends(mem', a) - 1)
        BY <2>5, <3>2
      <4> QED
        BY <4>1, <4>2, <4>3, LayoutGrow
    <3> QED
      BY <2>8, <3>3
  <2>14. Chain(mem, Listed, heap_free_list)' /\ Separated(mem, Listed, Edges)'
    <3>1. Chain(mem', Listed, heap_free_list) /\ Separated(mem', Listed, Edges)
      BY <2>9, <2>11, SameBlocks DEF IInv
    <3>2. Separated(mem', Listed, Edges')
      BY <2>5, <3>1 DEF Separated
    <3> QED
      BY <2>1, <2>10, <3>1, <3>2
  <2>15. Typed'
    <3>1. heap_free_list \in Words \cup {NULL} /\ a \in Words
      BY <2>3, <2>4 DEF IInv, Typed
    <3>2. pmm_free' \in SUBSET Frames /\ heap_frames' \in SUBSET (Frames \ pmm_free')
      BY <2>1, <2>2 DEF IInv, Typed
    <3> QED
      BY <2>1, <2>7, <3>1, <3>2 DEF IInv, Typed, pcs
  <2>16. Claims'
    <3>1. DOMAIN live' = {b \in All' : mem'[b + 2] = 0}
      <4>1. DOMAIN live = {b \in All : mem[b + 2] = 0} /\ live' = live
        BY <2>1 DEF IInv, Claims
      <4>2. \A b \in All : mem'[b + 2] = mem[b + 2]
        BY <2>9
      <4>3. mem'[a + 2] # 0
        BY <2>7
      <4> QED
        BY <2>8, <4>1, <4>2, <4>3
    <3>2. mem'[a + 1] = NULL
      <4>1. a + 1 \in Words /\ a + 1 # a /\ a + 1 # a + 2 /\ a + 1 # a + 3
        BY <2>3, <2>4
      <4> QED
        BY <2>4, <2>6, <2>7, <4>1 DEF IInv, Fresh, NULL
    <3> QED
      BY <2>8, <2>9, <2>10, <3>1, <3>2 DEF IInv, Claims
  <2>17. Ready' /\ Requested' /\ Sufficient'
    <3>1. \A b \in DOMAIN live : mem'[b] = mem[b]
      BY <2>9 DEF IInv, Claims
    <3> QED
      BY <2>1, <3>1 DEF IInv, Ready, Requested, Sufficient
  <2>18. Position' /\ InHand'
    BY <2>1, <2>3, <2>5, <2>7, <2>12 DEF Position, InHand, Link, NULL
  <2>19. Fresh'
    BY <2>4, <2>5, <2>7 DEF IInv, Fresh
  <2>20. Honest'
    <3> SUFFICES ASSUME NEW x \in Words, Even(x), x + 3 \in Words,
                        mem'[x + 3] = Magic, mem'[x + 2] = 0, x + 2 \notin clobbered
                 PROVE  x \in DOMAIN live
      BY <2>1 DEF Honest
    <3>1. x \in Nat /\ x + 2 \in Words /\ Magic # 0
      BY EvenBelow, WordsType, HeapAssumption
    <3>2. x # a
      BY <2>7
    <3>3. x + 3 # a /\ x + 3 # a + 2 /\ x + 2 # a + 3
      <4>1. x + 1 # a /\ a + 1 # x /\ x \in Int /\ a \in Int
        BY <2>3, <3>1, EvenNext
      <4>2. Even(x + 2)
        BY <3>1 DEF Even, AlignWords
      <4>3. (x + 2) + 1 # a
        BY <2>3, <3>1, <4>2, EvenNext
      <4> QED
        BY <2>3, <3>1, <4>1, <4>3
    <3>4. x + 2 # a
      <4>1. mem'[a + 1] = 0
        BY <2>8, <2>16, <2>10, BlockFacts DEF Claims, NULL
      <4> QED
        BY <2>3, <3>1, <4>1
    <3>5. mem'[x + 3] = mem[x + 3] /\ mem'[x + 2] = mem[x + 2]
      BY <2>3, <2>7, <3>1, <3>2, <3>3, <3>4
    <3> QED
      BY <3>5 DEF IInv, Honest
  <2> QED
    BY <2>13, <2>14, <2>15, <2>16, <2>17, <2>18, <2>19, <2>20 DEF IInv
<1> QED
  BY <1>1, <1>2

LEMMA PlaceKeeps ==
  ASSUME IInv, PlaceFrame
  PROVE  IInv'
<1>1. /\ pc = "place"
      /\ UNCHANGED <<heap_ready, heap_used, pmm_free, size, target, panic, wanted, live,
                     heap_frames, clobbered>>
  BY DEF PlaceFrame, state
<1>2. /\ previous \in Listed \cup {NULL} /\ current \in Listed \cup {NULL}
      /\ current = Link(mem, heap_free_list, previous)
      /\ target \in All /\ target \notin Listed /\ All = blocks \cup {target}
      /\ Extra = {target} /\ mem[target + 2] # 0 /\ previous < target
      /\ target \in Edges /\ Ends(mem, target) = target + FrameWords
  BY <1>1, LinkType DEF IInv, Position, InHand, All, Extra, Listed
<1>3. Arena' = Arena /\ Edges' = Edges
  BY <1>1 DEF Arena, Edges
<1>4. CASE current # NULL /\ current < target
  <2>1. previous' = current /\ current' = mem[current + 1]
        /\ UNCHANGED <<mem, heap_free_list, heap_frame_count, pc, blocks>>
    BY <1>4 DEF PlaceFrame, NextOf, state
  <2>2. UNCHANGED <<All, Extra>>
    BY <1>1, <2>1 DEF All, Extra
  <2>3. Listed' = Listed
    BY <1>1, <2>1, <2>2, HeapUnchanged
  <2>4. current' = Link(mem, heap_free_list, current) /\ current \in Listed
    BY <1>2, <1>4, <2>1 DEF Link
  <2>5. current' \in Listed \cup {NULL} /\ Listed \subseteq Words
    BY <2>4, LinkType, BlockFacts
  <2>6. Typed'
    BY <1>1, <2>1, <2>4, <2>5 DEF IInv, Typed
  <2>7. Ready' /\ Position' /\ Requested' /\ Sufficient'
    BY <1>1, <2>1, <2>3, <2>4 DEF IInv, Ready, Position, Requested, Sufficient, Link
  <2>8. InHand'
    BY <1>1, <1>2, <1>3, <1>4, <2>1 DEF InHand, Ends
  <2> QED
    BY <1>1, <2>1, <2>2, <2>6, <2>7, <2>8, HeapUnchanged DEF IInv
<1>5. CASE ~(current # NULL /\ current < target)
  <2>1. /\ mem' = Linked([mem EXCEPT ![target + 1] = current], previous, target)
        /\ heap_free_list' = HeadAfter(previous, target)
        /\ current' = target /\ heap_frame_count' = heap_frame_count + 1
        /\ blocks' = blocks \cup {target} /\ pc' = "take" /\ previous' = previous
    BY <1>5 DEF PlaceFrame
  <2>2. Extra' = {} /\ All' = All
    BY <1>2, <2>1 DEF All, Extra
  <2>3. /\ mem \in [Words -> Nat] /\ current \in Nat /\ target \in Nat /\ target \in Words
        /\ Arena \subseteq Words /\ Listed \subseteq All
    BY <1>2, BlockFacts DEF IInv, Typed, NULL
  <2>4. heap_free_list' = (IF previous = NULL THEN target ELSE heap_free_list)
    BY <2>1 DEF HeadAfter
  <2>5. /\ mem' \in [Words -> Nat]
        /\ mem'[target + 1] = current
        /\ previous # NULL => mem'[previous + 1] = target
        /\ \A w \in Words : w # target + 1 /\ (previous = NULL \/ w # previous + 1)
                          => mem'[w] = mem[w]
        /\ Layout(mem', All, Arena)
        /\ \A b \in All : Ends(mem', b) = Ends(mem, b)
        /\ Chain(mem', Listed \cup {target}, heap_free_list')
    <3>1. LinkStep(Words, mem, All, Arena, Listed, heap_free_list, target, previous,
                   mem', heap_free_list')
      BY <1>2, <1>5, <2>1, <2>3, <2>4 DEF IInv, LinkStep
    <3>2. /\ mem' \in [Words -> Nat]
          /\ mem'[target + 1] = Link(mem, heap_free_list, previous)
          /\ previous # NULL => mem'[previous + 1] = target
          /\ \A w \in Words : w # target + 1 /\ (previous = NULL \/ w # previous + 1)
                            => mem'[w] = mem[w]
          /\ Layout(mem', All, Arena)
          /\ \A b \in All : Ends(mem', b) = Ends(mem, b)
          /\ Chain(mem', Listed \cup {target}, heap_free_list')
      BY <3>1, LinkBlock, Zenon
    <3> QED
      BY <1>2, <3>2
  <2>6. ASSUME NEW b \in All
        PROVE  /\ mem'[b] = mem[b] /\ mem'[b + 2] = mem[b + 2] /\ mem'[b + 3] = mem[b + 3]
               /\ (b # target /\ b # previous => mem'[b + 1] = mem[b + 1])
    <3>1. /\ b \in Nat /\ b \in Words /\ b + 1 \in Words /\ b + 2 \in Words /\ b + 3 \in Words
      BY BlockFacts
    <3>2. b # target + 1 /\ b + 2 # target + 1 /\ b + 3 # target + 1
          /\ (b # target => b + 1 # target + 1)
      BY <1>2, <2>3, <3>1, HeadersApart DEF IInv
    <3>3. previous = NULL
          \/ (b # previous + 1 /\ b + 2 # previous + 1 /\ b + 3 # previous + 1
              /\ (b # previous => b + 1 # previous + 1))
      <4>1. CASE previous \in Listed
        <5>1. previous \in All /\ previous \in Nat
          BY <2>3, <4>1, BlockFacts
        <5> QED
          BY <3>1, <5>1, HeadersApart DEF IInv
      <4> QED
        BY <1>2, <4>1
    <3> QED
      BY <2>5, <3>1, <3>2, <3>3
  <2>7. Listed' = Listed \cup {target}
    <3>1. Listed' = {b \in All : mem'[b + 2] # 0}
      BY <2>2 DEF Listed
    <3>2. Listed = {b \in All : mem[b + 2] # 0} \ {target}
      BY <1>2 DEF Listed
    <3> QED
      BY <1>2, <2>6, <3>1, <3>2
  <2>8. Layout(mem, All, Arena)' /\ Chain(mem, Listed, heap_free_list)'
    BY <1>3, <2>2, <2>5, <2>7
  <2>9. Typed'
    <3>1. /\ heap_frame_count + 1 \in Nat /\ blocks' \in SUBSET Words
          /\ heap_free_list' \in Words \cup {NULL}
      BY <2>1, <2>3, <2>4 DEF IInv, Typed
    <3> QED
      BY <1>1, <2>1, <2>3, <2>5, <3>1 DEF IInv, Typed, pcs
  <2>10. Claims'
    <3>1. DOMAIN live' = {b \in All' : mem'[b + 2] = 0}
      <4>1. DOMAIN live = {b \in All : mem[b + 2] = 0} /\ live' = live
        BY <1>1 DEF IInv, Claims
      <4>2. \A b \in All : mem'[b + 2] = mem[b + 2]
        BY <2>6
      <4> QED
        BY <2>2, <4>1, <4>2
    <3>2. ASSUME NEW b \in All' \ Listed' PROVE mem'[b + 1] = NULL
      <4>1. b \in All \ Listed /\ b # target
        BY <2>2, <2>7
      <4>2. b # previous
        BY <1>2, <4>1, BlockFacts
      <4> QED
        BY <2>6, <4>1, <4>2 DEF IInv, Claims
    <3> QED
      BY <3>1, <3>2 DEF Claims
  <2>11. Ready' /\ Requested'
    BY <1>1, <2>1 DEF IInv, Ready, Requested
  <2>12. Sufficient'
    <3>1. \A b \in DOMAIN live : mem'[b] = mem[b]
      BY <2>6 DEF IInv, Claims
    <3> QED
      BY <1>1, <2>1, <3>1 DEF IInv, Sufficient
  <2>13. Position'
    BY <1>2, <2>1, <2>4, <2>5, <2>7 DEF Position, Link
  <2>14. InHand'
    <3>1. mem'[target] >= size
      <4>1. mem'[target] = FrameWords - 4 /\ FrameWords \in Nat
        BY <1>2, <2>3, <2>6, BlockFacts, HeapAssumption
      <4>2. size \in Nat /\ size <= FrameWords - 4
        BY <1>1 DEF IInv, Typed, Requested, HeaderWords
      <4> QED
        BY <4>1, <4>2
    <3> QED
      BY <1>1, <2>1, <2>7, <3>1 DEF InHand
  <2>15. Separated(mem, Listed, Edges)'
    <3>1. ASSUME NEW b \in Listed \cup {target}, NEW d \in Listed \cup {target},
                 Ends(mem, b) = d
          PROVE  d \in Edges
      <4>1. CASE d = target
        BY <1>2, <4>1
      <4>2. CASE b \in Listed /\ d \in Listed
        BY <3>1, <4>2 DEF IInv, Separated
      <4>3. CASE b = target /\ d \in Listed
        <5>1. PICK f \in heap_frames : target = FrameStart(f)
          BY <1>2 DEF Edges
        <5>2. d \in Arena /\ FrameStart(f) + FrameWords = d
          BY <1>2, <2>3, <3>1, <4>3, <5>1, BlockFacts
        <5>3. PICK g \in heap_frames : d \in FrameSpan(g)
          BY <5>2 DEF Arena
        <5>4. f \in Frames /\ g \in Frames
          BY DEF IInv, Typed
        <5> QED
          BY <5>2, <5>3, <5>4, FrameEnd DEF Edges
      <4> QED
        BY <4>1, <4>2, <4>3
    <3>2. \A b \in Listed \cup {target} : Ends(mem', b) = Ends(mem, b)
      BY <1>2, <2>3, <2>5
    <3> QED
      BY <1>3, <2>7, <3>1, <3>2 DEF Separated
  <2>16. Fresh'
    <3>1. target + 1 \in Arena /\ (previous # NULL => previous + 1 \in Arena)
      BY <1>2, <2>3, BlockFacts
    <3> QED
      BY <1>3, <2>5, <3>1 DEF IInv, Fresh
  <2>17. Honest'
    <3> SUFFICES ASSUME NEW x \in Words, Even(x), x + 3 \in Words,
                        mem'[x + 3] = Magic, mem'[x + 2] = 0, x + 2 \notin clobbered
                 PROVE  x \in DOMAIN live
      BY <1>1 DEF Honest
    <3>1. /\ x \in Nat /\ x + 2 \in Words /\ Even(x + 2) /\ x + 2 \in Int
          /\ Magic # 0 /\ Magic \notin Words
      BY EvenBelow, WordsType, HeapAssumption DEF Even, AlignWords
    <3>2. /\ target \in Int /\ Even(target)
          /\ previous # NULL => previous \in Int /\ Even(previous)
      BY <1>2, <2>3, BlockFacts
    <3>3. x + 2 # target + 1 /\ (previous = NULL \/ x + 2 # previous + 1)
      BY <3>1, <3>2, EvenNext
    <3>4. x + 3 # target + 1 /\ (previous = NULL \/ x + 3 # previous + 1)
      <4>1. current \in Words \cup {NULL}
        BY DEF IInv, Typed
      <4> QED
        BY <2>3, <2>5, <3>1, <4>1 DEF NULL
    <3>5. mem'[x + 3] = mem[x + 3] /\ mem'[x + 2] = mem[x + 2]
      BY <2>5, <3>1, <3>3, <3>4
    <3> QED
      BY <3>5 DEF IInv, Honest
  <2> QED
    BY <2>8, <2>9, <2>10, <2>11, <2>12, <2>13, <2>14, <2>15, <2>16, <2>17 DEF IInv
<1> QED
  BY <1>4, <1>5

-----------------------------------------------------------------------------
(* kmalloc takes a block                                                   *)

\* What holds where a block is taken.
LEMMA TakeFacts ==
  ASSUME IInv, pc = "take"
  PROVE  /\ Extra = {} /\ All = blocks /\ Listed = {b \in All : mem[b + 2] # 0}
         /\ mem \in [Words -> Nat] /\ size \in Nat /\ Even(size)
         /\ previous \in Listed \cup {NULL} /\ previous # current
         /\ current \in Listed /\ current \in All /\ current = Link(mem, heap_free_list, previous)
         /\ mem[current] >= size
         /\ mem[current + 1] \in Listed \cup {NULL}
         /\ \A c \in Listed : c > current => Ends(mem, current) <= c
<1>1. Extra = {} /\ All = blocks /\ Listed = {b \in All : mem[b + 2] # 0}
  BY DEF Extra, All, Listed
<1>2. /\ mem \in [Words -> Nat] /\ size \in Nat /\ Even(size)
      /\ previous \in Listed \cup {NULL}
      /\ current \in Listed /\ current = Link(mem, heap_free_list, previous)
      /\ mem[current] >= size
  BY DEF IInv, Typed, Requested, Position, InHand
<1>3. current \in All /\ current \in Nat /\ current # NULL
  BY <1>2, BlockFacts DEF NULL
<1>4. previous # current
  <2>1. After(current, previous, Listed)
    BY <1>2, LinkIsAfter DEF IInv
  <2> QED
    BY <1>3, <2>1 DEF After
<1>5. mem[current + 1] \in Listed \cup {NULL}
  <2>1. mem[current + 1] = Link(mem, heap_free_list, current)
    BY <1>3 DEF Link
  <2> QED
    BY <1>2, <2>1, LinkType
<1>6. \A c \in Listed : c > current => Ends(mem, current) <= c
  <2>1. ASSUME NEW c \in Listed, c > current PROVE Ends(mem, current) <= c
    <3>1. c \in All /\ c \in Nat /\ mem[c] \in Nat /\ Ends(mem, c) = c + 4 + mem[c]
      BY BlockFacts
    <3>2. Ends(mem, current) <= c \/ Ends(mem, c) <= current
      BY <1>3, <2>1, <3>1, BlockFacts
    <3> QED
      BY <1>3, <2>1, <3>1, <3>2
  <2> QED
    BY <2>1
<1> QED
  BY <1>1, <1>2, <1>3, <1>4, <1>5, <1>6

LEMMA TakeWhole ==
  ASSUME IInv, TakeBlock, ~(Size(current) - size >= HeaderWords + AlignWords)
  PROVE  IInv'
<1>1. /\ pc = "take" /\ pc' = "idle" /\ size' = 0 /\ wanted' = 0
      /\ previous' = NULL /\ current' = NULL /\ target' = NULL
      /\ UNCHANGED <<heap_ready, heap_frame_count, pmm_free, panic, heap_frames, blocks, clobbered>>
      /\ mem' = [Linked(mem, previous, mem[current + 1])
                   EXCEPT ![current + 1] = NULL, ![current + 2] = 0]
      /\ heap_free_list' = HeadAfter(previous, mem[current + 1])
      /\ heap_used' = heap_used + mem'[current]
      /\ live' = [a \in DOMAIN live \cup {current} |-> IF a = current THEN wanted ELSE live[a]]
  BY DEF TakeBlock, Return, NextOf
<1>2. /\ Extra = {} /\ All = blocks /\ Listed = {b \in All : mem[b + 2] # 0}
      /\ mem \in [Words -> Nat] /\ size \in Nat /\ Even(size)
      /\ previous \in Listed \cup {NULL} /\ previous # current
      /\ current \in Listed /\ current \in All /\ current = Link(mem, heap_free_list, previous)
      /\ mem[current] >= size
      /\ mem[current + 1] \in Listed \cup {NULL}
  BY <1>1, TakeFacts
<1>3. Extra' = {} /\ All' = All /\ Arena' = Arena /\ Edges' = Edges
  BY <1>1, <1>2 DEF Extra, All, Arena, Edges
<1>4. /\ Arena \subseteq Words /\ Listed \subseteq All /\ Words \subseteq Nat
      /\ current \in Nat /\ current + 1 \in Words /\ current + 2 \in Words
      /\ current + 1 \in Arena /\ current + 2 \in Arena
      /\ previous # NULL => /\ previous \in All /\ previous \in Nat
                            /\ previous + 1 \in Words /\ previous + 1 \in Arena
      /\ mem[current + 1] \in Words \cup {NULL} /\ mem[current + 1] \in Nat
  BY <1>2, BlockFacts DEF NULL
<1>5. /\ mem' \in [Words -> Nat]
      /\ mem'[current + 1] = NULL /\ mem'[current + 2] = 0
      /\ previous # NULL => mem'[previous + 1] = mem[current + 1]
      /\ \A w \in Words : w # current + 1 /\ w # current + 2
                          /\ (previous = NULL \/ w # previous + 1) => mem'[w] = mem[w]
  <2> DEFINE m == Linked(mem, previous, mem[current + 1])
  <2>1. /\ m \in [Words -> Nat]
        /\ previous # NULL => m[previous + 1] = mem[current + 1]
        /\ \A w \in Words : previous = NULL \/ w # previous + 1 => m[w] = mem[w]
    <3>1. /\ mem \in [Words -> Nat] /\ mem[current + 1] \in Nat
          /\ previous # NULL => previous + 1 \in Words
      BY <1>2, <1>4
    <3>2. CASE previous = NULL
      BY <3>1, <3>2 DEF Linked
    <3>3. CASE previous # NULL
      <4>1. m = [mem EXCEPT ![previous + 1] = mem[current + 1]]
        BY <3>3 DEF Linked
      <4> QED
        BY <3>1, <3>3, <4>1
    <3> QED
      BY <3>2, <3>3
  <2>2. mem' = [m EXCEPT ![current + 1] = NULL, ![current + 2] = 0]
    BY <1>1
  <2>3. previous # NULL => previous + 1 # current + 1 /\ previous + 1 # current + 2
    BY <1>2, <1>4, HeadersApart DEF IInv
  <2> HIDE DEF m
  <2>4. /\ mem' \in [Words -> Nat] /\ mem'[current + 1] = NULL /\ mem'[current + 2] = 0
        /\ \A w \in Words : w # current + 1 /\ w # current + 2 => mem'[w] = m[w]
    BY <1>4, <2>1, <2>2 DEF NULL
  <2> QED
    BY <1>4, <2>1, <2>3, <2>4
<1>6. ASSUME NEW b \in All
      PROVE  /\ mem'[b] = mem[b] /\ mem'[b + 3] = mem[b + 3]
             /\ (b # current => mem'[b + 2] = mem[b + 2])
             /\ (b # current /\ b # previous => mem'[b + 1] = mem[b + 1])
  <2>1. /\ b \in Nat /\ b \in Words /\ b + 1 \in Words /\ b + 2 \in Words /\ b + 3 \in Words
    BY BlockFacts
  <2>2. b # current => /\ b # current + 1 /\ b # current + 2
                       /\ b + 1 # current + 1 /\ b + 1 # current + 2
                       /\ b + 2 # current + 1 /\ b + 2 # current + 2
                       /\ b + 3 # current + 1 /\ b + 3 # current + 2
    BY <1>2, HeadersApart DEF IInv
  <2>3. previous # NULL /\ b # previous => /\ b # previous + 1 /\ b + 1 # previous + 1
                                           /\ b + 2 # previous + 1 /\ b + 3 # previous + 1
    BY <1>4, HeadersApart DEF IInv
  <2>4. previous # NULL /\ b = previous => /\ b # previous + 1
                                           /\ b + 2 # previous + 1 /\ b + 3 # previous + 1
    BY <2>1
  <2>5. b = current => /\ b # current + 1 /\ b # current + 2
                       /\ b + 3 # current + 1 /\ b + 3 # current + 2
    BY <2>1
  <2> QED
    BY <1>5, <2>1, <2>2, <2>3, <2>4, <2>5
<1>7. Listed' = Listed \ {current}
  <2>1. Listed' = {b \in All : mem'[b + 2] # 0}
    BY <1>3 DEF Listed
  <2> QED
    BY <1>2, <1>5, <1>6, <2>1
<1>8. Layout(mem, All, Arena)' /\ Chain(mem, Listed, heap_free_list)'
      /\ Separated(mem, Listed, Edges)'
  <2>1. Layout(mem', All, Arena)
    BY <1>6, LayoutSame DEF IInv, SameHeaders
  <2>2. \A b \in All : Ends(mem', b) = Ends(mem, b)
    BY <1>6 DEF Ends
  <2>3. Separated(mem', Listed \ {current}, Edges)
    BY <1>4, <2>2 DEF IInv, Separated
  <2>4. Removed(mem, heap_free_list, mem', heap_free_list', Listed, current, previous)
    <3>1. Listed \subseteq Nat \ {0}
      BY BlockFacts
    <3>2. \A b \in Listed \ {current} : b # previous => mem'[b + 1] = mem[b + 1]
      BY <1>4, <1>6
    <3>3. Link(mem', heap_free_list', previous) = mem[current + 1]
          /\ (previous # NULL => heap_free_list' = heap_free_list)
      BY <1>1, <1>5 DEF Link, HeadAfter
    <3> QED
      BY <1>2, <3>1, <3>2, <3>3 DEF Removed
  <2>5. Chain(mem', Listed \ {current}, heap_free_list')
    BY <2>4, ChainRemove DEF IInv
  <2> QED
    BY <1>3, <1>7, <2>1, <2>3, <2>5
<1>9. DOMAIN live' = DOMAIN live \cup {current} /\ live'[current] = wanted
      /\ \A b \in DOMAIN live : b # current => live'[b] = live[b]
  BY <1>1
<1>10. Typed'
  <2>1. heap_free_list' \in Words \cup {NULL}
    BY <1>1, <1>4 DEF IInv, Typed, HeadAfter
  <2>2. heap_used' \in Int
    BY <1>1, <1>2, <1>4, <1>6 DEF IInv, Typed
  <2>3. DOMAIN live' \subseteq blocks /\ \A a \in DOMAIN live' : live'[a] \in Nat
    BY <1>2, <1>9 DEF IInv, Typed
  <2> QED
    BY <1>1, <1>5, <2>1, <2>2, <2>3 DEF IInv, Typed, pcs
<1>11. Claims'
  <2>1. DOMAIN live' = {b \in All : mem'[b + 2] = 0}
    <3>1. DOMAIN live = {b \in All : mem[b + 2] = 0}
      BY DEF IInv, Claims
    <3> QED
      BY <1>2, <1>5, <1>6, <1>9, <3>1
  <2>2. ASSUME NEW b \in All \ (Listed \ {current}) PROVE mem'[b + 1] = NULL
    <3>1. CASE b = current
      BY <1>5, <3>1
    <3>2. CASE b # current
      <4>1. b \in All \ Listed /\ b # previous
        BY <1>2, <3>2, BlockFacts
      <4> QED
        BY <1>6, <3>2, <4>1 DEF IInv, Claims
    <3> QED
      BY <3>1, <3>2
  <2> QED
    BY <1>3, <1>7, <2>1, <2>2 DEF Claims
<1>12. Ready' /\ Position' /\ InHand' /\ Requested'
  BY <1>1 DEF IInv, Ready, Position, InHand, Requested
<1>13. Sufficient'
  <2>1. \A b \in DOMAIN live : mem'[b] = mem[b]
    BY <1>6 DEF IInv, Claims
  <2>2. NoWrap => size > 0 /\ wanted <= size * 8 /\ wanted \in Nat
    BY <1>1 DEF IInv, Sufficient, Typed
  <2>3. NoWrap => mem'[current] > 0 /\ wanted <= mem'[current] * 8
    <3>1. mem'[current] \in Nat /\ mem'[current] >= size
      BY <1>2, <1>6, BlockFacts
    <3> QED
      BY <1>2, <2>2, <3>1
  <2> QED
    BY <1>1, <1>9, <2>1, <2>3 DEF IInv, Sufficient
<1>14. Fresh'
  BY <1>3, <1>4, <1>5 DEF IInv, Fresh
<1>15. Honest'
  <2> SUFFICES ASSUME NEW x \in Words, Even(x), x + 3 \in Words,
                      mem'[x + 3] = Magic, mem'[x + 2] = 0, x + 2 \notin clobbered
               PROVE  x \in DOMAIN live'
    BY <1>1 DEF Honest
  <2>1. /\ x \in Nat /\ x + 2 \in Words /\ Even(x + 2) /\ x + 2 \in Int
        /\ Magic # 0 /\ Magic \notin Words
    BY EvenBelow, WordsType, HeapAssumption DEF Even, AlignWords
  <2>2. /\ current \in Int /\ Even(current)
        /\ previous # NULL => previous \in Int /\ Even(previous)
    BY <1>2, <1>4, BlockFacts
  <2>3. /\ x + 2 # current + 1 /\ x + 3 # current + 2
        /\ previous = NULL \/ x + 2 # previous + 1
    <3>1. current + 1 # x + 2 /\ (previous # NULL => previous + 1 # x + 2)
      BY <2>1, <2>2, EvenNext
    <3>2. x + 1 # current
      BY <2>1, <2>2, EvenNext
    <3> QED
      BY <2>1, <2>2, <3>1, <3>2
  <2>4. x + 3 # current + 1 /\ (previous = NULL \/ x + 3 # previous + 1)
    BY <1>4, <1>5, <2>1 DEF NULL
  <2>5. CASE x = current
    BY <1>9, <2>5
  <2>6. CASE x # current
    <3>1. x + 2 # current + 2
      BY <2>1, <2>2, <2>6
    <3>2. mem'[x + 3] = mem[x + 3] /\ mem'[x + 2] = mem[x + 2]
      BY <1>5, <2>1, <2>3, <2>4, <3>1
    <3> QED
      BY <1>9, <3>2 DEF IInv, Honest
  <2> QED
    BY <2>5, <2>6
<1> QED
  BY <1>8, <1>10, <1>11, <1>12, <1>13, <1>14, <1>15 DEF IInv

LEMMA TakeSplit ==
  ASSUME IInv, TakeBlock, Size(current) - size >= HeaderWords + AlignWords
  PROVE  IInv'
<1> DEFINE rest == current + HeaderWords + size
<1>1. /\ pc = "take" /\ pc' = "idle" /\ size' = 0 /\ wanted' = 0
      /\ previous' = NULL /\ current' = NULL /\ target' = NULL
      /\ UNCHANGED <<heap_ready, heap_frame_count, pmm_free, panic, heap_frames>>
      /\ heap_free_list' = HeadAfter(previous, rest)
      /\ blocks' = blocks \cup {rest} /\ clobbered' = clobbered \ Header(rest)
      /\ heap_used' = heap_used + mem'[current]
      /\ live' = [a \in DOMAIN live \cup {current} |-> IF a = current THEN wanted ELSE live[a]]
  BY DEF TakeBlock, Return
<1>2. mem' = [Linked([mem EXCEPT ![rest]     = mem[current] - size - HeaderWords,
                                 ![rest + 1] = mem[current + 1],
                                 ![rest + 2] = 1,
                                 ![rest + 3] = Magic,
                                 ![current]  = size],
                     previous, rest)
                EXCEPT ![current + 1] = NULL, ![current + 2] = 0]
  BY DEF TakeBlock, Size, NextOf
<1>3. /\ Extra = {} /\ All = blocks /\ Listed = {b \in All : mem[b + 2] # 0}
      /\ mem \in [Words -> Nat] /\ size \in Nat /\ Even(size)
      /\ previous \in Listed \cup {NULL} /\ previous # current
      /\ current \in Listed /\ current \in All /\ current = Link(mem, heap_free_list, previous)
      /\ mem[current + 1] \in Listed \cup {NULL}
      /\ \A c \in Listed : c > current => Ends(mem, current) <= c
  BY <1>1, TakeFacts
<1>4. /\ Arena \subseteq Words /\ Listed \subseteq All /\ Words \subseteq Nat
      /\ current \in Nat /\ Even(current) /\ mem[current] \in Nat
      /\ Ends(mem, current) = current + 4 + mem[current] /\ Ends(mem, current) \in Nat
      /\ current \in Words /\ current + 1 \in Words /\ current + 2 \in Words
      /\ current \in Arena /\ current + 1 \in Arena /\ current + 2 \in Arena
      /\ previous # NULL => /\ previous \in All /\ previous \in Nat /\ Even(previous)
                            /\ previous + 1 \in Words /\ previous + 1 \in Arena
      /\ mem[current + 1] \in Words \cup {NULL} /\ mem[current + 1] \in Nat
  BY <1>3, BlockFacts DEF NULL
<1>5. /\ rest = current + 4 + size /\ rest \in Nat /\ current + 4 <= rest
      /\ rest + 6 <= Ends(mem, current) /\ Even(rest)
      /\ mem[current] - size - 4 \in Nat
  <2>1. /\ rest = current + 4 + size /\ mem[current] - size >= 6
    BY <1>3, <1>4 DEF HeaderWords, AlignWords, Size
  <2>2. Even((current + 4) + size)
    <3>1. Even(current + 4) /\ current + 4 \in Int /\ size \in Int
      BY <1>3, <1>4, EvenFour
    <3> QED
      BY <1>3, <3>1, EvenPlus, Zenon
  <2> HIDE DEF rest
  <2> QED
    BY <1>3, <1>4, <2>1, <2>2
<1> HIDE DEF rest
<1>6. /\ rest \in Arena /\ rest + 1 \in Arena /\ rest + 2 \in Arena /\ rest + 3 \in Arena
      /\ rest \in Words /\ rest + 1 \in Words /\ rest + 2 \in Words /\ rest + 3 \in Words
  <2>1. \A w \in current .. Ends(mem, current) - 1 : w \in Arena
    BY <1>3 DEF IInv, Layout
  <2> QED
    BY <1>4, <1>5, <2>1
\* Other headers lie apart from the block that is cut.
<1>7. ASSUME NEW b \in All, b # current
      PROVE  \A i, j \in 0 .. 3 : b + i # rest + j /\ b + i # current + j
  <2>1. b \in Nat /\ mem[b] \in Nat /\ Ends(mem, b) = b + 4 + mem[b]
        /\ (Ends(mem, b) <= current \/ Ends(mem, current) <= b)
    BY <1>3, <1>7, BlockFacts
  <2> QED
    BY <1>4, <1>5, <2>1
<1>8. /\ mem' \in [Words -> Nat]
      /\ mem'[rest] = mem[current] - size - 4 /\ mem'[rest + 1] = mem[current + 1]
      /\ mem'[rest + 2] = 1 /\ mem'[rest + 3] = Magic
      /\ mem'[current] = size /\ mem'[current + 1] = NULL /\ mem'[current + 2] = 0
      /\ previous # NULL => mem'[previous + 1] = rest
      /\ \A w \in Words : /\ w \notin {rest, rest + 1, rest + 2, rest + 3}
                          /\ w \notin {current, current + 1, current + 2}
                          /\ previous = NULL \/ w # previous + 1
                          => mem'[w] = mem[w]
  <2> DEFINE s == [mem EXCEPT ![rest]     = mem[current] - size - HeaderWords,
                              ![rest + 1] = mem[current + 1],
                              ![rest + 2] = 1,
                              ![rest + 3] = Magic,
                              ![current]  = size]
             l == Linked(s, previous, rest)
  <2>1. mem' = [l EXCEPT ![current + 1] = NULL, ![current + 2] = 0]
    BY <1>2
  <2>2. /\ s \in [Words -> Nat]
        /\ s[rest] = mem[current] - size - 4 /\ s[rest + 1] = mem[current + 1]
        /\ s[rest + 2] = 1 /\ s[rest + 3] = Magic /\ s[current] = size
        /\ \A w \in Words : w \notin {rest, rest + 1, rest + 2, rest + 3, current} => s[w] = mem[w]
    <3>1. /\ rest # rest + 1 /\ rest # rest + 2 /\ rest # rest + 3 /\ rest # current
          /\ rest + 1 # rest + 2 /\ rest + 1 # rest + 3 /\ rest + 1 # current
          /\ rest + 2 # rest + 3 /\ rest + 2 # current /\ rest + 3 # current
      BY <1>4, <1>5
    <3>2. mem[current] - size - HeaderWords = mem[current] - size - 4 /\ Magic \in Nat
      BY HeapAssumption DEF HeaderWords
    <3> QED
      BY <1>3, <1>4, <1>5, <1>6, <3>1, <3>2
  <2>3. previous # NULL =>
          /\ previous + 1 \notin {rest, rest + 1, rest + 2, rest + 3}
          /\ previous + 1 \notin {current, current + 1, current + 2}
    <3>1. CASE previous # NULL
      <4>1. previous \in All /\ previous # current
        BY <1>3, <1>4, <3>1
      <4>2. \A i, j \in 0 .. 3 : previous + i # rest + j /\ previous + i # current + j
        BY <1>7, <4>1
      <4>3. /\ previous + 1 # rest + 0 /\ previous + 1 # rest + 1 /\ previous + 1 # rest + 2
            /\ previous + 1 # rest + 3 /\ previous + 1 # current + 0
            /\ previous + 1 # current + 1 /\ previous + 1 # current + 2
        BY <4>2
      <4> QED
        BY <1>4, <1>5, <4>3
    <3> QED
      BY <3>1
  <2> HIDE DEF s
  <2>4. /\ l \in [Words -> Nat] /\ (previous # NULL => l[previous + 1] = rest)
        /\ \A w \in Words : (previous = NULL \/ w # previous + 1) => l[w] = s[w]
    <3>1. CASE previous = NULL
      BY <2>2, <3>1 DEF Linked
    <3>2. CASE previous # NULL
      <4>1. l = [s EXCEPT ![previous + 1] = rest] /\ previous + 1 \in Words
        BY <1>4, <3>2 DEF Linked
      <4> QED
        BY <1>5, <2>2, <3>2, <4>1
    <3> QED
      BY <3>1, <3>2
  <2> HIDE DEF l
  <2>5. /\ mem' \in [Words -> Nat] /\ mem'[current + 1] = NULL /\ mem'[current + 2] = 0
        /\ \A w \in Words : w # current + 1 /\ w # current + 2 => mem'[w] = l[w]
    BY <1>4, <2>1, <2>4 DEF NULL
  <2>6. ASSUME NEW w \in {rest, rest + 1, rest + 2, rest + 3, current} PROVE mem'[w] = s[w]
    <3>1. w \in Words /\ w # current + 1 /\ w # current + 2
      BY <1>4, <1>5, <1>6
    <3>2. previous = NULL \/ w # previous + 1
      BY <2>3
    <3> QED
      BY <2>4, <2>5, <3>1, <3>2
  <2>7. previous # NULL => mem'[previous + 1] = rest
    BY <1>4, <2>3, <2>4, <2>5
  <2>8. ASSUME NEW w \in Words, w \notin {rest, rest + 1, rest + 2, rest + 3},
               w \notin {current, current + 1, current + 2}, previous = NULL \/ w # previous + 1
        PROVE  mem'[w] = mem[w]
    <3>1. mem'[w] = l[w] /\ l[w] = s[w]
      BY <2>4, <2>5, <2>8
    <3> QED
      BY <2>2, <2>8, <3>1
  <2> QED
    BY <2>2, <2>5, <2>6, <2>7, <2>8
<1>9. ASSUME NEW b \in All, b # current
      PROVE  /\ mem'[b] = mem[b] /\ mem'[b + 2] = mem[b + 2] /\ mem'[b + 3] = mem[b + 3]
             /\ (b # previous => mem'[b + 1] = mem[b + 1])
             /\ b # rest
  <2>1. /\ b \in Nat /\ b \in Words /\ b + 1 \in Words /\ b + 2 \in Words /\ b + 3 \in Words
    BY BlockFacts
  <2>2. ASSUME NEW i \in 0 .. 3
        PROVE  /\ b + i \notin {rest, rest + 1, rest + 2, rest + 3}
               /\ b + i \notin {current, current + 1, current + 2}
    <3>1. \A j \in 0 .. 3 : b + i # rest + j /\ b + i # current + j
      BY <1>7, <1>9
    <3>2. /\ b + i # rest + 0 /\ b + i # rest + 1 /\ b + i # rest + 2 /\ b + i # rest + 3
          /\ b + i # current + 0 /\ b + i # current + 1 /\ b + i # current + 2
      BY <3>1
    <3> QED
      BY <1>4, <1>5, <3>2
  <2>3. /\ b + 0 \notin {rest, rest + 1, rest + 2, rest + 3}
        /\ b + 0 \notin {current, current + 1, current + 2}
        /\ b + 1 \notin {rest, rest + 1, rest + 2, rest + 3}
        /\ b + 1 \notin {current, current + 1, current + 2}
        /\ b + 2 \notin {rest, rest + 1, rest + 2, rest + 3}
        /\ b + 2 \notin {current, current + 1, current + 2}
        /\ b + 3 \notin {rest, rest + 1, rest + 2, rest + 3}
        /\ b + 3 \notin {current, current + 1, current + 2}
    BY <2>2
  <2>4. b + 0 = b
    BY <2>1
  <2>5. previous # NULL /\ b # previous => /\ b # previous + 1 /\ b + 1 # previous + 1
                                           /\ b + 2 # previous + 1 /\ b + 3 # previous + 1
    BY <1>4, HeadersApart DEF IInv
  <2>6. previous # NULL /\ b = previous => /\ b # previous + 1
                                           /\ b + 2 # previous + 1 /\ b + 3 # previous + 1
    BY <2>1
  <2> QED
    BY <1>8, <2>1, <2>3, <2>4, <2>5, <2>6
<1>10. /\ Extra' = {} /\ All' = All \cup {rest} /\ Arena' = Arena /\ Edges' = Edges
       /\ rest # current /\ rest \notin All
  BY <1>1, <1>3, <1>4, <1>5, <1>9 DEF Extra, All, Arena, Edges
<1>11. mem'[current + 3] = Magic
  <2>1. /\ current + 3 \in Words
        /\ current + 3 \notin {rest, rest + 1, rest + 2, rest + 3}
        /\ current + 3 \notin {current, current + 1, current + 2}
    BY <1>3, <1>4, <1>5, BlockFacts
  <2>2. previous = NULL \/ current + 3 # previous + 1
    BY <1>3, <1>4, HeadersApart DEF IInv
  <2> QED
    BY <1>3, <1>8, <2>1, <2>2, BlockFacts
<1>12. Listed' = (Listed \ {current}) \cup {rest}
  <2>1. Listed' = {b \in All \cup {rest} : mem'[b + 2] # 0}
    BY <1>10 DEF Listed
  <2> QED
    BY <1>3, <1>8, <1>9, <1>10, <2>1
<1>13. /\ Ends(mem', current) = rest /\ Ends(mem', rest) = Ends(mem, current)
       /\ \A b \in All \ {current} : Ends(mem', b) = Ends(mem, b)
  <2>1. Ends(mem', current) = rest /\ Ends(mem', rest) = Ends(mem, current)
    BY <1>4, <1>5, <1>8 DEF Ends, HeaderWords
  <2> QED
    BY <1>9, <2>1 DEF Ends
<1>14. Layout(mem, All, Arena)'
  <2>1. SameHeaders(mem, mem', All \ {current})
    BY <1>9 DEF SameHeaders
  <2>2. /\ Layout(mem, All, Arena) /\ current \in All /\ rest \in Nat /\ Even(rest)
        /\ current + HeaderWords <= rest /\ rest + HeaderWords <= Ends(mem, current)
        /\ mem'[current] \in Nat /\ mem'[current + 3] = Magic
        /\ mem'[rest] \in Nat /\ mem'[rest + 3] = Magic
    BY <1>3, <1>4, <1>5, <1>8, <1>11 DEF IInv, HeaderWords
  <2>3. Layout(mem', All \cup {rest}, Arena)
    BY <1>13, <2>1, <2>2, LayoutSplit
  <2> QED
    BY <1>10, <2>3
<1>15. Chain(mem, Listed, heap_free_list)'
  <2>1. Replaced(mem, heap_free_list, mem', heap_free_list', Listed, current, rest, previous)
    <3>1. Listed \subseteq Nat \ {0}
      BY BlockFacts
    <3>2. \A b \in Listed \ {current} : b # previous => mem'[b + 1] = mem[b + 1]
      BY <1>4, <1>9
    <3>3. Link(mem', heap_free_list', previous) = rest
          /\ (previous # NULL => heap_free_list' = heap_free_list)
      BY <1>1, <1>8 DEF Link, HeadAfter
    <3>4. current < rest /\ \A c \in Listed : c > current => rest < c
      BY <1>3, <1>4, <1>5, <3>1
    <3> QED
      BY <1>3, <1>5, <1>8, <3>1, <3>2, <3>3, <3>4 DEF Replaced
  <2> QED
    BY <1>12, <2>1, ChainReplace DEF IInv
<1>16. Separated(mem, Listed, Edges)'
  <2>1. /\ Layout(mem, All, Arena) /\ Separated(mem, Listed, Edges)
        /\ current + HeaderWords <= rest /\ rest + HeaderWords <= Ends(mem, current)
        /\ \A b \in Listed \ {current} : Ends(mem', b) = Ends(mem, b)
    BY <1>4, <1>5, <1>13 DEF IInv, HeaderWords
  <2>2. Separated(mem', (Listed \ {current}) \cup {rest}, Edges)
    BY <1>3, <1>4, <1>5, <1>13, <2>1, SeparatedSplit
  <2> QED
    BY <1>10, <1>12, <2>2
<1>17. DOMAIN live' = DOMAIN live \cup {current} /\ live'[current] = wanted
       /\ \A b \in DOMAIN live : b # current => live'[b] = live[b]
  BY <1>1
<1>18. Typed'
  <2>1. heap_free_list' \in Words \cup {NULL}
    BY <1>1, <1>6 DEF IInv, Typed, HeadAfter
  <2>2. heap_used' \in Int
    BY <1>1, <1>3, <1>8 DEF IInv, Typed
  <2>3. DOMAIN live' \subseteq blocks' /\ \A a \in DOMAIN live' : live'[a] \in Nat
    BY <1>1, <1>3, <1>17 DEF IInv, Typed
  <2>4. blocks' \in SUBSET Words /\ clobbered' \in SUBSET Words
    BY <1>1, <1>6 DEF IInv, Typed
  <2> QED
    BY <1>1, <1>8, <2>1, <2>2, <2>3, <2>4 DEF IInv, Typed, pcs
<1>19. Claims'
  <2>1. DOMAIN live' = {b \in All \cup {rest} : mem'[b + 2] = 0}
    <3>1. DOMAIN live = {b \in All : mem[b + 2] = 0}
      BY DEF IInv, Claims
    <3> QED
      BY <1>3, <1>8, <1>9, <1>17, <3>1
  <2>2. ASSUME NEW b \in (All \cup {rest}) \ ((Listed \ {current}) \cup {rest})
        PROVE  mem'[b + 1] = NULL
    <3>1. CASE b = current
      BY <1>8, <3>1
    <3>2. CASE b # current
      <4>1. b \in All \ Listed /\ b # previous
        BY <1>3, <3>2, BlockFacts
      <4> QED
        BY <1>9, <3>2, <4>1 DEF IInv, Claims
    <3> QED
      BY <3>1, <3>2
  <2> QED
    BY <1>10, <1>12, <2>1, <2>2 DEF Claims
<1>20. Ready' /\ Position' /\ InHand' /\ Requested'
  <2>1. heap_ready
    BY <1>1 DEF IInv, Ready
  <2> QED
    BY <1>1, <2>1 DEF Ready, Position, InHand, Requested
<1>21. Sufficient'
  <2>1. \A b \in DOMAIN live : b # current => mem'[b] = mem[b]
    BY <1>9 DEF IInv, Claims
  <2>2. NoWrap => size > 0 /\ wanted <= size * 8
    BY <1>1 DEF IInv, Sufficient
  <2> QED
    BY <1>1, <1>8, <1>17, <2>1, <2>2 DEF IInv, Sufficient
<1>22. Fresh'
  BY <1>4, <1>6, <1>8, <1>10 DEF IInv, Fresh
<1>23. Honest'
  <2> SUFFICES ASSUME NEW x \in Words, Even(x), x + 3 \in Words,
                      mem'[x + 3] = Magic, mem'[x + 2] = 0, x + 2 \notin clobbered'
               PROVE  x \in DOMAIN live'
    BY DEF Honest
  <2>1. /\ x \in Nat /\ x + 2 \in Words /\ Even(x + 2) /\ x + 2 \in Int
        /\ Magic # 0 /\ Magic \notin Words
    BY EvenBelow, WordsType, HeapAssumption DEF Even, AlignWords
  <2>2. x + 3 # current + 1 /\ x + 3 # rest + 1 /\ (previous = NULL \/ x + 3 # previous + 1)
    BY <1>4, <1>6, <1>8, <2>1 DEF NULL
  <2>3. x # rest
    BY <1>8
  <2>4. /\ x + 2 # current + 1 /\ x + 2 # rest + 1 /\ x + 2 # rest + 3
        /\ x + 3 # current /\ x + 3 # current + 2 /\ x + 3 # rest /\ x + 3 # rest + 2
        /\ previous = NULL \/ x + 2 # previous + 1
    <3>1. /\ current + 1 # x + 2 /\ rest + 1 # x + 2
          /\ (previous # NULL => previous + 1 # x + 2)
      BY <1>4, <1>5, <2>1, EvenNext
    <3>2. /\ (x + 2) + 1 # current /\ (x + 2) + 1 # rest
      BY <1>4, <1>5, <2>1, EvenNext
    <3>3. x + 1 # current /\ x + 1 # rest /\ rest + 1 # x
      BY <1>4, <1>5, <2>1, EvenNext
    <3> QED
      BY <1>4, <1>5, <2>1, <3>1, <3>2, <3>3
  <2>5. x + 2 # current /\ x + 2 # rest /\ x + 2 # rest + 2 /\ x + 3 # rest + 3
    BY <1>4, <1>5, <2>1, <2>2, <2>3
  <2>6. CASE x = current
    BY <1>17, <2>6
  <2>7. CASE x # current
    <3>1. x + 2 # current + 2
      BY <1>4, <2>1, <2>7
    <3>2. mem'[x + 3] = mem[x + 3] /\ mem'[x + 2] = mem[x + 2]
      BY <1>8, <2>1, <2>2, <2>4, <2>5, <3>1
    <3>3. x + 2 \notin clobbered
      <4>1. x + 2 \notin Header(rest)
        BY <1>5, <2>1, <2>4, <2>5 DEF Header, HeaderWords
      <4> QED
        BY <1>1, <4>1
    <3> QED
      BY <1>17, <3>2, <3>3 DEF IInv, Honest
  <2> QED
    BY <2>6, <2>7
<1> QED
  BY <1>14, <1>15, <1>16, <1>18, <1>19, <1>20, <1>21, <1>22, <1>23 DEF IInv

-----------------------------------------------------------------------------
(* kfree links a block and merges it with its neighbours                   *)

LEMMA InsertSearchKeeps ==
  ASSUME IInv, InsertBlock, current # NULL, current < target
  PROVE  IInv'
<1>1. /\ pc = "insert" /\ previous' = current /\ current' = mem[current + 1]
      /\ UNCHANGED <<mem, heap_ready, heap_used, heap_frame_count, heap_free_list, pc, size,
                     target, wanted, blocks, pmm_free, panic, live, heap_frames, clobbered>>
  BY DEF InsertBlock, NextOf, state
<1>2. previous \in Listed \cup {NULL} /\ current \in Listed
  BY <1>1, LinkType DEF IInv, Position
<1>3. UNCHANGED <<All, Extra>>
  BY <1>1 DEF All, Extra
<1>4. Listed' = Listed
  BY <1>1, <1>3, HeapUnchanged
<1>5. current' = Link(mem, heap_free_list, current)
  BY <1>1 DEF Link
<1>6. current' \in Listed \cup {NULL} /\ Listed \subseteq Words
  BY <1>2, <1>5, LinkType, BlockFacts
<1>7. Typed'
  BY <1>1, <1>2, <1>6 DEF IInv, Typed
<1>8. Ready' /\ Position' /\ Requested' /\ Sufficient'
  BY <1>1, <1>2, <1>4, <1>5 DEF IInv, Ready, Position, Requested, Sufficient, Link
<1>9. InHand'
  BY <1>1 DEF IInv, InHand
<1> QED
  BY <1>1, <1>3, <1>7, <1>8, <1>9, HeapUnchanged DEF IInv

\* The memories of a call to kfree: after the link, and after the first merge.
LinkedMemory == Linked([mem EXCEPT ![target + 1] = current], previous, target)
JoinedMemory == Merged(LinkedMemory, target, current)

\* What holds where a block is about to be linked.
LEMMA InsertFacts ==
  ASSUME IInv, InsertBlock, ~(current # NULL /\ current < target)
  PROVE  /\ Extra = {target} /\ All = blocks /\ target \in All /\ target \notin Listed
         /\ Listed \cup {target} = {b \in All : mem[b + 2] # 0}
         /\ previous \in Listed \cup {NULL} /\ previous < target
         /\ current = Link(mem, heap_free_list, previous)
         /\ current \in Listed \cup {NULL} /\ (current = NULL \/ ~(current < target))
         /\ After(current, previous, Listed)
         /\ target \in Nat /\ target # NULL /\ Even(target)
         /\ current # target /\ previous # target
         /\ (previous # NULL \/ current # NULL => previous # current)
<1>1. pc = "insert"
  BY DEF InsertBlock
<1>2. /\ Extra = {target} /\ All = blocks /\ target \in All /\ target \notin Listed
      /\ Listed \cup {target} = {b \in All : mem[b + 2] # 0}
      /\ previous < target
  BY <1>1 DEF Extra, All, Listed, IInv, InHand
<1>3. /\ previous \in Listed \cup {NULL} /\ current = Link(mem, heap_free_list, previous)
  BY <1>1 DEF IInv, Position
<1>4. current \in Listed \cup {NULL} /\ After(current, previous, Listed)
  BY <1>3, LinkType, LinkIsAfter DEF IInv
<1>5. target \in Nat /\ target # NULL /\ Even(target) /\ NULL \notin Listed
      /\ Listed \subseteq Nat
  BY <1>2, BlockFacts DEF NULL
<1>6. previous # NULL \/ current # NULL => previous # current
  BY <1>3, <1>4, <1>5 DEF After
<1> QED
  BY <1>2, <1>3, <1>4, <1>5, <1>6

LEMMA InsertLinked ==
  ASSUME IInv, InsertBlock, ~(current # NULL /\ current < target)
  PROVE  /\ LinkedMemory \in [Words -> Nat]
         /\ LinkedMemory[target + 1] = current
         /\ previous # NULL => LinkedMemory[previous + 1] = target
         /\ \A w \in Words : w # target + 1 /\ (previous = NULL \/ w # previous + 1)
                             => LinkedMemory[w] = mem[w]
         /\ Layout(LinkedMemory, All, Arena)
         /\ Chain(LinkedMemory, Listed \cup {target}, heap_free_list')
         /\ SeparatedBut(LinkedMemory, Listed \cup {target}, Edges, target, current, previous)
<1>1. /\ target \in All /\ target \notin Listed
      /\ previous \in Listed \cup {NULL} /\ previous < target
      /\ current = Link(mem, heap_free_list, previous)
      /\ current \in Listed \cup {NULL} /\ (current = NULL \/ ~(current < target))
      /\ After(current, previous, Listed) /\ current # target
  BY InsertFacts
<1>2. /\ mem \in [Words -> Nat] /\ Layout(mem, All, Arena) /\ Arena \subseteq Words
      /\ Listed \subseteq All /\ Chain(mem, Listed, heap_free_list) /\ Listed \subseteq Nat
  BY BlockFacts DEF IInv, Typed
<1>3. heap_free_list' = (IF previous = NULL THEN target ELSE heap_free_list)
  BY DEF InsertBlock, HeadAfter
<1>4. LinkStep(Words, mem, All, Arena, Listed, heap_free_list, target, previous,
               LinkedMemory, heap_free_list')
  <2>1. current \in Nat
    BY <1>1, <1>2 DEF NULL
  <2> QED
    BY <1>1, <1>2, <1>3, <2>1 DEF LinkStep, LinkedMemory
<1>5. /\ LinkedMemory \in [Words -> Nat]
      /\ LinkedMemory[target + 1] = Link(mem, heap_free_list, previous)
      /\ previous # NULL => LinkedMemory[previous + 1] = target
      /\ \A w \in Words : w # target + 1 /\ (previous = NULL \/ w # previous + 1)
                          => LinkedMemory[w] = mem[w]
      /\ Layout(LinkedMemory, All, Arena)
      /\ \A b \in All : Ends(LinkedMemory, b) = Ends(mem, b)
      /\ Chain(LinkedMemory, Listed \cup {target}, heap_free_list')
  BY <1>4, LinkBlock, Zenon
<1>6. /\ \A b \in Listed : Ends(mem, b) = target => b = previous
      /\ \A d \in Listed : Ends(mem, target) = d => d = current
  <2>1. Between(mem, All, Arena, Listed, target, previous, current)
    BY <1>1, <1>2 DEF Between
  <2> QED
    BY <2>1, NeighboursTouch
<1>7. Ends(mem, target) # target
  BY <1>1, BlockFacts
<1>8. SeparatedBut(LinkedMemory, Listed \cup {target}, Edges, target, current, previous)
  <2>1. ASSUME NEW b \in Listed \cup {target}, NEW d \in Listed \cup {target},
               Ends(LinkedMemory, b) = d
        PROVE  \/ d \in Edges
               \/ b = target /\ d = current
               \/ b = previous /\ d = target
    <3>1. Ends(mem, b) = d
      BY <1>1, <1>2, <1>5, <2>1
    <3> QED
      BY <1>6, <1>7, <2>1, <3>1 DEF IInv, Separated
  <2> QED
    BY <2>1 DEF SeparatedBut
<1> QED
  BY <1>1, <1>5, <1>8

\* The blocks and the list after the first merge, and after the second.
JoinedBlocks == All \ Swallowed(LinkedMemory, JoinedMemory, current)
JoinedList   == (Listed \cup {target}) \ Swallowed(LinkedMemory, JoinedMemory, current)
FreedBlocks  == JoinedBlocks \ Swallowed(JoinedMemory, mem', target)
FreedList    == JoinedList \ Swallowed(JoinedMemory, mem', target)

LEMMA InsertJoined ==
  ASSUME IInv, InsertBlock, ~(current # NULL /\ current < target)
  PROVE  /\ JoinedMemory \in [Words -> Nat]
         /\ Layout(JoinedMemory, JoinedBlocks, Arena)
         /\ Chain(JoinedMemory, JoinedList, heap_free_list')
         /\ SeparatedBut(JoinedMemory, JoinedList, Edges, target, NULL, previous)
         /\ target \in JoinedList /\ previous \in JoinedList \cup {NULL}
         /\ JoinedList \subseteq JoinedBlocks /\ JoinedBlocks \subseteq All
         /\ \A w \in Words : w # target /\ w # target + 1 => JoinedMemory[w] = LinkedMemory[w]
<1>1. /\ target \in All /\ previous \in Listed \cup {NULL} /\ current \in Listed \cup {NULL}
      /\ current # target /\ previous # target /\ target # NULL
      /\ (previous # NULL \/ current # NULL => previous # current)
      /\ Listed \subseteq All /\ Arena \subseteq Words /\ NULL \notin Listed
      /\ \A b \in All : b \in Nat
  BY InsertFacts, BlockFacts DEF NULL
<1>2. /\ LinkedMemory \in [Words -> Nat]
      /\ LinkedMemory[target + 1] = current
      /\ Layout(LinkedMemory, All, Arena)
      /\ Chain(LinkedMemory, Listed \cup {target}, heap_free_list')
      /\ SeparatedBut(LinkedMemory, Listed \cup {target}, Edges, target, current, previous)
  BY InsertLinked
<1>3. MergeStep(Words, LinkedMemory, All, Arena, Listed \cup {target}, heap_free_list',
                target, current, JoinedMemory, JoinedBlocks, JoinedList)
  BY <1>1, <1>2 DEF MergeStep, JoinedMemory, JoinedBlocks, JoinedList
<1>4. /\ JoinedMemory \in [Words -> Nat]
      /\ Layout(JoinedMemory, JoinedBlocks, Arena)
      /\ Chain(JoinedMemory, JoinedList, heap_free_list')
      /\ JoinedMemory = LinkedMemory =>
           /\ target = NULL \/ current = NULL \/ Ends(LinkedMemory, target) # current
           /\ JoinedBlocks = All /\ JoinedList = Listed \cup {target}
      /\ JoinedMemory # LinkedMemory =>
           /\ target \in Listed \cup {target} /\ current \in Listed \cup {target}
           /\ Ends(LinkedMemory, target) = current
           /\ Ends(JoinedMemory, target) = Ends(LinkedMemory, current)
           /\ JoinedMemory[target + 1] = LinkedMemory[current + 1]
           /\ JoinedBlocks = All \ {current} /\ JoinedList = (Listed \cup {target}) \ {current}
      /\ \A w \in Words : target = NULL \/ (w # target /\ w # target + 1)
                          => JoinedMemory[w] = LinkedMemory[w]
      /\ \A b \in All : b # target => Ends(JoinedMemory, b) = Ends(LinkedMemory, b)
  <2>1. MergeLeaves(Words, LinkedMemory, All, Arena, Listed \cup {target}, heap_free_list',
                    target, current, JoinedMemory, JoinedBlocks, JoinedList)
    BY <1>3, MergeStage, Zenon
  <2> QED
    BY <2>1 DEF MergeLeaves
<1>5. CASE JoinedMemory = LinkedMemory
  <2>1. current = NULL \/ Ends(LinkedMemory, target) # current
    BY <1>1, <1>4, <1>5
  <2>2. SeparatedBut(LinkedMemory, Listed \cup {target}, Edges, target, NULL, previous)
    BY <1>1, <1>2, <2>1 DEF SeparatedBut
  <2> QED
    BY <1>1, <1>4, <1>5, <2>2
<1>6. CASE JoinedMemory # LinkedMemory
  <2>1. /\ current \in Listed /\ previous # current /\ JoinedBlocks = All \ {current}
        /\ JoinedList = (Listed \cup {target}) \ {current}
        /\ Ends(JoinedMemory, target) = Ends(LinkedMemory, current)
        /\ \A b \in Listed : Ends(JoinedMemory, b) = Ends(LinkedMemory, b)
    <3>1. current \in Listed /\ \A b \in Listed : b # target
      BY <1>1, <1>4, <1>6, InsertFacts
    <3> QED
      BY <1>1, <1>4, <1>6, <3>1
  <2>2. ASSUME NEW b \in JoinedList, NEW d \in JoinedList, Ends(JoinedMemory, b) = d
        PROVE  d \in Edges \/ (b = previous /\ d = target)
    <3>1. CASE b = target
      <4>1. Ends(LinkedMemory, current) = d /\ current \in Listed \cup {target}
        BY <2>1, <2>2, <3>1
      <4>2. d \in Edges \/ (current = target /\ d = current) \/ (current = previous /\ d = target)
        BY <1>2, <2>1, <2>2, <4>1 DEF SeparatedBut
      <4> QED
        BY <1>1, <2>1, <4>2
    <3>2. CASE b # target
      <4>1. Ends(LinkedMemory, b) = d
        BY <2>1, <2>2, <3>2
      <4> QED
        BY <1>2, <2>1, <2>2, <3>2, <4>1 DEF SeparatedBut
    <3> QED
      BY <3>1, <3>2
  <2>3. SeparatedBut(JoinedMemory, JoinedList, Edges, target, NULL, previous)
    BY <2>2 DEF SeparatedBut
  <2> QED
    BY <1>1, <1>4, <2>1, <2>3
<1> QED
  BY <1>5, <1>6

LEMMA InsertFreed ==
  ASSUME IInv, InsertBlock, ~(current # NULL /\ current < target)
  PROVE  /\ mem' \in [Words -> Nat]
         /\ Layout(mem', FreedBlocks, Arena)
         /\ Chain(mem', FreedList, heap_free_list')
         /\ Separated(mem', FreedList, Edges)
         /\ previous \in FreedList \cup {NULL}
         /\ FreedList \subseteq FreedBlocks /\ FreedBlocks \subseteq JoinedBlocks
         /\ \A w \in Words : previous = NULL \/ (w # previous /\ w # previous + 1)
                             => mem'[w] = JoinedMemory[w]
<1>1. /\ previous # target /\ target # NULL /\ target \in Nat
      /\ Arena \subseteq Words /\ target \in All
      /\ previous # NULL => previous \in All /\ previous \in Nat /\ previous + 1 \in Words
      /\ \A b \in All : b \in Nat /\ b # NULL
  BY InsertFacts, BlockFacts DEF NULL
<1>2. /\ JoinedMemory \in [Words -> Nat]
      /\ Layout(JoinedMemory, JoinedBlocks, Arena)
      /\ Chain(JoinedMemory, JoinedList, heap_free_list')
      /\ SeparatedBut(JoinedMemory, JoinedList, Edges, target, NULL, previous)
      /\ target \in JoinedList /\ previous \in JoinedList \cup {NULL}
      /\ JoinedList \subseteq JoinedBlocks /\ JoinedBlocks \subseteq All
      /\ \A w \in Words : w # target /\ w # target + 1 => JoinedMemory[w] = LinkedMemory[w]
  BY InsertJoined
<1>3. previous # NULL => JoinedMemory[previous + 1] = target
  <2>1. previous # NULL => LinkedMemory[previous + 1] = target
    BY InsertLinked
  <2>2. previous # NULL => previous + 1 # target /\ previous + 1 # target + 1
    BY <1>1, HeadersApart DEF IInv
  <2> QED
    BY <1>1, <1>2, <2>1, <2>2
<1>4. mem' = Merged(JoinedMemory, previous, target)
  BY DEF InsertBlock, JoinedMemory, LinkedMemory
<1>5. MergeStep(Words, JoinedMemory, JoinedBlocks, Arena, JoinedList, heap_free_list',
                previous, target, mem', FreedBlocks, FreedList)
  BY <1>1, <1>2, <1>3, <1>4 DEF MergeStep, FreedBlocks, FreedList
<1>6. /\ mem' \in [Words -> Nat]
      /\ Layout(mem', FreedBlocks, Arena)
      /\ Chain(mem', FreedList, heap_free_list')
      /\ mem' = JoinedMemory =>
           /\ previous = NULL \/ target = NULL \/ Ends(JoinedMemory, previous) # target
           /\ FreedBlocks = JoinedBlocks /\ FreedList = JoinedList
      /\ mem' # JoinedMemory =>
           /\ previous \in JoinedList /\ target \in JoinedList
           /\ Ends(JoinedMemory, previous) = target
           /\ Ends(mem', previous) = Ends(JoinedMemory, target)
           /\ mem'[previous + 1] = JoinedMemory[target + 1]
           /\ FreedBlocks = JoinedBlocks \ {target} /\ FreedList = JoinedList \ {target}
      /\ \A w \in Words : previous = NULL \/ (w # previous /\ w # previous + 1)
                          => mem'[w] = JoinedMemory[w]
      /\ \A b \in JoinedBlocks : b # previous => Ends(mem', b) = Ends(JoinedMemory, b)
  <2>1. MergeLeaves(Words, JoinedMemory, JoinedBlocks, Arena, JoinedList, heap_free_list',
                    previous, target, mem', FreedBlocks, FreedList)
    BY <1>5, MergeStage
  <2> QED
    BY <2>1 DEF MergeLeaves
<1>7. CASE mem' = JoinedMemory
  <2>1. previous = NULL \/ Ends(JoinedMemory, previous) # target
    BY <1>1, <1>6, <1>7
  <2>2. Separated(JoinedMemory, JoinedList, Edges)
    BY <1>1, <1>2, <2>1 DEF SeparatedBut, Separated
  <2> QED
    BY <1>2, <1>6, <1>7, <2>2
<1>8. CASE mem' # JoinedMemory
  <2>1. /\ FreedBlocks = JoinedBlocks \ {target} /\ FreedList = JoinedList \ {target}
        /\ Ends(mem', previous) = Ends(JoinedMemory, target)
        /\ \A b \in FreedList : b # previous => Ends(mem', b) = Ends(JoinedMemory, b)
    BY <1>2, <1>6, <1>8
  <2>2. ASSUME NEW b \in FreedList, NEW d \in FreedList, Ends(mem', b) = d
        PROVE  d \in Edges
    <3>1. d \in JoinedList /\ d # target /\ d # NULL /\ b \in JoinedList
      BY <1>1, <1>2, <2>1
    <3>2. CASE b = previous
      <4>1. Ends(JoinedMemory, target) = d
        BY <2>1, <2>2, <3>2
      <4> QED
        BY <1>1, <1>2, <3>1, <4>1 DEF SeparatedBut
    <3>3. CASE b # previous
      <4>1. Ends(JoinedMemory, b) = d
        BY <2>1, <2>2, <3>3
      <4> QED
        BY <1>1, <1>2, <3>1, <3>3, <4>1 DEF SeparatedBut
    <3> QED
      BY <3>2, <3>3
  <2>3. Separated(mem', FreedList, Edges)
    BY <2>2 DEF Separated
  <2> QED
    BY <1>1, <1>2, <1>6, <2>1, <2>3
<1> QED
  BY <1>7, <1>8

\* What changes from the blocks and the list before to those after.
LEMMA InsertChange ==
  ASSUME IInv, InsertBlock, ~(current # NULL /\ current < target)
  PROVE  /\ All' = FreedBlocks /\ Listed' = FreedList
         /\ Extra' = {} /\ blocks' = FreedBlocks /\ FreedBlocks \subseteq All
         /\ \A b \in All \ FreedBlocks : mem[b + 2] # 0
         /\ FreedBlocks \ FreedList = All \ (Listed \cup {target})
         /\ \A w \in Words : /\ w # target /\ w # target + 1
                             /\ previous = NULL \/ (w # previous /\ w # previous + 1)
                             => mem'[w] = mem[w]
         /\ \A b \in All : mem'[b + 2] = mem[b + 2]
         /\ \A b \in All : b # target /\ b # previous =>
                             mem'[b] = mem[b] /\ mem'[b + 1] = mem[b + 1]
         /\ mem'[target + 1] \in Listed \cup {target, NULL}
         /\ previous # NULL => mem'[previous + 1] \in Listed \cup {target, NULL}
<1>1. /\ target \in All /\ target \in Nat /\ previous # target /\ All = blocks
      /\ previous \in Listed \cup {NULL} /\ current \in Listed \cup {NULL}
      /\ Listed \cup {target} = {b \in All : mem[b + 2] # 0}
      /\ Listed \subseteq All /\ NULL \notin Listed /\ NULL \notin All
  BY InsertFacts, BlockFacts DEF NULL
<1>2. /\ previous # NULL => previous \in All /\ previous \in Nat
      /\ \A b \in All : /\ b \in Nat /\ b \in Words /\ b + 1 \in Words
                        /\ b + 2 \in Words /\ b + 3 \in Words
  BY <1>1, BlockFacts
<1>3. /\ \A w \in Words : w # target + 1 /\ (previous = NULL \/ w # previous + 1)
                          => LinkedMemory[w] = mem[w]
  BY InsertLinked
<1>4. /\ Chain(JoinedMemory, JoinedList, heap_free_list')
      /\ target \in JoinedList
      /\ JoinedList \subseteq JoinedBlocks /\ JoinedBlocks \subseteq All
      /\ \A w \in Words : w # target /\ w # target + 1 => JoinedMemory[w] = LinkedMemory[w]
  BY InsertJoined
<1>5. /\ Chain(mem', FreedList, heap_free_list')
      /\ previous \in FreedList \cup {NULL}
      /\ FreedList \subseteq FreedBlocks /\ FreedBlocks \subseteq JoinedBlocks
      /\ \A w \in Words : previous = NULL \/ (w # previous /\ w # previous + 1)
                          => mem'[w] = JoinedMemory[w]
  BY InsertFreed
<1>6. \A w \in Words : /\ w # target /\ w # target + 1
                       /\ previous = NULL \/ (w # previous /\ w # previous + 1)
                       => mem'[w] = mem[w]
  BY <1>3, <1>4, <1>5
<1>7. ASSUME NEW b \in All
      PROVE  /\ mem'[b + 2] = mem[b + 2]
             /\ b # target /\ b # previous => mem'[b] = mem[b] /\ mem'[b + 1] = mem[b + 1]
  <2>1. /\ b + 2 # target /\ b + 2 # target + 1
        /\ b # target => b # target + 1 /\ b + 1 # target /\ b + 1 # target + 1
    BY <1>1, <1>2, HeadersApart DEF IInv
  <2>2. previous # NULL => /\ b + 2 # previous /\ b + 2 # previous + 1
                           /\ b # previous => b # previous + 1 /\ b + 1 # previous
                                              /\ b + 1 # previous + 1
    BY <1>1, <1>2, HeadersApart DEF IInv
  <2>3. b \in Words /\ b + 1 \in Words /\ b + 2 \in Words
    BY <1>2
  <2> QED
    BY <1>6, <2>1, <2>2, <2>3
<1>8. /\ blocks' = FreedBlocks /\ Extra' = {} /\ All' = FreedBlocks
      /\ JoinedBlocks = All \ Swallowed(LinkedMemory, JoinedMemory, current)
      /\ JoinedList = (Listed \cup {target}) \ Swallowed(LinkedMemory, JoinedMemory, current)
      /\ FreedBlocks = JoinedBlocks \ Swallowed(JoinedMemory, mem', target)
      /\ FreedList = JoinedList \ Swallowed(JoinedMemory, mem', target)
  <2>1. /\ pc' = "idle"
        /\ blocks' = blocks \ (Swallowed(LinkedMemory, JoinedMemory, current)
                               \cup Swallowed(JoinedMemory, mem', target))
    BY DEF InsertBlock, Return, Swallowed, LinkedMemory, JoinedMemory
  <2> QED
    BY <1>1, <2>1 DEF Extra, All, JoinedBlocks, JoinedList, FreedBlocks, FreedList
<1>9. FreedList = {b \in FreedBlocks : mem[b + 2] # 0}
  BY <1>1, <1>8
<1>10. Listed' = FreedList
  BY <1>4, <1>5, <1>7, <1>8, <1>9 DEF Listed
<1>11. \A b \in All \ FreedBlocks : mem[b + 2] # 0
  <2>1. /\ Swallowed(LinkedMemory, JoinedMemory, current) \subseteq {current}
        /\ Swallowed(JoinedMemory, mem', target) \subseteq {target}
    BY DEF Swallowed
  <2> QED
    BY <1>1, <1>8, <2>1
<1>12. FreedBlocks \ FreedList = All \ (Listed \cup {target})
  BY <1>1, <1>4, <1>5, <1>9, <1>11
<1>13. mem'[target + 1] \in Listed \cup {target, NULL}
  <2>1. JoinedMemory[target + 1] \in JoinedList \cup {NULL}
    BY <1>4, ChainLink
  <2>2. previous # NULL => target + 1 # previous /\ target + 1 # previous + 1
    BY <1>1, <1>2, HeadersApart DEF IInv
  <2> QED
    BY <1>1, <1>2, <1>5, <1>8, <2>1, <2>2
<1>14. previous # NULL => mem'[previous + 1] \in Listed \cup {target, NULL}
  <2>1. previous # NULL => mem'[previous + 1] \in FreedList \cup {NULL}
    BY <1>5, ChainLink
  <2> QED
    BY <1>8, <2>1
<1> QED
  BY <1>4, <1>5, <1>6, <1>7, <1>8, <1>10, <1>11, <1>12, <1>13, <1>14

LEMMA InsertKeeps ==
  ASSUME IInv, InsertBlock
  PROVE  IInv'
<1>1. CASE current # NULL /\ current < target
  BY <1>1, InsertSearchKeeps
<1>2. CASE ~(current # NULL /\ current < target)
  <2>1. /\ pc = "insert" /\ pc' = "idle" /\ size' = 0 /\ wanted' = 0
        /\ previous' = NULL /\ current' = NULL /\ target' = NULL
        /\ heap_used' = heap_used - mem[target]
        /\ heap_free_list' = HeadAfter(previous, target)
        /\ UNCHANGED <<heap_ready, heap_frame_count, pmm_free, panic, live, heap_frames, clobbered>>
    BY <1>2 DEF InsertBlock, Return, Size
  <2>2. /\ All' = FreedBlocks /\ Listed' = FreedList
        /\ Extra' = {} /\ blocks' = FreedBlocks /\ FreedBlocks \subseteq All
        /\ \A b \in All \ FreedBlocks : mem[b + 2] # 0
        /\ FreedBlocks \ FreedList = All \ (Listed \cup {target})
        /\ \A w \in Words : /\ w # target /\ w # target + 1
                            /\ previous = NULL \/ (w # previous /\ w # previous + 1)
                            => mem'[w] = mem[w]
        /\ \A b \in All : mem'[b + 2] = mem[b + 2]
        /\ \A b \in All : b # target /\ b # previous =>
                            mem'[b] = mem[b] /\ mem'[b + 1] = mem[b + 1]
        /\ mem'[target + 1] \in Listed \cup {target, NULL}
        /\ previous # NULL => mem'[previous + 1] \in Listed \cup {target, NULL}
    BY <1>2, InsertChange
  <2>3. /\ mem' \in [Words -> Nat]
        /\ Layout(mem', FreedBlocks, Arena)
        /\ Chain(mem', FreedList, heap_free_list')
        /\ Separated(mem', FreedList, Edges)
    BY <1>2, InsertFreed
  <2>4. /\ Arena' = Arena /\ Edges' = Edges /\ Arena \subseteq Words
        /\ target \in All /\ target \in Nat /\ target \in Words /\ All = blocks
        /\ Even(target) /\ target \in Arena /\ target + 1 \in Arena
        /\ previous \in Listed \cup {NULL} /\ Listed \subseteq All /\ All \subseteq Words
        /\ previous # NULL => /\ previous \in All /\ previous \in Nat /\ Even(previous)
                              /\ previous \in Arena /\ previous + 1 \in Arena
        /\ Listed \cup {target} = {b \in All : mem[b + 2] # 0}
    BY <1>2, <2>1, InsertFacts, BlockFacts DEF Arena, Edges
  <2>5. Layout(mem, All, Arena)' /\ Chain(mem, Listed, heap_free_list)'
        /\ Separated(mem, Listed, Edges)'
    BY <2>2, <2>3, <2>4
  <2>6. Typed'
    <3>1. heap_used' \in Int
      BY <2>1, <2>4, BlockFacts DEF IInv, Typed
    <3>2. heap_free_list' \in Words \cup {NULL}
      BY <2>1, <2>4 DEF IInv, Typed, HeadAfter
    <3>3. DOMAIN live' \subseteq blocks'
      BY <2>1, <2>2 DEF IInv, Claims
    <3>4. blocks' \in SUBSET Words
      BY <2>2, <2>4
    <3> QED
      BY <2>1, <2>3, <3>1, <3>2, <3>3, <3>4 DEF IInv, Typed, pcs
  <2>7. Claims'
    <3>1. DOMAIN live' = {b \in All' : mem'[b + 2] = 0}
      BY <2>1, <2>2 DEF IInv, Claims
    <3>2. ASSUME NEW b \in All' \ Listed' PROVE mem'[b + 1] = NULL
      <4>1. b \in All \ Listed /\ b # target /\ b # previous
        BY <2>2, <2>4, <3>2, BlockFacts
      <4> QED
        BY <2>2, <4>1 DEF IInv, Claims
    <3> QED
      BY <3>1, <3>2 DEF Claims
  <2>8. Ready' /\ Position' /\ InHand' /\ Requested'
    BY <2>1 DEF IInv, Ready, Position, InHand, Requested
  <2>9. Sufficient'
    <3>1. ASSUME NEW b \in DOMAIN live PROVE mem'[b] = mem[b]
      <4>1. b \in All /\ mem[b + 2] = 0
        BY DEF IInv, Claims
      <4>2. b # target /\ b # previous
        BY <2>4, <4>1, BlockFacts
      <4> QED
        BY <2>2, <4>1, <4>2
    <3> QED
      BY <2>1, <3>1 DEF IInv, Sufficient
  <2>10. Fresh'
    BY <2>2, <2>4 DEF IInv, Fresh
  <2>11. Honest'
    <3> SUFFICES ASSUME NEW x \in Words, Even(x), x + 3 \in Words,
                        mem'[x + 3] = Magic, mem'[x + 2] = 0, x + 2 \notin clobbered
                 PROVE  x \in DOMAIN live
      BY <2>1 DEF Honest
    <3>1. /\ x \in Nat /\ x + 2 \in Words /\ Even(x + 2) /\ x + 2 \in Int
          /\ Magic # 0 /\ Magic \notin Words
      BY EvenBelow, WordsType, HeapAssumption DEF Even, AlignWords
    <3>2. x + 3 # target + 1 /\ (previous = NULL \/ x + 3 # previous + 1)
      BY <2>2, <2>4, <3>1 DEF NULL
    <3>3. x + 2 # target + 1 /\ (previous = NULL \/ x + 2 # previous + 1)
      <4>1. target \in Int /\ (previous # NULL => previous \in Int)
        BY <2>4
      <4> QED
        BY <2>4, <3>1, <4>1, EvenNext
    <3>4. x + 3 # target /\ (previous = NULL \/ x + 3 # previous)
      <4>1. (x + 2) + 1 # target /\ (previous # NULL => (x + 2) + 1 # previous)
        <5>1. target \in Int /\ (previous # NULL => previous \in Int)
          BY <2>4
        <5> QED
          BY <2>4, <3>1, <5>1, EvenNext
      <4> QED
        BY <3>1, <4>1
    <3>5. x + 2 # target /\ (previous = NULL \/ x + 2 # previous)
      BY <2>4, <3>1, <3>2
    <3>6. mem'[x + 3] = mem[x + 3] /\ mem'[x + 2] = mem[x + 2]
      BY <2>2, <3>1, <3>2, <3>3, <3>4, <3>5
    <3> QED
      BY <3>6 DEF IInv, Honest
  <2> QED
    BY <2>5, <2>6, <2>7, <2>8, <2>9, <2>10, <2>11 DEF IInv
<1> QED
  BY <1>1, <1>2

-----------------------------------------------------------------------------
(* Every step keeps the invariant                                          *)

LEMMA StutterKeeps ==
  ASSUME IInv, UNCHANGED vars
  PROVE  IInv'
<1>1. UNCHANGED <<mem, heap_ready, heap_used, heap_frame_count, heap_free_list, pmm_free,
                  pc, size, previous, current, target, panic, wanted, blocks, live,
                  heap_frames, clobbered>>
  BY DEF vars, state, locals, history
<1>2. UNCHANGED <<All, Extra>>
  BY <1>1 DEF All, Extra
<1>3. Listed' = Listed /\ Edges' = Edges
  BY <1>1, <1>2, HeapUnchanged DEF Edges
<1>4. Typed'
  BY <1>1 DEF IInv, Typed
<1>5. Ready' /\ Position' /\ InHand' /\ Requested' /\ Sufficient'
  BY <1>1, <1>3 DEF IInv, Ready, Position, InHand, Requested, Sufficient, Link, Ends
<1> QED
  BY <1>1, <1>2, <1>4, <1>5, HeapUnchanged DEF IInv

LEMMA NextKeeps ==
  ASSUME IInv, [Next]_vars
  PROVE  IInv'
<1>1. CASE heap_init
  BY <1>1, InitKeeps
<1>2. ASSUME NEW bytes \in Requests, kmalloc(bytes) PROVE IInv'
  BY <1>2, KmallocKeeps
<1>3. ASSUME NEW a \in Freeable, kfree(a) PROVE IInv'
  BY <1>3, KfreeKeeps
<1>4. CASE SearchBlock
  BY <1>4, SearchKeeps
<1>5. CASE TakeFrame
  BY <1>5, TakeFrameKeeps
<1>6. CASE PlaceFrame
  BY <1>6, PlaceKeeps
<1>7. CASE TakeBlock
  BY <1>7, TakeWhole, TakeSplit
<1>8. CASE InsertBlock
  BY <1>8, InsertKeeps
<1>9. CASE WritePayload
  BY <1>9, WriteKeeps
<1>10. CASE OtherFrames
  BY <1>10, OtherKeeps
<1>11. CASE UNCHANGED vars
  BY <1>11, StutterKeeps
<1> QED
  BY <1>1, <1>2, <1>3, <1>4, <1>5, <1>6, <1>7, <1>8, <1>9, <1>10, <1>11
     DEF Next, CallStep, Halted

\* The invariant holds in every state of every heap.
THEOREM Invariance == Spec => []IInv
<1>1. Init => IInv
  BY InitInv
<1>2. IInv /\ [Next]_vars => IInv'
  BY NextKeeps
<1> QED
  BY <1>1, <1>2, PTL DEF Spec

-----------------------------------------------------------------------------

\* Where no call runs, the blocks and the free blocks are those of the invariant.
LEMMA Idle ==
  ASSUME IInv, pc = "idle"
  PROVE  /\ All = blocks /\ Listed = FreeBlocks
         /\ \A b \in blocks : EndOf(b) = Ends(mem, b)
BY DEF All, Listed, Extra, FreeBlocks, IsFree, EndOf, Ends, Size

LEMMA TilingHolds ==
  ASSUME IInv
  PROVE  Tiling
<1> SUFFICES ASSUME pc = "idle"
             PROVE  /\ UNION {Span(b) : b \in blocks} = Arena
                    /\ \A b, c \in blocks : b # c => Span(b) \cap Span(c) = {}
  BY DEF Tiling, Arena
<1>1. Layout(mem, blocks, Arena)
  BY Idle DEF IInv
<1>2. \A b \in blocks : Span(b) = b .. Ends(mem, b) - 1
  BY Idle DEF Span
<1>3. UNION {Span(b) : b \in blocks} = Arena
  BY <1>1, <1>2 DEF Layout
<1>4. ASSUME NEW b \in blocks, NEW c \in blocks, b # c PROVE Span(b) \cap Span(c) = {}
  <2>1. /\ b \in Nat /\ c \in Nat /\ Ends(mem, b) \in Nat /\ Ends(mem, c) \in Nat
        /\ Ends(mem, b) <= c \/ Ends(mem, c) <= b
    BY <1>1, <1>4, Idle, BlockFacts
  <2> QED
    BY <1>2, <2>1
<1> QED
  BY <1>3, <1>4

LEMMA FreeListHolds ==
  ASSUME IInv
  PROVE  FreeListComplete
<1> SUFFICES ASSUME pc = "idle"
             PROVE  /\ heap_free_list = First(FreeBlocks)
                    /\ \A b \in FreeBlocks : NextOf(b) = First({c \in FreeBlocks : c > b})
                    /\ FreeBlocks = blocks \ DOMAIN live
  BY DEF FreeListComplete
<1>1. Chain(mem, FreeBlocks, heap_free_list) /\ FreeBlocks \subseteq Nat \ {0}
  BY Idle, BlockFacts DEF IInv
<1>2. heap_free_list = First(FreeBlocks)
  <2>1. heap_free_list = First({c \in FreeBlocks : c > 0})
    BY <1>1, AfterIsFirst DEF Chain
  <2>2. \A c \in FreeBlocks : c > 0
    BY <1>1
  <2>3. {c \in FreeBlocks : c > 0} = FreeBlocks
    BY <2>2
  <2> QED
    BY <2>1, <2>3
<1>3. ASSUME NEW b \in FreeBlocks PROVE NextOf(b) = First({c \in FreeBlocks : c > b})
  BY <1>1, AfterIsFirst DEF Chain, NextOf
<1>4. FreeBlocks = blocks \ DOMAIN live
  BY Idle DEF IInv, Claims, FreeBlocks, IsFree
<1> QED
  BY <1>2, <1>3, <1>4

LEMMA CoalescedHolds ==
  ASSUME IInv
  PROVE  Coalesced
<1> SUFFICES ASSUME pc = "idle", NEW b \in FreeBlocks, NEW c \in FreeBlocks, EndOf(b) = c
             PROVE  c \in Edges
  BY DEF Coalesced, Edges
<1>1. Separated(mem, FreeBlocks, Edges) /\ Ends(mem, b) = c
  BY Idle DEF IInv, FreeBlocks
<1> QED
  BY <1>1 DEF Separated

LEMMA HonestHolds ==
  ASSUME IInv
  PROVE  HeadersHonest
<1> SUFFICES ASSUME NEW a \in Arena, a % AlignWords = 0, a + HeaderWords - 1 \in Words,
                    MagicOf(a) = Magic, ~IsFree(a), Header(a) \cap clobbered = {}
             PROVE  a \in DOMAIN live
  BY DEF HeadersHonest, Arena
<1>1. a \in Words /\ a \in Nat
  BY BlockFacts
<1>2. a + 2 \notin clobbered /\ a + 3 \in Words
  BY <1>1 DEF Header, HeaderWords
<1> QED
  BY <1>1, <1>2 DEF IInv, Honest, Even, MagicOf, IsFree

LEMMA FitsHolds ==
  ASSUME IInv, NoWrap
  PROVE  PayloadFits
<1> SUFFICES ASSUME NEW a \in DOMAIN live
             PROVE  live[a] <= Size(a) * 8 /\ (a + HeaderWords) % AlignWords = 0
  BY DEF PayloadFits
<1>1. a \in All /\ a \in Int /\ Even(a)
  BY BlockFacts DEF IInv, Claims
<1>2. Even(a + 4)
  BY <1>1, EvenFour
<1> QED
  BY <1>2 DEF IInv, Sufficient, Size, Even, HeaderWords

-----------------------------------------------------------------------------
(* What a call leaves alone                                                *)

\* No word of a client's block is a header of another's or a part of a free block.
LEMMA LiveApart ==
  ASSUME IInv, NEW a \in DOMAIN live
  PROVE  /\ a \in All /\ a \notin Listed \cup Extra /\ a \in Nat /\ mem[a] \in Nat
         /\ Ends(mem, a) = a + 4 + mem[a]
         /\ \A w \in a .. Ends(mem, a) - 1 :
              /\ w \in Arena /\ w \in Words
              /\ \A b \in Listed \cup Extra : w < b \/ ~(w < Ends(mem, b))
              /\ \A b \in All \ {a} : w # b /\ w # b + 1 /\ w # b + 2 /\ w # b + 3
<1>1. a \in All /\ mem[a + 2] = 0
  BY DEF IInv, Claims
<1>2. a \notin Listed \cup Extra /\ Extra \subseteq All /\ Listed \subseteq All
  <2>1. \A b \in Extra : mem[b + 2] # 0
    BY DEF IInv, InHand, Extra
  <2> QED
    BY <1>1, <2>1 DEF Listed, All
<1>3. a \in Nat /\ mem[a] \in Nat /\ Ends(mem, a) = a + 4 + mem[a]
  BY <1>1, BlockFacts
<1>4. ASSUME NEW w \in a .. Ends(mem, a) - 1
      PROVE  /\ w \in Arena /\ w \in Words
             /\ \A b \in All \ {a} : w < b \/ ~(w < Ends(mem, b))
             /\ \A b \in All \ {a} : w # b /\ w # b + 1 /\ w # b + 2 /\ w # b + 3
  <2>1. w \in Arena /\ w \in Words
    BY <1>1, BlockFacts DEF IInv, Layout
  <2>2. ASSUME NEW b \in All \ {a}
        PROVE  /\ w < b \/ ~(w < Ends(mem, b))
               /\ w # b /\ w # b + 1 /\ w # b + 2 /\ w # b + 3
    <3>1. /\ b \in Nat /\ mem[b] \in Nat /\ Ends(mem, b) = b + 4 + mem[b]
          /\ Ends(mem, a) <= b \/ Ends(mem, b) <= a
      BY <1>1, BlockFacts
    <3> QED
      BY <1>3, <1>4, <3>1
  <2> QED
    BY <2>1, <2>2
<1> QED
  BY <1>1, <1>2, <1>3, <1>4

\* What a step keeps of a client's block: its size and its payload.
Kept(a) == \A w \in a .. Ends(mem, a) - 1 : mem'[w] = mem[w]

LEMMA KfreeLeaves ==
  ASSUME IInv, NEW b \in Freeable, kfree(b), KfreeError(b) = "",
         NEW a \in DOMAIN live, a # b
  PROVE  Kept(a)
<1>1. mem' = [mem EXCEPT ![b + 2] = 1] /\ MagicOf(b) = Magic /\ ~IsFree(b) /\ heap_ready
  BY DEF kfree, KfreeError
<1>2. b \in DOMAIN live
  BY <1>1, FreeableHonest
<1>3. b \in All \ {a} /\ mem \in [Words -> Nat]
  BY <1>2, LiveApart DEF IInv, Typed
<1>4. \A w \in a .. Ends(mem, a) - 1 : w \in Words /\ w # b + 2
  BY <1>3, LiveApart
<1> QED
  BY <1>1, <1>3, <1>4 DEF Kept

LEMMA TakeFrameLeaves ==
  ASSUME IInv, TakeFrame, NEW a \in DOMAIN live
  PROVE  Kept(a)
<1>1. CASE pmm_free = {}
  BY <1>1 DEF TakeFrame, Panic, state, Kept
<1>2. CASE pmm_free # {}
  <2> DEFINE f == Min(pmm_free)
             b == FrameStart(f)
  <2>1. mem' = [mem EXCEPT ![b] = FrameWords - HeaderWords, ![b + 2] = 1, ![b + 3] = Magic]
    BY <1>2 DEF TakeFrame
  <2>2. f \in Frames /\ \A g \in heap_frames : g \in Frames /\ g # f
    <3>1. pmm_free \subseteq Frames /\ heap_frames \subseteq Frames \ pmm_free
      BY DEF IInv, Typed
    <3>2. pmm_free \subseteq Nat
      BY <3>1, HeapAssumption
    <3> QED
      BY <1>2, <3>1, <3>2, MinIsLeast
  <2> HIDE DEF f
  <2>3. /\ b \in FrameSpan(f) /\ b + 2 \in FrameSpan(f) /\ b + 3 \in FrameSpan(f)
        /\ \A w \in FrameSpan(f) : w \notin Arena
    <3>1. \A w \in FrameSpan(f) : w \notin Arena
      BY <2>2, FramesDisjoint DEF Arena
    <3> QED
      BY <2>2, <3>1, FrameType, HeapAssumption DEF HeaderWords, AlignWords
  <2> HIDE DEF b
  <2>4. \A w \in a .. Ends(mem, a) - 1 : w \in Words /\ w # b /\ w # b + 2 /\ w # b + 3
    BY <2>3, LiveApart
  <2>5. mem \in [Words -> Nat]
    BY DEF IInv, Typed
  <2> QED
    BY <2>1, <2>4, <2>5 DEF Kept
<1> QED
  BY <1>1, <1>2

\* The link of a listed position, and another of no list, are written.
LEMMA PlaceLeaves ==
  ASSUME IInv, PlaceFrame, NEW a \in DOMAIN live
  PROVE  Kept(a)
<1>1. CASE current # NULL /\ current < target
  BY <1>1 DEF PlaceFrame, state, Kept
<1>2. CASE ~(current # NULL /\ current < target)
  <2>1. /\ mem' = Linked([mem EXCEPT ![target + 1] = current], previous, target)
        /\ pc = "place"
    BY <1>2 DEF PlaceFrame
  <2>2. /\ target \in All \ {a} /\ (previous # NULL => previous \in All \ {a})
        /\ mem \in [Words -> Nat]
    <3>1. target \in Extra /\ previous \in Listed \cup {NULL}
      BY <2>1 DEF Extra, IInv, Position
    <3> QED
      BY <3>1, LiveApart, BlockFacts DEF IInv, Typed, All
  <2>3. \A w \in a .. Ends(mem, a) - 1 :
          w \in Words /\ w # target + 1 /\ (previous # NULL => w # previous + 1)
    BY <2>2, LiveApart
  <2> QED
    BY <2>1, <2>2, <2>3 DEF Kept, Linked
<1> QED
  BY <1>1, <1>2

LEMMA InsertLeaves ==
  ASSUME IInv, InsertBlock, NEW a \in DOMAIN live
  PROVE  Kept(a)
<1>1. CASE current # NULL /\ current < target
  BY <1>1 DEF InsertBlock, state, Kept
<1>2. CASE ~(current # NULL /\ current < target)
  <2>1. \A w \in Words : /\ w # target /\ w # target + 1
                         /\ previous = NULL \/ (w # previous /\ w # previous + 1)
                         => mem'[w] = mem[w]
    BY <1>2, InsertChange
  <2>2. target \in All \ {a} /\ (previous # NULL => previous \in All \ {a})
    <3>1. target \in Extra /\ previous \in Listed \cup {NULL}
      BY <1>2, InsertFacts
    <3> QED
      BY <3>1, LiveApart, BlockFacts DEF All
  <2>3. \A w \in a .. Ends(mem, a) - 1 :
          /\ w \in Words /\ w # target /\ w # target + 1
          /\ previous # NULL => w # previous /\ w # previous + 1
    BY <2>2, LiveApart
  <2> QED
    BY <2>1, <2>3 DEF Kept
<1> QED
  BY <1>1, <1>2

LEMMA TakeLeaves ==
  ASSUME IInv, TakeBlock, NEW a \in DOMAIN live
  PROVE  Kept(a) /\ a # current
<1> DEFINE rest == current + HeaderWords + size
<1>1. /\ current \in Listed /\ current \in All /\ mem \in [Words -> Nat]
      /\ previous \in Listed \cup {NULL} /\ size \in Nat /\ mem[current] >= size
  BY TakeFacts DEF TakeBlock
<1>2. /\ current \in All \ {a} /\ (previous # NULL => previous \in All \ {a})
      /\ current \in Nat /\ mem[current] \in Nat /\ Ends(mem, current) = current + 4 + mem[current]
  BY <1>1, LiveApart, BlockFacts
<1>3. \A w \in a .. Ends(mem, a) - 1 :
        /\ w \in Words /\ w # current /\ w # current + 1 /\ w # current + 2
        /\ previous # NULL => w # previous + 1
        /\ w < current \/ ~(w < Ends(mem, current))
  BY <1>1, <1>2, LiveApart
<1>4. CASE ~(Size(current) - size >= HeaderWords + AlignWords)
  <2>1. mem' = [Linked(mem, previous, mem[current + 1])
                   EXCEPT ![current + 1] = NULL, ![current + 2] = 0]
    BY <1>4 DEF TakeBlock, NextOf
  <2> QED
    BY <1>1, <1>2, <1>3, <2>1 DEF Kept, Linked
<1>5. CASE Size(current) - size >= HeaderWords + AlignWords
  <2>1. mem' = [Linked([mem EXCEPT ![rest]     = mem[current] - size - HeaderWords,
                                 ![rest + 1] = mem[current + 1],
                                 ![rest + 2] = 1,
                                 ![rest + 3] = Magic,
                                 ![current]  = size],
                     previous, rest)
                EXCEPT ![current + 1] = NULL, ![current + 2] = 0]
    BY <1>5 DEF TakeBlock, Size, NextOf
  <2>2. rest = current + 4 + size /\ rest + 6 <= Ends(mem, current)
    BY <1>1, <1>2, <1>5 DEF Size, HeaderWords, AlignWords
  <2>3. ASSUME NEW w \in a .. Ends(mem, a) - 1
        PROVE  w # rest /\ w # rest + 1 /\ w # rest + 2 /\ w # rest + 3
    <3>1. w \in Int /\ (w < current \/ ~(w < Ends(mem, current)))
      BY <1>3, LiveApart
    <3> QED
      BY <1>1, <1>2, <2>2, <3>1
  <2> HIDE DEF rest
  <2>4. ASSUME NEW w \in a .. Ends(mem, a) - 1 PROVE mem'[w] = mem[w]
    <3>1. /\ w \in Words /\ w # current /\ w # current + 1 /\ w # current + 2
          /\ previous # NULL => w # previous + 1
          /\ w # rest /\ w # rest + 1 /\ w # rest + 2 /\ w # rest + 3
      BY <1>3, <2>3
    <3> DEFINE s == [mem EXCEPT ![rest]     = mem[current] - size - HeaderWords,
                                ![rest + 1] = mem[current + 1],
                                ![rest + 2] = 1,
                                ![rest + 3] = Magic,
                                ![current]  = size]
    <3>2. s[w] = mem[w] /\ DOMAIN s = Words
      BY <1>1, <3>1
    <3>3. mem' = [Linked(s, previous, rest) EXCEPT ![current + 1] = NULL, ![current + 2] = 0]
      BY <2>1
    <3> HIDE DEF s
    <3>4. Linked(s, previous, rest)[w] = s[w] /\ DOMAIN Linked(s, previous, rest) = Words
      BY <3>1, <3>2 DEF Linked
    <3> QED
      BY <3>1, <3>2, <3>3, <3>4
  <2> QED
    BY <1>2, <2>4 DEF Kept
<1> QED
  BY <1>2, <1>4, <1>5

LEMMA StepLeaves ==
  ASSUME IInv, [Next]_vars, ~WritePayload, NEW a \in DOMAIN live, a \in DOMAIN live'
  PROVE  Kept(a)
<1>1. CASE heap_init \/ SearchBlock \/ OtherFrames \/ UNCHANGED vars
  BY <1>1 DEF heap_init, SearchBlock, OtherFrames, vars, state, Kept
<1>2. ASSUME NEW bytes \in Requests, kmalloc(bytes) PROVE Kept(a)
  BY <1>2 DEF kmalloc, Panic, state, Kept
<1>3. ASSUME NEW b \in Freeable, kfree(b) PROVE Kept(a)
  <2>1. CASE KfreeError(b) # ""
    BY <1>3, <2>1 DEF kfree, Panic, state, Kept
  <2>2. CASE KfreeError(b) = ""
    <3>1. a # b
      BY <1>3, <2>2 DEF kfree
    <3> QED
      BY <1>3, <2>2, <3>1, KfreeLeaves
  <2> QED
    BY <2>1, <2>2
<1> QED
  BY <1>1, <1>2, <1>3, TakeFrameLeaves, PlaceLeaves, InsertLeaves, TakeLeaves
     DEF Next, CallStep, Halted

LEMMA UntouchedStep ==
  ASSUME IInv, [Next]_vars
  PROVE  \A a \in DOMAIN live \cap DOMAIN live' :
           pc # "idle" \/ pc' # "idle" => \A w \in Payload(a) : mem'[w] = mem[w]
<1> SUFFICES ASSUME NEW a \in DOMAIN live, a \in DOMAIN live',
                    pc # "idle" \/ pc' # "idle", NEW w \in Payload(a)
             PROVE  mem'[w] = mem[w]
  OBVIOUS
<1>1. ~WritePayload
  BY DEF WritePayload, locals
<1>2. w \in a .. Ends(mem, a) - 1
  BY LiveApart DEF Payload, EndOf, Size, Ends, HeaderWords
<1> QED
  BY <1>1, <1>2, StepLeaves DEF Kept

-----------------------------------------------------------------------------
(* The heap implements MemoryGrants                                        *)

\* What the clients have: the payload of each block, under its first address.
Held == [p \in {a + HeaderWords : a \in DOMAIN live} |-> Payload(p - HeaderWords)]

LEMMA LiveType ==
  ASSUME IInv, NEW a \in DOMAIN live
  PROVE  a \in Nat /\ a \in All
BY LiveApart

LEMMA Shifted ==
  ASSUME NEW a \in Nat, NEW b \in Nat, a # b
  PROVE  a + 4 # b + 4
OBVIOUS

LEMMA HeldAt ==
  ASSUME IInv
  PROVE  /\ DOMAIN Held = {a + 4 : a \in DOMAIN live}
         /\ \A a \in DOMAIN live : Held[a + 4] = a + 4 .. a + 4 + mem[a] - 1
<1>1. DOMAIN Held = {a + 4 : a \in DOMAIN live}
  BY DEF Held, HeaderWords
<1>2. ASSUME NEW a \in DOMAIN live PROVE Held[a + 4] = a + 4 .. a + 4 + mem[a] - 1
  <2>1. a \in Nat /\ (a + 4) - 4 = a
    BY LiveType
  <2>2. Held[a + 4] = Payload((a + 4) - 4)
    BY DEF Held, HeaderWords
  <2>3. Payload(a) = a + 4 .. a + 4 + mem[a] - 1
    BY <2>1, LiveApart DEF Payload, EndOf, Size, HeaderWords
  <2> QED
    BY <2>1, <2>2, <2>3
<1> QED
  BY <1>1, <1>2

LEMMA HeldAtNext ==
  ASSUME IInv'
  PROVE  /\ DOMAIN Held' = {a + 4 : a \in DOMAIN live'}
         /\ \A a \in DOMAIN live' : Held'[a + 4] = a + 4 .. a + 4 + mem'[a] - 1
<1>1. (IInv => /\ DOMAIN Held = {a + 4 : a \in DOMAIN live}
               /\ \A a \in DOMAIN live : Held[a + 4] = a + 4 .. a + 4 + mem[a] - 1)'
  BY HeldAt, PTL
<1> QED
  BY <1>1

LEMMA SizeStays ==
  ASSUME IInv, [Next]_vars, NEW a \in DOMAIN live, a \in DOMAIN live'
  PROVE  mem'[a] = mem[a]
<1>1. /\ a \in Nat /\ a \in All /\ a \in a .. Ends(mem, a) - 1 /\ mem[a] \in Nat
  BY LiveApart
<1>2. CASE ~WritePayload
  BY <1>1, <1>2, StepLeaves DEF Kept
<1>3. CASE WritePayload
  <2>1. PICK b \in DOMAIN live : \E w \in Payload(b) : mem' = [mem EXCEPT ![w] = 0]
    BY <1>3 DEF WritePayload
  <2>2. PICK w \in Payload(b) : mem' = [mem EXCEPT ![w] = 0]
    BY <2>1
  <2>3. b \in Nat /\ mem[b] \in Nat /\ w \in b + 4 .. Ends(mem, b) - 1
    BY LiveApart DEF Payload, EndOf, Size, Ends, HeaderWords
  <2>4. w # a
    BY <1>1, <2>3, LiveApart
  <2>5. mem \in [Words -> Nat] /\ a \in Words
    BY <1>1, BlockFacts DEF IInv, Typed
  <2> QED
    BY <2>2, <2>4, <2>5
<1> QED
  BY <1>2, <1>3

\* A client's payload stays where it is while it is the client's.
LEMMA HeldStays ==
  ASSUME IInv, IInv', [Next]_vars, NEW a \in DOMAIN live, a \in DOMAIN live'
  PROVE  Held'[a + 4] = Held[a + 4]
BY HeldAt, HeldAtNext, SizeStays

LEMMA HeldSame ==
  ASSUME IInv, IInv', [Next]_vars, DOMAIN live' = DOMAIN live
  PROVE  Held' = Held
<1>1. DOMAIN Held' = DOMAIN Held
  BY HeldAt, HeldAtNext
<1>2. ASSUME NEW p \in DOMAIN Held PROVE Held'[p] = Held[p]
  <2>1. PICK a \in DOMAIN live : p = a + 4
    BY HeldAt
  <2> QED
    BY <2>1, HeldStays
<1>3. Held = [p \in DOMAIN Held |-> Held[p]]
  BY DEF Held
<1>4. Held' = [p \in DOMAIN Held' |-> Held'[p]]
  BY DEF Held
<1> QED
  BY <1>1, <1>2, <1>3, <1>4

LEMMA InitImplements ==
  ASSUME Init
  PROVE  Grants!Init
<1>1. heap_frames = {} /\ panic = ""
  BY DEF Init
<1>2. live = <<>>
  BY DEF Init
<1>3. DOMAIN <<>> = {}
  OBVIOUS
<1>4. DOMAIN live = {}
  BY <1>2, <1>3
<1>5. {a + HeaderWords : a \in DOMAIN live} = {}
  BY <1>4
<1>6. [p \in {a + HeaderWords : a \in DOMAIN live} |-> Payload(p - HeaderWords)] = <<>>
  BY <1>5
<1> QED
  BY <1>1, <1>6 DEF Grants!Init

LEMMA StutterImplements ==
  ASSUME IInv, IInv', [Next]_vars, DOMAIN live' = DOMAIN live, UNCHANGED <<heap_frames, panic>>
  PROVE  UNCHANGED Grants!vars
BY HeldSame DEF Grants!vars, Held

LEMMA PanicImplements ==
  ASSUME IInv, IInv', NEW message, Panic(message), message # "", panic = ""
  PROVE  Grants!Halt
<1>1. UNCHANGED <<mem, live, heap_frames>> /\ panic' # "" /\ panic = ""
  BY DEF Panic, state, history
<1>2. Held' = Held
  BY <1>1 DEF Held, Payload, EndOf, Size
<1> QED
  BY <1>1, <1>2 DEF Grants!Halt, Held

LEMMA FrameImplements ==
  ASSUME IInv, IInv', [Next]_vars, TakeFrame, pmm_free # {}
  PROVE  Grants!Grow
<1> DEFINE f == Min(pmm_free)
<1>1. /\ heap_frames' = heap_frames \cup {f} /\ panic = "" /\ UNCHANGED <<live, panic>>
  BY DEF TakeFrame
<1>2. f \in Frames /\ \A g \in heap_frames : g \in Frames /\ g # f
  <2>1. pmm_free \subseteq Frames /\ heap_frames \subseteq Frames \ pmm_free
    BY DEF IInv, Typed
  <2>2. pmm_free \subseteq Nat
    BY <2>1, HeapAssumption
  <2> QED
    BY <2>1, <2>2, MinIsLeast
<1> HIDE DEF f
<1>3. FrameStart(f) \in FrameSpan(f) /\ FrameStart(f) \notin Arena
  BY <1>2, FrameType, FramesDisjoint DEF Arena
<1>4. Arena \subseteq Arena' /\ Arena # Arena'
  BY <1>1, <1>3 DEF Arena
<1>5. Held' = Held
  BY <1>1, HeldSame
<1> QED
  BY <1>1, <1>4, <1>5 DEF Grants!Grow, Held, Arena

LEMMA FreeImplements ==
  ASSUME IInv, IInv', [Next]_vars, NEW a \in Freeable, kfree(a), KfreeError(a) = ""
  PROVE  Grants!Revoke
<1>1. /\ panic = "" /\ UNCHANGED <<heap_frames, panic>> /\ DOMAIN live' = DOMAIN live \ {a}
      /\ heap_ready /\ MagicOf(a) = Magic /\ ~IsFree(a)
  BY DEF kfree, KfreeError
<1>2. a \in DOMAIN live /\ a + 4 \in DOMAIN Held
  BY <1>1, FreeableHonest, HeldAt
<1>3. DOMAIN Held' = DOMAIN Held \ {a + 4}
  <2>1. ASSUME NEW b \in DOMAIN live, b # a PROVE b + 4 # a + 4
    <3>1. a \in Nat /\ b \in Nat
      BY <1>2, LiveType
    <3> QED
      BY <2>1, <3>1, Shifted
  <2> QED
    BY <1>1, <2>1, HeldAt, HeldAtNext
<1>4. ASSUME NEW p \in DOMAIN Held \ {a + 4} PROVE Held'[p] = Held[p]
  <2>1. PICK b \in DOMAIN live : p = b + 4
    BY HeldAt
  <2>2. b \in DOMAIN live'
    BY <1>1, <1>4, <2>1
  <2> QED
    BY <2>1, <2>2, HeldStays
<1>5. Held' = [p \in DOMAIN Held' |-> Held'[p]]
  BY DEF Held
<1>6. Held' = [p \in DOMAIN Held \ {a + 4} |-> Held[p]]
  BY <1>3, <1>4, <1>5
<1>7. Held = [p \in {b + HeaderWords : b \in DOMAIN live} |-> Payload(p - HeaderWords)]
  BY DEF Held
<1> QED
  BY <1>1, <1>2, <1>6 DEF Grants!Revoke, Held

LEMMA TakeImplements ==
  ASSUME IInv, IInv', NoWrap, [Next]_vars, TakeBlock
  PROVE  Grants!Grant
<1> DEFINE p == current + 4
<1>1. /\ panic = "" /\ UNCHANGED <<heap_frames, panic>> /\ pc = "take"
      /\ DOMAIN live' = DOMAIN live \cup {current}
  BY DEF TakeBlock
<1>2. current \in Nat /\ current \notin DOMAIN live
  <2>1. current \in All /\ current \in Listed
    BY <1>1, TakeFacts
  <2> QED
    BY <2>1, BlockFacts, LiveApart
<1>3. /\ p \notin DOMAIN Held /\ DOMAIN Held' = DOMAIN Held \cup {p}
  <2>1. ASSUME NEW a \in DOMAIN live PROVE a + 4 # current + 4
    <3>1. a \in Nat /\ current \in Nat /\ a # current
      BY <1>2, LiveType
    <3> QED
      BY <3>1
  <2>2. p \notin DOMAIN Held
    BY <2>1, HeldAt
  <2>3. DOMAIN Held' = DOMAIN Held \cup {p}
    BY <1>1, HeldAt, HeldAtNext
  <2> QED
    BY <2>2, <2>3
<1>4. /\ Held'[p] = p .. p + mem'[current] - 1
      /\ mem'[current] \in Nat /\ mem'[current] > 0
  <2>1. mem'[current] > 0
    BY <1>1 DEF IInv, Sufficient
  <2>2. mem'[current] \in Nat
    <3>1. Layout(mem', All', Arena') /\ current \in All'
      BY <1>1 DEF IInv, Claims
    <3> QED
      BY <3>1, LayoutType
  <2> QED
    BY <1>1, <2>1, <2>2, HeldAtNext
<1>5. \E last \in Held'[p] : Held'[p] = p .. last
  <2>1. p + mem'[current] - 1 \in p .. p + mem'[current] - 1
    BY <1>2, <1>4
  <2> QED
    BY <1>4, <2>1
<1>6. /\ Layout(mem', All', Arena') /\ Arena' = Arena
      /\ \A b \in DOMAIN live' : b \in All'
  BY <1>1 DEF IInv, Claims, Arena
<1>7. \A b \in DOMAIN live' : /\ b \in Nat /\ mem'[b] \in Nat
                              /\ Ends(mem', b) = b + 4 + mem'[b]
  BY <1>6, LayoutType
<1>8. Held'[p] \subseteq Arena
  <2>1. \A w \in current .. Ends(mem', current) - 1 : w \in Arena
    BY <1>1, <1>6 DEF Layout
  <2>2. Ends(mem', current) = current + 4 + mem'[current]
    BY <1>1, <1>7
  <2> QED
    BY <1>2, <1>4, <2>1, <2>2
<1>9. ASSUME NEW q \in DOMAIN Held
      PROVE  Held'[q] = Held[q] /\ Held'[p] \cap Held[q] = {}
  <2>1. PICK a \in DOMAIN live : q = a + 4
    BY HeldAt
  <2>2. a \in DOMAIN live' /\ a # current
    BY <1>1, <1>2
  <2>3. Held'[q] = Held[q] /\ Held'[q] = a + 4 .. a + 4 + mem'[a] - 1
    BY <2>1, <2>2, HeldStays, HeldAtNext
  <2>4. Ends(mem', a) <= current \/ Ends(mem', current) <= a
    BY <1>1, <1>6, <2>2 DEF Layout
  <2>5. ASSUME NEW w \in Held'[p], w \in Held'[q] PROVE FALSE
    <3>1. /\ a \in Nat /\ mem'[a] \in Nat /\ Ends(mem', a) = a + 4 + mem'[a]
          /\ Ends(mem', current) = current + 4 + mem'[current]
      BY <1>1, <1>7, <2>2
    <3>2. w \in a + 4 .. a + 4 + mem'[a] - 1 /\ w \in current + 4 .. current + 4 + mem'[current] - 1
      BY <1>4, <2>3, <2>5
    <3> QED
      BY <1>2, <1>4, <2>4, <3>1, <3>2
  <2> QED
    BY <2>3, <2>5
<1> HIDE DEF p
<1>10. \E r \in DOMAIN Held' \ DOMAIN Held :
         /\ DOMAIN Held' = DOMAIN Held \cup {r}
         /\ \E last \in Held'[r] : Held'[r] = r .. last
         /\ Held'[r] \subseteq Arena
         /\ \A q \in DOMAIN Held : Held'[q] = Held[q] /\ Held'[r] \cap Held[q] = {}
  BY <1>3, <1>5, <1>8, <1>9
<1> QED
  BY <1>1, <1>10 DEF Grants!Grant, Held, Arena

LEMMA StepImplements ==
  ASSUME IInv, IInv', NoWrap, [Next]_vars
  PROVE  [Grants!Next]_(Grants!vars)
<1>1. CASE heap_init \/ SearchBlock \/ PlaceFrame \/ InsertBlock \/ WritePayload
           \/ OtherFrames \/ UNCHANGED vars
  <2>1. UNCHANGED <<live, heap_frames, panic>>
    BY <1>1 DEF heap_init, SearchBlock, PlaceFrame, InsertBlock, WritePayload, OtherFrames,
                vars, history
  <2> QED
    BY <2>1, StutterImplements
<1>2. ASSUME NEW bytes \in Requests, kmalloc(bytes) PROVE [Grants!Next]_(Grants!vars)
  <2>1. CASE KmallocError(bytes) # ""
    BY <1>2, <2>1, PanicImplements DEF kmalloc, Grants!Next
  <2>2. CASE KmallocError(bytes) = ""
    BY <1>2, <2>2, StutterImplements DEF kmalloc
  <2> QED
    BY <2>1, <2>2
<1>3. ASSUME NEW a \in Freeable, kfree(a) PROVE [Grants!Next]_(Grants!vars)
  <2>1. CASE KfreeError(a) # ""
    BY <1>3, <2>1, PanicImplements DEF kfree, Grants!Next
  <2>2. CASE KfreeError(a) = ""
    BY <1>3, <2>2, FreeImplements DEF Grants!Next
  <2> QED
    BY <2>1, <2>2
<1>4. CASE TakeFrame
  <2>1. CASE pmm_free = {}
    BY <1>4, <2>1, PanicImplements DEF TakeFrame, Grants!Next
  <2>2. CASE pmm_free # {}
    BY <1>4, <2>2, FrameImplements DEF Grants!Next
  <2> QED
    BY <2>1, <2>2
<1>5. CASE TakeBlock
  BY <1>5, TakeImplements DEF Grants!Next
<1> QED
  BY <1>1, <1>2, <1>3, <1>4, <1>5 DEF Next, CallStep, Halted

\* The properties of a state that the invariant gives for every size of a frame,
\* every set of frames and every set of requests, those that wrap included.

\* Between calls the blocks divide the frames of the heap without a gap or an
\* overlap: kmalloc's splits and kfree's merges lose no memory and invent none.
THEOREM BlocksTile == Spec => []Tiling
BY Invariance, TilingHolds, PTL

\* Between calls the free list holds the free blocks, all and in address order.
THEOREM ListComplete == Spec => []FreeListComplete
BY Invariance, FreeListHolds, PTL

\* kfree leaves no two free neighbours, but at the edge of a frame.
THEOREM NeighboursJoined == Spec => []Coalesced
BY Invariance, CoalescedHolds, PTL

\* kfree's checks of the magic number and of is_free let only a client's block
\* pass, as long as nobody has written where the old header was.
THEOREM FreesCaught == Spec => []HeadersHonest
BY Invariance, HonestHolds, PTL

\* No step of kmalloc or kfree writes into a block that a client holds.
THEOREM Untouched == Spec => PayloadUntouched
<1>1. IInv /\ [Next]_vars
        => [\A a \in DOMAIN live \cap DOMAIN live' :
              pc # "idle" \/ pc' # "idle" =>
                \A w \in Payload(a) : mem'[w] = mem[w]]_vars
  BY UntouchedStep
<1> QED
  BY <1>1, Invariance, PTL DEF Spec, PayloadUntouched

\* Where no request wraps, a client gets the bytes that it asked for.
THEOREM PayloadsFit ==
  ASSUME NoWrap
  PROVE  Spec => []PayloadFits
<1>1. IInv => PayloadFits
  BY FitsHolds
<1> QED
  BY <1>1, Invariance, PTL

\* Where no request wraps, kmalloc and kfree implement exclusive extents that stay
\* where they are.
THEOREM Implements ==
  ASSUME NoWrap
  PROVE  Spec => ImplementsGrants
<1>1. Grants!Spec <=> Grants!Init /\ [][Grants!Next]_(Grants!vars)
  BY DEF Grants!Spec
<1>2. IInv /\ IInv' /\ [Next]_vars => [Grants!Next]_(Grants!vars)
  BY StepImplements
<1>3. Init => Grants!Init
  BY InitImplements
<1> QED
  BY <1>1, <1>2, <1>3, Invariance, PTL DEF Spec, ImplementsGrants

-----------------------------------------------------------------------------
(* The counters                                                            *)

\* What a call has still to take off heap_used, or to count as a frame.
Debt == IF pc = "insert" THEN mem[target] ELSE 0
Due  == IF pc = "place" THEN 1 ELSE 0

\* The sizes of the clients' blocks.
Sizes == [a \in DOMAIN live |-> mem[a]]

\* heap_used is the sum of those sizes and heap_frame_count the number of frames,
\* but for what the running call has yet to count.
Counted ==
  /\ IsFiniteSet(DOMAIN live)
  /\ heap_used = Total(Sizes, DOMAIN live) + Debt
  /\ Cardinality(heap_frames) = heap_frame_count + Due

LEMMA CountType ==
  ASSUME IInv, Counted
  PROVE  /\ Debt \in Nat /\ IsFiniteSet(heap_frames) /\ heap_frame_count \in Nat
         /\ \A a \in DOMAIN live : Sizes[a] \in Nat /\ Sizes[a] = mem[a]
         /\ \A S \in SUBSET DOMAIN live : IsFiniteSet(S) /\ Total(Sizes, S) \in Nat
<1>1. mem \in [Words -> Nat] /\ heap_frame_count \in Nat
  BY DEF IInv, Typed
<1>2. Debt \in Nat
  <2>1. pc = "insert" => target \in All
    BY DEF All, Extra
  <2> QED
    BY <2>1, BlockFacts DEF Debt
<1>3. IsFiniteSet(heap_frames)
  <2>1. heap_frames \in SUBSET Frames
    BY DEF IInv, Typed
  <2> QED
    BY <2>1, HeapAssumption, FS_Subset
<1>4. \A a \in DOMAIN live : Sizes[a] \in Nat /\ Sizes[a] = mem[a]
  BY LiveApart DEF Sizes
<1>5. ASSUME NEW S \in SUBSET DOMAIN live
      PROVE  IsFiniteSet(S) /\ Total(Sizes, S) \in Nat
  <2>1. IsFiniteSet(S)
    BY FS_Subset DEF Counted
  <2> QED
    BY <1>4, <2>1, TotalNat
<1> QED
  BY <1>1, <1>2, <1>3, <1>4, <1>5

LEMMA LiveSizes ==
  ASSUME IInv
  PROVE  \A a \in DOMAIN live : mem[a] \in Nat
BY LiveApart

\* Blocks that a step leaves to their clients add up to the same.
LEMMA TotalStays ==
  ASSUME IInv, Counted, [Next]_vars, NEW S, S \subseteq DOMAIN live, S \subseteq DOMAIN live'
  PROVE  Total(Sizes', S) = Total(Sizes, S)
<1>1. IsFiniteSet(S)
  BY CountType
<1>2. ASSUME NEW a \in S PROVE Sizes'[a] = Sizes[a]
  <2>1. a \in DOMAIN live /\ a \in DOMAIN live'
    OBVIOUS
  <2>2. mem'[a] = mem[a]
    BY <2>1, SizeStays
  <2>3. Sizes[a] = mem[a] /\ Sizes'[a] = mem'[a]
    BY <2>1 DEF Sizes
  <2> QED
    BY <2>2, <2>3
<1> QED
  BY <1>1, <1>2, TotalSame

LEMMA CountStays ==
  ASSUME IInv, Counted, [Next]_vars,
         UNCHANGED <<heap_used, heap_frame_count, heap_frames, live, Debt, Due>>
  PROVE  Counted'
<1>1. DOMAIN live' = DOMAIN live
  OBVIOUS
<1>2. Total(Sizes', DOMAIN live) = Total(Sizes, DOMAIN live)
  BY <1>1, TotalStays
<1>3. Total(Sizes', DOMAIN live') = Total(Sizes, DOMAIN live)
  BY <1>1, <1>2
<1> QED
  BY <1>1, <1>3 DEF Counted

LEMMA InitCounted ==
  ASSUME Init
  PROVE  Counted
<1>1. DOMAIN live = {} /\ heap_used = 0 /\ heap_frame_count = 0 /\ heap_frames = {} /\ pc = "idle"
  <2>1. DOMAIN <<>> = {}
    OBVIOUS
  <2>2. live = <<>>
    BY DEF Init
  <2> QED
    BY <2>1, <2>2 DEF Init
<1>2. Total(Sizes, {}) = 0 /\ IsFiniteSet({}) /\ Cardinality({}) = 0
  BY FS_EmptySet, TotalIs
<1> QED
  BY <1>1, <1>2 DEF Counted, Debt, Due

LEMMA InitCounts ==
  ASSUME IInv, IInv', heap_init
  PROVE  Counted'
<1>1. /\ heap_used' = 0 /\ heap_frame_count' = 0 /\ heap_frames' = {} /\ pc' = "idle"
      /\ blocks' = {}
  BY DEF heap_init, IInv, Ready, locals, history
<1>2. DOMAIN live' = {}
  BY <1>1 DEF IInv, Typed
<1>3. Total(Sizes', {}) = 0 /\ IsFiniteSet({}) /\ Cardinality({}) = 0
  BY FS_EmptySet, TotalIs
<1> QED
  BY <1>1, <1>2, <1>3 DEF Counted, Debt, Due

LEMMA FrameCounts ==
  ASSUME IInv, Counted, [Next]_vars, TakeFrame, pmm_free # {}
  PROVE  Counted'
<1> DEFINE f == Min(pmm_free)
<1>1. /\ heap_frames' = heap_frames \cup {f}
      /\ UNCHANGED <<heap_used, heap_frame_count, live>> /\ pc = "grow" /\ pc' = "place"
  BY DEF TakeFrame
<1>2. f \notin heap_frames
  <2>1. pmm_free \subseteq Frames /\ heap_frames \subseteq Frames \ pmm_free
    BY DEF IInv, Typed
  <2>2. pmm_free \subseteq Nat
    BY <2>1, HeapAssumption
  <2> QED
    BY <2>1, <2>2, MinIsLeast
<1>3. Cardinality(heap_frames') = Cardinality(heap_frames) + 1
  <2> HIDE DEF f
  <2>1. IsFiniteSet(heap_frames)
    BY CountType
  <2> QED
    BY <1>1, <1>2, <2>1, FS_AddElement
<1>4. DOMAIN live' = DOMAIN live /\ Debt' = 0 /\ Debt = 0 /\ Due' = 1 /\ Due = 0
  BY <1>1 DEF Debt, Due
<1>5. Total(Sizes', DOMAIN live') = Total(Sizes, DOMAIN live)
  BY <1>4, TotalStays
<1>6. heap_frame_count \in Nat
  BY CountType
<1> QED
  BY <1>1, <1>3, <1>4, <1>5, <1>6 DEF Counted

LEMMA PlaceCounts ==
  ASSUME IInv, Counted, [Next]_vars, PlaceFrame, ~(current # NULL /\ current < target)
  PROVE  Counted'
<1>1. /\ heap_frame_count' = heap_frame_count + 1 /\ pc = "place" /\ pc' = "take"
      /\ UNCHANGED <<heap_used, live, heap_frames>>
  BY DEF PlaceFrame
<1>2. DOMAIN live' = DOMAIN live /\ Debt' = 0 /\ Debt = 0 /\ Due' = 0 /\ Due = 1
  BY <1>1 DEF Debt, Due
<1>3. Total(Sizes', DOMAIN live') = Total(Sizes, DOMAIN live)
  BY <1>2, TotalStays
<1>4. heap_frame_count \in Nat
  BY CountType
<1> QED
  BY <1>1, <1>2, <1>3, <1>4 DEF Counted

LEMMA TakeCounts ==
  ASSUME IInv, IInv', Counted, [Next]_vars, TakeBlock
  PROVE  Counted'
<1> DEFINE L == DOMAIN live
           M == DOMAIN live'
<1>1. /\ pc = "take" /\ pc' = "idle" /\ UNCHANGED <<heap_frame_count, heap_frames>>
      /\ M = L \cup {current} /\ heap_used' = heap_used + mem'[current]
  BY DEF TakeBlock, Return
<1>2. current \notin L
  <2>1. current \in Listed
    BY <1>1, TakeFacts
  <2> QED
    BY <2>1, LiveApart
<1>3. IsFiniteSet(M) /\ L = M \ {current} /\ current \in M
  BY <1>1, <1>2, FS_AddElement DEF Counted
<1>4. \A a \in M : Sizes'[a] \in Nat /\ Sizes'[a] = mem'[a]
  <2>1. (IInv => \A a \in DOMAIN live : mem[a] \in Nat)'
    BY LiveSizes, PTL
  <2> QED
    BY <2>1 DEF Sizes
<1>5. Total(Sizes', M) = Sizes'[current] + Total(Sizes', L)
  <2> HIDE DEF L, M
  <2> QED
    BY <1>3, <1>4, TotalWithout
<1>6. Total(Sizes', L) = Total(Sizes, L)
  BY <1>1, TotalStays
<1>7. Debt' = 0 /\ Debt = 0 /\ Due' = 0 /\ Due = 0
  BY <1>1 DEF Debt, Due
<1>8. Total(Sizes, L) \in Nat /\ Sizes'[current] \in Nat /\ Sizes'[current] = mem'[current]
  BY <1>3, <1>4, CountType
<1>9. heap_used = Total(Sizes, L) /\ heap_used' = Total(Sizes', M)
  BY <1>1, <1>5, <1>6, <1>7, <1>8 DEF Counted
<1> QED
  BY <1>1, <1>3, <1>7, <1>9, CountType DEF Counted

\* A block that a client gives up: its size is still to be taken off.
GivenUp(a) ==
  /\ UNCHANGED <<heap_used, heap_frame_count, heap_frames>>
  /\ DOMAIN live' = DOMAIN live \ {a}
  /\ mem' = [mem EXCEPT ![a + 2] = 1]
  /\ target' = a /\ pc = "idle" /\ pc' = "insert"

LEMMA GivenUpCounts ==
  ASSUME IInv, Counted, [Next]_vars, NEW a \in DOMAIN live, GivenUp(a)
  PROVE  Counted'
<1> DEFINE L == DOMAIN live
           M == DOMAIN live'
<1>1. M = L \ {a} /\ a \in L
  BY DEF GivenUp
<1>2. IsFiniteSet(L) /\ \A b \in L : Sizes[b] \in Nat
  BY CountType DEF Counted
<1>3. Total(Sizes, L) = Sizes[a] + Total(Sizes, M)
  <2> HIDE DEF L, M
  <2> QED
    BY <1>1, <1>2, TotalWithout
<1>4. Total(Sizes', M) = Total(Sizes, M)
  BY <1>1, TotalStays
<1>5. mem'[a] = mem[a]
  <2>1. a \in Nat
    BY LiveApart
  <2>2. a # a + 2
    BY <2>1
  <2>3. mem \in [Words -> Nat]
    BY DEF IInv, Typed
  <2> QED
    BY <2>2, <2>3 DEF GivenUp
<1>6. Debt' = mem[a] /\ Debt = 0 /\ Due' = 0 /\ Due = 0
  BY <1>5 DEF Debt, Due, GivenUp
<1>7. /\ Sizes[a] \in Nat /\ Sizes[a] = mem[a] /\ M \in SUBSET L /\ IsFiniteSet(M)
      /\ Total(Sizes, M) \in Nat /\ heap_frame_count \in Nat
  BY <1>1, CountType
<1>8. heap_used = Total(Sizes, L) + Debt /\ heap_used' = heap_used
  BY DEF Counted, GivenUp
<1>9. heap_used' = Total(Sizes', M) + Debt'
  <2> HIDE DEF L, M
  <2> QED
    BY <1>3, <1>4, <1>6, <1>7, <1>8
<1>10. Cardinality(heap_frames') = heap_frame_count' + Due'
  BY <1>6 DEF Counted, GivenUp
<1> QED
  BY <1>7, <1>9, <1>10 DEF Counted

LEMMA FreeCounts ==
  ASSUME IInv, Counted, [Next]_vars, NEW a \in Freeable, kfree(a), KfreeError(a) = ""
  PROVE  Counted'
<1>1. GivenUp(a) /\ heap_ready /\ MagicOf(a) = Magic /\ ~IsFree(a)
  BY DEF kfree, KfreeError, GivenUp
<1>2. a \in DOMAIN live
  BY <1>1, FreeableHonest
<1> QED
  BY <1>1, <1>2, GivenUpCounts

LEMMA InsertCounts ==
  ASSUME IInv, Counted, [Next]_vars, InsertBlock, ~(current # NULL /\ current < target)
  PROVE  Counted'
<1>1. /\ heap_used' = heap_used - mem[target] /\ pc = "insert" /\ pc' = "idle"
      /\ UNCHANGED <<live, heap_frames, heap_frame_count>>
  BY DEF InsertBlock, Return, Size
<1>2. /\ DOMAIN live' = DOMAIN live /\ Debt' = 0 /\ Debt = mem[target] /\ Due' = 0 /\ Due = 0
  BY <1>1 DEF Debt, Due
<1>3. Total(Sizes', DOMAIN live') = Total(Sizes, DOMAIN live)
  BY <1>2, TotalStays
<1>4. Total(Sizes, DOMAIN live) \in Nat /\ Debt \in Nat
  BY CountType
<1> QED
  BY <1>1, <1>2, <1>3, <1>4 DEF Counted

LEMMA NextCounts ==
  ASSUME IInv, IInv', Counted, [Next]_vars
  PROVE  Counted'
<1>1. CASE heap_init
  BY <1>1, InitCounts
<1>2. CASE UNCHANGED vars \/ SearchBlock \/ OtherFrames
  <2>1. /\ UNCHANGED <<mem, heap_used, heap_frame_count, heap_frames, live, target>>
        /\ pc' = pc \/ (pc = "search" /\ pc' \in {"grow", "take"})
    BY <1>2 DEF vars, SearchBlock, OtherFrames, state, locals, history
  <2> QED
    BY <2>1, CountStays DEF Debt, Due
<1>3. CASE WritePayload
  <2>1. UNCHANGED <<heap_used, heap_frame_count, heap_frames, live, pc>> /\ pc = "idle"
    BY <1>3 DEF WritePayload, locals
  <2> QED
    BY <2>1, CountStays DEF Debt, Due
<1>4. ASSUME NEW message, Panic(message) PROVE Counted'
  <2>1. UNCHANGED <<mem, heap_used, heap_frame_count, heap_frames, live, target, pc>>
    BY <1>4 DEF Panic, state, locals, history
  <2> QED
    BY <2>1, CountStays DEF Debt, Due
<1>5. ASSUME NEW bytes \in Requests, kmalloc(bytes) PROVE Counted'
  <2>1. CASE KmallocError(bytes) = ""
    <3>1. /\ UNCHANGED <<heap_used, heap_frame_count, heap_frames, live>>
          /\ pc = "idle" /\ pc' = "search"
      BY <1>5, <2>1 DEF kmalloc, state
    <3> QED
      BY <3>1, CountStays DEF Debt, Due
  <2> QED
    BY <1>4, <1>5, <2>1 DEF kmalloc
<1>6. ASSUME NEW a \in Freeable, kfree(a) PROVE Counted'
  <2>1. CASE KfreeError(a) = ""
    BY <1>6, <2>1, FreeCounts
  <2> QED
    BY <1>4, <1>6, <2>1 DEF kfree
<1>7. CASE TakeFrame
  <2>1. CASE pmm_free = {}
    BY <1>4, <1>7, <2>1 DEF TakeFrame
  <2> QED
    BY <1>7, <2>1, FrameCounts
<1>8. CASE PlaceFrame
  <2>1. CASE current # NULL /\ current < target
    <3>1. UNCHANGED <<mem, heap_used, heap_frame_count, heap_frames, live, target, pc>>
      BY <1>8, <2>1 DEF PlaceFrame, state
    <3> QED
      BY <3>1, CountStays DEF Debt, Due
  <2> QED
    BY <1>8, <2>1, PlaceCounts
<1>9. CASE TakeBlock
  BY <1>9, TakeCounts
<1>10. CASE InsertBlock
  <2>1. CASE current # NULL /\ current < target
    <3>1. UNCHANGED <<mem, heap_used, heap_frame_count, heap_frames, live, target, pc>>
      BY <1>10, <2>1 DEF InsertBlock, state
    <3> QED
      BY <3>1, CountStays DEF Debt, Due
  <2> QED
    BY <1>10, <2>1, InsertCounts
<1> QED
  BY <1>1, <1>2, <1>3, <1>5, <1>6, <1>7, <1>8, <1>9, <1>10 DEF Next, CallStep, Halted

\* The counters are inductive, given the invariant.
THEOREM AlwaysCounted == Spec => []Counted
<1>1. Init => Counted
  BY InitCounted
<1>2. IInv /\ IInv' /\ Counted /\ [Next]_vars => Counted'
  BY NextCounts
<1> QED
  BY <1>1, <1>2, Invariance, PTL DEF Spec

LEMMA AccountsHold ==
  ASSUME IInv, Counted
  PROVE  Accounting
<1> SUFFICES ASSUME pc = "idle"
             PROVE  /\ heap_used = SumFunction([a \in DOMAIN live |-> Size(a)])
                    /\ heap_frame_count = Cardinality(heap_frames)
  BY DEF Accounting
<1>1. Debt = 0 /\ Due = 0
  BY DEF Debt, Due
<1>2. SumFunction(Sizes) = Total(Sizes, DOMAIN live)
  <2>1. DOMAIN Sizes = DOMAIN live
    BY DEF Sizes
  <2>2. SumFunction(Sizes) = Total(Sizes, DOMAIN Sizes)
    BY SumIsTotal
  <2> QED
    BY <2>1, <2>2, Zenon
<1>3. Sizes = [a \in DOMAIN live |-> Size(a)]
  BY DEF Sizes, Size
<1>4. Total(Sizes, DOMAIN live) \in Nat /\ heap_frame_count \in Nat
  BY CountType
<1>5. heap_used = SumFunction(Sizes)
  BY <1>1, <1>2, <1>4 DEF Counted
<1>6. heap_frame_count = Cardinality(heap_frames)
  BY <1>1, <1>4 DEF Counted
<1> QED
  BY <1>3, <1>5, <1>6, Zenon

\* Between calls the counters that MEM shows are right, after any history of
\* splits and merges.
THEOREM AccountsRight == Spec => []Accounting
BY Invariance, AlwaysCounted, AccountsHold, PTL

LEMMA TypesHold ==
  ASSUME IInv, Counted
  PROVE  TypeOK
<1>1. heap_used \in Nat
  <2>1. Total(Sizes, DOMAIN live) \in Nat /\ Debt \in Nat
    BY CountType
  <2> QED
    BY <2>1 DEF Counted
<1> QED
  BY <1>1 DEF IInv, Typed, TypeOK

\* The variables keep their types: in particular heap_used never falls below 0,
\* and every link is an address of the heap or null.
THEOREM TypeCorrect == Spec => []TypeOK
BY Invariance, AlwaysCounted, TypesHold, PTL
=============================================================================
