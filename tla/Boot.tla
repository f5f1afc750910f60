-------------------------------- MODULE Boot --------------------------------
(***************************************************************************)
(* kmain of main.c from its first check to the user interface: the answers *)
(* of the boot loader, the walks over its page tables, the mapping of the  *)
(* local APIC in lapic.c one store at a time, and the self-tests of the    *)
(* frame allocator and the heap, as calls to Pmm and Heap.  No handler     *)
(* runs, except while kmain waits for ticks, which Interrupts covers.      *)
(***************************************************************************)
EXTENDS Paging, FiniteSets

CONSTANTS
  FrameSize, ByteBits, WordFrames,          \* of Pmm
  FrameWords, Hhdm, Frames, WordMod, Magic, \* of Heap
  LapicFrame,                               \* LAPIC_PHYSICAL_BASE
  Machines                                  \* what the kernel may be booted on

\* Where the kernel is linked (0xFFFFFFFF80000000), the pages of three of its
\* variables, and LAPIC_VIRTUAL_BASE.
KernelBase    == <<511, 510, 0, 0>>
Request       == <<511, 510, 0, 0>>      \* hhdm_request
DirectoryPage == <<511, 510, 0, 510>>    \* lapic_page_directory
TablePage     == <<511, 510, 0, 511>>    \* lapic_page_table
LapicPage     == <<511, 511, 0, 0>>

\* What the kernel takes for granted of the boot loader's tables: its pages have
\* frames of their own, which are no tables, and its PDPT has no other path to it.
Loader(t) ==
  LET directory == EntryAt(t, DirectoryPage)
      table     == EntryAt(t, TablePage)
      pdpt      == EntryAt(t, <<511>>)
  IN  /\ IsImage(t)
      /\ directory.present /\ table.present => directory.frame # table.frame
      /\ \A e \in {directory, table} : e.present => e.frame \notin Tables(t)
      /\ pdpt.present => /\ pdpt.frame \in DOMAIN t
                         /\ TablePaths(t, pdpt.frame) = {<<511>>}

ASSUME BootAssumption ==
  /\ {0, 510, 511} \subseteq Index /\ LapicFrame \in Nat
  /\ \A m \in Machines : Loader(m.tables)

VARIABLES
  machine,
  tables,        \* the page tables
  lint0,         \* "open" lets the interrupts of the PIC through
  at,            \* where kmain is
  local,         \* its local variables
  panic,
  \* pmm.c
  memmap, phase, entry, scan, frame_count, next_frame, reserved, bitmap_at,
  ownership_at, bitmap, ownership, holds,
  \* heap.c
  mem, heap_ready, heap_used, heap_frame_count, heap_free_list, pc, size,
  previous, current, target, wanted, blocks, live, heap_frames, clobbered

P == INSTANCE Pmm WITH
  MemoryMaps <- {m.memmap : m \in Machines},
  Callers    <- {"kmain", "heap"}

H == INSTANCE Heap WITH
  Requests <- {8, 13, 3900, 4048},
  pmm_free <- P!FreeFrames

\* The constants of both allocators, with the page size that the sizes of the
\* self-test are chosen for; and memory maps whose usable entries lie inside no
\* single frame and in memory that there is.
ASSUME MemoryAssumption ==
  /\ P!PmmAssumption /\ H!HeapAssumption /\ FrameWords = 512
  /\ \A m \in Machines : \A i \in DOMAIN m.memmap :
       m.memmap[i].usable =>
         /\ P!UsableBase(m.memmap[i]) <= P!UsableEnd(m.memmap[i])
         /\ P!EntryFrames(m.memmap[i]) \subseteq Frames

pmm   == <<memmap, phase, entry, scan, frame_count, next_frame, reserved,
           bitmap_at, ownership_at, bitmap, ownership, holds>>
calls == <<heap_ready, heap_used, heap_frame_count, heap_free_list, pc, size,
           previous, current, target, wanted, blocks, live, heap_frames,
           clobbered>>
heap  == <<mem, calls>>
kmain == <<machine, tables, lint0, at, local>>
vars  == <<kmain, panic, pmm, heap>>

Init ==
  /\ machine \in Machines
  /\ tables = machine.tables
  /\ lint0 \in {"masked", "open"}
  /\ at = "responses"
  /\ local = [test_frame |-> 0, free_before |-> 0, free_after_allocate |-> 0,
              frames |-> 0, result |-> 0, numbers |-> <<>>, used_before |-> 0,
              alignment_test |-> 0, frames_before |-> 0]
  /\ P!Init /\ memmap = machine.memmap
  /\ H!Init

-----------------------------------------------------------------------------
(* How kmain goes on                                                       *)

\* The next statement of kmain; a call into the heap has returned.
At(here) == panic = "" /\ pc = "idle" /\ at = here

Goto(there) == at' = there /\ UNCHANGED machine

Set(name, value) == local' = [local EXCEPT ![name] = value]

Fail(message) == panic' = message /\ UNCHANGED <<kmain, pmm, heap>>

\* A chain of checks, each of which panics: the first that fails, or Then.
Checked(error, Then) == IF error # "" THEN Fail(error) ELSE Then

-----------------------------------------------------------------------------
(* The boot loader's answers and its page tables                           *)

CheckResponses ==
  /\ At("responses")
  /\ Checked(CASE ~machine.revision -> "unsupported Limine base revision"
               [] machine.revision /\ ~machine.hhdm -> "HHDM not found"
               [] machine.revision /\ machine.hhdm /\ ~machine.map ->
                    "memory map not found"
               [] OTHER -> "",
             /\ Goto("translate")
             /\ UNCHANGED <<tables, lint0, local, panic, pmm, heap>>)

\* Mutant: the result of the translation is not looked at.
TranslateRequest_Unchecked ==
  /\ At("translate")
  /\ Goto("debug_walk")
  /\ UNCHANGED <<tables, lint0, local, panic, pmm, heap>>

TranslateRequest ==
  /\ At("translate")
  /\ Checked(IF paging_translate_4k(tables, Request) = NotMapped
             THEN "paging translation failed" ELSE "",
             /\ Goto("debug_walk")
             /\ UNCHANGED <<tables, lint0, local, panic, pmm, heap>>)

\* lapic_debug_pml4_511, _pdpt_510, _pd_0 and _pt_0: they look at no bit of the
\* entries they follow.
DebugFrames == ToSet(Walk(tables, KernelBase, 4))

DebugWalk ==
  /\ At("debug_walk")
  /\ Goto("lapic")
  /\ UNCHANGED <<tables, lint0, local, panic, pmm, heap>>

-----------------------------------------------------------------------------
(* lapic_enable_legacy_pic                                                 *)

\* Mutant: nobody asks whether the slot of the PDPT is in use.
LapicError_SlotUnchecked ==
  IF \/ paging_translate_4k(tables, DirectoryPage) = NotMapped
     \/ paging_translate_4k(tables, TablePage) = NotMapped
     \/ ~pml4_entry(tables, LapicPage).present
  THEN "LAPIC MMIO mapping failed" ELSE ""

LapicError ==
  IF \/ paging_translate_4k(tables, DirectoryPage) = NotMapped
     \/ paging_translate_4k(tables, TablePage) = NotMapped
     \/ ~pml4_entry(tables, LapicPage).present
     \/ pdpt_entry(tables, LapicPage).present
  THEN "LAPIC MMIO mapping failed" ELSE ""

page_directory_physical == paging_translate_4k(tables, DirectoryPage)
page_table_physical     == paging_translate_4k(tables, TablePage)

\* The checks, and the loop that clears both arrays.
lapic_enable_legacy_pic ==
  /\ At("lapic")
  /\ Checked(LapicError,
             /\ Goto("link_directory")
             /\ tables' = Cleared(tables, {page_directory_physical,
                                            page_table_physical})
             /\ UNCHANGED <<lint0, local, panic, pmm, heap>>)

\* One store into a table; the processor may walk the tables at any time.
Store(here, frame, i, e, there) ==
  /\ At(here) /\ Goto(there)
  /\ tables' = [tables EXCEPT ![frame][i] = e]
  /\ UNCHANGED <<lint0, local, panic, pmm, heap>>

LinkDirectory ==
  Store("link_directory", pml4_entry(tables, LapicPage).frame, 511,
        ToTable(page_directory_physical), "link_table")
LinkTable ==
  Store("link_table", page_directory_physical, 0,
        ToTable(page_table_physical), "link_page")
LinkPage ==
  Store("link_page", page_table_physical, 0, DevicePage(LapicFrame), "lint0")

\* Mutant: the mask bit stays as it is.
OpenLint0_Masked ==
  /\ At("lint0") /\ Goto("wait")
  /\ EntryAt(tables, LapicPage) = DevicePage(LapicFrame)
  /\ UNCHANGED <<tables, lint0, local, panic, pmm, heap>>

\* invlpg; then LINT0 becomes ExtINT, not masked, through the new page.
OpenLint0 ==
  /\ At("lint0")
  /\ Checked(IF EntryAt(tables, LapicPage) # DevicePage(LapicFrame)
             THEN "KBM_EXCEPTION: VECTOR 14" ELSE "",
             /\ Goto("wait")
             /\ lint0' = "open"
             /\ UNCHANGED <<tables, local, panic, pmm, heap>>)

\* 100 interrupts of the PIT, through the PIC and LINT0.
WaitForTicks ==
  /\ At("wait") /\ lint0 = "open"
  /\ Goto("pmm_init")
  /\ UNCHANGED <<tables, lint0, local, panic, pmm, heap>>

-----------------------------------------------------------------------------
(* The self-test of the frame allocator                                    *)

pmm_init ==
  /\ At("pmm_init")
  /\ \/ P!CallInit /\ UNCHANGED kmain
     \/ P!InitStep /\ UNCHANGED kmain
     \/ /\ phase = "ready"
        /\ Goto("allocate")
        /\ UNCHANGED <<tables, lint0, local, panic, pmm>>
  /\ UNCHANGED heap

pmm_get_free_frame_count == Cardinality(P!FreeFrames)

\* The frame that kmain is given by this step.
Given == CHOOSE f \in holds'["kmain"] : f \notin holds["kmain"]

\* pmm_allocate_frame, which panics or returns a frame.
Allocate(there, locals) ==
  /\ P!pmm_allocate_frame("kmain")
  /\ IF panic' # "" THEN UNCHANGED kmain
     ELSE /\ Goto(there) /\ local' = locals
          /\ UNCHANGED <<tables, lint0>>
  /\ UNCHANGED heap

Free(there, locals) ==
  /\ P!pmm_free_frame("kmain", local.test_frame, TRUE)
  /\ IF panic' # "" THEN UNCHANGED kmain
     ELSE /\ Goto(there) /\ local' = locals
          /\ UNCHANGED <<tables, lint0>>
  /\ UNCHANGED heap

TestAllocate ==
  /\ At("allocate")
  /\ Allocate("free", [local EXCEPT !.free_before = pmm_get_free_frame_count,
                                    !.test_frame = Given])

TestFree ==
  /\ At("free")
  /\ Free("counts",
          [local EXCEPT !.free_after_allocate = pmm_get_free_frame_count])

CheckCounts ==
  /\ At("counts")
  /\ Checked(CASE local.free_after_allocate # local.free_before - 1 ->
                    "KBM_PMM_ALLOCATE_COUNT_ERROR"
               [] local.free_after_allocate = local.free_before - 1
                    /\ pmm_get_free_frame_count # local.free_before ->
                    "KBM_PMM_FREE_COUNT_ERROR"
               [] OTHER -> "",
             /\ Goto("frames")
             /\ UNCHANGED <<tables, lint0, local, panic, pmm, heap>>)

\* Five frames that are logged and kept, and one that is written to.
KeepFrames ==
  /\ At("frames")
  /\ Allocate(IF local.frames < 5 THEN "frames" ELSE "write_frame",
              [local EXCEPT !.frames = @ + 1, !.test_frame = Given])

\* kmain writes words of memory through a pointer that it was given.
Write(here, contents, there) ==
  /\ At(here) /\ Goto(there)
  /\ mem' = [w \in DOMAIN mem |->
               IF w \in DOMAIN contents THEN contents[w] ELSE mem[w]]
  /\ UNCHANGED <<tables, lint0, local, panic, pmm, calls>>

WriteFrame ==
  Write("write_frame", [w \in {H!FrameStart(local.test_frame)} |-> 31], "recycle")

FreeAgain == At("recycle") /\ Free("reuse", local)

TestReuse ==
  /\ At("reuse")
  /\ Allocate("check_reuse", [local EXCEPT !.result = Given])

CheckReuse ==
  /\ At("check_reuse")
  /\ Checked(IF local.result # local.test_frame
             THEN "KBM_PMM_FREE_TEST_FAILED" ELSE "",
             /\ Goto("heap_init")
             /\ UNCHANGED <<tables, lint0, local, panic, pmm, heap>>)

-----------------------------------------------------------------------------
(* The self-test of the heap                                               *)

heap_init ==
  /\ At("heap_init") /\ Goto("first_num")
  /\ UNCHANGED <<tables, lint0, local, pmm>>
  /\ H!heap_init

\* kmain calls; what the call does is HeapStep.
Kmalloc(bytes, there, locals) ==
  /\ UNCHANGED pmm
  /\ H!kmalloc(bytes)
  /\ IF panic' # "" THEN UNCHANGED kmain
     ELSE /\ Goto(there) /\ local' = locals
          /\ UNCHANGED <<tables, lint0>>

\* A step inside kmalloc or kfree; a new frame comes from the PMM.
HeapStep ==
  /\ \/ pc = "grow" /\ P!pmm_allocate_frame("heap")
     \/ pc # "grow" /\ UNCHANGED pmm
  /\ H!CallStep
  /\ IF pc = "take" THEN Set("result", current + H!HeaderWords)
                    ELSE UNCHANGED local
  /\ UNCHANGED <<machine, tables, lint0, at>>

\* Three numbers of eight bytes.
Numbers ==
  \/ At("first_num")  /\ Kmalloc(8, "second_num", local)
  \/ At("second_num") /\ Kmalloc(8, "third_num",
                               [local EXCEPT !.numbers = <<local.result>>])
  \/ At("third_num")  /\ Kmalloc(8, "write_numbers",
                               [local EXCEPT !.numbers = @ \o <<local.result>>])

WriteNumbers ==
  Write("write_numbers",
        [w \in {local.numbers[1], local.numbers[2], local.result} |->
           IF w = local.numbers[1] THEN 31
           ELSE IF w = local.numbers[2] THEN 52 ELSE 69],
        "second_frame")

\* A request that needs a second frame.
SecondFrame ==
  /\ At("second_frame")
  /\ Kmalloc(4048, "write_byte",
             [local EXCEPT !.free_before = pmm_get_free_frame_count])

WriteByte == Write("write_byte", [w \in {local.result} |-> 178], "check_frame")

CheckFrame ==
  /\ At("check_frame")
  /\ Checked(CASE pmm_get_free_frame_count # local.free_before - 1 ->
                    "KBM_HEAP_NEW_FRAME_TEST_FAILED"
               [] pmm_get_free_frame_count = local.free_before - 1
                    /\ mem[local.result] # 178 ->
                    "KBM_HEAP_SECOND_FRAME_TEST_FAILED"
               [] OTHER -> "",
             Kmalloc(13, "alignment",
                     [local EXCEPT !.used_before = heap_used]))

\* Thirteen bytes take sixteen, or two words; then they are freed.
CheckAlignment ==
  /\ At("alignment")
  /\ Checked(CASE local.result % 2 # 0 -> "KBM_HEAP_ALIGNMENT_TEST_FAILED"
               [] local.result % 2 = 0
                    /\ heap_used # local.used_before + 2 ->
                    "KBM_HEAP_USAGE_TEST_FAILED"
               [] OTHER -> "",
             /\ UNCHANGED <<tables, lint0, pmm>>
             /\ H!kfree(local.result - H!HeaderWords)
             /\ Goto("check_free")
             /\ local' = [local EXCEPT !.alignment_test = local.result,
                                       !.used_before = heap_used,
                                       !.frames_before = heap_frame_count])

\* 3,900 bytes fit behind the numbers only if kfree has joined the free blocks.
CheckFree ==
  /\ At("check_free")
  /\ Checked(CASE heap_used # local.used_before - 2 ->
                    "KBM_HEAP_FREE_ACCOUNTING_TEST_FAILED"
               [] heap_used = local.used_before - 2
                    /\ heap_frame_count # local.frames_before ->
                    "KBM_HEAP_FREE_FRAME_COUNT_TEST_FAILED"
               [] OTHER -> "",
             Kmalloc(3900, "check_merge", local))

CheckMerge ==
  /\ At("check_merge")
  /\ Checked(CASE local.result # local.alignment_test ->
                    "KBM_HEAP_MERGE_REUSE_TEST_FAILED"
               [] local.result = local.alignment_test
                    /\ heap_frame_count # local.frames_before ->
                    "KBM_HEAP_MERGE_FRAME_COUNT_TEST_FAILED"
               [] OTHER -> "",
             /\ Goto("framebuffer")
             /\ UNCHANGED <<tables, lint0, local, panic, pmm, heap>>)

boot_get_framebuffer ==
  /\ At("framebuffer")
  /\ Checked(IF ~machine.framebuffer THEN "framebuffer not found" ELSE "",
             /\ Goto("ui")
             /\ UNCHANGED <<tables, lint0, local, panic, pmm, heap>>)

\* cpu_halt_forever, or on with the user interface.
Ended == (panic # "" \/ at = "ui") /\ UNCHANGED vars

Step ==
  \/ CheckResponses \/ TranslateRequest \/ DebugWalk
  \/ lapic_enable_legacy_pic \/ LinkDirectory \/ LinkTable \/ LinkPage
  \/ OpenLint0 \/ WaitForTicks
  \/ pmm_init \/ TestAllocate \/ TestFree \/ CheckCounts
  \/ KeepFrames \/ WriteFrame \/ FreeAgain \/ TestReuse \/ CheckReuse
  \/ heap_init \/ HeapStep \/ Numbers \/ WriteNumbers
  \/ SecondFrame \/ WriteByte \/ CheckFrame \/ CheckAlignment \/ CheckFree \/ CheckMerge
  \/ boot_get_framebuffer

Next == Step \/ Ended

\* The only processor executes kmain.
Spec == Init /\ [][Next]_vars /\ WF_vars(Step)

-----------------------------------------------------------------------------
(* Properties                                                              *)

\* On every image of the tables, those between two stores of lapic.c too, the
\* walkers of paging.c agree with the processor.
WalkersAgree == WalksRight(tables)

\* The debug walkers follow entries without looking at them; the translation
\* before them has made sure that each of these leads to a table.
WalksStayInTables == at = "debug_walk" => DebugFrames \subseteq Tables(tables)

\* No store of lapic.c unmaps or changes a page that is in use, even while the
\* new tables are linked, and the only page it adds is that of the local APIC.
MappingOnlyGrows ==
  [][/\ Leaves(tables) \subseteq Leaves(tables')
     /\ Leaves(tables') \subseteq
          Leaves(tables) \cup {<<LapicPage, DevicePage(LapicFrame)>>}]_tables

\* What a machine must offer, whatever the kernel computes: 4 KiB pages for
\* hhdm_request and the two arrays, a free slot, and usable RAM for two bitmaps,
\* six frames of the self-test and two of the heap.
Maps(page) == EntryAt(machine.tables, page).present
Required(message) ==
  CASE message = "unsupported Limine base revision" -> machine.revision
    [] message = "HHDM not found" -> machine.hhdm
    [] message = "memory map not found" -> machine.map
    [] message = "framebuffer not found" -> machine.framebuffer
    [] message = "paging translation failed" -> Maps(Request)
    [] message = "LAPIC MMIO mapping failed" ->
         /\ Maps(DirectoryPage) /\ Maps(TablePage)
         /\ ~EntryAt(machine.tables, SubSeq(LapicPage, 1, 2)).present
    [] message = "PMM bitmap does not fit in usable memory" ->
         \E e \in P!UsableEntries :
           Cardinality(P!EntryFrames(e)) >= 2 * P!bitmap_page_count
    [] message = "KBM_OUT_OF_MEMORY" ->
         Cardinality(P!UsableFrames) >= 2 * P!bitmap_page_count + 8
    [] OTHER -> TRUE

\* The kernel halts only on a machine that lacks what the message says: on all
\* others the walkers, the mapping, the allocator and the heap get it through
\* every self-test, which none of them was written to know about.
HaltsForCause == panic # "" => ~Required(panic)

\* kmain gets to its user interface or halts; the ticks that it waits for come
\* through LINT0, whatever state the firmware has left that in.
BootEnds == <>(at = "ui" \/ panic # "")
=============================================================================
