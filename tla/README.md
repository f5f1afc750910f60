# KBM in TLA+

This directory specifies and verifies the kernel of KBM, a small x86-64
operating system for one processor: its boot, its memory managers, its interrupt
handling, its input, its shell, and the three pieces of code that share the
screen. The TLC configurations check small instances of the specifications;
modules of proofs show, for every instance, the safety of the frame allocator, of
the heap, of the interrupt handling, of the input handlers and of the cursor on
the shared screen, and that the shell is a line editor. All paths below are
relative to `src/kernel/src`.

    tlc -workers 2 -config MCPmm.cfg MCPmm.tla
    tlapm PmmProofs.tla

## The system

The kernel is one program with one thread, `kmain` in `main.c`, and three
interrupt handlers. `kmain` sets up the CPU tables, the PIC and the PIT, waits
for some ticks with interrupts on, switches them off for the memory managers
and the self-tests, starts the console, the keyboard and the mouse, and then
redraws the header once a second for good. There is no scheduler and no user
program. Interrupt gates clear the interrupt flag, so handlers do not nest; the
main loop is interrupted between any two instructions unless it has done `cli`.

| component | state | operations | talks to |
|---|---|---|---|
| frame allocator, `kernel/pmm.c` | two bitmaps, bump pointer, frame count | `pmm_init`, `pmm_allocate_frame`, `pmm_free_frame` | Limine memory map, `panic` |
| heap, `kernel/heap.c` | free list in memory, two counters | `heap_init`, `kmalloc`, `kfree` | frame allocator, `panic` |
| IDT and entry code, `arch/x86_64/idt.c`, `interrupts.S` | gates | `idt_init`, entry and `iretq` | the handlers |
| PIC, `arch/x86_64/pic.c` | masks, requests, services (in hardware) | `pic_remap`, `pic_enable_irq`, `pic_send_eoi` | all handlers |
| timer, `kernel/timer.c`, `drivers/pit.c` | `ticks` | `timer_irq`, `timer_get_ticks` | main loop, shell |
| keyboard, `drivers/keyboard.c` | Shift | `keyboard_init`, `keyboard_irq` | port 0x60, shell |
| mouse, `drivers/mouse.c` | bytes of a packet, position, saved pixels | `mouse_init`, `mouse_irq`, `mouse_hide_cursor`, `mouse_show_cursor` | port 0x60, framebuffer |
| console, `drivers/console.c`, `framebuffer.c` | text position, pixels | write, backspace, scroll, clear, header | shell, main loop, mouse |
| shell, `kernel/shell.c` | command line of 64 codepoints | `shell_init`, `shell_handle_character` | console, both allocators, timer |
| paging and LAPIC, `arch/x86_64/paging.c`, `lapic.c` | page tables, LINT0 | two walkers, debug walkers, `lapic_enable_legacy_pic` | `kmain`, PCI scan |
| boot, `main.c` | local variables of `kmain` | checks of Limine's answers, self-tests | all of the above, `panic` |
| rest | - | GDT, PCI scan, serial log, memory functions, font, reboot | `kmain`, shell |

What makes each of them correct:

* frame allocator: a usable frame is free, owned by one caller, or part of a
  bitmap; the bitmaps fit; a panic is justified.
* heap: blocks tile the heap's frames, the list holds the free ones in address
  order, nothing writes into a client's block, wrong frees are caught.
* interrupts: no line is blocked for good, each vector has its gate, no byte
  stays in the PS/2 controller, boot ends, the header moves on with the seconds.
* screen: what the cursor puts back is what was there.
* paging: the walkers see what the processor sees; the LAPIC's page is added and
  nothing else changes, at no moment.
* boot: the kernel halts only on a machine that lacks something.
* mouse and keyboard: packets are the mouse's reports, and fall into step again
  after a lost byte; a key types what Shift says.
* shell: Enter runs the line that the screen shows, whatever lines there were
  before.

Hard to test are the orders of interrupts against the main loop and against the
polling in `mouse_init`; the sequences of allocations and frees; arithmetic at
its borders; bytes that the wrong handler reads; loops that wait for hardware; and
the wrapping and scrolling of a line that is being typed. `PROJECT.json` lists every such
hazard at its line.

## The modules

| module | what it is |
|---|---|
| `FrameOwnership` | abstract: exclusive ownership of frames |
| `Pmm` | `pmm.c`; implements `FrameOwnership` |
| `PmmProofs` | the inductive invariant of `Pmm` and seven theorems |
| `MemoryGrants` | abstract: exclusive contiguous extents that stay put |
| `Heap` | `heap.c` over the words of memory; implements `MemoryGrants` |
| `HeapLemmas` | alignment, rounding, merging, lists in memory, sums over finite sets |
| `HeapProofs` | the inductive invariant of `Heap` and nine theorems |
| `Pic`, `Ps2` | the two 8259s, and the 8042 with its devices, as the code uses them |
| `Interrupts` | `kmain` from `idt_init` on and the three handlers; composes `Pic` and `Ps2` |
| `InterruptsProofs` | the inductive invariant of `Interrupts` and four theorems |
| `Cursor` | main loop, mouse handler and console on one framebuffer |
| `CursorProofs` | the inductive invariant of `Cursor` and four theorems |
| `Paging` | page tables, the walkers, and the processor's own view of them |
| `Boot` | `kmain` up to the user interface; composes `Paging`, `Pmm` and `Heap` |
| `BootProofs` | the invariants of the page tables and of the self-tests in `Boot`, and seven theorems |
| `LineEditor` | abstract: keys make up a line, Enter runs what it names |
| `Shell` | `shell.c` and the console under it; implements `LineEditor` |
| `ShellProofs` | the step refinement of `LineEditor`, and what the screen shows |
| `Input` | bytes through the shared port, to characters and movements |
| `InputProofs` | two inductive invariants of `Input` and three theorems |
| `MCPmm`, `MCHeap`, `MCInterrupts`, `MCCursor`, `MCBoot`, `MCShell`, `MCInput` | instances for TLC |

Operators named `X_Something` after a definition `X` are plausible mistakes in
it. Substituted for `X`, each makes a property fail, as `PROJECT.json` says.

### Pmm

`pmm_init` is a chain of loops: `ScanEntry` and `SizeBitmaps` choose the biggest
range, `ReserveBitmapFrame` is the bump allocator, `ClearBitmaps`,
`FreeUsableEntry` and `ProtectBitmaps` build the bitmaps. Each iteration is a
step and `phase` is the loop that runs. `pmm_allocate_frame` and
`pmm_free_frame` are one step each with all of their checks in the code's order;
nothing can interrupt them, as the handlers call neither the heap nor the PMM
except to read counters. A bitmap is the set of frames whose bit is one. `holds`
is history: who was given what. A caller does not free what another one holds,
since the code cannot tell callers apart.

### Heap

Memory is an array of 8-byte words, and a header is four of them, so a header
that a merge swallows stays in memory, as in the kernel, and `kfree` may look at
it later. Each loop iteration of a call is a step; a call that has begun goes on
to its end, as no handler uses the heap. `Freeable` is the environment's part:
clients may free any aligned address in the heap's frames, right or wrong, as
long as no client has overwritten the words where the header would be. The words
a client writes matter only where an old header was, so `WritePayload` writes
nothing else. Frames the PMM hands out hold zeros here; a frame with old headers
of its own would let `kfree` accept an address that was never a block, and the
code does not claim otherwise.

### Interrupts

A step is what happens between two points at which a device can get in. `main`
is where `kmain` is, `handler` and `step` where the handler is. The self-tests,
`console_init` and `shell_init` are one step, `SelfTests`, with interrupts off.
Both loops that sleep, the wait for the first ticks and the main loop, have three
places: the test, before `hlt`, and inside it; an interrupt ends only the last.
`Pic` latches edges as QEMU's 8259 does; a line that is withdrawn before its
acknowledge, and so the spurious interrupt, does not occur. In `Ps2` there is
one output buffer; bytes wait in their device while it is full. What a handler
draws belongs to `Cursor`. The write of the command byte has no effect here,
because the code always sets both interrupt bits and clears both disable bits,
whatever it has read.

### Cursor

An image is a function from points to colors, and every drawing is a function on
images, applied to `screen` and to the history variable `picture`, which has no
cursor. A glyph is one pixel, set or, like the space, not. A keyboard interrupt
writes any number of characters or clears the screen; this covers every command
and every key.

### Paging and Boot

An address stands for its page and is the four indices that a walk uses. An
image of the tables gives each frame that holds a table its entries; what is in
any other frame means nothing as an entry. The two arrays of `lapic.c`, which it
clears before it links them (`lapic.c:77-80`), are therefore empty from the start,
and a loop that forgot to clear them would not show. `paging_translate_4k` and
`paging_is_mapped` are written as the code walks; `Leaves` and `Tables` are the
processor's view, by paths of indices, and `WalksRight` compares the two.
`EntryAt` follows a path entry by entry; `TablePaths` are the ways to a table.

`Boot` is the program of `kmain`, one action per statement or check that matters,
`at` the place where it is. Its frame allocator is an instance of `Pmm` and its
heap one of `Heap`; the frame that `kmalloc` takes comes from the same `Pmm` that
`kmain` calls, and every loop iteration of a call is a step as in those modules.
`lapic_enable_legacy_pic` stores into the tables one entry at a time, since the
processor walks them between the stores. If the page were not mapped when LINT0
is written, `kmain` would fault and halt; that is an outcome of `OpenLint0`. The
wait for ticks is one step here, possible if LINT0 lets them through;
`Interrupts` has the rest of it. `machine` is what the loader and the firmware
provide: the memory map, the tables, and which requests are answered.
`HaltsForCause` states what a machine must offer, both bitmaps and eight frames
more, without a word about how the kernel computes anything but the bitmaps'
length (`BitmapsFit` is about that), so every panic of `kmain`, `pmm.c` and
`heap.c` that a legal machine could reach would violate it.

### Shell and LineEditor

A key is one step of `Shell`, as nothing interrupts the keyboard's handler. The
buffer keeps what older lines have left behind the current length. On the screen
a pixel row of a column holds the character drawn there; because
`screen_draw_glyph` erases nothing, a glyph over another becomes a `Smudge`. The
rows that the height of a glyph does not divide stay in the model, as do the
prompt, the two newlines and the answers, shortened to a character and a newline.
The mouse's cursor is absent: `Cursor` shows what it does to the text. `answer`
and `faithful` are history; the latter is false once a backspace has found the
cursor at the start of a row, where the code leaves a character on the screen.
`LineEditor` has no buffer and no screen: a line, and the command that it means.

### Input

`Input` has the bytes themselves. The output buffer keeps its last value after it
is read, so a handler that runs for a latched interrupt without a byte reads
that value again; and one that runs for the wrong device takes its byte.
`Interrupts` shows how such interrupts come to be latched; here any may be latched
at first, and any keys may be down whose bytes `mouse_init` has discarded: the
flag says no Shift, and `shift_known` that this need not be right. `overlapped`, `shift_known` and `quiet` are history: they say after
which accidents nothing is promised, and until when. The prefix 0xE0 of extended
keys is an unknown code, as in the code; the fake Shift codes that some keyboards
send around them are ordinary Shift codes here.

## The runs

| run | bounds | what it shows |
|---|---|---|
| `pmm` | 11 memory maps of up to 11 frames, 2 callers, frames of 4 bytes, 2 bits a byte | all properties of `Pmm` |
| `heap` | 2 adjacent frames of 16 words, requests of 0, 13, 60 and 200 bytes | all properties of `Heap` |
| `heap_wrap` | 2^64 is 4096, a request of 4090 bytes | finding: the rounding wraps |
| `interrupts` | 2 ticks a second, a wait of 1 tick, 3 numbers for the seconds | all properties of `Interrupts` |
| `interrupts_ticks`, `_config`, `_shared` | the same | findings: lost edges, wrong command byte, stolen byte |
| `cursor` | 3 by 4 pixels, cursor of 2 by 2, 2 header rows, 2 seconds | all properties of `Cursor` |
| `cursor_typing` | the same | finding: typing under the cursor |
| `boot` | frames of 4096 bytes, 10 memory maps, 45 images of the page tables, 4 missing answers, LINT0 masked and open, indices 0, 510 and 511 | all properties of `Boot` and `Paging` |
| `shell` | 3 screens of 2 to 4 columns and 5 to 7 rows, glyphs of 2 rows, 3 characters, lines of 3 | all properties of `Shell` |
| `input` | 3 keys, 5 reports, 2 bytes left in the port, any interrupt latched | all properties of `Input` |

Why the bounds are enough. In `pmm` a page of bitmap describes eight frames, so
the maps have bitmaps of one page and of two, aligned and unaligned entries, a
biggest range that is first, last or tied, holes, reserved ranges, and maps that
must be refused. In `heap` a frame holds two small blocks or one big one, and two
adjacent frames hold up to four, so that blocks are split or just not split,
merged on either side, on both, and across the border of frames; new frames are
linked before and after others, since other users of the PMM take and return
frames. In `interrupts` a second has two ticks, so that the loop wakes with and
without something to draw. The tick counter never ends, but of a second the main
loop asks only whether it is one of the two that it keeps, `uptime` and
`displayed`; so `Tick` gives each new second a number that is neither, and three
numbers are enough for runs without end. A header that stops at any second then
differs from all later ones, and `HeaderMovesOn` sees it. In `cursor`
the cursor can be over the header, over the text, or over both. In `boot` the
self-tests run with their real sizes on maps with nine, ten and eleven usable
frames (ten are needed), with holes before, behind and between the frames that
they get; the tables lack each page or slot that is needed, or map a huge page
there, and the direct map is absent, huge, or made of small pages; the magic number is the
real one, and 2^64 is 2^30, beyond every size that occurs. In `shell` one screen is wide enough for the
prompt and a full line, two make a line wrap and scroll, and one has a row left
over; one command's name is the start of another's, and a line holds a name, a
space and a text. In `input` movement bytes do and do not look like the first
byte of a packet, like 0xFA and like a Shift code, and the signs are mixed.

Fairness. `pmm_init` and the heap's calls run on because nothing else executes
(weak fairness of their steps); `kmain` in `Boot` runs on for the same reason, and
waits for ticks as long as LINT0 is masked. In `Interrupts` a handler runs to its end, the
PIT ticks, and a reply to a command arrives. Strong fairness for the main loop
and for each interrupt line, and two conditions in `Fairness`, say that nothing
interrupts so fast that the rest starves: a poll of the buffer finds it empty at
last, because people type slower than a loop polls, and a handler of the timer
returns before the next edge again and again, because 10 ms are long beside it.
No claim is made about the kernel under an interrupt storm.

## What is proved

`PmmProofs` proves for every set of memory maps that satisfies `PmmAssumption`
(frames have a size, bytes have bits, and no entry comes within a frame of the
end of the 64-bit address space), and for every set of callers:

    Spec => []TypeOK               Spec => []FrameAccounting
    Spec => []NoSharing            Spec => []BitmapsFit
    Spec => []OutOfMemoryMeansFull Spec => Ownership!Spec
    Spec => []RefusalJustified

None of the properties is inductive. The invariant `IInv` says, phase by phase,
what `pmm_init` has established so far: that the scan's result belongs to an
entry seen so far and bounds all of them, that the reserved frames are the first
of the chosen range, which of the two bitmap addresses are known, that the main
bitmap has a zero exactly for the usable frames of the entries freed so far, and,
once ready, that the zeros, the owned frames and the metadata make up the usable
RAM. Each action is one step of the proof that `IInv` is kept, each theorem
follows from `IInv`, and the refinement maps each step of `Pmm` to a step of
`FrameOwnership` or a stutter. The wrapping subtraction is part of it: an entry
without a whole frame either loses the scan or makes the bump allocator panic,
so that even then no accounting goes wrong. But of an entry inside one frame the
length wraps to almost 2^64 (`kernel/pmm.c:43`), and the kernel may halt although
there is room; so the last theorem has a hypothesis, `NoneInsideFrame`, that the
rounded base of no usable entry is above its rounded end, which holds of the
page-aligned entries that Limine promises. `BiggestInv` says that the range that the
scan remembers is the longest so far, and `RefusalInv` what is true when `pmm_init`
has given up.

`CursorProofs` proves for every screen, cursor size, height of the header and
set of movements that satisfies `CursorAssumption` (a row of content below the
header and one more, a cursor of at most half the screen, as in `mouse_init`):

    Spec => []TypeOK               Spec => []CursorInside
    Spec => []HeaderIntact         Spec => PictureKept

`CursorInside` follows from where `Clamped` leaves the position. `HeaderIntact`
becomes inductive with `Exclusion`: interrupts are off exactly while somebody
draws, and the cursor is hidden while the main loop draws the header. The console
draws below the header, or, when it clears, the header of the same second once
more, so that what it does to the picture under the cursor, finding 5, stops at
the header.

`InputProofs` proves for every set of keys, of reports and of bytes left in the
port that satisfies `InputAssumption` (the bytes are bytes, and the first one of a
report has bit 3 set):

    Spec => []InStep    Spec => MovesAsReported    Spec => TypedAsHeld

`MouseInv` says which lengths the packet may have at each place of the report: any
after an accident; after a whole quiet report not the one that would make a
movement byte the first, which leaves two; after a second one only the right one.
In step, the bytes of the packet are those of the report, and `SignedAgrees` shows
that `(int8_t)` and the sign bit of the first byte give the same number wherever
eight bits can express it. `ShiftInv` ties the flag to the keys: a Shift byte in
the port is still true of the keys, and when none is there the flag is, unless a
byte went astray or the two keys overlap.

`HeapProofs` proves, with `HeapLemmas`, for every size of a frame, every finite set
of frames and every set of requests that satisfies `HeapAssumption` (frames and
their addresses are aligned and hold more than a header, 2^64 is a multiple of
16, and the magic number is no address in the heap):

    Spec => []TypeOK           Spec => []Tiling         Spec => []FreeListComplete
    Spec => []Coalesced        Spec => []Accounting     Spec => []HeadersHonest
    Spec => PayloadUntouched   Spec => []PayloadFits    Spec => Grants!Spec

The last two hold where `NoWrap` does, that no request is within 16 bytes of
2^64, which is exactly where finding 1 begins. `IInv` holds between the steps of a
call, too, when a block is in hand that is in no list. Its parts are these: the
blocks and the one in hand tile the frames (`Layout`); the clients' blocks are the
allocated ones (`Claims`); the links pass every listed block once in address order
(`Chain`, stated by the next listed block above each, so that no proof follows the
list); the loop is at two neighbours of that list (`Position`); free neighbours
touch at the edge of a frame only (`Separated`); memory outside the heap is zero
(`Fresh`); and what looks like an allocated header is one, or has been overwritten
by its client (`Honest`). That last part is what lets `kfree` trust the word before
a pointer: a magic number that a merge has swallowed stands beside a flag that says
free. The counters are sums over sets of blocks. Induction is out of reach of the
prover here, and a least counterexample takes its place: `SumUnique` and `SumExists` take
a smallest set for which the sum is wrong and remove an element from it.

`InterruptsProofs` proves for every wait and every rate of the ticks that satisfies
`InterruptsAssumption` (three numbers for the seconds after the wait):

    Spec => []TypeOK               Spec => []NothingLeftInService
    Spec => []EveryVectorHasGate   Spec => []ByteIsAnnounced

The invariant says at which places of `kmain` interrupts are on and handlers run
(`FlagRight`), which steps each handler has, which tables are final where
(`TablesRight`), how many replies can still be owed (`RepliesBounded`), and that
from the end of `mouse_discard_pending_data` on, not only in the main loop, a byte
in the buffer has raised its line (`Announced`).

`ShellProofs` proves for every screen, alphabet and set of commands that satisfies
`ShellAssumption` (names can be typed and differ, none begins with ECHO and a space,
and every text that the kernel writes has glyphs):

    Spec => Editor!Spec    Spec => []Readable    Spec => []LineShown

For the first the invariant is the type of the buffer; what needs a proof is that
the comparisons of `shell.c`, slot by slot in a buffer with old contents, decide as
equality and prefix on the line do (`MeaningIs`), also where the slot behind the
name is not looked at. For the other two it is `ScreenInv`: the cursor is on a row
of the screen and everything from it on is blank (`ConsoleOK`); if cells are counted
on from row to row, the line is in the last cells before the cursor (`LineInv`); and
on a screen with one row for prompt and line nothing else is ever in that row
(`RowInv`). `NewLine`, `Draw`, `Write` and `Erase` say what each call of `console.c`
does to that picture: a scroll moves the cells and the cursor back by one row, so
the places relative to the cursor stay. A text is folded over the console;
`FoldExists` and `Steps` take the fold apart, with `UpTo` for the induction.

`BootProofs` proves for every set of machines that satisfies `BootAssumption`, and
for the last two `MemoryAssumption`:

    Spec => []WalkersAgree    Spec => []WalksStayInTables    Spec => MappingOnlyGrows
    Spec => [](at = "lint0" => EntryAt(tables, LapicPage) = DevicePage(LapicFrame))
    Spec => [](panic \in LoaderPanics => ~Required(panic))
    Spec => [](panic = "" => P!FrameAccounting /\ P!NoSharing)
    Spec => []HaltsForCause

`BootAssumption` says of the boot loader's tables what `lapic.c` relies on and does
not check: they are images the architecture allows (no large page in the PML4),
the pages of the two arrays, if mapped, have two different frames that are no
tables, and a PDPT behind entry 511 of the PML4 has no other path to it, for
otherwise a store into its slot would show at a second address. A path has at most four indices, and the proofs go down
it by one lemma, `Further`, that adds an index. `Graft` is the heart: a store into
a free slot of a table to which there is one path changes what lies behind the
paths through that slot and nothing else. From it follow what a link to a cleared
table does (`LinkSpare`), what a page does (`StorePage`) and that clearing a frame
that is no table does nothing (`ClearSpare`). `TablesInv` says which of this holds
before which store: the table written to is the only one of its path, its slot is
free, and the arrays that are not linked yet are cleared and nobody's. For the
first theorem it is enough that the tables stay an image, and the second needs
that `kmain` has translated the same address before; the next two follow store by
store. The fifth is `HaltsForCause` for the seven messages about the
boot loader's answers and tables, from the invariant `Caused` and the fact that
the allocators halt with messages of their own (`PmmPanics`, `HeapPanics`).

`MemoryAssumption` joins the assumptions of `Pmm` and `Heap`, fixes the size of a
frame, since the sizes in the self-test are chosen for 4 KiB, and says that the
usable entries of a memory map lie inside no single frame (they are page-aligned)
and in memory that there is; it does not say how much. `Sound` is the invariant of
the boot: a kernel that runs is in `Good` order, one that has halted has a `Cause`.
`Good` takes over the invariants of `pmm.c` from an instance of `PmmProofs`, each
call from `kmain` or the heap being a step of that specification (`SameSteps`), and
adds two parts. `FramesInv` follows the frames: how many are out at each place of
`kmain`, that the frame it has kept is below every free one, and that the counts it
has read differ by what was taken and returned since. So a frame that is freed is
the next to go out, and when none is free at most seven are out and the bitmaps
take the rest: the machine has too little (`TakesFrame`). `RefusedForCause` says
the same of `pmm_init` with the longest range. `HeapInv` follows the memory, word
by word: at each of the eight stages the free list is one block at a known place of
the first frame, or two while a second frame is in it, and `Stage` says where the
running call is with it. The new frame is behind the old one in memory, because the
lowest free frame goes out first; so the list's order, the split, the block that is
taken whole, and the joining of what was freed come out as the self-tests want
them. `Served`, `Splits`, `Found` and `Grows` are the steps of `kmalloc` that
several stages need. The invariant was a TLC invariant of the run `boot` before it
was proved.

Only model-checked: the liveness properties, `InitFinishes`, `BootEnds` and the
others of that kind, and whatever depends on fairness, which the prover does not
handle.

## Findings

1. `kernel/heap.c:43`: a request of 2^64 - 15 bytes or more is granted.
2. `kernel/timer.c:9`: ticks are lost while interrupts are off for long; the
   uptime falls behind.
3. `drivers/mouse.c:126`: a key pressed at the wrong moment during boot is taken
   for the controller's command byte.
4. `drivers/keyboard.c:129`: a reply that was polled leaves its interrupt
   latched, and the keyboard's handler may take a byte of the mouse.
5. `kernel/shell.c:152`: the console draws without hiding the cursor.

What the properties leave open, since the code promises nothing there: a movement
beyond eight bits comes out with the wrong sign; with both Shift keys down the
release of one ends the shift; a backspace at the start of a wrapped row leaves
the character on the screen.

## Not modelled

Left out: the GDT, the encoding of gates and segment descriptors, the PCI scan,
the serial port and the font, which are constants or pure output; the exception
handlers, which halt; the decoding of UTF-8 and the digits of numbers, straight
conversions without state; `memory.c`, loops over bytes that a test covers and
nothing interleaves with; what follows the reset of `reboot`.
