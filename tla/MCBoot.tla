------------------------------- MODULE MCBoot -------------------------------
(***************************************************************************)
(* Machines for model checking Boot, with the page size of the code.  The  *)
(* higher-half direct map has the slot 0 of the PML4.                      *)
(***************************************************************************)
EXTENDS Boot

Usable(first, frames)   == [base |-> first * 4096, length |-> frames * 4096,
                            usable |-> TRUE]
Reserved(first, frames) == [base |-> first * 4096, length |-> frames * 4096,
                            usable |-> FALSE]

\* Ten usable frames are enough: one fewer, as many, one more; the bitmaps in
\* the middle, and frames for the heap on both sides of a hole; too few for the
\* bitmaps; none; and a frame so high that each bitmap takes two, once with too
\* few frames for that.
MemoryMaps == {
  <<Usable(0, 9)>>,
  <<Usable(0, 10)>>,
  <<Usable(2, 11)>>,
  <<Usable(0, 3), Reserved(3, 2), Usable(5, 4), Usable(9, 3)>>,
  <<Usable(0, 7), Reserved(7, 2), Usable(9, 5)>>,
  <<Reserved(0, 1), Usable(1, 5), Reserved(6, 1), Usable(7, 2)>>,
  <<Usable(1, 1), Reserved(2, 4)>>,
  <<Reserved(0, 8)>>,
  <<Usable(0, 12), Usable(32768, 1)>>,
  <<Usable(0, 9), Usable(32768, 1)>>
}

\* Tables in reserved frames from 100 on.  The entries that an image is put
\* together from: of the slot 510 of the kernel's PDPT and the slot 0 of its PD,
\* three of its PT, the slot 511 of the PDPT, and the direct map.
NoEntries == [i \in Index |-> Absent]
Image(pdpt510, pd0, directory, table, pdpt511, hhdm) ==
  100 :> [NoEntries EXCEPT ![511] = ToTable(101), ![0] = ToTable(104)]
  @@ 101 :> [NoEntries EXCEPT ![510] = pdpt510, ![511] = pdpt511]
  @@ 102 :> [NoEntries EXCEPT ![0] = pd0]
  @@ 103 :> (0 :> Page(200) @@ 510 :> directory @@ 511 :> table)
  @@ 104 :> [NoEntries EXCEPT ![0] = hhdm]
  @@ 105 :> [NoEntries EXCEPT ![0] = HugePage(0), ![511] = ToTable(106)]
  @@ 106 :> [NoEntries EXCEPT ![510] = Page(300)]

Plain == Image(ToTable(102), ToTable(103), Page(201), Page(202), Absent,
               ToTable(105))

Images ==
  {Image(kernel[1], kernel[2], kernel[3], kernel[4], slot, hhdm) :
     kernel \in {<<ToTable(102), ToTable(103), Page(201), Page(202)>>,
                 <<ToTable(102), ToTable(103), Absent, Page(202)>>,
                 <<ToTable(102), ToTable(103), Page(201), Absent>>,
                 <<ToTable(102), HugePage(200), Absent, Absent>>,
                 <<HugePage(200), Absent, Absent, Absent>>},
     slot \in {Absent, HugePage(300), ToTable(105)},
     hhdm \in {Absent, HugePage(0), ToTable(105)}}

Machine(ranges, image) ==
  [memmap |-> ranges, tables |-> image, revision |-> TRUE, hhdm |-> TRUE,
   map |-> TRUE, framebuffer |-> TRUE]

\* Every memory map, every image, and every missing answer.
MCMachines ==
  {Machine(m, Plain) : m \in MemoryMaps}
  \cup {Machine(<<Reserved(0, 8)>>, t) : t \in Images}
  \cup {[Machine(<<Usable(0, 10)>>, Plain) EXCEPT !.revision = FALSE],
        [Machine(<<Usable(0, 10)>>, Plain) EXCEPT !.hhdm = FALSE],
        [Machine(<<Usable(0, 10)>>, Plain) EXCEPT !.map = FALSE],
        [Machine(<<Usable(0, 10)>>, Plain) EXCEPT !.framebuffer = FALSE]}
=============================================================================
