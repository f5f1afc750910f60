------------------------------- MODULE Paging -------------------------------
(***************************************************************************)
(* The page tables that CR3 leads to, as arch/x86_64/paging.c walks them   *)
(* and arch/x86_64/lapic.c extends them.  An address stands for its page:  *)
(* it is the four indices that select the entries of a walk, the one into  *)
(* the PML4 first.  An image t of the tables gives each frame that holds a *)
(* table its entries.                                                      *)
(***************************************************************************)
EXTENDS Integers, SequencesExt

CONSTANTS
  Index,        \* the indices into a table (0 .. 511)
  Cr3           \* the frame of the PML4

Addresses == Index \X Index \X Index \X Index
NotMapped == -1

\* An entry points to a table, or maps a page: 4 KiB at the last level, more if
\* PAGE_HUGE is set in the PDPT or the PD.
Entry(present, huge, device, frame) ==
  [present |-> present, huge |-> huge, device |-> device, frame |-> frame]
Absent          == Entry(FALSE, FALSE, FALSE, 0)
ToTable(frame)  == Entry(TRUE, FALSE, FALSE, frame)
Page(frame)     == Entry(TRUE, FALSE, FALSE, frame)
HugePage(frame) == Entry(TRUE, TRUE, FALSE, frame)

\* PAGE_WRITE_THROUGH and PAGE_CACHE_DISABLE are set.
DevicePage(frame) == Entry(TRUE, FALSE, TRUE, frame)

\* The images that the architecture allows: CR3 leads to a table, and an entry of
\* the PML4 maps no page.
Entries == [present : BOOLEAN, huge : BOOLEAN, device : BOOLEAN, frame : Nat]
IsImage(t) ==
  /\ t \in [DOMAIN t -> [Index -> Entries]]
  /\ Cr3 \in DOMAIN t /\ \A i \in Index : ~t[Cr3][i].huge

\* What is in a frame that holds no table means nothing as an entry.
Read(t, frame, i) == IF frame \in DOMAIN t THEN t[frame][i] ELSE Absent

\* The frames gs after a loop that writes zeros.
Cleared(t, gs) ==
  [f \in DOMAIN t \cup gs |-> IF f \in gs THEN [i \in Index |-> Absent] ELSE t[f]]

pml4_entry(t, a) == Read(t, Cr3, a[1])
pdpt_entry(t, a) == Read(t, pml4_entry(t, a).frame, a[2])
pd_entry(t, a)   == Read(t, pdpt_entry(t, a).frame, a[3])
pt_entry(t, a)   == Read(t, pd_entry(t, a).frame, a[4])

\* Mutant: a huge page is taken for a table.
paging_translate_4k_Huge(t, a) ==
  IF /\ pml4_entry(t, a).present
     /\ pdpt_entry(t, a).present /\ ~pdpt_entry(t, a).huge
     /\ pd_entry(t, a).present
  THEN pd_entry(t, a).frame
  ELSE NotMapped

\* The frame of a 4 KiB page.
paging_translate_4k(t, a) ==
  IF /\ pml4_entry(t, a).present
     /\ pdpt_entry(t, a).present /\ ~pdpt_entry(t, a).huge
     /\ pd_entry(t, a).present /\ ~pd_entry(t, a).huge
     /\ pt_entry(t, a).present
  THEN pt_entry(t, a).frame
  ELSE NotMapped

paging_is_mapped(t, a) ==
  /\ pml4_entry(t, a).present
  /\ pdpt_entry(t, a).present
  /\ \/ pdpt_entry(t, a).huge
     \/ /\ pd_entry(t, a).present
        /\ \/ pd_entry(t, a).huge
           \/ pt_entry(t, a).present

\* The frames that a walk to address a reads as tables, down to a level.
Walk(t, a, level) ==
  SubSeq(<<Cr3, pml4_entry(t, a).frame, pdpt_entry(t, a).frame,
           pd_entry(t, a).frame>>, 1, level)

-----------------------------------------------------------------------------
(* The processor's own view: an entry is reached by the path of indices to *)
(* it, and it is a leaf if it is present in a table and leads to none.     *)
(* The empty path leads to the PML4.                                       *)

Paths == UNION {[1 .. n -> Index] : n \in 1 .. 4}

\* The next entry of a path: present entries lead on if they are no huge pages.
Below(t, e, i) == IF e.present /\ ~e.huge THEN Read(t, e.frame, i) ELSE Absent

EntryAt(t, path) ==
  LET below[n \in 0 .. Len(path)] ==
        IF n = 0 THEN ToTable(Cr3) ELSE Below(t, below[n - 1], path[n])
  IN  below[Len(path)]

\* Every page that is mapped: where, and to which frame.
Leaves(t) ==
  {<<path, EntryAt(t, path)>> : path \in
     {p \in Paths : /\ EntryAt(t, p).present
                    /\ Len(p) = 4 \/ EntryAt(t, p).huge}}

\* The paths on which the processor comes to a frame to read it as a table.
TablePaths(t, frame) ==
  {p \in Paths \cup {<<>>} : /\ Len(p) < 4
                            /\ EntryAt(t, p).present /\ ~EntryAt(t, p).huge
                            /\ EntryAt(t, p).frame = frame}

\* The frames that it reads as tables.
Tables(t) ==
  {EntryAt(t, p).frame : p \in {q \in Paths \cup {<<>>} :
                                  /\ Len(q) < 4
                                  /\ EntryAt(t, q).present
                                  /\ ~EntryAt(t, q).huge}}

\* Both walkers see what the processor sees: a 4 KiB translation is a leaf at
\* the last level with that frame, and an address is mapped if and only if some
\* leaf, of whatever size, covers it.
WalksRight(t) ==
  LET leaves == Leaves(t) IN
  \A a \in Addresses :
    /\ paging_translate_4k(t, a)
         = IF \E l \in leaves : l[1] = a
           THEN (CHOOSE l \in leaves : l[1] = a)[2].frame
           ELSE NotMapped
    /\ paging_is_mapped(t, a) <=> \E l \in leaves : IsPrefix(l[1], a)
=============================================================================
