------------------------------- MODULE MCPmm -------------------------------
(***************************************************************************)
(* Memory maps for model checking Pmm with frames of 4 bytes and 2 bits in *)
(* a byte, so that a page of bitmap describes 8 frames.                    *)
(***************************************************************************)
EXTENDS Pmm

Usable(base, length)   == [base |-> base, length |-> length, usable |-> TRUE]
Reserved(base, length) == [base |-> base, length |-> length, usable |-> FALSE]

\* Entries of at least one whole frame each, some of them unaligned: one or two
\* pages per bitmap, the biggest range first, last or tied, a hole below the
\* highest frame, reserved RAM between usable ranges, and maps that cannot hold
\* the bitmaps or have no usable RAM.
WholeFrameMaps == {
  <<Usable(0, 24)>>,
  <<Usable(1, 9), Reserved(10, 6), Usable(17, 18)>>,
  <<Usable(0, 16), Reserved(16, 8), Usable(24, 15)>>,
  <<Reserved(0, 8), Usable(9, 25), Usable(36, 4)>>,
  <<Usable(2, 7), Usable(12, 23), Reserved(40, 4)>>,
  <<Usable(4, 11), Usable(30, 12)>>,
  <<Usable(0, 12), Usable(20, 20)>>,
  <<Usable(0, 16), Usable(32, 20)>>,
  <<Usable(4, 8), Reserved(12, 4), Usable(35, 10)>>,
  <<Reserved(0, 24), Usable(28, 6)>>,
  <<Reserved(0, 24)>>
}
=============================================================================
