--------------------------- MODULE FrameOwnership ---------------------------
(***************************************************************************)
(* What a physical frame allocator promises its callers, whatever its      *)
(* bookkeeping looks like: it opens with some of the machine's usable RAM, *)
(* hands each free frame to one caller at a time, takes it back only from  *)
(* that caller, and may stop for good.  Pmm implements this module.        *)
(***************************************************************************)
EXTENDS Naturals

CONSTANT Callers            \* the parts of the kernel that may hold frames

VARIABLES
  ram,                      \* the usable frames of the machine, fixed at boot
  free,                     \* the frames the allocator may hand out
  holds,                    \* caller -> the frames it was given and still has
  status                    \* "closed", "open" or "halted"

vars == <<ram, free, holds, status>>

Init ==
  /\ ram \in SUBSET Nat
  /\ free = {}
  /\ holds = [c \in Callers |-> {}]
  /\ status = "closed"

\* Some of the RAM may be kept back, for the allocator's own tables.
Open ==
  /\ status = "closed"
  /\ status' = "open"
  /\ free' \in SUBSET ram
  /\ UNCHANGED <<ram, holds>>

Allocate(c) ==
  /\ status = "open"
  /\ \E f \in free :
       /\ free' = free \ {f}
       /\ holds' = [holds EXCEPT ![c] = @ \cup {f}]
  /\ UNCHANGED <<ram, status>>

Release(c) ==
  /\ status = "open"
  /\ \E f \in holds[c] :
       /\ free' = free \cup {f}
       /\ holds' = [holds EXCEPT ![c] = @ \ {f}]
  /\ UNCHANGED <<ram, status>>

Halt ==
  /\ status # "halted"
  /\ status' = "halted"
  /\ UNCHANGED <<ram, free, holds>>

Next ==
  \/ Open
  \/ \E c \in Callers : Allocate(c) \/ Release(c)
  \/ Halt

Spec == Init /\ [][Next]_vars
=============================================================================
