---------------------------- MODULE MemoryGrants ----------------------------
(***************************************************************************)
(* What a memory allocator promises its clients: a grant is a contiguous   *)
(* extent of the arena that nobody else has, it keeps its place and size   *)
(* until its client gives it up, and the arena only grows.  Heap           *)
(* implements this module.                                                 *)
(***************************************************************************)
EXTENDS Integers

VARIABLES
  arena,                    \* the addresses the allocator works with
  grants,                   \* address handed out -> the addresses granted
  halted

vars == <<arena, grants, halted>>

Init ==
  /\ arena = {}
  /\ grants = <<>>
  /\ halted = FALSE

Grow ==
  /\ ~halted
  /\ arena \subseteq arena' /\ arena # arena'
  /\ UNCHANGED <<grants, halted>>

Grant ==
  /\ ~halted
  /\ \E p \in DOMAIN grants' \ DOMAIN grants :
       /\ DOMAIN grants' = DOMAIN grants \cup {p}
       /\ \E last \in grants'[p] : grants'[p] = p .. last
       /\ grants'[p] \subseteq arena
       /\ \A q \in DOMAIN grants :
            grants'[q] = grants[q] /\ grants'[p] \cap grants[q] = {}
  /\ UNCHANGED <<arena, halted>>

Revoke ==
  /\ ~halted
  /\ \E p \in DOMAIN grants :
       grants' = [q \in DOMAIN grants \ {p} |-> grants[q]]
  /\ UNCHANGED <<arena, halted>>

Halt ==
  /\ ~halted
  /\ halted' = TRUE
  /\ UNCHANGED <<arena, grants>>

Next == Grow \/ Grant \/ Revoke \/ Halt

Spec == Init /\ [][Next]_vars
=============================================================================
