-------------------------------- MODULE Pic --------------------------------
(***************************************************************************)
(* The two cascaded 8259 interrupt controllers as pic.c programs them      *)
(* (kernel/src/arch/x86_64/pic.c), and what the code relies on in them:    *)
(* edges are latched per line, a line in service blocks itself and those   *)
(* of lower priority, and an EOI command ends the most urgent service of   *)
(* its controller.                                                         *)
(***************************************************************************)
EXTENDS Integers, FiniteSets

Master  == 0 .. 7
Slave   == 8 .. 15
Cascade == 2              \* the master's line that the slave is wired to

VARIABLES
  base,     \* the vector of line 0
  irr,      \* lines with a latched request
  isr,      \* lines in service
  imr       \* masked lines

pic == <<base, irr, isr, imr>>

\* Line i of either controller as the master sees it.
OnMaster(i) == IF i \in Slave THEN Cascade ELSE i

\* The request of line i reaches the CPU.
Requested(i) ==
  /\ i \in irr \ imr
  /\ i \in Slave => Cascade \notin imr
  /\ \A j \in isr \cap Master : OnMaster(i) < j
  /\ i \in Slave => \A j \in isr \cap Slave : i < j

MostUrgent(i) ==
  Requested(i) /\ \A j \in irr : Requested(j) =>
    OnMaster(i) < OnMaster(j) \/ (OnMaster(i) = OnMaster(j) /\ i <= j)

Vector(i) == base + i

\* An edge on some lines: one that is latched already is not counted.
Raise(lines) ==
  /\ irr' = irr \cup lines
  /\ UNCHANGED <<base, isr, imr>>

\* The CPU accepts line i.
Acknowledge(i) ==
  /\ irr' = irr \ {i}
  /\ isr' = isr \cup {i, OnMaster(i)}
  /\ UNCHANGED <<base, imr>>

\* Mutant: the vector offsets of the two controllers are swapped.
pic_remap_Swapped ==
  /\ base' = 40
  /\ irr' = {} /\ isr' = {}
  /\ imr' = Master \cup Slave

\* ICW1 forgets requests and services; the masks end all ones.
pic_remap ==
  /\ base' = 32
  /\ irr' = {}
  /\ isr' = {}
  /\ imr' = Master \cup Slave

\* One EOI command at a controller.
EndOfInterrupt(lines) ==
  /\ isr' = isr \ {i \in isr \cap lines : \A j \in isr \cap lines : i <= j}
  /\ UNCHANGED <<base, irr, imr>>

\* Mutant: the cascade line stays masked.
pic_enable_irq_NoCascade(i) ==
  /\ imr' = imr \ {i}
  /\ UNCHANGED <<base, irr, isr>>

pic_enable_irq(i) ==
  /\ imr' = imr \ {i, OnMaster(i)}
  /\ UNCHANGED <<base, irr, isr>>
=============================================================================
