--------------------------- MODULE InterruptsProofs ---------------------------
(***************************************************************************)
(* The safety of Interrupts for every wait and every rate of the ticks:    *)
(* the types, the end of every service, a gate for every interrupt that    *)
(* can come, and the interrupt of every byte in the output buffer.         *)
(***************************************************************************)
EXTENDS Interrupts, TLAPS

\* Where interrupts are on, before and in the main loop.
Open == {"wait", "wait_hlt", "wait_asleep", "cli", "read_uptime", "cli_update",
         "hlt", "asleep"}

\* The commands that kmain has sent so far at each place: as many replies at
\* most can be owed.
Commands(here) ==
  CASE here \in {"read_config", "write_config", "set_defaults"} -> 1
    [] here \in {"defaults_reply", "enable_reporting"} -> 2
    [] here \in {"reporting_reply", "enable_mouse", "sti_main", "read_uptime",
                 "cli_update", "update", "sti_update", "hlt", "asleep"} -> 3
    [] OTHER -> 0

RepliesBounded == Len(owed) <= Commands(main)

\* The flag is set exactly at the open places outside the handlers, and handlers
\* run only there.
FlagRight ==
  /\ cpu_if <=> handler = NoIrq /\ main \in Open
  /\ handler # NoIrq => main \in Open

\* Where each handler may be.
StepRight ==
  /\ handler = NoIrq <=> step = "none"
  /\ step = "log" => handler \in {Keyboard, Mouse}
  /\ step = "eoi_slave" => handler = Mouse

\* The gates are those of the three lines from idt_init on, the vectors are
\* remapped from pic_remap on.
TablesRight ==
  /\ main # "idt_init" => gates = {0, 6, 13, 14, 32, 33, 44}
  /\ main \notin {"idt_init", "pic_remap"} => base = 32

\* From the end of mouse_discard_pending_data on, a byte in the buffer has
\* raised its line, and nothing but its own handler's entry takes that back.
Announced ==
  main \in mains \ {"idt_init", "pic_remap", "enable_timer", "sti", "wait",
                    "wait_hlt", "wait_asleep", "cli", "self_tests", "keyboard_init", "discard"}
    /\ output # "none" =>
       \/ LineOf(output) \in irr
       \/ Running(LineOf(output), "body")

IInv ==
  /\ TypeOK /\ RepliesBounded /\ FlagRight /\ StepRight /\ TablesRight
  /\ NothingLeftInService /\ Announced

-----------------------------------------------------------------------------
(* kmain                                                                   *)

LEMMA MainKeeps ==
  ASSUME IInv, MainStep
  PROVE  IInv'
<1> USE DEF IInv, TypeOK, RepliesBounded, Commands, FlagRight, StepRight,
            TablesRight, NothingLeftInService, Announced, Running, At, Goto,
            mains, Open, Bytes, Lines, pic, ps2, cpu, data, NoIrq
<1>1. CASE idt_init
  BY <1>1 DEF idt_init
<1>2. CASE RemapPic
  BY <1>2 DEF RemapPic, pic_remap
<1>3. CASE EnableTimer
  BY <1>3 DEF EnableTimer, pic_enable_irq
<1>4. CASE Sti("sti", "wait")
  BY <1>4 DEF Sti
<1>5. CASE WaitForTicks
  BY <1>5 DEF WaitForTicks
<1>6. CASE Hlt("wait_hlt", "wait_asleep")
  BY <1>6 DEF Hlt
<1>7. CASE CliAfterWait
  <2>1. ~cpu_if' /\ cpu_if' \in BOOLEAN /\ main' \notin Open
    BY <1>7 DEF CliAfterWait
  <2> QED
    BY <1>7, <2>1 DEF CliAfterWait
<1>8. CASE SelfTests
  BY <1>8 DEF SelfTests
<1>9. CASE keyboard_init
  BY <1>9 DEF keyboard_init, pic_enable_irq
<1>10. CASE DiscardPending
  <2>1. /\ main = "discard" /\ main' \in {"discard", "ask_config"}
        /\ handler = NoIrq /\ output' \in {output, "none"}
        /\ UNCHANGED <<handler, step, gates, cpu_if, pic, owed, reporting, data>>
    BY <1>10 DEF DiscardPending, ReadData
  <2>2. main' = "ask_config" => output' = "none"
    BY <1>10 DEF DiscardPending
  <2> QED
    BY <2>1, <2>2
<1>11. CASE AskConfig
  BY <1>11 DEF AskConfig, Command
<1>12. CASE ReadConfig
  BY <1>12 DEF ReadConfig, ReadData
<1>13. CASE WriteConfig
  BY <1>13 DEF WriteConfig
<1>14. CASE SendCommand("set_defaults", "defaults_reply")
  BY <1>14 DEF SendCommand
<1>15. CASE ReadReply("defaults_reply", "enable_reporting")
  BY <1>15 DEF ReadReply, ReadData
<1>16. CASE SendCommand("enable_reporting", "reporting_reply")
  BY <1>16 DEF SendCommand
<1>17. CASE ReadReply("reporting_reply", "enable_mouse")
  BY <1>17 DEF ReadReply, ReadData
<1>18. CASE EnableMouse
  BY <1>18 DEF EnableMouse, pic_enable_irq
<1>19. CASE Sti("sti_main", "read_uptime")
  BY <1>19 DEF Sti
<1>20. CASE ReadUptime
  <2>1. uptime' \in Nat
    <3>1. \A t \in Nat, d \in Nat \ {0} : t \div d \in Nat
      OBVIOUS
    <3>2. ticks \in Nat /\ uptime' = ticks \div TicksPerSecond
      BY <1>20, InterruptsAssumption DEF ReadUptime
    <3> QED
      BY <3>1, <3>2, InterruptsAssumption
  <2>2. UNCHANGED <<gates, cpu_if, pic, ps2, ticks, displayed, command_byte, lost,
                    handler, step>>
    BY <1>20 DEF ReadUptime
  <2>3. main = "read_uptime" /\ main' \in {"cli_update", "hlt"}
    BY <1>20 DEF ReadUptime
  <2> QED
    BY <2>1, <2>2, <2>3
<1>21. CASE CliUpdate
  <2>1. ~cpu_if' /\ cpu_if' \in BOOLEAN /\ main' \notin Open
    BY <1>21 DEF CliUpdate
  <2> QED
    BY <1>21, <2>1 DEF CliUpdate
<1>22. CASE UpdateHeader
  BY <1>22 DEF UpdateHeader
<1>23. CASE Sti("sti_update", "hlt")
  BY <1>23 DEF Sti
<1>24. CASE Hlt("hlt", "asleep")
  BY <1>24 DEF Hlt
<1> QED
  BY <1>1, <1>2, <1>3, <1>4, <1>5, <1>6, <1>7, <1>8, <1>9, <1>10, <1>11, <1>12, <1>13,
     <1>14, <1>15, <1>16, <1>17, <1>18, <1>19, <1>20, <1>21, <1>22, <1>23, <1>24
     DEF MainStep

-----------------------------------------------------------------------------
(* Interrupts and devices                                                  *)

\* A new second has a number, as no two numbers are all of Seconds.
LEMMA TickType ==
  ASSUME NEW t \in Nat
  PROVE  Tick(t) \in Nat
<1> DEFINE new == CHOOSE s \in Seconds : s \notin {uptime, displayed}
<1>1. \E s \in Seconds : s \notin {uptime, displayed}
  BY InterruptsAssumption
<1>2. new \in Nat
  BY <1>1, InterruptsAssumption
<1>3. TicksPerSecond * new \in Nat
  BY <1>2, InterruptsAssumption
<1> QED
  BY <1>3 DEF Tick

LEMMA DeliverKeeps ==
  ASSUME IInv, NEW i \in Lines, Deliver(i)
  PROVE  IInv'
<1> USE DEF IInv, TypeOK, RepliesBounded, Commands, FlagRight, StepRight,
            TablesRight, NothingLeftInService, Announced, Running,
            mains, Open, Bytes, Lines, pic, ps2, cpu, data, NoIrq
<1>1. main' \in Open /\ Commands(main') = Commands(main)
  BY DEF Deliver
<1>2. isr' = {i, OnMaster(i)} /\ irr' = irr \ {i} /\ UNCHANGED <<base, imr>>
  BY DEF Deliver, Acknowledge
<1>3. /\ handler' = i /\ step' = "body" /\ ~cpu_if' /\ cpu_if' \in BOOLEAN
      /\ UNCHANGED <<gates, ps2, data>>
  BY DEF Deliver
<1>4. OnMaster(i) \in Lines \cup {Cascade}
  BY DEF OnMaster, Slave, Timer, Keyboard, Mouse, Cascade
<1>5. TypeOK'
  BY <1>1, <1>2, <1>3, <1>4
<1>6. NothingLeftInService'
  BY <1>2, <1>3 DEF Timer, Keyboard, Mouse, OnMaster
<1>7. RepliesBounded' /\ FlagRight' /\ StepRight' /\ TablesRight'
  <2>1. i # NoIrq /\ handler = NoIrq /\ main \in Open
    BY DEF Deliver, Timer, Keyboard, Mouse
  <2>2. RepliesBounded'
    BY <1>1, <1>3
  <2>3. FlagRight' /\ StepRight'
    BY <1>1, <1>3, <2>1
  <2>4. TablesRight'
    BY <1>1, <1>2, <1>3, <2>1
  <2> QED
    BY <2>2, <2>3, <2>4
<1>8. Announced'
  <2>1. main' \in {"read_uptime"} \cup {main} \/ main' = "wait"
    BY DEF Deliver
  <2>2. main' = "read_uptime" => main \in {"read_uptime", "asleep"}
    BY DEF Deliver
  <2>3. handler = NoIrq /\ LineOf(output) \in Lines
    BY DEF Deliver, LineOf
  <2>4. Announced' \/ (output # "none" /\ LineOf(output) \in irr)
    BY <1>3, <2>1, <2>2, <2>3
  <2> QED
    BY <1>2, <1>3, <2>4
<1> QED
  BY <1>5, <1>6, <1>7, <1>8

\* An EOI ends the one service of its controller.
LEMMA EoiEnds ==
  /\ isr = {Mouse, Cascade} /\ EndOfInterrupt(Slave) => isr' = {Cascade}
  /\ \A i \in {Timer, Keyboard, Cascade} :
       isr = {i} /\ EndOfInterrupt(Master) => isr' = {}
BY DEF EndOfInterrupt, Slave, Master, Mouse, Cascade, Timer, Keyboard

LEMMA HandlerKeeps ==
  ASSUME IInv, HandlerStep
  PROVE  IInv'
<1> USE DEF IInv, TypeOK, RepliesBounded, FlagRight, StepRight,
            TablesRight, NothingLeftInService, Announced, Running, Continue,
            Bytes, Lines, pic, ps2, cpu, data, NoIrq,
            Timer, Keyboard, Mouse
<1>1. CASE timer_irq
  <2>1. ticks' \in Nat /\ lost' \in BOOLEAN
    BY <1>1, TickType DEF timer_irq
  <2>2. /\ handler = 0 /\ step = "body" /\ step' = "eoi"
        /\ UNCHANGED <<gates, cpu_if, main, handler, pic, ps2, uptime, displayed,
                       command_byte>>
    BY <1>1 DEF timer_irq
  <2> QED
    BY <2>1, <2>2 DEF LineOf
<1>2. CASE keyboard_irq
  BY <1>2 DEF keyboard_irq, ReadData
<1>3. CASE mouse_irq
  BY <1>3 DEF mouse_irq, ReadData
<1>4. CASE Log
  BY <1>4 DEF Log
<1>5. CASE EoiSlave
  <2>1. isr = {Mouse, Cascade} /\ handler = Mouse
    BY <1>5 DEF EoiSlave, OnMaster, Slave, Cascade
  <2>2. isr' = {Cascade}
    BY <1>5, <2>1, EoiEnds DEF EoiSlave
  <2>3. /\ step' = "eoi" /\ step = "eoi_slave" /\ handler' = Mouse
        /\ UNCHANGED <<gates, cpu_if, main, handler, ps2, data, base, irr, imr>>
    BY <1>5, <2>1 DEF EoiSlave, EndOfInterrupt
  <2>4. TypeOK' /\ NothingLeftInService'
    BY <2>1, <2>2, <2>3
  <2>5. RepliesBounded' /\ FlagRight' /\ StepRight' /\ TablesRight'
    BY <2>1, <2>3
  <2>6. Announced'
    BY <2>3
  <2> QED
    BY <2>4, <2>5, <2>6
<1>6. CASE EoiMaster
  <2>1. handler = Mouse => isr = {Cascade}
    BY <1>6 DEF EoiMaster
  <2>2. handler \in {Timer, Keyboard} => isr = {handler}
    BY <1>6 DEF EoiMaster, OnMaster, Slave
  <2>3. handler \in {Timer, Keyboard, Mouse}
    BY <1>6 DEF EoiMaster
  <2>4. isr' = {}
    BY <1>6, <2>1, <2>2, <2>3, EoiEnds DEF EoiMaster
  <2> QED
    BY <1>6, <2>4 DEF EoiMaster, EndOfInterrupt
<1>7. CASE iretq
  BY <1>7 DEF iretq
<1> QED
  BY <1>1, <1>2, <1>3, <1>4, <1>5, <1>6, <1>7 DEF HandlerStep

LEMMA PitKeeps ==
  ASSUME IInv, PitEdge
  PROVE  IInv'
BY DEF IInv, TypeOK, RepliesBounded, FlagRight, StepRight, TablesRight,
       NothingLeftInService, Announced, Running, PitEdge, Raise, Lines, Timer,
       pic, ps2, cpu

LEMMA DeviceKeeps ==
  ASSUME IInv, NEW byte \in Bytes, Device(byte)
  PROVE  IInv'
<1>1. /\ output = "none" /\ output' = byte /\ UNCHANGED reporting
      /\ irr' = irr \cup {LineOf(byte)} /\ UNCHANGED <<base, isr, imr, cpu, data>>
  BY DEF Device, Arrives, Raise
<1>2. owed' = owed \/ (owed # <<>> /\ owed' = Tail(owed))
  BY DEF Device, Arrives
<1>3. owed' \in Seq({"config", "ack"}) /\ Len(owed') <= Len(owed)
  BY <1>2 DEF IInv, TypeOK
<1>4. LineOf(byte) \in Lines
  BY DEF LineOf, Lines
<1>5. Len(owed') <= 3 /\ Len(owed') <= Commands(main)
  BY <1>3 DEF IInv, TypeOK, RepliesBounded, Commands
<1> USE DEF IInv, FlagRight, StepRight, TablesRight, NothingLeftInService,
            Running, cpu, data
<1>6. TypeOK'
  BY <1>1, <1>3, <1>4, <1>5 DEF TypeOK
<1>7. RepliesBounded'
  BY <1>1, <1>5 DEF RepliesBounded
<1>8. Announced'
  BY <1>1 DEF Announced
<1> QED
  BY <1>1, <1>6, <1>7, <1>8

-----------------------------------------------------------------------------
(* The theorems                                                            *)

LEMMA Invariance == Spec => []IInv
<1>1. Init => IInv
  <2> SUFFICES ASSUME Init PROVE IInv
    OBVIOUS
  <2>1. TypeOK
    <3>1. owed \in Seq({"config", "ack"}) /\ Len(owed) <= 3
      BY DEF Init
    <3>2. ticks \in Nat /\ uptime \in Nat /\ displayed \in Nat
      BY InterruptsAssumption DEF Init
    <3>3. imr \in SUBSET (Master \cup Slave) /\ irr \in SUBSET Lines /\ isr = {}
      BY DEF Init, Lines, Timer, Keyboard, Master, Slave
    <3> QED
      BY <3>1, <3>2, <3>3 DEF Init, TypeOK, mains, Bytes, Lines, NoIrq
  <2>2. RepliesBounded /\ FlagRight /\ StepRight /\ TablesRight
    BY DEF Init, RepliesBounded, Commands, FlagRight, StepRight, TablesRight, Open,
           NoIrq, Keyboard, Mouse
  <2>3. NothingLeftInService /\ Announced
    BY DEF Init, NothingLeftInService, Announced, NoIrq
  <2> QED
    BY <2>1, <2>2, <2>3 DEF IInv
<1>2. IInv /\ [Next]_vars => IInv'
  <2> SUFFICES ASSUME IInv, [Next]_vars PROVE IInv'
    OBVIOUS
  <2>1. CASE UNCHANGED vars
    BY <2>1 DEF vars, pic, ps2, cpu, data, IInv, TypeOK, RepliesBounded,
                FlagRight, StepRight, TablesRight, NothingLeftInService, Announced,
                Running
  <2> QED
    BY <2>1, MainKeeps, DeliverKeeps, HandlerKeeps, PitKeeps, DeviceKeeps DEF Next
<1> QED
  BY <1>1, <1>2, PTL DEF Spec

\* The variables keep their types: at most three replies are owed, and a new
\* second always has a number.
THEOREM TypeCorrect == Spec => []TypeOK
BY Invariance, PTL DEF IInv

\* Each handler ends the service that its interrupt began, at both controllers,
\* so that no line is blocked for good.
THEOREM ServicesEnd == Spec => []NothingLeftInService
BY Invariance, PTL DEF IInv

\* An interrupt that the processor can take finds its gate.
THEOREM GatesInPlace == Spec => []EveryVectorHasGate
<1>1. IInv => EveryVectorHasGate
  BY DEF IInv, EveryVectorHasGate, FlagRight, TablesRight, Open, Vector, Lines,
         Timer, Keyboard, Mouse
<1> QED
  BY <1>1, Invariance, PTL

\* In the main loop no byte waits in the buffer without its interrupt.
THEOREM BytesAnnounced == Spec => []ByteIsAnnounced
<1>1. IInv => ByteIsAnnounced
  BY DEF IInv, TypeOK, ByteIsAnnounced, Announced
<1> QED
  BY <1>1, Invariance, PTL
=============================================================================
