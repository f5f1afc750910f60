----------------------------- MODULE Interrupts -----------------------------
(***************************************************************************)
(* Everything that shares the processor after kmain has begun: main.c from *)
(* idt_init to the main loop, with keyboard_init and mouse_init, and the   *)
(* handlers of the timer (timer.c), the keyboard (keyboard.c) and the      *)
(* mouse (mouse.c) with their entry code in interrupts.S.  A step is what  *)
(* happens between two points where a device can get in between.  What the *)
(* handlers draw is in Cursor; the packet a mouse byte belongs to is left  *)
(* out.                                                                    *)
(***************************************************************************)
EXTENDS Pic, Ps2

CONSTANTS
  WaitTicks,       \* the ticks that kmain waits for after pit_init (100)
  TicksPerSecond,  \* 100
  Seconds          \* three numbers or more for the seconds after it, see Tick

ASSUME InterruptsAssumption ==
  /\ WaitTicks \in Nat /\ TicksPerSecond \in Nat \ {0}
  /\ Seconds \subseteq Nat
  /\ \A s \in Seconds : s * TicksPerSecond >= WaitTicks
  /\ \E a, b, c \in Seconds : a # b /\ b # c /\ c # a

Timer == 0
Lines == {Timer, Keyboard, Mouse}
NoIrq == -1

VARIABLES
  gates,         \* vectors with a present IDT gate
  cpu_if,        \* the interrupt flag
  main,          \* where kmain is; "wait_asleep" and "asleep" are inside hlt
  handler,       \* the line whose handler runs, or NoIrq
  step,          \* where the handler is
  ticks,
  uptime,        \* uptime_seconds of the main loop
  displayed,     \* displayed_uptime_seconds
  command_byte,  \* mouse_init's local variable, "none" outside its life
  lost           \* history: an edge of the PIT was lost since the last tick

cpu  == <<gates, cpu_if, main, handler, step>>
data == <<ticks, uptime, displayed, command_byte, lost>>
vars == <<pic, ps2, cpu, data>>

Init ==
  /\ gates = {} /\ cpu_if = FALSE
  /\ main = "idt_init" /\ handler = NoIrq /\ step = "none"
  /\ ticks = 0 /\ uptime = 0 /\ displayed = 0
  /\ command_byte = "none" /\ lost = FALSE
  /\ base = 8 /\ isr = {}                  \* as the firmware left the machine
  /\ irr \in SUBSET {Timer, Keyboard}
  /\ imr \in {{}, Master \cup Slave}
  /\ output \in {"none", "scan"}
  /\ owed = <<>> /\ reporting = FALSE

\* The uint64_t never wraps in practice.  All that kmain makes of a second is to
\* compare it with the two that it keeps, so a new one may have any number but
\* theirs: seconds that differ in the code differ here.
Tick(t) ==
  IF t >= WaitTicks /\ (t + 1) % TicksPerSecond = 0
  THEN TicksPerSecond * (CHOOSE s \in Seconds : s \notin {uptime, displayed})
  ELSE t + 1

-----------------------------------------------------------------------------
(* kmain.  It runs while no handler does.                                  *)

At(here) == handler = NoIrq /\ main = here
Goto(there) == main' = there /\ UNCHANGED <<handler, step>>

\* Mutant: the mouse's gate is installed at the vector of another line.
idt_init_NoMouse ==
  /\ At("idt_init") /\ Goto("pic_remap")
  /\ gates' = {0, 6, 13, 14, 32, 33, 43}
  /\ UNCHANGED <<cpu_if, pic, ps2, data>>

idt_init ==
  /\ At("idt_init") /\ Goto("pic_remap")
  /\ gates' = {0, 6, 13, 14, 32, 33, 44}
  /\ UNCHANGED <<cpu_if, pic, ps2, data>>

RemapPic ==
  /\ At("pic_remap") /\ Goto("enable_timer")
  /\ pic_remap
  /\ UNCHANGED <<gates, cpu_if, ps2, data>>

EnableTimer ==
  /\ At("enable_timer") /\ Goto("sti")
  /\ pic_enable_irq(Timer)
  /\ UNCHANGED <<gates, cpu_if, ps2, data>>

Sti(here, there) ==
  /\ At(here) /\ Goto(there)
  /\ cpu_if' = TRUE
  /\ UNCHANGED <<gates, pic, ps2, data>>

\* while (timer_get_ticks() < 100) hlt: the test, ...
WaitForTicks ==
  /\ At("wait")
  /\ Goto(IF ticks < WaitTicks THEN "wait_hlt" ELSE "cli")
  /\ UNCHANGED <<gates, cpu_if, pic, ps2, data>>

\* ... hlt, which sleeps until the next interrupt, here and in the main loop: one
\* that came before hlt does not end it, ...
Hlt(here, there) ==
  /\ At(here) /\ Goto(there)
  /\ UNCHANGED <<gates, cpu_if, pic, ps2, data>>

\* ... and cli.
CliAfterWait ==
  /\ At("cli") /\ Goto("self_tests")
  /\ cpu_if' = FALSE
  /\ UNCHANGED <<gates, pic, ps2, data>>

\* The memory map, the self-tests, console_init and shell_init, with interrupts
\* off; then keyboard_init.
SelfTests ==
  /\ At("self_tests") /\ Goto("keyboard_init")
  /\ UNCHANGED <<gates, cpu_if, pic, ps2, data>>

keyboard_init ==
  /\ At("keyboard_init") /\ Goto("discard")
  /\ pic_enable_irq(Keyboard)
  /\ UNCHANGED <<gates, cpu_if, ps2, data>>

\* Mutant: the loop polls the status and does not read the byte.
DiscardPending_Unread ==
  /\ At("discard")
  /\ Goto(IF output # "none" THEN "discard" ELSE "ask_config")
  /\ UNCHANGED <<ps2, gates, cpu_if, pic, data>>

\* mouse_init: mouse_discard_pending_data ...
DiscardPending ==
  /\ At("discard")
  /\ IF output # "none" THEN Goto("discard") /\ ReadData
                        ELSE Goto("ask_config") /\ UNCHANGED ps2
  /\ UNCHANGED <<gates, cpu_if, pic, data>>

\* ... 0x20 asks for the command byte ...
AskConfig ==
  /\ At("ask_config") /\ Goto("read_config")
  /\ Command("config")
  /\ UNCHANGED <<gates, cpu_if, pic, data>>

ReadConfig ==
  /\ At("read_config") /\ Goto("write_config")
  /\ output # "none"
  /\ command_byte' = output
  /\ ReadData
  /\ UNCHANGED <<gates, cpu_if, pic, ticks, uptime, displayed, lost>>

\* ... 0x60 writes it back with both interrupts on and both devices enabled ...
WriteConfig ==
  /\ At("write_config") /\ Goto("set_defaults")
  /\ command_byte' = "none"
  /\ UNCHANGED <<gates, cpu_if, pic, ps2, ticks, uptime, displayed, lost>>

\* ... and mouse_send_command, for 0xF6 and for 0xF4: the reply is only logged.
SendCommand(here, there) ==
  /\ At(here) /\ Goto(there)
  /\ owed' = Append(owed, "ack")
  /\ reporting' = (reporting \/ here = "enable_reporting")
  /\ UNCHANGED <<output, gates, cpu_if, pic, data>>

ReadReply(here, there) ==
  /\ At(here) /\ Goto(there)
  /\ output # "none"
  /\ ReadData
  /\ UNCHANGED <<gates, cpu_if, pic, data>>

EnableMouse ==
  /\ At("enable_mouse") /\ Goto("sti_main")
  /\ pic_enable_irq(Mouse)
  /\ UNCHANGED <<gates, cpu_if, ps2, data>>

\* Mutant: the test asks whether the header shows a second yet.
ReadUptime_OnlyFirst ==
  /\ At("read_uptime")
  /\ uptime' = ticks \div TicksPerSecond
  /\ Goto(IF uptime' # displayed /\ displayed = 0 THEN "cli_update" ELSE "hlt")
  /\ UNCHANGED <<gates, cpu_if, pic, ps2, ticks, displayed, command_byte, lost>>

\* The main loop: read the ticks, ...
ReadUptime ==
  /\ At("read_uptime")
  /\ uptime' = ticks \div TicksPerSecond
  /\ Goto(IF uptime' # displayed THEN "cli_update" ELSE "hlt")
  /\ UNCHANGED <<gates, cpu_if, pic, ps2, ticks, displayed, command_byte, lost>>

CliUpdate ==
  /\ At("cli_update") /\ Goto("update")
  /\ cpu_if' = FALSE
  /\ UNCHANGED <<gates, pic, ps2, data>>

\* ... draw the header between mouse_hide_cursor and mouse_show_cursor, and hlt.
UpdateHeader ==
  /\ At("update") /\ Goto("sti_update")
  /\ displayed' = uptime
  /\ UNCHANGED <<gates, cpu_if, pic, ps2, ticks, uptime, command_byte, lost>>

MainStep ==
  \/ idt_init \/ RemapPic \/ EnableTimer \/ Sti("sti", "wait")
  \/ WaitForTicks \/ Hlt("wait_hlt", "wait_asleep") \/ CliAfterWait \/ SelfTests
  \/ keyboard_init \/ DiscardPending \/ AskConfig \/ ReadConfig \/ WriteConfig
  \/ SendCommand("set_defaults", "defaults_reply")
  \/ ReadReply("defaults_reply", "enable_reporting")
  \/ SendCommand("enable_reporting", "reporting_reply")
  \/ ReadReply("reporting_reply", "enable_mouse")
  \/ EnableMouse \/ Sti("sti_main", "read_uptime")
  \/ ReadUptime \/ CliUpdate \/ UpdateHeader \/ Sti("sti_update", "hlt")
  \/ Hlt("hlt", "asleep")

-----------------------------------------------------------------------------
(* Interrupts                                                              *)

\* The CPU enters the gate of line i: an interrupt gate clears the flag, and
\* the instruction after a hlt is the one that is returned to.
Deliver(i) ==
  /\ cpu_if /\ handler = NoIrq
  /\ MostUrgent(i)
  /\ Vector(i) \in gates
  /\ Acknowledge(i)
  /\ cpu_if' = FALSE
  /\ handler' = i
  /\ step' = "body"
  /\ main' = CASE main = "wait_asleep" -> "wait"
               [] main = "asleep" -> "read_uptime"
               [] OTHER -> main
  /\ UNCHANGED <<gates, ps2, data>>

Running(i, here) == handler = i /\ step = here
Continue(there) == step' = there /\ UNCHANGED <<gates, cpu_if, main, handler>>

timer_irq ==
  /\ Running(Timer, "body") /\ Continue("eoi")
  /\ ticks' = Tick(ticks)
  /\ lost' = FALSE
  /\ UNCHANGED <<pic, ps2, uptime, displayed, command_byte>>

\* Mutant: a key may be acknowledged without reading the port.
keyboard_irq_Unread ==
  /\ Running(Keyboard, "body")
  /\ \/ Continue("eoi") /\ UNCHANGED ps2
     \/ Continue("log") /\ ReadData
  /\ UNCHANGED <<pic, data>>

\* A Shift key goes straight to the EOI; the others are drawn and logged.
keyboard_irq ==
  /\ Running(Keyboard, "body")
  /\ \/ Continue("eoi")
     \/ Continue("log")
  /\ ReadData
  /\ UNCHANGED <<pic, data>>

\* A stray byte, or one of an incomplete packet, goes straight to the EOIs.
mouse_irq ==
  /\ Running(Mouse, "body")
  /\ \/ Continue("eoi_slave")
     \/ Continue("log")
  /\ ReadData
  /\ UNCHANGED <<pic, data>>

\* Drawing, and serial_write: tens of characters at 38,400 baud.
Log ==
  /\ step = "log"
  /\ Continue(IF handler = Mouse THEN "eoi_slave" ELSE "eoi")
  /\ UNCHANGED <<pic, ps2, data>>

\* Mutant: the slave gets no EOI.
EoiSlave_Skipped ==
  /\ step = "eoi_slave" /\ Continue("eoi")
  /\ UNCHANGED <<pic, ps2, data>>

\* pic_send_eoi.
EoiSlave ==
  /\ step = "eoi_slave" /\ Continue("eoi")
  /\ EndOfInterrupt(Slave)
  /\ UNCHANGED <<ps2, data>>

EoiMaster ==
  /\ step = "eoi" /\ Continue("iretq")
  /\ EndOfInterrupt(Master)
  /\ UNCHANGED <<ps2, data>>

iretq ==
  /\ step = "iretq"
  /\ handler' = NoIrq
  /\ step' = "none"
  /\ cpu_if' = TRUE
  /\ UNCHANGED <<gates, main, pic, ps2, data>>

HandlerStep ==
  timer_irq \/ keyboard_irq \/ mouse_irq \/ Log \/ EoiSlave \/ EoiMaster \/ iretq

-----------------------------------------------------------------------------
(* The devices                                                             *)

\* What may take longer than a period of the PIT.
Busy ==
  \/ step = "log"
  \/ handler = NoIrq
       /\ main \in {"self_tests", "read_config", "defaults_reply",
                    "reporting_reply", "update"}

\* A period of the PIT ends; an edge is lost if the one before is still latched.
PitEdge ==
  /\ Timer \in irr => Busy /\ ~lost
  /\ lost' = (lost \/ Timer \in irr)
  /\ Raise({Timer})
  /\ UNCHANGED <<ps2, cpu, ticks, uptime, displayed, command_byte>>

Device(byte) ==
  /\ Arrives(byte)
  /\ Raise({LineOf(byte)})
  /\ UNCHANGED <<cpu, data>>

Next ==
  \/ MainStep
  \/ \E i \in Lines : Deliver(i)
  \/ HandlerStep
  \/ PitEdge
  \/ \E byte \in Bytes : Device(byte)

\* The processor and the devices keep working.  Strong fairness says that no
\* source interrupts so fast that the processor gets to nothing else: keys and
\* movements come at the pace of a human, so that a poll of the buffer finds it
\* empty at last, and a period of the PIT is long beside the timer's handler,
\* which returns before the next edge again and again.
Fairness ==
  /\ SF_vars(MainStep)
  /\ SF_vars(DiscardPending /\ output = "none")
  /\ WF_vars(HandlerStep)
  /\ \A i \in Lines : SF_vars(Deliver(i))
  /\ WF_vars(PitEdge)
  /\ []<>(handler = Timer) => []<>(cpu_if /\ handler = NoIrq /\ Timer \notin irr)
  /\ SF_vars(Device("ack") \/ Device("config"))

Spec == Init /\ [][Next]_vars /\ Fairness

-----------------------------------------------------------------------------
(* Properties                                                              *)

mains ==
  {"idt_init", "pic_remap", "enable_timer", "sti", "wait", "wait_hlt", "wait_asleep",
   "cli", "self_tests", "keyboard_init", "discard", "ask_config", "read_config",
   "write_config", "set_defaults", "defaults_reply", "enable_reporting", "reporting_reply",
   "enable_mouse", "sti_main", "read_uptime", "cli_update", "update",
   "sti_update", "hlt", "asleep"}

TypeOK ==
  /\ base \in {8, 32}
  /\ irr \in SUBSET Lines
  /\ isr \in SUBSET (Lines \cup {Cascade})
  /\ imr \in SUBSET (Master \cup Slave)
  /\ output \in Bytes \cup {"none"}
  /\ owed \in Seq({"config", "ack"}) /\ Len(owed) <= 3
  /\ reporting \in BOOLEAN /\ cpu_if \in BOOLEAN /\ lost \in BOOLEAN
  /\ gates \in SUBSET (0 .. 255)
  /\ main \in mains
  /\ handler \in Lines \cup {NoIrq}
  /\ step \in {"none", "body", "log", "eoi_slave", "eoi", "iretq"}
  /\ ticks \in Nat /\ uptime \in Nat /\ displayed \in Nat
  /\ command_byte \in Bytes \cup {"none"}

\* The EOIs of each handler end the service that its own interrupt began, at
\* both controllers, and leave nothing in service: no line is blocked for good.
NothingLeftInService ==
  isr = CASE handler = NoIrq \/ step = "iretq" -> {}
          [] handler = Mouse /\ step = "eoi" -> {Cascade}
          [] OTHER -> {handler, OnMaster(handler)}

\* Whenever the processor can take an interrupt, its vector has a gate: the
\* IDT, the remapping, the masks and sti come in an order that never lets an
\* interrupt of the firmware's or an unprepared line through.
EveryVectorHasGate ==
  \A i \in Lines : cpu_if /\ handler = NoIrq /\ MostUrgent(i) =>
    Vector(i) \in gates

\* In the main loop a byte in the output buffer has its interrupt coming: had
\* the edge been forgotten at ICW1 or polled away in mouse_init, the buffer
\* would stay full and neither device could ever interrupt again.
ByteIsAnnounced ==
  main \in {"read_uptime", "cli_update", "update", "sti_update", "hlt", "asleep"}
    /\ output # "none" =>
       \/ LineOf(output) \in irr
       \/ Running(LineOf(output), "body")

\* Every byte leaves the buffer, whatever arrives when.
BytesConsumed == output # "none" ~> output = "none"

\* kmain gets through its waits and polls to the main loop.
BootEnds == <>(main = "read_uptime")

\* Again and again the main loop draws a new second, although an interrupt may
\* come between the test of the time and hlt: the header never stops for good,
\* neither at a second nor with the whole system.
HeaderMovesOn == []<><<main = "update">>_displayed

\* console.c calls what the header shows the real uptime: every period of the
\* PIT is counted.
EveryTickCounted == ~lost

\* mouse.c discards old bytes so that none is mistaken for the command byte.
CommandByteIsReply == command_byte \in {"none", "config"}

\* keyboard.c takes what it reads on IRQ1 for data of the keyboard: no byte of
\* a mouse report is ever typed as a scan code.
KeyboardReadsKeys == Running(Keyboard, "body") => output # "move"
=============================================================================
