-------------------------------- MODULE Ps2 --------------------------------
(***************************************************************************)
(* The PS/2 controller behind ports 0x60 and 0x64, as keyboard.c and       *)
(* mouse.c use it: one output buffer for the keyboard's bytes, the mouse's *)
(* bytes and the replies to commands, and an interrupt line per device.    *)
(***************************************************************************)
EXTENDS Sequences

Keyboard == 1             \* IRQ lines
Mouse    == 12
Bytes    == {"scan", "move", "ack", "config"}

VARIABLES
  output,     \* what the output buffer holds, or "none"
  owed,       \* replies to commands that have not reached the buffer yet
  reporting   \* 0xF4 has been sent: the mouse reports movements

ps2 == <<output, owed, reporting>>

\* The line that a byte raises as it enters the buffer.
LineOf(byte) == IF byte \in {"scan", "config"} THEN Keyboard ELSE Mouse

\* A byte can enter the empty buffer only.
Arrives(byte) ==
  /\ output = "none"
  /\ \/ byte = "scan" /\ UNCHANGED owed
     \/ byte = "move" /\ reporting /\ owed = <<>> /\ UNCHANGED owed
     \/ owed # <<>> /\ byte = Head(owed) /\ owed' = Tail(owed)
  /\ output' = byte
  /\ UNCHANGED reporting

\* inb(0x60): reading an empty buffer yields its last byte again.
ReadData ==
  /\ output' = "none"
  /\ UNCHANGED <<owed, reporting>>

\* A command whose reply the controller or the mouse will send.
Command(reply) ==
  /\ owed' = Append(owed, reply)
  /\ UNCHANGED <<output, reporting>>
=============================================================================
