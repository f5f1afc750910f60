-------------------------------- MODULE Input --------------------------------
(***************************************************************************)
(* What the handlers of keyboard.c and mouse.c make of the bytes that they *)
(* read from the port they share: characters, and movements put together   *)
(* from three bytes.  An interrupt whose byte mouse_init has polled is     *)
(* still latched when the interrupts come on (Interrupts shows how), so a  *)
(* handler may find no byte of its device, or one of the other's: bytes    *)
(* get lost and are read twice.                                            *)
(***************************************************************************)
EXTENDS Integers, Sequences

CONSTANTS
  Keys,       \* scan codes of the keys that are used, Shift among them
  Reports,    \* what the mouse may report: three bytes
  Leftovers   \* what mouse_init may have read last from the port

LeftShift  == 42     \* 0x2a
RightShift == 54     \* 0x36
Shifts     == {LeftShift, RightShift}
Released   == 128    \* added to the code of a key
Ack        == 250    \* 0xFA

ASSUME InputAssumption ==
  /\ Keys \subseteq 1 .. 127 /\ Leftovers \subseteq 0 .. 255
  /\ Reports \subseteq (0 .. 255) \X (0 .. 255) \X (0 .. 255)
  /\ \A r \in Reports : (r[1] \div 8) % 2 = 1

VARIABLES
  port,                 \* the output buffer: whose byte, and its value
  irr,                  \* latched interrupts
  handler,              \* the handler that runs and has not read yet
  held,                 \* keys that are down, as far as their bytes have come
  report, sent,         \* the mouse's report, and how much of it has come
  keyboard_shift_down,
  mouse_packet,         \* the bytes before mouse_packet_index
  typed,                \* the character that this interrupt gave the shell
  moved,                \* what this interrupt added to mouse_x and mouse_y
  \* history
  overlapped,           \* both Shift keys have been down together
  shift_known,          \* every byte since a Shift key was read as it should be
  quiet                 \* see mouse_irq

devices == <<held, report, sent, overlapped>>
drivers == <<keyboard_shift_down, mouse_packet, typed, moved>>
vars    == <<port, irr, handler, devices, drivers, shift_known, quiet>>

Init ==
  /\ \E left \in Leftovers : port = [from |-> "none", value |-> left]
  /\ irr \in SUBSET {"keyboard", "mouse"}
  /\ handler = "none"
  /\ held \in SUBSET Keys                  \* their bytes may have been discarded
  /\ overlapped = (Shifts \subseteq held)
  /\ report \in Reports /\ sent = 3
  /\ keyboard_shift_down = FALSE
  /\ mouse_packet = <<>>
  /\ typed = "none" /\ moved = <<0, 0>>
  /\ shift_known = (held \cap Shifts = {})
  /\ quiet = 2

-----------------------------------------------------------------------------
(* The devices: a byte enters the empty port and raises its line           *)

Enters(device, value) ==
  /\ port.from = "none"
  /\ port' = [from |-> device, value |-> value]
  /\ irr' = irr \cup {device}
  /\ UNCHANGED <<handler, drivers, shift_known, quiet>>

\* Down, or repeated.
Press(k) ==
  /\ Enters("keyboard", k)
  /\ held' = held \cup {k}
  /\ overlapped' = (overlapped \/ Shifts \subseteq held')
  /\ UNCHANGED <<report, sent>>

Release(k) ==
  /\ k \in held
  /\ Enters("keyboard", k + Released)
  /\ held' = held \ {k}
  /\ overlapped' = (overlapped /\ held' \cap Shifts # {})
  /\ UNCHANGED <<report, sent>>

MouseByte ==
  /\ IF sent = 3 THEN report' \in Reports /\ sent' = 1
                 ELSE report' = report /\ sent' = sent + 1
  /\ Enters("mouse", report'[sent'])
  /\ UNCHANGED <<held, overlapped>>

-----------------------------------------------------------------------------
(* The handlers                                                            *)

\* The keyboard's line is the more urgent one.
Deliver(device) ==
  /\ handler = "none"
  /\ device \in irr
  /\ device = "mouse" => "keyboard" \notin irr
  /\ irr' = irr \ {device}
  /\ handler' = device
  /\ typed' = "none" /\ moved' = <<0, 0>>
  /\ UNCHANGED <<port, devices, keyboard_shift_down, mouse_packet, shift_known,
                 quiet>>

\* inb(0x60): an empty buffer yields its last byte again.  Then the handler runs
\* to its end.
Read(device) ==
  /\ handler = device
  /\ handler' = "none"
  /\ port' = [port EXCEPT !.from = "none"]
  /\ UNCHANGED <<irr, devices>>

\* The codes that have a character: the keys of each row, Space, and the key
\* between the left Shift and Z.
Codes == (2 .. 14) \cup (16 .. 28) \cup (30 .. 40) \cup (43 .. 53) \cup {57, 86}

Plain ==
  [code \in Codes |->
     CASE code \in 2 .. 14 ->
            <<"1", "2", "3", "4", "5", "6", "7", "8", "9", "0", "*", "-",
              "erase">>[code - 1]
       [] code \in 16 .. 28 ->
            <<"Q", "W", "E", "R", "T", "Y", "U", "I", "O", "P", "gbreve",
              "udots", "enter">>[code - 15]
       [] code \in 30 .. 40 ->
            <<"A", "S", "D", "F", "G", "H", "J", "K", "L", "scedilla",
              "I">>[code - 29]
       [] code \in 43 .. 53 ->
            <<",", "Z", "X", "C", "V", "B", "N", "M", "odots", "ccedilla",
              ".">>[code - 42]
       [] code = 57 -> " "
       [] code = 86 -> "<"]

\* The keys that Shift changes.
Shifted ==
  [code \in Codes |->
     CASE code = 2  -> "!"      [] code = 5  -> "+"      [] code = 8  -> "/"
       [] code = 11 -> "="      [] code = 12 -> "?"      [] code = 13 -> "_"
       [] code = 26 -> "Gbreve" [] code = 27 -> "Udots"  [] code = 39 -> "Scedilla"
       [] code = 40 -> "Idot"   [] code = 43 -> "/"      [] code = 51 -> "Odots"
       [] code = 52 -> "Ccedilla" [] code = 53 -> ":"    [] code = 86 -> ">"
       [] OTHER -> Plain[code]]

\* No character for any other code.
keyboard_scancode_to_character(code, shift) ==
  IF code \notin Codes THEN "none"
  ELSE IF shift THEN Shifted[code] ELSE Plain[code]

\* Mutant: the release of the right Shift key is no Shift code.
ShiftReleases_Left == {LeftShift + Released}
ShiftReleases == {LeftShift + Released, RightShift + Released}

keyboard_irq ==
  /\ Read("keyboard")
  /\ LET code == port.value IN
       /\ keyboard_shift_down' = CASE code \in Shifts -> TRUE
                                   [] code \in ShiftReleases -> FALSE
                                   [] OTHER -> keyboard_shift_down
       /\ typed' = IF code \in Shifts \cup ShiftReleases THEN "none"
                   ELSE keyboard_scancode_to_character(code,
                                                       keyboard_shift_down)
       /\ shift_known' =
            /\ port.from = "keyboard"
            /\ shift_known \/ code \in Shifts \cup ShiftReleases
  /\ quiet' = IF port.from = "mouse" THEN 0 ELSE quiet
  /\ UNCHANGED <<mouse_packet, moved>>

\* Mutant: any byte may be the first of a packet.
MayBegin_Any(byte) == byte # Ack

\* The first byte has bit 3 set; 0xFA is taken for a late acknowledgement.
MayBegin(byte) == byte # Ack /\ (byte \div 8) % 2 = 1

\* Mutant: the byte is taken as it is.
Signed_Not(byte) == byte

\* (int8_t)
Signed(byte) == IF byte < 128 THEN byte ELSE byte - 256

\* The packet is dropped if one of its overflow bits is set.
Movement(packet) ==
  IF packet[1] \div 64 = 0 THEN <<Signed(packet[2]), -Signed(packet[3])>>
                           ELSE <<0, 0>>

\* Neither byte of the movement could begin a packet.
Quiet(r) == (r[2] \div 8) % 2 = 0 /\ (r[3] \div 8) % 2 = 0

\* The history variable quiet is 0 when a byte has been lost, read twice or
\* taken for an acknowledgement, then counts the quiet reports that have been
\* read, up to 2, and starts again at one that is not; it stays at 2 whatever
\* the mouse reports, until the next such accident.
QuietAfter ==
  CASE port.from # "mouse" \/ (mouse_packet = <<>> /\ port.value = Ack) -> 0
    [] port.from = "mouse" /\ (mouse_packet # <<>> \/ port.value # Ack) ->
         IF quiet = 2 \/ sent < 3 THEN quiet
         ELSE IF Quiet(report) THEN quiet + 1 ELSE 0

mouse_irq ==
  /\ Read("mouse")
  /\ LET packet == Append(mouse_packet, port.value)
         begins == mouse_packet # <<>> \/ MayBegin(port.value)
         whole  == begins /\ Len(packet) = 3
     IN  /\ mouse_packet' = IF begins /\ ~whole THEN packet ELSE <<>>
         /\ moved' = IF whole THEN Movement(packet) ELSE <<0, 0>>
  /\ quiet' = QuietAfter
  /\ shift_known' = (shift_known /\ port.from # "keyboard")
  /\ UNCHANGED <<keyboard_shift_down, typed>>

Next ==
  \/ \E k \in Keys : Press(k) \/ Release(k)
  \/ MouseByte
  \/ \E device \in {"keyboard", "mouse"} : Deliver(device)
  \/ keyboard_irq
  \/ mouse_irq

Spec == Init /\ [][Next]_vars

-----------------------------------------------------------------------------
(* Properties                                                              *)

\* The place in its report of the byte that mouse_irq is to read next.
Expected == IF port.from = "mouse" THEN sent - 1 ELSE sent % 3

\* The packets are the mouse's reports, as long as each byte is read once by
\* its own handler; and after any accident, two reports of which no movement
\* byte has bit 3 set bring them back in step, from wherever they were.
InStep == quiet = 2 => Len(mouse_packet) = Expected

\* What the mouse reports: nine bits for each direction, the sign in the first
\* byte; up is less on the screen.
Reported(r) ==
  <<r[2] - 256 * ((r[1] \div 16) % 2), 256 * ((r[1] \div 32) % 2) - r[3]>>
Overflows(r) == r[1] \div 64 # 0
InRange(r)   == \A i \in {1, 2} : Reported(r)[i] \in -127 .. 127

\* While packets are in step, a report that eight bits can express moves the
\* cursor by what it says, once, at its last byte, and no other byte moves it.
MovesAsReported ==
  [][handler = "mouse" /\ handler' = "none" /\ quiet = 2 /\ port.from = "mouse" =>
       moved' = IF sent = 3 /\ ~Overflows(report)
                THEN IF InRange(report) THEN Reported(report) ELSE moved'
                ELSE <<0, 0>>]_vars

\* A key types its character, shifted if a Shift key is down and only then:
\* unless the two Shift keys overlap, and from the first Shift key on after a
\* byte that was lost or was not the keyboard's.
TypedAsHeld ==
  [][handler = "keyboard" /\ handler' = "none" /\ port.from = "keyboard"
       /\ shift_known /\ port.value \notin Shifts =>
         \/ overlapped
         \/ typed' = keyboard_scancode_to_character(port.value,
                                                    held \cap Shifts # {})]_vars
=============================================================================
