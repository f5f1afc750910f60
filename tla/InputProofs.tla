----------------------------- MODULE InputProofs -----------------------------
(***************************************************************************)
(* Input reads its devices right for every set of keys, of reports and of  *)
(* bytes left in the port: the mouse's packets fall into step again after  *)
(* an accident and move the cursor as reported, and Shift comes right with *)
(* the next Shift key.                                                     *)
(***************************************************************************)
EXTENDS Input, TLAPS

Byte == 0 .. 255

\* A byte in the port is the one that its device has sent last.
DevicesOK ==
  /\ port.from \in {"none", "keyboard", "mouse"}
  /\ port = [from |-> port.from, value |-> port.value]
  /\ port.value \in Int
  /\ report \in Reports
  /\ sent \in 1 .. 3
  /\ port.from = "mouse" => port.value = report[sent]

\* How far a packet may be off, after an accident, by the place of the next byte:
\* a whole quiet report leaves two places, and a second one leaves the right one.
Places(place) ==
  {n \in 0 .. 2 :
     /\ quiet = 2 => n = place
     /\ quiet = 1 /\ place = 0 => n # 1
     /\ quiet = 1 /\ place = 1 => n # 2
     /\ quiet = 1 /\ place = 2 /\ Quiet(report) => n # 1}

PacketOK ==
  /\ quiet \in 0 .. 2
  /\ mouse_packet \in Seq(Int)
  /\ Len(mouse_packet) \in Places(Expected)
  /\ quiet = 2 => \A i \in 1 .. Len(mouse_packet) : mouse_packet[i] = report[i]

MouseInv == DevicesOK /\ PacketOK

-----------------------------------------------------------------------------
(* The mouse                                                               *)

LEMMA ReportType ==
  ASSUME NEW r \in Reports
  PROVE  /\ r = <<r[1], r[2], r[3]>>
         /\ r[1] \in Byte /\ r[2] \in Byte /\ r[3] \in Byte
         /\ (r[1] \div 8) % 2 = 1
         /\ \A i \in 1 .. 3 : r[i] \in Byte
BY InputAssumption DEF Byte

LEMMA ExpectedType ==
  ASSUME DevicesOK
  PROVE  /\ Expected \in 0 .. 2
         /\ port.from = "mouse" => sent = Expected + 1
         /\ port.from # "mouse" => Expected = sent % 3
BY DEF DevicesOK, Expected

LEMMA InitMouse == Init => MouseInv
<1> SUFFICES ASSUME Init PROVE MouseInv
  OBVIOUS
<1>1. /\ port.from = "none" /\ port = [from |-> port.from, value |-> port.value]
      /\ report \in Reports /\ sent = 3 /\ mouse_packet = <<>> /\ quiet = 2
  BY DEF Init
<1>2. DevicesOK
  <2>1. port.value \in Int
    BY InputAssumption DEF Init
  <2> QED
    BY <1>1, <2>1 DEF DevicesOK
<1>3. Expected = 0 /\ Len(mouse_packet) = 0 /\ mouse_packet \in Seq(Int)
  BY <1>1 DEF Expected
<1> QED
  BY <1>1, <1>2, <1>3 DEF MouseInv, PacketOK, Places

LEMMA PlacesBound ==
  ASSUME NEW place
  PROVE  place \in 0 .. 2 => Places(place) \subseteq 0 .. 2
BY DEF Places

\* A step that changes neither the packet nor the place.
LEMMA MouseStutters ==
  ASSUME MouseInv,
         UNCHANGED <<mouse_packet, quiet, report, sent>>,
         \/ UNCHANGED port
         \/ port.from # "mouse" /\ port'.from # "mouse"
              /\ port'.from \in {"none", "keyboard"} /\ port'.value \in Int
              /\ port' = [from |-> port'.from, value |-> port'.value]
  PROVE  MouseInv'
<1>1. DevicesOK' /\ Expected' = Expected
  BY DEF MouseInv, DevicesOK, Expected
<1>2. Places(Expected)' = Places(Expected)
  BY <1>1 DEF Places, Quiet
<1> QED
  BY <1>1, <1>2 DEF MouseInv, PacketOK

LEMMA KeyMouse ==
  ASSUME MouseInv, NEW k \in Keys, Press(k) \/ Release(k)
  PROVE  MouseInv'
<1>1. /\ port.from = "none"
      /\ \E v \in Int : port' = [from |-> "keyboard", value |-> v]
      /\ UNCHANGED <<mouse_packet, quiet, report, sent>>
  <2>1. k \in Int /\ k + Released \in Int
    BY InputAssumption DEF Released
  <2> QED
    BY <2>1 DEF Press, Release, Enters, drivers
<1> QED
  BY <1>1, MouseStutters

LEMMA DeliverMouse ==
  ASSUME MouseInv, NEW device, Deliver(device)
  PROVE  MouseInv'
<1>1. UNCHANGED <<port, mouse_packet, quiet, report, sent>>
  BY DEF Deliver, devices
<1> QED
  BY <1>1, MouseStutters

\* A new report begins only where a packet may begin.
LEMMA ByteMouse ==
  ASSUME MouseInv, MouseByte
  PROVE  MouseInv'
<1>1. /\ port.from = "none"
      /\ port' = [from |-> "mouse", value |-> report'[sent']]
      /\ IF sent = 3 THEN report' \in Reports /\ sent' = 1
                     ELSE report' = report /\ sent' = sent + 1
      /\ UNCHANGED <<mouse_packet, quiet>>
  BY DEF MouseByte, Enters, drivers
<1>2. DevicesOK'
  <2>1. report' \in Reports /\ sent' \in 1 .. 3
    BY <1>1 DEF MouseInv, DevicesOK
  <2>2. report'[sent'] \in Int
    BY <2>1, ReportType DEF Byte
  <2> QED
    BY <1>1, <2>1, <2>2 DEF DevicesOK
<1>3. Expected \in 0 .. 2 /\ Expected' = Expected
  BY <1>1 DEF MouseInv, DevicesOK, Expected
<1>4. Expected = 0 \/ report' = report
  BY <1>1 DEF MouseInv, DevicesOK, Expected
<1>5. Len(mouse_packet') \in Places(Expected)'
  BY <1>1, <1>3, <1>4 DEF Places, MouseInv, PacketOK
<1>6. quiet = 2 /\ Expected = 0 => Len(mouse_packet) = 0
  BY DEF MouseInv, PacketOK, Places
<1>7. quiet' = 2 => \A i \in 1 .. Len(mouse_packet') : mouse_packet'[i] = report'[i]
  BY <1>1, <1>4, <1>6 DEF MouseInv, PacketOK
<1> QED
  BY <1>1, <1>2, <1>3, <1>5, <1>7 DEF MouseInv, PacketOK

\* The keyboard's handler may take a byte of the mouse.
LEMMA KeyboardMouse ==
  ASSUME MouseInv, keyboard_irq
  PROVE  MouseInv'
<1>1. /\ port' = [from |-> "none", value |-> port.value]
      /\ quiet' = IF port.from = "mouse" THEN 0 ELSE quiet
      /\ UNCHANGED <<mouse_packet, report, sent>>
  BY DEF keyboard_irq, Read, devices, MouseInv, DevicesOK
<1>2. CASE port.from # "mouse"
  <2>1. quiet' = quiet /\ port.value \in Int
    BY <1>1, <1>2 DEF MouseInv, DevicesOK
  <2> QED
    BY <1>1, <1>2, <2>1, MouseStutters
<1>3. CASE port.from = "mouse"
  <2>1. DevicesOK'
    BY <1>1 DEF MouseInv, DevicesOK
  <2>2. Places(Expected)' = 0 .. 2 /\ quiet' = 0
    BY <1>1, <1>3 DEF Places
  <2>3. Len(mouse_packet) \in 0 .. 2
    BY ExpectedType, PlacesBound DEF MouseInv, PacketOK
  <2> QED
    BY <1>1, <2>1, <2>2, <2>3 DEF MouseInv, PacketOK
<1> QED
  BY <1>2, <1>3

\* What mouse_irq makes of the byte that it reads.
Begins == Len(mouse_packet) > 0 \/ MayBegin(port.value)

LEMMA PacketStep ==
  ASSUME MouseInv, mouse_irq, port.value \in Int
  PROVE  /\ mouse_packet' \in Seq(Int)
         /\ ~Begins => mouse_packet' = <<>> /\ moved' = <<0, 0>>
         /\ Begins /\ Len(mouse_packet) < 2 =>
              /\ mouse_packet' = Append(mouse_packet, port.value)
              /\ moved' = <<0, 0>>
         /\ Begins /\ Len(mouse_packet) = 2 =>
              /\ mouse_packet' = <<>>
              /\ moved' = Movement(Append(mouse_packet, port.value))
         /\ Len(mouse_packet) \in 0 .. 2
<1> DEFINE packet == Append(mouse_packet, port.value)
           begins == mouse_packet # <<>> \/ MayBegin(port.value)
<1>1. mouse_packet \in Seq(Int) /\ Len(mouse_packet) \in 0 .. 2
  BY ExpectedType, PlacesBound DEF MouseInv, PacketOK
<1>2. packet \in Seq(Int)
  BY <1>1
<1>3. Len(packet) = Len(mouse_packet) + 1
  BY <1>1
<1>4. Begins <=> begins
  BY <1>1 DEF Begins
<1>5. /\ mouse_packet' = IF begins /\ Len(packet) # 3 THEN packet ELSE <<>>
      /\ moved' = IF begins /\ Len(packet) = 3 THEN Movement(packet) ELSE <<0, 0>>
  BY DEF mouse_irq
<1> HIDE DEF begins, packet
<1>6. mouse_packet' \in Seq(Int)
  <2>1. <<>> \in Seq(Int)
    OBVIOUS
  <2> QED
    BY <1>2, <1>5, <2>1
<1>7. CASE Len(mouse_packet) = 2
  <2>1. Len(packet) = 3 /\ ~(Len(mouse_packet) < 2)
    BY <1>3, <1>7
  <2> QED
    BY <1>1, <1>4, <1>5, <1>6, <1>7, <2>1 DEF packet
<1>8. CASE Len(mouse_packet) # 2
  <2>1. \A n \in 0 .. 2 : n # 2 => n + 1 # 3
    OBVIOUS
  <2>2. Len(packet) # 3
    BY <1>1, <1>3, <1>8, <2>1, Zenon
  <2> QED
    BY <1>1, <1>4, <1>5, <1>6, <1>8, <2>2 DEF packet
<1> QED
  BY <1>7, <1>8

\* After an accident the packet may be anywhere.
LEMMA AccidentMouse ==
  ASSUME DevicesOK', quiet' = 0, mouse_packet' \in Seq(Int),
         Len(mouse_packet') \in 0 .. 2
  PROVE  MouseInv'
<1>1. Places(Expected)' = 0 .. 2
  BY DEF Places
<1> QED
  BY <1>1 DEF MouseInv, PacketOK

\* Where a packet of n bytes is after the s-th byte of a report, if it was where
\* Places has it; b says that the byte may stand there, and calm that the report
\* is quiet.
LEMMA Turn ==
  ASSUME NEW q \in 0 .. 2, NEW r \in 0 .. 2, NEW s \in 1 .. 3,
         NEW n \in 0 .. 2, NEW m \in 0 .. 2, NEW calm, NEW b,
         q = 2 \/ s < 3 => r = q,
         q # 2 /\ s = 3 => r = IF calm THEN q + 1 ELSE 0,
         ~b => m = 0,
         b /\ n < 2 => m = n + 1,
         b /\ n = 2 => m = 0,
         n > 0 => b,
         n = 0 /\ s = 1 => b,
         n = 0 /\ s > 1 /\ calm => ~b,
         q = 2 => n = s - 1,
         q = 1 /\ s = 1 => n # 1,
         q = 1 /\ s = 2 => n # 2,
         q = 1 /\ s = 3 /\ calm => n # 1
  PROVE  /\ r = 2 => m = s % 3
         /\ r = 1 /\ s % 3 = 0 => m # 1
         /\ r = 1 /\ s % 3 = 1 => m # 2
         /\ r = 1 /\ s % 3 = 2 /\ calm => m # 1
<1>1. n = 0 \/ n = 1 \/ n = 2
  OBVIOUS
<1>2. CASE s = 1
  <2>1. s % 3 = 1 /\ r = q /\ b
    BY <1>2
  <2> QED
    BY <1>1, <1>2, <2>1
<1>3. CASE s = 2
  <2>1. s % 3 = 2 /\ r = q
    BY <1>3
  <2> QED
    BY <1>1, <1>3, <2>1
<1>4. CASE s = 3
  <2>1. s % 3 = 0
    BY <1>4
  <2>2. CASE q = 2
    BY <1>1, <1>4, <2>1, <2>2
  <2>3. CASE q # 2 /\ calm
    BY <1>1, <1>4, <2>1, <2>3
  <2>4. CASE q # 2 /\ ~calm
    BY <1>1, <1>4, <2>1, <2>4
  <2> QED
    BY <2>2, <2>3, <2>4
<1> QED
  BY <1>2, <1>3, <1>4

\* A byte of the mouse's, read in its turn: where the packet and the report are
\* before and after.
LEMMA TurnMouse ==
  ASSUME MouseInv, mouse_irq, port.from = "mouse",
         ~(mouse_packet = <<>> /\ port.value = Ack)
  PROVE  MouseInv'
<1> DEFINE n == Len(mouse_packet)
           m == Len(mouse_packet')
<1>1. /\ report \in Reports /\ sent \in 1 .. 3 /\ port.value = report[sent]
      /\ port.value \in Int /\ Expected = sent - 1
      /\ mouse_packet \in Seq(Int) /\ quiet \in 0 .. 2
      /\ n \in Places(Expected)
      /\ quiet = 2 => \A i \in 1 .. n : mouse_packet[i] = report[i]
  BY DEF MouseInv, DevicesOK, PacketOK, Expected
<1>2. /\ port' = [from |-> "none", value |-> port.value]
      /\ UNCHANGED <<report, sent>>
      /\ quiet' = IF quiet = 2 \/ sent < 3 THEN quiet
                  ELSE IF Quiet(report) THEN quiet + 1 ELSE 0
  BY DEF mouse_irq, Read, devices, QuietAfter, MouseInv, DevicesOK
<1>3. DevicesOK' /\ Expected' = sent % 3
  BY <1>1, <1>2 DEF DevicesOK, Expected
<1>4. /\ mouse_packet' \in Seq(Int) /\ n \in 0 .. 2
      /\ ~Begins => mouse_packet' = <<>>
      /\ Begins /\ n < 2 => mouse_packet' = Append(mouse_packet, port.value)
      /\ Begins /\ n = 2 => mouse_packet' = <<>>
  BY <1>1, PacketStep
<1>5. /\ ~Begins => m = 0
      /\ Begins /\ n < 2 => m = n + 1
      /\ Begins /\ n = 2 => m = 0
  BY <1>1, <1>4
<1>6. n = 0 => mouse_packet = <<>>
  BY <1>1
<1>7. /\ n > 0 => Begins
      /\ n = 0 /\ sent = 1 => Begins
      /\ n = 0 /\ sent > 1 /\ Quiet(report) => ~Begins
  <2>1. n = 0 => (Begins <=> (report[sent] \div 8) % 2 = 1)
    BY <1>1, <1>6 DEF Begins, MayBegin
  <2>2. (report[1] \div 8) % 2 = 1
    BY <1>1, ReportType
  <2>3. sent > 1 => sent = 2 \/ sent = 3
    BY <1>1
  <2>4. n > 0 => Begins
    BY DEF Begins
  <2> QED
    BY <2>1, <2>2, <2>3, <2>4 DEF Quiet
<1>8. /\ quiet = 2 => n = sent - 1
      /\ quiet = 1 /\ sent = 1 => n # 1
      /\ quiet = 1 /\ sent = 2 => n # 2
      /\ quiet = 1 /\ sent = 3 /\ Quiet(report) => n # 1
  BY <1>1 DEF Places
<1> HIDE DEF n, m
<1>9. m \in 0 .. 2 /\ quiet' \in 0 .. 2
  BY <1>1, <1>2, <1>4, <1>5
<1>10. /\ quiet = 2 \/ sent < 3 => quiet' = quiet
       /\ quiet # 2 /\ sent = 3 => quiet' = IF Quiet(report) THEN quiet + 1 ELSE 0
  BY <1>1, <1>2
<1>11. /\ quiet' = 2 => m = sent % 3
       /\ quiet' = 1 /\ sent % 3 = 0 => m # 1
       /\ quiet' = 1 /\ sent % 3 = 1 => m # 2
       /\ quiet' = 1 /\ sent % 3 = 2 /\ Quiet(report) => m # 1
  BY <1>1, <1>4, <1>5, <1>7, <1>8, <1>9, <1>10, Turn
<1>14. Len(mouse_packet') \in Places(Expected)'
  BY <1>2, <1>3, <1>9, <1>11 DEF Places, m, Quiet
<1>15. quiet' = 2 => \A i \in 1 .. Len(mouse_packet') :
                        mouse_packet'[i] = report'[i]
  <2> SUFFICES ASSUME quiet' = 2, NEW i \in 1 .. m
               PROVE  mouse_packet'[i] = report[i]
    BY <1>2 DEF m
  <2>1. Begins /\ n < 2 /\ m = n + 1 /\ mouse_packet' = Append(mouse_packet, port.value)
    BY <1>4, <1>5, <1>9
  <2>2. CASE quiet = 2
    <3>1. sent = n + 1
      BY <1>1, <1>4, <1>8, <2>2
    <3>2. CASE i = n + 1
      BY <1>1, <2>1, <3>1, <3>2 DEF n
    <3>3. CASE i # n + 1
      <4>1. i \in 1 .. n
        BY <1>4, <2>1, <3>3
      <4> QED
        BY <1>1, <2>1, <2>2, <4>1 DEF n
    <3> QED
      BY <3>2, <3>3
  <2>3. CASE quiet # 2
    <3>1. sent = 3
      BY <1>1, <1>2, <2>3
    <3>2. m = 0
      BY <1>11, <3>1
    <3> QED
      BY <3>2
  <2> QED
    BY <2>2, <2>3
<1> QED
  BY <1>3, <1>4, <1>9, <1>14, <1>15 DEF MouseInv, PacketOK

LEMMA MouseMouse ==
  ASSUME MouseInv, mouse_irq
  PROVE  MouseInv'
<1>1. CASE port.from # "mouse" \/ (mouse_packet = <<>> /\ port.value = Ack)
  <2>1. /\ port' = [from |-> "none", value |-> port.value]
        /\ UNCHANGED <<report, sent>>
    BY DEF mouse_irq, Read, devices, MouseInv, DevicesOK
  <2>2. DevicesOK'
    BY <2>1 DEF MouseInv, DevicesOK
  <2>3. quiet' = 0
    BY <1>1 DEF mouse_irq, QuietAfter
  <2>4. port.value \in Int
    BY DEF MouseInv, DevicesOK
  <2>5. /\ mouse_packet' \in Seq(Int)
        /\ ~Begins => mouse_packet' = <<>>
        /\ Begins /\ Len(mouse_packet) < 2 =>
             mouse_packet' = Append(mouse_packet, port.value)
        /\ Begins /\ Len(mouse_packet) = 2 => mouse_packet' = <<>>
        /\ Len(mouse_packet) \in 0 .. 2
    BY <2>4, PacketStep
  <2>6. mouse_packet \in Seq(Int)
    BY DEF MouseInv, PacketOK
  <2>7. Len(mouse_packet') \in 0 .. 2
    <3>1. CASE Begins /\ Len(mouse_packet) < 2
      <4>1. Len(mouse_packet') = Len(mouse_packet) + 1
        BY <2>4, <2>5, <2>6, <3>1
      <4> QED
        BY <2>5, <3>1, <4>1
    <3>2. CASE mouse_packet' = <<>>
      BY <3>2
    <3>3. \A n \in 0 .. 2 : n < 2 \/ n = 2
      OBVIOUS
    <3> QED
      BY <2>5, <3>1, <3>2, <3>3, Zenon
  <2> QED
    BY <2>2, <2>3, <2>5, <2>7, AccidentMouse
<1> QED
  BY <1>1, TurnMouse

LEMMA MouseInvariance == Spec => []MouseInv
<1>1. Init => MouseInv
  BY InitMouse
<1>2. MouseInv /\ [Next]_vars => MouseInv'
  <2> SUFFICES ASSUME MouseInv, [Next]_vars PROVE MouseInv'
    OBVIOUS
  <2>1. ASSUME NEW k \in Keys, Press(k) \/ Release(k) PROVE MouseInv'
    BY <2>1, KeyMouse
  <2>2. CASE MouseByte
    BY <2>2, ByteMouse
  <2>3. ASSUME NEW device \in {"keyboard", "mouse"}, Deliver(device) PROVE MouseInv'
    BY <2>3, DeliverMouse
  <2>4. CASE keyboard_irq
    BY <2>4, KeyboardMouse
  <2>5. CASE mouse_irq
    BY <2>5, MouseMouse
  <2>6. CASE UNCHANGED vars
    BY <2>6, MouseStutters DEF vars, devices, drivers
  <2> QED
    BY <2>1, <2>2, <2>3, <2>4, <2>5, <2>6 DEF Next
<1> QED
  BY <1>1, <1>2, PTL DEF Spec

\* The packets that mouse_irq puts together are the mouse's reports as long as
\* no byte is lost or read twice; after such an accident, two reports of which
\* no movement byte has bit 3 set bring them back in step, from anywhere.
THEOREM PacketsStayInStep == Spec => []InStep
<1>1. MouseInv => InStep
  BY DEF MouseInv, PacketOK, Places, InStep
<1> QED
  BY <1>1, MouseInvariance, PTL

\* Eight bits and a sign bit agree on what eight bits can express.
LEMMA SignedAgrees ==
  \A byte \in Byte, sign \in 0 .. 1 :
    byte - 256 * sign \in -127 .. 127 => Signed(byte) = byte - 256 * sign
BY DEF Byte, Signed

LEMMA SignedNegated ==
  \A byte \in Byte, sign \in 0 .. 1 :
    256 * sign - byte \in -127 .. 127 => -Signed(byte) = 256 * sign - byte
BY DEF Byte, Signed

LEMMA MovementIsReported ==
  ASSUME NEW r \in Reports, ~Overflows(r), InRange(r)
  PROVE  Movement(r) = Reported(r)
<1> DEFINE right == (r[1] \div 16) % 2
           down  == (r[1] \div 32) % 2
<1>1. r[1] \in Byte /\ r[2] \in Byte /\ r[3] \in Byte
  BY ReportType
<1>2. right \in 0 .. 1 /\ down \in 0 .. 1
  BY <1>1 DEF Byte
<1>3. /\ Reported(r)[1] = r[2] - 256 * right
      /\ Reported(r)[2] = 256 * down - r[3]
      /\ Reported(r) = <<r[2] - 256 * right, 256 * down - r[3]>>
  BY DEF Reported
<1>4. Reported(r)[1] \in -127 .. 127 /\ Reported(r)[2] \in -127 .. 127
  BY DEF InRange
<1> HIDE DEF right, down
<1>5. Signed(r[2]) = r[2] - 256 * right
  <2>1. r[2] - 256 * right \in -127 .. 127
    BY <1>3, <1>4, Zenon
  <2> QED
    BY <1>1, <1>2, <2>1, SignedAgrees, Zenon
<1>6. -Signed(r[3]) = 256 * down - r[3]
  <2>1. 256 * down - r[3] \in -127 .. 127
    BY <1>3, <1>4, Zenon
  <2> QED
    BY <1>1, <1>2, <2>1, SignedNegated, Zenon
<1>7. Movement(r) = <<Signed(r[2]), -Signed(r[3])>>
  BY DEF Movement, Overflows
<1> QED
  BY <1>3, <1>5, <1>6, <1>7

\* The packet that the last byte of a report in step completes is the report.
LEMMA WholePacket ==
  ASSUME MouseInv, quiet = 2, port.from = "mouse", sent = 3
  PROVE  Len(mouse_packet) = 2 /\ Append(mouse_packet, port.value) = report
<1>1. Len(mouse_packet) = 2
  BY DEF MouseInv, PacketOK, Places, DevicesOK, Expected
<1>2. /\ mouse_packet \in Seq(Int) /\ report \in Reports
      /\ port.value = report[3] /\ port.value \in Int
      /\ \A i \in 1 .. Len(mouse_packet) : mouse_packet[i] = report[i]
  BY DEF MouseInv, PacketOK, DevicesOK
<1>3. mouse_packet[1] = report[1] /\ mouse_packet[2] = report[2]
  BY <1>1, <1>2
<1>4. mouse_packet = <<report[1], report[2]>>
  BY <1>1, <1>2, <1>3
<1>5. report = <<report[1], report[2], report[3]>>
  BY <1>2, ReportType
<1> QED
  BY <1>1, <1>2, <1>4, <1>5

\* In step, a report that eight bits can express moves the cursor by what it
\* says, at its last byte and once.
THEOREM MovesByReport == Spec => MovesAsReported
<1> DEFINE Moves ==
      handler = "mouse" /\ handler' = "none" /\ quiet = 2 /\ port.from = "mouse" =>
        moved' = IF sent = 3 /\ ~Overflows(report)
                 THEN IF InRange(report) THEN Reported(report) ELSE moved'
                 ELSE <<0, 0>>
<1>1. MouseInv /\ [Next]_vars => Moves
  <2> SUFFICES ASSUME MouseInv, [Next]_vars, handler = "mouse", handler' = "none",
                      quiet = 2, port.from = "mouse"
               PROVE  moved' = IF sent = 3 /\ ~Overflows(report)
                               THEN IF InRange(report) THEN Reported(report)
                                                       ELSE moved'
                               ELSE <<0, 0>>
    OBVIOUS
  <2>1. mouse_irq
    BY DEF Next, vars, Press, Release, MouseByte, Enters, Deliver, keyboard_irq,
           Read
  <2>2. report \in Reports /\ sent \in 1 .. 3 /\ port.value \in Int
    BY DEF MouseInv, DevicesOK
  <2>3. /\ ~Begins => moved' = <<0, 0>>
        /\ Begins /\ Len(mouse_packet) < 2 => moved' = <<0, 0>>
        /\ Begins /\ Len(mouse_packet) = 2 =>
             moved' = Movement(Append(mouse_packet, port.value))
    BY <2>1, <2>2, PacketStep
  <2>4. CASE sent < 3
    <3>1. Len(mouse_packet) = sent - 1
      BY DEF MouseInv, PacketOK, Places, Expected
    <3>2. Len(mouse_packet) < 2
      BY <2>2, <2>4, <3>1
    <3>3. moved' = <<0, 0>>
      BY <2>3, <3>2
    <3> QED
      BY <2>4, <3>3
  <2>5. CASE sent = 3
    <3>1. Len(mouse_packet) = 2 /\ Append(mouse_packet, port.value) = report
      BY <2>5, WholePacket
    <3>2. moved' = Movement(report)
      BY <2>3, <3>1 DEF Begins
    <3>3. Overflows(report) => moved' = <<0, 0>>
      BY <3>2 DEF Movement, Overflows
    <3>4. ~Overflows(report) /\ InRange(report) => moved' = Reported(report)
      BY <2>2, <3>2, MovementIsReported
    <3> QED
      BY <2>5, <3>3, <3>4
  <2> QED
    BY <2>2, <2>4, <2>5
<1>2. Spec => [][Moves]_vars
  BY <1>1, MouseInvariance, PTL DEF Spec
<1> QED
  BY <1>2 DEF MovesAsReported

-----------------------------------------------------------------------------
(* The keyboard                                                            *)

\* A Shift byte in the port is true of the keys, and unless one is there the
\* flag is.
ShiftInv ==
  /\ overlapped \in BOOLEAN
  /\ Shifts \subseteq held => overlapped
  /\ overlapped => held \cap Shifts # {}
  /\ port.from = "keyboard" /\ port.value \in Shifts => port.value \in held
  /\ port.from = "keyboard" /\ port.value \in ShiftReleases /\ ~overlapped =>
       held \cap Shifts = {}
  /\ /\ ~(port.from = "keyboard" /\ port.value \in Shifts \cup ShiftReleases)
     /\ shift_known /\ ~overlapped
     => keyboard_shift_down = (held \cap Shifts # {})

LEMMA ShiftCodes ==
  /\ Shifts = {42, 54} /\ ShiftReleases = {170, 182}
  /\ \A k \in 1 .. 127 :
       /\ k \notin ShiftReleases
       /\ k + Released \notin Shifts
       /\ k + Released \in ShiftReleases <=> k \in Shifts
BY DEF Shifts, ShiftReleases, LeftShift, RightShift, Released

LEMMA InitShift == Init => ShiftInv
<1> SUFFICES ASSUME Init PROVE ShiftInv
  OBVIOUS
<1>1. /\ port.from = "none" /\ overlapped = (Shifts \subseteq held)
      /\ shift_known = (held \cap Shifts = {}) /\ keyboard_shift_down = FALSE
  BY DEF Init
<1>2. Shifts \subseteq held => held \cap Shifts # {}
  BY ShiftCodes
<1> QED
  BY <1>1, <1>2 DEF ShiftInv

LEMMA PressShift ==
  ASSUME ShiftInv, NEW k \in Keys, Press(k)
  PROVE  ShiftInv'
<1>1. /\ port.from = "none" /\ port' = [from |-> "keyboard", value |-> k]
      /\ held' = held \cup {k}
      /\ overlapped' = (overlapped \/ Shifts \subseteq held')
      /\ UNCHANGED <<keyboard_shift_down, shift_known>>
  BY DEF Press, Enters, drivers
<1>2. k \notin ShiftReleases
  BY ShiftCodes, InputAssumption
<1>3. CASE k \in Shifts
  BY <1>1, <1>2, <1>3 DEF ShiftInv
<1>4. CASE k \notin Shifts
  <2>1. /\ held' \cap Shifts = held \cap Shifts
        /\ Shifts \subseteq held' <=> Shifts \subseteq held
    BY <1>1, <1>4
  <2>2. overlapped' = overlapped
    BY <1>1, <2>1 DEF ShiftInv
  <2> QED
    BY <1>1, <1>2, <1>4, <2>1, <2>2 DEF ShiftInv
<1> QED
  BY <1>3, <1>4

LEMMA ReleaseShift ==
  ASSUME ShiftInv, NEW k \in Keys, Release(k)
  PROVE  ShiftInv'
<1>1. /\ port.from = "none"
      /\ port' = [from |-> "keyboard", value |-> k + Released]
      /\ k \in held /\ held' = held \ {k}
      /\ overlapped' = (overlapped /\ held' \cap Shifts # {})
      /\ UNCHANGED <<keyboard_shift_down, shift_known>>
  BY DEF Release, Enters, drivers
<1>2. /\ k + Released \notin Shifts
      /\ k + Released \in ShiftReleases <=> k \in Shifts
  BY ShiftCodes, InputAssumption
<1>3. CASE k \in Shifts
  <2>1. ~(Shifts \subseteq held')
    BY <1>1, <1>3
  <2>2. ~overlapped' => held' \cap Shifts = {}
    <3>1. CASE overlapped
      BY <1>1, <3>1
    <3>2. CASE ~overlapped
      <4>1. ~(Shifts \subseteq held)
        BY <3>2 DEF ShiftInv
      <4> QED
        BY <1>1, <1>3, <4>1, ShiftCodes
    <3> QED
      BY <3>1, <3>2
  <2> QED
    BY <1>1, <1>2, <1>3, <2>1, <2>2 DEF ShiftInv
<1>4. CASE k \notin Shifts
  <2>1. /\ held' \cap Shifts = held \cap Shifts
        /\ Shifts \subseteq held' <=> Shifts \subseteq held
    BY <1>1, <1>4
  <2>2. overlapped' = overlapped
    BY <1>1, <2>1 DEF ShiftInv
  <2> QED
    BY <1>1, <1>2, <1>4, <2>1, <2>2 DEF ShiftInv
<1> QED
  BY <1>3, <1>4

LEMMA MouseByteShift ==
  ASSUME ShiftInv, MouseByte
  PROVE  ShiftInv'
<1>1. /\ port.from = "none" /\ \E v : port' = [from |-> "mouse", value |-> v]
      /\ UNCHANGED <<held, overlapped, keyboard_shift_down, shift_known>>
  BY DEF MouseByte, Enters, drivers
<1> QED
  BY <1>1 DEF ShiftInv

LEMMA DeliverShift ==
  ASSUME ShiftInv, NEW device, Deliver(device)
  PROVE  ShiftInv'
BY DEF ShiftInv, Deliver, devices

LEMMA KeyboardShift ==
  ASSUME ShiftInv, MouseInv, keyboard_irq
  PROVE  ShiftInv'
<1> DEFINE code == port.value
<1>1. /\ port' = [from |-> "none", value |-> code]
      /\ UNCHANGED <<held, overlapped>>
      /\ shift_known' = (/\ port.from = "keyboard"
                         /\ shift_known \/ code \in Shifts \cup ShiftReleases)
      /\ code \in Shifts => keyboard_shift_down' = TRUE
      /\ code \in ShiftReleases => keyboard_shift_down' = FALSE
      /\ code \notin Shifts \cup ShiftReleases =>
           keyboard_shift_down' = keyboard_shift_down
  <2>1. port' = [from |-> "none", value |-> code] /\ UNCHANGED <<held, overlapped>>
    BY DEF keyboard_irq, Read, devices, MouseInv, DevicesOK
  <2>2. /\ shift_known' = (/\ port.from = "keyboard"
                           /\ shift_known \/ code \in Shifts \cup ShiftReleases)
        /\ keyboard_shift_down' = CASE code \in Shifts -> TRUE
                                    [] code \in ShiftReleases -> FALSE
                                    [] OTHER -> keyboard_shift_down
    BY DEF keyboard_irq
  <2>3. ~(code \in Shifts /\ code \in ShiftReleases)
    BY ShiftCodes
  <2> HIDE DEF code
  <2> QED
    BY <2>1, <2>2, <2>3
<1> HIDE DEF code
<1>2. CASE port.from # "keyboard"
  BY <1>1, <1>2 DEF ShiftInv
<1>3. CASE port.from = "keyboard" /\ code \in Shifts
  BY <1>1, <1>3 DEF ShiftInv, code
<1>4. CASE port.from = "keyboard" /\ code \in ShiftReleases
  BY <1>1, <1>4 DEF ShiftInv, code
<1>5. CASE port.from = "keyboard" /\ code \notin Shifts \cup ShiftReleases
  BY <1>1, <1>5 DEF ShiftInv, code
<1> QED
  BY <1>2, <1>3, <1>4, <1>5

LEMMA MouseShift ==
  ASSUME ShiftInv, MouseInv, mouse_irq
  PROVE  ShiftInv'
<1>1. /\ port' = [from |-> "none", value |-> port.value]
      /\ UNCHANGED <<held, overlapped, keyboard_shift_down>>
      /\ shift_known' = (shift_known /\ port.from # "keyboard")
  BY DEF mouse_irq, Read, devices, MouseInv, DevicesOK
<1> QED
  BY <1>1 DEF ShiftInv

LEMMA ShiftInvariance == Spec => []ShiftInv
<1>1. Init => ShiftInv
  BY InitShift
<1>2. ShiftInv /\ MouseInv /\ [Next]_vars => ShiftInv'
  <2> SUFFICES ASSUME ShiftInv, MouseInv, [Next]_vars PROVE ShiftInv'
    OBVIOUS
  <2>1. ASSUME NEW k \in Keys, Press(k) PROVE ShiftInv'
    BY <2>1, PressShift
  <2>2. ASSUME NEW k \in Keys, Release(k) PROVE ShiftInv'
    BY <2>2, ReleaseShift
  <2>3. CASE MouseByte
    BY <2>3, MouseByteShift
  <2>4. ASSUME NEW device \in {"keyboard", "mouse"}, Deliver(device) PROVE ShiftInv'
    BY <2>4, DeliverShift
  <2>5. CASE keyboard_irq
    BY <2>5, KeyboardShift
  <2>6. CASE mouse_irq
    BY <2>6, MouseShift
  <2>7. CASE UNCHANGED vars
    BY <2>7 DEF ShiftInv, vars, devices, drivers
  <2> QED
    BY <2>1, <2>2, <2>3, <2>4, <2>5, <2>6, <2>7 DEF Next
<1> QED
  BY <1>1, <1>2, MouseInvariance, PTL DEF Spec

\* A key types its character with Shift exactly if a Shift key is down, unless
\* the two overlap, from the first Shift key on after a byte went astray.
THEOREM TypesByShift == Spec => TypedAsHeld
<1> DEFINE Types ==
      handler = "keyboard" /\ handler' = "none" /\ port.from = "keyboard"
        /\ shift_known /\ port.value \notin Shifts =>
          \/ overlapped
          \/ typed' = keyboard_scancode_to_character(port.value,
                                                     held \cap Shifts # {})
<1>1. ShiftInv /\ [Next]_vars => Types
  <2> SUFFICES ASSUME ShiftInv, [Next]_vars, handler = "keyboard",
                      handler' = "none", port.from = "keyboard", shift_known,
                      port.value \notin Shifts, ~overlapped
               PROVE  typed' = keyboard_scancode_to_character(port.value,
                                                     held \cap Shifts # {})
    OBVIOUS
  <2>1. keyboard_irq
    BY DEF Next, vars, Press, Release, MouseByte, Enters, Deliver, mouse_irq, Read
  <2>2. CASE port.value \in ShiftReleases
    <3>1. typed' = "none"
      BY <2>1, <2>2 DEF keyboard_irq
    <3>2. port.value \notin Codes
      BY <2>2, ShiftCodes DEF Codes
    <3> QED
      BY <3>1, <3>2 DEF keyboard_scancode_to_character
  <2>3. CASE port.value \notin ShiftReleases
    <3>1. typed' = keyboard_scancode_to_character(port.value, keyboard_shift_down)
      BY <2>1, <2>3 DEF keyboard_irq
    <3>2. keyboard_shift_down = (held \cap Shifts # {})
      BY <2>3 DEF ShiftInv
    <3> QED
      BY <3>1, <3>2
  <2> QED
    BY <2>2, <2>3
<1>2. Spec => [][Types]_vars
  BY <1>1, ShiftInvariance, PTL DEF Spec
<1> QED
  BY <1>2 DEF TypedAsHeld
=============================================================================
