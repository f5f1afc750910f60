----------------------------- MODULE ShellProofs -----------------------------
(***************************************************************************)
(* The command line of the shell implements LineEditor, and the screen     *)
(* shows it and is readable, for every alphabet, every length of the       *)
(* buffer, every set of commands and every screen.                         *)
(***************************************************************************)
EXTENDS Shell, SequenceTheorems, NaturalsInduction, WellFoundedInduction, TLAPS

-----------------------------------------------------------------------------
(* The buffer                                                              *)

\* The slots below the length hold what was typed, those above it anything that
\* was typed before.
BufferOK ==
  /\ command_buffer \in [0 .. MaxLine -> Characters \cup {"zero"}]
  /\ current_buffer_length \in 0 .. MaxLine
  /\ \A slot \in 0 .. current_buffer_length - 1 : command_buffer[slot] \in Characters
  /\ halted \in BOOLEAN

LEMMA LineType ==
  ASSUME BufferOK
  PROVE  /\ Line \in Seq(Characters) /\ Len(Line) = current_buffer_length
         /\ current_buffer_length \in Nat
         /\ \A i \in 1 .. current_buffer_length : Line[i] = command_buffer[i - 1]
<1>1. current_buffer_length \in Nat
  BY ShellAssumption DEF BufferOK
<1>2. \A i \in 1 .. current_buffer_length : command_buffer[i - 1] \in Characters
  BY <1>1 DEF BufferOK
<1>3. Line \in [1 .. current_buffer_length -> Characters]
  BY <1>2 DEF Line
<1>4. Line \in Seq(Characters)
  BY <1>1, <1>3, SeqDef
<1>5. Len(Line) = current_buffer_length
  BY <1>1, <1>3, <1>4, LenProperties
<1> QED
  BY <1>1, <1>4, <1>5 DEF Line

LEMMA LineTypeNext ==
  ASSUME BufferOK'
  PROVE  /\ Line' \in Seq(Characters) /\ Len(Line') = current_buffer_length'
         /\ \A i \in 1 .. current_buffer_length' : Line'[i] = command_buffer'[i - 1]
<1>1. (BufferOK =>
         /\ Line \in Seq(Characters) /\ Len(Line) = current_buffer_length
         /\ current_buffer_length \in Nat
         /\ \A i \in 1 .. current_buffer_length : Line[i] = command_buffer[i - 1])'
  BY LineType, PTL
<1> QED
  BY <1>1

LEMMA BufferInit ==
  ASSUME Init
  PROVE  BufferOK
<1>1. /\ command_buffer = [slot \in 0 .. MaxLine |-> "zero"] /\ current_buffer_length = 0
      /\ halted = FALSE
  BY DEF Init
<1>2. command_buffer \in [0 .. MaxLine -> Characters \cup {"zero"}]
  BY <1>1
<1>3. 0 \in 0 .. MaxLine /\ 0 .. 0 - 1 = {}
  BY ShellAssumption
<1>4. halted \in BOOLEAN
  BY <1>1
<1> QED
  BY <1>1, <1>2, <1>3, <1>4 DEF BufferOK

LEMMA BufferNext ==
  ASSUME BufferOK, [Next]_vars
  PROVE  BufferOK'
<1>0. MaxLine \in Nat
  BY ShellAssumption
<1>1. CASE Backspace
  BY <1>0, <1>1 DEF Backspace, BufferOK
<1>2. CASE Enter
  <2>1. /\ command_buffer' = command_buffer
        /\ \/ current_buffer_length' = 0 /\ halted' = halted
           \/ current_buffer_length' = current_buffer_length /\ halted' = TRUE
    BY <1>2 DEF Enter
  <2>2. /\ command_buffer' \in [0 .. MaxLine -> Characters \cup {"zero"}]
        /\ current_buffer_length' \in 0 .. MaxLine
        /\ \A slot \in 0 .. current_buffer_length' - 1 : command_buffer'[slot] \in Characters
    BY <1>0, <2>1 DEF BufferOK
  <2>3. halted' \in BOOLEAN
    BY <2>1 DEF BufferOK
  <2> QED
    BY <2>2, <2>3 DEF BufferOK
<1>3. ASSUME NEW c \in Characters, Character(c) PROVE BufferOK'
  BY <1>0, <1>3 DEF Character, BufferOK
<1>4. CASE UNCHANGED vars
  BY <1>4 DEF vars, BufferOK
<1> QED
  BY <1>1, <1>2, <1>3, <1>4 DEF Next, Rebooted

-----------------------------------------------------------------------------
(* The comparisons                                                         *)

LEMMA Equal ==
  ASSUME BufferOK, NEW name \in Seq(Characters)
  PROVE  shell_command_is(name) = (Line = name)
<1>1. /\ Line \in Seq(Characters) /\ Len(Line) = current_buffer_length
      /\ current_buffer_length \in Nat
      /\ \A i \in 1 .. current_buffer_length : Line[i] = command_buffer[i - 1]
  BY LineType
<1>2. ASSUME shell_command_is(name) PROVE Line = name
  <2>1. Len(name) = Len(Line) /\ \A i \in 1 .. Len(Line) : Line[i] = name[i]
    BY <1>1, <1>2 DEF shell_command_is
  <2> QED
    BY <1>1, <2>1, SeqEqual
<1>3. ASSUME Line = name PROVE shell_command_is(name)
  BY <1>1, <1>3 DEF shell_command_is
<1> QED
  BY <1>2, <1>3 DEF shell_command_is

Echo == Names["ECHO"] \o <<Space>>

LEMMA EchoType ==
  /\ Names["ECHO"] \in Seq(Characters) /\ "ECHO" \in DOMAIN Names
  /\ Echo \in Seq(Characters \cup {Space})
  /\ Len(Names["ECHO"]) \in Nat /\ Len(Echo) = Len(Names["ECHO"]) + 1
  /\ \A i \in 1 .. Len(Names["ECHO"]) : Echo[i] = Names["ECHO"][i]
  /\ Echo[Len(Names["ECHO"]) + 1] = Space
<1>1. Names["ECHO"] \in Seq(Characters) /\ "ECHO" \in DOMAIN Names
  BY ShellAssumption
<1> DEFINE S == Characters \cup {Space}
           e == Names["ECHO"]
<1>2. e \in Seq(S) /\ <<Space>> \in Seq(S) /\ Len(<<Space>>) = 1 /\ <<Space>>[1] = Space
  BY <1>1, SeqMonotonic
<1> HIDE DEF e, S
<1>3. /\ e \o <<Space>> \in Seq(S) /\ Len(e \o <<Space>>) = Len(e) + 1 /\ Len(e) \in Nat
      /\ \A i \in 1 .. Len(e) + 1 :
           (e \o <<Space>>)[i] = IF i <= Len(e) THEN e[i] ELSE <<Space>>[i - Len(e)]
  BY <1>2, ConcatProperties, LenProperties
<1>4. Len(e) + 1 - Len(e) = 1
  BY <1>3
<1> QED
  BY <1>1, <1>2, <1>3, <1>4 DEF e, S, Echo

\* A sequence is a prefix if its elements are.
LEMMA Prefix ==
  ASSUME NEW S, NEW s \in Seq(S), NEW t \in Seq(S)
  PROVE  IsPrefix(s, t) = (Len(s) <= Len(t) /\ \A i \in 1 .. Len(s) : s[i] = t[i])
<1>1. Len(s) \in Nat /\ Len(t) \in Nat /\ SubSeq(s, 1, Len(s)) = s
  BY LenProperties, SubSeqFull
<1>2. ASSUME Len(s) <= Len(t)
      PROVE  /\ SubSeq(t, 1, Len(s)) \in Seq(S) /\ Len(SubSeq(t, 1, Len(s))) = Len(s)
             /\ \A i \in 1 .. Len(s) : SubSeq(t, 1, Len(s))[i] = t[i]
  <2>1. \A i \in 1 .. Len(s) : t[i] \in S
    BY <1>1, <1>2, ElementOfSeq
  <2>2. /\ SubSeq(t, 1, Len(s)) \in Seq(S)
        /\ Len(SubSeq(t, 1, Len(s))) = IF 1 <= Len(s) THEN Len(s) - 1 + 1 ELSE 0
        /\ \A i \in 1 .. Len(s) - 1 + 1 : SubSeq(t, 1, Len(s))[i] = t[1 + i - 1]
    BY <1>1, <2>1, SubSeqProperties
  <2> QED
    BY <1>1, <2>2
<1>3. ASSUME IsPrefix(s, t) PROVE Len(s) <= Len(t) /\ \A i \in 1 .. Len(s) : s[i] = t[i]
  BY <1>1, <1>2, <1>3 DEF IsPrefix
<1>4. ASSUME Len(s) <= Len(t), \A i \in 1 .. Len(s) : s[i] = t[i] PROVE IsPrefix(s, t)
  <2>1. s = SubSeq(t, 1, Len(s))
    BY <1>2, <1>4, SeqEqual
  <2> QED
    BY <1>1, <1>4, <2>1 DEF IsPrefix
<1> QED
  BY <1>3, <1>4 DEF IsPrefix

LEMMA StartsWith ==
  ASSUME BufferOK
  PROVE  shell_command_starts_with(Names["ECHO"])
           = (Line = Names["ECHO"] \/ IsPrefix(Echo, Line))
<1> DEFINE e == Names["ECHO"]
           n == current_buffer_length
           S == Characters \cup {Space}
<1>1. /\ Line \in Seq(Characters) /\ Len(Line) = n /\ n \in Nat
      /\ \A i \in 1 .. n : Line[i] = command_buffer[i - 1]
  BY LineType
<1>2. /\ e \in Seq(Characters) /\ Len(e) \in Nat /\ Echo \in Seq(S)
      /\ Len(Echo) = Len(e) + 1 /\ Echo[Len(e) + 1] = Space
      /\ \A i \in 1 .. Len(e) : Echo[i] = e[i]
  BY EchoType
<1>3. IsPrefix(Echo, Line) = (Len(Echo) <= n /\ \A i \in 1 .. Len(Echo) : Echo[i] = Line[i])
  <2>1. Line \in Seq(S)
    BY <1>1, SeqMonotonic
  <2> HIDE DEF S
  <2> QED
    BY <1>1, <1>2, <2>1, Prefix
<1> HIDE DEF S
<1>4. ASSUME shell_command_starts_with(e) PROVE Line = e \/ IsPrefix(Echo, Line)
  <2>1. /\ Len(e) <= n /\ \A i \in 1 .. Len(e) : command_buffer[i - 1] = e[i]
        /\ Len(e) = n \/ command_buffer[Len(e)] = Space
    BY <1>4 DEF shell_command_starts_with
  <2>2. CASE Len(e) = n
    <3>1. shell_command_is(e)
      BY <2>1, <2>2 DEF shell_command_is
    <3> QED
      BY <1>2, <3>1, Equal
  <2>3. CASE Len(e) # n
    <3> HIDE DEF e, n
    <3>1. Len(Echo) <= n
      BY <1>1, <1>2, <2>1, <2>3
    <3>2. ASSUME NEW i \in 1 .. Len(Echo) PROVE Echo[i] = Line[i]
      <4>1. CASE i \in 1 .. Len(e)
        BY <1>1, <1>2, <2>1, <4>1
      <4>2. CASE i = Len(e) + 1
        <5>1. Line[Len(e) + 1] = command_buffer[Len(e) + 1 - 1] /\ Len(e) + 1 - 1 = Len(e)
          BY <1>1, <1>2, <3>1
        <5> QED
          BY <1>2, <2>1, <2>3, <4>2, <5>1
      <4> QED
        BY <1>2, <4>1, <4>2
    <3> QED
      BY <1>3, <3>1, <3>2
  <2> QED
    BY <2>2, <2>3
<1>5. ASSUME Line = e PROVE shell_command_starts_with(e)
  <2>1. shell_command_is(e)
    BY <1>2, <1>5, Equal
  <2> QED
    BY <1>2, <2>1 DEF shell_command_is, shell_command_starts_with
<1>6. ASSUME IsPrefix(Echo, Line) PROVE shell_command_starts_with(e)
  <2> HIDE DEF e, n
  <2>1. Len(e) + 1 <= n /\ \A i \in 1 .. Len(e) + 1 : Echo[i] = Line[i]
    BY <1>2, <1>3, <1>6
  <2>2. \A i \in 1 .. Len(e) : command_buffer[i - 1] = e[i]
    BY <1>1, <1>2, <2>1
  <2>3. command_buffer[Len(e)] = Space
    <3>1. Line[Len(e) + 1] = command_buffer[Len(e) + 1 - 1] /\ Len(e) + 1 - 1 = Len(e)
          /\ Line[Len(e) + 1] = Echo[Len(e) + 1]
      BY <1>1, <1>2, <2>1
    <3> QED
      BY <1>2, <3>1
  <2>4. Len(e) <= n
    BY <1>1, <1>2, <2>1
  <2> QED
    BY <2>2, <2>3, <2>4 DEF shell_command_starts_with, n
<1> QED
  BY <1>4, <1>5, <1>6 DEF shell_command_starts_with

-----------------------------------------------------------------------------
(* The line editor                                                         *)

LEMMA MeaningIs ==
  ASSUME BufferOK, ~halted
  PROVE  Editor!Meaning(Line)
           = [command |-> Command, text |-> IF Command = "ECHO" THEN Echoed ELSE <<>>]
<1>1. \A c \in DOMAIN Names : shell_command_is(Names[c]) = (Line = Names[c])
  BY Equal, ShellAssumption
<1>2. \A c, d \in DOMAIN Names : c # d => Names[c] # Names[d] /\ ~IsPrefix(Echo, Names[c])
  BY ShellAssumption DEF Echo
<1>3. Editor!Meaning(Line)
        = CASE \E c \in DOMAIN Names : Line = Names[c] ->
                 [command |-> CHOOSE c \in DOMAIN Names : Line = Names[c], text |-> <<>>]
            [] IsPrefix(Echo, Line) ->
                 [command |-> "ECHO", text |-> SubSeq(Line, Len(Echo) + 1, Len(Line))]
            [] OTHER -> [command |-> "UNKNOWN", text |-> <<>>]
  BY DEF Editor!Meaning, Echo
<1>4. "ECHO" \in DOMAIN Names /\ "CLEAR" \in DOMAIN Names
  BY ShellAssumption
<1>5. \A c \in DOMAIN Names : ~IsPrefix(Echo, Names[c])
  BY <1>2, <1>4
<1>6. CASE \E c \in DOMAIN Names \ {"ECHO"} : Line = Names[c]
  <2>1. PICK c \in DOMAIN Names \ {"ECHO"} : Line = Names[c]
    BY <1>6
  <2>2. Command = c
    <3>1. Command = CHOOSE d \in DOMAIN Names \ {"ECHO"} : shell_command_is(Names[d])
      BY <1>1, <2>1 DEF Command
    <3>2. \A d \in DOMAIN Names \ {"ECHO"} : shell_command_is(Names[d]) => d = c
      BY <1>1, <1>2, <2>1
    <3>3. shell_command_is(Names[c])
      BY <1>1, <2>1
    <3> QED
      BY <3>1, <3>2, <3>3, Zenon
  <2>3. (CHOOSE d \in DOMAIN Names : Line = Names[d]) = c
    <3>1. \A d \in DOMAIN Names : Line = Names[d] => d = c
      BY <1>2, <2>1
    <3> QED
      BY <2>1, <3>1, Zenon
  <2>4. ~IsPrefix(Echo, Line)
    BY <1>5, <2>1
  <2>5. Editor!Meaning(Line) = [command |-> c, text |-> <<>>]
    BY <1>3, <2>1, <2>3, <2>4
  <2> QED
    BY <2>1, <2>2, <2>5
<1>7. CASE Line = Names["ECHO"] /\ ~\E c \in DOMAIN Names \ {"ECHO"} : Line = Names[c]
  <2>1. Command = "ECHO"
    BY <1>1, <1>7, StartsWith DEF Command
  <2>2. Echoed = <<>>
    <3>1. Len(Names["ECHO"]) = current_buffer_length /\ current_buffer_length \in Nat
      BY <1>7, LineType
    <3>2. current_buffer_length < Len(Names["ECHO"]) + 2
      BY <3>1
    <3> QED
      BY <3>1, <3>2, SubSeqEmpty DEF Echoed
  <2>3. (CHOOSE d \in DOMAIN Names : Line = Names[d]) = "ECHO"
    <3>1. \A d \in DOMAIN Names : Line = Names[d] => d = "ECHO"
      BY <1>7
    <3> QED
      BY <1>4, <1>7, <3>1, Zenon
  <2>4. ~IsPrefix(Echo, Line)
    BY <1>4, <1>5, <1>7
  <2>5. Editor!Meaning(Line) = [command |-> "ECHO", text |-> <<>>]
    BY <1>3, <1>4, <1>7, <2>3, <2>4
  <2> QED
    BY <2>1, <2>2, <2>5
<1>8. CASE IsPrefix(Echo, Line) /\ ~\E c \in DOMAIN Names : Line = Names[c]
  <2>1. Command = "ECHO"
    BY <1>1, <1>8, StartsWith DEF Command
  <2>2. Echoed = SubSeq(Line, Len(Echo) + 1, Len(Line))
    <3>1. Len(Echo) + 1 = Len(Names["ECHO"]) + 2
      BY EchoType
    <3>2. Len(Line) = current_buffer_length
      BY LineType
    <3> QED
      BY <3>1, <3>2 DEF Echoed
  <2>3. Editor!Meaning(Line)
          = [command |-> "ECHO", text |-> SubSeq(Line, Len(Echo) + 1, Len(Line))]
    BY <1>3, <1>8
  <2> QED
    BY <2>1, <2>2, <2>3
<1>9. CASE ~IsPrefix(Echo, Line) /\ ~\E c \in DOMAIN Names : Line = Names[c]
  <2>1. Command = "UNKNOWN"
    BY <1>1, <1>4, <1>9, StartsWith DEF Command
  <2>2. Editor!Meaning(Line) = [command |-> "UNKNOWN", text |-> <<>>]
    BY <1>3, <1>9
  <2> QED
    BY <2>1, <2>2
<1> QED
  BY <1>6, <1>7, <1>8, <1>9

LEMMA InitImplements ==
  ASSUME Init
  PROVE  Editor!Init
<1>1. current_buffer_length = 0 /\ halted = FALSE /\ answer = [command |-> "none", text |-> <<>>]
  BY DEF Init
<1>2. Line = <<>>
  BY <1>1, BufferInit, LineType
<1> QED
  BY <1>1, <1>2 DEF Editor!Init

LEMMA TypeImplements ==
  ASSUME BufferOK, BufferOK', NEW c \in Characters, Character(c)
  PROVE  Editor!Type(c)
<1>1. /\ ~halted /\ ~halted' /\ current_buffer_length < MaxLine
      /\ command_buffer' = [command_buffer EXCEPT ![current_buffer_length] = c]
      /\ current_buffer_length' = current_buffer_length + 1
      /\ UNCHANGED <<answer, halted>>
  BY DEF Character
<1>2. /\ Line \in Seq(Characters) /\ Len(Line) = current_buffer_length
      /\ current_buffer_length \in Nat
      /\ \A i \in 1 .. current_buffer_length : Line[i] = command_buffer[i - 1]
  BY LineType
<1>3. /\ Line' \in Seq(Characters) /\ Len(Line') = current_buffer_length'
      /\ \A i \in 1 .. current_buffer_length' : Line'[i] = command_buffer'[i - 1]
  BY LineTypeNext
<1>4. Line' = Append(Line, c)
  <2>1. /\ Append(Line, c) \in Seq(Characters) /\ Len(Append(Line, c)) = Len(Line) + 1
        /\ \A i \in 1 .. Len(Line) : Append(Line, c)[i] = Line[i]
        /\ Append(Line, c)[Len(Line) + 1] = c
    BY <1>2, AppendProperties
  <2>2. command_buffer \in [0 .. MaxLine -> Characters \cup {"zero"}]
    BY DEF BufferOK
  <2>3. MaxLine \in Nat
    BY ShellAssumption
  <2>4. ASSUME NEW i \in 1 .. Len(Line') PROVE Line'[i] = Append(Line, c)[i]
    <3>1. CASE i \in 1 .. Len(Line)
      <4>1. i - 1 # current_buffer_length /\ i - 1 \in 0 .. MaxLine
        BY <1>1, <1>2, <2>3, <3>1
      <4> QED
        BY <1>1, <1>2, <1>3, <2>1, <2>2, <2>4, <3>1, <4>1
    <3>2. CASE i = Len(Line) + 1
      <4>1. i - 1 = current_buffer_length /\ i - 1 \in 0 .. MaxLine
        BY <1>1, <1>2, <2>3, <3>2
      <4> QED
        BY <1>1, <1>2, <1>3, <2>1, <2>2, <2>4, <3>2, <4>1
    <3> QED
      BY <1>1, <1>2, <1>3, <3>1, <3>2
  <2>5. Len(Line') = Len(Append(Line, c))
    BY <1>1, <1>2, <1>3, <2>1
  <2> QED
    BY <1>3, <2>1, <2>4, <2>5, SeqEqual
<1> QED
  BY <1>1, <1>2, <1>4 DEF Editor!Type

LEMMA EraseImplements ==
  ASSUME BufferOK, BufferOK', Backspace
  PROVE  Editor!Erase
<1>1. /\ ~halted /\ ~halted' /\ current_buffer_length # 0
      /\ command_buffer' = command_buffer
      /\ current_buffer_length' = current_buffer_length - 1
      /\ UNCHANGED <<answer, halted>>
  BY DEF Backspace
<1>2. /\ Line \in Seq(Characters) /\ Len(Line) = current_buffer_length
      /\ current_buffer_length \in Nat
      /\ \A i \in 1 .. current_buffer_length : Line[i] = command_buffer[i - 1]
  BY LineType
<1>3. /\ Line' \in Seq(Characters) /\ Len(Line') = current_buffer_length'
      /\ \A i \in 1 .. current_buffer_length' : Line'[i] = command_buffer'[i - 1]
  BY LineTypeNext
<1>4. Line' = SubSeq(Line, 1, Len(Line) - 1)
  <2>1. \A i \in 1 .. Len(Line) - 1 : Line[i] \in Characters
    BY <1>2, ElementOfSeq
  <2>2. /\ SubSeq(Line, 1, Len(Line) - 1) \in Seq(Characters)
        /\ Len(SubSeq(Line, 1, Len(Line) - 1)) = IF 1 <= Len(Line) - 1 THEN Len(Line) - 1 - 1 + 1 ELSE 0
        /\ \A i \in 1 .. Len(Line) - 1 - 1 + 1 : SubSeq(Line, 1, Len(Line) - 1)[i] = Line[1 + i - 1]
    BY <1>2, <2>1, SubSeqProperties
  <2>3. Len(SubSeq(Line, 1, Len(Line) - 1)) = Len(Line')
    BY <1>1, <1>2, <1>3, <2>2
  <2>4. ASSUME NEW i \in 1 .. Len(Line') PROVE Line'[i] = SubSeq(Line, 1, Len(Line) - 1)[i]
    <3>1. Line'[i] = command_buffer[i - 1] /\ Line[i] = command_buffer[i - 1]
      BY <1>1, <1>2, <1>3
    <3>2. SubSeq(Line, 1, Len(Line) - 1)[i] = Line[i]
      BY <1>1, <1>2, <1>3, <2>2
    <3> QED
      BY <3>1, <3>2
  <2> QED
    BY <1>3, <2>2, <2>3, <2>4, SeqEqual
<1>5. Line # <<>>
  BY <1>1, <1>2
<1> QED
  BY <1>1, <1>4, <1>5 DEF Editor!Erase, Editor!Front

LEMMA EnterImplements ==
  ASSUME BufferOK, BufferOK', Enter
  PROVE  Editor!Enter
<1>1. /\ ~halted
      /\ answer' = [command |-> Command, text |-> IF Command = "ECHO" THEN Echoed ELSE <<>>]
  BY DEF Enter
<1>2. answer' = Editor!Meaning(Line) /\ answer'.command = Command
  BY <1>1, MeaningIs
<1>0. halted' \in BOOLEAN
  BY DEF BufferOK
<1>3. /\ halted' => Command = "REBOOT"
      /\ Command = "REBOOT" => halted'
      /\ ~halted' => current_buffer_length' = 0
  <2>1. CASE Command = "CLEAR"
    <3>1. current_buffer_length' = 0 /\ ~halted'
      BY <1>1, <2>1 DEF Enter
    <3> QED
      BY <2>1, <3>1
  <2>2. CASE Command = "REBOOT"
    BY <1>1, <2>2 DEF Enter
  <2>3. CASE Command \notin {"CLEAR", "REBOOT"}
    <3>1. current_buffer_length' = 0 /\ ~halted'
      BY <1>1, <2>3 DEF Enter
    <3> QED
      BY <2>3, <3>1
  <2> QED
    BY <2>1, <2>2, <2>3
<1>4. (IF halted' THEN <<>> ELSE Line') = <<>>
  <2>1. CASE ~halted'
    BY <1>3, <2>1, LineTypeNext
  <2> QED
    BY <2>1
<1>5. halted' = (Command = "REBOOT")
  BY <1>0, <1>3
<1> QED
  BY <1>1, <1>2, <1>4, <1>5 DEF Editor!Enter

LEMMA StepImplements ==
  ASSUME BufferOK, BufferOK', [Next]_vars
  PROVE  [Editor!Next]_(Editor!vars)
<1>1. CASE UNCHANGED vars
  BY <1>1 DEF vars, Editor!vars, Line
<1>2. CASE Backspace
  BY <1>2, EraseImplements DEF Editor!Next
<1>3. CASE Enter
  BY <1>3, EnterImplements DEF Editor!Next
<1>4. ASSUME NEW c \in Characters, Character(c) PROVE [Editor!Next]_(Editor!vars)
  BY <1>4, TypeImplements DEF Editor!Next
<1> QED
  BY <1>1, <1>2, <1>3, <1>4 DEF Next, Rebooted

\* The buffer, with all that older lines have left in it, and the comparisons with
\* the names implement a line editor: Enter runs the command that the line means.
THEOREM Implements == Spec => ImplementsLineEditor
<1>1. Editor!Spec <=> Editor!Init /\ [][Editor!Next]_(Editor!vars)
  BY DEF Editor!Spec
<1>2. BufferOK /\ [Next]_vars => BufferOK'
  BY BufferNext
<1>3. BufferOK /\ BufferOK' /\ [Next]_vars => [Editor!Next]_(Editor!vars)
  BY StepImplements
<1>4. Init => Editor!Init /\ BufferOK
  BY InitImplements, BufferInit
<1> QED
  BY <1>1, <1>2, <1>3, <1>4, PTL DEF Spec, ImplementsLineEditor

-----------------------------------------------------------------------------
(* Folds over a text                                                       *)

\* What holds at 0 and goes on from one number to the next holds up to n: the
\* set of those where it does not has no least element.
LEMMA UpTo ==
  ASSUME NEW n \in Nat, NEW S, 0 \in S,
         \A k \in 1 .. n : k - 1 \in S => k \in S
  PROVE  0 .. n \subseteq S
<1> DEFINE B == (0 .. n) \ S
           R == {ss \in Nat \X Nat : ss[1] < ss[2]}
<1>1. SUFFICES ASSUME B # {} PROVE FALSE
  OBVIOUS
<1>2. IsWellFoundedOn(R, Nat)
  BY NatLessThanWellFounded DEF OpToRel
<1>3. PICK k \in B : \A j \in B : <<j, k>> \notin R
  <2>1. B \subseteq Nat
    OBVIOUS
  <2> HIDE DEF B, R
  <2> QED
    BY <1>1, <1>2, <2>1, WFMin, Zenon
<1>4. k \in 1 .. n /\ k - 1 \in (0 .. n) /\ k - 1 \in Nat /\ k \in Nat
  BY <1>3
<1>5. k - 1 \notin B
  <2>1. k - 1 < k
    BY <1>4
  <2> QED
    BY <1>3, <1>4, <2>1
<1> QED
  BY <1>3, <1>4, <1>5

\* A set of numbers up to n has a greatest one, which is n if n is in it.
LEMMA MaxIs ==
  ASSUME NEW n \in Nat, NEW s \in SUBSET (1 .. n), s # {}
  PROVE  /\ Max(s) \in s /\ \A y \in s : Max(s) >= y
         /\ n \in s => Max(s) = n
<1> DEFINE S == {k \in 0 .. n : s \subseteq 1 .. k => s = {} \/ \E x \in s : \A y \in s : x >= y}
<1>1. 0 \in S
  BY SMT
<1>2. ASSUME NEW k \in 1 .. n, k - 1 \in S PROVE k \in S
  <2>1. SUFFICES ASSUME s \subseteq 1 .. k PROVE s = {} \/ \E x \in s : \A y \in s : x >= y
    OBVIOUS
  <2>2. CASE k \in s
    BY <2>1, <2>2
  <2>3. CASE k \notin s
    <3>1. s \subseteq 1 .. k - 1
      BY <2>1, <2>3
    <3> QED
      BY <1>2, <3>1
  <2> QED
    BY <2>2, <2>3
<1>3. n \in S
  <2>1. 0 .. n \subseteq S
    <3> HIDE DEF S
    <3> QED
      BY <1>1, <1>2, UpTo
  <2> QED
    BY <2>1
<1>4. \E x \in s : \A y \in s : x >= y
  BY <1>3
<1>5. Max(s) \in s /\ \A y \in s : Max(s) >= y
  BY <1>4, Zenon DEF Max
<1>6. ASSUME n \in s PROVE Max(s) = n
  <2>1. Max(s) \in 1 .. n /\ Max(s) >= n
    BY <1>5, <1>6
  <2> QED
    BY <2>1
<1> QED
  BY <1>5, <1>6

LEMMA Segment ==
  ASSUME NEW n \in Nat, NEW k \in 1 .. n
  PROVE  /\ 1 .. k \in SUBSET (1 .. n) /\ 1 .. k # {} /\ k \in 0 .. n /\ k - 1 \in 0 .. n
         /\ (1 .. k) \ {k} = 1 .. (k - 1) /\ k \in Nat /\ k \in 1 .. k
         /\ 1 .. k \in SUBSET (1 .. k)
OBVIOUS

\* The function that a fold over 1 .. n builds, with the step as a function F.
IsFold(iter, base, F, n) ==
  iter = [s \in SUBSET (1 .. n) |->
            IF s = {} THEN base ELSE F[<<iter[s \ {Max(s)}], Max(s)>>]]

\* There is such a function, and it stays in the set that F stays in.
LEMMA FoldExists ==
  ASSUME NEW n \in Nat, NEW A, NEW base \in A, NEW F \in [A \X (1 .. n) -> A]
  PROVE  \E iter \in [SUBSET (1 .. n) -> A] : IsFold(iter, base, F, n)
<1> DEFINE S == {k \in 0 .. n : \E g \in [SUBSET (1 .. k) -> A] : IsFold(g, base, F, k)}
<1>1. 0 \in S
  <2> DEFINE g == [s \in SUBSET (1 .. 0) |-> base]
  <2>1. g \in [SUBSET (1 .. 0) -> A]
    OBVIOUS
  <2>2. \A s \in SUBSET (1 .. 0) : s = {}
    BY SMT
  <2>3. IsFold(g, base, F, 0)
    BY <2>2 DEF IsFold
  <2> QED
    BY <2>1, <2>3
<1>2. ASSUME NEW k \in 1 .. n, k - 1 \in S PROVE k \in S
  <2>1. PICK g \in [SUBSET (1 .. k - 1) -> A] : IsFold(g, base, F, k - 1)
    BY <1>2
  <2> DEFINE h == [s \in SUBSET (1 .. k) |->
                     IF k \in s THEN F[<<g[s \ {k}], k>>] ELSE g[s]]
  <2>2. \A s \in SUBSET (1 .. k) : s \ {k} \in SUBSET (1 .. k - 1)
    OBVIOUS
  <2>3. \A s \in SUBSET (1 .. k) : k \notin s => s \in SUBSET (1 .. k - 1)
    OBVIOUS
  <2>4. h \in [SUBSET (1 .. k) -> A]
    BY <2>2, <2>3
  <2>5. ASSUME NEW s \in SUBSET (1 .. k)
        PROVE  h[s] = IF s = {} THEN base ELSE F[<<h[s \ {Max(s)}], Max(s)>>]
    <3>1. CASE k \in s
      <4>1. Max(s) = k
        BY <3>1, MaxIs
      <4>2. s \ {k} \in SUBSET (1 .. k) /\ k \notin s \ {k}
        OBVIOUS
      <4>3. h[s \ {k}] = g[s \ {k}]
        BY <4>2
      <4>4. h[s] = F[<<g[s \ {k}], k>>]
        BY <3>1
      <4> QED
        BY <3>1, <4>1, <4>3, <4>4
    <3>2. CASE k \notin s
      <4>1. s \in SUBSET (1 .. k - 1) /\ h[s] = g[s]
        BY <2>3, <3>2
      <4>2. g[s] = IF s = {} THEN base ELSE F[<<g[s \ {Max(s)}], Max(s)>>]
        BY <2>1, <4>1, Zenon DEF IsFold
      <4>3. s \ {Max(s)} \in SUBSET (1 .. k) /\ k \notin s \ {Max(s)}
        BY <3>2
      <4>4. h[s \ {Max(s)}] = g[s \ {Max(s)}]
        BY <4>3
      <4> QED
        BY <4>1, <4>2, <4>4
    <3> QED
      BY <3>1, <3>2
  <2>6. IsFold(h, base, F, k)
    <3>1. h = [s \in SUBSET (1 .. k) |-> h[s]]
      OBVIOUS
    <3> HIDE DEF h
    <3> QED
      BY <2>5, <3>1, Zenon DEF IsFold
  <2>7. k \in 0 .. n
    OBVIOUS
  <2> QED
    BY <2>4, <2>6, <2>7, Zenon
<1>3. n \in S
  <2>1. 0 .. n \subseteq S
    <3> HIDE DEF S
    <3> QED
      BY <1>1, <1>2, UpTo
  <2>2. n \in 0 .. n
    OBVIOUS
  <2> QED
    BY <2>1, <2>2, Zenon
<1> QED
  BY <1>3, Zenon

-----------------------------------------------------------------------------
(* The console                                                             *)

W == size[1]
H == size[2]

SizeOK == size \in Screens

LEMMA SizeType ==
  ASSUME SizeOK
  PROVE  /\ W \in Nat \ {0} /\ H \in Nat /\ GlyphHeight \in Nat \ {0}
         /\ GlyphHeight <= H
         /\ Columns = 0 .. W - 1 /\ Rows = 0 .. H - 1
BY ShellAssumption DEF SizeOK, W, H, Columns, Rows

Inks     == Glyphs \cup {Blank, Smudge}
Consoles == [pixels : [Columns \X Rows -> Inks], x : Nat, y : Nat]

\* The cursor is on the screen, or behind the last column of a row of glyphs; what
\* lies ahead of it is blank, and no glyph lies over another.
ConsoleOK(c) ==
  /\ c \in Consoles
  /\ c.x <= W
  /\ \E r \in Nat : c.y = r * GlyphHeight
  /\ c.y + GlyphHeight <= H
  /\ \A x \in Columns, y \in Rows :
       /\ c.pixels[<<x, y>>] # Smudge
       /\ y >= c.y + GlyphHeight \/ (y >= c.y /\ x >= c.x) => c.pixels[<<x, y>>] = Blank

LEMMA ScrollType ==
  ASSUME SizeOK, NEW p \in [Columns \X Rows -> Inks]
  PROVE  /\ screen_scroll_region_up(p) \in [Columns \X Rows -> Inks]
         /\ \A x \in Columns, y \in Rows :
              screen_scroll_region_up(p)[<<x, y>>]
                = IF y < H - GlyphHeight THEN p[<<x, y + GlyphHeight>>] ELSE Blank
<1> DEFINE q == screen_scroll_region_up(p)
<1>1. W \in Nat /\ H \in Nat /\ GlyphHeight \in Nat /\ Columns = 0 .. W - 1 /\ Rows = 0 .. H - 1
  BY SizeType
<1>2. ASSUME NEW x \in Columns, NEW y \in Rows
      PROVE  /\ q[<<x, y>>] = IF y < H - GlyphHeight THEN p[<<x, y + GlyphHeight>>] ELSE Blank
             /\ q[<<x, y>>] \in Inks
  <2>1. q[<<x, y>>] = IF y < H - GlyphHeight THEN p[<<x, y + GlyphHeight>>] ELSE Blank
    BY DEF screen_scroll_region_up, H
  <2>2. y < H - GlyphHeight => y + GlyphHeight \in Rows
    BY <1>1
  <2> QED
    BY <2>1, <2>2 DEF Inks
<1>3. \A z \in Columns \X Rows : q[z] \in Inks
  <2> HIDE DEF q
  <2>1. \A z \in Columns \X Rows : \E x \in Columns, y \in Rows : z = <<x, y>>
    OBVIOUS
  <2> QED
    BY <1>2, <2>1
<1>4. q = [z \in Columns \X Rows |-> q[z]]
  BY DEF screen_scroll_region_up
<1> HIDE DEF q
<1> QED
  BY <1>2, <1>3, <1>4 DEF q

\* The pixels q are p with a glyph drawn.
Drawn(p, q, cx, cy, g) ==
  \A x \in Columns, y \in Rows :
    q[<<x, y>>] = IF x # cx \/ y \notin cy .. cy + GlyphHeight - 1 \/ g = Space
                  THEN p[<<x, y>>]
                  ELSE IF p[<<x, y>>] = Blank THEN g ELSE Smudge

LEMMA DrawType ==
  ASSUME SizeOK, NEW p \in [Columns \X Rows -> Inks], NEW g \in Glyphs,
         NEW cx \in Nat, NEW cy \in Nat
  PROVE  /\ screen_draw_glyph(p, cx, cy, g) \in [Columns \X Rows -> Inks]
         /\ Drawn(p, screen_draw_glyph(p, cx, cy, g), cx, cy, g)
<1> DEFINE q == screen_draw_glyph(p, cx, cy, g)
<1>2. ASSUME NEW x \in Columns, NEW y \in Rows
      PROVE  /\ q[<<x, y>>] = IF x # cx \/ y \notin cy .. cy + GlyphHeight - 1 \/ g = Space
                              THEN p[<<x, y>>]
                              ELSE IF p[<<x, y>>] = Blank THEN g ELSE Smudge
             /\ q[<<x, y>>] \in Inks
  <2> DEFINE out == x # cx \/ y \notin cy .. cy + GlyphHeight - 1 \/ g = Space
             in  == x = cx /\ y \in cy .. cy + GlyphHeight - 1 /\ g # Space
             ink == IF p[<<x, y>>] = Blank THEN g ELSE Smudge
  <2>1. q[<<x, y>>] = CASE out -> p[<<x, y>>] [] in -> ink
    BY DEF screen_draw_glyph
  <2>2. in = ~out
    OBVIOUS
  <2> HIDE DEF out, in
  <2>3. q[<<x, y>>] = IF out THEN p[<<x, y>>] ELSE ink
    BY <2>1, <2>2
  <2>4. <<x, y>> \in Columns \X Rows
    OBVIOUS
  <2>5. q[<<x, y>>] \in Inks
    BY <2>3, <2>4 DEF Inks
  <2> QED
    BY <2>3, <2>5 DEF out
<1>3. \A z \in Columns \X Rows : q[z] \in Inks
  <2> HIDE DEF q
  <2>1. \A z \in Columns \X Rows : \E x \in Columns, y \in Rows : z = <<x, y>>
    OBVIOUS
  <2> QED
    BY <1>2, <2>1
<1>4. q = [z \in Columns \X Rows |-> q[z]]
  BY DEF screen_draw_glyph
<1> HIDE DEF q
<1>5. Drawn(p, q, cx, cy, g)
  BY <1>2, Zenon DEF Drawn
<1> QED
  BY <1>3, <1>4, <1>5 DEF q

LEMMA NewLineType ==
  ASSUME SizeOK, NEW c \in Consoles
  PROVE  console_new_line(c) \in Consoles
<1>1. screen_scroll_region_up(c.pixels) \in [Columns \X Rows -> Inks]
  BY ScrollType DEF Consoles
<1>2. GlyphHeight \in Nat /\ c.y \in Nat /\ c.x \in Nat
  BY SizeType DEF Consoles
<1>3. c.y + GlyphHeight \in Nat /\ 0 \in Nat
  BY <1>2
<1> DEFINE q == screen_scroll_region_up(c.pixels)
           D == [Columns \X Rows -> Inks]
<1> HIDE DEF q, D
<1>4. Consoles = [pixels : D, x : Nat, y : Nat] /\ q \in D
  BY <1>1 DEF Consoles, D, q
<1>5. [c EXCEPT !.pixels = q, !.x = 0] \in Consoles
  BY <1>3, <1>4
<1>6. [c EXCEPT !.x = 0, !.y = c.y + GlyphHeight] \in Consoles
  BY <1>3, <1>4
<1> QED
  BY <1>5, <1>6 DEF console_new_line, q

LEMMA WriteType ==
  ASSUME SizeOK, NEW c \in Consoles, NEW g \in Glyphs \cup {Newline}
  PROVE  console_write_codepoint(c, g) \in Consoles
<1>1. CASE g = Newline
  BY <1>1, NewLineType DEF console_write_codepoint
<1>2. CASE g # Newline
  <2> DEFINE d == IF c.x + 1 > size[1] THEN console_new_line(c) ELSE c
  <2>1. d \in Consoles
    BY NewLineType
  <2>2. console_write_codepoint(c, g)
          = [d EXCEPT !.pixels = screen_draw_glyph(d.pixels, d.x, d.y, g), !.x = d.x + 1]
    BY <1>2 DEF console_write_codepoint
  <2> HIDE DEF d
  <2>3. screen_draw_glyph(d.pixels, d.x, d.y, g) \in [Columns \X Rows -> Inks]
    BY <1>2, <2>1, DrawType DEF Consoles
  <2> DEFINE q == screen_draw_glyph(d.pixels, d.x, d.y, g)
             D == [Columns \X Rows -> Inks]
  <2> HIDE DEF q, D
  <2>4. Consoles = [pixels : D, x : Nat, y : Nat] /\ q \in D
    BY <2>3 DEF Consoles, D, q
  <2>5. d.x + 1 \in Nat
    BY <2>1 DEF Consoles
  <2>6. [d EXCEPT !.pixels = q, !.x = d.x + 1] \in Consoles
    <3> DEFINE z == d.x + 1
    <3> HIDE DEF z
    <3>1. z \in Nat
      BY <2>5 DEF z
    <3>2. [d EXCEPT !.pixels = q, !.x = z] \in Consoles
      BY <2>1, <2>4, <3>1
    <3> QED
      BY <3>2 DEF z
  <2> QED
    BY <2>2, <2>6 DEF q
<1> QED
  BY <1>1, <1>2

\* console_write goes from one console to the next, a codepoint at a time.
LEMMA Steps ==
  ASSUME SizeOK, NEW c \in Consoles, NEW text \in Seq(Glyphs \cup {Newline})
  PROVE  \E h \in [0 .. Len(text) -> Consoles] :
           /\ h[0] = c /\ console_write(c, text) = h[Len(text)]
           /\ \A k \in 1 .. Len(text) : h[k] = console_write_codepoint(h[k - 1], text[k])
<1> DEFINE n == Len(text)
           F == [z \in Consoles \X (1 .. n) |-> console_write_codepoint(z[1], text[z[2]])]
           Is(iter) == iter = [s \in SUBSET (1 .. n) |->
                                 IF s = {} THEN c
                                 ELSE console_write_codepoint(iter[s \ {Max(s)}], text[Max(s)])]
           g == CHOOSE iter : Is(iter)
<1>1. n \in Nat /\ DOMAIN text = 1 .. n /\ \A k \in 1 .. n : text[k] \in Glyphs \cup {Newline}
  BY LenProperties, ElementOfSeq
<1>2. F \in [Consoles \X (1 .. n) -> Consoles]
  BY <1>1, WriteType
<1>3. PICK f \in [SUBSET (1 .. n) -> Consoles] : IsFold(f, c, F, n)
  <2> HIDE DEF F, n
  <2> QED
    BY <1>1, <1>2, FoldExists
<1>4. console_write(c, text) = g[1 .. n]
  BY <1>1, Zenon DEF console_write, FoldLeft, MapThenFoldSet
<1>5. Is(f)
  <2>1. ASSUME NEW s \in SUBSET (1 .. n), s # {}
        PROVE  F[<<f[s \ {Max(s)}], Max(s)>>]
                 = console_write_codepoint(f[s \ {Max(s)}], text[Max(s)])
    <3>1. Max(s) \in 1 .. n
      BY <1>1, <2>1, MaxIs
    <3>2. f[s \ {Max(s)}] \in Consoles
      BY <1>3
    <3> QED
      BY <3>1, <3>2
  <2> HIDE DEF F, n
  <2> QED
    BY <1>3, <2>1 DEF IsFold
<1>6. Is(g)
  BY <1>5, Zenon
<1> HIDE DEF g
<1>7. ASSUME NEW iter, Is(iter), NEW s \in SUBSET (1 .. n)
      PROVE  iter[s] = IF s = {} THEN c
                       ELSE console_write_codepoint(iter[s \ {Max(s)}], text[Max(s)])
  <2> HIDE DEF n
  <2> QED
    BY <1>7, Zenon
<1> DEFINE h == [k \in 0 .. n |-> g[1 .. k]]
<1>8. h[0] = c
  <2>1. 1 .. 0 = {} /\ 0 \in 0 .. n
    <3> HIDE DEF n, h
    <3> QED
      BY <1>1
  <2>4. {} \in SUBSET (1 .. n)
    OBVIOUS
  <2>2. g[{}] = c
    <3> HIDE DEF n, Is
    <3> QED
      BY <1>6, <1>7, <2>4
  <2> HIDE DEF n
  <2> QED
    BY <2>1, <2>2
<1>9. ASSUME NEW k \in 1 .. n PROVE h[k] = console_write_codepoint(h[k - 1], text[k])
  <2>1. /\ 1 .. k \in SUBSET (1 .. n) /\ 1 .. k # {} /\ k \in 0 .. n /\ k - 1 \in 0 .. n
        /\ (1 .. k) \ {k} = 1 .. (k - 1) /\ k \in Nat /\ k \in 1 .. k
        /\ 1 .. k \in SUBSET (1 .. k)
    BY <1>1, Segment
  <2>2. Max(1 .. k) = k
    BY <2>1, MaxIs
  <2>3. g[1 .. k] = console_write_codepoint(g[1 .. (k - 1)], text[k])
    BY <1>6, <1>7, <2>1, <2>2
  <2> HIDE DEF n
  <2> QED
    BY <2>1, <2>3
<1>10. ASSUME NEW k \in 1 .. n, h[k - 1] \in Consoles PROVE h[k] \in Consoles
  <2>1. h[k] = console_write_codepoint(h[k - 1], text[k])
    BY <1>9
  <2>2. text[k] \in Glyphs \cup {Newline}
    BY <1>1
  <2> HIDE DEF h, n
  <2> QED
    BY <1>10, <2>1, <2>2, WriteType
<1>11. \A k \in 0 .. n : h[k] \in Consoles
  <2> DEFINE S == {k \in 0 .. n : h[k] \in Consoles}
  <2>1. 0 \in S
    BY <1>1, <1>8
  <2>2. ASSUME NEW k \in 1 .. n, k - 1 \in S PROVE k \in S
    <3>1. k \in 0 .. n /\ k \in 1 .. n /\ h[k - 1] \in Consoles
      BY <2>2
    <3>2. h[k] \in Consoles
      <4> HIDE DEF h, n
      <4> QED
        BY <1>10, <3>1
    <3> QED
      BY <3>1, <3>2
  <2>3. 0 .. n \subseteq S
    <3> HIDE DEF S, h, n
    <3> QED
      BY <1>1, <2>1, <2>2, UpTo
  <2> QED
    BY <2>3
<1>12. h \in [0 .. n -> Consoles] /\ h[n] = g[1 .. n]
  BY <1>1, <1>11
<1> HIDE DEF h
<1> QED
  BY <1>4, <1>8, <1>9, <1>12

-----------------------------------------------------------------------------
(* Rows and columns                                                        *)

LEMMA Times ==
  ASSUME NEW b \in Nat, NEW p \in Nat, NEW q \in Nat, p < q
  PROVE  p * b \in Nat /\ q * b \in Nat /\ p * b + b <= q * b
<1>1. PICK d \in Nat : q = p + 1 + d
  <2>1. q - p - 1 \in Nat /\ q = p + 1 + (q - p - 1)
    OBVIOUS
  <2> QED
    BY <2>1
<1>2. q * b = p * b + b + d * b
  BY <1>1
<1>3. p * b \in Nat /\ q * b \in Nat /\ d * b \in Nat
  OBVIOUS
<1> QED
  BY <1>2, <1>3

\* A number has one quotient and one remainder.
LEMMA Unique ==
  ASSUME NEW b \in Nat \ {0}, NEW p \in Nat, NEW q \in Nat,
         NEW x \in 0 .. b - 1, NEW y \in 0 .. b - 1, p * b + x = q * b + y
  PROVE  p = q /\ x = y
<1>1. p * b \in Nat /\ q * b \in Nat
  OBVIOUS
<1>2. ASSUME p < q PROVE FALSE
  <2>1. p * b + b <= q * b
    BY <1>2, Times
  <2> QED
    BY <1>1, <2>1
<1>3. ASSUME q < p PROVE FALSE
  <2>1. q * b + b <= p * b
    BY <1>3, Times
  <2> QED
    BY <1>1, <2>1
<1>4. p = q
  BY <1>2, <1>3
<1> QED
  BY <1>1, <1>4

LEMMA Euclid ==
  ASSUME NEW b \in Nat \ {0}, NEW n \in Nat
  PROVE  n \div b \in Nat /\ n % b \in 0 .. b - 1 /\ n = (n \div b) * b + (n % b)
<1>1. n \div b \in Nat /\ n % b \in 0 .. b - 1
  OBVIOUS
<1>2. n = (n \div b) * b + (n % b)
  OBVIOUS
<1> QED
  BY <1>1, <1>2

LEMMA Divided ==
  ASSUME NEW b \in Nat \ {0}, NEW q \in Nat, NEW x \in 0 .. b - 1
  PROVE  (q * b + x) \div b = q /\ (q * b + x) % b = x
<1> DEFINE n == q * b + x
<1>1. n \in Nat
  OBVIOUS
<1>2. n \div b \in Nat /\ n % b \in 0 .. b - 1 /\ n = (n \div b) * b + (n % b)
  <2> HIDE DEF n
  <2> QED
    BY <1>1, Euclid
<1>3. n = q * b + x
  OBVIOUS
<1> HIDE DEF n
<1>4. n \div b = q /\ n % b = x
  <2> DEFINE p == n \div b
             y == n % b
  <2>1. p \in Nat /\ y \in 0 .. b - 1 /\ p * b + y = q * b + x
    BY <1>2, <1>3
  <2> HIDE DEF p, y
  <2>2. p = q /\ y = x
    BY <2>1, Unique
  <2> QED
    BY <2>2 DEF p, y
<1> QED
  BY <1>4 DEF n

LEMMA SameRow ==
  ASSUME NEW b \in Nat \ {0}, NEW p \in Nat, NEW q \in Nat, NEW y \in Nat,
         y \in p * b .. p * b + b - 1, y \in q * b .. q * b + b - 1
  PROVE  p = q
<1>1. p * b \in Nat /\ q * b \in Nat
  OBVIOUS
<1>2. y - p * b \in 0 .. b - 1 /\ y - q * b \in 0 .. b - 1
      /\ p * b + (y - p * b) = q * b + (y - q * b)
  BY <1>1
<1> QED
  BY <1>2, Unique

-----------------------------------------------------------------------------
(* What a console shows where                                              *)

Row(c)   == c.y \div GlyphHeight
Place(c) == Row(c) * W + c.x

\* The glyph g is in a row and a column.
Shows(c, row, x, g) ==
  \A y \in row * GlyphHeight .. row * GlyphHeight + GlyphHeight - 1 :
    c.pixels[<<x, y>>] = IF g = Space THEN Blank ELSE g

LEMMA RowIs ==
  ASSUME SizeOK, NEW c, ConsoleOK(c)
  PROVE  /\ Row(c) \in Nat /\ c.y = Row(c) * GlyphHeight /\ c.y \in Nat
         /\ c.y + GlyphHeight <= H /\ c.x \in 0 .. W
         /\ c.pixels \in [Columns \X Rows -> Inks]
         /\ \A x \in Columns, y \in Rows :
              /\ c.pixels[<<x, y>>] # Smudge
              /\ y >= c.y + GlyphHeight \/ (y >= c.y /\ x >= c.x) => c.pixels[<<x, y>>] = Blank
<1>1. PICK r \in Nat : c.y = r * GlyphHeight
  BY DEF ConsoleOK
<1>2. GlyphHeight \in Nat \ {0} /\ W \in Nat
  BY SizeType
<1>3. (r * GlyphHeight + 0) \div GlyphHeight = r
  BY <1>2, Divided
<1>4. Row(c) = r
  <2>1. r * GlyphHeight + 0 = r * GlyphHeight
    BY <1>2
  <2> QED
    BY <1>1, <1>3, <2>1 DEF Row
<1>5. c.y \in Nat /\ c.x \in Nat /\ c.pixels \in [Columns \X Rows -> Inks]
  BY DEF ConsoleOK, Consoles
<1>6. c.x \in 0 .. W
  BY <1>2, <1>5 DEF ConsoleOK
<1>7. c.y = Row(c) * GlyphHeight
  BY <1>1, <1>4
<1> QED
  BY <1>1, <1>4, <1>5, <1>6, <1>7 DEF ConsoleOK

\* A new line moves down, or moves everything up by a row: the rows above keep what
\* they show, so many rows higher.
LEMMA NewLine ==
  ASSUME SizeOK, NEW c, ConsoleOK(c), NEW d, d = console_new_line(c)
  PROVE  /\ ConsoleOK(d) /\ d.x = 0
         /\ \E up \in {0, 1} :
              /\ Row(d) + up = Row(c) + 1
              /\ \A row \in Nat, x \in Columns, g \in Glyphs :
                   row + up <= Row(c) /\ Shows(c, row + up, x, g) => Shows(d, row, x, g)
<1> DEFINE G == GlyphHeight
           r == Row(c)
<1>1. /\ r \in Nat /\ c.y = r * G /\ c.y \in Nat /\ c.y + G <= H /\ c.x \in 0 .. W
      /\ c.pixels \in [Columns \X Rows -> Inks]
      /\ \A x \in Columns, y \in Rows :
           /\ c.pixels[<<x, y>>] # Smudge
           /\ y >= c.y + G \/ (y >= c.y /\ x >= c.x) => c.pixels[<<x, y>>] = Blank
  BY RowIs
<1>2. /\ W \in Nat \ {0} /\ H \in Nat /\ G \in Nat \ {0} /\ Columns = 0 .. W - 1 /\ Rows = 0 .. H - 1
  BY SizeType
<1>3. c \in Consoles /\ d \in Consoles
  BY NewLineType DEF ConsoleOK
<1>4. CASE c.y + 2 * G > H
  <2> DEFINE p == screen_scroll_region_up(c.pixels)
  <2>1. d = [c EXCEPT !.pixels = p, !.x = 0]
    BY <1>4 DEF console_new_line, H
  <2>2. \A x \in Columns, y \in Rows :
          p[<<x, y>>] = IF y < H - G THEN c.pixels[<<x, y + G>>] ELSE Blank
    BY <1>1, ScrollType
  <2> HIDE DEF p
  <2>3. d.pixels = p /\ d.x = 0 /\ d.y = c.y
    BY <1>3, <2>1 DEF Consoles
  <2> HIDE DEF G
  <2>4. ASSUME NEW x \in Columns, NEW y \in Rows
        PROVE  /\ d.pixels[<<x, y>>] # Smudge
               /\ y >= d.y => d.pixels[<<x, y>>] = Blank
    <3>1. CASE y < H - G
      <4>1. y + G \in Rows /\ d.pixels[<<x, y>>] = c.pixels[<<x, y + G>>]
        BY <1>2, <2>2, <2>3, <3>1
      <4>2. c.pixels[<<x, y + G>>] # Smudge
        BY <1>1, <4>1
      <4>3. ASSUME y >= d.y PROVE c.pixels[<<x, y + G>>] = Blank
        <5>1. y + G >= c.y + G
          BY <1>1, <1>2, <2>3, <4>3
        <5> QED
          BY <1>1, <4>1, <5>1
      <4> QED
        BY <4>1, <4>2, <4>3
    <3>2. CASE ~(y < H - G)
      BY <2>2, <2>3, <3>2 DEF Blank, Smudge
    <3> QED
      BY <3>1, <3>2
  <2>5. Row(d) = r
    BY <2>3 DEF Row
  <2>6. ConsoleOK(d)
    <3>1. d.x <= W /\ d.y + GlyphHeight <= H /\ d.y = r * GlyphHeight /\ d.y \in Nat
      BY <1>1, <1>2, <2>3 DEF G
    <3>2. ASSUME NEW x \in Columns, NEW y \in Rows,
                 y >= d.y + GlyphHeight \/ (y >= d.y /\ x >= d.x)
          PROVE  y >= d.y
      BY <1>2, <3>1, <3>2 DEF G
    <3> QED
      BY <1>1, <1>3, <2>4, <3>1, <3>2 DEF ConsoleOK
  <2>7. ASSUME NEW row \in Nat, NEW x \in Columns, NEW g \in Glyphs,
               row + 1 <= r, Shows(c, row + 1, x, g)
        PROVE  Shows(d, row, x, g)
    <3>1. SUFFICES ASSUME NEW y \in row * G .. row * G + G - 1
                   PROVE  d.pixels[<<x, y>>] = IF g = Space THEN Blank ELSE g
      BY DEF Shows, G
    <3>2. (row + 1) * G = row * G + G /\ row * G \in Nat
      BY <1>2
    <3>3. row * G + G <= r * G
      BY <1>1, <1>2, <2>7, Times
    <3>4. y + G \in (row + 1) * G .. (row + 1) * G + G - 1 /\ y \in Rows /\ y < H - G
      BY <1>1, <1>2, <3>2, <3>3
    <3>5. c.pixels[<<x, y + G>>] = IF g = Space THEN Blank ELSE g
      BY <2>7, <3>4 DEF Shows, G
    <3> QED
      BY <2>2, <2>3, <3>4, <3>5
  <2>8. Row(d) + 1 = r + 1
    BY <2>5
  <2> QED
    BY <2>3, <2>6, <2>7, <2>8
<1>5. CASE ~(c.y + 2 * G > H)
  <2>1. d = [c EXCEPT !.x = 0, !.y = c.y + G]
    BY <1>5 DEF console_new_line, H
  <2>2. d.pixels = c.pixels /\ d.x = 0 /\ d.y = c.y + G
    BY <1>3, <2>1 DEF Consoles
  <2> HIDE DEF G
  <2>3. d.y = (r + 1) * G /\ r + 1 \in Nat
    <3>1. (r + 1) * G = r * G + G
      BY <1>1, <1>2
    <3> QED
      BY <1>1, <2>2, <3>1
  <2>4. ASSUME NEW x \in Columns, NEW y \in Rows, y >= d.y + G \/ (y >= d.y /\ x >= d.x)
        PROVE  d.pixels[<<x, y>>] = Blank
    <3>1. y >= c.y + G
      BY <1>1, <1>2, <2>2, <2>4
    <3> QED
      BY <1>1, <2>2, <3>1
  <2>5. ConsoleOK(d)
    <3>1. d.x <= W /\ d.y + G <= H
      BY <1>1, <1>2, <1>5, <2>2
    <3> QED
      BY <1>1, <1>3, <2>2, <2>3, <2>4, <3>1 DEF ConsoleOK, G
  <2>6. Row(d) = r + 1
    <3>1. ((r + 1) * G + 0) \div G = r + 1
      BY <1>2, <2>3, Divided
    <3>2. (r + 1) * G + 0 = (r + 1) * G
      BY <1>2, <2>3
    <3> QED
      BY <2>3, <3>1, <3>2 DEF Row, G
  <2>7. ASSUME NEW row \in Nat, NEW x \in Columns, NEW g \in Glyphs,
               Shows(c, row + 0, x, g)
        PROVE  Shows(d, row, x, g)
    <3>1. row + 0 = row
      OBVIOUS
    <3> QED
      BY <2>2, <2>7, <3>1 DEF Shows
  <2>8. Row(d) + 0 = r + 1
    BY <1>1, <2>6
  <2> QED
    BY <2>2, <2>5, <2>7, <2>8
<1> QED
  BY <1>4, <1>5

\* A glyph is drawn on blank pixels, and leaves the rest alone.
LEMMA Draw ==
  ASSUME SizeOK, NEW d, ConsoleOK(d), d.x < W, NEW g \in Glyphs,
         NEW e, e = [d EXCEPT !.pixels = screen_draw_glyph(d.pixels, d.x, d.y, g), !.x = d.x + 1]
  PROVE  /\ ConsoleOK(e) /\ Row(e) = Row(d) /\ e.x = d.x + 1
         /\ Shows(e, Row(d), d.x, g)
         /\ \A row \in Nat, x \in Columns, k \in Glyphs :
              (row # Row(d) \/ x # d.x) /\ (row + 1) * GlyphHeight <= H /\ Shows(d, row, x, k)
                => Shows(e, row, x, k)
<1> DEFINE G == GlyphHeight
           r == Row(d)
           p == screen_draw_glyph(d.pixels, d.x, d.y, g)
<1>1. /\ r \in Nat /\ d.y = r * G /\ d.y \in Nat /\ d.y + G <= H /\ d.x \in 0 .. W
      /\ d.pixels \in [Columns \X Rows -> Inks]
      /\ \A x \in Columns, y \in Rows :
           /\ d.pixels[<<x, y>>] # Smudge
           /\ y >= d.y + G \/ (y >= d.y /\ x >= d.x) => d.pixels[<<x, y>>] = Blank
  BY RowIs
<1>2. /\ W \in Nat \ {0} /\ H \in Nat /\ G \in Nat \ {0} /\ Columns = 0 .. W - 1 /\ Rows = 0 .. H - 1
  BY SizeType
<1>3. /\ p \in [Columns \X Rows -> Inks]
      /\ \A x \in Columns, y \in Rows :
           p[<<x, y>>] = IF x # d.x \/ y \notin d.y .. d.y + G - 1 \/ g = Space
                         THEN d.pixels[<<x, y>>]
                         ELSE IF d.pixels[<<x, y>>] = Blank THEN g ELSE Smudge
  <2>1. d.x \in Nat /\ d.y \in Nat /\ d.pixels \in [Columns \X Rows -> Inks]
    BY <1>1
  <2>2. p \in [Columns \X Rows -> Inks] /\ Drawn(d.pixels, p, d.x, d.y, g)
    BY <2>1, DrawType
  <2> HIDE DEF p
  <2> QED
    BY <2>2 DEF Drawn
<1>4. e.pixels = p /\ e.x = d.x + 1 /\ e.y = d.y /\ e \in Consoles
  <2> HIDE DEF p
  <2>1. d.x + 1 \in Nat
    BY <1>1
  <2>2. d \in [pixels : [Columns \X Rows -> Inks], x : Nat, y : Nat]
    BY DEF ConsoleOK, Consoles
  <2> DEFINE D == [Columns \X Rows -> Inks]
             z == d.x + 1
  <2>3. d \in [pixels : D, x : Nat, y : Nat] /\ p \in D /\ z \in Nat
        /\ e = [d EXCEPT !.pixels = p, !.x = z]
    BY <1>3, <2>1, <2>2 DEF p
  <2> HIDE DEF D, z
  <2>4. e.pixels = p /\ e.x = z /\ e.y = d.y /\ e \in [pixels : D, x : Nat, y : Nat]
    BY <2>3
  <2> QED
    BY <2>4 DEF Consoles, D, z
<1> HIDE DEF G, p
<1>5. g # Smudge /\ g # Blank
  BY ShellAssumption
<1>6. ASSUME NEW x \in Columns, NEW y \in Rows PROVE e.pixels[<<x, y>>] # Smudge
  <2>1. CASE x # d.x \/ y \notin d.y .. d.y + G - 1 \/ g = Space
    BY <1>1, <1>3, <1>4, <2>1
  <2>2. CASE ~(x # d.x \/ y \notin d.y .. d.y + G - 1 \/ g = Space)
    <3>1. d.pixels[<<x, y>>] = Blank
      BY <1>1, <1>2, <2>2
    <3> QED
      BY <1>3, <1>4, <1>5, <2>2, <3>1
  <2> QED
    BY <2>1, <2>2
<1>7. ASSUME NEW x \in Columns, NEW y \in Rows, y >= e.y + G \/ (y >= e.y /\ x >= e.x)
      PROVE  e.pixels[<<x, y>>] = Blank
  <2>1. x # d.x \/ y \notin d.y .. d.y + G - 1
    BY <1>1, <1>2, <1>4, <1>7
  <2>2. y >= d.y + G \/ (y >= d.y /\ x >= d.x)
    BY <1>1, <1>2, <1>4, <1>7
  <2> QED
    BY <1>1, <1>3, <1>4, <2>1, <2>2
<1>8. ConsoleOK(e)
  <2>1. e.x <= W
    BY <1>1, <1>2, <1>4
  <2> QED
    BY <1>1, <1>4, <1>6, <1>7, <2>1 DEF ConsoleOK, G
<1>9. Row(e) = Row(d)
  BY <1>4 DEF Row
<1>10. Shows(e, r, d.x, g)
  <2>1. SUFFICES ASSUME NEW y \in r * G .. r * G + G - 1
                 PROVE  e.pixels[<<d.x, y>>] = IF g = Space THEN Blank ELSE g
    BY DEF Shows, G
  <2>2. y \in Rows /\ d.x \in Columns /\ y >= d.y /\ y \in d.y .. d.y + G - 1
    BY <1>1, <1>2
  <2>3. d.pixels[<<d.x, y>>] = Blank
    BY <1>1, <2>2
  <2> QED
    BY <1>3, <1>4, <2>2, <2>3
<1>11. ASSUME NEW row \in Nat, NEW x \in Columns, NEW k \in Glyphs,
              row # r \/ x # d.x, (row + 1) * G <= H, Shows(d, row, x, k)
       PROVE  Shows(e, row, x, k)
  <2>1. SUFFICES ASSUME NEW y \in row * G .. row * G + G - 1
                 PROVE  e.pixels[<<x, y>>] = d.pixels[<<x, y>>]
    BY <1>11 DEF Shows, G
  <2>2. (row + 1) * G = row * G + G /\ row * G \in Nat
    BY <1>2
  <2>3. y \in Rows /\ y \in Nat
    BY <1>2, <1>11, <2>2
  <2>4. x # d.x \/ y \notin d.y .. d.y + G - 1
    <3>1. SUFFICES ASSUME row # r PROVE y \notin r * G .. r * G + G - 1
      BY <1>1, <1>11
    <3> QED
      BY <1>1, <1>2, <2>3, <3>1, SameRow
  <2> QED
    BY <1>3, <1>4, <2>3, <2>4
<1> QED
  BY <1>4, <1>8, <1>9, <1>10, <1>11 DEF G

\* Places count the columns from row to row; the cursor's is Place(c).
Holds(c, n, g) == Shows(c, n \div W, n % W, g)

\* What is before the cursor is in a row that is whole.
LEMMA Before ==
  ASSUME SizeOK, NEW c, ConsoleOK(c), NEW n \in Nat, n < Place(c)
  PROVE  /\ n \div W \in Nat /\ n % W \in 0 .. W - 1
         /\ n = (n \div W) * W + (n % W)
         /\ ((n \div W) + 1) * GlyphHeight <= H
<1> DEFINE row == n \div W
           x   == n % W
           r   == Row(c)
<1>1. W \in Nat \ {0} /\ H \in Nat /\ GlyphHeight \in Nat \ {0}
  BY SizeType
<1>2. row \in Nat /\ x \in 0 .. W - 1 /\ n = row * W + x
  BY <1>1, Euclid
<1>3. r \in Nat /\ c.x \in 0 .. W /\ c.y = r * GlyphHeight /\ c.y + GlyphHeight <= H
  BY RowIs
<1>4. n < r * W + c.x
  BY DEF Place
<1> HIDE DEF row, x, r
<1>5. row * W \in Nat /\ r * W \in Nat
  BY <1>1, <1>2, <1>3
<1>6. ASSUME r < row PROVE FALSE
  <2>1. r * W + W <= row * W
    BY <1>1, <1>2, <1>3, <1>6, Times
  <2> QED
    BY <1>1, <1>2, <1>3, <1>4, <1>5, <2>1
<1>7. (row + 1) * GlyphHeight <= (r + 1) * GlyphHeight
  <2>1. CASE row = r
    BY <1>1, <1>3, <2>1
  <2>2. CASE row < r
    <3>1. (row + 1) * GlyphHeight + GlyphHeight <= (r + 1) * GlyphHeight
          /\ (row + 1) * GlyphHeight \in Nat
      BY <1>1, <1>2, <1>3, <2>2, Times
    <3> QED
      BY <1>1, <1>2, <1>3, <3>1
  <2> QED
    BY <1>2, <1>3, <1>6, <2>1, <2>2
<1>8. (r + 1) * GlyphHeight = r * GlyphHeight + GlyphHeight
      /\ (r + 1) * GlyphHeight \in Nat /\ (row + 1) * GlyphHeight \in Nat
  BY <1>1, <1>2, <1>3
<1>9. (row + 1) * GlyphHeight <= H
  BY <1>1, <1>3, <1>7, <1>8
<1> QED
  BY <1>2, <1>9 DEF row, x

\* A glyph appears at the cursor's place, which may have moved up by some rows, and
\* so has all that is shown before it.
LEMMA Write ==
  ASSUME SizeOK, NEW c, ConsoleOK(c), NEW g \in Glyphs,
         NEW e, e = console_write_codepoint(c, g)
  PROVE  /\ ConsoleOK(e) /\ Place(e) \in Nat \ {0} /\ Holds(e, Place(e) - 1, g)
         /\ c.x < W => e.x = c.x + 1
         /\ \E up \in Nat :
              /\ Place(e) + up = Place(c) + 1
              /\ \A n \in Nat, k \in Glyphs :
                   n + up < Place(c) /\ Holds(c, n + up, k) => Holds(e, n, k)
<1> DEFINE d == IF c.x + 1 > size[1] THEN console_new_line(c) ELSE c
<1>1. /\ Row(c) \in Nat /\ c.y = Row(c) * GlyphHeight /\ c.y + GlyphHeight <= H /\ c.x \in 0 .. W
  BY RowIs
<1>2. W \in Nat \ {0} /\ H \in Nat /\ GlyphHeight \in Nat \ {0} /\ Columns = 0 .. W - 1
  BY SizeType
<1>3. e = [d EXCEPT !.pixels = screen_draw_glyph(d.pixels, d.x, d.y, g), !.x = d.x + 1]
  <2>1. g # Newline
    BY ShellAssumption
  <2> QED
    BY <2>1 DEF console_write_codepoint
<1>4. /\ ConsoleOK(d) /\ d.x < W
      /\ c.x < W => d = c
      /\ \E up \in {0, 1} :
           /\ Row(d) * W + d.x + up * W = Place(c)
           /\ \A row \in Nat, x \in Columns, k \in Glyphs :
                (row + up) * W + x < Place(c) /\ Shows(c, row + up, x, k) => Shows(d, row, x, k)
  <2>1. CASE c.x + 1 > W
    <3>1. d = console_new_line(c) /\ c.x = W
      BY <1>1, <1>2, <2>1 DEF W
    <3> HIDE DEF d
    <3>2. /\ ConsoleOK(d) /\ d.x = 0
          /\ \E up \in {0, 1} :
               /\ Row(d) + up = Row(c) + 1
               /\ \A row \in Nat, x \in Columns, k \in Glyphs :
                    row + up <= Row(c) /\ Shows(c, row + up, x, k) => Shows(d, row, x, k)
      BY <3>1, NewLine
    <3>3. PICK up \in {0, 1} :
               /\ Row(d) + up = Row(c) + 1
               /\ \A row \in Nat, x \in Columns, k \in Glyphs :
                    row + up <= Row(c) /\ Shows(c, row + up, x, k) => Shows(d, row, x, k)
      BY <3>2
    <3>4. Row(d) \in Nat
      BY <3>2, RowIs
    <3>5. Place(c) = (Row(c) + 1) * W
      BY <1>1, <1>2, <3>1 DEF Place
    <3>6. (Row(d) + up) * W = Row(d) * W + up * W /\ Row(d) * W \in Nat
      BY <1>2, <3>4
    <3>7. ASSUME NEW row \in Nat, NEW x \in Columns, NEW k \in Glyphs,
                 (row + up) * W + x < Place(c), Shows(c, row + up, x, k)
          PROVE  Shows(d, row, x, k)
      <4>1. row + up <= Row(c)
        <5>1. SUFFICES ASSUME Row(c) + 1 <= row + up PROVE FALSE
          BY <1>1
        <5>2. row + up \in Nat /\ Row(c) + 1 \in Nat
          BY <1>1
        <5>3. (Row(c) + 1) * W <= (row + up) * W
          <6>1. CASE Row(c) + 1 = row + up
            BY <1>2, <5>2, <6>1
          <6>2. CASE Row(c) + 1 < row + up
            BY <1>2, <5>2, <6>2, Times
          <6> QED
            BY <5>1, <5>2, <6>1, <6>2
        <5>4. (row + up) * W \in Nat /\ (Row(c) + 1) * W \in Nat /\ x \in Nat
          BY <1>2, <5>2
        <5> QED
          BY <3>5, <3>7, <5>3, <5>4
      <4> QED
        BY <3>3, <3>7, <4>1
    <3>8. Row(d) * W + d.x + up * W = Place(c)
      BY <1>2, <3>2, <3>3, <3>5, <3>6
    <3>9. d.x < W /\ ~(c.x < W)
      BY <1>2, <3>1, <3>2
    <3> QED
      BY <3>2, <3>7, <3>8, <3>9
  <2>2. CASE ~(c.x + 1 > W)
    <3>1. d = c /\ d.x < W
      BY <1>1, <1>2, <2>2 DEF W
    <3> HIDE DEF d
    <3>2. Row(d) * W + d.x + 0 * W = Place(c)
      BY <1>1, <1>2, <3>1 DEF Place
    <3>3. \A row \in Nat : row + 0 = row
      OBVIOUS
    <3> QED
      BY <3>1, <3>2, <3>3
  <2> QED
    BY <2>1, <2>2
<1> HIDE DEF d
<1>5. /\ ConsoleOK(e) /\ Row(e) = Row(d) /\ e.x = d.x + 1
      /\ Shows(e, Row(d), d.x, g)
      /\ \A row \in Nat, x \in Columns, k \in Glyphs :
           (row # Row(d) \/ x # d.x) /\ (row + 1) * GlyphHeight <= H /\ Shows(d, row, x, k)
             => Shows(e, row, x, k)
  <2>1. ConsoleOK(d) /\ d.x < W
    BY <1>4
  <2> HIDE DEF W
  <2> QED
    BY <1>3, <2>1, Draw, Zenon
<1>6. PICK up \in {0, 1} :
           /\ Row(d) * W + d.x + up * W = Place(c)
           /\ \A row \in Nat, x \in Columns, k \in Glyphs :
                (row + up) * W + x < Place(c) /\ Shows(c, row + up, x, k) => Shows(d, row, x, k)
  BY <1>4
<1>7. /\ Row(d) \in Nat /\ d.x \in 0 .. W - 1 /\ Row(d) * W \in Nat /\ up * W \in Nat
      /\ d.y = Row(d) * GlyphHeight /\ d.y + GlyphHeight <= H
  <2>1. Row(d) \in Nat /\ d.x \in 0 .. W /\ d.y = Row(d) * GlyphHeight /\ d.y + GlyphHeight <= H
    <3>1. ConsoleOK(d)
      BY <1>4
    <3> QED
      BY <3>1, RowIs
  <2>2. d.x < W
    BY <1>4
  <2>3. Row(d) * W \in Nat /\ up * W \in Nat
    BY <1>2, <2>1
  <2>4. d.x \in 0 .. W - 1
    BY <1>2, <2>1, <2>2
  <2> QED
    BY <2>1, <2>3, <2>4
<1>8. Place(e) = Row(d) * W + d.x + 1 /\ Place(e) \in Nat \ {0}
      /\ Place(e) - 1 = Row(d) * W + d.x
  BY <1>5, <1>7 DEF Place
<1>9. Holds(e, Place(e) - 1, g)
  <2>1. (Row(d) * W + d.x) \div W = Row(d) /\ (Row(d) * W + d.x) % W = d.x
    BY <1>2, <1>7, Divided
  <2> QED
    BY <1>5, <1>8, <2>1 DEF Holds
<1>10. ASSUME NEW n \in Nat, NEW k \in Glyphs, n + up * W < Place(c), Holds(c, n + up * W, k)
       PROVE  Holds(e, n, k)
  <2> DEFINE row == n \div W
             x   == n % W
  <2>1. n < Place(d)
    BY <1>2, <1>6, <1>7, <1>10 DEF Place
  <2>2. row \in Nat /\ x \in 0 .. W - 1 /\ n = row * W + x /\ (row + 1) * GlyphHeight <= H
    BY <1>4, <2>1, Before
  <2> HIDE DEF row, x
  <2>3. (row + up) * W + x = n + up * W /\ row * W \in Nat /\ row + up \in Nat
    BY <1>2, <2>2
  <2>4. ((row + up) * W + x) \div W = row + up /\ ((row + up) * W + x) % W = x
    BY <1>2, <2>2, <2>3, Divided
  <2>5. Shows(c, row + up, x, k)
    BY <1>10, <2>3, <2>4 DEF Holds
  <2>6. Shows(d, row, x, k)
    BY <1>2, <1>6, <1>10, <2>2, <2>3, <2>5
  <2>7. row * W + x < Row(d) * W + d.x
    BY <2>1, <2>2 DEF Place
  <2>9. row # Row(d) \/ x # d.x
    BY <1>2, <1>7, <2>2, <2>3, <2>7
  <2>10. Shows(e, row, x, k)
    BY <1>2, <1>5, <2>2, <2>6, <2>9
  <2> QED
    BY <2>10 DEF Holds, row, x
<1>11. Place(e) + up * W = Place(c) + 1
  BY <1>6, <1>7, <1>8
<1>12. ASSUME c.x < W PROVE e.x = c.x + 1
  <2>1. d = c
    BY <1>4, <1>12
  <2>2. e.x = d.x + 1
    BY <1>5
  <2> QED
    BY <2>1, <2>2
<1> QED
  BY <1>5, <1>7, <1>8, <1>9, <1>10, <1>11, <1>12

\* A backspace erases the column before the cursor, and no other.
LEMMA Erase ==
  ASSUME SizeOK, NEW c, ConsoleOK(c), NEW e, e = console_backspace(c)
  PROVE  /\ ConsoleOK(e)
         /\ c.x # 0 =>
              /\ e.x = c.x - 1 /\ Place(e) = Place(c) - 1
              /\ \A n \in Nat, k \in Glyphs : n < Place(e) /\ Holds(c, n, k) => Holds(e, n, k)
<1>1. CASE c.x = 0
  BY <1>1 DEF console_backspace
<1>2. CASE c.x # 0
  <2> DEFINE G == GlyphHeight
             r == Row(c)
             p == [z \in Columns \X Rows |->
                     IF z[1] = c.x - 1 /\ z[2] \in c.y .. c.y + GlyphHeight - 1
                     THEN Blank ELSE c.pixels[z]]
  <2>1. /\ r \in Nat /\ c.y = r * G /\ c.y \in Nat /\ c.y + G <= H /\ c.x \in 0 .. W
        /\ c.pixels \in [Columns \X Rows -> Inks]
        /\ \A x \in Columns, y \in Rows :
             /\ c.pixels[<<x, y>>] # Smudge
             /\ y >= c.y + G \/ (y >= c.y /\ x >= c.x) => c.pixels[<<x, y>>] = Blank
    BY RowIs
  <2>2. W \in Nat \ {0} /\ H \in Nat /\ G \in Nat \ {0} /\ Columns = 0 .. W - 1 /\ Rows = 0 .. H - 1
    BY SizeType
  <2>3. c.x - 1 \in Nat /\ c.x - 1 \in 0 .. W - 1
    BY <1>2, <2>1, <2>2
  <2>4. \A x \in Columns, y \in Rows :
          p[<<x, y>>] = IF x = c.x - 1 /\ y \in c.y .. c.y + G - 1 THEN Blank ELSE c.pixels[<<x, y>>]
    OBVIOUS
  <2>5. p \in [Columns \X Rows -> Inks]
    BY <2>1 DEF Inks
  <2>6. e.pixels = p /\ e.x = c.x - 1 /\ e.y = c.y /\ e \in Consoles
    <3> DEFINE D == [Columns \X Rows -> Inks]
               z == c.x - 1
    <3>1. e = [c EXCEPT !.x = z, !.pixels = p] /\ p \in D /\ z \in Nat
      BY <1>2, <2>3, <2>5 DEF console_backspace
    <3>2. c \in [pixels : D, x : Nat, y : Nat]
      BY DEF ConsoleOK, Consoles
    <3> HIDE DEF D, z, p
    <3>3. e.pixels = p /\ e.x = z /\ e.y = c.y /\ e \in [pixels : D, x : Nat, y : Nat]
      BY <3>1, <3>2
    <3> QED
      BY <3>3 DEF Consoles, D, z
  <2> HIDE DEF p, G
  <2>7. ConsoleOK(e)
    <3>1. ASSUME NEW x \in Columns, NEW y \in Rows
          PROVE  /\ e.pixels[<<x, y>>] # Smudge
                 /\ y >= e.y + G \/ (y >= e.y /\ x >= e.x) => e.pixels[<<x, y>>] = Blank
      <4>1. CASE x = c.x - 1 /\ y \in c.y .. c.y + G - 1
        BY <2>4, <2>6, <4>1 DEF Blank, Smudge
      <4>2. CASE ~(x = c.x - 1 /\ y \in c.y .. c.y + G - 1)
        <5>1. e.pixels[<<x, y>>] = c.pixels[<<x, y>>]
          BY <2>4, <2>6, <4>2
        <5>2. ASSUME y >= e.y + G \/ (y >= e.y /\ x >= e.x)
              PROVE  y >= c.y + G \/ (y >= c.y /\ x >= c.x)
          <6>1. x \in Nat /\ y \in Nat /\ c.x \in Nat /\ c.y \in Nat /\ G \in Nat
            BY <2>1, <2>2
          <6>2. y >= c.y + G \/ (y >= c.y /\ x >= c.x - 1)
            BY <2>6, <5>2
          <6>3. x # c.x - 1 \/ ~(y >= c.y /\ y <= c.y + G - 1)
            BY <4>2, <6>1
          <6> QED
            BY <6>1, <6>2, <6>3
        <5> QED
          BY <2>1, <5>1, <5>2
      <4> QED
        BY <4>1, <4>2
    <3>2. e.x <= W
      BY <2>2, <2>3, <2>6
    <3> QED
      BY <2>1, <2>6, <3>1, <3>2 DEF ConsoleOK, G
  <2>8. Row(e) = r
    BY <2>6 DEF Row
  <2>9. Place(e) = Place(c) - 1
    BY <2>1, <2>2, <2>3, <2>6, <2>8 DEF Place
  <2>10. ASSUME NEW n \in Nat, NEW k \in Glyphs, n < Place(e), Holds(c, n, k)
         PROVE  Holds(e, n, k)
    <3> DEFINE row == n \div W
               x   == n % W
    <3>1. row \in Nat /\ x \in 0 .. W - 1 /\ n = row * W + x /\ (row + 1) * GlyphHeight <= H
      BY <2>7, <2>10, Before
    <3>2. Shows(c, row, x, k)
      BY <2>10 DEF Holds
    <3> HIDE DEF row, x
    <3>3. row * W + x < r * W + (c.x - 1)
      BY <2>6, <2>8, <2>10, <3>1 DEF Place
    <3>4. row # r \/ x # c.x - 1
      BY <2>1, <2>2, <2>3, <3>1, <3>3
    <3>5. Shows(e, row, x, k)
      <4>1. SUFFICES ASSUME NEW y \in row * G .. row * G + G - 1
                     PROVE  e.pixels[<<x, y>>] = c.pixels[<<x, y>>]
        BY <3>2 DEF Shows, G
      <4>2. (row + 1) * G = row * G + G /\ row * G \in Nat
        BY <2>2, <3>1
      <4>3. y \in Rows /\ y \in Nat /\ x \in Columns
        BY <2>2, <3>1, <4>2 DEF G
      <4>4. x # c.x - 1 \/ y \notin c.y .. c.y + G - 1
        <5>1. SUFFICES ASSUME row # r PROVE y \notin r * G .. r * G + G - 1
          BY <2>1, <3>4
        <5> QED
          BY <2>1, <2>2, <3>1, <4>3, <5>1, SameRow
      <4> QED
        BY <2>4, <2>6, <4>3, <4>4
    <3> QED
      BY <3>5 DEF Holds, row, x
  <2> QED
    BY <2>6, <2>7, <2>9, <2>10
<1> QED
  BY <1>1, <1>2

LEMMA Codepoint ==
  ASSUME SizeOK, NEW c, ConsoleOK(c), NEW g \in Glyphs \cup {Newline}
  PROVE  ConsoleOK(console_write_codepoint(c, g))
<1>1. CASE g = Newline
  BY <1>1, NewLine DEF console_write_codepoint
<1>2. CASE g \in Glyphs
  BY <1>2, Write
<1> QED
  BY <1>1, <1>2

\* A text leaves the console as it should be.
LEMMA Text ==
  ASSUME SizeOK, NEW c, ConsoleOK(c), NEW text \in Seq(Glyphs \cup {Newline})
  PROVE  ConsoleOK(console_write(c, text))
<1> DEFINE n == Len(text)
<1>1. c \in Consoles
  BY DEF ConsoleOK
<1>2. PICK h \in [0 .. n -> Consoles] :
           /\ h[0] = c /\ console_write(c, text) = h[n]
           /\ \A k \in 1 .. n : h[k] = console_write_codepoint(h[k - 1], text[k])
  BY <1>1, Steps
<1>3. n \in Nat /\ \A k \in 1 .. n : text[k] \in Glyphs \cup {Newline}
  BY LenProperties, ElementOfSeq
<1> HIDE DEF n
<1> DEFINE S == {k \in 0 .. n : ConsoleOK(h[k])}
<1>4. 0 \in S
  BY <1>2, <1>3
<1>5. ASSUME NEW k \in 1 .. n, k - 1 \in S PROVE k \in S
  <2>1. ConsoleOK(h[k - 1]) /\ text[k] \in Glyphs \cup {Newline} /\ k \in 0 .. n
    BY <1>3, <1>5
  <2>2. ConsoleOK(h[k])
    BY <1>2, <2>1, Codepoint
  <2> QED
    BY <2>1, <2>2
<1>6. 0 .. n \subseteq S
  <2> HIDE DEF S
  <2> QED
    BY <1>3, <1>4, <1>5, UpTo
<1>7. n \in S
  BY <1>3, <1>6
<1> QED
  BY <1>2, <1>7

\* A text without newlines that fits into the row goes on in it.
LEMMA InRow ==
  ASSUME SizeOK, NEW c, ConsoleOK(c), NEW text \in Seq(Glyphs), c.x + Len(text) <= W
  PROVE  console_write(c, text).x = c.x + Len(text)
<1> DEFINE n == Len(text)
<1>1. c \in Consoles /\ text \in Seq(Glyphs \cup {Newline})
  BY SeqMonotonic DEF ConsoleOK
<1>2. PICK h \in [0 .. n -> Consoles] :
           /\ h[0] = c /\ console_write(c, text) = h[n]
           /\ \A k \in 1 .. n : h[k] = console_write_codepoint(h[k - 1], text[k])
  BY <1>1, Steps
<1>3. n \in Nat /\ c.x \in Nat /\ W \in Nat /\ \A k \in 1 .. n : text[k] \in Glyphs
  BY <1>1, LenProperties, ElementOfSeq, SizeType DEF Consoles
<1>4. c.x + n <= W
  OBVIOUS
<1> HIDE DEF n
<1> DEFINE S == {k \in 0 .. n : ConsoleOK(h[k]) /\ h[k].x = c.x + k}
<1>5. 0 \in S
  BY <1>2, <1>3
<1>6. ASSUME NEW k \in 1 .. n, k - 1 \in S PROVE k \in S
  <2>1. ConsoleOK(h[k - 1]) /\ h[k - 1].x = c.x + (k - 1) /\ text[k] \in Glyphs /\ k \in 0 .. n
    BY <1>3, <1>6
  <2>2. h[k - 1].x < W
    BY <1>3, <1>4, <2>1
  <2>3. h[k] = console_write_codepoint(h[k - 1], text[k])
    BY <1>2
  <2>4. ConsoleOK(h[k]) /\ h[k].x = h[k - 1].x + 1
    BY <2>1, <2>2, <2>3, Write
  <2>5. h[k].x = c.x + k
    BY <1>3, <2>1, <2>4
  <2> QED
    BY <2>1, <2>4, <2>5
<1>7. 0 .. n \subseteq S
  <2> HIDE DEF S
  <2> QED
    BY <1>3, <1>5, <1>6, UpTo
<1>8. n \in S
  BY <1>3, <1>7
<1> QED
  BY <1>2, <1>8 DEF n

-----------------------------------------------------------------------------
(* The line on the screen                                                  *)

\* The line ends at the cursor, unless a backspace has left a character behind.
LineInv ==
  faithful /\ ~halted =>
    \A i \in 1 .. current_buffer_length :
      LET n == Place(console) - current_buffer_length + i - 1
      IN  n >= 0 => Holds(console, n, Line[i])

\* Where the prompt and a full line fit into one row, the cursor is behind the line.
RowInv ==
  Len(Prompt) + MaxLine <= W =>
    /\ faithful
    /\ ~halted => console.x = Len(Prompt) + current_buffer_length

ScreenInv == SizeOK /\ ConsoleOK(console) /\ LineInv /\ RowInv

LEMMA Clear ==
  ASSUME SizeOK
  PROVE  ConsoleOK(console_clear) /\ console_clear.x = 0
<1>1. W \in Nat /\ H \in Nat /\ GlyphHeight \in Nat /\ GlyphHeight <= H
  BY SizeType
<1>2. Empty \in [Columns \X Rows -> Inks] /\ \A x \in Columns, y \in Rows : Empty[<<x, y>>] = Blank
  BY DEF Empty, Inks
<1> HIDE DEF Empty
<1>3. console_clear.pixels = Empty /\ console_clear.x = 0 /\ console_clear.y = 0
      /\ console_clear \in Consoles
  BY <1>2 DEF console_clear, Consoles
<1>4. 0 = 0 * GlyphHeight /\ 0 \in Nat /\ 0 + GlyphHeight <= H /\ 0 <= W
  BY <1>1
<1> QED
  BY <1>2, <1>3, <1>4 DEF ConsoleOK, Blank, Smudge

\* The prompt begins a row, or follows whatever was there.
LEMMA PromptAt ==
  ASSUME SizeOK, NEW c, ConsoleOK(c)
  PROVE  /\ ConsoleOK(shell_init(c))
         /\ c.x = 0 /\ Len(Prompt) <= W => shell_init(c).x = Len(Prompt)
<1>1. Prompt \in Seq(Glyphs) /\ Prompt \in Seq(Glyphs \cup {Newline})
  BY ShellAssumption, SeqMonotonic
<1>2. ASSUME c.x = 0, Len(Prompt) <= W PROVE console_write(c, Prompt).x = Len(Prompt)
  <2>1. Len(Prompt) \in Nat /\ 0 + Len(Prompt) = Len(Prompt)
    BY <1>1, LenProperties
  <2> QED
    BY <1>1, <1>2, <2>1, InRow
<1> QED
  BY <1>1, <1>2, Text DEF shell_init

LEMMA NewLineText ==
  ASSUME SizeOK, NEW c, ConsoleOK(c)
  PROVE  ConsoleOK(console_write(c, <<Newline>>)) /\ console_write(c, <<Newline>>).x = 0
<1> DEFINE text == <<Newline>>
<1>1. text \in Seq(Glyphs \cup {Newline}) /\ Len(text) = 1 /\ text[1] = Newline
  OBVIOUS
<1> HIDE DEF text
<1>2. c \in Consoles
  BY DEF ConsoleOK
<1>3. PICK h \in [0 .. Len(text) -> Consoles] :
           /\ h[0] = c /\ console_write(c, text) = h[Len(text)]
           /\ \A k \in 1 .. Len(text) : h[k] = console_write_codepoint(h[k - 1], text[k])
  BY <1>1, <1>2, Steps
<1>4. console_write(c, text) = console_write_codepoint(c, Newline)
  <2>1. h[1] = console_write_codepoint(h[0], text[1])
    <3>1. 1 \in 1 .. Len(text) /\ 1 - 1 = 0
      BY <1>1
    <3> QED
      BY <1>3, <3>1
  <2> QED
    BY <1>1, <1>3, <2>1
<1> QED
  BY <1>4, NewLine DEF console_write_codepoint, text

\* What Enter writes.
LEMMA AnswerType ==
  ASSUME BufferOK, Command # "CLEAR"
  PROVE  (IF Command = "ECHO" THEN Echoed \o <<Newline>> ELSE Answers[Command])
           \in Seq(Glyphs \cup {Newline})
<1>1. CASE Command = "ECHO"
  <2>1. Line \in Seq(Characters) /\ Len(Line) = current_buffer_length /\ current_buffer_length \in Nat
    BY LineType
  <2>2. Len(Names["ECHO"]) \in Nat
    BY EchoType
  <2> DEFINE m == Len(Names["ECHO"]) + 2
             n == current_buffer_length
             S == Glyphs \cup {Newline}
  <2>3. m \in Nat \ {0} /\ n \in Nat /\ \A i \in m .. n : Line[i] \in Characters
    BY <2>1, <2>2, ElementOfSeq
  <2>4. Characters \subseteq S
    BY ShellAssumption
  <2>5. SubSeq(Line, m, n) \in Seq(S)
    <3> HIDE DEF m, n, S
    <3> QED
      BY <2>1, <2>3, <2>4, SubSeqProperties
  <2>6. <<Newline>> \in Seq(S)
    OBVIOUS
  <2>7. Echoed \in Seq(S)
    BY <2>5 DEF Echoed
  <2> HIDE DEF S
  <2>8. Echoed \o <<Newline>> \in Seq(S)
    BY <2>6, <2>7, ConcatProperties
  <2> QED
    BY <1>1, <2>8 DEF S
<1>2. CASE Command # "ECHO"
  <2>1. Command \in DOMAIN Names \cup {"UNKNOWN"}
    BY <1>2 DEF Command
  <2>2. Command \in (DOMAIN Names \cup {"UNKNOWN"}) \ {"ECHO", "CLEAR"}
    BY <1>2, <2>1
  <2> QED
    BY <1>2, <2>2, ShellAssumption
<1> QED
  BY <1>1, <1>2

\* The screen's size never changes.
LEMMA Carried ==
  ASSUME SizeOK, size' = size
  PROVE  /\ SizeOK' /\ W' = W
         /\ ConsoleOK(console') => ConsoleOK(console)'
         /\ Place(console)' = Place(console')
         /\ \A n, g : Holds(console', n, g) => Holds(console, n, g)'
BY DEF SizeOK, ConsoleOK, Consoles, W, H, Columns, Rows, Place, Row, Holds, Shows

LEMMA ScreenInit ==
  ASSUME Init
  PROVE  ScreenInv
<1>1. /\ SizeOK /\ console = shell_init(console_clear) /\ current_buffer_length = 0
      /\ faithful = TRUE
  BY DEF Init, SizeOK
<1>2. ConsoleOK(console) /\ (Len(Prompt) <= W => console.x = Len(Prompt))
  BY <1>1, Clear, PromptAt
<1>3. LineInv
  BY <1>1 DEF LineInv
<1>4. RowInv
  <2>1. Len(Prompt) \in Nat /\ MaxLine \in Nat /\ W \in Nat
    BY <1>1, ShellAssumption, LenProperties, SizeType
  <2> QED
    BY <1>1, <1>2, <2>1 DEF RowInv
<1> QED
  BY <1>1, <1>2, <1>3, <1>4 DEF ScreenInv

LEMMA CharacterKeeps ==
  ASSUME BufferOK, BufferOK', ScreenInv, NEW g \in Characters, Character(g)
  PROVE  ScreenInv'
<1>1. /\ ~halted /\ halted' = halted /\ size' = size /\ faithful' = faithful
      /\ current_buffer_length < MaxLine
      /\ command_buffer' = [command_buffer EXCEPT ![current_buffer_length] = g]
      /\ current_buffer_length' = current_buffer_length + 1
      /\ console' = console_write_codepoint(console, g)
  BY DEF Character
<1>2. SizeOK /\ ConsoleOK(console) /\ g \in Glyphs
  BY ShellAssumption DEF ScreenInv
<1> DEFINE len == current_buffer_length
<1>3. len \in Nat /\ MaxLine \in Nat /\ W \in Nat \ {0} /\ Len(Prompt) \in Nat
  BY <1>2, ShellAssumption, SizeType, LenProperties DEF BufferOK
<1>4. /\ Line \in Seq(Characters) /\ Len(Line) = len
      /\ \A i \in 1 .. len : Line[i] = command_buffer[i - 1]
  BY LineType
<1>5. /\ Line' \in Seq(Characters) /\ Len(Line') = len'
      /\ \A i \in 1 .. len' : Line'[i] = command_buffer'[i - 1]
  BY LineTypeNext
<1>6. /\ \A i \in 1 .. len : Line'[i] = Line[i] /\ Line[i] \in Glyphs
      /\ Line'[len + 1] = g
  <2>1. command_buffer \in [0 .. MaxLine -> Characters \cup {"zero"}]
    BY DEF BufferOK
  <2>2. ASSUME NEW i \in 1 .. len PROVE Line'[i] = Line[i] /\ Line[i] \in Glyphs
    <3>1. i - 1 # len /\ i - 1 \in 0 .. MaxLine /\ i \in 1 .. len'
      BY <1>1, <1>3, <2>2
    <3>2. Line'[i] = Line[i]
      BY <1>1, <1>4, <1>5, <2>1, <2>2, <3>1
    <3>3. Line[i] \in Characters
      BY <1>4, ElementOfSeq
    <3> QED
      BY <3>2, <3>3, ShellAssumption
  <2>3. len + 1 \in 1 .. len' /\ len + 1 - 1 = len /\ len \in 0 .. MaxLine
    BY <1>1, <1>3
  <2>4. Line'[len + 1] = command_buffer'[len + 1 - 1]
    BY <1>5, <2>3
  <2>5. Line'[len + 1] = g
    BY <1>1, <2>1, <2>3, <2>4
  <2> QED
    BY <2>2, <2>5
<1> DEFINE e == console'
<1>7. /\ ConsoleOK(e) /\ Place(e) \in Nat \ {0} /\ Holds(e, Place(e) - 1, g)
      /\ console.x < W => e.x = console.x + 1
      /\ \E up \in Nat :
           /\ Place(e) + up = Place(console) + 1
           /\ \A n \in Nat, k \in Glyphs :
                n + up < Place(console) /\ Holds(console, n + up, k) => Holds(e, n, k)
  BY <1>1, <1>2, Write
<1>8. PICK up \in Nat :
           /\ Place(e) + up = Place(console) + 1
           /\ \A n \in Nat, k \in Glyphs :
                n + up < Place(console) /\ Holds(console, n + up, k) => Holds(e, n, k)
  BY <1>7
<1>9. Place(console) \in Nat
  <2>1. Row(console) \in Nat /\ console.x \in 0 .. W
    BY <1>2, RowIs
  <2> QED
    BY <1>3, <2>1 DEF Place
<1>10. ASSUME faithful, NEW i \in 1 .. len', Place(e) - len' + i - 1 >= 0
       PROVE  Holds(e, Place(e) - len' + i - 1, Line'[i])
  <2> DEFINE n == Place(e) - len' + i - 1
             P == Place(e)
             Q == Place(console)
  <2>0. P \in Nat \ {0} /\ Q \in Nat /\ P + up = Q + 1 /\ len' = len + 1 /\ i \in Nat
    BY <1>1, <1>3, <1>7, <1>8, <1>9
  <2>1. CASE i = len + 1
    <3>1. n = P - 1
      <4>1. n = P - len' + i - 1
        OBVIOUS
      <4> HIDE DEF n, P, e, len
      <4> QED
        BY <1>3, <2>0, <2>1, <4>1
    <3> QED
      BY <1>6, <1>7, <2>1, <3>1
  <2>2. CASE i # len + 1
    <3>1. i \in 1 .. len
      BY <1>3, <2>0, <2>2
    <3>2. n + up = Q - len + i - 1 /\ n \in Nat /\ n + up < Q
      <4> HIDE DEF P, Q, e, len
      <4>1. n = P - (len + 1) + i - 1 /\ n >= 0
        BY <1>10, <2>0 DEF P
      <4> HIDE DEF n
      <4> QED
        BY <1>3, <2>0, <3>1, <4>1
    <3>3. Holds(console, n + up, Line[i])
      <4>1. Q - len + i - 1 >= 0
        <5> HIDE DEF n, Q, len
        <5> QED
          BY <3>2
      <4>2. Holds(console, Q - len + i - 1, Line[i])
        BY <1>1, <1>10, <3>1, <4>1 DEF ScreenInv, LineInv
      <4> QED
        BY <3>2, <4>2
    <3> HIDE DEF n, Q, e, len
    <3>4. Holds(e, n, Line[i])
      BY <1>6, <1>8, <3>1, <3>2, <3>3 DEF Q
    <3> QED
      BY <1>6, <3>1, <3>4 DEF n, len
  <2> QED
    BY <2>1, <2>2
<1>11. LineInv'
  <2>1. SUFFICES ASSUME faithful', ~halted', NEW i \in 1 .. current_buffer_length',
                        Place(console)' - current_buffer_length' + i - 1 >= 0
                 PROVE  Holds(console, Place(console) - current_buffer_length + i - 1, Line[i])'
    BY DEF LineInv
  <2>2. Place(console)' = Place(console')
    BY <1>1, <1>2, Carried
  <2>3. Holds(console', Place(console') - current_buffer_length' + i - 1, Line'[i])
    BY <1>1, <1>10, <2>1, <2>2
  <2> QED
    BY <1>1, <1>2, <2>2, <2>3, Carried
<1>12. RowInv'
  <2>1. SUFFICES ASSUME Len(Prompt) + MaxLine <= W
                 PROVE  faithful /\ console'.x = Len(Prompt) + len'
    BY <1>1, <1>2, Carried DEF RowInv
  <2>2. faithful /\ console.x = Len(Prompt) + len
    BY <1>1, <2>1 DEF ScreenInv, RowInv
  <2>3. console.x < W
    BY <1>1, <1>3, <2>1, <2>2
  <2> QED
    BY <1>1, <1>3, <1>7, <2>2, <2>3
<1> QED
  BY <1>1, <1>2, <1>7, <1>11, <1>12, Carried DEF ScreenInv

LEMMA BackspaceKeeps ==
  ASSUME BufferOK, BufferOK', ScreenInv, Backspace
  PROVE  ScreenInv'
<1>1. /\ ~halted /\ halted' = halted /\ size' = size
      /\ faithful' = (faithful /\ console.x # 0)
      /\ current_buffer_length # 0
      /\ command_buffer' = command_buffer
      /\ current_buffer_length' = current_buffer_length - 1
      /\ console' = console_backspace(console)
  BY DEF Backspace
<1>2. SizeOK /\ ConsoleOK(console)
  BY DEF ScreenInv
<1> DEFINE len == current_buffer_length
           e == console'
<1>3. len \in Nat \ {0} /\ MaxLine \in Nat /\ W \in Nat \ {0} /\ Len(Prompt) \in Nat
  BY <1>1, <1>2, ShellAssumption, SizeType, LenProperties DEF BufferOK
<1>4. \A i \in 1 .. len' : Line'[i] = Line[i] /\ Line[i] \in Glyphs /\ i \in 1 .. len
  <2>1. /\ Line \in Seq(Characters) /\ Len(Line) = len
        /\ \A i \in 1 .. len : Line[i] = command_buffer[i - 1]
    BY LineType
  <2>2. \A i \in 1 .. len' : Line'[i] = command_buffer'[i - 1]
    BY LineTypeNext
  <2>3. \A i \in 1 .. len' : i \in 1 .. len
    BY <1>1, <1>3
  <2>4. \A i \in 1 .. len : Line[i] \in Glyphs
    BY <2>1, ElementOfSeq, ShellAssumption
  <2> QED
    BY <1>1, <2>1, <2>2, <2>3, <2>4
<1>5. /\ ConsoleOK(e)
      /\ console.x # 0 =>
           /\ e.x = console.x - 1 /\ Place(e) = Place(console) - 1
           /\ \A n \in Nat, k \in Glyphs : n < Place(e) /\ Holds(console, n, k) => Holds(e, n, k)
  BY <1>1, <1>2, Erase
<1>6. Place(e) \in Nat
  <2>1. Row(e) \in Nat /\ e.x \in 0 .. W
    BY <1>2, <1>5, RowIs
  <2> QED
    BY <1>3, <2>1 DEF Place
<1>7. Place(console) \in Nat
  <2>1. Row(console) \in Nat /\ console.x \in 0 .. W
    BY <1>2, RowIs
  <2> QED
    BY <1>3, <2>1 DEF Place
<1>8. ASSUME faithful', NEW i \in 1 .. len', Place(e) - len' + i - 1 >= 0
      PROVE  Holds(e, Place(e) - len' + i - 1, Line'[i])
  <2> DEFINE P == Place(e)
             Q == Place(console)
             n == P - len' + i - 1
  <2>1. faithful /\ console.x # 0 /\ P = Q - 1
    BY <1>1, <1>5, <1>8
  <2>2. n = Q - len + i - 1 /\ n \in Nat /\ n < P
    <3>1. len' = len - 1 /\ i \in 1 .. len' /\ P - len' + i - 1 >= 0 /\ P \in Nat /\ Q \in Nat
      BY <1>1, <1>6, <1>7, <1>8
    <3> HIDE DEF P, Q, len
    <3> QED
      BY <1>3, <2>1, <3>1
  <2>3. Holds(console, n, Line[i])
    <3>1. Q - len + i - 1 >= 0
      <4> HIDE DEF n, Q, len
      <4> QED
        BY <2>2
    <3>2. Holds(console, Q - len + i - 1, Line[i])
      BY <1>1, <1>4, <2>1, <3>1 DEF ScreenInv, LineInv
    <3> QED
      BY <2>2, <3>2
  <2> HIDE DEF n
  <2>4. Holds(e, n, Line[i])
    BY <1>4, <1>5, <2>1, <2>2, <2>3
  <2> QED
    BY <1>4, <2>4 DEF n
<1>9. LineInv'
  <2>1. SUFFICES ASSUME faithful', ~halted', NEW i \in 1 .. current_buffer_length',
                        Place(console)' - current_buffer_length' + i - 1 >= 0
                 PROVE  Holds(console, Place(console) - current_buffer_length + i - 1, Line[i])'
    BY DEF LineInv
  <2>2. Place(console)' = Place(console')
    BY <1>1, <1>2, Carried
  <2>3. Holds(console', Place(console') - current_buffer_length' + i - 1, Line'[i])
    BY <1>8, <2>1, <2>2
  <2> QED
    BY <1>1, <1>2, <2>2, <2>3, Carried
<1>10. RowInv'
  <2>1. SUFFICES ASSUME Len(Prompt) + MaxLine <= W
                 PROVE  faithful' /\ console'.x = Len(Prompt) + len'
    BY <1>1, <1>2, Carried DEF RowInv
  <2>2. faithful /\ console.x = Len(Prompt) + len
    BY <1>1, <2>1 DEF ScreenInv, RowInv
  <2>3. console.x # 0
    BY <1>3, <2>2
  <2>4. faithful'
    BY <1>1, <2>2, <2>3, Zenon
  <2>5. console'.x = Len(Prompt) + len'
    BY <1>1, <1>3, <1>5, <2>2, <2>3
  <2> QED
    BY <2>4, <2>5
<1> QED
  BY <1>1, <1>2, <1>5, <1>9, <1>10, Carried DEF ScreenInv

LEMMA EnterKeeps ==
  ASSUME BufferOK, BufferOK', ScreenInv, Enter
  PROVE  ScreenInv'
<1> DEFINE text == IF Command = "ECHO" THEN Echoed \o <<Newline>> ELSE Answers[Command]
           gap  == console_write(console, <<Newline, Newline>>)
           done == console_write(gap, text)
<1>1. /\ ~halted /\ size' = size /\ faithful' = TRUE
      /\ CASE Command = "CLEAR" ->
                console' = shell_init(console_clear) /\ current_buffer_length' = 0
           [] Command = "REBOOT" ->
                console' = done /\ halted' = TRUE
           [] Command \notin {"CLEAR", "REBOOT"} ->
                /\ console' = shell_init(console_write(done, <<Newline>>))
                /\ current_buffer_length' = 0
  BY DEF Enter
<1>2. SizeOK /\ ConsoleOK(console)
  BY DEF ScreenInv
<1>3. ConsoleOK(gap)
  <2>1. <<Newline, Newline>> \in Seq(Glyphs \cup {Newline})
    OBVIOUS
  <2> QED
    BY <1>2, <2>1, Text
<1> HIDE DEF gap
<1>4. Command # "CLEAR" => ConsoleOK(done)
  BY <1>2, <1>3, AnswerType, Text
<1> HIDE DEF done
<1>5. /\ ConsoleOK(console')
      /\ halted' \/ (current_buffer_length' = 0 /\ (Len(Prompt) <= W => console'.x = Len(Prompt)))
  <2>1. CASE Command = "CLEAR"
    BY <1>1, <1>2, <2>1, Clear, PromptAt
  <2>2. CASE Command = "REBOOT"
    BY <1>1, <1>4, <2>2
  <2>3. CASE Command \notin {"CLEAR", "REBOOT"}
    <3> DEFINE c == console_write(done, <<Newline>>)
    <3>1. ConsoleOK(c) /\ c.x = 0
      BY <1>2, <1>4, <2>3, NewLineText
    <3>2. console' = shell_init(c) /\ current_buffer_length' = 0
      BY <1>1, <2>3
    <3> HIDE DEF c
    <3> QED
      BY <1>2, <3>1, <3>2, PromptAt
  <2> QED
    BY <2>1, <2>2, <2>3
<1>6. LineInv'
  BY <1>5 DEF LineInv
<1>7. RowInv'
  <2>1. Len(Prompt) \in Nat /\ MaxLine \in Nat /\ W \in Nat
    BY <1>2, ShellAssumption, LenProperties, SizeType
  <2>2. W' = W
    BY <1>1, <1>2, Carried
  <2> QED
    BY <1>1, <1>5, <2>1, <2>2 DEF RowInv
<1> QED
  BY <1>1, <1>2, <1>5, <1>6, <1>7, Carried DEF ScreenInv

LEMMA ScreenNext ==
  ASSUME BufferOK, BufferOK', ScreenInv, [Next]_vars
  PROVE  ScreenInv'
<1>1. CASE UNCHANGED vars
  BY <1>1 DEF vars, ScreenInv, SizeOK, ConsoleOK, Consoles, W, H, Columns, Rows, LineInv,
              RowInv, Place, Row, Holds, Shows, Line
<1>2. CASE Backspace
  BY <1>2, BackspaceKeeps
<1>3. CASE Enter
  BY <1>3, EnterKeeps
<1>4. ASSUME NEW g \in Characters, Character(g) PROVE ScreenInv'
  BY <1>4, CharacterKeeps
<1> QED
  BY <1>1, <1>2, <1>3, <1>4 DEF Next, Rebooted

LEMMA ScreenAlways == Spec => [](BufferOK /\ ScreenInv)
<1>1. Init => BufferOK /\ ScreenInv
  BY BufferInit, ScreenInit
<1>2. BufferOK /\ ScreenInv /\ [Next]_vars => (BufferOK /\ ScreenInv)'
  BY BufferNext, ScreenNext
<1> QED
  BY <1>1, <1>2, PTL DEF Spec

\* No glyph is ever drawn over another, on any screen: what lies ahead of the cursor
\* is blank after every wrap, scroll, backspace and clear.
THEOREM NeverSmudged == Spec => []Readable
<1>1. BufferOK /\ ScreenInv => Readable
  BY DEF ScreenInv, ConsoleOK, Readable
<1> QED
  BY <1>1, ScreenAlways, PTL

\* The user sees the line that Enter will run, wrapped and scrolled as it may be,
\* unless a backspace has found the cursor at the start of a row.
THEOREM ShowsTheLine == Spec => []LineShown
<1>1. ASSUME BufferOK, ScreenInv PROVE LineShown
  <2>1. SizeOK /\ ConsoleOK(console) /\ LineInv /\ RowInv
    BY <1>1 DEF ScreenInv
  <2>2. W \in Nat \ {0} /\ GlyphHeight \in Nat \ {0} /\ current_buffer_length \in Nat
    BY <1>1, <2>1, SizeType, LineType
  <2>3. Cursor = Place(console) /\ Place(console) \in Nat
    <3>1. Row(console) \in Nat /\ console.x \in 0 .. W
      BY <2>1, RowIs
    <3> QED
      BY <2>2, <3>1 DEF Cursor, Place, Row, W
  <2>4. ASSUME NEW n \in Nat, NEW g, Holds(console, n, g) PROVE Shown(n, g)
    <3>1. n \div W \in Nat
      BY <2>2, Euclid
    <3>2. (n \div W + 1) * GlyphHeight - 1 = (n \div W) * GlyphHeight + GlyphHeight - 1
      <4> DEFINE q == n \div W
      <4>1. q \in Nat
        BY <3>1
      <4> HIDE DEF q
      <4>2. (q + 1) * GlyphHeight - 1 = q * GlyphHeight + GlyphHeight - 1
        BY <2>2, <4>1
      <4> QED
        BY <4>2 DEF q
    <3> QED
      BY <2>4, <3>2 DEF Holds, Shows, Shown, W
  <2>5. Len(Prompt) + MaxLine <= size[1] => faithful
    BY <2>1 DEF RowInv, W
  <2>6. ASSUME faithful, ~halted, NEW i \in 1 .. current_buffer_length,
               Cursor - current_buffer_length + i - 1 >= 0
        PROVE  Shown(Cursor - current_buffer_length + i - 1, Line[i])
    <3>1. Cursor - current_buffer_length + i - 1 \in Nat
      BY <2>2, <2>3, <2>6
    <3>2. Holds(console, Cursor - current_buffer_length + i - 1, Line[i])
      BY <2>1, <2>3, <2>6 DEF LineInv
    <3> QED
      BY <2>4, <3>1, <3>2
  <2> QED
    BY <2>5, <2>6 DEF LineShown
<1> QED
  BY <1>1, ScreenAlways, PTL
=============================================================================
