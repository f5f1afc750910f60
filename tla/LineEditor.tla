----------------------------- MODULE LineEditor -----------------------------
(***************************************************************************)
(* What the shell promises: keys make up a line of at most MaxLine         *)
(* characters, and Enter runs the command that the line names, then and    *)
(* only then, whatever lines there were before.                            *)
(***************************************************************************)
EXTENDS Integers, SequencesExt

CONSTANTS
  Characters,   \* what the keyboard's layout yields, without '\b' and '\n'
  Space,
  MaxLine,
  Names         \* command -> the characters of its name

VARIABLES
  line,
  answer,       \* the last command that was run, and the text it was given
  halted

vars == <<line, answer, halted>>

\* ECHO is the only command that takes a text, behind a space.
Meaning(l) ==
  LET echo == Names["ECHO"] \o <<Space>> IN
  CASE \E c \in DOMAIN Names : l = Names[c] ->
         [command |-> CHOOSE c \in DOMAIN Names : l = Names[c], text |-> <<>>]
    [] IsPrefix(echo, l) ->
         [command |-> "ECHO", text |-> SubSeq(l, Len(echo) + 1, Len(l))]
    [] OTHER -> [command |-> "UNKNOWN", text |-> <<>>]

Init ==
  /\ line = <<>>
  /\ answer = [command |-> "none", text |-> <<>>]
  /\ halted = FALSE

Type(c) ==
  /\ ~halted /\ Len(line) < MaxLine
  /\ line' = Append(line, c)
  /\ UNCHANGED <<answer, halted>>

Erase ==
  /\ ~halted /\ line # <<>>
  /\ line' = Front(line)
  /\ UNCHANGED <<answer, halted>>

Enter ==
  /\ ~halted
  /\ line' = <<>>
  /\ answer' = Meaning(line)
  /\ halted' = (answer'.command = "REBOOT")

Next == Enter \/ Erase \/ \E c \in Characters : Type(c)

Spec == Init /\ [][Next]_vars
=============================================================================
