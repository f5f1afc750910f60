-------------------------------- MODULE Shell --------------------------------
(***************************************************************************)
(* The command line of kernel/shell.c and the text console under it,       *)
(* drivers/console.c and framebuffer.c.  A key is one step: the handler of *)
(* the keyboard is not interrupted.                                        *)
(*                                                                         *)
(* The screen is what lies below CONSOLE_CONTENT_TOP: columns as wide as a *)
(* glyph, and pixel rows scaled down, so that a glyph is GlyphHeight of    *)
(* them and rows may be left over at the bottom.  A pixel row of a column  *)
(* holds the character that is drawn there, Blank, or Smudge if one glyph  *)
(* was drawn over another: screen_draw_glyph erases nothing.  A text is a  *)
(* sequence of codepoints, each of which has a glyph, and of newlines.     *)
(***************************************************************************)
EXTENDS Integers, SequencesExt

CONSTANTS
  Characters,    \* what the keyboard's layout yields, without '\b' and '\n'
  Glyphs,        \* all that has a glyph in the font
  Space,
  Newline,
  MaxLine,       \* 63, one less than the slots of command_buffer
  Names,         \* command -> the characters of its name
  Answers,       \* command -> what it writes, also for "UNKNOWN"
  Prompt,
  GlyphHeight,
  Screens        \* the sizes <<columns, pixel rows>>

Blank  == "blank"
Smudge == "smudge"

\* The names can be typed, no two commands can be meant by one line, and what the
\* kernel writes has glyphs.
ASSUME ShellAssumption ==
  /\ MaxLine \in Nat \ {0} /\ GlyphHeight \in Nat \ {0}
  /\ \A s \in Screens : s[1] \in Nat \ {0} /\ s[2] \in Nat /\ s[2] >= GlyphHeight
  /\ {"ECHO", "CLEAR", "REBOOT"} \subseteq DOMAIN Names
  /\ Characters \subseteq Glyphs /\ {Blank, Smudge, Newline} \cap Glyphs = {}
  /\ \A c \in DOMAIN Names : Names[c] \in Seq(Characters)
  /\ \A c, d \in DOMAIN Names : c # d =>
       /\ Names[c] # Names[d]
       /\ ~IsPrefix(Names["ECHO"] \o <<Space>>, Names[c])
  /\ Prompt \in Seq(Glyphs)
  /\ \A c \in (DOMAIN Names \cup {"UNKNOWN"}) \ {"ECHO", "CLEAR"} :
       c \in DOMAIN Answers /\ Answers[c] \in Seq(Glyphs \cup {Newline})

VARIABLES
  size,                   \* of the screen
  console,                \* its pixels, and the cursor: x a column, y a row
  command_buffer,         \* with all that older lines have left in it
  current_buffer_length,
  halted,                 \* reboot was called
  \* history
  answer,                 \* the last command that was run, and its text
  faithful                \* no erased character of this line is still shown

vars == <<size, console, command_buffer, current_buffer_length, halted, answer,
          faithful>>

Columns == 0 .. size[1] - 1
Rows    == 0 .. size[2] - 1

-----------------------------------------------------------------------------
(* framebuffer.c and console.c, as functions on a console c                *)

Empty == [p \in Columns \X Rows |-> Blank]

\* Mutant: the rows at the bottom are not cleared.
screen_scroll_region_up_Kept(pixels) ==
  [p \in Columns \X Rows |->
     IF p[2] < size[2] - GlyphHeight THEN pixels[<<p[1], p[2] + GlyphHeight>>]
                                     ELSE pixels[p]]

screen_scroll_region_up(pixels) ==
  [p \in Columns \X Rows |->
     IF p[2] < size[2] - GlyphHeight THEN pixels[<<p[1], p[2] + GlyphHeight>>]
                                     ELSE Blank]

\* A space has no pixel of its own.
screen_draw_glyph(pixels, x, y, character) ==
  [p \in Columns \X Rows |->
     CASE p[1] # x \/ p[2] \notin y .. y + GlyphHeight - 1 \/ character = Space ->
            pixels[p]
       [] p[1] = x /\ p[2] \in y .. y + GlyphHeight - 1 /\ character # Space ->
            IF pixels[p] = Blank THEN character ELSE Smudge]

console_new_line(c) ==
  IF c.y + 2 * GlyphHeight > size[2]
  THEN [c EXCEPT !.pixels = screen_scroll_region_up(c.pixels), !.x = 0]
  ELSE [c EXCEPT !.x = 0, !.y = c.y + GlyphHeight]

\* Mutant: the last column is not used.
console_write_codepoint_Early(c, character) ==
  IF character = Newline THEN console_new_line(c)
  ELSE LET d == IF c.x + 2 > size[1] THEN console_new_line(c) ELSE c
       IN  [d EXCEPT !.pixels = screen_draw_glyph(d.pixels, d.x, d.y, character),
                     !.x = d.x + 1]

\* A glyph that does not fit into the row any more begins the next one.
console_write_codepoint(c, character) ==
  IF character = Newline THEN console_new_line(c)
  ELSE LET d == IF c.x + 1 > size[1] THEN console_new_line(c) ELSE c
       IN  [d EXCEPT !.pixels = screen_draw_glyph(d.pixels, d.x, d.y, character),
                     !.x = d.x + 1]

console_write(c, text) == FoldLeft(console_write_codepoint, c, text)

\* It stops at the start of a row, even of one that a long line has begun.
console_backspace(c) ==
  IF c.x = 0 THEN c
  ELSE [c EXCEPT !.x = c.x - 1,
                 !.pixels = [p \in Columns \X Rows |->
                   IF p[1] = c.x - 1 /\ p[2] \in c.y .. c.y + GlyphHeight - 1
                   THEN Blank ELSE c.pixels[p]]]

console_clear == [pixels |-> Empty, x |-> 0, y |-> 0]

-----------------------------------------------------------------------------
(* shell.c                                                                 *)

shell_init(c) == console_write(c, Prompt)

\* The part of the buffer that is the line.
Line == [i \in 1 .. current_buffer_length |-> command_buffer[i - 1]]

\* Mutant: the length of the line is not compared with that of the name.
shell_command_is_Prefix(name) ==
  /\ Len(name) <= current_buffer_length
  /\ \A i \in 1 .. Len(name) : command_buffer[i - 1] = name[i]

shell_command_is(name) ==
  /\ Len(name) = current_buffer_length
  /\ \A i \in 1 .. Len(name) : command_buffer[i - 1] = name[i]

\* The slot behind the name is looked at only if the line is longer.
shell_command_starts_with(name) ==
  /\ Len(name) <= current_buffer_length
  /\ \A i \in 1 .. Len(name) : command_buffer[i - 1] = name[i]
  /\ Len(name) = current_buffer_length \/ command_buffer[Len(name)] = Space

\* The branch that the chain of comparisons takes; no two names are the same.
Command ==
  IF \E c \in DOMAIN Names \ {"ECHO"} : shell_command_is(Names[c])
  THEN CHOOSE c \in DOMAIN Names \ {"ECHO"} : shell_command_is(Names[c])
  ELSE IF shell_command_starts_with(Names["ECHO"]) THEN "ECHO" ELSE "UNKNOWN"

\* What the loop of ECHO writes, from behind the name and the space.
Echoed == SubSeq(Line, Len(Names["ECHO"]) + 2, current_buffer_length)

Init ==
  /\ size \in Screens
  /\ command_buffer = [slot \in 0 .. MaxLine |-> "zero"]
  /\ current_buffer_length = 0
  /\ halted = FALSE
  /\ console = shell_init(console_clear)
  /\ answer = [command |-> "none", text |-> <<>>]
  /\ faithful = TRUE

Backspace ==
  /\ ~halted
  /\ current_buffer_length # 0
  /\ current_buffer_length' = current_buffer_length - 1
  /\ console' = console_backspace(console)
  /\ faithful' = (faithful /\ console.x # 0)
  /\ UNCHANGED <<size, command_buffer, halted, answer>>

\* Two newlines, the answer, a newline and the prompt.  CLEAR starts with an
\* empty console instead, and REBOOT never comes back.
Enter ==
  /\ ~halted
  /\ LET text   == IF Command = "ECHO" THEN Echoed \o <<Newline>>
                                       ELSE Answers[Command]
         gap    == console_write(console, <<Newline, Newline>>)
         done   == console_write(gap, text)
     IN  CASE Command = "CLEAR" ->
                /\ console' = shell_init(console_clear)
                /\ current_buffer_length' = 0
                /\ UNCHANGED halted
           [] Command = "REBOOT" ->
                /\ console' = done
                /\ halted' = TRUE
                /\ UNCHANGED current_buffer_length
           [] Command \notin {"CLEAR", "REBOOT"} ->
                /\ console' = shell_init(console_write(done, <<Newline>>))
                /\ current_buffer_length' = 0
                /\ UNCHANGED halted
  /\ answer' = [command |-> Command,
                text |-> IF Command = "ECHO" THEN Echoed ELSE <<>>]
  /\ faithful' = TRUE
  /\ UNCHANGED <<size, command_buffer>>

\* A full line ignores the key.
Character(c) ==
  /\ ~halted
  /\ current_buffer_length < MaxLine
  /\ command_buffer' = [command_buffer EXCEPT ![current_buffer_length] = c]
  /\ current_buffer_length' = current_buffer_length + 1
  /\ console' = console_write_codepoint(console, c)
  /\ UNCHANGED <<size, halted, answer, faithful>>

Rebooted == halted /\ UNCHANGED vars

Next ==
  \/ Backspace
  \/ Enter
  \/ \E c \in Characters : Character(c)
  \/ Rebooted

Spec == Init /\ [][Next]_vars

-----------------------------------------------------------------------------
(* Properties                                                              *)

\* Columns are counted on from row to row.
Cursor == (console.y \div GlyphHeight) * size[1] + console.x
Shown(n, character) ==
  \A y \in (n \div size[1]) * GlyphHeight .. (n \div size[1] + 1) * GlyphHeight - 1 :
    console.pixels[<<n % size[1], y>>]
      = IF character = Space THEN Blank ELSE character

\* The user sees the line that Enter will run: its characters, wrapped and
\* scrolled as they may be, end at the cursor.  Only a backspace that finds the
\* cursor at the start of a row leaves a character behind, so not where the
\* prompt and a full line fit into one row.
LineShown ==
  /\ Len(Prompt) + MaxLine <= size[1] => faithful
  /\ faithful /\ ~halted =>
       \A i \in 1 .. current_buffer_length :
         LET n == Cursor - current_buffer_length + i - 1
         IN  n >= 0 => Shown(n, Line[i])

\* No glyph is drawn over another: what lies ahead of the cursor is blank after
\* every wrap, scroll, backspace and clear, on screens whose height is no
\* multiple of the glyph's too.
Readable == \A p \in Columns \X Rows : console.pixels[p] # Smudge

\* The buffer with its old contents, its length and the comparisons with the
\* names implement a line editor: what an earlier line has left never decides
\* which command runs, and ECHO repeats the text of this line, all of it.
Editor == INSTANCE LineEditor WITH
  line <- IF halted THEN <<>> ELSE Line

ImplementsLineEditor == Editor!Spec
=============================================================================
