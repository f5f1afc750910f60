------------------------------- MODULE Cursor -------------------------------
(***************************************************************************)
(* Three writers of one framebuffer: the main loop redraws the header      *)
(* (main.c, console.c), the mouse handler moves a software cursor and puts *)
(* back the pixels that were under it (mouse.c), and the keyboard handler  *)
(* writes, scrolls and clears the console (shell.c, console.c,             *)
(* framebuffer.c).  A handler is not interrupted; the main loop is, except *)
(* between cli and sti.  A glyph is scaled down to one pixel, that it sets *)
(* or, like the space, leaves alone; columns and rows count from 0.        *)
(***************************************************************************)
EXTENDS Integers

CONSTANTS
  Width, Height,  \* of the framebuffer
  ContentTop,     \* CONSOLE_CONTENT_TOP; the header fills the rows above it
  CursorSize,     \* MOUSE_CURSOR_SIZE
  Moves,          \* the movements of a packet
  Seconds         \* uptimes, 0 the first

ASSUME CursorAssumption ==
  /\ Width \in Nat /\ Height \in Nat /\ CursorSize \in Nat \ {0}
  /\ ContentTop \in Nat /\ ContentTop + 1 < Height
  /\ 2 * CursorSize <= Width + 1 /\ 2 * CursorSize <= Height + 1
  /\ Moves \subseteq Int
  /\ 0 \in Seconds /\ Seconds \subseteq Nat

Points == (0 .. Width - 1) \X (0 .. Height - 1)
Header == {p \in Points : p[2] < ContentTop}

\* The colors, as numbers: those of a header with second s are told apart by s.
Red         == -1         \* MOUSE_CURSOR_COLOR
Ink         == -2         \* the text color
Background  == -3
HeaderOf(s) == s
Colors      == {Red, Ink, Background} \cup {HeaderOf(s) : s \in Seconds}

VARIABLES
  screen,           \* the framebuffer
  pixels,           \* what mouse.c saved, by the point it was read from
  mouse_x, mouse_y,
  mouse_cursor_visible,
  console_x, console_y,
  header_seconds,   \* console_header_uptime_seconds
  displayed,        \* displayed_uptime_seconds of the main loop
  cpu_if,
  running,          \* who draws: the main loop is in its update, or a handler
  picture           \* history: the framebuffer if there were no cursor

mouse   == <<pixels, mouse_x, mouse_y, mouse_cursor_visible>>
console == <<console_x, console_y, header_seconds>>
vars    == <<screen, mouse, console, displayed, cpu_if, running, picture>>

-----------------------------------------------------------------------------
(* framebuffer.c and the drawing of console.c, on an image m               *)

Rect(m, area, color) == [p \in Points |-> IF p \in area THEN color ELSE m[p]]

screen_scroll_region_up(m) ==
  [p \in Points |->
     CASE p[2] < ContentTop -> m[p]
       [] p[2] = Height - 1 -> Background
       [] OTHER -> m[<<p[1], p[2] + 1>>]]

console_update_header(m, s) == Rect(m, Header, HeaderOf(s))

-----------------------------------------------------------------------------
(* mouse.c.  While the cursor is visible, mouse_old_x and mouse_old_y are  *)
(* the position, and the saved pixels are those at it.                     *)

CursorAt(x, y) == (x .. x + CursorSize - 1) \X (y .. y + CursorSize - 1)

\* mouse_hide_cursor: the image it leaves.
Hidden(m) ==
  IF mouse_cursor_visible
  THEN [p \in Points |-> IF p \in DOMAIN pixels THEN pixels[p] ELSE m[p]]
  ELSE m

\* Mutant: the red pixels are saved.
mouse_show_cursor_Late(m, x, y) ==
  LET area == CursorAt(x, y) \cap Points IN
  /\ pixels' = [p \in area |-> Red]
  /\ screen' = Rect(m, area, Red)
  /\ mouse_cursor_visible' = TRUE

\* mouse_show_cursor, on the image m, when the cursor is hidden.
mouse_show_cursor(m, x, y) ==
  LET area == CursorAt(x, y) \cap Points IN
  /\ pixels' = [p \in area |-> m[p]]
  /\ screen' = Rect(m, area, Red)
  /\ mouse_cursor_visible' = TRUE

\* Mutant: the cursor may leave the screen on the right and at the bottom.
Clamped_Outside(position, movement, size) ==
  LET moved == position + movement
  IN  IF moved < 0 THEN 0 ELSE IF moved > size - 1 THEN size - 1 ELSE moved

Clamped(position, movement, size) ==
  LET moved == position + movement
  IN  IF moved < 0 THEN 0
      ELSE IF moved > size - CursorSize THEN size - CursorSize
      ELSE moved

\* mouse_irq at the last byte of a packet; rows count downwards.
mouse_irq ==
  /\ cpu_if
  /\ \E dx, dy \in Moves :
       /\ mouse_x' = Clamped(mouse_x, dx, Width)
       /\ mouse_y' = Clamped(mouse_y, -dy, Height)
  /\ mouse_show_cursor(Hidden(screen), mouse_x', mouse_y')
  /\ UNCHANGED <<console, displayed, cpu_if, running, picture>>

-----------------------------------------------------------------------------
(* keyboard_irq: a key writes any number of characters, or clears          *)

keyboard_irq ==
  /\ cpu_if
  /\ cpu_if' = FALSE
  /\ running' = "keyboard"
  /\ UNCHANGED <<screen, mouse, console, displayed, picture>>

\* console_new_line: the row after it, and the image.
NewRow == IF console_y + 1 >= Height THEN console_y ELSE console_y + 1
NewLine(m) ==
  IF console_y + 1 >= Height THEN screen_scroll_region_up(m) ELSE m

WriteNewline ==
  /\ running = "keyboard"
  /\ screen' = NewLine(screen) /\ picture' = NewLine(picture)
  /\ console_x' = 0 /\ console_y' = NewRow
  /\ UNCHANGED <<mouse, header_seconds, displayed, cpu_if, running>>

\* A character with a glyph: a line that is full is ended first.
WriteGlyph ==
  /\ running = "keyboard"
  /\ \E sets \in BOOLEAN :
       LET full     == console_x + 1 > Width
           x        == IF full THEN 0 ELSE console_x
           y        == IF full THEN NewRow ELSE console_y
           After(m) == Rect(IF full THEN NewLine(m) ELSE m,
                            IF sets THEN {<<x, y>>} ELSE {}, Ink)
       IN  /\ screen' = After(screen) /\ picture' = After(picture)
           /\ console_x' = x + 1 /\ console_y' = y
  /\ UNCHANGED <<mouse, header_seconds, displayed, cpu_if, running>>

\* Mutant: nothing stops at the start of the line.
console_backspace_Unchecked ==
  /\ running = "keyboard"
  /\ console_x' = console_x - 1
  /\ screen' = Rect(screen, {<<console_x', console_y>>}, Background)
  /\ picture' = Rect(picture, {<<console_x', console_y>>}, Background)
  /\ UNCHANGED <<mouse, console_y, header_seconds, displayed, cpu_if, running>>

\* It erases within a row only, even if a long line has wrapped.
console_backspace ==
  /\ running = "keyboard"
  /\ console_x # 0
  /\ console_x' = console_x - 1
  /\ screen' = Rect(screen, {<<console_x', console_y>>}, Background)
  /\ picture' = Rect(picture, {<<console_x', console_y>>}, Background)
  /\ UNCHANGED <<mouse, console_y, header_seconds, displayed, cpu_if, running>>

\* The header is drawn again, with the second it showed.
console_clear ==
  LET cleared == console_update_header([p \in Points |-> Background],
                                       header_seconds)
  IN  /\ running = "keyboard"
      /\ screen' = cleared /\ picture' = cleared
      /\ console_x' = 0 /\ console_y' = ContentTop
      /\ UNCHANGED <<mouse, header_seconds, displayed, cpu_if, running>>

KeyboardReturns ==
  /\ running = "keyboard"
  /\ cpu_if' = TRUE
  /\ running' = "none"
  /\ UNCHANGED <<screen, mouse, console, displayed, picture>>

-----------------------------------------------------------------------------
(* The main loop                                                           *)

\* Mutant: the interrupts stay on.
CliUpdate_Skipped ==
  /\ cpu_if /\ running = "none"
  /\ running' = "cli"
  /\ UNCHANGED <<screen, mouse, console, displayed, cpu_if, picture>>

\* A new second has begun: cli.
CliUpdate ==
  /\ cpu_if /\ running = "none"
  /\ cpu_if' = FALSE
  /\ running' = "cli"
  /\ UNCHANGED <<screen, mouse, console, displayed, picture>>

mouse_hide_cursor ==
  /\ running = "cli"
  /\ screen' = Hidden(screen)
  /\ mouse_cursor_visible' = FALSE
  /\ running' = "hidden"
  /\ UNCHANGED <<pixels, mouse_x, mouse_y, console, displayed, cpu_if, picture>>

UpdateHeader ==
  /\ running = "hidden"
  /\ \E uptime \in Seconds \ {displayed} :
       /\ screen' = console_update_header(screen, uptime)
       /\ picture' = console_update_header(picture, uptime)
       /\ header_seconds' = uptime
  /\ running' = "drawn"
  /\ UNCHANGED <<mouse, console_x, console_y, displayed, cpu_if>>

ShowAndSti ==
  /\ running = "drawn"
  /\ IF mouse_cursor_visible
     THEN UNCHANGED <<screen, pixels, mouse_cursor_visible>>
     ELSE mouse_show_cursor(screen, mouse_x, mouse_y)
  /\ displayed' = header_seconds
  /\ cpu_if' = TRUE
  /\ running' = "none"
  /\ UNCHANGED <<mouse_x, mouse_y, console, picture>>

\* kmain reaches its loop: the console shows its prompt and mouse_init the
\* cursor in the middle.
Init ==
  LET prompt == console_update_header(
                  Rect([p \in Points |-> Background], {<<0, ContentTop>>}, Ink), 0)
      area   == CursorAt(Width \div 2, Height \div 2)
  IN  /\ picture = prompt
      /\ screen = Rect(prompt, area, Red)
      /\ pixels = [p \in area \cap Points |-> prompt[p]]
      /\ mouse_x = Width \div 2 /\ mouse_y = Height \div 2
      /\ mouse_cursor_visible = TRUE
      /\ console_x = 1 /\ console_y = ContentTop
      /\ header_seconds = 0 /\ displayed = 0
      /\ cpu_if = TRUE /\ running = "none"

KeyboardStep ==
  \/ keyboard_irq \/ KeyboardReturns
  \/ WriteNewline \/ WriteGlyph \/ console_backspace \/ console_clear

MainStep == CliUpdate \/ mouse_hide_cursor \/ UpdateHeader \/ ShowAndSti

Next == mouse_irq \/ KeyboardStep \/ MainStep

Spec == Init /\ [][Next]_vars

-----------------------------------------------------------------------------
(* Properties                                                              *)

TypeOK ==
  /\ screen \in [Points -> Colors] /\ picture \in [Points -> Colors]
  /\ DOMAIN pixels \subseteq Points
  /\ \A p \in DOMAIN pixels : pixels[p] \in Colors
  /\ mouse_x \in 0 .. Width - 1 /\ mouse_y \in 0 .. Height - 1
  /\ mouse_cursor_visible \in BOOLEAN /\ cpu_if \in BOOLEAN
  /\ console_x \in 0 .. Width /\ console_y \in ContentTop .. Height - 1
  /\ header_seconds \in Seconds /\ displayed \in Seconds
  /\ running \in {"none", "keyboard", "cli", "hidden", "drawn"}

\* The whole cursor is on the screen, wherever the packets move it, so that no
\* pixel of it is drawn or saved outside.
CursorInside == CursorAt(mouse_x, mouse_y) \subseteq Points

\* The header always shows the second it was last drawn for, under the cursor
\* if that covers it, and so do the pixels that the cursor will put back: no
\* mouse or keyboard interrupt brings an old second back or leaves a hole, even
\* CLEAR, that draws the header without hiding the cursor.
HeaderIntact ==
  \A p \in Header :
    /\ screen[p] = HeaderOf(header_seconds)
         \/ (mouse_cursor_visible /\ screen[p] = Red /\ p \in DOMAIN pixels)
    /\ mouse_cursor_visible /\ p \in DOMAIN pixels =>
         pixels[p] = HeaderOf(header_seconds)

\* mouse.c hides the cursor before another subsystem redraws: what is on the
\* screen is the picture with the cursor on top, and what the cursor will put
\* back is the picture under it.
PictureRight ==
  IF mouse_cursor_visible
  THEN /\ screen = Rect(picture, DOMAIN pixels, Red)
       /\ \A p \in DOMAIN pixels : pixels[p] = picture[p]
  ELSE screen = picture

\* A packet or an update of the header never spoils a right picture, whatever
\* their order: only what is drawn without hiding the cursor can.
PictureKept == [][PictureRight /\ running # "keyboard" => PictureRight']_vars
=============================================================================
