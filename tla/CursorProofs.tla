---------------------------- MODULE CursorProofs ----------------------------
(***************************************************************************)
(* The safety of Cursor for every screen, cursor size and set of           *)
(* movements: the type invariant, the cursor inside the screen, the header *)
(* never stale, and the picture kept by all but the keyboard's output.     *)
(***************************************************************************)
EXTENDS Cursor, TLAPS

\* Interrupts are off exactly while somebody draws, and the cursor is hidden
\* while the main loop draws the header.
Exclusion ==
  /\ cpu_if <=> running = "none"
  /\ running \in {"hidden", "drawn"} => ~mouse_cursor_visible

\* Where Clamped leaves the cursor.
Position ==
  /\ mouse_x \in 0 .. Width - CursorSize
  /\ mouse_y \in 0 .. Height - CursorSize

IInv == TypeOK /\ Exclusion /\ Position /\ HeaderIntact

Images == [Points -> Colors]

-----------------------------------------------------------------------------
(* Images                                                                  *)

LEMMA RectImage ==
  ASSUME NEW m \in Images, NEW area, NEW color \in Colors
  PROVE  /\ Rect(m, area, color) \in Images
         /\ \A p \in Points :
              Rect(m, area, color)[p] = IF p \in area THEN color ELSE m[p]
BY DEF Rect, Images

LEMMA ScrollImage ==
  ASSUME NEW m \in Images
  PROVE  /\ screen_scroll_region_up(m) \in Images
         /\ \A p \in Header : screen_scroll_region_up(m)[p] = m[p]
<1>1. \A p \in Points : p[2] # Height - 1 => <<p[1], p[2] + 1>> \in Points
  BY CursorAssumption DEF Points
<1>2. Background \in Colors
  BY DEF Colors
<1>3. \A p \in Points : screen_scroll_region_up(m)[p] \in Colors
  BY <1>1, <1>2 DEF screen_scroll_region_up, Images
<1>4. screen_scroll_region_up(m) \in Images
  BY <1>3 DEF screen_scroll_region_up, Images
<1>5. ASSUME NEW p \in Header PROVE screen_scroll_region_up(m)[p] = m[p]
  <2>1. p \in Points /\ p[2] \in Int /\ p[2] < ContentTop /\ p[2] # Height - 1
    BY CursorAssumption DEF Header, Points
  <2> QED
    BY <2>1 DEF screen_scroll_region_up
<1> QED
  BY <1>4, <1>5

LEMMA Palette ==
  /\ Red \in Colors /\ Ink \in Colors /\ Background \in Colors
  /\ \A s \in Seconds : HeaderOf(s) \in Colors
BY DEF Colors

\* Hiding the cursor leaves an image, with the header it should have.
LEMMA HiddenImage ==
  ASSUME TypeOK, HeaderIntact
  PROVE  /\ Hidden(screen) \in Images
         /\ \A p \in Header : Hidden(screen)[p] = HeaderOf(header_seconds)
<1>1. Hidden(screen) \in Images
  BY DEF Hidden, TypeOK, Images
<1>2. ASSUME NEW p \in Header
      PROVE  Hidden(screen)[p] = HeaderOf(header_seconds)
  <2>1. p \in Points
    BY DEF Header
  <2>2. CASE mouse_cursor_visible
    BY <2>1, <2>2 DEF Hidden, HeaderIntact
  <2>3. CASE ~mouse_cursor_visible
    BY <2>3 DEF Hidden, HeaderIntact
  <2> QED
    BY <2>2, <2>3
<1> QED
  BY <1>1, <1>2

\* Showing the cursor on a good image keeps the types and the header.
LEMMA ShowKeeps ==
  ASSUME NEW m \in Images, NEW x, NEW y,
         header_seconds' \in Seconds,
         \A p \in Header : m[p] = HeaderOf(header_seconds'),
         mouse_show_cursor(m, x, y)
  PROVE  /\ screen' \in Images
         /\ DOMAIN pixels' \subseteq Points
         /\ \A p \in DOMAIN pixels' : pixels'[p] \in Colors
         /\ mouse_cursor_visible' = TRUE
         /\ HeaderIntact'
<1> DEFINE area == CursorAt(x, y) \cap Points
<1>1. /\ pixels' = [p \in area |-> m[p]]
      /\ screen' = Rect(m, area, Red)
      /\ mouse_cursor_visible' = TRUE
  BY DEF mouse_show_cursor
<1>2. DOMAIN pixels' = area /\ \A p \in area : pixels'[p] = m[p]
  BY <1>1
<1>3. /\ screen' \in Images
      /\ \A p \in Points : screen'[p] = IF p \in area THEN Red ELSE m[p]
  BY <1>1, RectImage, Palette
<1> HIDE DEF area
<1>4. HeaderIntact'
  BY <1>1, <1>2, <1>3 DEF HeaderIntact, Header
<1>5. \A p \in DOMAIN pixels' : pixels'[p] \in Colors
  BY <1>2 DEF Images, area
<1> QED
  BY <1>1, <1>2, <1>3, <1>4, <1>5 DEF area

-----------------------------------------------------------------------------
(* Drawing below the header                                                *)

\* A point that the console draws on.
LEMMA BelowHeader ==
  ASSUME NEW p \in Points, NEW x, NEW y \in Nat, y >= ContentTop, p \in Header
  PROVE  p # <<x, y>>
BY CursorAssumption DEF Header

LEMMA DrawKeeps ==
  ASSUME NEW m \in Images, NEW x, NEW y \in Nat, y >= ContentTop,
         NEW color \in Colors, NEW area \in SUBSET {<<x, y>>}
  PROVE  /\ Rect(m, area, color) \in Images
         /\ \A p \in Header : Rect(m, area, color)[p] = m[p]
<1>1. \A p \in Header : p \in Points /\ p \notin area
  BY BelowHeader DEF Header
<1> QED
  BY <1>1, RectImage

LEMMA NewLineKeeps ==
  ASSUME NEW m \in Images
  PROVE  NewLine(m) \in Images /\ \A p \in Header : NewLine(m)[p] = m[p]
BY ScrollImage DEF NewLine

LEMMA NewRowType ==
  ASSUME console_y \in ContentTop .. Height - 1
  PROVE  NewRow \in ContentTop .. Height - 1
BY CursorAssumption DEF NewRow

\* An image with its header redrawn.
LEMMA HeaderDrawn ==
  ASSUME NEW m \in Images, NEW s \in Seconds
  PROVE  /\ console_update_header(m, s) \in Images
         /\ \A p \in Header : console_update_header(m, s)[p] = HeaderOf(s)
         /\ \A p \in Points \ Header : console_update_header(m, s)[p] = m[p]
BY RectImage, Palette DEF console_update_header, Header

\* The header stays as it is, and so does what HeaderIntact says.
LEMMA HeaderKept ==
  ASSUME HeaderIntact,
         \A p \in Header : screen'[p] = screen[p],
         UNCHANGED <<mouse_cursor_visible, pixels, header_seconds>>
  PROVE  HeaderIntact'
BY DEF HeaderIntact, Header

-----------------------------------------------------------------------------
(* The invariant                                                           *)

\* Two cursors fit, so that the one in the middle is inside.
LEMMA Middle ==
  /\ Width - CursorSize \in Nat /\ Height - CursorSize \in Nat
  /\ Width \div 2 \in 0 .. Width - CursorSize
  /\ Height \div 2 \in 0 .. Height - CursorSize
BY CursorAssumption

LEMMA PositionType ==
  ASSUME Position
  PROVE  mouse_x \in 0 .. Width - 1 /\ mouse_y \in 0 .. Height - 1
BY CursorAssumption DEF Position

LEMMA ClampedInside ==
  ASSUME NEW position \in Int, NEW movement \in Int, NEW length \in Nat,
         CursorSize <= length
  PROVE  Clamped(position, movement, length) \in 0 .. length - CursorSize
BY CursorAssumption DEF Clamped

LEMMA InitIInv == Init => IInv
<1> DEFINE m      == console_update_header(
                       Rect([p \in Points |-> Background], {<<0, ContentTop>>}, Ink), 0)
           area   == CursorAt(Width \div 2, Height \div 2) \cap Points
<1> SUFFICES ASSUME Init PROVE IInv
  OBVIOUS
<1>1. /\ picture = m
      /\ screen = Rect(m, CursorAt(Width \div 2, Height \div 2), Red)
      /\ pixels = [p \in area |-> m[p]]
      /\ mouse_x = Width \div 2 /\ mouse_y = Height \div 2
      /\ mouse_cursor_visible = TRUE
      /\ console_x = 1 /\ console_y = ContentTop
      /\ header_seconds = 0 /\ displayed = 0
      /\ cpu_if = TRUE /\ running = "none"
  BY DEF Init
<1>2. [p \in Points |-> Background] \in Images
  BY Palette DEF Images
<1>3. m \in Images /\ \A p \in Header : m[p] = HeaderOf(0)
  BY <1>2, RectImage, HeaderDrawn, Palette, CursorAssumption
<1> HIDE DEF m
<1>4. /\ screen \in Images
      /\ \A p \in Points : screen[p] = IF p \in area THEN Red ELSE m[p]
  <2> DEFINE place == CursorAt(Width \div 2, Height \div 2)
  <2>1. screen = Rect(m, place, Red)
    BY <1>1
  <2>2. \A p \in Points : p \in area <=> p \in place
    OBVIOUS
  <2> HIDE DEF place, area
  <2> QED
    BY <1>3, <2>1, <2>2, RectImage, Palette
<1>5. DOMAIN pixels = area /\ \A p \in area : pixels[p] = m[p]
  BY <1>1
<1> HIDE DEF area
<1>6. HeaderIntact
  BY <1>1, <1>3, <1>4, <1>5 DEF HeaderIntact, Header
<1>7. Position /\ Exclusion
  BY <1>1, Middle DEF Position, Exclusion
<1>8. \A p \in DOMAIN pixels : p \in Points /\ pixels[p] \in Colors
  BY <1>3, <1>5 DEF area, Images
<1>9. TypeOK
  <2>1. screen \in [Points -> Colors] /\ picture \in [Points -> Colors]
    BY <1>1, <1>3, <1>4 DEF Images
  <2>2. mouse_x \in 0 .. Width - 1 /\ mouse_y \in 0 .. Height - 1
    BY <1>7, PositionType
  <2>3. console_x \in 0 .. Width /\ console_y \in ContentTop .. Height - 1
    BY <1>1, CursorAssumption
  <2>4. header_seconds \in Seconds /\ displayed \in Seconds
    BY <1>1, CursorAssumption
  <2> QED
    BY <1>1, <1>8, <2>1, <2>2, <2>3, <2>4 DEF TypeOK
<1> QED
  BY <1>6, <1>7, <1>9 DEF IInv

\* mouse_irq moves the cursor to a place inside, on the image without it.
LEMMA MouseIInv == IInv /\ mouse_irq => IInv'
<1> SUFFICES ASSUME IInv, mouse_irq PROVE IInv'
  OBVIOUS
<1> USE DEF IInv
<1>1. PICK dx, dy \in Moves : /\ mouse_x' = Clamped(mouse_x, dx, Width)
                              /\ mouse_y' = Clamped(mouse_y, -dy, Height)
  BY DEF mouse_irq
<1>2. Position'
  <2>1. /\ mouse_x \in Int /\ mouse_y \in Int /\ dx \in Int /\ -dy \in Int
        /\ CursorSize <= Width /\ CursorSize <= Height
        /\ Width \in Nat /\ Height \in Nat
    BY CursorAssumption, Middle DEF TypeOK
  <2> QED
    BY <1>1, <2>1, ClampedInside DEF Position
<1>3. /\ mouse_show_cursor(Hidden(screen), mouse_x', mouse_y')
      /\ UNCHANGED <<console, displayed, cpu_if, running, picture>>
      /\ cpu_if
  BY DEF mouse_irq
<1>4. UNCHANGED <<console_x, console_y, header_seconds>>
  BY <1>3 DEF console
<1>5. /\ Hidden(screen) \in Images
      /\ \A p \in Header : Hidden(screen)[p] = HeaderOf(header_seconds')
      /\ header_seconds' \in Seconds
  BY <1>4, HiddenImage DEF TypeOK
<1>6. /\ screen' \in Images
      /\ DOMAIN pixels' \subseteq Points
      /\ \A p \in DOMAIN pixels' : pixels'[p] \in Colors
      /\ mouse_cursor_visible' = TRUE
      /\ HeaderIntact'
  BY <1>3, <1>5, ShowKeeps
<1>7. Exclusion'
  BY <1>3 DEF Exclusion
<1>8. mouse_x' \in 0 .. Width - 1 /\ mouse_y' \in 0 .. Height - 1
  BY <1>2, CursorAssumption DEF Position
<1>9. TypeOK'
  BY <1>3, <1>4, <1>6, <1>8 DEF TypeOK, Images
<1> QED
  BY <1>2, <1>6, <1>7, <1>9

\* keyboard_irq and its return.
LEMMA KeyboardIInv == IInv /\ (keyboard_irq \/ KeyboardReturns) => IInv'
<1> SUFFICES ASSUME IInv, keyboard_irq \/ KeyboardReturns PROVE IInv'
  OBVIOUS
<1>1. /\ UNCHANGED <<screen, pixels, mouse_x, mouse_y, mouse_cursor_visible>>
      /\ UNCHANGED <<console_x, console_y, header_seconds, displayed, picture>>
      /\ \/ cpu_if' = FALSE /\ running' = "keyboard"
         \/ cpu_if' = TRUE /\ running' = "none"
  BY DEF keyboard_irq, KeyboardReturns, mouse, console
<1>2. TypeOK'
  BY <1>1 DEF IInv, TypeOK
<1>3. Exclusion' /\ Position' /\ HeaderIntact'
  BY <1>1 DEF IInv, Exclusion, Position, HeaderIntact
<1> QED
  BY <1>2, <1>3 DEF IInv

\* What the console writes stays below the header.
LEMMA WriteIInv ==
  ASSUME IInv,
         screen' \in Images, picture' \in Images,
         \A p \in Header : screen'[p] = screen[p],
         console_x' \in 0 .. Width, console_y' \in ContentTop .. Height - 1,
         UNCHANGED <<mouse, header_seconds, displayed, cpu_if, running>>
  PROVE  IInv'
<1>1. UNCHANGED <<pixels, mouse_x, mouse_y, mouse_cursor_visible>>
  BY DEF mouse
<1>2. HeaderIntact'
  BY <1>1, HeaderKept DEF IInv
<1>3. TypeOK'
  BY <1>1 DEF IInv, TypeOK, Images
<1>4. Position' /\ Exclusion'
  BY <1>1 DEF IInv, Position, Exclusion
<1> QED
  BY <1>2, <1>3, <1>4 DEF IInv

LEMMA NewlineIInv == IInv /\ WriteNewline => IInv'
<1> SUFFICES ASSUME IInv, WriteNewline PROVE IInv'
  OBVIOUS
<1>1. screen \in Images /\ picture \in Images
      /\ console_y \in ContentTop .. Height - 1
  BY DEF IInv, TypeOK, Images
<1>2. /\ screen' = NewLine(screen) /\ picture' = NewLine(picture)
      /\ console_x' = 0 /\ console_y' = NewRow
      /\ UNCHANGED <<mouse, header_seconds, displayed, cpu_if, running>>
  BY DEF WriteNewline
<1>3. 0 \in 0 .. Width
  BY CursorAssumption
<1> QED
  BY <1>1, <1>2, <1>3, NewLineKeeps, NewRowType, WriteIInv

LEMMA GlyphIInv == IInv /\ WriteGlyph => IInv'
<1> SUFFICES ASSUME IInv, WriteGlyph PROVE IInv'
  OBVIOUS
<1> DEFINE full     == console_x + 1 > Width
           x        == IF full THEN 0 ELSE console_x
           y        == IF full THEN NewRow ELSE console_y
           Base(m)  == IF full THEN NewLine(m) ELSE m
<1>1. PICK sets \in BOOLEAN :
        /\ screen' = Rect(Base(screen), IF sets THEN {<<x, y>>} ELSE {}, Ink)
        /\ picture' = Rect(Base(picture), IF sets THEN {<<x, y>>} ELSE {}, Ink)
        /\ console_x' = x + 1 /\ console_y' = y
  BY DEF WriteGlyph
<1>2. UNCHANGED <<mouse, header_seconds, displayed, cpu_if, running>>
  BY DEF WriteGlyph
<1>3. /\ screen \in Images /\ picture \in Images
      /\ console_x \in 0 .. Width /\ console_y \in ContentTop .. Height - 1
  BY DEF IInv, TypeOK, Images
<1>4. y \in ContentTop .. Height - 1 /\ y \in Nat /\ y >= ContentTop
  BY <1>3, NewRowType, CursorAssumption
<1>5. x + 1 \in 0 .. Width
  BY <1>3, CursorAssumption
<1>6. /\ Base(screen) \in Images /\ Base(picture) \in Images
      /\ \A p \in Header : Base(screen)[p] = screen[p]
  BY <1>3, NewLineKeeps
<1> DEFINE area == IF sets THEN {<<x, y>>} ELSE {}
<1>7. area \in SUBSET {<<x, y>>} /\ Ink \in Colors
  BY Palette
<1> HIDE DEF x, y, Base, full, area
<1>8. /\ screen' = Rect(Base(screen), area, Ink)
      /\ picture' = Rect(Base(picture), area, Ink)
  BY <1>1 DEF area
<1>9. /\ screen' \in Images /\ picture' \in Images
      /\ \A p \in Header : screen'[p] = Base(screen)[p]
  BY <1>4, <1>6, <1>7, <1>8, DrawKeeps
<1>10. \A p \in Header : screen'[p] = screen[p]
  BY <1>6, <1>9
<1> QED
  BY <1>1, <1>2, <1>4, <1>5, <1>9, <1>10, WriteIInv

LEMMA BackspaceIInv == IInv /\ console_backspace => IInv'
<1> SUFFICES ASSUME IInv, console_backspace PROVE IInv'
  OBVIOUS
<1>1. /\ console_x # 0 /\ console_x' = console_x - 1
      /\ screen' = Rect(screen, {<<console_x', console_y>>}, Background)
      /\ picture' = Rect(picture, {<<console_x', console_y>>}, Background)
      /\ UNCHANGED <<mouse, console_y, header_seconds, displayed, cpu_if, running>>
  BY DEF console_backspace
<1>2. /\ screen \in Images /\ picture \in Images
      /\ console_x \in 0 .. Width /\ console_y \in ContentTop .. Height - 1
  BY DEF IInv, TypeOK, Images
<1>3. console_y \in Nat /\ console_y >= ContentTop /\ console_x' \in 0 .. Width
  BY <1>1, <1>2, CursorAssumption
<1>4. /\ screen' \in Images /\ picture' \in Images
      /\ \A p \in Header : screen'[p] = screen[p]
  BY <1>1, <1>2, <1>3, DrawKeeps, Palette
<1> QED
  BY <1>1, <1>2, <1>3, <1>4, WriteIInv

\* CLEAR draws the header over the cursor; what the cursor saved is still right.
LEMMA ClearIInv == IInv /\ console_clear => IInv'
<1> SUFFICES ASSUME IInv, console_clear PROVE IInv'
  OBVIOUS
<1> DEFINE cleared == console_update_header([p \in Points |-> Background],
                                            header_seconds)
<1>1. /\ screen' = cleared /\ picture' = cleared
      /\ console_x' = 0 /\ console_y' = ContentTop
      /\ UNCHANGED <<pixels, mouse_x, mouse_y, mouse_cursor_visible>>
      /\ UNCHANGED <<header_seconds, displayed, cpu_if, running>>
  BY DEF console_clear, mouse
<1>2. [p \in Points |-> Background] \in Images /\ header_seconds \in Seconds
  BY Palette DEF Images, IInv, TypeOK
<1>3. cleared \in Images /\ \A p \in Header : cleared[p] = HeaderOf(header_seconds)
  BY <1>2, HeaderDrawn
<1> HIDE DEF cleared
<1>4. HeaderIntact'
  BY <1>1, <1>3 DEF HeaderIntact, Header, IInv
<1>5. console_x' \in 0 .. Width /\ console_y' \in ContentTop .. Height - 1
  BY <1>1, CursorAssumption
<1>6. TypeOK'
  BY <1>1, <1>3, <1>5 DEF IInv, TypeOK, Images
<1>7. Position' /\ Exclusion'
  BY <1>1 DEF IInv, Position, Exclusion
<1> QED
  BY <1>4, <1>6, <1>7 DEF IInv

\* The main loop: cli, hide, draw, show and sti.
LEMMA HideIInv == IInv /\ (CliUpdate \/ mouse_hide_cursor) => IInv'
<1>1. ASSUME IInv, CliUpdate PROVE IInv'
  <2>1. /\ UNCHANGED <<screen, pixels, mouse_x, mouse_y, mouse_cursor_visible>>
        /\ UNCHANGED <<console_x, console_y, header_seconds, displayed, picture>>
        /\ cpu_if' = FALSE /\ running' = "cli"
    BY <1>1 DEF CliUpdate, mouse, console
  <2>2. TypeOK'
    BY <1>1, <2>1 DEF IInv, TypeOK
  <2>3. Exclusion' /\ Position' /\ HeaderIntact'
    BY <1>1, <2>1 DEF IInv, Exclusion, Position, HeaderIntact
  <2> QED
    BY <2>2, <2>3 DEF IInv
<1>2. ASSUME IInv, mouse_hide_cursor PROVE IInv'
  <2>1. /\ screen' = Hidden(screen) /\ mouse_cursor_visible' = FALSE
        /\ running = "cli" /\ running' = "hidden"
        /\ UNCHANGED <<pixels, mouse_x, mouse_y, displayed, cpu_if, picture>>
        /\ UNCHANGED <<console_x, console_y, header_seconds>>
    BY <1>2 DEF mouse_hide_cursor, console
  <2>2. /\ screen' \in Images
        /\ \A p \in Header : screen'[p] = HeaderOf(header_seconds')
    BY <1>2, <2>1, HiddenImage DEF IInv
  <2>3. TypeOK'
    BY <1>2, <2>1, <2>2 DEF IInv, TypeOK, Images
  <2>4. Exclusion' /\ Position' /\ HeaderIntact'
    BY <1>2, <2>1, <2>2 DEF IInv, Exclusion, Position, HeaderIntact, Header
  <2> QED
    BY <2>3, <2>4 DEF IInv
<1> QED
  BY <1>1, <1>2

LEMMA UpdateIInv == IInv /\ UpdateHeader => IInv'
<1> SUFFICES ASSUME IInv, UpdateHeader PROVE IInv'
  OBVIOUS
<1>1. PICK uptime \in Seconds :
        /\ screen' = console_update_header(screen, uptime)
        /\ picture' = console_update_header(picture, uptime)
        /\ header_seconds' = uptime
  BY DEF UpdateHeader
<1>2. /\ running = "hidden" /\ running' = "drawn"
      /\ UNCHANGED <<pixels, mouse_x, mouse_y, mouse_cursor_visible>>
      /\ UNCHANGED <<console_x, console_y, displayed, cpu_if>>
  BY DEF UpdateHeader, mouse
<1>3. /\ screen' \in Images /\ picture' \in Images
      /\ \A p \in Header : screen'[p] = HeaderOf(header_seconds')
  BY <1>1, HeaderDrawn DEF IInv, TypeOK, Images
<1>4. ~mouse_cursor_visible'
  BY <1>2 DEF IInv, Exclusion
<1>5. HeaderIntact'
  BY <1>3, <1>4 DEF HeaderIntact, Header
<1>6. TypeOK'
  BY <1>1, <1>2, <1>3 DEF IInv, TypeOK, Images
<1>7. Position' /\ Exclusion'
  BY <1>2, <1>4 DEF IInv, Position, Exclusion
<1> QED
  BY <1>5, <1>6, <1>7 DEF IInv

LEMMA ShowIInv == IInv /\ ShowAndSti => IInv'
<1> SUFFICES ASSUME IInv, ShowAndSti PROVE IInv'
  OBVIOUS
<1>1. /\ running = "drawn" /\ running' = "none" /\ cpu_if' = TRUE
      /\ displayed' = header_seconds
      /\ UNCHANGED <<mouse_x, mouse_y, picture>>
      /\ UNCHANGED <<console_x, console_y, header_seconds>>
  BY DEF ShowAndSti, console
<1>2. ~mouse_cursor_visible
  BY <1>1 DEF IInv, Exclusion
<1>3. mouse_show_cursor(screen, mouse_x, mouse_y)
  BY <1>2 DEF ShowAndSti
<1>4. /\ screen \in Images /\ header_seconds' \in Seconds
      /\ \A p \in Header : screen[p] = HeaderOf(header_seconds')
  BY <1>1, <1>2 DEF IInv, TypeOK, Images, HeaderIntact
<1>5. /\ screen' \in Images
      /\ DOMAIN pixels' \subseteq Points
      /\ \A p \in DOMAIN pixels' : pixels'[p] \in Colors
      /\ mouse_cursor_visible' = TRUE
      /\ HeaderIntact'
  BY <1>3, <1>4, ShowKeeps
<1>6. TypeOK'
  BY <1>1, <1>5 DEF IInv, TypeOK, Images
<1>7. Position' /\ Exclusion'
  BY <1>1 DEF IInv, Position, Exclusion
<1> QED
  BY <1>5, <1>6, <1>7 DEF IInv

LEMMA NextIInv == IInv /\ [Next]_vars => IInv'
<1>1. ASSUME IInv, UNCHANGED vars PROVE IInv'
  <2>1. TypeOK'
    BY <1>1 DEF IInv, TypeOK, vars, mouse, console
  <2>2. Exclusion' /\ Position' /\ HeaderIntact'
    BY <1>1 DEF IInv, Exclusion, Position, HeaderIntact, vars, mouse, console
  <2> QED
    BY <2>1, <2>2 DEF IInv
<1> QED
  BY <1>1, MouseIInv, KeyboardIInv, NewlineIInv, GlyphIInv, BackspaceIInv,
     ClearIInv, HideIInv, UpdateIInv, ShowIInv
  DEF Next, KeyboardStep, MainStep

LEMMA Invariance == Spec => []IInv
BY InitIInv, NextIInv, PTL DEF Spec

-----------------------------------------------------------------------------
(* The theorems                                                            *)

\* The variables keep their types on every screen: the console never draws above
\* CONSOLE_CONTENT_TOP or below the screen, nor to the left of it.
THEOREM TypeCorrect == Spec => []TypeOK
<1>1. IInv => TypeOK
  BY DEF IInv
<1> QED
  BY <1>1, Invariance, PTL

\* mouse_irq keeps the whole cursor on the screen, however long its movements:
\* no pixel of it is ever clipped.
THEOREM StaysInside == Spec => []CursorInside
<1>1. ASSUME IInv PROVE CursorInside
  <2>1. ASSUME NEW p \in CursorAt(mouse_x, mouse_y) PROVE p \in Points
    <3>1. PICK a \in mouse_x .. mouse_x + CursorSize - 1,
               b \in mouse_y .. mouse_y + CursorSize - 1 : p = <<a, b>>
      BY DEF CursorAt
    <3>2. a \in 0 .. Width - 1 /\ b \in 0 .. Height - 1
      BY <1>1, <3>1, CursorAssumption DEF IInv, Position
    <3> QED
      BY <3>1, <3>2 DEF Points
  <2> QED
    BY <2>1 DEF CursorInside
<1> QED
  BY <1>1, Invariance, PTL

\* Whatever interrupts whatever, the header shows the second it was drawn for,
\* and so do the pixels that the cursor will put back over it.
THEOREM HeaderNeverStale == Spec => []HeaderIntact
<1>1. IInv => HeaderIntact
  BY DEF IInv
<1> QED
  BY <1>1, Invariance, PTL

\* Without the cursor, a right screen is the picture.
LEMMA HiddenIsPicture ==
  ASSUME TypeOK, PictureRight
  PROVE  Hidden(screen) = picture
<1>1. screen \in Images /\ picture \in Images /\ DOMAIN pixels \subseteq Points
  BY DEF TypeOK, Images
<1>2. CASE mouse_cursor_visible
  <2>1. \A p \in Points : screen[p] = IF p \in DOMAIN pixels THEN Red ELSE picture[p]
    BY <1>1, <1>2, RectImage, Palette DEF PictureRight
  <2>2. \A p \in DOMAIN pixels : pixels[p] = picture[p]
    BY <1>2 DEF PictureRight
  <2>3. Hidden(screen) = [p \in Points |-> picture[p]]
    BY <1>2, <2>1, <2>2 DEF Hidden
  <2> QED
    BY <1>1, <2>3 DEF Images
<1>3. CASE ~mouse_cursor_visible
  BY <1>3 DEF Hidden, PictureRight
<1> QED
  BY <1>2, <1>3

\* Shown on the picture, the cursor makes the screen right.
LEMMA ShowIsRight ==
  ASSUME NEW x, NEW y, UNCHANGED picture, mouse_show_cursor(picture, x, y)
  PROVE  PictureRight'
<1> DEFINE area == CursorAt(x, y) \cap Points
<1>1. /\ pixels' = [p \in area |-> picture[p]]
      /\ screen' = Rect(picture, area, Red)
      /\ mouse_cursor_visible' = TRUE
  BY DEF mouse_show_cursor
<1>2. DOMAIN pixels' = area /\ \A p \in area : pixels'[p] = picture[p]
  BY <1>1
<1> HIDE DEF area
<1> QED
  BY <1>1, <1>2 DEF PictureRight

LEMMA StepKeepsPicture ==
  ASSUME IInv, Next, PictureRight, running # "keyboard"
  PROVE  PictureRight'
<1>1. Hidden(screen) = picture
  BY HiddenIsPicture DEF IInv
<1>2. CASE mouse_irq
  BY <1>1, <1>2, ShowIsRight DEF mouse_irq
<1>3. CASE keyboard_irq \/ CliUpdate
  <2>1. UNCHANGED <<screen, pixels, mouse_cursor_visible, picture>>
    BY <1>3 DEF keyboard_irq, CliUpdate, mouse
  <2> QED
    BY <2>1 DEF PictureRight
<1>4. CASE mouse_hide_cursor
  BY <1>1, <1>4 DEF mouse_hide_cursor, PictureRight
<1>5. CASE UpdateHeader
  <2>1. running = "hidden" /\ ~mouse_cursor_visible /\ screen = picture
    BY <1>5 DEF UpdateHeader, IInv, Exclusion, PictureRight
  <2>2. screen' = picture' /\ ~mouse_cursor_visible'
    BY <1>5, <2>1 DEF UpdateHeader, mouse
  <2> QED
    BY <2>2 DEF PictureRight
<1>6. CASE ShowAndSti
  <2>1. running = "drawn" /\ ~mouse_cursor_visible /\ screen = picture
    BY <1>6 DEF ShowAndSti, IInv, Exclusion, PictureRight
  <2>2. mouse_show_cursor(picture, mouse_x, mouse_y) /\ UNCHANGED picture
    BY <1>6, <2>1 DEF ShowAndSti
  <2> QED
    BY <2>2, ShowIsRight
<1>7. ~(KeyboardStep /\ ~keyboard_irq)
  BY DEF KeyboardStep, KeyboardReturns, WriteNewline, WriteGlyph,
         console_backspace, console_clear
<1> QED
  BY <1>2, <1>3, <1>4, <1>5, <1>6, <1>7 DEF Next, MainStep

\* A packet of the mouse or an update of the header leaves a right screen right,
\* and what the cursor will put back with it; only the keyboard's handler, that
\* draws without hiding the cursor, may spoil it.
THEOREM PictureStaysRight == Spec => PictureKept
<1>1. IInv /\ [Next]_vars =>
        [PictureRight /\ running # "keyboard" => PictureRight']_vars
  BY StepKeepsPicture
<1> QED
  BY <1>1, Invariance, PTL DEF Spec, PictureKept
=============================================================================
