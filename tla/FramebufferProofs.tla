-------------------------- MODULE FramebufferProofs --------------------------
(***************************************************************************)
(* The pixels implement the cells of Screen, and the crash screen can be   *)
(* read.  Both rest on the geometry of the first part: drawing into a cell *)
(* changes that cell's pixels and no other's.                              *)
(***************************************************************************)
EXTENDS Framebuffer, SequenceTheorems, WellFoundedInduction, TLAPS

\* The cells that are on the screen as a whole, (column, pixel row).
Whole == { c \in Nat \X Nat : /\ c[1] * 8 + 8 <= Width /\ c[2] + 16 <= Height
                              /\ c[2] % 16 = 0 }

\* Rows do not run into each other.
WidePitch == pitch \in Nat /\ Width <= pitch

-----------------------------------------------------------------------------
(* Geometry.                                                               *)

\* Different points of rows that are at most pitch wide are at different
\* positions.
LEMMA RowsApart ==
  ASSUME NEW w \in Nat, NEW x \in Nat, NEW y \in Nat, NEW u \in Nat, NEW v \in Nat,
         x < w, u < w, y * w + x = v * w + u
  PROVE  x = u /\ y = v
<1>1. ASSUME NEW a \in Nat, NEW b \in Nat, a < b
      PROVE  a * w + w <= b * w
  <2>1. b = a + 1 + (b - a - 1) /\ b - a - 1 \in Nat
    BY <1>1
  <2>2. PICK d \in Nat : b = a + 1 + d
    BY <2>1
  <2>3. b * w = a * w + w + d * w
    BY <2>2
  <2>4. d * w \in Nat /\ a * w \in Nat
    OBVIOUS
  <2>5. QED  BY <2>3, <2>4
<1>2. y * w \in Nat /\ v * w \in Nat
  OBVIOUS
<1>3. ~(y < v)
  <2>1. ASSUME y < v PROVE FALSE
    <3>1. y * w + w <= v * w
      BY <1>1, <2>1
    <3>2. QED  BY <1>2, <3>1
  <2>2. QED  BY <2>1
<1>4. ~(v < y)
  <2>1. ASSUME v < y PROVE FALSE
    <3>1. v * w + w <= y * w
      BY <1>1, <2>1
    <3>2. QED  BY <1>2, <3>1
  <2>2. QED  BY <2>1
<1>5. y = v
  BY <1>3, <1>4
<1>6. QED  BY <1>2, <1>5

\* The position of a cell's pixel.
Point(c, p) == At(c[1] * 8 + p[1], c[2] + p[2])

\* So are the pixels of two cells, and different pixels of one.
LEMMA CellsApart ==
  ASSUME WidePitch, NEW c \in Whole, NEW d \in Whole, NEW p \in Box, NEW q \in Box,
         Point(c, p) = Point(d, q)
  PROVE  c = d /\ p = q
<1>1. PICK a \in Nat, b \in Nat : c = <<a, b>> /\ a * 8 + 8 <= Width /\ b % 16 = 0
  BY DEF Whole
<1>2. PICK e \in Nat, f \in Nat : d = <<e, f>> /\ e * 8 + 8 <= Width /\ f % 16 = 0
  BY DEF Whole
<1>3. PICK i \in 0..7, k \in 0..15 : p = <<i, k>>
  BY DEF Box
<1>4. PICK j \in 0..7, l \in 0..15 : q = <<j, l>>
  BY DEF Box
<1>5. (b + k) * pitch + (a * 8 + i) = (f + l) * pitch + (e * 8 + j)
  BY <1>1, <1>2, <1>3, <1>4 DEF At, Point
<1>6. pitch \in Nat /\ a * 8 + 8 <= pitch /\ e * 8 + 8 <= pitch
  BY <1>1, <1>2, PitchAssumption DEF WidePitch
<1>7. /\ a * 8 + i \in Nat /\ a * 8 + i < pitch /\ e * 8 + j \in Nat /\ e * 8 + j < pitch
      /\ b + k \in Nat /\ f + l \in Nat
  BY <1>6
<1>8. a * 8 + i = e * 8 + j /\ b + k = f + l
  BY <1>5, <1>6, <1>7, RowsApart
<1>9. a = e /\ i = j
  BY <1>8
<1>10. b = f /\ k = l
  BY <1>1, <1>2, <1>8
<1>11. QED  BY <1>1, <1>2, <1>3, <1>4, <1>9, <1>10

InCell(shape, c) == Drawn(shape, c[1] * 8, c[2])

\* Glyphs are drawn in, and boxes taken out of, one cell.
LEMMA DrawnIn ==
  ASSUME WidePitch, NEW c \in Whole, NEW d \in Whole, NEW p \in Box,
         NEW shape, shape \subseteq Box
  PROVE  Point(d, p) \in InCell(shape, c) <=> d = c /\ p \in shape
<1>1. InCell(shape, c) = { Point(c, q) : q \in shape }
  BY DEF InCell, Drawn, Point
<1>2. ASSUME NEW q \in shape, Point(d, p) = Point(c, q)
      PROVE  d = c /\ p \in shape
  BY <1>2, CellsApart
<1>3. QED  BY <1>1, <1>2

LEMMA PixelsAre ==
  ASSUME NEW picture, NEW c
  PROVE  Pixels(picture, c) = { p \in Box : Point(c, p) \in picture }
BY DEF Pixels, Point

\* What is drawn is added to one cell, and a box taken out of one.
Added(picture, shape, c) ==
  \A d \in Whole : Pixels(picture \cup InCell(shape, c), d)
                    = IF d = c THEN Pixels(picture, c) \cup shape ELSE Pixels(picture, d)

LEMMA Adds ==
  ASSUME WidePitch, NEW picture, NEW c \in Whole, NEW shape, shape \subseteq Box
  PROVE  Added(picture, shape, c)
<1> SUFFICES ASSUME NEW d \in Whole
             PROVE  Pixels(picture \cup InCell(shape, c), d)
                      = IF d = c THEN Pixels(picture, c) \cup shape ELSE Pixels(picture, d)
  BY DEF Added
<1>1. ASSUME NEW p \in Box
      PROVE  Point(d, p) \in picture \cup InCell(shape, c)
               <=> Point(d, p) \in picture \/ (d = c /\ p \in shape)
  BY DrawnIn
<1>2. Pixels(picture \cup InCell(shape, c), d)
        = { p \in Box : Point(d, p) \in picture \/ (d = c /\ p \in shape) }
  BY <1>1, PixelsAre
<1>3. QED  BY <1>2, PixelsAre

LEMMA Blanks ==
  ASSUME WidePitch, NEW picture, NEW c \in Whole, NEW d \in Whole
  PROVE  Pixels(picture \ InCell(Box, c), d)
           = IF d = c THEN {} ELSE Pixels(picture, d)
BY DrawnIn, PixelsAre

\* A glyph's pixels show its character, an empty cell the blank.
LEMMA ShowsGlyph ==
  ASSUME NEW ch \in DOMAIN Font
  PROVE  Showing(Font[ch]) = Cell!Look(ch)
<1>1. CASE ch = Cell!Space
  BY <1>1, GlyphAssumption DEF Showing, Cell!Look, Cell!BLANK
<1>2. CASE ch # Cell!Space
  <2>1. Font[ch] # {}
    BY <1>2, FontAssumption, GlyphAssumption DEF Cell!GlyphAssumption
  <2>2. ch = CHOOSE other \in DOMAIN Font : Font[other] = Font[ch]
    BY FontAssumption
  <2>3. QED  BY <1>2, <2>1, <2>2 DEF Showing, Cell!Look
<1>3. QED  BY <1>1, <1>2

LEMMA ShowsBlank == Showing({}) = Cell!BLANK
BY DEF Showing, Cell!BLANK

\* What a cell shows depends on its pixels only.
LEMMA Primed ==
  ASSUME pitch' = pitch, NEW c
  PROVE  Pixels(lit, c)' = Pixels(lit', c) /\ Shown(c)' = Showing(Pixels(lit', c))
BY DEF Pixels, At, Shown

-----------------------------------------------------------------------------
(* The console.  The framebuffer implements Screen where the width is a    *)
(* whole number of cells.                                                  *)

\* There the cells are those that are on the screen as a whole.
LEMMA Grid ==
  ASSUME Width % 8 = 0
  PROVE  Cells = Whole /\ Cell!Cells = Whole
<1>1. Width \in Nat /\ Height \in Nat
  BY PitchAssumption
<1>2. ASSUME NEW x \in Int
      PROVE  x \in 0..((Width + 7) \div 8 - 1) <=> x \in Nat /\ x * 8 + 8 <= Width
  BY <1>1
<1>3. ASSUME NEW y \in Int
      PROVE  y \in 0..Height /\ y + 16 <= Height <=> y \in Nat /\ y + 16 <= Height
  BY <1>1
<1>4. Cells = Whole
  BY <1>2, <1>3 DEF Cells, Whole
<1>5. Cell!Cells = Cells
  BY DEF Cells, Cell!Cells, Cell!Columns, Cell!Rows, Cell!Cols
<1>6. QED  BY <1>4, <1>5

\* A framebuffer as Screen has it, with the console in charge.
Plain == at = "console" /\ pitch = Width

\* The cursor is in a row of cells, in column 0 when below the last, and
\* nothing is drawn from it on.
CursorOK ==
  /\ cursor_x \in 0..(Width \div 8) /\ cursor_y \in Nat /\ cursor_y % 16 = 0
  /\ cursor_y + 16 > Height => cursor_x = 0
Ahead(c) == c[2] > cursor_y \/ (c[2] = cursor_y /\ c[1] >= cursor_x)
AheadBlank == \A c \in Whole : Ahead(c) => Pixels(lit, c) = {}

ConsoleInv == /\ pitch \in Pitches
              /\ Width % 8 = 0 /\ Plain => CursorOK /\ AheadBlank

\* The cells Screen would see.
cells == [c \in Cells |-> Shown(c)]

\* Cells that keep their pixels but for one.
LEMMA OneChanges ==
  ASSUME Width % 8 = 0, pitch' = pitch, NEW c \in Whole,
         \A d \in Whole \ {c} : Pixels(lit', d) = Pixels(lit, d)
  PROVE  cells' = [cells EXCEPT ![c] = Shown(c)']
<1>1. \A d \in Whole \ {c} : Shown(d)' = Shown(d)
  BY Primed DEF Shown
<1>2. QED  BY <1>1, Grid DEF cells

LEMMA NoneChanges ==
  ASSUME UNCHANGED <<pitch, lit>>
  PROVE  cells' = cells
BY Primed DEF cells, Shown

LEMMA WideEnough ==
  ASSUME ConsoleInv
  PROVE  WidePitch
BY PitchAssumption DEF ConsoleInv, WidePitch

LEMMA BackspaceStep ==
  ASSUME Width % 8 = 0, ConsoleInv, Plain, backspace, UNCHANGED pitch
  PROVE  CursorOK' /\ AheadBlank' /\ Cell!Backspace
<1>1. WidePitch /\ CursorOK /\ AheadBlank
  BY WideEnough DEF ConsoleInv
<1>2. CASE cursor_x = 0 /\ UNCHANGED console
  <2>1. UNCHANGED <<cursor_x, cursor_y, lit>>
    BY <1>2 DEF console
  <2>2. \A c \in Whole : Pixels(lit', c) = Pixels(lit, c)
    BY <2>1
  <2>3. CursorOK' /\ AheadBlank'
    BY <1>1, <2>1, <2>2, Primed DEF CursorOK, AheadBlank, Ahead
  <2>4. UNCHANGED Cell!screen
    BY <2>1, NoneChanges DEF Cell!screen, cells
  <2>5. QED  BY <1>2, <2>3, <2>4 DEF Cell!Backspace
<1>3. CASE cursor_x > 0 /\ cursor_x' = cursor_x - 1 /\ UNCHANGED cursor_y /\ Erase
  <2>1. PICK c : c = <<cursor_x - 1, cursor_y>>
    OBVIOUS
  <2>2. cursor_x \in Nat /\ cursor_y \in Nat /\ cursor_y + 16 <= Height /\ cursor_x * 8 <= Width
    BY <1>1, <1>3, PitchAssumption DEF CursorOK
  <2>3. c \in Whole
    BY <1>1, <1>3, <2>1, <2>2 DEF CursorOK, Whole
  <2>4. lit' = lit \ InCell(Box, c)
    <3>1. ASSUME NEW p \in Box
          PROVE  cursor_x' * 8 + p[1] < Width /\ cursor_y + p[2] < Height
      <4>1. p[1] \in 0..7 /\ p[2] \in 0..15
        BY DEF Box
      <4>2. QED  BY <1>3, <2>2, <4>1, PitchAssumption
    <3>2. lit' = lit \ Drawn(Box, cursor_x' * 8, cursor_y)
      BY <1>3, <3>1 DEF Erase
    <3>3. QED  BY <1>3, <2>1, <3>2 DEF InCell
  <2>5. ASSUME NEW d \in Whole
        PROVE  Pixels(lit', d) = IF d = c THEN {} ELSE Pixels(lit, d)
    <3>1. Pixels(lit \ InCell(Box, c), d)
            = IF d = c THEN {} ELSE Pixels(lit, d)
      BY <1>1, <2>3, Blanks
    <3>2. QED  BY <2>4, <3>1
  <2>6. CursorOK'
    BY <1>1, <1>3, <2>2, PitchAssumption DEF CursorOK
  <2>7. AheadBlank'
    <3>1. ASSUME NEW d \in Whole, Ahead(d)'
          PROVE  Pixels(lit', d) = {}
      <4>1. CASE d = c
        BY <2>5, <4>1
      <4>2. CASE d # c
        <5>1. Ahead(d)
          <6>1. PICK a \in Nat, b \in Nat : d = <<a, b>>
            BY DEF Whole
          <6>2. b > cursor_y \/ (b = cursor_y /\ a >= cursor_x - 1)
            BY <1>3, <3>1, <6>1 DEF Ahead
          <6>3. ~(a = cursor_x - 1 /\ b = cursor_y)
            BY <2>1, <4>2, <6>1
          <6>4. b > cursor_y \/ (b = cursor_y /\ a >= cursor_x)
            BY <2>2, <6>2, <6>3
          <6>5. QED  BY <6>1, <6>4 DEF Ahead
        <5>2. QED  BY <1>1, <2>5, <4>2, <5>1 DEF AheadBlank
      <4>3. QED  BY <4>1, <4>2
    <3>2. QED  BY <3>1, Primed DEF AheadBlank
  <2>8. cells' = [cells EXCEPT ![c] = Cell!BLANK]
    <3>1. Shown(c)' = Cell!BLANK
      BY <2>3, <2>5, Primed, ShowsBlank
    <3>2. QED  BY <2>3, <2>5, <3>1, OneChanges
  <2>9. QED  BY <1>3, <2>1, <2>6, <2>7, <2>8 DEF Cell!Backspace, cells
<1>4. QED  BY <1>2, <1>3 DEF backspace
LEMMA NewlineStep ==
  ASSUME Width % 8 = 0, ConsoleInv, Plain, newline, UNCHANGED pitch
  PROVE  CursorOK' /\ AheadBlank' /\ Cell!NewLine
<1>1. CursorOK /\ AheadBlank
  BY DEF ConsoleInv
<1>2. cursor_x' = 0 /\ cursor_y' = cursor_y + 16 /\ lit' = lit
  BY DEF newline
<1>3. cursor_x \in Nat /\ cursor_y \in Nat
  BY <1>1, PitchAssumption DEF CursorOK
<1>4. CursorOK'
  BY <1>1, <1>2, <1>3, PitchAssumption DEF CursorOK
<1>5. ASSUME NEW d \in Whole, Ahead(d)'
      PROVE  Ahead(d)
  <2>1. PICK a \in Nat, b \in Nat : d = <<a, b>>
    BY DEF Whole
  <2>2. b >= cursor_y + 16
    BY <1>2, <1>3, <1>5, <2>1 DEF Ahead
  <2>3. QED  BY <1>3, <2>1, <2>2 DEF Ahead
<1>6. AheadBlank'
  BY <1>1, <1>2, <1>5, Primed DEF AheadBlank
<1>7. cells' = cells
  BY <1>2, NoneChanges
<1>8. QED  BY <1>2, <1>4, <1>6, <1>7 DEF Cell!NewLine, cells

LEMMA GlyphStep ==
  ASSUME Width % 8 = 0, ConsoleInv, Plain, NEW ch \in Typed, glyph(ch), UNCHANGED pitch
  PROVE  CursorOK' /\ AheadBlank' /\ Cell!PutGlyph(ch)
<1>1. WidePitch /\ CursorOK /\ AheadBlank
  BY WideEnough DEF ConsoleInv
<1>2. PICK x, y : /\ x = IF cursor_x * 8 >= Width THEN 0 ELSE cursor_x
                  /\ y = IF cursor_x * 8 >= Width THEN cursor_y + 16 ELSE cursor_y
  OBVIOUS
<1>3. /\ cursor_y' = y
      /\ IF y + 16 <= Height
         THEN lit' = lit \cup Drawn(Font[ch], x * 8, y) /\ cursor_x' = x + 1
         ELSE cursor_x' = x /\ UNCHANGED lit
  BY <1>2 DEF glyph, put_char
<1>4. x = Cell!NextX /\ y = Cell!NextY
  BY <1>2 DEF Cell!NextX, Cell!NextY, Cell!RowFull
<1>5. /\ cursor_x \in Nat /\ cursor_x * 8 <= Width /\ cursor_y \in Nat /\ cursor_y % 16 = 0
      /\ Width \in Nat /\ Width % 8 = 0 /\ Width > 0 /\ Height \in Nat
  BY <1>1, PitchAssumption DEF CursorOK
<1>6. /\ x \in Nat /\ x * 8 + 8 <= Width
      /\ y \in Nat /\ y % 16 = 0
  BY <1>2, <1>5
<1>7. ASSUME NEW a \in Nat, NEW b \in Nat, b > y \/ (b = y /\ a >= x)
      PROVE  b > cursor_y \/ (b = cursor_y /\ a >= cursor_x)
  BY <1>2, <1>5, <1>7
<1>8. CASE y + 16 <= Height
  <2>1. PICK c : c = <<x, y>>
    OBVIOUS
  <2>2. c \in Whole
    BY <1>6, <1>8, <2>1 DEF Whole
  <2>3. lit' = lit \cup InCell(Font[ch], c)
    BY <1>3, <1>8, <2>1 DEF InCell
  <2>4. ch \in DOMAIN Font /\ Font[ch] \subseteq Box
    BY FontAssumption, TypedAssumption
  <2>5. ASSUME NEW d \in Whole
        PROVE  Pixels(lit', d) = IF d = c THEN Pixels(lit, c) \cup Font[ch] ELSE Pixels(lit, d)
    <3>1. Pixels(lit \cup InCell(Font[ch], c), d)
            = IF d = c THEN Pixels(lit, c) \cup Font[ch] ELSE Pixels(lit, d)
      <4>1. Added(lit, Font[ch], c)
        BY <1>1, <2>2, <2>4, Adds
      <4>2. QED  BY <4>1 DEF Added
    <3>2. QED  BY <2>3, <3>1
  <2>6. Pixels(lit, c) = {}
    <3>1. Ahead(c)
      BY <1>6, <1>7, <2>1 DEF Ahead
    <3>2. QED  BY <1>1, <2>2, <3>1 DEF AheadBlank
  <2>7. CursorOK'
    BY <1>3, <1>5, <1>6, <1>8 DEF CursorOK
  <2>8. AheadBlank'
    <3>1. ASSUME NEW d \in Whole, Ahead(d)'
          PROVE  Pixels(lit', d) = {}
      <4>1. PICK a \in Nat, b \in Nat : d = <<a, b>>
        BY DEF Whole
      <4>2. b > y \/ (b = y /\ a >= x + 1)
        BY <1>3, <1>8, <3>1, <4>1 DEF Ahead
      <4>3. d # c
        BY <1>6, <2>1, <4>1, <4>2
      <4>4. b > y \/ (b = y /\ a >= x)
        BY <1>6, <4>2
      <4>5. Ahead(d)
        BY <1>7, <4>1, <4>4 DEF Ahead
      <4>6. QED  BY <1>1, <2>5, <4>3, <4>5 DEF AheadBlank
    <3>2. QED  BY <3>1, Primed DEF AheadBlank
  <2>9. Shown(c) = Cell!BLANK /\ Shown(c)' = Cell!Look(ch)
    BY <2>2, <2>4, <2>5, <2>6, Primed, ShowsBlank, ShowsGlyph DEF Shown
  <2>10. cells' = [cells EXCEPT ![c] = Cell!Strike(@, ch)]
    <3>1. cells[c] = Cell!BLANK
      BY <2>2, <2>9, Grid DEF cells
    <3>2. Cell!Strike(Cell!BLANK, ch) = Cell!Look(ch)
      BY DEF Cell!Strike, Cell!Look
    <3>3. cells' = [cells EXCEPT ![c] = Shown(c)']
      BY <2>2, <2>5, OneChanges
    <3>4. QED  BY <2>9, <3>1, <3>2, <3>3
  <2>11. QED
    BY <1>3, <1>4, <1>8, <2>1, <2>7, <2>8, <2>10 DEF Cell!PutGlyph, cells
<1>9. CASE ~(y + 16 <= Height)
  <2>1. cursor_y' = y /\ cursor_x' = x /\ lit' = lit
    BY <1>3, <1>9
  <2>2. x = 0
    BY <1>1, <1>2, <1>5, <1>9 DEF CursorOK
  <2>3. CursorOK'
    BY <1>5, <1>6, <2>1, <2>2 DEF CursorOK
  <2>4. AheadBlank'
    <3>1. ASSUME NEW d \in Whole, Ahead(d)'
          PROVE  Pixels(lit', d) = {}
      <4>1. PICK a \in Nat, b \in Nat : d = <<a, b>>
        BY DEF Whole
      <4>2. Ahead(d)
        BY <1>7, <2>1, <3>1, <4>1 DEF Ahead
      <4>3. QED  BY <1>1, <2>1, <4>2 DEF AheadBlank
    <3>2. QED  BY <3>1, Primed DEF AheadBlank
  <2>5. cells' = cells
    BY <2>1, NoneChanges
  <2>6. y + 16 > Height
    BY <1>5, <1>6, <1>9
  <2>7. QED  BY <1>4, <2>1, <2>3, <2>4, <2>5, <2>6 DEF Cell!PutGlyph, cells
<1>10. QED  BY <1>8, <1>9

\* Every pixel of a cell is among the first Width * Height positions.
LEMMA ClearedWhole ==
  ASSUME pitch = Width, NEW c \in Whole, NEW p \in Box
  PROVE  Point(c, p) \in Cleared
<1>1. PICK a \in Nat, b \in Nat : c = <<a, b>> /\ a * 8 + 8 <= Width /\ b + 16 <= Height
  BY DEF Whole
<1>2. PICK i \in 0..7, k \in 0..15 : p = <<i, k>>
  BY DEF Box
<1>3. Width \in Nat /\ Height \in Nat
  BY PitchAssumption
<1>4. PICK x \in Nat, y \in Nat : x = a * 8 + i /\ y = b + k /\ x < Width
  BY <1>1, <1>3
<1>5. PICK r \in Nat : Height = y + 1 + r
  <2>1. Height - (y + 1) \in Nat /\ Height = y + 1 + (Height - (y + 1))
    BY <1>1, <1>3, <1>4
  <2>2. QED  BY <2>1
<1>6. Width * Height = y * Width + Width + r * Width
  BY <1>3, <1>5
<1>7. y * Width \in Nat /\ r * Width \in Nat
  BY <1>3
<1>8. Point(c, p) = y * Width + x
  BY <1>1, <1>2, <1>4 DEF Point, At
<1>9. QED  BY <1>3, <1>4, <1>6, <1>7, <1>8 DEF Cleared

LEMMA ClearStep ==
  ASSUME Width % 8 = 0, ConsoleInv, Plain, clear, UNCHANGED pitch
  PROVE  CursorOK' /\ AheadBlank' /\ Cell!Clear
<1>1. cursor_x' = 0 /\ cursor_y' = 0 /\ lit' = lit \ Cleared /\ pitch = Width
  BY DEF clear, Plain
<1>2. ASSUME NEW d \in Whole
      PROVE  Pixels(lit', d) = {}
  BY <1>1, ClearedWhole, PixelsAre
<1>3. CursorOK'
  BY <1>1, PitchAssumption DEF CursorOK
<1>4. AheadBlank'
  BY <1>2, Primed DEF AheadBlank
<1>5. \A d \in Whole : Shown(d)' = Cell!BLANK
  BY <1>2, Primed, ShowsBlank
<1>6. cells' = [d \in Cell!Cells |-> Cell!BLANK]
  BY <1>5, Grid DEF cells
<1>7. QED  BY <1>1, <1>3, <1>4, <1>6 DEF Cell!Clear, cells
\* What Screen may do in a step.
ScreenStep == \/ \E ch \in Cell!Printed : Cell!KprintChar(ch)
              \/ Cell!Clear
              \/ UNCHANGED Cell!screen

LEMMA ConsoleStep ==
  ASSUME Width % 8 = 0, ConsoleInv, Plain, Console
  PROVE  CursorOK' /\ AheadBlank' /\ ScreenStep
<1>1. pitch' = pitch
  BY DEF Console
<1>2. CASE backspace
  <2>1. CursorOK' /\ AheadBlank' /\ Cell!Backspace
    BY <1>1, <1>2, BackspaceStep
  <2>2. Cell!BackspaceKey \in Cell!Printed
    BY DEF Cell!Printed
  <2>3. QED  BY <2>1, <2>2 DEF ScreenStep, Cell!KprintChar
<1>3. CASE newline
  <2>1. CursorOK' /\ AheadBlank' /\ Cell!NewLine
    BY <1>1, <1>3, NewlineStep
  <2>2. Cell!Newline \in Cell!Printed
    BY DEF Cell!Printed
  <2>3. QED  BY <2>1, <2>2 DEF ScreenStep, Cell!KprintChar
<1>4. ASSUME NEW ch \in Typed, glyph(ch)
      PROVE  CursorOK' /\ AheadBlank' /\ ScreenStep
  <2>1. CursorOK' /\ AheadBlank' /\ Cell!PutGlyph(ch)
    BY <1>1, <1>4, GlyphStep
  <2>2. ch \in Cell!Printed /\ ch \notin {Cell!BackspaceKey, Cell!Newline}
    BY TypedAssumption, GlyphAssumption DEF Cell!Printed, Cell!GlyphAssumption
  <2>3. QED  BY <2>1, <2>2 DEF ScreenStep, Cell!KprintChar
<1>5. CASE clear
  BY <1>1, <1>5, ClearStep DEF ScreenStep
<1>6. QED  BY <1>2, <1>3, <1>4, <1>5 DEF Console

LEMMA ConsoleStart ==
  ASSUME Init
  PROVE  ConsoleInv /\ Cell!ScreenInit
<1>1. /\ cursor_x = 0 /\ cursor_y = 0 /\ lit = {} /\ pitch \in Pitches
  BY DEF Init
<1>2. \A c : Pixels(lit, c) = {}
  BY <1>1 DEF Pixels
<1>3. CursorOK /\ AheadBlank
  BY <1>1, <1>2, PitchAssumption DEF CursorOK, AheadBlank
<1>4. \A c : Shown(c) = Cell!BLANK
  BY <1>2, ShowsBlank DEF Shown
<1>5. Cell!Cells = Cells
  BY DEF Cells, Cell!Cells, Cell!Columns, Cell!Rows, Cell!Cols
<1>6. Cell!ScreenInit
  BY <1>1, <1>4, <1>5 DEF Cell!ScreenInit
<1>7. QED  BY <1>1, <1>3, <1>6 DEF ConsoleInv

LEMMA ConsoleKept ==
  ASSUME ConsoleInv, [Next]_vars
  PROVE  ConsoleInv'
<1>1. CASE Console
  <2>1. UNCHANGED <<pitch, at>>
    BY <1>1 DEF Console
  <2>2. Width % 8 = 0 /\ Plain => CursorOK' /\ AheadBlank'
    BY <1>1, ConsoleStep
  <2>3. QED  BY <2>1, <2>2 DEF ConsoleInv, Plain
<1>2. CASE (\E address \in Addresses : Rsod(address)) \/ RsodDraw \/ RsodSleep
  <2>1. pitch' = pitch /\ at' # "console"
    BY <1>2 DEF Rsod, RsodDraw, RsodSleep
  <2>2. QED  BY <2>1 DEF ConsoleInv, Plain
<1>3. CASE UNCHANGED vars
  <2>1. UNCHANGED <<cursor_x, cursor_y, lit, pitch, at>>
    BY <1>3 DEF vars, console
  <2>2. QED
    BY <2>1, Primed DEF ConsoleInv, Plain, CursorOK, AheadBlank, Ahead
<1>4. QED  BY <1>1, <1>2, <1>3 DEF Next

\* While the console runs on a framebuffer whose rows are whole numbers of
\* cells, without a gap, printing, erasing and clearing pixels is what Screen
\* says of cells: no glyph reaches into another cell or falls on another one,
\* erasing takes away all of one, and clearing all.
THEOREM PixelsAreCells == Spec => ImplementsScreen
<1>1. Init => ConsoleInv /\ Cell!ScreenInit
  BY ConsoleStart
<1>2. ConsoleInv /\ [Next]_vars => ConsoleInv'
  BY ConsoleKept
<1>3. ConsoleInv /\ [Next]_vars =>
        [ Width % 8 = 0 /\ pitch = Width /\ at = "console" /\ at' = "console" =>
            \/ \E ch \in Cell!Printed : Cell!KprintChar(ch)
            \/ Cell!Clear
            \/ UNCHANGED Cell!screen ]_vars
  <2>1. SUFFICES ASSUME ConsoleInv, Next, Width % 8 = 0, pitch = Width, at = "console",
                        at' = "console"
                 PROVE  ScreenStep
    BY DEF ScreenStep
  <2>2. Console
    BY <2>1 DEF Next, Rsod, RsodDraw, RsodSleep
  <2>3. QED  BY <2>1, <2>2, ConsoleStep DEF Plain
<1>4. QED  BY <1>1, <1>2, <1>3, PTL DEF Spec, ImplementsScreen
-----------------------------------------------------------------------------
(* Recursion over the numbers up to N, without the induction theorems.     *)

\* A set of numbers that is not empty has a least one.
LEMMA Least ==
  ASSUME NEW T, T \subseteq Nat, T # {}
  PROVE  \E x \in T : \A y \in T : x <= y
<1> DEFINE R == OpToRel(<, Nat)
<1>1. IsWellFoundedOn(R, Nat)
  BY NatLessThanWellFounded
<1>2. PICK x \in T : \A y \in T : ~(<<y, x>> \in R)
  <2> HIDE DEF R
  <2> QED  BY <1>1, WFMin
<1>3. \A y \in T : ~(y < x)
  BY <1>2 DEF OpToRel
<1>4. QED  BY <1>3

\* A set that holds m and, with each number below N, the next one, holds all
\* numbers from m to N.
LEMMA Upwards ==
  ASSUME NEW m \in Nat, NEW N \in Nat, NEW S, m \in S,
         \A n \in (m + 1)..N : n - 1 \in S => n \in S
  PROVE  \A n \in m..N : n \in S
<1> DEFINE T == { n \in m..N : n \notin S }
<1>1. ASSUME T # {} PROVE FALSE
  <2>1. PICK x \in T : \A y \in T : x <= y
    <3>1. T \subseteq Nat
      OBVIOUS
    <3> HIDE DEF T
    <3>2. QED  BY <1>1, <3>1, Least
  <2>2. x \in m..N /\ x # m
    BY <2>1
  <2>3. x - 1 \in S
    BY <2>1, <2>2
  <2>4. QED  BY <2>1, <2>2, <2>3
<1>2. QED  BY <1>1

\* f is defined by recursion on the numbers up to N: step gives its value at
\* n from the value at n - 1.
Recursive(f, N, V, a, step) ==
  /\ f \in [0..N -> V]
  /\ f[0] = a
  /\ \A n \in 1..N : f[n] = step[n][f[n - 1]]

LEMMA Recursion ==
  ASSUME NEW N \in Nat, NEW V, NEW a \in V, NEW step, step \in [1..N -> [V -> V]]
  PROVE  \E f : Recursive(f, N, V, a, step)
<1> DEFINE Good(f, m) == /\ f[0] = a
                         /\ \A n \in 1..m : f[n] = step[n][f[n - 1]]
           S == { m \in 0..N : \E f \in [0..m -> V] : Good(f, m) }
<1>1. 0 \in S
  <2> DEFINE f == [n \in 0..0 |-> a]
  <2>1. f \in [0..0 -> V] /\ f[0] = a
    OBVIOUS
  <2>2. \A n \in 1..0 : FALSE
    OBVIOUS
  <2> HIDE DEF f
  <2>3. Good(f, 0)
    BY <2>1, <2>2
  <2> HIDE DEF Good
  <2>4. QED  BY <2>1, <2>3
<1>2. ASSUME NEW m \in 1..N, m - 1 \in S
      PROVE  m \in S
  <2>1. PICK f \in [0..(m - 1) -> V] : Good(f, m - 1)
    BY <1>2
  <2> DEFINE g == [n \in 0..m |-> IF n = m THEN step[m][f[m - 1]] ELSE f[n]]
  <2>2. m - 1 \in 0..(m - 1) /\ f[m - 1] \in V /\ m \in 1..N
    BY <1>2
  <2>3. step[m][f[m - 1]] \in V
    BY <2>2
  <2>4. g \in [0..m -> V]
    BY <1>2, <2>3
  <2>5. Good(g, m)
    <3>1. g[0] = a
      BY <1>2, <2>1
    <3>2. ASSUME NEW n \in 1..m PROVE g[n] = step[n][g[n - 1]]
      <4>1. g[n - 1] = f[n - 1]
        BY <1>2
      <4>2. CASE n = m
        <5>1. g[n] = step[n][f[n - 1]]
          BY <1>2, <4>2
        <5> HIDE DEF g
        <5>2. QED  BY <4>1, <5>1
      <4>3. CASE n # m
        <5>1. n \in 1..(m - 1) /\ g[n] = f[n]
          BY <1>2, <4>3
        <5>2. f[n] = step[n][f[n - 1]]
          BY <2>1, <5>1
        <5> HIDE DEF g
        <5>3. QED  BY <4>1, <5>1, <5>2
      <4>4. QED  BY <4>2, <4>3
    <3>3. QED  BY <3>1, <3>2
  <2> HIDE DEF g, Good
  <2>6. QED  BY <1>2, <2>4, <2>5
<1>3. N \in S
  <2>1. \A n \in 0..N : n \in S
    <3> HIDE DEF S
    <3>1. \A n \in 1..N : n - 1 \in S => n \in S
      BY <1>2
    <3>2. (0 + 1)..N = 1..N
      OBVIOUS
    <3>3. QED  BY <1>1, <3>1, <3>2, Upwards
  <2> HIDE DEF S
  <2>2. QED  BY <2>1
<1>4. QED  BY <1>3 DEF Recursive

-----------------------------------------------------------------------------
(* The numbers.                                                            *)

LEMMA Sixteenths ==
  ASSUME NEW n \in Nat
  PROVE  n \div 16 \in Nat /\ n % 16 \in 0..15 /\ (n \div 16) * 16 + (n % 16) = n
OBVIOUS

\* What is left of n when k digits are written.
LEMMA ShiftedIs ==
  ASSUME NEW n \in Nat, NEW D \in Nat
  PROVE  /\ shifted(n, D)[0] = n
         /\ \A k \in 1..D : shifted(n, D)[k] = shifted(n, D)[k - 1] \div 16
         /\ \A k \in 0..D : shifted(n, D)[k] \in Nat
<1> DEFINE Step(e) == [k \in 0..D |-> IF k = 0 THEN n ELSE e[k - 1] \div 16]
           left == CHOOSE e : e = Step(e)
           step == [k \in 1..D |-> [x \in Nat |-> x \div 16]]
<1>1. \E f : f = Step(f)
  <2>1. step \in [1..D -> [Nat -> Nat]]
    BY Sixteenths
  <2>2. PICK f : Recursive(f, D, Nat, n, step)
    <3> HIDE DEF step
    <3>1. QED  BY <2>1, Recursion
  <2>3. ASSUME NEW k \in 1..D PROVE f[k] = f[k - 1] \div 16
    <3>1. f[k - 1] \in Nat
      BY <2>2 DEF Recursive
    <3>2. QED  BY <2>2, <3>1 DEF Recursive
  <2>4. f \in [0..D -> Nat] /\ f[0] = n
    BY <2>2 DEF Recursive
  <2>5. \A k \in 0..D : f[k] = Step(f)[k]
    BY <2>3, <2>4
  <2>6. QED  BY <2>4, <2>5
<1>2. left = Step(left)
  <2>1. QED  BY <1>1
<1>3. shifted(n, D) = left
  BY DEF shifted
<1> HIDE DEF left
<1>4. left[0] = n /\ \A k \in 1..D : left[k] = left[k - 1] \div 16
  BY <1>2
<1>5. \A k \in 0..D : left[k] \in Nat
  <2> DEFINE S == { k \in 0..D : left[k] \in Nat }
  <2>1. 0 \in S
    BY <1>4
  <2>2. ASSUME NEW k \in (0 + 1)..D, k - 1 \in S PROVE k \in S
    <3>1. k \in 1..D /\ left[k - 1] \in Nat
      BY <2>2
    <3>2. left[k - 1] \div 16 \in Nat
      BY <3>1, Sixteenths
    <3>3. QED  BY <1>4, <3>1, <3>2
  <2> HIDE DEF S
  <2>3. \A k \in 0..D : k \in S
    BY <2>1, <2>2, Upwards
  <2>4. QED  BY <2>3 DEF S
<1>6. QED  BY <1>3, <1>4, <1>5
\* The digits are distinct, and none is the space.
LEMMA DigitsDistinct ==
  /\ hex_digits \in Seq(DOMAIN Font) /\ Len(hex_digits) = 16
  /\ \A a, b \in 1..16 : hex_digits[a] = hex_digits[b] => a = b
  /\ \A a \in 1..16 : hex_digits[a] # Cell!Space
<1>1. Len(hex_digits) = 16 /\ DOMAIN hex_digits = 1..16
  BY DEF hex_digits
<1>2. hex_digits \in Seq(DOMAIN Font)
  BY <1>1, DigitsAssumption DEF hex_digits
<1>3. \A a, b \in 1..16 : hex_digits[a] = hex_digits[b] => a = b
  BY DEF hex_digits
<1>4. /\ "0" # Cell!Space /\ "1" # Cell!Space /\ "2" # Cell!Space /\ "3" # Cell!Space
      /\ "4" # Cell!Space /\ "5" # Cell!Space /\ "6" # Cell!Space /\ "7" # Cell!Space
      /\ "8" # Cell!Space /\ "9" # Cell!Space /\ "A" # Cell!Space /\ "B" # Cell!Space
      /\ "C" # Cell!Space /\ "D" # Cell!Space /\ "E" # Cell!Space /\ "F" # Cell!Space
  BY Zenon DEF Cell!Space
<1>5. \A a \in 1..16 : hex_digits[a] # Cell!Space
  BY <1>4 DEF hex_digits
<1>6. QED  BY <1>1, <1>2, <1>3, <1>5

\* The digits that N cells show, and the number read from the first k of them.
ShowsDigits(digit, N, x, y) ==
  \A k \in 1..N : Shown(<<x + k - 1, y * 16>>) = hex_digits[digit[k] + 1]
IsRead(f, digit, N, base) ==
  f[0] = 0 /\ \A k \in 1..N : f[k] = f[k - 1] * base + digit[k]

LEMMA ReadsIs ==
  ASSUME NEW x \in Nat, NEW y \in Nat, NEW N \in Nat, NEW base \in 1..16, NEW n,
         NEW digit \in [1..N -> 0..(base - 1)], NEW f \in [0..N -> Nat],
         ShowsDigits(digit, N, x, y), IsRead(f, digit, N, base), f[N] = n
  PROVE  Reads(n, x, y, N, base)
<1> DEFINE digits(k) == { d \in 0..(base - 1) :
                            hex_digits[d + 1] = Shown(<<x + k - 1, y * 16>>) }
           chosen(k) == CHOOSE d \in digits(k) : TRUE
           Step(e) == [ k \in 0..N |-> IF k = 0 THEN 0 ELSE e[k - 1] * base + chosen(k) ]
           value == CHOOSE e : e = Step(e)
<1>1. ASSUME NEW k \in 1..N
      PROVE  digits(k) = {digit[k]}
  <2>1. digit[k] \in 0..(base - 1) /\ Shown(<<x + k - 1, y * 16>>) = hex_digits[digit[k] + 1]
    BY DEF ShowsDigits
  <2>2. \A d \in 0..(base - 1) : d \in Int /\ d + 1 \in 1..16
    OBVIOUS
  <2>3. ASSUME NEW d \in 0..(base - 1), hex_digits[d + 1] = hex_digits[digit[k] + 1]
        PROVE  d = digit[k]
    <3>1. PICK e : e = digit[k]
      OBVIOUS
    <3>2. e \in Int /\ e + 1 \in 1..16 /\ d + 1 \in 1..16 /\ d \in Int
      BY <2>1, <2>2, <3>1
    <3>3. d + 1 = e + 1
      BY <2>3, <3>1, <3>2, DigitsDistinct
    <3>4. QED  BY <3>1, <3>2, <3>3
  <2>4. QED  BY <2>1, <2>3
<1>2. Reads(n, x, y, N, base) <=> (\A k \in 1..N : digits(k) # {}) /\ value[N] = n
  BY DEF Reads
<1> HIDE DEF digits
<1>3. ASSUME NEW k \in 1..N
      PROVE  chosen(k) = digit[k]
  BY <1>1
<1> HIDE DEF chosen
<1>4. f = Step(f)
  <2>1. \A k \in 1..N : f[k] = f[k - 1] * base + chosen(k)
    BY <1>3 DEF IsRead
  <2>2. f[0] = 0
    BY DEF IsRead
  <2>3. ASSUME NEW k \in 0..N
        PROVE  f[k] = IF k = 0 THEN 0 ELSE f[k - 1] * base + chosen(k)
    <3>1. k = 0 \/ k \in 1..N
      OBVIOUS
    <3>2. QED  BY <2>1, <2>2, <3>1
  <2>4. QED  BY <2>3
<1>5. value = Step(value)
  BY <1>4
<1> HIDE DEF value
<1>6. value[0] = 0
  BY <1>5
<1>7. ASSUME NEW k \in 1..N
      PROVE  value[k] = value[k - 1] * base + digit[k]
  <2>1. k \in 0..N /\ k # 0
    OBVIOUS
  <2>2. value[k] = Step(value)[k]
    BY <1>5
  <2>3. Step(value)[k] = value[k - 1] * base + chosen(k)
    BY <2>1
  <2>4. QED  BY <1>3, <2>2, <2>3
<1>8. \A k \in 0..N : value[k] = f[k]
  <2> DEFINE S == { k \in 0..N : value[k] = f[k] }
  <2>1. 0 \in S
    BY <1>6 DEF IsRead
  <2>2. ASSUME NEW k \in (0 + 1)..N, k - 1 \in S PROVE k \in S
    <3>1. k \in 1..N /\ k \in 0..N
      OBVIOUS
    <3>2. value[k] = value[k - 1] * base + digit[k]
      BY <1>7, <3>1
    <3>3. f[k] = f[k - 1] * base + digit[k]
      BY <3>1 DEF IsRead
    <3>4. value[k - 1] = f[k - 1]
      BY <2>2
    <3>5. value[k] = f[k]
      BY <3>2, <3>3, <3>4
    <3>6. QED  BY <3>1, <3>5
  <2> HIDE DEF S
  <2>3. \A k \in 0..N : k \in S
    BY <2>1, <2>2, Upwards
  <2>4. QED  BY <2>3 DEF S
<1>9. value[N] = n
  BY <1>8
<1>10. \A k \in 1..N : digits(k) # {}
  BY <1>1
<1>11. QED  BY <1>2, <1>9, <1>10
\* The text of an address, and its digits.
LEMMA HexText ==
  ASSUME NEW n \in Nat, NEW str, str = utoa_hex(n, HexDigits)
  PROVE  /\ str \in Seq(DOMAIN Font) /\ Len(str) = HexDigits + 2
         /\ \A k \in 1..HexDigits :
              str[k + 2] = hex_digits[(shifted(n, HexDigits)[HexDigits - k] % 16) + 1]
<1> DEFINE D == HexDigits
           left == shifted(n, D)
<1>1. D \in Nat
  BY DigitsAssumption
<1>2. \A k \in 0..D : left[k] \in Nat
  BY <1>1, ShiftedIs
<1> HIDE DEF left
<1>3. PICK digits : digits = [ i \in 1..D |-> hex_digits[(left[D - i] % 16) + 1] ]
  OBVIOUS
<1>4. ASSUME NEW i \in 1..D
      PROVE  hex_digits[(left[D - i] % 16) + 1] \in DOMAIN Font
  <2>1. PICK r \in Nat : r = left[D - i]
    BY <1>1, <1>2
  <2>2. (r % 16) + 1 \in 1..16
    BY <2>1, Sixteenths
  <2>3. QED  BY <2>1, <2>2, DigitsAssumption
<1>5. digits \in Seq(DOMAIN Font) /\ Len(digits) = D
  <2>1. digits \in [1..D -> DOMAIN Font]
    BY <1>3, <1>4
  <2>2. QED  BY <1>1, <2>1
<1>6. PICK prefix : prefix = <<"0", "x">>
  OBVIOUS
<1>7. prefix \in Seq(DOMAIN Font) /\ Len(prefix) = 2
  <2>1. "0" = hex_digits[1]
    BY DEF hex_digits
  <2>2. "0" \in DOMAIN Font /\ "x" \in DOMAIN Font
    BY <2>1, DigitsAssumption
  <2>3. QED  BY <1>6, <2>2
<1>8. str = prefix \o digits
  BY <1>3, <1>6 DEF utoa_hex, left, D
<1> HIDE DEF D
<1>9. /\ str \in Seq(DOMAIN Font) /\ Len(str) = Len(prefix) + Len(digits)
      /\ \A i \in 1..(Len(prefix) + Len(digits)) :
           str[i] = IF i <= Len(prefix) THEN prefix[i] ELSE digits[i - Len(prefix)]
  <2>1. PICK S : S = DOMAIN Font
    OBVIOUS
  <2>2. prefix \in Seq(S) /\ digits \in Seq(S)
    BY <1>5, <1>7, <2>1
  <2>3. QED  BY <1>8, <2>1, <2>2, ConcatProperties
<1>10. ASSUME NEW k \in 1..D
       PROVE  str[k + 2] = digits[k]
  <2>1. k + 2 \in 1..(Len(prefix) + Len(digits)) /\ ~(k + 2 <= Len(prefix))
        /\ k + 2 - Len(prefix) = k
    BY <1>1, <1>5, <1>7
  <2>2. QED  BY <1>9, <2>1
<1>11. \A k \in 1..D : str[k + 2] = hex_digits[(left[D - k] % 16) + 1]
  BY <1>3, <1>10
<1>12. str \in Seq(DOMAIN Font) /\ Len(str) = D + 2
  BY <1>1, <1>5, <1>7, <1>9
<1>13. QED  BY <1>11, <1>12 DEF D, left

\* The digits of an address, read back.
LEMMA HexIsRead ==
  ASSUME NEW n \in Nat, NEW D \in Nat, shifted(n, D)[D] = 0,
         NEW digit, digit = [ k \in 1..D |-> shifted(n, D)[D - k] % 16 ]
  PROVE  /\ digit \in [1..D -> 0..15]
         /\ \E f \in [0..D -> Nat] : IsRead(f, digit, D, 16) /\ f[D] = n
<1>1. PICK left : left = shifted(n, D)
  OBVIOUS
<1>2. /\ left[0] = n /\ left[D] = 0
      /\ \A k \in 1..D : left[k] = left[k - 1] \div 16
      /\ \A k \in 0..D : left[k] \in Nat
  <2>1. /\ shifted(n, D)[0] = n
        /\ \A k \in 1..D : shifted(n, D)[k] = shifted(n, D)[k - 1] \div 16
        /\ \A k \in 0..D : shifted(n, D)[k] \in Nat
    BY ShiftedIs
  <2>2. QED  BY <1>1, <2>1
<1>3. ASSUME NEW k \in 1..D
      PROVE  digit[k] = left[D - k] % 16 /\ digit[k] \in 0..15
  <2>1. left[D - k] \in Nat
    BY <1>2
  <2>2. digit[k] = left[D - k] % 16
    BY <1>1
  <2>3. QED  BY <2>1, <2>2, Sixteenths
<1>4. PICK f : f = [ k \in 0..D |-> left[D - k] ]
  OBVIOUS
<1>5. f \in [0..D -> Nat] /\ f[0] = 0 /\ f[D] = n
  <2>1. \A k \in 0..D : D - k \in 0..D /\ D - 0 = D /\ D - D = 0
    OBVIOUS
  <2>2. QED  BY <1>2, <1>4, <2>1
<1>6. ASSUME NEW k \in 1..D
      PROVE  f[k] = f[k - 1] * 16 + digit[k]
  <2>1. PICK m \in 1..D : m = D - k + 1
    OBVIOUS
  <2>2. D - k = m - 1 /\ D - (k - 1) = m /\ m - 1 \in 0..D
    BY <2>1
  <2>3. f[k] = left[m - 1] /\ f[k - 1] = left[m] /\ digit[k] = left[m - 1] % 16
    BY <1>3, <1>4, <2>2
  <2>4. left[m - 1] \in Nat /\ left[m] = left[m - 1] \div 16
    BY <1>2, <2>2
  <2>5. QED  BY <2>3, <2>4, Sixteenths
<1>7. digit \in [1..D -> 0..15]
  BY <1>3
<1>8. QED  BY <1>5, <1>6, <1>7 DEF IsRead

\* The text of the seconds, of one digit or two.
Decimal(k) == IF k <= 9 THEN Append(<<>>, hex_digits[k + 1])
              ELSE Append(Append(<<>>, hex_digits[2]), hex_digits[k - 9])

LEMMA DecimalIs ==
  ASSUME NEW k \in 1..15
  PROVE  /\ Decimal(k) \in Seq(DOMAIN Font)
         /\ k <= 9 => Len(Decimal(k)) = 1 /\ Decimal(k)[1] = hex_digits[k + 1]
         /\ k > 9 => /\ Len(Decimal(k)) = 2 /\ Decimal(k)[1] = hex_digits[2]
                     /\ Decimal(k)[2] = hex_digits[k - 9]
<1>1. ASSUME NEW a \in DOMAIN Font
      PROVE  /\ Append(<<>>, a) \in Seq(DOMAIN Font) /\ Len(Append(<<>>, a)) = 1
             /\ Append(<<>>, a)[1] = a
  OBVIOUS
<1>2. CASE k <= 9
  <2>1. hex_digits[k + 1] \in DOMAIN Font /\ ~(k > 9)
    BY <1>2, DigitsAssumption
  <2>2. QED  BY <1>1, <1>2, <2>1 DEF Decimal
<1>3. CASE k > 9
  <2>1. hex_digits[2] \in DOMAIN Font /\ hex_digits[k - 9] \in DOMAIN Font /\ ~(k <= 9)
    BY <1>3, DigitsAssumption
  <2>2. PICK one, two : /\ one = Append(<<>>, hex_digits[2])
                        /\ two = Append(one, hex_digits[k - 9])
    OBVIOUS
  <2>3. one \in Seq(DOMAIN Font) /\ Len(one) = 1 /\ one[1] = hex_digits[2]
    BY <1>1, <2>1, <2>2
  <2>4. /\ two \in Seq(DOMAIN Font) /\ Len(two) = 2 /\ two[1] = hex_digits[2]
        /\ two[2] = hex_digits[k - 9]
    BY <2>1, <2>2, <2>3, AppendProperties
  <2>5. QED  BY <1>3, <2>1, <2>2, <2>4 DEF Decimal
<1>4. QED  BY <1>2, <1>3

LEMMA SecondsText ==
  ASSUME NEW n \in 1..15
  PROVE  uint_to_string(n) = Decimal(n)
<1> DEFINE Next10(e, k) == Append(e[k \div 10], hex_digits[(k % 10) + 1])
           Step(e) == [ k \in 0..n |-> IF k = 0 THEN <<>> ELSE Next10(e, k) ]
           f == CHOOSE e : e = Step(e)
<1>1. \A k \in 1..n : k \in 1..15 /\ (k <= 9 => k \div 10 = 0) /\ (k > 9 => k \div 10 = 1)
  OBVIOUS
<1>2. uint_to_string(n) = f[n]
  BY DEF uint_to_string
<1>3. ASSUME NEW e, e[0] = <<>>, NEW k \in 1..n, k > 9 => e[1] = Decimal(1)
      PROVE  Next10(e, k) = Decimal(k)
  <2>1. CASE k <= 9
    <3>1. k \div 10 = 0 /\ k % 10 = k
      BY <1>1, <2>1
    <3>2. Next10(e, k) = Append(e[0], hex_digits[k + 1])
      BY <3>1
    <3>3. QED  BY <1>3, <2>1, <3>2 DEF Decimal
  <2>2. CASE k > 9
    <3>1. k \div 10 = 1 /\ (k % 10) + 1 = k - 9 /\ ~(k <= 9)
      BY <1>1, <2>2
    <3>2. Next10(e, k) = Append(e[1], hex_digits[k - 9])
      BY <3>1
    <3>3. Decimal(1) = Append(<<>>, hex_digits[2])
      BY DEF Decimal
    <3>4. QED  BY <1>3, <2>2, <3>1, <3>2, <3>3 DEF Decimal
  <2>3. QED  BY <1>1, <2>1, <2>2
<1> HIDE DEF Next10
<1>4. \E e : e = Step(e)
  <2>1. PICK e : e = [ k \in 0..n |-> IF k = 0 THEN <<>> ELSE Decimal(k) ]
    OBVIOUS
  <2>2. e[0] = <<>> /\ \A k \in 1..n : e[k] = Decimal(k)
    BY <2>1
  <2>3. ASSUME NEW k \in 1..n
        PROVE  e[k] = Next10(e, k)
    BY <1>3, <2>2
  <2>4. ASSUME NEW k \in 0..n
        PROVE  e[k] = IF k = 0 THEN <<>> ELSE Next10(e, k)
    <3>1. k = 0 \/ k \in 1..n
      OBVIOUS
    <3>2. QED  BY <2>2, <2>3, <3>1
  <2>5. e = [ k \in 0..n |-> e[k] ]
    BY <2>1
  <2>6. QED  BY <2>4, <2>5
<1>5. f = Step(f)
  BY <1>4
<1> HIDE DEF f
<1>6. f[0] = <<>>
  BY <1>5
<1>7. ASSUME NEW k \in 1..n
      PROVE  f[k] = Next10(f, k)
  <2>1. k \in 0..n /\ k # 0
    OBVIOUS
  <2>2. f[k] = Step(f)[k]
    BY <1>5
  <2>3. QED  BY <2>1, <2>2
<1>8. f[1] = Decimal(1)
  BY <1>3, <1>6, <1>7
<1>9. f[n] = Decimal(n)
  BY <1>3, <1>6, <1>7, <1>8
<1>10. QED  BY <1>2, <1>9
-----------------------------------------------------------------------------
(* Texts of the crash screen.                                              *)

IsText(t) == t \in [str : Seq(DOMAIN Font), x : Nat, y : Nat]
CellOf(t, i) == <<t.x + i - 1, t.y * 16>>
Kprint(picture, t) == kprint_at(picture, t.str, t.x, t.y)

\* What of the text has room is there to read.
Stands(picture, t) ==
  \A i \in DOMAIN t.str :
    OnScreen(t.x + i - 1, t.y) => Pixels(picture, CellOf(t, i)) = Font[t.str[i]]
Apart(t, u) == Span(t) \cap Span(u) = {}

LEMMA TextCells ==
  ASSUME NEW t, IsText(t), NEW i \in DOMAIN t.str
  PROVE  /\ t.str[i] \in DOMAIN Font /\ Font[t.str[i]] \subseteq Box
         /\ t.x + i - 1 \in Nat
         /\ OnScreen(t.x + i - 1, t.y) <=> CellOf(t, i) \in Whole
         /\ \A j \in DOMAIN t.str : CellOf(t, i) = CellOf(t, j) => i = j
<1>1. t.str \in Seq(DOMAIN Font) /\ t.x \in Nat /\ t.y \in Nat
  BY DEF IsText
<1>2. i \in Nat /\ i >= 1 /\ \A j \in DOMAIN t.str : j \in Nat
  BY <1>1
<1>3. t.str[i] \in DOMAIN Font /\ Font[t.str[i]] \subseteq Box
  BY <1>1, FontAssumption
<1>4. PICK a \in Nat, b \in Nat : a = t.x + i - 1 /\ b = t.y
  BY <1>1, <1>2
<1>5. OnScreen(a, b) <=> <<a, b * 16>> \in Whole
  <2>1. b * 16 \in Nat /\ (b * 16) % 16 = 0
    OBVIOUS
  <2>2. QED  BY <2>1 DEF OnScreen, Whole
<1>6. \A j \in DOMAIN t.str : CellOf(t, i) = CellOf(t, j) => i = j
  BY <1>1, <1>2 DEF CellOf
<1>7. QED  BY <1>3, <1>4, <1>5, <1>6 DEF CellOf

\* kprint_at writes the cells of its text, and no other.
LEMMA PrintIs ==
  ASSUME WidePitch, NEW picture, NEW t, IsText(t), NEW c \in Whole
  PROVE  /\ \A i \in DOMAIN t.str :
              c = CellOf(t, i) => Pixels(Kprint(picture, t), c) = Font[t.str[i]]
         /\ (\A i \in DOMAIN t.str : c # CellOf(t, i))
              => Pixels(Kprint(picture, t), c) = Pixels(picture, c)
<1>1. PICK room : room = { i \in DOMAIN t.str : OnScreen(t.x + i - 1, t.y) }
  OBVIOUS
<1>2. Kprint(picture, t) =
        (picture \ UNION { InCell(Box, CellOf(t, i)) : i \in room })
        \cup UNION { InCell(Font[t.str[i]], CellOf(t, i)) : i \in room }
  BY <1>1 DEF Kprint, kprint_at, PutCharsBg, InCell, CellOf
<1>3. ASSUME NEW p \in Box, NEW i \in room
      PROVE  /\ Point(c, p) \in InCell(Box, CellOf(t, i)) <=> c = CellOf(t, i)
             /\ Point(c, p) \in InCell(Font[t.str[i]], CellOf(t, i))
                  <=> c = CellOf(t, i) /\ p \in Font[t.str[i]]
  <2>1. CellOf(t, i) \in Whole /\ Font[t.str[i]] \subseteq Box
    BY <1>1, TextCells
  <2>2. QED  BY <2>1, DrawnIn
<1>4. ASSUME NEW p \in Box
      PROVE  Point(c, p) \in Kprint(picture, t)
               <=> \/ Point(c, p) \in picture /\ \A i \in room : c # CellOf(t, i)
                   \/ \E i \in room : c = CellOf(t, i) /\ p \in Font[t.str[i]]
  BY <1>2, <1>3
<1>5. ASSUME NEW i \in DOMAIN t.str, c = CellOf(t, i)
      PROVE  Pixels(Kprint(picture, t), c) = Font[t.str[i]]
  <2>1. i \in room
    BY <1>1, <1>5, TextCells
  <2>2. \A j \in room : c = CellOf(t, j) => j = i
    BY <1>1, <1>5, TextCells
  <2>3. \A p \in Box : Point(c, p) \in Kprint(picture, t) <=> p \in Font[t.str[i]]
    BY <1>4, <1>5, <2>1, <2>2
  <2>4. Font[t.str[i]] \subseteq Box
    BY TextCells
  <2>5. QED  BY <2>3, <2>4, PixelsAre
<1>6. ASSUME \A i \in DOMAIN t.str : c # CellOf(t, i)
      PROVE  Pixels(Kprint(picture, t), c) = Pixels(picture, c)
  <2>1. \A p \in Box : Point(c, p) \in Kprint(picture, t) <=> Point(c, p) \in picture
    BY <1>1, <1>4, <1>6
  <2>2. QED  BY <2>1, PixelsAre
<1>7. QED  BY <1>5, <1>6

LEMMA Writes ==
  ASSUME WidePitch, NEW picture, NEW t, IsText(t)
  PROVE  Stands(Kprint(picture, t), t)
BY PrintIs, TextCells DEF Stands

LEMMA Keeps ==
  ASSUME WidePitch, NEW picture, NEW t, IsText(t), NEW u, IsText(u), Apart(t, u),
         Stands(picture, t)
  PROVE  Stands(Kprint(picture, u), t)
<1>1. SUFFICES ASSUME NEW i \in DOMAIN t.str, OnScreen(t.x + i - 1, t.y)
               PROVE  Pixels(Kprint(picture, u), CellOf(t, i)) = Font[t.str[i]]
  BY DEF Stands
<1>2. CellOf(t, i) \in Whole /\ Pixels(picture, CellOf(t, i)) = Font[t.str[i]]
  BY <1>1, TextCells DEF Stands
<1>3. ASSUME NEW j \in DOMAIN u.str
      PROVE  CellOf(t, i) # CellOf(u, j)
  <2>1. <<t.x + i - 1, t.y>> # <<u.x + j - 1, u.y>>
    BY DEF Apart, Span
  <2>2. t.y \in Nat /\ u.y \in Nat
    BY DEF IsText
  <2>3. QED  BY <2>1, <2>2 DEF CellOf
<1>4. QED  BY <1>2, <1>3, PrintIs

\* The pictures after the first n texts, and the last of them.
AreTexts(texts) == DOMAIN texts = 1..Len(texts) /\ \A n \in DOMAIN texts : IsText(texts[n])
Pictures(f, picture, texts) ==
  /\ f[0] = picture
  /\ \A n \in 1..Len(texts) : f[n] = Kprint(f[n - 1], texts[n])

LEMMA TextsAre ==
  ASSUME NEW picture, NEW texts, Len(texts) \in Nat
  PROVE  \E f : Pictures(f, picture, texts) /\ Texts(picture, texts) = f[Len(texts)]
<1> DEFINE N == Len(texts)
           Spots(t) == UNION { Drawn(Font[t.str[i]], (t.x + i - 1) * 8, t.y * 16) :
                                 i \in DOMAIN t.str }
           V == SUBSET (picture \cup UNION { Spots(texts[n]) : n \in 1..N })
           step == [ n \in 1..N |-> [ p \in V |-> Kprint(p, texts[n]) ] ]
           Step(e) == [ n \in 0..N |->
                          IF n = 0 THEN picture
                          ELSE kprint_at(e[n - 1], texts[n].str, texts[n].x, texts[n].y) ]
           g == CHOOSE e : e = Step(e)
<1>1. Texts(picture, texts) = g[N]
  BY DEF Texts
<1>2. ASSUME NEW n \in 1..N, NEW p \in V
      PROVE  Kprint(p, texts[n]) \in V
  <2>1. Kprint(p, texts[n]) \subseteq p \cup Spots(texts[n])
    BY DEF Kprint, kprint_at, PutCharsBg
  <2> HIDE DEF Spots, N
  <2>2. QED  BY <2>1
<1>3. picture \in V
  OBVIOUS
<1> HIDE DEF V
<1>4. step \in [1..N -> [V -> V]]
  BY <1>2
<1>5. PICK e : Recursive(e, N, V, picture, step)
  <2> HIDE DEF step, N
  <2>1. N \in Nat
    BY DEF N
  <2>2. QED  BY <1>3, <1>4, <2>1, Recursion
<1>6. e \in [0..N -> V] /\ e[0] = picture
  BY <1>5 DEF Recursive
<1>7. ASSUME NEW n \in 1..N
      PROVE  e[n] = Kprint(e[n - 1], texts[n])
  <2>1. n - 1 \in 0..N
    OBVIOUS
  <2>2. e[n] = step[n][e[n - 1]] /\ e[n - 1] \in V
    BY <1>5, <1>6, <2>1 DEF Recursive
  <2> HIDE DEF N
  <2>3. QED  BY <2>2
<1>8. e = Step(e)
  <2>1. ASSUME NEW n \in 0..N
        PROVE  e[n] = IF n = 0 THEN picture
                      ELSE kprint_at(e[n - 1], texts[n].str, texts[n].x, texts[n].y)
    <3>1. n = 0 \/ n \in 1..N
      OBVIOUS
    <3>2. QED  BY <1>6, <1>7, <3>1 DEF Kprint
  <2>2. e = [ n \in 0..N |-> e[n] ]
    BY <1>6
  <2>3. QED  BY <2>1, <2>2
<1>9. g = Step(g)
  BY <1>8
<1> HIDE DEF g
<1>10. g[0] = picture
  BY <1>9
<1>11. ASSUME NEW n \in 1..N
       PROVE  g[n] = Kprint(g[n - 1], texts[n])
  <2>1. n \in 0..N /\ n # 0
    OBVIOUS
  <2>2. g[n] = Step(g)[n]
    BY <1>9
  <2>3. QED  BY <2>1, <2>2 DEF Kprint
<1>12. Pictures(g, picture, texts)
  BY <1>10, <1>11 DEF Pictures
<1>13. QED  BY <1>1, <1>12

\* A text that stands after the first m stays, if the others are apart from it.
LEMMA Stays ==
  ASSUME WidePitch, NEW picture, NEW texts, Len(texts) \in Nat, AreTexts(texts),
         NEW f, Pictures(f, picture, texts), NEW t, IsText(t),
         NEW m \in 0..Len(texts), Stands(f[m], t),
         \A n \in (m + 1)..Len(texts) : Apart(t, texts[n])
  PROVE  Stands(f[Len(texts)], t)
<1> DEFINE N == Len(texts)
           S == { n \in m..N : Stands(f[n], t) }
<1>1. m \in S
  OBVIOUS
<1>2. ASSUME NEW n \in (m + 1)..N, n - 1 \in S
      PROVE  n \in S
  <2>1. n \in 1..N /\ n \in m..N
    OBVIOUS
  <2>2. f[n] = Kprint(f[n - 1], texts[n]) /\ IsText(texts[n])
    BY <2>1 DEF Pictures, AreTexts
  <2>3. Stands(f[n - 1], t) /\ Apart(t, texts[n])
    BY <1>2
  <2>4. Stands(f[n], t)
    BY <2>2, <2>3, Keeps
  <2>5. QED  BY <2>1, <2>4
<1>3. m \in Nat /\ N \in Nat
  OBVIOUS
<1>4. N \in m..N
  OBVIOUS
<1>5. N \in S
  <2> HIDE DEF S, N
  <2>1. QED  BY <1>1, <1>2, <1>3, <1>4, Upwards
<1>6. QED  BY <1>5

\* What is apart from all texts stays, and a text that no later one touches
\* is there.
LEMMA TextsKeep ==
  ASSUME WidePitch, NEW picture, NEW texts, Len(texts) \in Nat, AreTexts(texts),
         NEW t, IsText(t), Stands(picture, t),
         \A n \in 1..Len(texts) : Apart(t, texts[n])
  PROVE  Stands(Texts(picture, texts), t)
<1>1. PICK f : Pictures(f, picture, texts) /\ Texts(picture, texts) = f[Len(texts)]
  BY TextsAre
<1>2. Stands(f[0], t)
  BY <1>1 DEF Pictures
<1>3. 0 \in 0..Len(texts) /\ 0 + 1 = 1
  OBVIOUS
<1>4. Stands(f[Len(texts)], t)
  BY <1>1, <1>2, <1>3, Stays
<1>5. QED  BY <1>1, <1>4

LEMMA TextsWrite ==
  ASSUME WidePitch, NEW picture, NEW texts, Len(texts) \in Nat, AreTexts(texts),
         NEW m \in 1..Len(texts),
         \A n \in (m + 1)..Len(texts) : Apart(texts[m], texts[n])
  PROVE  Stands(Texts(picture, texts), texts[m])
<1>1. PICK f : Pictures(f, picture, texts) /\ Texts(picture, texts) = f[Len(texts)]
  BY TextsAre
<1>2. IsText(texts[m])
  BY DEF AreTexts
<1>3. Stands(f[m], texts[m])
  BY <1>1, <1>2, Writes DEF Pictures
<1>4. m \in 0..Len(texts)
  OBVIOUS
<1>5. Stands(f[Len(texts)], texts[m])
  BY <1>1, <1>2, <1>3, <1>4, Stays
<1>6. QED  BY <1>1, <1>5

-----------------------------------------------------------------------------
(* The crash screen.                                                       *)

RipText(a) == [str |-> utoa_hex(a, HexDigits), x |-> Layout.rip.x, y |-> Layout.rip.y]
NumberText(w) ==
  [str |-> uint_to_string(w), x |-> Layout.seconds.x, y |-> Layout.seconds.y]
BlankText == [str |-> <<Cell!Space>>, x |-> Layout.seconds.x + 1, y |-> Layout.seconds.y]

\* What rsod draws once, and what it draws in each round.
Laid(picture, a) == /\ \A n \in 1..Len(Layout.texts) : Stands(picture, Layout.texts[n])
                    /\ Stands(picture, RipText(a))
Counted(picture, w) == /\ Stands(picture, Layout.rebooting)
                       /\ Stands(picture, NumberText(w))
                       /\ w <= 9 => Stands(picture, BlankText)

CrashInv ==
  /\ pitch \in Pitches
  /\ at \in {"draw", "sleep"} =>
       wait_secs \in 1..15 /\ rip \in Addresses /\ \A a \in {rip} : Laid(lit, a)
  /\ at = "sleep" => \A w \in {wait_secs} : Counted(lit, w)

LEMMA Fixed ==
  /\ Len(Layout.texts) \in Nat /\ AreTexts(Layout.texts) /\ IsText(Layout.rebooting)
<1>1. PICK Text : Text = [str : Seq(DOMAIN Font), x : Nat, y : Nat]
  OBVIOUS
<1>2. Layout.texts \in Seq(Text) /\ Layout.rebooting \in Text
  BY <1>1, LayoutAssumption
<1>3. PICK L : L = Layout.texts
  OBVIOUS
<1>4. L \in Seq(Text)
  BY <1>2, <1>3
<1>5. DOMAIN L = 1..Len(L) /\ Len(L) \in Nat /\ \A n \in DOMAIN L : L[n] \in Text
  BY <1>4
<1>6. QED  BY <1>1, <1>2, <1>3, <1>5 DEF AreTexts, IsText

LEMMA StandingIs ==
  ASSUME NEW n \in DOMAIN Standing
  PROVE  /\ IsText(Standing[n])
         /\ \/ \E m \in 1..Len(Layout.texts) : Standing[n] = Layout.texts[m]
            \/ Standing[n] = Layout.rebooting
<1>1. PICK L, Text : L = Layout.texts /\ L \in Seq(Text) /\ Layout.rebooting \in Text
  BY LayoutAssumption
<1>2. /\ DOMAIN Standing = 1..(Len(L) + 1) /\ Len(L) \in Nat
      /\ \A m \in 1..Len(L) : Standing[m] = L[m]
      /\ Standing[Len(L) + 1] = Layout.rebooting
  BY <1>1, AppendProperties DEF Standing
<1>3. n \in 1..Len(L) \/ n = Len(L) + 1
  BY <1>2
<1>4. \A m \in 1..Len(L) : IsText(L[m])
  BY <1>1, Fixed DEF AreTexts
<1>5. QED  BY <1>1, <1>2, <1>3, <1>4, Fixed

\* The fixed texts are apart.
LEMMA FixedApart ==
  ASSUME NEW n \in 1..Len(Layout.texts)
  PROVE  /\ \A m \in 1..Len(Layout.texts) : m # n => Apart(Layout.texts[n], Layout.texts[m])
         /\ Apart(Layout.texts[n], Layout.rebooting)
         /\ Span(Layout.texts[n]) \cap (RipSpan \cup SecondsSpan) = {}
<1>1. PICK L, Text : L = Layout.texts /\ L \in Seq(Text) /\ Layout.rebooting \in Text
  BY LayoutAssumption
<1>2. /\ Len(Standing) = Len(L) + 1 /\ DOMAIN Standing = 1..(Len(L) + 1)
      /\ \A m \in 1..Len(L) : Standing[m] = L[m]
      /\ Standing[Len(L) + 1] = Layout.rebooting /\ Len(L) \in Nat
  BY <1>1, AppendProperties DEF Standing
<1>3. \A m \in 1..Len(L) : m \in DOMAIN Standing /\ m # Len(L) + 1
  BY <1>2
<1>4. Len(L) + 1 \in DOMAIN Standing
  BY <1>2
<1>5. n \in 1..Len(L)
  BY <1>1
<1>6. \A m \in 1..Len(L) : m # n => Apart(L[n], L[m])
  BY <1>2, <1>3, <1>5, LayoutAssumption DEF Apart
<1>7. Apart(L[n], Layout.rebooting)
  BY <1>2, <1>3, <1>4, <1>5, LayoutAssumption DEF Apart
<1>8. Span(L[n]) \cap (RipSpan \cup SecondsSpan) = {}
  BY <1>2, <1>3, <1>5, LayoutAssumption
<1>9. QED  BY <1>1, <1>6, <1>7, <1>8

LEMMA RebootingApart == Span(Layout.rebooting) \cap (RipSpan \cup SecondsSpan) = {}
<1>1. PICK L, Text : L = Layout.texts /\ L \in Seq(Text) /\ Layout.rebooting \in Text
  BY LayoutAssumption
<1>2. /\ DOMAIN Standing = 1..(Len(L) + 1) /\ Standing[Len(L) + 1] = Layout.rebooting
      /\ Len(L) \in Nat
  BY <1>1, AppendProperties DEF Standing
<1>3. Len(L) + 1 \in DOMAIN Standing
  BY <1>2
<1>4. QED  BY <1>2, <1>3, LayoutAssumption

\* The numbers are texts in the room they have.
LEMMA RipIsText ==
  ASSUME NEW a \in Addresses
  PROVE  IsText(RipText(a)) /\ Span(RipText(a)) = RipSpan
<1>1. PICK str : str = utoa_hex(a, HexDigits)
  OBVIOUS
<1>2. a \in Nat
  BY DigitsAssumption
<1>3. str \in Seq(DOMAIN Font) /\ Len(str) = HexDigits + 2
  BY <1>1, <1>2, HexText
<1>4. DOMAIN str = 1..(HexDigits + 2)
  BY <1>3
<1>5. Layout.rip.x \in Nat /\ Layout.rip.y \in Nat
  BY LayoutAssumption
<1>6. QED  BY <1>1, <1>3, <1>4, <1>5 DEF RipText, IsText, Span, RipSpan

LEMMA SecondsAreTexts ==
  ASSUME NEW w \in 1..15
  PROVE  /\ IsText(NumberText(w)) /\ IsText(BlankText)
         /\ Span(NumberText(w)) \subseteq SecondsSpan /\ Span(BlankText) \subseteq SecondsSpan
         /\ w <= 9 => Apart(NumberText(w), BlankText)
<1>1. PICK str : str = uint_to_string(w)
  OBVIOUS
<1>2. /\ str \in Seq(DOMAIN Font)
      /\ w <= 9 => Len(str) = 1
      /\ w > 9 => Len(str) = 2
  BY <1>1, SecondsText, DecimalIs
<1>3. /\ w <= 9 => DOMAIN str = 1..1
      /\ DOMAIN str \subseteq 1..2
  <2>1. DOMAIN str = 1..Len(str)
    BY <1>2
  <2>2. w <= 9 \/ w > 9
    OBVIOUS
  <2>3. Len(str) = 1 \/ Len(str) = 2
    BY <1>2, <2>2
  <2>4. QED  BY <1>2, <2>1, <2>3
<1>4. PICK x \in Nat, y \in Nat : x = Layout.seconds.x /\ y = Layout.seconds.y
  BY LayoutAssumption
<1>5. IsText(NumberText(w)) /\ Span(NumberText(w)) \subseteq SecondsSpan
  <2>1. IsText(NumberText(w))
    BY <1>1, <1>2, <1>4 DEF NumberText, IsText
  <2>2. Span(NumberText(w)) = { <<x + i - 1, y>> : i \in DOMAIN str }
    BY <1>1, <1>4 DEF NumberText, Span
  <2>3. SecondsSpan = { <<x + i - 1, y>> : i \in 1..2 }
    BY <1>4 DEF SecondsSpan
  <2>4. QED  BY <1>3, <2>1, <2>2, <2>3
<1>6. PICK blank : blank = <<Cell!Space>>
  OBVIOUS
<1>7. Cell!Space \in DOMAIN Font
  BY GlyphAssumption DEF Cell!GlyphAssumption
<1>8. blank \in Seq(DOMAIN Font) /\ DOMAIN blank = 1..1
  BY <1>6, <1>7
<1>9. IsText(BlankText)
  BY <1>4, <1>6, <1>8 DEF BlankText, IsText
<1>10. Span(BlankText) = { <<x + 1, y>> }
  <2>1. Span(BlankText) = { <<x + 1 + i - 1, y>> : i \in 1..1 }
    BY <1>4, <1>6, <1>8 DEF BlankText, Span
  <2>2. \A i \in 1..1 : x + 1 + i - 1 = x + 1
    OBVIOUS
  <2>3. 1 \in 1..1
    OBVIOUS
  <2>4. QED  BY <2>1, <2>2, <2>3
<1>11. <<x + 1, y>> \in SecondsSpan
  <2>1. x + 2 - 1 = x + 1 /\ 2 \in 1..2
    OBVIOUS
  <2>2. <<x + 2 - 1, y>> \in SecondsSpan
    BY <1>4, <2>1 DEF SecondsSpan
  <2>3. QED  BY <2>1, <2>2
<1>12. ASSUME w <= 9
       PROVE  Apart(NumberText(w), BlankText)
  <2>1. \A i \in 1..1 : x + i - 1 # x + 1
    OBVIOUS
  <2>2. Span(NumberText(w)) = { <<x + i - 1, y>> : i \in 1..1 }
    BY <1>1, <1>3, <1>4, <1>12 DEF NumberText, Span
  <2>3. QED  BY <1>10, <2>1, <2>2 DEF Apart
<1>13. QED  BY <1>5, <1>9, <1>10, <1>11, <1>12

\* After its first drawing everything rsod draws once can be read, whatever the
\* picture was.
LEMMA DrawsOnce ==
  ASSUME WidePitch, NEW picture, NEW a \in Addresses,
         NEW texts, texts = Append(Layout.texts, RipText(a))
  PROVE  Laid(Texts(picture, texts), a)
<1>1. PICK L, Text : L = Layout.texts /\ L \in Seq(Text)
  BY LayoutAssumption
<1>2. PICK N \in Nat : N = Len(L)
  BY <1>1
<1>3. PICK R : R = RipText(a)
  OBVIOUS
<1>4. /\ Len(texts) = N + 1 /\ DOMAIN texts = 1..(N + 1) /\ texts[N + 1] = R
      /\ \A n \in 1..N : texts[n] = L[n]
  <2>1. PICK S : S = Text \cup {R}
    OBVIOUS
  <2>2. L \in Seq(S) /\ R \in S
    BY <1>1, <2>1
  <2>3. texts = Append(L, R)
    BY <1>1, <1>3
  <2>4. QED  BY <1>2, <2>2, <2>3, AppendProperties
<1>5. \A n \in 1..N : n \in 1..(N + 1) /\ n # N + 1
  OBVIOUS
<1>6. \A n \in 1..(N + 1) : n \in 1..N \/ n = N + 1
  OBVIOUS
<1>7. AreTexts(texts)
  <2>1. \A n \in 1..N : IsText(L[n])
    BY <1>1, <1>2, Fixed DEF AreTexts
  <2>2. IsText(R)
    BY <1>3, RipIsText
  <2>3. QED  BY <1>4, <1>6, <2>1, <2>2 DEF AreTexts
<1>8. ASSUME NEW m \in 1..N
      PROVE  Stands(Texts(picture, texts), L[m])
  <2>1. ASSUME NEW n \in (m + 1)..(N + 1)
        PROVE  Apart(texts[m], texts[n])
    <3>1. n \in 1..(N + 1) /\ n # m
      OBVIOUS
    <3>2. CASE n \in 1..N
      BY <1>1, <1>2, <1>4, <3>1, <3>2, FixedApart
    <3>3. CASE n = N + 1
      <4>1. Span(L[m]) \cap RipSpan = {}
        BY <1>1, <1>2, FixedApart
      <4>2. Span(R) = RipSpan
        BY <1>3, RipIsText
      <4>3. QED  BY <1>4, <3>3, <4>1, <4>2 DEF Apart
    <3>4. QED  BY <1>6, <3>1, <3>2, <3>3
  <2>2. m \in 1..Len(texts) /\ Len(texts) \in Nat /\ texts[m] = L[m]
    BY <1>4
  <2>3. \A n \in (m + 1)..Len(texts) : Apart(texts[m], texts[n])
    BY <1>4, <2>1
  <2>4. QED  BY <1>7, <2>2, <2>3, TextsWrite
<1>9. Stands(Texts(picture, texts), R)
  <2>1. N + 1 \in 1..Len(texts) /\ Len(texts) \in Nat
    BY <1>4
  <2>2. \A n \in (N + 1 + 1)..Len(texts) : FALSE
    BY <1>4
  <2>3. QED  BY <1>4, <1>7, <2>1, <2>2, TextsWrite
<1>10. QED  BY <1>1, <1>2, <1>3, <1>8, <1>9 DEF Laid

LEMMA CountdownIs ==
  ASSUME NEW texts, texts = Countdown, NEW w \in 1..15, w = wait_secs
  PROVE  /\ Len(texts) = IF w <= 9 THEN 3 ELSE 2
         /\ DOMAIN texts = 1..Len(texts)
         /\ texts[1] = Layout.rebooting /\ texts[2] = NumberText(w)
         /\ w <= 9 => texts[3] = BlankText
<1>1. PICK one, two, three :
        one = Layout.rebooting /\ two = NumberText(w) /\ three = BlankText
  OBVIOUS
<1>2. texts = <<one, two>> \o (IF w <= 9 THEN <<three>> ELSE <<>>)
  BY <1>1, Zenon DEF Countdown, NumberText, BlankText, Cell!Space
<1>3. PICK S : S = {one, two, three}
  OBVIOUS
<1>4. PICK first : first = <<one, two>>
  OBVIOUS
<1>5. first \in Seq(S) /\ Len(first) = 2 /\ first[1] = one /\ first[2] = two
  BY <1>3, <1>4
<1>6. PICK rest : rest = IF w <= 9 THEN <<three>> ELSE <<>>
  OBVIOUS
<1>7. /\ rest \in Seq(S) /\ Len(rest) = IF w <= 9 THEN 1 ELSE 0
      /\ (w <= 9 => rest[1] = three)
  <2>1. CASE w <= 9
    <3>1. rest = <<three>>
      BY <1>6, <2>1
    <3>2. rest \in Seq(S) /\ Len(rest) = 1 /\ rest[1] = three
      BY <1>3, <3>1
    <3>3. QED  BY <2>1, <3>2
  <2>2. CASE ~(w <= 9)
    <3>1. rest = <<>>
      BY <1>6, <2>2
    <3>2. rest \in Seq(S) /\ Len(rest) = 0
      BY <3>1
    <3>3. QED  BY <2>2, <3>2
  <2>3. QED  BY <2>1, <2>2
<1>8. texts = first \o rest
  BY <1>2, <1>4, <1>6
<1>9. /\ texts \in Seq(S) /\ Len(texts) = Len(first) + Len(rest)
      /\ \A i \in 1..(Len(first) + Len(rest)) :
           texts[i] = IF i <= Len(first) THEN first[i] ELSE rest[i - Len(first)]
  <2>1. first \in Seq(S) /\ rest \in Seq(S)
    BY <1>5, <1>7
  <2>2. QED  BY <1>8, <2>1, ConcatProperties
<1>10. Len(texts) = IF w <= 9 THEN 3 ELSE 2
  BY <1>5, <1>7, <1>9
<1>11. texts[1] = one /\ texts[2] = two
  BY <1>5, <1>7, <1>9
<1>12. w <= 9 => texts[3] = three
  BY <1>5, <1>7, <1>9
<1>13. DOMAIN texts = 1..Len(texts)
  BY <1>9
<1>14. QED  BY <1>1, <1>10, <1>11, <1>12, <1>13

\* A round rewrites its text and the seconds, and leaves the rest.
LEMMA DrawsRound ==
  ASSUME WidePitch, NEW picture, NEW a \in Addresses, Laid(picture, a),
         NEW w \in 1..15, NEW texts,
         Len(texts) = IF w <= 9 THEN 3 ELSE 2, DOMAIN texts = 1..Len(texts),
         texts[1] = Layout.rebooting, texts[2] = NumberText(w),
         w <= 9 => texts[3] = BlankText
  PROVE  Laid(Texts(picture, texts), a) /\ Counted(Texts(picture, texts), w)
<1>1. /\ Len(texts) \in Nat /\ 1 \in 1..Len(texts) /\ 2 \in 1..Len(texts)
      /\ \A n \in 1..Len(texts) : n = 1 \/ n = 2 \/ (n = 3 /\ w <= 9)
      /\ w <= 9 => 3 \in 1..Len(texts)
  OBVIOUS
<1>2. AreTexts(texts)
  BY <1>1, Fixed, SecondsAreTexts DEF AreTexts
<1>3. ASSUME NEW n \in 1..Len(texts)
      PROVE  n # 1 => Span(texts[n]) \subseteq SecondsSpan
  BY <1>1, SecondsAreTexts
<1>4. ASSUME NEW t, IsText(t), Stands(picture, t), Apart(t, Layout.rebooting),
             Span(t) \cap SecondsSpan = {}
      PROVE  Stands(Texts(picture, texts), t)
  <2>1. \A n \in 1..Len(texts) : Apart(t, texts[n])
    BY <1>3, <1>4 DEF Apart
  <2>2. QED  BY <1>1, <1>2, <1>4, <2>1, TextsKeep
<1>5. ASSUME NEW m \in 1..Len(Layout.texts)
      PROVE  Stands(Texts(picture, texts), Layout.texts[m])
  <2>1. IsText(Layout.texts[m])
    BY Fixed DEF AreTexts
  <2>2. Stands(picture, Layout.texts[m])
    BY DEF Laid
  <2>3. Span(Layout.texts[m]) \cap SecondsSpan = {} /\ Apart(Layout.texts[m], Layout.rebooting)
    BY FixedApart
  <2>4. QED  BY <1>4, <2>1, <2>2, <2>3
<1>6. Stands(Texts(picture, texts), RipText(a))
  <2>1. IsText(RipText(a)) /\ Span(RipText(a)) = RipSpan /\ Stands(picture, RipText(a))
    BY RipIsText DEF Laid
  <2>2. RipSpan \cap SecondsSpan = {}
    BY LayoutAssumption
  <2>3. Apart(RipText(a), Layout.rebooting)
    BY <2>1, RebootingApart DEF Apart
  <2>4. QED  BY <1>4, <2>1, <2>2, <2>3
<1>7. Stands(Texts(picture, texts), Layout.rebooting)
  <2>1. \A n \in (1 + 1)..Len(texts) : n \in 1..Len(texts) /\ n # 1
    OBVIOUS
  <2>2. \A n \in (1 + 1)..Len(texts) : Apart(texts[1], texts[n])
    BY <1>3, <2>1, RebootingApart DEF Apart
  <2>3. QED  BY <1>1, <1>2, <2>2, TextsWrite
<1>8. Stands(Texts(picture, texts), NumberText(w))
  <2>1. \A n \in (2 + 1)..Len(texts) : n = 3 /\ w <= 9
    OBVIOUS
  <2>2. \A n \in (2 + 1)..Len(texts) : Apart(texts[2], texts[n])
    BY <2>1, SecondsAreTexts
  <2>3. QED  BY <1>1, <1>2, <2>2, TextsWrite
<1>9. ASSUME w <= 9
      PROVE  Stands(Texts(picture, texts), BlankText)
  <2>1. \A n \in (3 + 1)..Len(texts) : FALSE
    BY <1>9
  <2>2. 3 \in 1..Len(texts) /\ texts[3] = BlankText
    BY <1>1, <1>9
  <2>3. QED  BY <1>1, <1>2, <2>1, <2>2, TextsWrite
<1>10. QED  BY <1>5, <1>6, <1>7, <1>8, <1>9 DEF Laid, Counted

LEMMA PitchIsWide ==
  ASSUME pitch \in Pitches
  PROVE  WidePitch
BY PitchAssumption DEF WidePitch

LEMMA StandsPrimed ==
  ASSUME pitch' = pitch, NEW t
  PROVE  Stands(lit, t)' <=> Stands(lit', t)
BY Primed DEF Stands

LEMMA LaidPrimed ==
  ASSUME pitch' = pitch, NEW a
  PROVE  Laid(lit, a)' <=> Laid(lit', a)
BY StandsPrimed DEF Laid

LEMMA CountedPrimed ==
  ASSUME pitch' = pitch, NEW w
  PROVE  Counted(lit, w)' <=> Counted(lit', w)
BY StandsPrimed DEF Counted

LEMMA CrashStart == Init => CrashInv
BY DEF Init, CrashInv

LEMMA RsodKept ==
  ASSUME CrashInv, NEW address \in Addresses, Rsod(address)
  PROVE  CrashInv'
<1>1. pitch \in Pitches /\ pitch' = pitch /\ WidePitch
  BY PitchIsWide DEF CrashInv, Rsod
<1>2. PICK picture, texts : /\ lit' = Texts(picture, texts)
                            /\ texts = Append(Layout.texts, RipText(address))
  BY DEF Rsod, RipText
<1>3. Laid(lit', address)
  BY <1>1, <1>2, DrawsOnce
<1>4. /\ at' = "draw" /\ wait_secs' = 15 /\ rip' = address
  BY DEF Rsod
<1>5. Laid(lit, address)'
  BY <1>1, <1>3, LaidPrimed
<1>6. QED  BY <1>1, <1>4, <1>5 DEF CrashInv

LEMMA RsodDrawKept ==
  ASSUME CrashInv, RsodDraw
  PROVE  CrashInv'
<1>1. pitch \in Pitches /\ pitch' = pitch /\ WidePitch
  BY PitchIsWide DEF CrashInv, RsodDraw
<1>2. PICK a \in Addresses, w \in 1..15 : a = rip /\ w = wait_secs /\ Laid(lit, a)
  BY DEF CrashInv, RsodDraw
<1>3. PICK texts : texts = Countdown
  OBVIOUS
<1>4. lit' = Texts(lit, texts)
  BY <1>3 DEF RsodDraw
<1>5. /\ Len(texts) = IF w <= 9 THEN 3 ELSE 2
      /\ DOMAIN texts = 1..Len(texts)
      /\ texts[1] = Layout.rebooting /\ texts[2] = NumberText(w)
      /\ w <= 9 => texts[3] = BlankText
  BY <1>2, <1>3, CountdownIs
<1>6. Laid(lit', a) /\ Counted(lit', w)
  BY <1>1, <1>2, <1>4, <1>5, DrawsRound
<1>7. Laid(lit, a)' /\ Counted(lit, w)'
  BY <1>1, <1>6, LaidPrimed, CountedPrimed
<1>8. at' = "sleep" /\ wait_secs' = w /\ rip' = a
  BY <1>2 DEF RsodDraw
<1>9. QED  BY <1>1, <1>2, <1>7, <1>8 DEF CrashInv

LEMMA RsodSleepKept ==
  ASSUME CrashInv, RsodSleep
  PROVE  CrashInv'
<1>1. pitch \in Pitches /\ pitch' = pitch /\ lit' = lit
  BY DEF CrashInv, RsodSleep, console
<1>2. PICK a \in Addresses, w \in 1..15 : a = rip /\ w = wait_secs /\ Laid(lit, a)
  BY DEF CrashInv, RsodSleep
<1>3. Laid(lit, a)'
  BY <1>1, <1>2, LaidPrimed
<1>4. wait_secs' = w - 1 /\ rip' = a /\ at' = IF wait_secs' <= 0 THEN "reset" ELSE "draw"
  BY <1>2 DEF RsodSleep
<1>5. at' \in {"draw", "sleep"} => wait_secs' \in 1..15
  BY <1>4
<1>6. at' # "sleep"
  BY <1>4
<1>7. QED  BY <1>1, <1>2, <1>3, <1>4, <1>5, <1>6 DEF CrashInv

LEMMA CrashKept ==
  ASSUME CrashInv, [Next]_vars
  PROVE  CrashInv'
<1>1. CASE Console
  <2>1. pitch' = pitch /\ at' = "console"
    BY <1>1 DEF Console
  <2>2. QED  BY <2>1 DEF CrashInv
<1>2. CASE \E address \in Addresses : Rsod(address)
  BY <1>2, RsodKept
<1>3. CASE RsodDraw
  BY <1>3, RsodDrawKept
<1>4. CASE RsodSleep
  BY <1>4, RsodSleepKept
<1>5. CASE UNCHANGED vars
  <2>1. /\ pitch' = pitch /\ lit' = lit /\ at' = at /\ wait_secs' = wait_secs /\ rip' = rip
    BY <1>5 DEF vars, console
  <2>2. \A a : Laid(lit, a) => Laid(lit, a)'
    BY <2>1, LaidPrimed
  <2>3. \A w : Counted(lit, w) => Counted(lit, w)'
    BY <2>1, CountedPrimed
  <2>4. QED  BY <2>1, <2>2, <2>3 DEF CrashInv
<1>6. QED  BY <1>1, <1>2, <1>3, <1>4, <1>5 DEF Next

\* A text that stands shows its characters, and a digit shows itself.
LEMMA StandsShown ==
  ASSUME NEW t, IsText(t), Stands(lit, t), NEW i \in DOMAIN t.str,
         OnScreen(t.x + i - 1, t.y)
  PROVE  Shown(<<t.x + i - 1, t.y * 16>>) = Cell!Look(t.str[i])
<1>1. PICK ch \in DOMAIN Font : ch = t.str[i]
  BY TextCells
<1>2. PICK c : c = CellOf(t, i)
  OBVIOUS
<1>3. Pixels(lit, c) = Font[ch]
  BY <1>1, <1>2 DEF Stands
<1>4. Shown(c) = Cell!Look(ch)
  BY <1>3, ShowsGlyph DEF Shown
<1>5. QED  BY <1>1, <1>2, <1>4 DEF CellOf

LEMMA DigitLook ==
  ASSUME NEW a \in 1..16
  PROVE  Cell!Look(hex_digits[a]) = hex_digits[a] /\ hex_digits[a] # Cell!BLANK
<1>1. hex_digits[a] \in DOMAIN Font
  BY DigitsAssumption
<1>2. hex_digits[a] # Cell!BLANK
  BY <1>1, GlyphAssumption DEF Cell!GlyphAssumption
<1>3. QED  BY <1>2, DigitsDistinct DEF Cell!Look

LEMMA RipReads ==
  ASSUME NEW a \in Addresses, Stands(lit, RipText(a))
  PROVE  Reads(a, Layout.rip.x + 2, Layout.rip.y, HexDigits, 16)
<1>1. PICK x \in Nat, y \in Nat, D \in Nat : x = Layout.rip.x /\ y = Layout.rip.y /\ D = HexDigits
  BY LayoutAssumption, DigitsAssumption
<1>2. a \in Nat /\ shifted(a, D)[D] = 0
  BY <1>1, DigitsAssumption
<1>3. PICK str : str = utoa_hex(a, HexDigits)
  OBVIOUS
<1>4. /\ str \in Seq(DOMAIN Font) /\ Len(str) = D + 2
      /\ \A k \in 1..D : str[k + 2] = hex_digits[(shifted(a, D)[D - k] % 16) + 1]
  <2>1. /\ str \in Seq(DOMAIN Font) /\ Len(str) = HexDigits + 2
        /\ \A k \in 1..HexDigits :
             str[k + 2] = hex_digits[(shifted(a, HexDigits)[HexDigits - k] % 16) + 1]
    BY <1>2, <1>3, HexText
  <2>2. QED  BY <1>1, <2>1
<1>5. PICK digit : digit = [ k \in 1..D |-> shifted(a, D)[D - k] % 16 ]
  OBVIOUS
<1>6. /\ digit \in [1..D -> 0..15]
      /\ \E f \in [0..D -> Nat] : IsRead(f, digit, D, 16) /\ f[D] = a
  BY <1>2, <1>5, HexIsRead
<1>7. ASSUME NEW k \in 1..D
      PROVE  Shown(<<x + 2 + k - 1, y * 16>>) = hex_digits[digit[k] + 1]
  <2>1. PICK i : i = k + 2
    OBVIOUS
  <2>2. i \in 1..(D + 2) /\ x + 2 + k - 1 = x + i - 1
    BY <2>1
  <2>3. PICK t : t = RipText(a)
    OBVIOUS
  <2>4. IsText(t) /\ Stands(lit, t) /\ t.str = str /\ t.x = x /\ t.y = y
    BY <1>1, <1>3, <2>3, RipIsText DEF RipText
  <2>5. i \in DOMAIN t.str
    BY <1>4, <2>2, <2>4
  <2>6. OnScreen(x + i - 1, y)
    <3>1. <<x + i - 1, y>> \in RipSpan
      BY <1>1, <2>2 DEF RipSpan
    <3>2. QED  BY <3>1, LayoutAssumption
  <2>7. Shown(<<x + i - 1, y * 16>>) = Cell!Look(str[i])
    BY <2>4, <2>5, <2>6, StandsShown
  <2>8. str[i] = hex_digits[digit[k] + 1]
    BY <1>4, <1>5, <2>1
  <2>9. digit[k] + 1 \in 1..16
    <3>1. PICK d \in 0..15 : d = digit[k]
      BY <1>6
    <3>2. d + 1 \in 1..16
      OBVIOUS
    <3>3. QED  BY <3>1, <3>2
  <2>10. QED  BY <2>2, <2>7, <2>8, <2>9, DigitLook
<1>8. PICK z \in Nat, base \in 1..16 : z = x + 2 /\ base = 16
  OBVIOUS
<1>9. digit \in [1..D -> 0..(base - 1)] /\ base - 1 = 15
  BY <1>6, <1>8
<1>10. ShowsDigits(digit, D, z, y)
  BY <1>7, <1>8 DEF ShowsDigits
<1>11. PICK f \in [0..D -> Nat] : IsRead(f, digit, D, base) /\ f[D] = a
  BY <1>6, <1>8
<1>12. Reads(a, z, y, D, base)
  BY <1>9, <1>10, <1>11, ReadsIs
<1>13. QED  BY <1>1, <1>8, <1>12

\* One digit and a blank, or two digits.
LEMMA SecondsRead ==
  ASSUME NEW w \in 1..15, Counted(lit, w),
         NEW x \in Nat, NEW y \in Nat, x = Layout.seconds.x, y = Layout.seconds.y
  PROVE  Reads(w, x, y, IF Shown(<<x + 1, y * 16>>) = "blank" THEN 1 ELSE 2, 10)
<1>1. PICK base \in 1..16 : base = 10
  OBVIOUS
<1>2. OnScreen(x, y) /\ OnScreen(x + 1, y)
  <2>1. /\ 1 \in 1..2 /\ 2 \in 1..2 /\ x + 1 - 1 = x /\ x + 2 - 1 = x + 1
    OBVIOUS
  <2>2. <<x + 1 - 1, y>> \in SecondsSpan /\ <<x + 2 - 1, y>> \in SecondsSpan
    BY <2>1 DEF SecondsSpan
  <2>3. OnScreen(x + 1 - 1, y) /\ OnScreen(x + 2 - 1, y)
    BY <2>2, LayoutAssumption
  <2>4. QED  BY <2>1, <2>3
<1>3. PICK t : t = NumberText(w)
  OBVIOUS
<1>4. /\ IsText(t) /\ Stands(lit, t) /\ t.str = Decimal(w) /\ t.x = x /\ t.y = y
  BY <1>3, SecondsAreTexts, SecondsText DEF Counted, NumberText
<1>5. /\ Decimal(w) \in Seq(DOMAIN Font)
      /\ w <= 9 => Len(Decimal(w)) = 1 /\ Decimal(w)[1] = hex_digits[w + 1]
      /\ w > 9 => /\ Len(Decimal(w)) = 2 /\ Decimal(w)[1] = hex_digits[2]
                  /\ Decimal(w)[2] = hex_digits[w - 9]
  BY DecimalIs
<1>6. CASE w <= 9
  <2>1. Shown(<<x + 1, y * 16>>) = "blank"
    <3>1. PICK u : u = BlankText
      OBVIOUS
    <3>2. PICK str : str = <<Cell!Space>>
      OBVIOUS
    <3>3. 1 \in DOMAIN str /\ str[1] = Cell!Space
      BY <3>2
    <3>4. /\ IsText(u) /\ Stands(lit, u) /\ u.str = str /\ u.x = x + 1 /\ u.y = y
      BY <1>6, <3>1, <3>2, SecondsAreTexts DEF Counted, BlankText
    <3>5. x + 1 + 1 - 1 = x + 1
      OBVIOUS
    <3>6. OnScreen(u.x + 1 - 1, u.y)
      BY <1>2, <3>4, <3>5
    <3>7. Shown(<<u.x + 1 - 1, u.y * 16>>) = Cell!Look(Cell!Space)
      BY <3>3, <3>4, <3>6, StandsShown
    <3>8. QED  BY <3>4, <3>5, <3>7 DEF Cell!Look, Cell!BLANK
  <2>2. Shown(<<x, y * 16>>) = hex_digits[w + 1]
    <3>1. 1 \in DOMAIN t.str /\ t.str[1] = hex_digits[w + 1]
      BY <1>4, <1>5, <1>6
    <3>2. x + 1 - 1 = x
      OBVIOUS
    <3>3. OnScreen(t.x + 1 - 1, t.y)
      BY <1>2, <1>4, <3>2
    <3>4. Shown(<<t.x + 1 - 1, t.y * 16>>) = Cell!Look(hex_digits[w + 1])
      BY <1>4, <3>1, <3>3, StandsShown
    <3>5. w + 1 \in 1..16
      OBVIOUS
    <3>6. QED  BY <1>4, <3>2, <3>4, <3>5, DigitLook
  <2>3. PICK N \in Nat : N = 1
    OBVIOUS
  <2>4. PICK digit : digit = [ k \in 1..N |-> w ]
    OBVIOUS
  <2>5. PICK f : f = [ k \in 0..N |-> IF k = 0 THEN 0 ELSE w ]
    OBVIOUS
  <2>6. digit \in [1..N -> 0..(base - 1)]
    BY <1>1, <1>6, <2>4
  <2>7. f \in [0..N -> Nat] /\ f[N] = w
    BY <2>3, <2>5
  <2>8. IsRead(f, digit, N, base)
    BY <2>3, <2>4, <2>5 DEF IsRead
  <2>9. ShowsDigits(digit, N, x, y)
    <3>1. ASSUME NEW k \in 1..N
          PROVE  Shown(<<x + k - 1, y * 16>>) = hex_digits[digit[k] + 1]
      <4>1. x + k - 1 = x /\ digit[k] = w
        BY <2>3, <2>4
      <4>2. QED  BY <2>2, <4>1
    <3>2. QED  BY <3>1 DEF ShowsDigits
  <2>10. Reads(w, x, y, N, base)
    BY <2>6, <2>7, <2>8, <2>9, ReadsIs
  <2>11. QED  BY <1>1, <2>1, <2>3, <2>10
<1>7. CASE ~(w <= 9)
  <2>1. /\ 1 \in DOMAIN t.str /\ t.str[1] = hex_digits[2]
        /\ 2 \in DOMAIN t.str /\ t.str[2] = hex_digits[w - 9]
    BY <1>4, <1>5, <1>7
  <2>2. /\ x + 1 - 1 = x /\ x + 2 - 1 = x + 1 /\ 2 \in 1..16 /\ w - 9 \in 1..16
    BY <1>7
  <2>3. Shown(<<x, y * 16>>) = hex_digits[2]
    <3>1. Shown(<<t.x + 1 - 1, t.y * 16>>) = Cell!Look(hex_digits[2])
      BY <1>2, <1>4, <2>1, <2>2, StandsShown
    <3>2. QED  BY <1>4, <2>2, <3>1, DigitLook
  <2>4. Shown(<<x + 1, y * 16>>) = hex_digits[w - 9]
    <3>1. Shown(<<t.x + 2 - 1, t.y * 16>>) = Cell!Look(hex_digits[w - 9])
      BY <1>2, <1>4, <2>1, <2>2, StandsShown
    <3>2. QED  BY <1>4, <2>2, <3>1, DigitLook
  <2>5. Shown(<<x + 1, y * 16>>) # "blank"
    BY <2>2, <2>4, DigitLook DEF Cell!BLANK
  <2>6. PICK N \in Nat : N = 2
    OBVIOUS
  <2>7. PICK digit : digit = [ k \in 1..N |-> IF k = 1 THEN 1 ELSE w - 10 ]
    OBVIOUS
  <2>8. PICK f : f = [ k \in 0..N |-> IF k = 0 THEN 0 ELSE IF k = 1 THEN 1 ELSE w ]
    OBVIOUS
  <2>9. digit \in [1..N -> 0..(base - 1)]
    BY <1>1, <1>7, <2>7
  <2>10. f \in [0..N -> Nat] /\ f[N] = w
    BY <2>6, <2>8
  <2>11. IsRead(f, digit, N, base)
    <3>1. f[0] = 0 /\ f[1] = 1 /\ f[2] = w /\ digit[1] = 1 /\ digit[2] = w - 10
      BY <2>6, <2>7, <2>8
    <3>2. ASSUME NEW k \in 1..N
          PROVE  f[k] = f[k - 1] * base + digit[k]
      <4>1. k = 1 \/ k = 2
        BY <2>6
      <4>2. QED  BY <1>1, <3>1, <4>1
    <3>3. QED  BY <3>1, <3>2 DEF IsRead
  <2>12. ShowsDigits(digit, N, x, y)
    <3>1. ASSUME NEW k \in 1..N
          PROVE  Shown(<<x + k - 1, y * 16>>) = hex_digits[digit[k] + 1]
      <4>1. CASE k = 1
        <5>1. digit[k] + 1 = 2 /\ x + k - 1 = x
          BY <2>7, <4>1
        <5>2. QED  BY <2>3, <5>1
      <4>2. CASE k = 2
        <5>1. digit[k] + 1 = w - 9 /\ x + k - 1 = x + 1
          BY <2>6, <2>7, <4>2
        <5>2. QED  BY <2>4, <5>1
      <4>3. QED  BY <2>6, <4>1, <4>2
    <3>2. QED  BY <3>1 DEF ShowsDigits
  <2>13. Reads(w, x, y, N, base)
    BY <2>9, <2>10, <2>11, <2>12, ReadsIs
  <2>14. QED  BY <1>1, <2>5, <2>6, <2>13
<1>8. QED  BY <1>6, <1>7

\* While rsod sleeps, the screen says how many seconds are left and where the
\* crash was, and every text that has room stands there, whatever the console
\* had drawn, on framebuffers of any pitch.
THEOREM CrashReadable == Spec => []CrashShown
<1>1. CrashInv => CrashShown
  <2>1. SUFFICES ASSUME CrashInv, at = "sleep"
                 PROVE  CrashShown
    BY DEF CrashShown
  <2>2. PICK w \in 1..15, a \in Addresses :
          w = wait_secs /\ a = rip /\ Laid(lit, a) /\ Counted(lit, w)
    BY <2>1 DEF CrashInv
  <2>3. PICK x \in Nat, y \in Nat : x = Layout.seconds.x /\ y = Layout.seconds.y
    BY LayoutAssumption
  <2>4. Reads(w, x, y, IF Shown(<<x + 1, y * 16>>) = "blank" THEN 1 ELSE 2, 10)
    BY <2>2, <2>3, SecondsRead
  <2>5. Reads(a, Layout.rip.x + 2, Layout.rip.y, HexDigits, 16)
    BY <2>2, RipReads DEF Laid
  <2>6. ASSUME NEW n \in DOMAIN Standing, NEW i \in DOMAIN Standing[n].str,
               OnScreen(Standing[n].x + i - 1, Standing[n].y)
        PROVE  Shown(<<Standing[n].x + i - 1, Standing[n].y * 16>>)
                 = Cell!Look(Standing[n].str[i])
    <3>1. IsText(Standing[n]) /\ Stands(lit, Standing[n])
      BY <2>2, StandingIs DEF Laid, Counted
    <3>2. QED  BY <2>6, <3>1, StandsShown
  <2>7. QED  BY <2>1, <2>2, <2>3, <2>4, <2>5, <2>6 DEF CrashShown
<1>2. Init => CrashInv
  BY CrashStart
<1>3. CrashInv /\ [Next]_vars => CrashInv'
  BY CrashKept
<1>4. QED  BY <1>1, <1>2, <1>3, PTL DEF Spec
=============================================================================
