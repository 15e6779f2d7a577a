------------------------------- MODULE Screen -------------------------------
(***************************************************************************)
(* kernel/drivers/screen.c: a text console drawn straight into the         *)
(* framebuffer.  It never scrolls and never reads back what it drew: a     *)
(* glyph's set pixels are added to what is there (put_char), so text stays *)
(* readable only because nothing is drawn where something already is.      *)
(*                                                                         *)
(* The picture is a function from character cells to what they show;       *)
(* colours are left out.  cursor_x counts columns and cursor_y pixel rows, *)
(* as in the code.  Only the main thread prints: kprint and kprint_char    *)
(* share KprintChar, the body they apply to each character.                *)
(***************************************************************************)
EXTENDS Integers, Sequences

CONSTANTS
  Width, Height,  \* target_fb->width, target_fb->height
  Glyphs          \* the characters that have a visible glyph


VARIABLES cursor_x, cursor_y, cell

screen == <<cursor_x, cursor_y, cell>>

Newline == "\n"
BackspaceKey == "BS"
Space == " "
BLANK == "blank"
MIXED == "mixed"  \* two glyphs on top of each other

ASSUME SizeAssumption == Width \in Nat \ {0} /\ Height \in Nat
ASSUME GlyphAssumption ==
  Space \in Glyphs /\ Glyphs \cap {BLANK, MIXED, Newline, BackspaceKey} = {}

\* What kprint can be given.
Printed == Glyphs \cup {Newline, BackspaceKey}

\* The columns a glyph can start in, the rows with room for one, the cells.
Cols == (Width + 7) \div 8
Columns == 0..(Cols - 1)
Rows == { y \in 0..Height : y % 16 = 0 /\ y + 16 <= Height }
Cells == Columns \X Rows

\* put_char and the fill loop of backspace.
Look(ch) == IF ch = Space THEN BLANK ELSE ch
Strike(old, ch) == IF Look(ch) = BLANK THEN old
                   ELSE IF old \in {BLANK, ch} THEN ch ELSE MIXED

\* A backspace that steps back without erasing the glyph.
BackspaceUnerased == /\ cursor_x' = IF cursor_x > 0 THEN cursor_x - 1 ELSE 0
                     /\ UNCHANGED <<cursor_y, cell>>

Backspace ==
  \/ cursor_x = 0 /\ UNCHANGED screen
  \/ /\ cursor_x > 0
     /\ cursor_x' = cursor_x - 1
     /\ cell' = [cell EXCEPT ![<<cursor_x - 1, cursor_y>>] = BLANK]
     /\ UNCHANGED cursor_y

NewLine == cursor_x' = 0 /\ cursor_y' = cursor_y + 16 /\ UNCHANGED cell

\* Where the next glyph goes: a full row is left only when one is due.
RowFull == cursor_x * 8 >= Width
NextX == IF RowFull THEN 0 ELSE cursor_x
NextY == IF RowFull THEN cursor_y + 16 ELSE cursor_y

PutGlyphBlind(ch) ==
  /\ cursor_x' = NextX + 1
  /\ cursor_y' = NextY
  /\ cell' = IF NextY + 16 <= Height
             THEN [cell EXCEPT ![<<NextX, NextY>>] = Strike(@, ch)] ELSE cell

\* Below the last row the glyph is dropped and the column stays.
PutGlyph(ch) ==
  /\ cursor_y' = NextY
  /\ \/ /\ NextY + 16 <= Height
        /\ cell' = [cell EXCEPT ![<<NextX, NextY>>] = Strike(@, ch)]
        /\ cursor_x' = NextX + 1
     \/ /\ NextY + 16 > Height
        /\ cursor_x' = NextX
        /\ UNCHANGED cell

KprintChar(ch) ==
  \/ ch = BackspaceKey /\ Backspace
  \/ ch = Newline /\ NewLine
  \/ ch \notin {BackspaceKey, Newline} /\ PutGlyph(ch)

\* clear with the background colour
Clear == cursor_x' = 0 /\ cursor_y' = 0 /\ cell' = [p \in Cells |-> BLANK]

\* kmain clears the screen before anything is printed.
ScreenInit == cursor_x = 0 /\ cursor_y = 0 /\ cell = [p \in Cells |-> BLANK]

-----------------------------------------------------------------------------
ScreenTypeOK ==
  /\ cursor_x \in 0..Cols
  /\ cursor_y \in Nat /\ cursor_y % 16 = 0
  /\ cell \in [Cells -> Glyphs \cup {BLANK, MIXED}]

\* Nothing is drawn at the cursor or after it in reading order, although the
\* cursor also moves back (backspace) and text is never scrolled away.
FrontierBlank ==
  \A p \in Cells :
    p[2] > cursor_y \/ (p[2] = cursor_y /\ p[1] >= cursor_x) => cell[p] = BLANK

\* So no glyph is ever drawn over another one: kprint's transparent glyphs
\* stay readable.
NoOverstrike == \A p \in Cells : cell[p] # MIXED

\* Once the cursor is below the last row it is in column 0, and backspace
\* leaves it there: text that was not drawn cannot be erased from the rows
\* that are shown.
OffscreenAtZero == cursor_y + 16 > Height => cursor_x = 0
=============================================================================
