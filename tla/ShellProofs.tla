---------------------------- MODULE ShellProofs ----------------------------
(***************************************************************************)
(* Proofs about Shell, for every size of the screen and of the buffer,     *)
(* every set of keys, commands and texts: type correctness, that the text  *)
(* on the screen stays readable, and that what runs is the line as edited. *)
(***************************************************************************)
EXTENDS Shell, SequenceTheorems, WellFoundedInduction, TLAPS

-----------------------------------------------------------------------------
(* The console: what printing and clearing preserve, for any client of     *)
(* Screen.                                                                 *)

\* A row is full exactly when the cursor is past the last column.
LEMMA Columns8 ==
  /\ Cols \in Nat \ {0}
  /\ \A x \in Nat : x * 8 >= Width <=> x >= Cols
BY SizeAssumption DEF Cols

\* The invariant of the console.
Readable == ScreenTypeOK /\ FrontierBlank /\ NoOverstrike /\ OffscreenAtZero

\* FrontierBlank, cell by cell.
LEMMA Frontier ==
  ASSUME FrontierBlank, NEW x \in Columns, NEW y \in Rows,
         y > cursor_y \/ (y = cursor_y /\ x >= cursor_x)
  PROVE  cell[<<x, y>>] = BLANK
BY DEF FrontierBlank, Cells

\* backspace keeps the console readable.
LEMMA BackspaceReadable ==
  ASSUME Readable, Backspace
  PROVE  Readable'
<1>1. CASE cursor_x = 0 /\ UNCHANGED screen
  BY <1>1 DEF Readable, screen, ScreenTypeOK, FrontierBlank, NoOverstrike,
              OffscreenAtZero
<1>2. CASE /\ cursor_x > 0 /\ cursor_x' = cursor_x - 1 /\ cursor_y' = cursor_y
           /\ cell' = [cell EXCEPT ![<<cursor_x - 1, cursor_y>>] = BLANK]
  <2>1. /\ cursor_x' = cursor_x - 1 /\ cursor_y' = cursor_y
        /\ cell' = [cell EXCEPT ![<<cursor_x - 1, cursor_y>>] = BLANK]
    BY <1>2
  <2>2. cursor_x \in 1..Cols /\ cursor_y \in Nat /\ cursor_y % 16 = 0
    BY <1>2, Columns8 DEF Readable, ScreenTypeOK
  <2>3. cell \in [Cells -> Glyphs \cup {BLANK, MIXED}]
    BY DEF Readable, ScreenTypeOK
  <2>4. cell' \in [Cells -> Glyphs \cup {BLANK, MIXED}]
    BY <2>1, <2>3
  <2>5. ScreenTypeOK'
    BY <2>1, <2>2, <2>4, Columns8 DEF ScreenTypeOK
  <2>6. ASSUME NEW x \in Columns, NEW y \in Rows,
               y > cursor_y' \/ (y = cursor_y' /\ x >= cursor_x')
        PROVE  cell'[<<x, y>>] = BLANK
    <3>1. <<x, y>> \in Cells
      BY DEF Cells
    <3>2. CASE x = cursor_x - 1 /\ y = cursor_y
      BY <3>1, <3>2, <2>1, <2>3
    <3>3. CASE ~(x = cursor_x - 1 /\ y = cursor_y)
      <4>1. cell'[<<x, y>>] = cell[<<x, y>>]
        BY <3>1, <3>3, <2>1, <2>3
      <4>2. x \in Nat /\ y \in Nat
        BY DEF Columns, Rows
      <4>3. y > cursor_y \/ (y = cursor_y /\ x >= cursor_x)
        BY <2>6, <2>1, <2>2, <3>3, <4>2
      <4>4. QED  BY <4>1, <4>3, Frontier DEF Readable
    <3>4. QED  BY <3>2, <3>3
  <2>7. FrontierBlank'
    BY <2>6 DEF FrontierBlank, Cells
  <2>8. NoOverstrike'
    BY <2>1, <2>3 DEF Readable, NoOverstrike, BLANK, MIXED
  <2>9. OffscreenAtZero'
    BY <2>1, <1>2 DEF Readable, OffscreenAtZero
  <2>10. QED  BY <2>5, <2>7, <2>8, <2>9 DEF Readable
<1>3. QED  BY <1>1, <1>2 DEF Backspace

\* A line feed keeps the console readable.
LEMMA NewLineReadable ==
  ASSUME Readable, NewLine
  PROVE  Readable'
<1>1. cursor_x' = 0 /\ cursor_y' = cursor_y + 16 /\ cell' = cell
  BY DEF NewLine
<1>2. cursor_y \in Nat /\ cursor_y % 16 = 0 /\ cursor_x \in Nat
  BY Columns8 DEF Readable, ScreenTypeOK
<1>3. ScreenTypeOK'
  BY <1>1, <1>2, Columns8 DEF Readable, ScreenTypeOK
<1>4. FrontierBlank'
  <2> SUFFICES ASSUME NEW x \in Columns, NEW y \in Rows,
                      y > cursor_y' \/ (y = cursor_y' /\ x >= cursor_x')
               PROVE  cell[<<x, y>>] = BLANK
    BY <1>1 DEF FrontierBlank, Cells
  <2>1. y > cursor_y
    BY <1>1, <1>2 DEF Rows
  <2>2. QED  BY <2>1, Frontier DEF Readable
<1>5. QED
  BY <1>1, <1>3, <1>4 DEF Readable, NoOverstrike, OffscreenAtZero

\* A glyph keeps the console readable.
LEMMA PutGlyphReadable ==
  ASSUME Readable, NEW ch \in Glyphs, PutGlyph(ch)
  PROVE  Readable'
<1>1. /\ cursor_x \in 0..Cols /\ cursor_y \in Nat /\ cursor_y % 16 = 0
      /\ Cols \in Nat \ {0}
      /\ cell \in [Cells -> Glyphs \cup {BLANK, MIXED}]
  BY Columns8 DEF Readable, ScreenTypeOK
<1>2. /\ NextX \in Columns
      /\ \/ NextX = 0 /\ NextY = cursor_y + 16
         \/ NextX = cursor_x /\ NextY = cursor_y
  BY <1>1, Columns8 DEF NextX, NextY, RowFull, Columns
<1>3. NextY \in Nat /\ NextY % 16 = 0 /\ NextX \in Nat /\ NextX + 1 \in 0..Cols
  BY <1>1, <1>2 DEF Columns
<1>4. cursor_y' = NextY
  BY DEF PutGlyph
<1>5. \A x \in Columns, y \in Rows :
        y > NextY \/ (y = NextY /\ x >= NextX) => cell[<<x, y>>] = BLANK
  <2> SUFFICES ASSUME NEW x \in Columns, NEW y \in Rows,
                      y > NextY \/ (y = NextY /\ x >= NextX)
               PROVE  cell[<<x, y>>] = BLANK
    OBVIOUS
  <2>1. y > cursor_y \/ (y = cursor_y /\ x >= cursor_x)
    BY <1>1, <1>2 DEF Rows, Columns
  <2>2. QED  BY <2>1, Frontier DEF Readable
<1>6. CASE NextY + 16 <= Height /\ cursor_x' = NextX + 1
           /\ cell' = [cell EXCEPT ![<<NextX, NextY>>] = Strike(@, ch)]
  <2>1. NextY \in Rows
    BY <1>3, <1>6, SizeAssumption DEF Rows
  <2>2. <<NextX, NextY>> \in Cells /\ cell[<<NextX, NextY>>] = BLANK
    BY <1>2, <1>3, <1>5, <2>1 DEF Cells
  <2>3. Strike(BLANK, ch) \in Glyphs \cup {BLANK} /\ MIXED \notin Glyphs
    BY GlyphAssumption DEF Strike, Look
  <2>4. cell' = [cell EXCEPT ![<<NextX, NextY>>] = Strike(BLANK, ch)]
    BY <1>6, <2>2
  <2> DEFINE new == Strike(BLANK, ch)
  <2> HIDE DEF new
  <2>5. cell' \in [Cells -> Glyphs \cup {BLANK, MIXED}]
    BY <1>1, <2>3, <2>4 DEF new
  <2>6. ScreenTypeOK'
    BY <1>3, <1>4, <1>6, <2>5 DEF ScreenTypeOK
  <2>7. FrontierBlank'
    <3> SUFFICES ASSUME NEW x \in Columns, NEW y \in Rows,
                        y > cursor_y' \/ (y = cursor_y' /\ x >= cursor_x')
                 PROVE  cell'[<<x, y>>] = BLANK
      BY DEF FrontierBlank, Cells
    <3>1. y > NextY \/ (y = NextY /\ x >= NextX + 1)
      BY <1>4, <1>6
    <3>2. <<x, y>> # <<NextX, NextY>> /\ (y > NextY \/ (y = NextY /\ x >= NextX))
      BY <1>3, <3>1 DEF Columns, Rows
    <3>3. <<x, y>> \in Cells
      BY DEF Cells
    <3>4. cell'[<<x, y>>] = cell[<<x, y>>]
      BY <1>1, <2>4, <3>2, <3>3
    <3>5. QED  BY <1>5, <3>2, <3>4
  <2>8. NoOverstrike'
    <3>1. new # MIXED
      BY <2>3 DEF new, BLANK, MIXED
    <3>2. \A p \in Cells : cell'[p] = new \/ cell'[p] = cell[p]
      BY <1>1, <2>4 DEF new
    <3>3. QED  BY <3>1, <3>2 DEF Readable, NoOverstrike
  <2>9. OffscreenAtZero'
    BY <1>3, <1>4, <1>6, SizeAssumption DEF OffscreenAtZero
  <2>10. QED  BY <2>6, <2>7, <2>8, <2>9 DEF Readable
<1>7. CASE NextY + 16 > Height /\ cursor_x' = NextX /\ cell' = cell
  <2>1. ScreenTypeOK'
    BY <1>1, <1>2, <1>3, <1>4, <1>7 DEF ScreenTypeOK, Columns
  <2>2. FrontierBlank'
    BY <1>4, <1>5, <1>7 DEF FrontierBlank, Cells
  <2>3. NextX = 0
    BY <1>2, <1>7 DEF Readable, OffscreenAtZero
  <2>4. QED
    BY <1>7, <2>1, <2>2, <2>3 DEF Readable, NoOverstrike, OffscreenAtZero
<1>8. QED  BY <1>6, <1>7 DEF PutGlyph

\* Where a glyph goes and what it leaves: it is drawn on a blank cell at the
\* cursor, or at the start of the next row, or it is dropped.
LEMMA GlyphDrawn ==
  ASSUME Readable, NEW ch \in Glyphs, PutGlyph(ch)
  PROVE  /\ cursor_y' = NextY
         /\ \/ NextX = cursor_x /\ NextY = cursor_y /\ cursor_x \in Columns
            \/ NextX = 0 /\ NextY = cursor_y + 16 /\ cursor_x = Cols
         /\ \/ /\ <<NextX, NextY>> \in Cells /\ cursor_x' = NextX + 1
               /\ cell' = [cell EXCEPT ![<<NextX, NextY>>] = Look(ch)]
            \/ cursor_y' \notin Rows /\ cursor_x' = 0 /\ cell' = cell
<1>1. /\ cursor_x \in 0..Cols /\ cursor_y \in Nat /\ cursor_y % 16 = 0
      /\ Cols \in Nat \ {0}
  BY Columns8 DEF Readable, ScreenTypeOK
<1>2. \/ NextX = cursor_x /\ NextY = cursor_y /\ cursor_x \in Columns
      \/ NextX = 0 /\ NextY = cursor_y + 16 /\ cursor_x = Cols
  BY <1>1, Columns8 DEF NextX, NextY, RowFull, Columns
<1>3. cursor_y' = NextY /\ NextY \in Nat /\ NextY % 16 = 0 /\ NextX \in Columns
  BY <1>1, <1>2 DEF PutGlyph, Columns
<1>4. CASE NextY + 16 <= Height /\ cursor_x' = NextX + 1
           /\ cell' = [cell EXCEPT ![<<NextX, NextY>>] = Strike(@, ch)]
  <2>1. NextY \in Rows
    BY <1>3, <1>4, SizeAssumption DEF Rows
  <2>2. cell[<<NextX, NextY>>] = BLANK
    <3>1. NextY > cursor_y \/ (NextY = cursor_y /\ NextX >= cursor_x)
      BY <1>1, <1>2
    <3>2. QED  BY <1>3, <2>1, <3>1, Frontier DEF Readable
  <2>3. Strike(BLANK, ch) = Look(ch)
    BY GlyphAssumption DEF Strike, Look
  <2>4. cell' = [cell EXCEPT ![<<NextX, NextY>>] = Strike(BLANK, ch)]
    BY <1>4, <2>2
  <2>5. QED  BY <1>2, <1>3, <1>4, <2>1, <2>3, <2>4 DEF Cells
<1>5. CASE NextY + 16 > Height /\ cursor_x' = NextX /\ cell' = cell
  <2>1. cursor_y' \notin Rows
    <3>1. ~(cursor_y' + 16 <= Height)
      BY <1>3, <1>5, SizeAssumption
    <3>2. QED  BY <3>1 DEF Rows
  <2>2. NextX = 0
    BY <1>2, <1>5 DEF Readable, OffscreenAtZero
  <2>3. QED  BY <1>2, <1>3, <1>5, <2>1, <2>2
<1>6. QED  BY <1>4, <1>5 DEF PutGlyph

\* kprint_char, and so kprint, keeps the console readable.
THEOREM KprintReadable ==
  ASSUME Readable, NEW ch \in Printed, KprintChar(ch)
  PROVE  Readable'
<1>1. CASE Backspace
  BY <1>1, BackspaceReadable
<1>2. CASE NewLine
  BY <1>2, NewLineReadable
<1>3. CASE ch \in Glyphs /\ PutGlyph(ch)
  BY <1>3, PutGlyphReadable
<1>4. QED  BY <1>1, <1>2, <1>3 DEF KprintChar, Printed

\* So does clear, whatever was on the screen; and a screen is born readable.
THEOREM ClearReadable ==
  ASSUME Clear
  PROVE  Readable'
<1>1. cursor_x' = 0 /\ cursor_y' = 0 /\ cell' = [p \in Cells |-> BLANK]
  BY DEF Clear
<1>2. BLANK # MIXED
  BY DEF BLANK, MIXED
<1>3. ScreenTypeOK'
  BY <1>1, Columns8 DEF ScreenTypeOK
<1>4. FrontierBlank' /\ NoOverstrike' /\ OffscreenAtZero'
  BY <1>1, <1>2 DEF FrontierBlank, NoOverstrike, OffscreenAtZero
<1>5. QED  BY <1>3, <1>4 DEF Readable

LEMMA InitReadable ==
  ASSUME ScreenInit
  PROVE  Readable
<1>1. cursor_x = 0 /\ cursor_y = 0 /\ cell = [p \in Cells |-> BLANK]
  BY DEF ScreenInit
<1>2. BLANK # MIXED
  BY DEF BLANK, MIXED
<1>3. ScreenTypeOK
  BY <1>1, Columns8 DEF ScreenTypeOK
<1>4. FrontierBlank /\ NoOverstrike /\ OffscreenAtZero
  BY <1>1, <1>2 DEF FrontierBlank, NoOverstrike, OffscreenAtZero
<1>5. QED  BY <1>3, <1>4 DEF Readable

-----------------------------------------------------------------------------
(* The least counterexample.                                              *)

\* A set of natural numbers that is not empty has a least element.
LEMMA Least ==
  ASSUME NEW T, T \subseteq Nat, T # {}
  PROVE  \E x \in T : \A y \in T : x <= y
<1> DEFINE R == OpToRel(<, Nat)
<1>1. IsWellFoundedOn(R, Nat)
  BY NatLessThanWellFounded
<1>2. PICK x \in T : \A y \in T : ~(<<y, x>> \in R)
  <2> HIDE DEF R
  <2> QED  BY <1>1, WFMin
<1>3. \A y \in T : ~(y < x)
  BY <1>2 DEF OpToRel
<1>4. QED  BY <1>3

-----------------------------------------------------------------------------
(* C strings.                                                              *)

\* The first NUL ends the string.
LEMMA StringEndIs ==
  ASSUME NEW buf, NEW n \in Index, NEW from \in 0..n,
         buf[n] = NUL, \A j \in from..(n - 1) : buf[j] # NUL
  PROVE  StringEnd(buf, from) = n
<1>1. n \in Nat /\ MaxLen \in Nat /\ n < MaxLen /\ from \in Nat
  BY MaxLenAssumption DEF Index
<1> DEFINE P(k) == /\ k < MaxLen => buf[k] = NUL
                   /\ \A j \in from..(k - 1) : buf[j] # NUL
<1>2. n \in from..MaxLen /\ P(n)
  BY <1>1
<1>3. ASSUME NEW k \in from..MaxLen, P(k)
      PROVE  k = n
  <2>1. ~(k < n)
    BY <1>1, <1>3
  <2>2. ~(n < k)
    BY <1>1, <1>3
  <2>3. QED  BY <1>1, <2>1, <2>2
<1>4. StringEnd(buf, from) = CHOOSE k \in from..MaxLen : P(k)
  BY DEF StringEnd
<1> HIDE DEF P
<1>5. QED  BY <1>2, <1>3, <1>4

LEMMA CStringIs ==
  ASSUME NEW buf, NEW n \in Index, NEW from \in 0..n,
         buf[n] = NUL, \A j \in from..(n - 1) : buf[j] # NUL
  PROVE  CString(buf, from) = [k \in 1..(n - from) |-> buf[from + k - 1]]
BY StringEndIs DEF CString

-----------------------------------------------------------------------------
(* What a complete line is cut into.                                       *)

LineReady == /\ pc = "parse"
             /\ input \in [Index -> Typed \cup Garbage \cup {NUL}]
             /\ i \in Index
             /\ LineHeld

NewInput == [k \in Index |-> IF k \in Cut(input) THEN NUL ELSE input[k]]

LEMMA LineFacts ==
  ASSUME LineReady
  PROVE  /\ i \in Nat /\ MaxLen \in Nat /\ i < MaxLen
         /\ input[i] = NUL
         /\ \A k \in 0..(i - 1) : input[k] \in Letters /\ input[k] # NUL
         /\ Cut(input) = { k \in 0..(i - 1) :
              input[k] = Space /\ \A j \in 0..(k - 1) : input[j] # Space }
<1>1. i \in Nat /\ MaxLen \in Nat /\ i < MaxLen
  BY MaxLenAssumption DEF LineReady, Index
<1>2. input[i] = NUL /\ \A k \in 0..(i - 1) : input[k] \in Letters
  BY DEF LineReady, LineHeld
<1>3. \A k \in 0..(i - 1) : input[k] # NUL
  BY <1>2, TypedAssumption DEF Letters
<1>4. StringEnd(input, 0) = i
  BY <1>1, <1>2, <1>3, StringEndIs DEF LineReady
<1>5. QED  BY <1>1, <1>2, <1>3, <1>4 DEF Cut

\* Without a space the whole line is the name.
LEMMA NoCut ==
  ASSUME LineReady, Cut(input) = {}
  PROVE  /\ CString(NewInput, 0) = [k \in 1..i |-> input[k - 1]]
         /\ \A k \in 0..(i - 1) : input[k] # Space
<1>1. CString(NewInput, 0) = [k \in 1..i |-> input[k - 1]]
  <2>1. NewInput = input
    BY DEF NewInput, LineReady
  <2>2. CString(input, 0) = [k \in 1..(i - 0) |-> input[0 + k - 1]]
    BY LineFacts, CStringIs DEF LineReady
  <2>3. [k \in 1..(i - 0) |-> input[0 + k - 1]] = [k \in 1..i |-> input[k - 1]]
    BY LineFacts
  <2>4. QED  BY <2>1, <2>2, <2>3
<1>2. \A k \in 0..(i - 1) : input[k] # Space
  <2> DEFINE T == { k \in 0..(i - 1) : input[k] = Space }
  <2>1. T = {}
    <3>1. SUFFICES ASSUME T # {} PROVE FALSE
      OBVIOUS
    <3>2. T \subseteq Nat
      BY LineFacts
    <3>3. PICK x \in T : \A y \in T : x <= y
      BY <3>1, <3>2, Least
    <3>4. x \in 0..(i - 1) /\ input[x] = Space
      BY <3>3
    <3>5. \A j \in 0..(x - 1) : input[j] # Space
      BY <3>3, <3>4, LineFacts
    <3>6. QED  BY <3>4, <3>5, LineFacts
  <2>2. QED  BY <2>1
<1>3. QED  BY <1>1, <1>2

\* With one, the name is what is before the first and the rest is args.
LEMMA OneCut ==
  ASSUME LineReady, NEW p \in Cut(input)
  PROVE  /\ p \in 0..(i - 1) /\ input[p] = Space
         /\ \A k \in 0..(p - 1) : input[k] # Space
         /\ CString(NewInput, 0) = [k \in 1..p |-> input[k - 1]]
         /\ CString(NewInput, p + 1) = [k \in 1..(i - p - 1) |-> input[p + k]]
<1>1. /\ p \in 0..(i - 1) /\ input[p] = Space
      /\ \A k \in 0..(p - 1) : input[k] # Space
  BY LineFacts
<1>2. i \in Nat /\ p \in Nat /\ MaxLen \in Nat /\ i < MaxLen /\ p < i
  BY <1>1, LineFacts
<1>3. \A k \in Cut(input) : k = p
  BY <1>1, <1>2, LineFacts
<1>4. \A k \in Index : NewInput[k] = IF k = p THEN NUL ELSE input[k]
  BY <1>3 DEF NewInput
<1>5. \A k \in 0..i : k \in Index
  BY <1>2 DEF Index
<1>6. NewInput[p] = NUL /\ NewInput[i] = NUL
  BY <1>2, <1>4, <1>5, LineFacts
<1>7. \A k \in 0..(i - 1) : k # p => NewInput[k] = input[k] /\ input[k] # NUL
  BY <1>2, <1>4, <1>5, LineFacts
<1>8. CString(NewInput, 0) = [k \in 1..p |-> input[k - 1]]
  <2>1. CString(NewInput, 0) = [k \in 1..(p - 0) |-> NewInput[0 + k - 1]]
    <3>1. p \in Index /\ 0 \in 0..p
      BY <1>2, <1>5
    <3>2. \A j \in 0..(p - 1) : NewInput[j] # NUL
      BY <1>2, <1>7
    <3>3. QED  BY <3>1, <3>2, <1>6, CStringIs
  <2>2. p - 0 = p /\ \A k \in 1..p : NewInput[0 + k - 1] = input[k - 1]
    BY <1>2, <1>7
  <2>3. QED  BY <2>1, <2>2
<1>9. CString(NewInput, p + 1) = [k \in 1..(i - p - 1) |-> input[p + k]]
  <2>1. p + 1 \in 0..i /\ i \in Index
    BY <1>2, <1>5
  <2>2. \A j \in (p + 1)..(i - 1) : NewInput[j] # NUL
    BY <1>2, <1>7
  <2>3. CString(NewInput, p + 1) =
          [k \in 1..(i - (p + 1)) |-> NewInput[p + 1 + k - 1]]
    <3> DEFINE q == p + 1
    <3> HIDE DEF q
    <3>1. q \in 0..i /\ i \in Index /\ \A j \in q..(i - 1) : NewInput[j] # NUL
      BY <2>1, <2>2 DEF q
    <3>2. CString(NewInput, q) = [k \in 1..(i - q) |-> NewInput[q + k - 1]]
      BY <3>1, <1>6, CStringIs
    <3>3. QED  BY <3>2 DEF q
  <2>4. i - (p + 1) = i - p - 1
    BY <1>2
  <2>5. \A k \in 1..(i - p - 1) : NewInput[p + 1 + k - 1] = input[p + k]
    BY <1>2, <1>7
  <2>6. QED  BY <2>3, <2>4, <2>5
<1>10. QED  BY <1>1, <1>8, <1>9

\* So the two parts are strings of letters.
LEMMA PartsAreStrings ==
  ASSUME LineReady
  PROVE  /\ CString(NewInput, 0) \in Seq(Letters)
         /\ Cut(input) # {} => CString(NewInput, Len(CString(NewInput, 0)) + 1)
                                 \in Seq(Letters)
<1>1. /\ i \in Nat /\ i < MaxLen
      /\ \A k \in 0..(i - 1) : input[k] \in Letters
  BY LineFacts
<1>2. CASE Cut(input) = {}
  <2>1. CString(NewInput, 0) = [k \in 1..i |-> input[k - 1]]
    BY <1>2, NoCut
  <2>2. [k \in 1..i |-> input[k - 1]] \in Seq(Letters)
    BY <1>1
  <2>3. QED  BY <1>2, <2>1, <2>2
<1>3. CASE Cut(input) # {}
  <2>1. PICK p : p \in Cut(input)
    BY <1>3
  <2>2. /\ p \in 0..(i - 1)
        /\ CString(NewInput, 0) = [k \in 1..p |-> input[k - 1]]
        /\ CString(NewInput, p + 1) = [k \in 1..(i - p - 1) |-> input[p + k]]
    BY <2>1, OneCut
  <2>3. /\ [k \in 1..p |-> input[k - 1]] \in Seq(Letters)
        /\ Len([k \in 1..p |-> input[k - 1]]) = p
    BY <1>1, <2>2
  <2>4. [k \in 1..(i - p - 1) |-> input[p + k]] \in Seq(Letters)
    BY <1>1, <2>2
  <2>5. QED  BY <2>2, <2>3, <2>4
<1>4. QED  BY <1>2, <1>3

-----------------------------------------------------------------------------
(* The inductive invariant and type correctness.                           *)

IInv == TypeOK /\ Readable /\ LineHeld

LEMMA LettersArePrinted ==
  /\ Letters \subseteq Glyphs /\ Letters \subseteq Typed /\ Glyphs \subseteq Printed
  /\ Newline \in Printed /\ BackspaceKey \in Printed
  /\ Prompt \in Seq(Printed)
<1>1. /\ Letters \subseteq Glyphs /\ Letters \subseteq Typed
      /\ Glyphs \subseteq Printed
      /\ Newline \in Printed /\ BackspaceKey \in Printed
  BY TypedAssumption DEF Letters, Printed
<1>2. ">" \in Printed /\ " " \in Printed
  BY <1>1, TextAssumption, GlyphAssumption DEF Space
<1>3. \A a, b \in Printed : <<a, b>> \in Seq(Printed)
  OBVIOUS
<1>4. Prompt \in Seq(Printed)
  BY <1>2, <1>3 DEF Prompt
<1>5. QED  BY <1>1, <1>4

\* Printing one character.
LEMMA StepKprint ==
  ASSUME IInv, KprintStep
  PROVE  IInv'
<1>1. /\ pc = "print" /\ out # <<>> /\ KprintChar(Head(out)) /\ out' = Tail(out)
      /\ pc' = pc /\ after' = after /\ input' = input /\ i' = i
      /\ start' = start /\ ran' = ran /\ keys' = keys
  BY DEF KprintStep
<1>2. out \in Seq(Printed)
  BY DEF IInv, TypeOK
<1>3. Head(out) \in Printed /\ Tail(out) \in Seq(Printed)
  BY <1>1, <1>2, HeadTailProperties
<1>4. Readable'
  BY <1>1, <1>3, KprintReadable DEF IInv
<1>5. LineHeld'
  BY <1>1 DEF LineHeld
<1>6. TypeOK'
  BY <1>1, <1>3, <1>4 DEF IInv, TypeOK, Readable
<1>7. QED  BY <1>4, <1>5, <1>6 DEF IInv

LEMMA UnchangedScreen ==
  ASSUME Readable, UNCHANGED screen
  PROVE  Readable'
BY DEF screen, Readable, ScreenTypeOK, FrontierBlank, NoOverstrike, OffscreenAtZero

\* The end of printing.
LEMMA StepDone ==
  ASSUME IInv, KprintDone
  PROVE  IInv'
<1>1. /\ pc = "print" /\ pc' = after /\ i' = 0
      /\ start' = <<cursor_x, cursor_y>> /\ UNCHANGED screen
      /\ after' = after /\ out' = out /\ input' = input /\ ran' = ran
      /\ keys' = keys
  BY DEF KprintDone
<1>2. Readable'
  BY <1>1, UnchangedScreen DEF IInv
<1>3. after \in {"read", "device", "halt"} /\ pc' \in {"read", "device", "halt"}
  BY <1>1 DEF IInv, TypeOK
<1>4. LineHeld'
  BY <1>1, <1>3 DEF LineHeld
<1>5. start' \in (0..Cols) \X Nat
  BY <1>1 DEF IInv, Readable, ScreenTypeOK
<1>6. i' \in Index
  BY <1>1, MaxLenAssumption DEF Index
<1>7. TypeOK'
  BY <1>1, <1>2, <1>3, <1>5, <1>6 DEF IInv, TypeOK, Readable
<1>8. QED  BY <1>2, <1>4, <1>7 DEF IInv

\* What the steps of readline have in common: the screen is printed on or
\* left alone, and the line is edited.
Edits(goal) ==
  /\ pc = "read" /\ pc' = goal
  /\ \/ \E ch \in Printed : KprintChar(ch)
     \/ UNCHANGED screen
  /\ after' = after /\ out' = out /\ start' = start /\ ran' = ran
  /\ keys' \in 0..MaxKeys

LEMMA KeyEdits ==
  ASSUME IInv, NEW ch, Key(ch)
  PROVE  /\ pc = "read" /\ ch \in Printed
         /\ after' = after /\ out' = out /\ start' = start /\ ran' = ran
         /\ keys' \in 0..MaxKeys
<1>1. keys \in 0..MaxKeys /\ keys < MaxKeys /\ keys' = keys + 1 /\ MaxKeys \in Nat
  BY MaxLenAssumption DEF Key, IInv, TypeOK
<1>2. keys' \in 0..MaxKeys
  BY <1>1
<1>3. QED  BY <1>2, TypedAssumption DEF Key

LEMMA StepEdits ==
  ASSUME IInv, NEW goal \in {"read", "parse"}, Edits(goal),
         input' \in [Index -> Typed \cup Garbage \cup {NUL}], i' \in Index,
         LineHeld'
  PROVE  IInv'
<1>1. Readable'
  BY KprintReadable, UnchangedScreen DEF IInv, Edits
<1>2. TypeOK'
  BY <1>1 DEF Edits, IInv, TypeOK, Readable
<1>3. QED  BY <1>1, <1>2 DEF IInv

LEMMA StepReadline ==
  ASSUME IInv, Readline
  PROVE  IInv'
<1>1. /\ input \in [Index -> Typed \cup Garbage \cup {NUL}]
      /\ i \in Index /\ i \in Nat /\ MaxLen \in Nat /\ i < MaxLen
  BY MaxLenAssumption DEF IInv, TypeOK, Index
<1>2. CASE Enter
  <2>1. /\ pc = "read" /\ pc' = "parse" /\ i' = i
        /\ input' = [input EXCEPT ![i] = NUL]
    BY <1>2 DEF Enter, Key
  <2>2. Edits("parse")
    BY <1>2, <2>1, KeyEdits DEF Enter, Edits
  <2>3. input' \in [Index -> Typed \cup Garbage \cup {NUL}]
    BY <1>1, <2>1
  <2>4. \A k \in 0..(i - 1) : input'[k] \in Letters
    <3>1. \A k \in 0..(i - 1) : k \in Index /\ k # i
      BY <1>1 DEF Index
    <3>2. QED  BY <1>1, <2>1, <3>1 DEF IInv, LineHeld
  <2>5. LineHeld'
    BY <1>1, <2>1, <2>4 DEF LineHeld
  <2>6. QED  BY <1>1, <2>1, <2>2, <2>3, <2>5, StepEdits
<1>3. CASE Erase
  <2>1. pc = "read" /\ pc' = "read"
    BY <1>3 DEF Erase, Key
  <2>2. Edits("read")
    BY <1>3, <2>1, KeyEdits DEF Erase, Edits
  <2>3. \/ i > 0 /\ i' = i - 1 /\ input' = [input EXCEPT ![i - 1] = NUL]
        \/ i' = i /\ input' = input
    BY <1>3 DEF Erase
  <2>4. /\ input' \in [Index -> Typed \cup Garbage \cup {NUL}]
        /\ i' \in Index
    BY <1>1, <2>3 DEF Index
  <2>5. \A k \in 0..(i' - 1) : input'[k] \in Letters
    <3>1. \A k \in 0..(i - 1) : input[k] \in Letters
      BY <2>1 DEF IInv, LineHeld
    <3>2. CASE i > 0 /\ i' = i - 1 /\ input' = [input EXCEPT ![i - 1] = NUL]
      <4>1. \A k \in 0..(i' - 1) : k \in Index /\ k # i - 1 /\ k \in 0..(i - 1)
        BY <1>1, <3>2 DEF Index
      <4>2. QED  BY <1>1, <3>1, <3>2, <4>1
    <3>3. QED  BY <2>3, <3>1, <3>2
  <2>6. LineHeld'
    BY <2>1, <2>5 DEF LineHeld
  <2>7. QED  BY <2>2, <2>4, <2>6, StepEdits
<1>4. ASSUME NEW ch \in Typed, Insert(ch)
      PROVE  IInv'
  <2>1. pc = "read" /\ pc' = "read" /\ ch \in Letters
    BY <1>4 DEF Insert, Key, Letters
  <2>2. Edits("read")
    BY <1>4, <2>1, KeyEdits DEF Insert, Edits
  <2>3. \/ i < MaxLen - 1 /\ i' = i + 1 /\ input' = [input EXCEPT ![i] = ch]
        \/ i' = i /\ input' = input
    BY <1>4 DEF Insert
  <2>4. /\ input' \in [Index -> Typed \cup Garbage \cup {NUL}]
        /\ i' \in Index
    BY <1>1, <1>4, <2>3 DEF Index
  <2>5. \A k \in 0..(i' - 1) : input'[k] \in Letters
    <3>1. \A k \in 0..(i - 1) : input[k] \in Letters
      BY <2>1 DEF IInv, LineHeld
    <3>2. CASE i' = i + 1 /\ input' = [input EXCEPT ![i] = ch]
      <4>1. \A k \in 0..(i' - 1) : k \in Index /\ (k # i => k \in 0..(i - 1))
        BY <1>1, <3>2 DEF Index
      <4>2. QED  BY <1>1, <2>1, <3>1, <3>2, <4>1
    <3>3. QED  BY <2>3, <3>1, <3>2
  <2>6. LineHeld'
    BY <2>1, <2>5 DEF LineHeld
  <2>7. QED  BY <2>2, <2>4, <2>6, StepEdits
<1>5. QED  BY <1>2, <1>3, <1>4 DEF Readline

\* What Dispatch prints, by itself.
LEMMA DispatchPrints ==
  ASSUME NEW name \in Seq(Letters), NEW args \in Seq(Letters),
         Dispatch(name, args)
  PROVE  /\ pc' = "print" /\ after' \in {"read", "device", "halt"} /\ out' \in Seq(Printed)
         /\ Clear \/ UNCHANGED screen
<1>1. /\ name \in Seq(Printed) /\ args \in Seq(Printed)
      /\ Prompt \in Seq(Printed)
  <2>1. Letters \subseteq Printed
    BY LettersArePrinted
  <2>2. \A s \in Seq(Letters) : s \in Seq(Printed)
    BY <2>1
  <2>3. QED  BY <2>2, LettersArePrinted
<1>2. <<Newline>> \in Seq(Printed) /\ <<"K">> \in Seq(Printed)
  <2>1. \A a \in Printed : <<a>> \in Seq(Printed)
    OBVIOUS
  <2>2. QED  BY <2>1, LettersArePrinted, TextAssumption
<1>3. \A s, t \in Seq(Printed) : s \o t \in Seq(Printed)
  BY ConcatProperties
<1>4. \A text \in Texts : text \in Seq(Printed)
  BY TextAssumption
<1>5. Unknown(name) \in Seq(Printed)
  BY <1>1, <1>2, <1>3 DEF Unknown
<1>6. \A text \in Banner(name) : text \in Seq(Printed)
  <2>1. <<>> \in Seq(Printed)
    BY EmptySeq
  <2>2. QED  BY <1>4, <2>1 DEF Banner
<1>7. QED  BY <1>1, <1>2, <1>3, <1>4, <1>5, <1>6 DEF Dispatch, Say

\* Splitting and running a line.
LEMMA StepParse ==
  ASSUME IInv, Parse
  PROVE  IInv'
<1>1. /\ pc = "parse" /\ i' = i /\ start' = start /\ keys' = keys
  BY DEF Parse
<1>2. LineReady
  BY <1>1 DEF IInv, TypeOK, LineReady
<1>3. CASE input[0] = NUL /\ Say(Prompt, "read") /\ UNCHANGED <<screen, input, ran>>
  <2>1. /\ pc' = "print" /\ out' = Prompt /\ after' = "read"
        /\ UNCHANGED screen /\ input' = input /\ ran' = ran
    BY <1>3 DEF Say
  <2>2. Readable'
    BY <2>1, UnchangedScreen DEF IInv
  <2>3. LineHeld'
    BY <2>1 DEF LineHeld
  <2>4. TypeOK'
    BY <1>1, <2>1, <2>2, LettersArePrinted DEF IInv, TypeOK, Readable
  <2>5. QED  BY <2>2, <2>3, <2>4 DEF IInv
<1>4. CASE input[0] # NUL
  <2> DEFINE name == CString(NewInput, 0)
             args == IF Cut(input) = {} THEN <<>>
                     ELSE CString(NewInput, Len(name) + 1)
  <2>1. /\ input' = NewInput
        /\ ran' = Append(ran, [name |-> name, args |-> args])
        /\ Dispatch(name, args)
    BY <1>4 DEF Parse, NewInput
  <2>2. name \in Seq(Letters) /\ args \in Seq(Letters)
    BY <1>2, PartsAreStrings, EmptySeq
  <2> HIDE DEF name, args
  <2>3. /\ pc' = "print" /\ after' \in {"read", "device", "halt"} /\ out' \in Seq(Printed)
        /\ Clear \/ UNCHANGED screen
    BY <2>1, <2>2, DispatchPrints
  <2>4. Readable'
    BY <2>3, ClearReadable, UnchangedScreen DEF IInv
  <2>5. LineHeld'
    BY <2>3 DEF LineHeld
  <2>6. input' \in [Index -> Typed \cup Garbage \cup {NUL}]
    BY <1>2, <2>1 DEF NewInput, LineReady
  <2>7. ran' \in Seq([name : Seq(Typed), args : Seq(Typed)])
    <3>1. name \in Seq(Typed) /\ args \in Seq(Typed)
      BY <2>2, LettersArePrinted
    <3>2. ran \in Seq([name : Seq(Typed), args : Seq(Typed)])
      BY DEF IInv, TypeOK
    <3>3. [name |-> name, args |-> args] \in [name : Seq(Typed), args : Seq(Typed)]
      BY <3>1
    <3>4. QED  BY <2>1, <3>2, <3>3, AppendProperties
  <2>8. TypeOK'
    BY <1>1, <2>3, <2>4, <2>6, <2>7 DEF IInv, TypeOK, Readable
  <2>9. QED  BY <2>4, <2>5, <2>8 DEF IInv
<1>5. QED  BY <1>3, <1>4 DEF Parse

\* What a command prints once its device has answered.
LEMMA DonePrints ==
  ASSUME DeviceDone
  PROVE  /\ pc = "device" /\ pc' = "print" /\ after' = "read"
         /\ out' \in Seq(Printed)
         /\ UNCHANGED screen /\ input' = input /\ i' = i /\ start' = start
         /\ ran' = ran /\ keys' = keys
<1>1. PICK text \in Texts : out' = text \o Prompt
  BY DEF DeviceDone, Say
<1>2. text \in Seq(Printed) /\ Prompt \in Seq(Printed)
  BY TextAssumption, LettersArePrinted
<1>3. text \o Prompt \in Seq(Printed)
  BY <1>2, ConcatProperties
<1>4. QED  BY <1>1, <1>3 DEF DeviceDone, Say

LEMMA StepDevice ==
  ASSUME IInv, DeviceDone
  PROVE  IInv'
<1>1. /\ pc' = "print" /\ after' = "read" /\ out' \in Seq(Printed)
      /\ UNCHANGED screen /\ input' = input /\ i' = i /\ start' = start
      /\ ran' = ran /\ keys' = keys
  BY DonePrints
<1>2. Readable'
  BY <1>1, UnchangedScreen DEF IInv
<1>3. LineHeld'
  BY <1>1 DEF LineHeld
<1>4. TypeOK'
  BY <1>1, <1>2 DEF IInv, TypeOK, Readable
<1>5. QED  BY <1>2, <1>3, <1>4 DEF IInv

LEMMA InitIInv == Init => IInv
<1> SUFFICES ASSUME Init PROVE IInv
  OBVIOUS
<1>1. /\ ScreenInit /\ pc = "print" /\ after = "read"
      /\ \E text \in Texts : out = text \o Prompt
      /\ \E g \in Garbage : input = [k \in Index |-> g]
      /\ i = 0 /\ start = <<0, 0>> /\ ran = <<>> /\ keys = 0
  BY DEF Init
<1>2. Readable
  BY <1>1, InitReadable
<1>3. out \in Seq(Printed)
  BY <1>1, TextAssumption, LettersArePrinted, ConcatProperties
<1>4. input \in [Index -> Typed \cup Garbage \cup {NUL}] /\ i \in Index
  BY <1>1, MaxLenAssumption DEF Index
<1>5. ran \in Seq([name : Seq(Typed), args : Seq(Typed)])
  BY <1>1, EmptySeq
<1>6. start \in (0..Cols) \X Nat /\ keys \in 0..MaxKeys
  BY <1>1, Columns8, MaxLenAssumption
<1>7. TypeOK
  BY <1>1, <1>2, <1>3, <1>4, <1>5, <1>6 DEF TypeOK, Readable
<1>8. LineHeld
  BY <1>1 DEF LineHeld
<1>9. QED  BY <1>2, <1>7, <1>8 DEF IInv

\* IInv is inductive.
LEMMA Inductive ==
  ASSUME IInv, [Next]_vars
  PROVE  IInv'
<1>1. CASE KprintStep
  BY <1>1, StepKprint
<1>2. CASE KprintDone
  BY <1>2, StepDone
<1>3. CASE Readline
  BY <1>3, StepReadline
<1>4. CASE Parse
  BY <1>4, StepParse
<1>5. CASE UNCHANGED vars
  <2>1. /\ UNCHANGED screen /\ pc' = pc /\ after' = after /\ out' = out
        /\ input' = input /\ i' = i /\ start' = start /\ ran' = ran
        /\ keys' = keys
    BY <1>5 DEF vars
  <2>2. Readable'
    BY <2>1, UnchangedScreen DEF IInv
  <2>3. TypeOK'
    BY <2>1, <2>2 DEF IInv, TypeOK, Readable
  <2>4. LineHeld'
    BY <2>1 DEF IInv, LineHeld
  <2>5. QED  BY <2>2, <2>3, <2>4 DEF IInv
<1>6. CASE DeviceDone
  BY <1>6, StepDevice
<1>7. QED  BY <1>1, <1>2, <1>3, <1>4, <1>5, <1>6 DEF Next, Halt

LEMMA Invariance == Spec => []IInv
BY InitIInv, Inductive, PTL DEF Spec

\* The shell's state is always well typed; above all, readline never writes
\* outside its buffer.
THEOREM ShellTypeCorrect == Spec => []TypeOK
<1>1. IInv => TypeOK
  BY DEF IInv
<1>2. QED  BY <1>1, Invariance, PTL

\* Nothing is ever drawn over something else, whatever is typed or printed.
THEOREM TextStaysReadable == Spec => [](FrontierBlank /\ NoOverstrike)
<1>1. IInv => FrontierBlank /\ NoOverstrike
  BY DEF IInv, Readable
<1>2. QED  BY <1>1, Invariance, PTL

\* Text below the last row leaves the rows that are shown alone.
THEOREM OffscreenIsInert == Spec => []OffscreenAtZero
<1>1. IInv => OffscreenAtZero
  BY DEF IInv, Readable
<1>2. QED  BY <1>1, Invariance, PTL

-----------------------------------------------------------------------------
(* Shell implements CommandLine.                                           *)

LEMMA LineIs ==
  ASSUME IInv, pc \in {"read", "parse"}
  PROVE  /\ i \in Nat /\ i < MaxLen /\ MaxLen \in Nat
         /\ Line \in Seq(Letters) /\ Len(Line) = i
         /\ \A k \in 1..i : Line[k] = input[k - 1]
<1>1. i \in Nat /\ i < MaxLen /\ MaxLen \in Nat
  BY MaxLenAssumption DEF IInv, TypeOK, Index
<1>2. \A k \in 0..(i - 1) : input[k] \in Letters
  BY DEF IInv, LineHeld
<1>3. Line = [k \in 1..i |-> input[k - 1]]
  BY DEF Line
<1>4. [k \in 1..i |-> input[k - 1]] \in Seq(Letters)
  BY <1>1, <1>2
<1>5. QED  BY <1>1, <1>3, <1>4

LEMMA EmptyLine ==
  ASSUME pc \notin {"read", "parse"} \/ i = 0
  PROVE  Line = <<>>
BY DEF Line

\* The first n characters of the buffer as a sequence.
LEMMA HeldIsSeq ==
  ASSUME NEW n \in Nat, NEW buf, \A k \in 0..(n - 1) : buf[k] \in Letters
  PROVE  /\ [k \in 1..n |-> buf[k - 1]] \in Seq(Letters)
         /\ Len([k \in 1..n |-> buf[k - 1]]) = n
         /\ \A k \in 1..n : [j \in 1..n |-> buf[j - 1]][k] = buf[k - 1]
<1>1. \A k \in 1..n : buf[k - 1] \in Letters
  OBVIOUS
<1>2. [k \in 1..n |-> buf[k - 1]] \in Seq(Letters)
  BY <1>1
<1>3. QED  BY <1>2

\* The same of the buffer a step leaves.
LEMMA LineNext ==
  ASSUME IInv', pc' = "read"
  PROVE  /\ Line' \in Seq(Letters) /\ Len(Line') = i'
         /\ \A k \in 1..i' : Line'[k] = input'[k - 1]
<1>1. i' \in Nat
  BY MaxLenAssumption DEF IInv, TypeOK, Index
<1>2. \A k \in 0..(i' - 1) : input'[k] \in Letters
  BY DEF IInv, LineHeld
<1>3. Line' = [k \in 1..i' |-> input'[k - 1]]
  BY DEF Line
<1>4. QED  BY <1>1, <1>2, <1>3, HeldIsSeq

\* Typing a character appends it, or finds the line full.
LEMMA InsertTypes ==
  ASSUME IInv, IInv', NEW ch \in Typed, Insert(ch)
  PROVE  Editor!Type \/ UNCHANGED <<Line, ran>>
<1>1. pc = "read" /\ pc' = "read" /\ ran' = ran /\ ch \in Letters
  BY DEF Insert, Key, Letters
<1>2. /\ i \in Nat /\ i < MaxLen /\ MaxLen \in Nat
      /\ Line \in Seq(Letters) /\ Len(Line) = i
      /\ \A k \in 1..i : Line[k] = input[k - 1]
  BY <1>1, LineIs
<1>3. /\ Line' \in Seq(Letters) /\ Len(Line') = i'
      /\ \A k \in 1..i' : Line'[k] = input'[k - 1]
  BY <1>1, LineNext
<1>4. CASE i < MaxLen - 1 /\ i' = i + 1 /\ input' = [input EXCEPT ![i] = ch]
  <2>1. input \in [Index -> Typed \cup Garbage \cup {NUL}]
    BY DEF IInv, TypeOK
  <2>2. \A k \in 1..i : input'[k - 1] = input[k - 1]
    BY <1>2, <1>4, <2>1 DEF Index
  <2>3. input'[i] = ch
    BY <1>2, <1>4, <2>1 DEF Index
  <2>4. /\ Append(Line, ch) \in Seq(Letters) /\ Len(Append(Line, ch)) = i + 1
        /\ Append(Line, ch)[i + 1] = ch
        /\ \A k \in 1..i : Append(Line, ch)[k] = Line[k]
    BY <1>1, <1>2, AppendProperties
  <2>5. \A k \in 1..(i + 1) : Line'[k] = Append(Line, ch)[k]
    BY <1>2, <1>3, <1>4, <2>2, <2>3, <2>4
  <2>6. Line' = Append(Line, ch)
    BY <1>2, <1>3, <1>4, <2>4, <2>5, SeqEqual
  <2>7. QED  BY <1>1, <1>2, <1>4, <2>6 DEF Editor!Type
<1>5. CASE i' = i /\ input' = input
  <2>1. QED  BY <1>1, <1>5 DEF Line
<1>6. QED  BY <1>4, <1>5 DEF Insert

\* A backspace removes the last character, if there is one.
LEMMA EraseErases ==
  ASSUME IInv, IInv', Erase
  PROVE  Editor!Erase \/ UNCHANGED <<Line, ran>>
<1>1. pc = "read" /\ pc' = "read" /\ ran' = ran
  BY DEF Erase, Key
<1>2. /\ i \in Nat /\ i < MaxLen /\ MaxLen \in Nat
      /\ Line \in Seq(Letters) /\ Len(Line) = i
      /\ \A k \in 1..i : Line[k] = input[k - 1]
  BY <1>1, LineIs
<1>3. /\ Line' \in Seq(Letters) /\ Len(Line') = i'
      /\ \A k \in 1..i' : Line'[k] = input'[k - 1]
  BY <1>1, LineNext
<1>4. CASE i > 0 /\ i' = i - 1 /\ input' = [input EXCEPT ![i - 1] = NUL]
  <2>1. input \in [Index -> Typed \cup Garbage \cup {NUL}]
    BY DEF IInv, TypeOK
  <2>2. \A k \in 1..(i - 1) : input'[k - 1] = input[k - 1]
    BY <1>2, <1>4, <2>1 DEF Index
  <2>3. /\ SubSeq(Line, 1, i - 1) \in Seq(Letters)
        /\ Len(SubSeq(Line, 1, i - 1)) = i - 1
        /\ \A k \in 1..(i - 1) : SubSeq(Line, 1, i - 1)[k] = Line[k]
    BY <1>2, <1>4, SubSeqProperties
  <2>4. \A k \in 1..(i - 1) : Line'[k] = SubSeq(Line, 1, i - 1)[k]
    BY <1>2, <1>3, <1>4, <2>2, <2>3
  <2>5. Line' = SubSeq(Line, 1, i - 1)
    BY <1>2, <1>3, <1>4, <2>3, <2>4, SeqEqual
  <2>6. Line # <<>>
    BY <1>2, <1>4
  <2>7. QED  BY <1>1, <1>2, <1>4, <2>5, <2>6 DEF Editor!Erase
<1>5. CASE i' = i /\ input' = input
  <2>1. QED  BY <1>1, <1>5 DEF Line
<1>6. QED  BY <1>4, <1>5 DEF Erase

\* The first space of a sequence is unique.
LEMMA FirstSpaceIs ==
  ASSUME NEW S, NEW s \in Seq(S), NEW n \in 1..(Len(s) + 1),
         n <= Len(s) => s[n] = Space, \A j \in 1..(n - 1) : s[j] # Space
  PROVE  Editor!FirstSpace(s) = n
<1> DEFINE P(k) == /\ k <= Len(s) => s[k] = Space
                   /\ \A j \in 1..(k - 1) : s[j] # Space
<1>1. Len(s) \in Nat
  BY LenProperties
<1>2. n \in Nat /\ P(n)
  BY <1>1
<1>3. ASSUME NEW k \in 1..(Len(s) + 1), P(k)
      PROVE  k = n
  <2>1. k \in Nat
    BY <1>1
  <2>2. k < n => FALSE
    BY <1>1, <1>2, <1>3, <2>1
  <2>3. n < k => FALSE
    BY <1>1, <1>2, <1>3, <2>1
  <2>4. QED  BY <1>2, <2>1, <2>2, <2>3
<1>4. Editor!FirstSpace(s) = CHOOSE k \in 1..(Len(s) + 1) : P(k)
  BY DEF Editor!FirstSpace
<1> HIDE DEF P
<1>5. QED  BY <1>2, <1>3, <1>4

LEMMA SplitAt ==
  ASSUME NEW s, NEW n, Editor!FirstSpace(s) = n
  PROVE  Editor!Split(s) = [ name |-> SubSeq(s, 1, n - 1),
                             args |-> SubSeq(s, n + 1, Len(s)) ]
BY DEF Editor!Split

\* Cutting a piece out of a sequence.
LEMMA Piece ==
  ASSUME NEW S, NEW s \in Seq(S), NEW m \in Nat \ {0}, NEW n \in Nat,
         n <= Len(s), m <= n + 1
  PROVE  SubSeq(s, m, n) = [k \in 1..(n - m + 1) |-> s[m + k - 1]]
<1>1. Len(s) \in Nat /\ \A k \in 1..Len(s) : s[k] \in S
  BY LenProperties
<1>2. \A k \in m..n : s[k] \in S
  BY <1>1
<1>3. /\ SubSeq(s, m, n) \in Seq(S)
      /\ Len(SubSeq(s, m, n)) = n - m + 1
      /\ \A k \in 1..(n - m + 1) : SubSeq(s, m, n)[k] = s[m + k - 1]
  BY <1>2, SubSeqProperties
<1> DEFINE t == SubSeq(s, m, n)
<1>4. t \in [1..Len(t) -> S]
  BY <1>3, LenProperties
<1> HIDE DEF t
<1>5. QED  BY <1>3, <1>4 DEF t

\* What the C code cuts out of the array is the split of the line.
LEMMA CutSplits ==
  ASSUME IInv, pc = "parse", i > 0
  PROVE  [ name |-> CString(NewInput, 0),
           args |-> IF Cut(input) = {} THEN <<>>
                    ELSE CString(NewInput, Len(CString(NewInput, 0)) + 1) ]
         = Editor!Split(Line)
<1>1. LineReady
  BY DEF IInv, TypeOK, LineReady
<1>2. /\ i \in Nat /\ i < MaxLen /\ MaxLen \in Nat
      /\ Line \in Seq(Letters) /\ Len(Line) = i
      /\ \A k \in 1..i : Line[k] = input[k - 1]
  BY LineIs
<1>3. CASE Cut(input) = {}
  <2>1. /\ CString(NewInput, 0) = [k \in 1..i |-> input[k - 1]]
        /\ \A k \in 0..(i - 1) : input[k] # Space
    BY <1>1, <1>3, NoCut
  <2>2. CString(NewInput, 0) = Line
    BY <2>1 DEF Line
  <2>3. \A j \in 1..i : Line[j] # Space
    BY <1>2, <2>1
  <2>4. Editor!FirstSpace(Line) = i + 1
    BY <1>2, <2>3, FirstSpaceIs
  <2>5. SubSeq(Line, 1, i) = Line
    <3>1. SubSeq(Line, 1, i) = [k \in 1..i |-> Line[k]]
      BY <1>2, Piece
    <3>2. Line \in [1..i -> Letters]
      BY <1>2, LenProperties
    <3>3. QED  BY <3>1, <3>2
  <2>6. SubSeq(Line, i + 2, i) = <<>>
    BY <1>2, SubSeqEmpty
  <2>7. i + 1 - 1 = i /\ i + 1 + 1 = i + 2
    BY <1>2
  <2>8. Editor!Split(Line) = [name |-> SubSeq(Line, 1, i),
                              args |-> SubSeq(Line, i + 2, i)]
    BY <1>2, <2>4, <2>7 DEF Editor!Split
  <2>9. QED  BY <1>3, <2>2, <2>5, <2>6, <2>8
<1>4. CASE Cut(input) # {}
  <2>1. PICK p : p \in Cut(input)
    BY <1>4
  <2>2. /\ p \in 0..(i - 1) /\ input[p] = Space
        /\ \A k \in 0..(p - 1) : input[k] # Space
        /\ CString(NewInput, 0) = [k \in 1..p |-> input[k - 1]]
        /\ CString(NewInput, p + 1) = [k \in 1..(i - p - 1) |-> input[p + k]]
    BY <1>1, <2>1, OneCut
  <2>3. p \in Nat /\ p < i
    BY <1>2, <2>2
  <2>4. Editor!FirstSpace(Line) = p + 1
    <3>1. p + 1 \in 1..(Len(Line) + 1) /\ Line[p + 1] = Space
      BY <1>2, <2>2, <2>3
    <3>2. \A j \in 1..p : Line[j] # Space
      <4>1. \A j \in 1..p : j \in 1..i /\ j - 1 \in 0..(p - 1)
        BY <1>2, <2>3
      <4>2. QED  BY <1>2, <2>2, <4>1
    <3> DEFINE n == p + 1
    <3>3. n \in 1..(Len(Line) + 1) /\ Line[n] = Space
      BY <3>1
    <3>4. \A j \in 1..(n - 1) : Line[j] # Space
      <4>1. n - 1 = p
        BY <2>3
      <4> HIDE DEF n
      <4>2. QED  BY <3>2, <4>1
    <3> HIDE DEF n
    <3>5. Editor!FirstSpace(Line) = n
      BY <1>2, <3>3, <3>4, FirstSpaceIs
    <3>6. QED  BY <3>5 DEF n
  <2>5. SubSeq(Line, 1, p) = [k \in 1..p |-> input[k - 1]]
    <3>1. SubSeq(Line, 1, p) = [k \in 1..p |-> Line[k]]
      BY <1>2, <2>3, Piece
    <3>2. \A k \in 1..p : Line[k] = input[k - 1]
      <4>1. \A k \in 1..p : k \in 1..i
        BY <1>2, <2>3
      <4>2. QED  BY <1>2, <4>1
    <3>3. QED  BY <3>1, <3>2
  <2>6. SubSeq(Line, p + 2, i) = [k \in 1..(i - p - 1) |-> input[p + k]]
    <3>1. SubSeq(Line, p + 2, i) = [k \in 1..(i - p - 1) |-> Line[p + 1 + k]]
      <4>1. SubSeq(Line, p + 2, i)
            = [k \in 1..(i - (p + 2) + 1) |-> Line[p + 2 + k - 1]]
        BY <1>2, <2>3, Piece
      <4>2. i - (p + 2) + 1 = i - p - 1
        BY <1>2, <2>3
      <4>3. \A k \in 1..(i - p - 1) : Line[p + 2 + k - 1] = Line[p + 1 + k]
        BY <1>2, <2>3
      <4>4. QED  BY <4>1, <4>2, <4>3
    <3>2. \A k \in 1..(i - p - 1) : Line[p + 1 + k] = input[p + k]
      <4>1. ASSUME NEW k \in 1..(i - p - 1)
            PROVE  Line[p + 1 + k] = input[p + k]
        <5>1. p + 1 + k \in 1..i /\ p + 1 + k - 1 = p + k
          BY <1>2, <2>3
        <5> DEFINE m == p + 1 + k
        <5>2. Line[m] = input[m - 1]
          <6>1. m \in 1..i
            BY <5>1
          <6> HIDE DEF m
          <6>2. QED  BY <1>2, <6>1
        <5>3. m - 1 = p + k
          BY <1>2, <2>3
        <5>4. Line[m] = input[p + k]
          <6> HIDE DEF m
          <6>1. QED  BY <5>2, <5>3
        <5>5. QED  BY <5>4, Zenon
      <4>2. QED  BY <4>1
    <3>3. QED  BY <3>1, <3>2
  <2>7. Len(CString(NewInput, 0)) = p
    BY <2>2, <2>3
  <2>8. Editor!Split(Line) = [name |-> SubSeq(Line, 1, p),
                              args |-> SubSeq(Line, p + 2, i)]
    <3> DEFINE n == p + 1
    <3>1. Editor!Split(Line) = [name |-> SubSeq(Line, 1, n - 1),
                                args |-> SubSeq(Line, n + 1, Len(Line))]
      <4>1. Editor!FirstSpace(Line) = n
        BY <2>4
      <4> HIDE DEF n
      <4>2. QED  BY <4>1, SplitAt
    <3>2. n - 1 = p /\ n + 1 = p + 2 /\ Len(Line) = i
      BY <1>2, <2>3
    <3> HIDE DEF n
    <3>3. QED  BY <3>1, <3>2
  <2>9. QED  BY <1>4, <2>2, <2>5, <2>6, <2>7, <2>8
<1>5. QED  BY <1>3, <1>4

LEMMA ParseRuns ==
  ASSUME IInv, IInv', Parse
  PROVE  Editor!Run \/ UNCHANGED <<Line, ran>>
<1>1. pc = "parse" /\ LineReady /\ i' = i
  BY DEF Parse, IInv, TypeOK, LineReady
<1>2. /\ i \in Nat /\ input[i] = NUL
      /\ \A k \in 0..(i - 1) : input[k] # NUL
      /\ Len(Line) = i
  BY <1>1, LineFacts, LineIs
<1>3. CASE input[0] = NUL /\ Say(Prompt, "read") /\ UNCHANGED <<screen, input, ran>>
  <2>1. i = 0
    BY <1>2, <1>3
  <2>2. Line = <<>> /\ Line' = <<>>
    BY <1>1, <2>1, EmptyLine DEF Line
  <2>3. QED  BY <1>3, <2>2
<1>4. CASE input[0] # NUL
  <2> DEFINE name == CString(NewInput, 0)
             args == IF Cut(input) = {} THEN <<>>
                     ELSE CString(NewInput, Len(name) + 1)
  <2>1. /\ ran' = Append(ran, [name |-> name, args |-> args])
        /\ Dispatch(name, args)
    BY <1>4 DEF Parse, NewInput
  <2>2. i > 0
    BY <1>2, <1>4
  <2>3. [name |-> name, args |-> args] = Editor!Split(Line)
    BY <1>1, <2>2, CutSplits
  <2>4. name \in Seq(Letters) /\ args \in Seq(Letters)
    BY <1>1, PartsAreStrings, EmptySeq
  <2>5. pc' = "print"
    <3> HIDE DEF name, args
    <3> QED  BY <2>1, <2>4, DispatchPrints
  <2>6. Line # <<>> /\ Line' = <<>>
    BY <1>2, <2>2, <2>5 DEF Line
  <2>7. QED  BY <2>1, <2>3, <2>6 DEF Editor!Run
<1>5. QED  BY <1>3, <1>4 DEF Parse

LEMMA StepImplements ==
  ASSUME IInv, IInv', [Next]_vars
  PROVE  [Editor!Next]_<<Line, ran>>
<1>1. CASE KprintStep
  BY <1>1 DEF KprintStep, Line
<1>2. CASE KprintDone
  <2>1. pc = "print" /\ i' = 0 /\ ran' = ran
    BY <1>2 DEF KprintDone
  <2>2. Line = <<>> /\ Line' = <<>>
    BY <2>1 DEF Line
  <2>3. QED  BY <2>1, <2>2
<1>3. CASE Enter
  <2>1. /\ pc = "read" /\ pc' = "parse" /\ i' = i /\ ran' = ran
        /\ input' = [input EXCEPT ![i] = NUL]
    BY <1>3 DEF Enter, Key
  <2>2. i \in Nat /\ input \in [Index -> Typed \cup Garbage \cup {NUL}]
    BY <2>1, LineIs DEF IInv, TypeOK
  <2>3. \A k \in 1..i : input'[k - 1] = input[k - 1]
    <3>1. \A k \in 1..i : k - 1 \in Index /\ k - 1 # i
      BY <2>1, LineIs DEF Index
    <3>2. QED  BY <2>1, <2>2, <3>1
  <2>4. Line' = Line
    BY <2>1, <2>3 DEF Line
  <2>5. QED  BY <2>1, <2>4
<1>4. CASE Erase
  BY <1>4, EraseErases DEF Editor!Next
<1>5. ASSUME NEW ch \in Typed, Insert(ch)
      PROVE  [Editor!Next]_<<Line, ran>>
  BY <1>5, InsertTypes DEF Editor!Next
<1>6. CASE Parse
  BY <1>6, ParseRuns DEF Editor!Next
<1>7. CASE UNCHANGED vars
  BY <1>7 DEF vars, Line
<1>8. CASE DeviceDone
  BY <1>8, DonePrints DEF Line
<1>9. QED
  BY <1>1, <1>2, <1>3, <1>4, <1>5, <1>6, <1>7, <1>8 DEF Next, Halt, Readline

\* What runs is exactly the line as edited, split at its first space: nothing
\* of an earlier line, of the stack, or of an erased character.
THEOREM RunsTheLineAsEdited == Spec => ImplementsCommandLine
<1>1. Init => Editor!Init
  BY EmptyLine DEF Init, Editor!Init
<1>2. IInv /\ IInv' /\ [Next]_vars => [Editor!Next]_<<Line, ran>>
  BY StepImplements
<1>3. QED
  BY <1>1, <1>2, Invariance, PTL DEF Spec, ImplementsCommandLine, Editor!Spec

-----------------------------------------------------------------------------
(* The prompt and the echo of the line after it.                           *)

EndsInPrompt(text) == /\ Len(text) >= 2
                      /\ text[Len(text) - 1] = ">" /\ text[Len(text)] = Space

\* What printing leaves for readline to start behind: the prompt is still to
\* be printed, or half of it is on the screen, or all of it is.
PromptComing ==
  pc = "print" /\ after = "read" =>
    \/ EndsInPrompt(out)
    \/ /\ Len(out) = 1 /\ out[1] = Space
       /\ cursor_y \in Rows =>
            cursor_x >= 1 /\ cell[<<cursor_x - 1, cursor_y>>] = ">"
    \/ /\ out = <<>>
       /\ cursor_y \in Rows /\ cursor_x >= 2 =>
            cell[<<cursor_x - 2, cursor_y>>] = ">"

\* PromptIntact rests on EchoExact: a backspace in the row the line started
\* in moves the cursor from start[1] + i, and only if i > 0.
Echoed == PromptComing /\ PromptIntact /\ EchoExact

LEMMA PromptEnds ==
  ASSUME NEW s \in Seq(Printed)
  PROVE  EndsInPrompt(s \o Prompt)
<1>1. Len(Prompt) = 2 /\ Prompt[1] = ">" /\ Prompt[2] = Space
  BY DEF Prompt, Space
<1>2. Prompt \in Seq(Printed) /\ Len(s) \in Nat
  BY LettersArePrinted
<1> DEFINE p == Prompt
<1> HIDE DEF p
<1>3. p \in Seq(Printed) /\ Len(p) = 2 /\ p[1] = ">" /\ p[2] = Space
  BY <1>1, <1>2 DEF p
<1>4. /\ Len(s \o p) = Len(s) + 2
      /\ (s \o p)[Len(s) + 1] = ">" /\ (s \o p)[Len(s) + 2] = Space
  <2>1. /\ Len(s \o p) = Len(s) + Len(p)
        /\ \A k \in 1..(Len(s) + Len(p)) :
             (s \o p)[k] = IF k <= Len(s) THEN s[k] ELSE p[k - Len(s)]
    BY <1>3, ConcatProperties
  <2> DEFINE t == s \o p
  <2> HIDE DEF t
  <2>2. /\ Len(t) = Len(s) + 2
        /\ \A k \in 1..(Len(s) + 2) : t[k] = IF k <= Len(s) THEN s[k] ELSE p[k - Len(s)]
    BY <1>3, <2>1 DEF t
  <2>3. t[Len(s) + 1] = p[1] /\ t[Len(s) + 2] = p[2]
    BY <1>2, <2>2
  <2>4. QED  BY <1>3, <2>2, <2>3 DEF t
<1>5. EndsInPrompt(s \o p)
  BY <1>2, <1>4 DEF EndsInPrompt
<1>6. QED  BY <1>5 DEF p

LEMMA DevicePrompts ==
  ASSUME DeviceDone
  PROVE  Echoed'
<1>1. PICK text \in Texts : out' = text \o Prompt
  BY DEF DeviceDone, Say
<1>2. EndsInPrompt(text \o Prompt)
  BY TextAssumption, PromptEnds
<1>3. EndsInPrompt(out')
  BY <1>1, <1>2
<1>4. pc' = "print"
  BY DEF DeviceDone, Say
<1>5. QED  BY <1>3, <1>4 DEF Echoed, PromptComing, PromptIntact, EchoExact

LEMMA TailEnds ==
  ASSUME NEW s \in Seq(Printed), EndsInPrompt(s)
  PROVE  \/ EndsInPrompt(Tail(s))
         \/ Head(s) = ">" /\ Len(Tail(s)) = 1 /\ Tail(s)[1] = Space
<1>1. /\ Len(s) \in Nat /\ Len(s) >= 2 /\ s # <<>>
      /\ s[Len(s) - 1] = ">" /\ s[Len(s)] = Space
  BY DEF EndsInPrompt
<1>2. /\ Len(Tail(s)) = Len(s) - 1 /\ Head(s) = s[1]
      /\ \A k \in 1..(Len(s) - 1) : Tail(s)[k] = s[k + 1]
  BY <1>1, HeadTailProperties
<1> DEFINE t == Tail(s)
<1>3. Len(t) = Len(s) - 1 /\ \A k \in 1..(Len(s) - 1) : t[k] = s[k + 1]
  BY <1>2
<1> HIDE DEF t
<1>4. CASE Len(s) > 2
  <2>1. t[Len(t) - 1] = s[Len(s) - 1] /\ t[Len(t)] = s[Len(s)] /\ Len(t) >= 2
    BY <1>1, <1>3, <1>4
  <2>2. QED  BY <1>1, <2>1 DEF EndsInPrompt, t
<1>5. CASE Len(s) = 2
  <2>1. t[1] = s[2] /\ Len(t) = 1
    BY <1>1, <1>3, <1>5
  <2>2. QED  BY <1>1, <1>2, <1>5, <2>1 DEF t
<1>6. Len(s) > 2 \/ Len(s) = 2
  <2>1. \A n \in Nat : n >= 2 => n > 2 \/ n = 2
    OBVIOUS
  <2>2. QED  BY <1>1, <2>1, Zenon
<1>7. QED  BY <1>4, <1>5, <1>6

\* What a command prints is followed by the prompt, except for reboot.
LEMMA DispatchPrompts ==
  ASSUME NEW name \in Seq(Letters), NEW args \in Seq(Letters),
         Dispatch(name, args)
  PROVE  pc' = "print" /\ (after' = "read" => EndsInPrompt(out'))
<1>1. \A s \in Seq(Letters) : s \in Seq(Printed)
  BY LettersArePrinted
<1>2. <<Newline>> \in Seq(Printed) /\ <<"K">> \in Seq(Printed)
  <2>1. \A a \in Printed : <<a>> \in Seq(Printed)
    OBVIOUS
  <2>2. QED  BY <2>1, LettersArePrinted, TextAssumption
<1>3. \A s, t \in Seq(Printed) : s \o t \in Seq(Printed)
  BY ConcatProperties
<1>4. \A s \in Seq(Printed) : EndsInPrompt(s \o Prompt)
  BY PromptEnds
<1>5. EndsInPrompt(Prompt)
  <2>1. Len(Prompt) = 2 /\ Prompt[1] = ">" /\ Prompt[2] = Space
    BY DEF Prompt, Space
  <2>2. QED  BY <2>1 DEF EndsInPrompt
<1>6. EndsInPrompt((args \o <<Newline>>) \o Prompt)
  BY <1>1, <1>2, <1>3, <1>4
<1>7. EndsInPrompt(args \o <<Newline>> \o Prompt)
  BY <1>6
<1>8. Unknown(name) \in Seq(Printed)
  BY <1>1, <1>2, <1>3 DEF Unknown
<1>9. \A text \in Texts : EndsInPrompt(text \o Prompt)
  BY <1>4, TextAssumption
<1>10. QED  BY <1>4, <1>5, <1>7, <1>8, <1>9 DEF Dispatch, Say

\* Printing the prompt puts it on the screen.
LEMMA StepPrompts ==
  ASSUME IInv, PromptComing, KprintStep
  PROVE  PromptComing' /\ pc' = "print"
<1>1. /\ pc = "print" /\ out # <<>> /\ KprintChar(Head(out)) /\ out' = Tail(out)
      /\ pc' = pc /\ after' = after
  BY DEF KprintStep
<1>2. out \in Seq(Printed) /\ Readable
  BY DEF IInv, TypeOK
<1>3. ">" \in Glyphs /\ Space \in Glyphs /\ ">" # Newline /\ ">" # BackspaceKey
      /\ Space # Newline /\ Space # BackspaceKey /\ Look(">") = ">"
  BY TextAssumption, GlyphAssumption DEF Look, Space, Newline, BackspaceKey
<1>4. cell \in [Cells -> Glyphs \cup {BLANK, MIXED}]
  BY <1>2 DEF Readable, ScreenTypeOK
<1> SUFFICES ASSUME after = "read"
             PROVE  PromptComing'
  BY <1>1 DEF PromptComing
<1>5. CASE EndsInPrompt(out)
  <2>1. CASE EndsInPrompt(Tail(out))
    BY <1>1, <2>1 DEF PromptComing, EndsInPrompt
  <2>2. CASE Head(out) = ">" /\ Len(Tail(out)) = 1 /\ Tail(out)[1] = Space
    <3>1. PutGlyph(">")
      BY <1>1, <1>3, <2>2 DEF KprintChar
    <3>2. /\ cursor_y' = NextY
          /\ \/ NextX = cursor_x /\ cursor_x \in Columns
             \/ NextX = 0
          /\ \/ /\ <<NextX, NextY>> \in Cells /\ cursor_x' = NextX + 1
                /\ cell' = [cell EXCEPT ![<<NextX, NextY>>] = Look(">")]
             \/ cursor_y' \notin Rows /\ cursor_x' = 0 /\ cell' = cell
      BY <1>2, <1>3, <3>1, GlyphDrawn, Zenon
    <3>3. NextX \in Nat
      BY <3>2 DEF Columns
    <3>4. cursor_y' \in Rows =>
            cursor_x' >= 1 /\ cell'[<<cursor_x' - 1, cursor_y'>>] = ">"
      <4>1. SUFFICES ASSUME cursor_y' \in Rows
                     PROVE  cursor_x' >= 1 /\ cell'[<<cursor_x' - 1, cursor_y'>>] = ">"
        OBVIOUS
      <4>2. cursor_x' - 1 = NextX /\ cursor_x' >= 1
        BY <3>2, <3>3, <4>1
      <4>3. cell'[<<NextX, NextY>>] = ">"
        BY <1>3, <1>4, <3>2, <4>1
      <4>4. QED  BY <3>2, <4>2, <4>3
    <3>5. Len(out') = 1 /\ out'[1] = Space
      BY <1>1, <2>2
    <3>6. QED  BY <3>4, <3>5 DEF PromptComing
  <2>3. QED  BY <1>2, <1>5, <2>1, <2>2, TailEnds
<1>6. CASE /\ Len(out) = 1 /\ out[1] = Space
           /\ cursor_y \in Rows =>
                cursor_x >= 1 /\ cell[<<cursor_x - 1, cursor_y>>] = ">"
  <2>1. Head(out) = Space /\ out' = <<>>
    BY <1>1, <1>2, <1>6
  <2>2. PutGlyph(Space)
    BY <1>1, <1>3, <2>1 DEF KprintChar
  <2>3. /\ cursor_y' = NextY
        /\ \/ NextX = cursor_x /\ NextY = cursor_y /\ cursor_x \in Columns
           \/ NextX = 0 /\ NextY = cursor_y + 16 /\ cursor_x = Cols
        /\ \/ /\ <<NextX, NextY>> \in Cells /\ cursor_x' = NextX + 1
              /\ cell' = [cell EXCEPT ![<<NextX, NextY>>] = Look(Space)]
           \/ cursor_y' \notin Rows /\ cursor_x' = 0 /\ cell' = cell
    BY <1>2, <1>3, <2>2, GlyphDrawn, Zenon
  <2>4. ASSUME cursor_y' \in Rows, cursor_x' >= 2
        PROVE  cell'[<<cursor_x' - 2, cursor_y'>>] = ">"
    <3>1. /\ cursor_x' = NextX + 1 /\ <<NextX, NextY>> \in Cells
          /\ cell' = [cell EXCEPT ![<<NextX, NextY>>] = Look(Space)]
      BY <2>3, <2>4
    <3>2. NextX = cursor_x /\ NextY = cursor_y /\ cursor_x \in Columns
      BY <2>3, <2>4, <3>1
    <3>3. /\ cursor_x' - 2 = cursor_x - 1 /\ cursor_y' = cursor_y
          /\ cursor_x - 1 \in Columns /\ cursor_x - 1 # cursor_x
      BY <2>3, <2>4, <3>1, <3>2, Columns8 DEF Columns
    <3>4. cell[<<cursor_x - 1, cursor_y>>] = ">"
      BY <1>6, <2>4, <3>3
    <3> DEFINE x == cursor_x - 1
    <3>5. <<x, cursor_y>> \in Cells /\ <<x, cursor_y>> # <<NextX, NextY>>
      BY <2>4, <3>2, <3>3 DEF Cells
    <3> HIDE DEF x
    <3>6. cell'[<<x, cursor_y>>] = cell[<<x, cursor_y>>]
      BY <1>4, <3>1, <3>5
    <3>7. QED  BY <3>3, <3>4, <3>6 DEF x
  <2>5. QED  BY <2>1, <2>4 DEF PromptComing
<1>7. QED  BY <1>1, <1>5, <1>6 DEF PromptComing

\* readline starts right behind it.
LEMMA DonePrompts ==
  ASSUME IInv, PromptComing, KprintDone
  PROVE  Echoed'
<1>1. /\ pc = "print" /\ out = <<>> /\ pc' = after /\ i' = 0
      /\ start' = <<cursor_x, cursor_y>>
      /\ cursor_x' = cursor_x /\ cursor_y' = cursor_y /\ cell' = cell
  BY DEF KprintDone, screen
<1>2. cursor_x \in 0..Cols /\ cursor_y \in Nat /\ after \in {"read", "device", "halt"}
  BY DEF IInv, TypeOK, ScreenTypeOK
<1>3. start'[1] = cursor_x /\ start'[2] = cursor_y
  BY <1>1
<1>4. PromptComing'
  BY <1>1, <1>2 DEF PromptComing
<1>5. CASE after # "read"
  BY <1>1, <1>4, <1>5 DEF Echoed, PromptIntact, EchoExact
<1>6. CASE after = "read"
  <2>1. ~EndsInPrompt(out) /\ Len(out) = 0
    BY <1>1 DEF EndsInPrompt
  <2>2. cursor_y \in Rows /\ cursor_x >= 2 => cell[<<cursor_x - 2, cursor_y>>] = ">"
    BY <1>1, <1>6, <2>1 DEF PromptComing
  <2>3. PromptIntact'
    BY <1>1, <1>2, <1>3, <2>2, Columns8 DEF PromptIntact
  <2>4. EchoExact'
    BY <1>1, <1>2, <1>3, Columns8 DEF EchoExact
  <2>5. QED  BY <1>4, <2>3, <2>4 DEF Echoed
<1>7. QED  BY <1>2, <1>5, <1>6

\* What PromptIntact and EchoExact say while a line is read, unfolded.
LEMMA WhileReading ==
  ASSUME IInv, Echoed, pc = "read"
  PROVE  /\ start[1] \in 0..Cols /\ start[2] \in Nat /\ Cols \in Nat \ {0}
         /\ cursor_x \in 0..Cols /\ cursor_y \in Nat
         /\ cell \in [Cells -> Glyphs \cup {BLANK, MIXED}]
         /\ i \in Nat /\ i < MaxLen /\ MaxLen \in Nat
         /\ \A k \in 0..(i - 1) : input[k] \in Letters
         /\ cursor_y > start[2] \/ (cursor_y = start[2] /\ cursor_x >= start[1])
         /\ start[2] \in Rows /\ start[1] >= 2 =>
              cell[<<start[1] - 2, start[2]>>] = ">"
         /\ cursor_y = start[2] /\ start[2] \in Rows =>
              /\ cursor_x = start[1] + i
              /\ \A k \in 0..(i - 1) :
                   cell[<<start[1] + k, start[2]>>] = Look(input[k])
<1>1. start \in (0..Cols) \X Nat /\ i \in Index /\ ScreenTypeOK /\ LineHeld
  BY DEF IInv, TypeOK
<1>2. /\ start[1] \in 0..Cols /\ start[2] \in Nat
      /\ cursor_x \in 0..Cols /\ cursor_y \in Nat
      /\ cell \in [Cells -> Glyphs \cup {BLANK, MIXED}]
      /\ Cols \in Nat \ {0}
  BY <1>1, Columns8 DEF ScreenTypeOK
<1>3. i \in Nat /\ i < MaxLen /\ MaxLen \in Nat
  BY <1>1, MaxLenAssumption DEF Index
<1>4. \A k \in 0..(i - 1) : input[k] \in Letters
  BY <1>1 DEF LineHeld
<1>5. QED
  BY <1>2, <1>3, <1>4 DEF Echoed, PromptIntact, EchoExact

\* A backspace takes away the last character shown, and never the prompt:
\* in the row of the prompt the cursor is i places behind it.
LEMMA ErasePrompts ==
  ASSUME IInv, Echoed, Erase
  PROVE  Echoed'
<1>1. pc = "read" /\ pc' = "read" /\ start' = start /\ after' = after /\ out' = out
  BY DEF Erase, Key
<1>2. PromptComing'
  BY <1>1 DEF PromptComing
<1>3. CASE UNCHANGED <<screen, input, i>>
  BY <1>1, <1>2, <1>3 DEF Echoed, screen, PromptIntact, EchoExact
<1>4. CASE /\ i > 0 /\ i' = i - 1 /\ input' = [input EXCEPT ![i - 1] = NUL]
           /\ Backspace
  <2>1. /\ start[1] \in 0..Cols /\ start[2] \in Nat /\ Cols \in Nat \ {0}
        /\ cursor_x \in 0..Cols /\ cursor_y \in Nat
        /\ cell \in [Cells -> Glyphs \cup {BLANK, MIXED}]
        /\ i \in Nat /\ i < MaxLen /\ MaxLen \in Nat
    BY <1>1, WhileReading
  <2>2. /\ cursor_y > start[2] \/ (cursor_y = start[2] /\ cursor_x >= start[1])
        /\ start[2] \in Rows /\ start[1] >= 2 =>
             cell[<<start[1] - 2, start[2]>>] = ">"
    BY <1>1, WhileReading
  <2>3. cursor_y = start[2] /\ start[2] \in Rows =>
          /\ cursor_x = start[1] + i
          /\ \A k \in 0..(i - 1) :
               cell[<<start[1] + k, start[2]>>] = Look(input[k])
    BY <1>1, WhileReading
  <2>4. \A k \in 0..(i - 2) : input'[k] = input[k]
    <3>1. input \in [Index -> Typed \cup Garbage \cup {NUL}]
      BY DEF IInv, TypeOK
    <3>2. \A k \in 0..(i - 2) : k \in Index /\ k # i - 1
      BY <2>1 DEF Index
    <3>3. QED  BY <1>4, <3>1, <3>2
  <2>5. CASE cursor_x = 0 /\ UNCHANGED screen
    <3>1. cursor_x' = cursor_x /\ cursor_y' = cursor_y /\ cell' = cell
      BY <2>5 DEF screen
    <3>2. ~(cursor_y = start[2] /\ start[2] \in Rows)
      BY <1>4, <2>1, <2>3, <2>5
    <3>3. QED
      BY <1>1, <1>2, <2>2, <3>1, <3>2 DEF Echoed, PromptIntact, EchoExact
  <2>6. CASE /\ cursor_x > 0 /\ cursor_x' = cursor_x - 1 /\ cursor_y' = cursor_y
             /\ cell' = [cell EXCEPT ![<<cursor_x - 1, cursor_y>>] = BLANK]
    <3>1. cursor_y \in Rows
      <4>1. ~(cursor_y + 16 > Height) /\ cursor_y % 16 = 0
        BY <2>1, <2>6 DEF IInv, TypeOK, ScreenTypeOK, Readable, OffscreenAtZero
      <4>2. QED  BY <2>1, <4>1, SizeAssumption DEF Rows
    <3>2. cursor_y = start[2] => cursor_x = start[1] + i
      BY <2>3, <3>1
    <3>3. cursor_y' > start[2] \/ (cursor_y' = start[2] /\ cursor_x' >= start[1])
      BY <1>4, <2>1, <2>2, <2>6, <3>2
    <3>4. ASSUME NEW x \in Columns, NEW y \in Rows,
                 y # cursor_y \/ x # cursor_x - 1
          PROVE  cell'[<<x, y>>] = cell[<<x, y>>]
      BY <2>1, <2>6, <3>4 DEF Cells
    <3>5. ASSUME start[2] \in Rows, start[1] >= 2
          PROVE  cell'[<<start[1] - 2, start[2]>>] = ">"
      <4> DEFINE x == start[1] - 2
      <4>1. x \in Columns /\ (start[2] # cursor_y \/ x # cursor_x - 1)
        BY <1>4, <2>1, <3>2, <3>5 DEF Columns
      <4>2. cell[<<x, start[2]>>] = ">"
        BY <2>2, <3>5
      <4> HIDE DEF x
      <4>3. cell'[<<x, start[2]>>] = ">"
        BY <3>4, <3>5, <4>1, <4>2
      <4>4. QED  BY <4>3 DEF x
    <3>6. PromptIntact'
      BY <1>1, <3>3, <3>5 DEF PromptIntact
    <3>7. ASSUME cursor_y' = start[2], start[2] \in Rows
          PROVE  /\ cursor_x' = start[1] + i'
                 /\ \A k \in 0..(i' - 1) :
                      cell'[<<start[1] + k, start[2]>>] = Look(input'[k])
      <4>1. cursor_x' = start[1] + i'
        BY <1>4, <2>1, <2>6, <3>2, <3>7
      <4>2. ASSUME NEW k \in 0..(i' - 1)
            PROVE  cell'[<<start[1] + k, start[2]>>] = Look(input'[k])
        <5> DEFINE x == start[1] + k
        <5>1. k \in 0..(i - 2) /\ k \in 0..(i - 1)
          BY <1>4, <2>1
        <5>2. x \in Columns /\ x # cursor_x - 1
          BY <1>4, <2>1, <2>6, <3>2, <3>7, <5>1 DEF Columns
        <5>3. cell[<<x, start[2]>>] = Look(input[k])
          BY <2>3, <2>6, <3>7, <5>1
        <5> HIDE DEF x
        <5>4. cell'[<<x, start[2]>>] = cell[<<x, start[2]>>]
          BY <3>4, <3>7, <5>2
        <5>5. QED  BY <2>4, <5>1, <5>3, <5>4 DEF x
      <4>3. QED  BY <4>1, <4>2
    <3>8. EchoExact'
      BY <1>1, <3>7 DEF EchoExact
    <3>9. QED  BY <1>2, <3>6, <3>8 DEF Echoed
  <2>7. QED  BY <1>4, <2>5, <2>6 DEF Backspace
<1>5. QED
  <2>1. BackspaceKey # Newline
    BY DEF BackspaceKey, Newline
  <2>2. KprintChar(BackspaceKey) => Backspace
    BY <2>1 DEF KprintChar
  <2>3. QED  BY <1>3, <1>4, <2>2 DEF Erase

\* A character typed is shown where the cursor is: in the row of the prompt,
\* right after the characters before it.
LEMMA InsertPrompts ==
  ASSUME IInv, Echoed, NEW ch \in Typed, Insert(ch)
  PROVE  Echoed'
<1>1. /\ pc = "read" /\ pc' = "read" /\ start' = start /\ after' = after
      /\ out' = out /\ ch \in Letters /\ ch \notin {Newline, BackspaceKey}
  BY DEF Insert, Key, Letters
<1>2. PromptComing'
  BY <1>1 DEF PromptComing
<1>3. CASE UNCHANGED <<screen, input, i>>
  BY <1>1, <1>2, <1>3 DEF Echoed, screen, PromptIntact, EchoExact
<1>4. CASE /\ i < MaxLen - 1 /\ i' = i + 1 /\ input' = [input EXCEPT ![i] = ch]
           /\ KprintChar(ch)
  <2>1. /\ start[1] \in 0..Cols /\ start[2] \in Nat /\ Cols \in Nat \ {0}
        /\ cursor_x \in 0..Cols /\ cursor_y \in Nat
        /\ cell \in [Cells -> Glyphs \cup {BLANK, MIXED}]
        /\ i \in Nat /\ i < MaxLen /\ MaxLen \in Nat
    BY <1>1, WhileReading
  <2>2. /\ cursor_y > start[2] \/ (cursor_y = start[2] /\ cursor_x >= start[1])
        /\ start[2] \in Rows /\ start[1] >= 2 =>
             cell[<<start[1] - 2, start[2]>>] = ">"
    BY <1>1, WhileReading
  <2>3. cursor_y = start[2] /\ start[2] \in Rows =>
          /\ cursor_x = start[1] + i
          /\ \A k \in 0..(i - 1) :
               cell[<<start[1] + k, start[2]>>] = Look(input[k])
    BY <1>1, WhileReading
  <2>4. input'[i] = ch /\ \A k \in 0..(i - 1) : input'[k] = input[k]
    <3>1. input \in [Index -> Typed \cup Garbage \cup {NUL}]
      BY DEF IInv, TypeOK
    <3>2. i \in Index /\ \A k \in 0..(i - 1) : k \in Index /\ k # i
      BY <2>1 DEF Index
    <3>3. QED  BY <1>4, <3>1, <3>2
  <2>5. Readable /\ ch \in Glyphs /\ PutGlyph(ch)
    BY <1>1, <1>4, LettersArePrinted DEF IInv, KprintChar
  <2>6. /\ cursor_y' = NextY
        /\ \/ NextX = cursor_x /\ NextY = cursor_y /\ cursor_x \in Columns
           \/ NextX = 0 /\ NextY = cursor_y + 16 /\ cursor_x = Cols
        /\ \/ /\ <<NextX, NextY>> \in Cells /\ cursor_x' = NextX + 1
              /\ cell' = [cell EXCEPT ![<<NextX, NextY>>] = Look(ch)]
           \/ cursor_y' \notin Rows /\ cursor_x' = 0 /\ cell' = cell
    BY <2>5, GlyphDrawn, Zenon
  <2>7. ASSUME NEW x \in Columns, NEW y \in Rows, y # NextY \/ x # NextX
        PROVE  cell'[<<x, y>>] = cell[<<x, y>>]
    <3>1. <<x, y>> \in Cells /\ <<x, y>> # <<NextX, NextY>>
      BY <2>7 DEF Cells
    <3>2. QED  BY <2>1, <2>6, <3>1
  <2>8. NextX \in Nat /\ NextY \in Nat
    BY <2>1, <2>6
  <2>9. cursor_y' > start[2] \/ (cursor_y' = start[2] /\ cursor_x' >= start[1])
    <3>1. CASE cursor_y > start[2]
      BY <2>1, <2>6, <3>1
    <3>2. CASE cursor_y = start[2] /\ cursor_x >= start[1]
      <4>1. CASE NextY = cursor_y + 16
        BY <2>1, <2>6, <3>2, <4>1
      <4>2. CASE NextX = cursor_x /\ NextY = cursor_y /\ cursor_x' = NextX + 1
        BY <2>1, <2>6, <3>2, <4>2
      <4>3. CASE NextY = cursor_y /\ cursor_y' \notin Rows /\ cursor_x' = 0
        <5>1. cursor_y % 16 = 0 /\ OffscreenAtZero
          BY <2>5 DEF Readable, ScreenTypeOK
        <5>2. cursor_y + 16 > Height
          <6>1. cursor_y \notin Rows
            BY <2>6, <4>3
          <6>2. QED  BY <2>1, <5>1, <6>1, SizeAssumption DEF Rows
        <5>3. cursor_x = 0
          BY <5>1, <5>2 DEF OffscreenAtZero
        <5>4. QED  BY <2>1, <2>6, <3>2, <4>3, <5>3
      <4>4. QED  BY <2>6, <4>1, <4>2, <4>3
    <3>3. QED  BY <2>2, <3>1, <3>2
  <2>10. ASSUME start[2] \in Rows, start[1] >= 2
         PROVE  cell'[<<start[1] - 2, start[2]>>] = ">"
    <3> DEFINE x == start[1] - 2
    <3>1. x \in Columns
      BY <2>1, <2>10 DEF Columns
    <3>2. start[2] # NextY \/ x # NextX
      BY <2>1, <2>2, <2>6
    <3>3. cell[<<x, start[2]>>] = ">"
      BY <2>2, <2>10
    <3> HIDE DEF x
    <3>4. cell'[<<x, start[2]>>] = ">"
      BY <2>7, <2>10, <3>1, <3>2, <3>3
    <3>5. QED  BY <3>4 DEF x
  <2>11. PromptIntact'
    BY <1>1, <2>9, <2>10 DEF PromptIntact
  <2>12. ASSUME cursor_y' = start[2], start[2] \in Rows
         PROVE  /\ cursor_x' = start[1] + i'
                /\ \A k \in 0..(i' - 1) :
                     cell'[<<start[1] + k, start[2]>>] = Look(input'[k])
    <3>1. NextX = cursor_x /\ NextY = cursor_y /\ cursor_y = start[2]
      BY <2>1, <2>2, <2>6, <2>12
    <3>2. /\ <<NextX, NextY>> \in Cells /\ cursor_x' = NextX + 1
          /\ cell' = [cell EXCEPT ![<<NextX, NextY>>] = Look(ch)]
      BY <2>6, <2>12
    <3>3. cursor_x = start[1] + i
      BY <2>3, <2>12, <3>1
    <3>4. cursor_x' = start[1] + i'
      BY <1>4, <2>1, <3>1, <3>2, <3>3
    <3>5. cell'[<<NextX, NextY>>] = Look(ch)
      BY <2>1, <3>2
    <3>6. ASSUME NEW k \in 0..(i' - 1)
          PROVE  cell'[<<start[1] + k, start[2]>>] = Look(input'[k])
      <4> DEFINE x == start[1] + k
      <4>1. CASE k = i
        <5>1. x = NextX
          BY <3>1, <3>3, <4>1
        <5> HIDE DEF x
        <5>2. cell'[<<x, start[2]>>] = Look(input'[k])
          BY <2>4, <3>1, <3>5, <4>1, <5>1
        <5>3. QED  BY <5>2 DEF x
      <4>2. CASE k # i
        <5>1. k \in 0..(i - 1)
          BY <1>4, <2>1, <4>2
        <5>2. x \in Columns /\ x # NextX
          BY <2>1, <2>6, <3>1, <3>3, <5>1 DEF Columns
        <5>3. cell[<<x, start[2]>>] = Look(input[k])
          BY <2>3, <2>12, <3>1, <5>1
        <5> HIDE DEF x
        <5>4. cell'[<<x, start[2]>>] = Look(input'[k])
          BY <2>4, <2>7, <2>12, <5>1, <5>2, <5>3
        <5>5. QED  BY <5>4 DEF x
      <4>3. QED  BY <4>1, <4>2
    <3>7. QED  BY <3>4, <3>6
  <2>13. EchoExact'
    BY <1>1, <2>12 DEF EchoExact
  <2>14. QED  BY <1>2, <2>11, <2>13 DEF Echoed
<1>5. QED  BY <1>3, <1>4 DEF Insert

\* A line that has been run is followed by the prompt again.
LEMMA ParsePrints ==
  ASSUME IInv, Parse
  PROVE  pc' = "print" /\ (after' = "read" => EndsInPrompt(out'))
<1>1. LineReady
  BY DEF Parse, IInv, TypeOK, LineReady
<1>2. CASE Say(Prompt, "read")
  <2>1. Len(Prompt) = 2 /\ Prompt[1] = ">" /\ Prompt[2] = Space
    BY DEF Prompt, Space
  <2>2. QED  BY <1>2, <2>1 DEF Say, EndsInPrompt
<1>3. CASE input[0] # NUL
  <2> DEFINE name == CString(NewInput, 0)
             args == IF Cut(input) = {} THEN <<>>
                     ELSE CString(NewInput, Len(name) + 1)
  <2>1. Dispatch(name, args)
    BY <1>3 DEF Parse, NewInput
  <2>2. name \in Seq(Letters) /\ args \in Seq(Letters)
    BY <1>1, PartsAreStrings, EmptySeq
  <2> HIDE DEF name, args
  <2>3. QED  BY <2>1, <2>2, DispatchPrompts
<1>4. QED  BY <1>2, <1>3 DEF Parse

LEMMA ParsePrompts ==
  ASSUME IInv, Parse
  PROVE  Echoed'
BY ParsePrints DEF Echoed, PromptComing, PromptIntact, EchoExact

LEMMA InitPrompts == Init => Echoed
<1> SUFFICES ASSUME Init PROVE Echoed
  OBVIOUS
<1>1. pc = "print" /\ \E text \in Texts : out = text \o Prompt
  BY DEF Init
<1>2. EndsInPrompt(out)
  BY <1>1, TextAssumption, PromptEnds
<1>3. QED  BY <1>1, <1>2 DEF Echoed, PromptComing, PromptIntact, EchoExact

LEMMA EchoInductive ==
  ASSUME IInv, Echoed, [Next]_vars
  PROVE  Echoed'
<1>1. CASE KprintStep
  BY <1>1, StepPrompts DEF Echoed, PromptIntact, EchoExact
<1>2. CASE KprintDone
  BY <1>2, DonePrompts DEF Echoed
<1>3. CASE Enter
  <2>1. pc' = "parse"
    BY <1>3 DEF Enter
  <2>2. QED  BY <2>1 DEF Echoed, PromptComing, PromptIntact, EchoExact
<1>4. CASE Erase
  BY <1>4, ErasePrompts
<1>5. ASSUME NEW ch \in Typed, Insert(ch)
      PROVE  Echoed'
  BY <1>5, InsertPrompts
<1>6. CASE Parse
  BY <1>6, ParsePrompts
<1>7. CASE UNCHANGED vars
  BY <1>7 DEF vars, screen, Echoed, PromptComing, PromptIntact, EchoExact
<1>8. CASE DeviceDone
  BY <1>8, DevicePrompts
<1>9. QED
  BY <1>1, <1>2, <1>3, <1>4, <1>5, <1>6, <1>7, <1>8 DEF Next, Halt, Readline

LEMMA EchoInvariance == Spec => []Echoed
BY InitPrompts, Invariance, EchoInductive, PTL DEF Spec

\* No sequence of backspaces reaches the prompt or anything before it, however
\* the line was typed, wrapped or pushed off the screen.
THEOREM PromptStays == Spec => []PromptIntact
<1>1. Echoed => PromptIntact
  BY DEF Echoed
<1>2. QED  BY <1>1, EchoInvariance, PTL

\* While the line is in the row of its prompt, the screen shows exactly what
\* will run, and the cursor is at its end.
THEOREM ShowsTheLine == Spec => []EchoExact
<1>1. Echoed => EchoExact
  BY DEF Echoed
<1>2. QED  BY <1>1, EchoInvariance, PTL

-----------------------------------------------------------------------------
(* What is shown of a line that has wrapped.                               *)

\* Division by the number of columns, as far as it is needed.
LEMMA InRow ==
  ASSUME NEW c \in Nat \ {0}, NEW q \in Nat, NEW r \in 0..(c - 1)
  PROVE  (q * c + r) % c = r /\ (q * c + r) \div c = q
OBVIOUS

LEMMA Divided ==
  ASSUME NEW c \in Nat \ {0}, NEW n \in Nat
  PROVE  /\ n \div c \in Nat /\ n % c \in 0..(c - 1)
         /\ n = (n \div c) * c + (n % c)
OBVIOUS

LEMMA BelowRow ==
  ASSUME NEW c \in Nat \ {0}, NEW n \in Nat, NEW q \in Nat, n < q * c
  PROVE  n \div c < q
OBVIOUS

LEMMA TimesNat ==
  ASSUME NEW c \in Nat, NEW q \in Nat
  PROVE  /\ q * c \in Nat /\ (q + 1) * c = q * c + c
         /\ q >= 1 => q * c >= c
OBVIOUS

\* A line starts on a row of text.
StartOnRow == pc = "read" => start[2] % 16 = 0

\* The place of the cursor while a line is read: q rows below the prompt.
LEMMA CursorPlace ==
  ASSUME IInv, Echoed, StartOnRow, pc = "read", NEW q,
         q = (cursor_y - start[2]) \div 16
  PROVE  /\ q \in Nat /\ cursor_y = start[2] + 16 * q
         /\ q * Cols \in Nat /\ (q + 1) * Cols = q * Cols + Cols
         /\ Reach = q * Cols + cursor_x - start[1] /\ Reach \in Nat
<1>1. /\ start[1] \in 0..Cols /\ start[2] \in Nat /\ Cols \in Nat \ {0}
      /\ cursor_x \in 0..Cols /\ cursor_y \in Nat
      /\ cursor_y > start[2] \/ (cursor_y = start[2] /\ cursor_x >= start[1])
  BY WhileReading
<1>2. start[2] % 16 = 0 /\ cursor_y % 16 = 0
  BY DEF StartOnRow, IInv, TypeOK, ScreenTypeOK
<1>3. q \in Nat /\ cursor_y = start[2] + 16 * q
  BY <1>1, <1>2
<1>4. q * Cols \in Nat /\ (q + 1) * Cols = q * Cols + Cols
      /\ (q >= 1 => q * Cols >= Cols)
  BY <1>1, <1>3, TimesNat
<1>5. Reach = q * Cols + cursor_x - start[1]
  BY DEF Reach
<1>6. Reach \in Nat
  <2>1. CASE q = 0
    <3>1. q * Cols = 0 /\ cursor_x >= start[1]
      <4>1. cursor_y = start[2]
        BY <1>1, <1>3, <2>1
      <4>2. cursor_x >= start[1]
        BY <1>1, <4>1
      <4>3. 0 * Cols = 0
        BY <1>1
      <4>4. QED  BY <2>1, <4>2, <4>3
    <3>2. QED  BY <1>1, <1>5, <3>1
  <2>2. CASE q >= 1
    <3> DEFINE m == q * Cols
    <3>1. m \in Nat /\ m >= Cols /\ Reach = m + cursor_x - start[1]
      BY <1>4, <1>5, <2>2
    <3> HIDE DEF m
    <3>2. QED  BY <1>1, <3>1
  <2>3. QED  BY <1>3, <2>1, <2>2
<1>7. QED  BY <1>3, <1>4, <1>5, <1>6

LEMMA SpotIs ==
  ASSUME NEW k, NEW n, n = start[1] + k - 1
  PROVE  Spot(k) = <<n % Cols, start[2] + 16 * (n \div Cols)>>
BY DEF Spot

\* A place before the cursor is a cell of the screen, and only the last of
\* them is the one a backspace clears.
LEMMA SpotsBefore ==
  ASSUME IInv, Echoed, StartOnRow, pc = "read", cursor_y \in Rows,
         NEW k \in 1..Reach
  PROVE  \E x \in Columns, y \in Rows :
           /\ Spot(k) = <<x, y>>
           /\ y < cursor_y \/ (y = cursor_y /\ x < cursor_x)
           /\ y = cursor_y /\ x = cursor_x - 1 => k = Reach
<1> DEFINE q == (cursor_y - start[2]) \div 16
           n == start[1] + k - 1
           d == n \div Cols
           r == n % Cols
<1>1. /\ start[1] \in 0..Cols /\ start[2] \in Nat /\ Cols \in Nat \ {0}
      /\ cursor_x \in 0..Cols /\ cursor_y \in Nat
  BY WhileReading
<1>2. /\ q \in Nat /\ cursor_y = start[2] + 16 * q
      /\ q * Cols \in Nat /\ (q + 1) * Cols = q * Cols + Cols
      /\ Reach = q * Cols + cursor_x - start[1] /\ Reach \in Nat
  BY CursorPlace
<1>3. start[2] % 16 = 0
  BY DEF StartOnRow
<1> HIDE DEF q
<1>4. n \in Nat /\ n < q * Cols + cursor_x
  BY <1>1, <1>2
<1>5. Spot(k) = <<r, start[2] + 16 * d>>
  BY SpotIs
<1>6. n = q * Cols + (cursor_x - 1) => k = Reach
  BY <1>1, <1>2
<1> HIDE DEF n
<1>7. d \in Nat /\ r \in 0..(Cols - 1) /\ n = d * Cols + r
  BY <1>1, <1>4, Divided
<1>8. d < q + 1
  <2>1. n < (q + 1) * Cols
    <3> DEFINE m == q * Cols
    <3>1. m \in Nat /\ n < m + cursor_x /\ (q + 1) * Cols = m + Cols
      BY <1>2, <1>4
    <3> HIDE DEF m
    <3>2. QED  BY <1>1, <1>4, <3>1
  <2> DEFINE p == q + 1
  <2>2. p \in Nat /\ n < p * Cols
    BY <1>2, <2>1
  <2> HIDE DEF p
  <2>3. n \div Cols < p
    BY <1>1, <1>4, <2>2, BelowRow
  <2>4. QED  BY <2>3 DEF p
<1> HIDE DEF d, r
<1>9. start[2] + 16 * d \in Rows /\ r \in Columns
  <2>1. (start[2] + 16 * d) % 16 = 0 /\ start[2] + 16 * d <= cursor_y
    BY <1>1, <1>2, <1>3, <1>7, <1>8
  <2>2. cursor_y + 16 <= Height
    BY DEF Rows
  <2>3. QED  BY <1>1, <1>7, <2>1, <2>2, SizeAssumption DEF Rows, Columns
<1>10. CASE d = q
  <2>1. n = q * Cols + r
    BY <1>7, <1>10
  <2>2. start[2] + 16 * d = cursor_y
    BY <1>2, <1>10
  <2>3. r < cursor_x
    <3> DEFINE m == q * Cols
    <3>1. m \in Nat /\ n = m + r /\ n < m + cursor_x
      BY <1>2, <1>4, <2>1
    <3> HIDE DEF m
    <3>2. QED  BY <1>1, <1>7, <3>1
  <2>4. r = cursor_x - 1 => k = Reach
    BY <1>6, <2>1
  <2>5. QED  BY <1>5, <1>9, <2>2, <2>3, <2>4
<1>11. CASE d < q
  <2>1. start[2] + 16 * d < cursor_y
    BY <1>1, <1>2, <1>7, <1>11
  <2>2. start[2] + 16 * d # cursor_y
    BY <1>1, <1>7, <2>1
  <2>3. QED  BY <1>5, <1>9, <2>1, <2>2
<1>12. QED  BY <1>2, <1>7, <1>8, <1>10, <1>11

\* The next character goes to the next place.
LEMMA SpotNext ==
  ASSUME IInv, Echoed, StartOnRow, pc = "read",
         \/ NextX = cursor_x /\ NextY = cursor_y /\ cursor_x \in Columns
         \/ NextX = 0 /\ NextY = cursor_y + 16 /\ cursor_x = Cols
  PROVE  /\ Spot(Reach + 1) = <<NextX, NextY>>
         /\ start' = start /\ cursor_x' = NextX + 1 /\ cursor_y' = NextY =>
              Reach' = Reach + 1
<1> DEFINE q == (cursor_y - start[2]) \div 16
           n == start[1] + (Reach + 1) - 1
<1>1. /\ start[1] \in 0..Cols /\ start[2] \in Nat /\ Cols \in Nat \ {0}
      /\ cursor_x \in 0..Cols /\ cursor_y \in Nat
  BY WhileReading
<1>2. /\ q \in Nat /\ cursor_y = start[2] + 16 * q
      /\ q * Cols \in Nat /\ (q + 1) * Cols = q * Cols + Cols
      /\ Reach = q * Cols + cursor_x - start[1] /\ Reach \in Nat
  BY CursorPlace
<1>3. Spot(Reach + 1) = <<n % Cols, start[2] + 16 * (n \div Cols)>>
  BY SpotIs
<1> HIDE DEF q
<1>4. n = q * Cols + cursor_x
  BY <1>1, <1>2
<1>5. Reach' = ((cursor_y' - start'[2]) \div 16) * Cols + cursor_x' - start'[1]
  BY DEF Reach
<1> HIDE DEF n
<1>6. CASE NextX = cursor_x /\ NextY = cursor_y /\ cursor_x \in Columns
  <2>1. n % Cols = cursor_x /\ n \div Cols = q
    <3>1. cursor_x \in 0..(Cols - 1)
      BY <1>6 DEF Columns
    <3>2. QED  BY <1>1, <1>2, <1>4, <3>1, InRow
  <2>2. Spot(Reach + 1) = <<NextX, NextY>>
    BY <1>2, <1>3, <1>6, <2>1
  <2>3. ASSUME start' = start, cursor_x' = NextX + 1, cursor_y' = NextY
        PROVE  Reach' = Reach + 1
    <3>1. (cursor_y' - start'[2]) \div 16 = q
      BY <1>6, <2>3 DEF q
    <3>2. Reach' = q * Cols + (cursor_x + 1) - start[1]
      BY <1>5, <1>6, <2>3, <3>1
    <3>3. QED  BY <1>1, <1>2, <3>2
  <2>4. QED  BY <2>2, <2>3
<1>7. CASE NextX = 0 /\ NextY = cursor_y + 16 /\ cursor_x = Cols
  <2>1. n % Cols = 0 /\ n \div Cols = q + 1
    <3>1. n = (q + 1) * Cols + 0
      BY <1>2, <1>4, <1>7
    <3>2. QED  BY <1>1, <1>2, <3>1, InRow
  <2>2. Spot(Reach + 1) = <<NextX, NextY>>
    <3>1. start[2] + 16 * (q + 1) = cursor_y + 16
      BY <1>1, <1>2
    <3>2. QED  BY <1>3, <1>7, <2>1, <3>1
  <2>3. ASSUME start' = start, cursor_x' = NextX + 1, cursor_y' = NextY
        PROVE  Reach' = Reach + 1
    <3>1. (cursor_y' - start'[2]) \div 16 = q + 1
      <4>1. cursor_y' - start'[2] = 16 * (q + 1)
        BY <1>1, <1>2, <1>7, <2>3
      <4>2. QED  BY <1>2, <4>1
    <3>2. Reach' = (q + 1) * Cols + 1 - start[1]
      BY <1>5, <1>7, <2>3, <3>1
    <3>3. QED  BY <1>1, <1>2, <1>7, <3>2
  <2>4. QED  BY <2>2, <2>3
<1>8. QED  BY <1>6, <1>7

\* An embedding of n places grows by one at its end, and shrinks by one.
LEMMA Extended ==
  ASSUME NEW n \in Nat, NEW L \in Nat, NEW at \in [0..(n - 1) -> 1..L],
         \A j, k \in 0..(n - 1) : j < k => at[j] < at[k],
         NEW f, f = [k \in 0..n |-> IF k = n THEN L + 1 ELSE at[k]]
  PROVE  /\ f \in [0..n -> 1..(L + 1)]
         /\ \A j, k \in 0..n : j < k => f[j] < f[k]
         /\ f[n] = L + 1 /\ \A k \in 0..(n - 1) : f[k] = at[k] /\ at[k] \in 1..L
<1>1. \A k \in 0..n : k # n => k \in 0..(n - 1)
  OBVIOUS
<1>2. \A k \in 0..(n - 1) : at[k] \in 1..L /\ k \in 0..n /\ k # n
  OBVIOUS
<1>3. f[n] = L + 1 /\ \A k \in 0..(n - 1) : f[k] = at[k]
  BY <1>2
<1>4. \A k \in 0..n : f[k] \in 1..(L + 1)
  BY <1>1, <1>2, <1>3
<1>5. f \in [0..n -> 1..(L + 1)]
  BY <1>4
<1>6. ASSUME NEW j \in 0..n, NEW k \in 0..n, j < k
      PROVE  f[j] < f[k]
  <2>1. j \in 0..(n - 1)
    BY <1>6
  <2>2. CASE k = n
    BY <1>2, <1>3, <2>1, <2>2
  <2>3. CASE k # n
    BY <1>1, <1>3, <1>6, <2>1, <2>3
  <2>4. QED  BY <2>2, <2>3
<1>7. QED  BY <1>2, <1>3, <1>5, <1>6

LEMMA Shortened ==
  ASSUME NEW n \in Nat \ {0}, NEW L \in Nat, NEW at \in [0..(n - 1) -> 1..L],
         \A j, k \in 0..(n - 1) : j < k => at[j] < at[k],
         NEW f, f = [k \in 0..(n - 2) |-> at[k]]
  PROVE  /\ L >= 1 /\ f \in [0..(n - 2) -> 1..(L - 1)]
         /\ \A j, k \in 0..(n - 2) : j < k => f[j] < f[k]
         /\ \A k \in 0..(n - 2) : f[k] = at[k] /\ at[k] \in 1..L /\ at[k] < L
<1>1. n - 1 \in 0..(n - 1) /\ at[n - 1] \in 1..L
  OBVIOUS
<1>2. \A k \in 0..(n - 2) : k \in 0..(n - 1) /\ k < n - 1
  OBVIOUS
<1>3. \A k \in 0..(n - 2) : at[k] \in 1..L /\ at[k] < at[n - 1]
  BY <1>1, <1>2
<1>4. \A k \in 0..(n - 2) : at[k] \in 1..(L - 1) /\ at[k] < L
  BY <1>1, <1>3
<1>5. f \in [0..(n - 2) -> 1..(L - 1)]
  BY <1>4
<1>6. \A j, k \in 0..(n - 2) : j < k => f[j] < f[k]
  BY <1>2
<1>7. QED  BY <1>1, <1>3, <1>4, <1>5, <1>6

Shows == StartOnRow /\ BufferShown

\* BufferShown while a line is read, unfolded.
LEMMA Embedded ==
  ASSUME Shows, pc = "read", cursor_y \in Rows
  PROVE  \E at \in [0..(i - 1) -> 1..Reach] :
           /\ \A j, k \in 0..(i - 1) : j < k => at[j] < at[k]
           /\ \A k \in 0..(i - 1) : cell[Spot(at[k])] = Look(input[k])
BY DEF Shows, BufferShown

\* A character typed is shown at the next place, wherever the line has got to.
LEMMA InsertShows ==
  ASSUME IInv, Echoed, Shows, NEW ch \in Typed, Insert(ch)
  PROVE  Shows'
<1>1. /\ pc = "read" /\ pc' = "read" /\ start' = start
      /\ ch \in Letters /\ ch \notin {Newline, BackspaceKey}
  BY DEF Insert, Key, Letters
<1>2. StartOnRow /\ StartOnRow'
  BY <1>1 DEF Shows, StartOnRow
<1>3. CASE UNCHANGED <<screen, input, i>>
  BY <1>1, <1>2, <1>3 DEF Shows, screen, BufferShown, Spot, Reach
<1>4. CASE /\ i < MaxLen - 1 /\ i' = i + 1 /\ input' = [input EXCEPT ![i] = ch]
           /\ KprintChar(ch)
  <2> SUFFICES ASSUME cursor_y' \in Rows
               PROVE  BufferShown'
    BY <1>2 DEF Shows, BufferShown
  <2>1. /\ cell \in [Cells -> Glyphs \cup {BLANK, MIXED}]
        /\ cursor_x \in 0..Cols /\ cursor_y \in Nat /\ Cols \in Nat \ {0}
        /\ i \in Nat /\ i < MaxLen /\ MaxLen \in Nat
    BY <1>1, WhileReading
  <2>2. input'[i] = ch /\ \A k \in 0..(i - 1) : input'[k] = input[k]
    <3>1. input \in [Index -> Typed \cup Garbage \cup {NUL}]
      BY DEF IInv, TypeOK
    <3>2. i \in Index /\ \A k \in 0..(i - 1) : k \in Index /\ k # i
      BY <2>1 DEF Index
    <3>3. QED  BY <1>4, <3>1, <3>2
  <2>3. Readable /\ ch \in Glyphs /\ PutGlyph(ch)
    BY <1>1, <1>4, LettersArePrinted DEF IInv, KprintChar
  <2>4. /\ cursor_y' = NextY
        /\ \/ NextX = cursor_x /\ NextY = cursor_y /\ cursor_x \in Columns
           \/ NextX = 0 /\ NextY = cursor_y + 16 /\ cursor_x = Cols
        /\ \/ /\ <<NextX, NextY>> \in Cells /\ cursor_x' = NextX + 1
              /\ cell' = [cell EXCEPT ![<<NextX, NextY>>] = Look(ch)]
           \/ cursor_y' \notin Rows /\ cursor_x' = 0 /\ cell' = cell
    BY <2>3, GlyphDrawn, Zenon
  <2>5. /\ <<NextX, NextY>> \in Cells /\ cursor_x' = NextX + 1
        /\ cell' = [cell EXCEPT ![<<NextX, NextY>>] = Look(ch)]
    BY <2>4
  <2>6. cursor_y \in Rows
    <3>1. cursor_y % 16 = 0
      BY <2>3 DEF Readable, ScreenTypeOK
    <3>2. cursor_y' = cursor_y \/ cursor_y' = cursor_y + 16
      BY <2>4
    <3>3. cursor_y' + 16 <= Height
      BY DEF Rows
    <3>4. cursor_y + 16 <= Height /\ cursor_y <= Height
      BY <2>1, <3>2, <3>3, SizeAssumption
    <3>5. QED  BY <2>1, <3>1, <3>4 DEF Rows
  <2> DEFINE L == Reach
  <2>7. L \in Nat
    BY <1>1, <1>2, CursorPlace
  <2>8. Spot(L + 1) = <<NextX, NextY>> /\ Reach' = L + 1
    <3>1. /\ Spot(Reach + 1) = <<NextX, NextY>>
          /\ start' = start /\ cursor_x' = NextX + 1 /\ cursor_y' = NextY =>
               Reach' = Reach + 1
      BY <1>1, <1>2, <2>4, SpotNext, Zenon
    <3>2. QED  BY <1>1, <2>4, <2>5, <3>1
  <2>9. PICK at \in [0..(i - 1) -> 1..L] :
          /\ \A j, k \in 0..(i - 1) : j < k => at[j] < at[k]
          /\ \A k \in 0..(i - 1) : cell[Spot(at[k])] = Look(input[k])
    BY <1>1, <2>6, Embedded
  <2>10. \A k \in 1..L : cell'[Spot(k)] = cell[Spot(k)]
    <3> SUFFICES ASSUME NEW k \in 1..L
                 PROVE  cell'[Spot(k)] = cell[Spot(k)]
      OBVIOUS
    <3>1. PICK x \in Columns, y \in Rows :
            /\ Spot(k) = <<x, y>>
            /\ y < cursor_y \/ (y = cursor_y /\ x < cursor_x)
      BY <1>1, <1>2, <2>6, SpotsBefore
    <3>2. x # NextX \/ y # NextY
      BY <2>1, <2>4, <3>1 DEF Columns, Rows
    <3>3. <<x, y>> \in Cells /\ <<x, y>> # <<NextX, NextY>>
      BY <3>2 DEF Cells
    <3>4. cell'[<<x, y>>] = cell[<<x, y>>]
      BY <2>1, <2>5, <3>3
    <3>5. QED  BY <3>1, <3>4
  <2> HIDE DEF L
  <2> DEFINE f == [k \in 0..i |-> IF k = i THEN L + 1 ELSE at[k]]
  <2>11. /\ f \in [0..i -> 1..(L + 1)]
         /\ \A j, k \in 0..i : j < k => f[j] < f[k]
         /\ f[i] = L + 1 /\ \A k \in 0..(i - 1) : f[k] = at[k] /\ at[k] \in 1..L
    <3> HIDE DEF f
    <3>1. f = [k \in 0..i |-> IF k = i THEN L + 1 ELSE at[k]]
      BY DEF f
    <3>2. QED  BY <2>1, <2>7, <2>9, <3>1, Extended
  <2> HIDE DEF f
  <2>12. \A k \in 0..i : cell'[Spot(f[k])] = Look(input'[k])
    <3>1. cell'[Spot(f[i])] = Look(input'[i])
      BY <2>1, <2>2, <2>5, <2>8, <2>11
    <3>2. ASSUME NEW k \in 0..(i - 1)
          PROVE  cell'[Spot(f[k])] = Look(input'[k])
      BY <2>2, <2>9, <2>10, <2>11
    <3>3. \A k \in 0..i : k = i \/ k \in 0..(i - 1)
      BY <2>1
    <3>4. QED  BY <3>1, <3>2, <3>3
  <2>13. i' - 1 = i
    BY <1>4, <2>1
  <2>14. \E g \in [0..(i' - 1) -> 1..Reach'] :
           /\ \A j, k \in 0..(i' - 1) : j < k => g[j] < g[k]
           /\ \A k \in 0..(i' - 1) : cell'[Spot(g[k])] = Look(input'[k])
    BY <2>8, <2>11, <2>12, <2>13
  <2>15. QED  BY <1>1, <2>14 DEF BufferShown, Spot
<1>5. QED  BY <1>3, <1>4 DEF Insert

\* A backspace takes away the last place shown, or none at the start of a row.
LEMMA EraseShows ==
  ASSUME IInv, Echoed, Shows, Erase
  PROVE  Shows'
<1>1. pc = "read" /\ pc' = "read" /\ start' = start
  BY DEF Erase, Key
<1>2. StartOnRow /\ StartOnRow'
  BY <1>1 DEF Shows, StartOnRow
<1>3. CASE UNCHANGED <<screen, input, i>>
  BY <1>1, <1>2, <1>3 DEF Shows, screen, BufferShown, Spot, Reach
<1>4. CASE /\ i > 0 /\ i' = i - 1 /\ input' = [input EXCEPT ![i - 1] = NUL]
           /\ Backspace
  <2> SUFFICES ASSUME cursor_y' \in Rows
               PROVE  BufferShown'
    BY <1>2 DEF Shows, BufferShown
  <2>1. /\ cell \in [Cells -> Glyphs \cup {BLANK, MIXED}]
        /\ cursor_x \in 0..Cols /\ cursor_y \in Nat /\ Cols \in Nat \ {0}
        /\ i \in Nat /\ i < MaxLen /\ MaxLen \in Nat
    BY <1>1, WhileReading
  <2>2. \A k \in 0..(i - 2) : input'[k] = input[k]
    <3>1. input \in [Index -> Typed \cup Garbage \cup {NUL}]
      BY DEF IInv, TypeOK
    <3>2. \A k \in 0..(i - 2) : k \in Index /\ k # i - 1
      BY <2>1 DEF Index
    <3>3. QED  BY <1>4, <3>1, <3>2
  <2>3. cursor_y \in Rows
    BY <1>4 DEF Backspace, screen
  <2> DEFINE L == Reach
  <2>4. L \in Nat /\ \A k \in 0..(i - 2) : k \in 0..(i - 1)
    BY <1>1, <1>2, <2>1, CursorPlace
  <2>5. PICK at \in [0..(i - 1) -> 1..L] :
          /\ \A j, k \in 0..(i - 1) : j < k => at[j] < at[k]
          /\ \A k \in 0..(i - 1) : cell[Spot(at[k])] = Look(input[k])
    BY <1>1, <2>3, Embedded
  <2>6. /\ Reach' = L \/ Reach' = L - 1
        /\ \A k \in 1..L : k < L => cell'[Spot(k)] = cell[Spot(k)]
    <3>1. CASE UNCHANGED screen
      BY <1>1, <3>1 DEF screen, Reach
    <3>2. CASE /\ cursor_x > 0 /\ cursor_x' = cursor_x - 1 /\ cursor_y' = cursor_y
               /\ cell' = [cell EXCEPT ![<<cursor_x - 1, cursor_y>>] = BLANK]
      <4>1. Reach' = L - 1
        <5> DEFINE m == ((cursor_y - start[2]) \div 16) * Cols
        <5>1. m \in Nat
          BY <1>1, <1>2, CursorPlace
        <5>2. L = m + cursor_x - start[1] /\ Reach' = m + (cursor_x - 1) - start[1]
          BY <1>1, <3>2 DEF Reach
        <5>3. start[1] \in 0..Cols
          BY <1>1, WhileReading
        <5> HIDE DEF m, L
        <5>4. QED  BY <2>1, <5>1, <5>2, <5>3
      <4>2. ASSUME NEW k \in 1..L, k < L
            PROVE  cell'[Spot(k)] = cell[Spot(k)]
        <5>1. PICK x \in Columns, y \in Rows :
                /\ Spot(k) = <<x, y>>
                /\ y = cursor_y /\ x = cursor_x - 1 => k = L
          BY <1>1, <1>2, <2>3, SpotsBefore
        <5>2. x # cursor_x - 1 \/ y # cursor_y
          BY <2>4, <4>2, <5>1
        <5>3. <<x, y>> \in Cells /\ <<x, y>> # <<cursor_x - 1, cursor_y>>
          BY <5>2 DEF Cells
        <5>4. cell'[<<x, y>>] = cell[<<x, y>>]
          BY <2>1, <3>2, <5>3
        <5>5. QED  BY <5>1, <5>4
      <4>3. QED  BY <4>1, <4>2
    <3>3. QED  BY <1>4, <3>1, <3>2 DEF Backspace
  <2> HIDE DEF L
  <2> DEFINE f == [k \in 0..(i - 2) |-> at[k]]
  <2>7. /\ L >= 1 /\ f \in [0..(i - 2) -> 1..(L - 1)]
        /\ \A j, k \in 0..(i - 2) : j < k => f[j] < f[k]
        /\ \A k \in 0..(i - 2) : f[k] = at[k] /\ at[k] \in 1..L /\ at[k] < L
    <3> HIDE DEF f
    <3>1. f = [k \in 0..(i - 2) |-> at[k]] /\ i \in Nat \ {0}
      BY <1>4, <2>1 DEF f
    <3>2. QED  BY <2>4, <2>5, <3>1, Shortened
  <2> HIDE DEF f
  <2>8. f \in [0..(i - 2) -> 1..Reach']
    <3>1. \A k \in 0..(i - 2) : f[k] \in 1..Reach'
      BY <2>4, <2>6, <2>7
    <3>2. QED  BY <2>7, <3>1
  <2>9. \A k \in 0..(i - 2) : cell'[Spot(f[k])] = Look(input'[k])
    BY <2>2, <2>4, <2>5, <2>6, <2>7
  <2>10. i' - 1 = i - 2
    BY <1>4, <2>1
  <2>11. \E g \in [0..(i' - 1) -> 1..Reach'] :
           /\ \A j, k \in 0..(i' - 1) : j < k => g[j] < g[k]
           /\ \A k \in 0..(i' - 1) : cell'[Spot(g[k])] = Look(input'[k])
    BY <2>7, <2>8, <2>9, <2>10
  <2>12. QED  BY <1>1, <2>11 DEF BufferShown, Spot
<1>5. QED
  <2>1. KprintChar(BackspaceKey) => Backspace
    BY DEF KprintChar, BackspaceKey, Newline
  <2>2. QED  BY <1>3, <1>4, <2>1 DEF Erase

LEMMA ShowsInductive ==
  ASSUME IInv, Echoed, Shows, [Next]_vars
  PROVE  Shows'
<1>1. CASE pc' # "read"
  BY <1>1 DEF Shows, StartOnRow, BufferShown
<1>2. CASE KprintDone
  <2>1. i' = 0 /\ start' = <<cursor_x, cursor_y>> /\ cursor_y % 16 = 0
    BY <1>2 DEF KprintDone, IInv, TypeOK, ScreenTypeOK
  <2>2. StartOnRow'
    BY <2>1 DEF StartOnRow
  <2>3. BufferShown'
    <3> DEFINE none == [k \in 0..(i' - 1) |-> 1]
    <3>1. \A k \in 0..(i' - 1) : FALSE
      BY <2>1
    <3>2. none \in [0..(i' - 1) -> 1..Reach']
      BY <3>1
    <3>3. QED  BY <3>1, <3>2 DEF BufferShown
  <2>4. QED  BY <2>2, <2>3 DEF Shows
<1>3. CASE Erase
  BY <1>3, EraseShows
<1>4. ASSUME NEW ch \in Typed, Insert(ch)
      PROVE  Shows'
  BY <1>4, InsertShows
<1>5. CASE UNCHANGED vars
  BY <1>5 DEF vars, screen, Shows, StartOnRow, BufferShown, Spot, Reach
<1>6. CASE KprintStep
  BY <1>1, <1>6 DEF KprintStep
<1>7. CASE Enter
  BY <1>1, <1>7 DEF Enter
<1>8. CASE Parse
  <2>1. pc' = "print"
    BY <1>8, ParsePrints
  <2>2. QED  BY <1>1, <2>1
<1>9. CASE DeviceDone
  BY <1>1, <1>9, DonePrints
<1>10. QED
  BY <1>2, <1>3, <1>4, <1>5, <1>6, <1>7, <1>8, <1>9 DEF Next, Halt, Readline

LEMMA ShowsInvariance == Spec => []Shows
<1>1. Init => Shows
  BY DEF Init, Shows, StartOnRow, BufferShown
<1>2. IInv /\ Echoed /\ Shows /\ [Next]_vars => Shows'
  BY ShowsInductive
<1>3. QED  BY <1>1, <1>2, Invariance, EchoInvariance, PTL DEF Spec

\* Although backspace cannot go back up a row, the screen never hides a
\* character that will run: the buffer can be read off it, in order, between
\* the prompt and the cursor, however often the line wrapped.
THEOREM NothingRunsUnseen == Spec => []BufferShown
<1>1. Shows => BufferShown
  BY DEF Shows
<1>2. QED  BY <1>1, ShowsInvariance, PTL
=============================================================================
