----------------------------- MODULE Framebuffer -----------------------------
(***************************************************************************)
(* The pixels of kernel/drivers/screen.c on the framebuffer as it lies in  *)
(* memory, pitch pixels from a row to the next: the console, whose cells   *)
(* (eight pixels by sixteen) are those of Screen, and the crash screen that*)
(* rsod (kernel/arch/x86_64/idt.c) draws over it, from any state of it.    *)
(*                                                                         *)
(* The picture is the set of the positions that are not black; colours are *)
(* left out otherwise, so clear(0xFF0000) sets pixels, clear(0) and a black*)
(* rectangle take them away.  A glyph is the set of its pixels, (column,   *)
(* row).  When rsod starts to draw does not matter: nothing else runs.     *)
(***************************************************************************)
EXTENDS Strings

CONSTANTS
  Width, Height,  \* target_fb->width, target_fb->height
  Pitches,        \* what target_fb->pitch / 4 may be
  Font,           \* from characters to glyphs
  Typed,          \* the characters the console prints
  Bottom,         \* bound: how far down the cursor goes
  Layout,         \* what rsod draws where, [rect, texts, rip, rebooting, seconds]:
                  \* in the code 740 by 480 pixels at (240, 140), and cells
                  \* (32..46, 10..20)
  HexDigits,      \* 16: the digits utoa_hex writes
  Addresses       \* the instruction pointers a crash may come at

Box == (0..7) \X (0..15)

\* The glyphs of font.psf are distinct, and the space's is empty.
ASSUME FontAssumption ==
  /\ \A ch \in DOMAIN Font : Font[ch] \subseteq Box
  /\ \A ch, other \in DOMAIN Font : Font[ch] = Font[other] => ch = other
ASSUME PitchAssumption ==
  Width \in Nat \ {0} /\ Height \in Nat /\ \A p \in Pitches : p \in Nat /\ Width <= p
ASSUME TypedAssumption == Typed \subseteq DOMAIN Font

VARIABLES
  cursor_x, cursor_y, lit,
  pitch,
  at,         \* "console", or in rsod "draw", "sleep"; "reset"
  wait_secs,
  rip         \* frame->rip

console == <<cursor_x, cursor_y, lit>>
vars == <<console, pitch, at, wait_secs, rip>>

At(x, y) == y * pitch + x
\* The positions of a glyph's pixels when its corner is at (cx, cy).
Drawn(glyph, cx, cy) == { At(cx + p[1], cy + p[2]) : p \in glyph }

put_char(ch, cx, cy) == lit' = lit \cup Drawn(Font[ch], cx, cy)

\* One pixel row too few.
EraseShort == lit' = lit \ Drawn((0..7) \X (0..14), cursor_x' * 8, cursor_y)
\* The pixels of the cell, those outside the screen left alone.
Erase == lit' = lit \ Drawn({ p \in Box : /\ cursor_x' * 8 + p[1] < Width
                                          /\ cursor_y + p[2] < Height },
                            cursor_x' * 8, cursor_y)

backspace ==
  \/ cursor_x = 0 /\ UNCHANGED console
  \/ /\ cursor_x > 0
     /\ cursor_x' = cursor_x - 1 /\ UNCHANGED cursor_y
     /\ Erase

newline == cursor_x' = 0 /\ cursor_y' = cursor_y + 16 /\ UNCHANGED lit

glyph(ch) ==
  LET full == cursor_x * 8 >= Width
      x    == IF full THEN 0 ELSE cursor_x
      y    == IF full THEN cursor_y + 16 ELSE cursor_y
  IN  /\ cursor_y' = y
      /\ IF y + 16 <= Height
         THEN put_char(ch, x * 8, y) /\ cursor_x' = x + 1
         ELSE cursor_x' = x /\ UNCHANGED lit

\* What clear writes: Width * Height pixels from the first on.
Cleared == 0..(Width * Height - 1)
clear == /\ lit' = lit \ Cleared
         /\ cursor_x' = 0 /\ cursor_y' = 0

-----------------------------------------------------------------------------
(* rsod.  Its drawing, as operators from the picture to the picture.       *)

\* The pixels of the rectangle that are on the screen, black.
draw_rect(picture, r) ==
  picture \ { At(j, i) : j \in { j \in r.x..(r.x + r.width - 1) : j >= 0 /\ j < Width },
                         i \in { i \in r.y..(r.y + r.height - 1) : i >= 0 /\ i < Height } }

\* put_char_bg, that leaves the background as it is.
PutCharsTransparent(picture, str, x, y, shown) ==
  picture \cup UNION { Drawn(Font[str[i]], (x + i - 1) * 8, y * 16) : i \in shown }
\* put_char_bg of the characters of str that are shown: the whole box.
PutCharsBg(picture, str, x, y, shown) ==
  (picture \ UNION { Drawn(Box, (x + i - 1) * 8, y * 16) : i \in shown })
  \cup UNION { Drawn(Font[str[i]], (x + i - 1) * 8, y * 16) : i \in shown }

\* Whether a whole cell is on the screen.
OnScreen(x, y) == x * 8 + 8 <= Width /\ y * 16 + 16 <= Height

kprint_at(picture, str, x, y) ==
  PutCharsBg(picture, str, x, y, { i \in DOMAIN str : OnScreen(x + i - 1, y) })

\* kprint_at of several texts, [str, x, y], in order.
Texts(picture, texts) ==
  LET f[n \in 0..Len(texts)] ==
        IF n = 0 THEN picture
        ELSE kprint_at(f[n - 1], texts[n].str, texts[n].x, texts[n].y)
  IN  f[Len(texts)]

\* The texts that stay, and the cells of a text and of the two numbers.
Standing == Append(Layout.texts, Layout.rebooting)
Span(text) == { <<text.x + i - 1, text.y>> : i \in DOMAIN text.str }
RipSpan == { <<Layout.rip.x + i - 1, Layout.rip.y>> : i \in 1..(HexDigits + 2) }
SecondsSpan == { <<Layout.seconds.x + i - 1, Layout.seconds.y>> : i \in 1..2 }

\* Nothing is written over something else, and the numbers have room.
ASSUME LayoutAssumption ==
  /\ LET Text == [str : Seq(DOMAIN Font), x : Nat, y : Nat]
     IN  Layout.texts \in Seq(Text) /\ Layout.rebooting \in Text
  /\ Layout.rip \in [x : Nat, y : Nat] /\ Layout.seconds \in [x : Nat, y : Nat]
  /\ \A m, n \in DOMAIN Standing :
       m # n => Span(Standing[m]) \cap Span(Standing[n]) = {}
  /\ \A n \in DOMAIN Standing : Span(Standing[n]) \cap (RipSpan \cup SecondsSpan) = {}
  /\ RipSpan \cap SecondsSpan = {}
  /\ \A c \in RipSpan \cup SecondsSpan : OnScreen(c[1], c[2])

\* The font has the digits, and an address no more than are written.
ASSUME DigitsAssumption ==
  /\ \A d \in 1..16 : hex_digits[d] \in DOMAIN Font
  /\ "x" \in DOMAIN Font
  /\ HexDigits \in Nat
  /\ \A a \in Addresses : a \in Nat /\ shifted(a, HexDigits)[HexDigits] = 0

Rsod(address) ==
  /\ at = "console" /\ at' = "draw"
  /\ rip' = address
  /\ wait_secs' = 15
  /\ cursor_x' = 0 /\ cursor_y' = 0
  /\ lit' = Texts(draw_rect(lit \cup Cleared, Layout.rect),
                  Append(Layout.texts,
                         [str |-> utoa_hex(address, HexDigits),
                          x |-> Layout.rip.x, y |-> Layout.rip.y]))
  /\ UNCHANGED pitch

\* The seconds that are left behind their text, and from 9 on a blank over the
\* second digit.
Countdown ==
  LET s == Layout.seconds
      number == [str |-> uint_to_string(wait_secs), x |-> s.x, y |-> s.y]
      blank  == [str |-> <<" ">>, x |-> s.x + 1, y |-> s.y]
  IN  <<Layout.rebooting, number>> \o (IF wait_secs <= 9 THEN <<blank>> ELSE <<>>)

RsodDraw == /\ at = "draw" /\ at' = "sleep"
            /\ lit' = Texts(lit, Countdown)
            /\ UNCHANGED <<cursor_x, cursor_y, pitch, wait_secs, rip>>

\* safe_sleep(1000), wait_secs--, and reboot() at zero.
RsodSleep == /\ at = "sleep"
             /\ wait_secs' = wait_secs - 1
             /\ at' = IF wait_secs' <= 0 THEN "reset" ELSE "draw"
             /\ UNCHANGED <<console, pitch, rip>>

-----------------------------------------------------------------------------
Init == /\ cursor_x = 0 /\ cursor_y = 0 /\ lit = {}
        /\ pitch \in Pitches
        /\ at = "console" /\ wait_secs = 0 /\ rip = 0

Console == /\ at = "console"
           /\ \/ backspace
              \/ cursor_y < Bottom /\ newline
              \/ \E ch \in Typed : cursor_y < Bottom /\ glyph(ch)
              \/ clear
           /\ UNCHANGED <<pitch, at, wait_secs, rip>>

Next == \/ Console
        \/ \E address \in Addresses : Rsod(address)
        \/ RsodDraw
        \/ RsodSleep

Spec == Init /\ [][Next]_vars

-----------------------------------------------------------------------------
\* The pixels of a cell, (column, pixel row), and what they show: nothing, a
\* glyph, or something else.
Cells == (0..((Width + 7) \div 8 - 1))
         \X { y \in 0..Height : y % 16 = 0 /\ y + 16 <= Height }
Pixels(picture, c) == { p \in Box : At(c[1] * 8 + p[1], c[2] + p[2]) \in picture }
Showing(pixels) ==
  IF pixels = {} THEN "blank"
  ELSE IF \E ch \in DOMAIN Font : Font[ch] = pixels
       THEN CHOOSE ch \in DOMAIN Font : Font[ch] = pixels
       ELSE "mixed"
Shown(c) == Showing(Pixels(lit, c))

\* When the width is a whole number of cells and rows follow each other
\* without a gap, the pixels are what Screen says of the cells, until a
\* crash: no glyph reaches into another cell, erasing takes away all of one,
\* clearing all.
Cell == INSTANCE Screen
          WITH Glyphs <- DOMAIN Font, cell <- [c \in Cells |-> Shown(c)]
ASSUME GlyphAssumption ==
  /\ Cell!GlyphAssumption
  /\ Font[Cell!Space] = {}

ImplementsScreen ==
  /\ Cell!ScreenInit
  /\ [][ Width % 8 = 0 /\ pitch = Width /\ at = "console" /\ at' = "console" =>
           \/ \E ch \in Cell!Printed : Cell!KprintChar(ch)
           \/ Cell!Clear
           \/ UNCHANGED Cell!screen ]_vars

\* The cells from (x, y) on show digits, and the digits are those of n.
Reads(n, x, y, length, base) ==
  LET digits(k) == { d \in 0..(base - 1) :
                       hex_digits[d + 1] = Shown(<<x + k - 1, y * 16>>) }
      value[k \in 0..length] ==
        IF k = 0 THEN 0 ELSE value[k - 1] * base + CHOOSE d \in digits(k) : TRUE
  IN  (\A k \in 1..length : digits(k) # {}) /\ value[length] = n

\* While rsod sleeps, the screen says how many seconds are left and where the
\* crash was, and every text that has room stands there, whatever was on the
\* screen before, on framebuffers of any pitch: the right digits, and no rest
\* of an earlier one.
CrashShown ==
  at = "sleep" =>
    /\ LET s == Layout.seconds
           one == Shown(<<s.x + 1, s.y * 16>>) = "blank"
       IN  Reads(wait_secs, s.x, s.y, IF one THEN 1 ELSE 2, 10)
    /\ Reads(rip, Layout.rip.x + 2, Layout.rip.y, HexDigits, 16)
    /\ \A n \in DOMAIN Standing :
         LET t == Standing[n]
         IN  \A i \in DOMAIN t.str :
               OnScreen(t.x + i - 1, t.y) =>
                 Shown(<<t.x + i - 1, t.y * 16>>) = Cell!Look(t.str[i])
=============================================================================
