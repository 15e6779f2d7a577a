--------------------------- MODULE KeyboardProofs ---------------------------
(***************************************************************************)
(* Proofs about Keyboard, for every set of keys and every bound on the     *)
(* bytes sent: type correctness, what the reader receives, what is lost,   *)
(* and the shift flag.                                                     *)
(***************************************************************************)
EXTENDS Keyboard, SequenceTheorems, TLAPS

\* The codes of a key are bytes, and every key event sends at least one.
LEMMA KeyCodes ==
  ASSUME NEW k \in Keys
  PROVE  /\ MakeCode[k] \in Seq(0..255) /\ Len(MakeCode[k]) >= 1
         /\ BreakCode[k] \in Seq(0..255) /\ Len(BreakCode[k]) >= 1
         /\ RepeatCode(k) \in Seq(0..255) /\ Len(RepeatCode(k)) >= 1
<1>1. k \in {"three", "alt", "lshift", "rshift", "up", "prtsc"}
  BY KeysAssumption DEF MakeCode
<1>2. \A b \in 0..255 : <<224, b>> \in Seq(0..255) /\ Len(<<224, b>>) = 2
  OBVIOUS
<1>3. \A b \in 0..255 : <<b>> \in Seq(0..255) /\ Len(<<b>>) = 1
  OBVIOUS
<1>4. /\ <<224, 42, 224, 55>> \in Seq(0..255) /\ Len(<<224, 42, 224, 55>>) = 4
      /\ <<224, 183, 224, 170>> \in Seq(0..255)
      /\ Len(<<224, 183, 224, 170>>) = 4
  OBVIOUS
<1>5. CASE k = "three"  BY <1>3, <1>5 DEF MakeCode, BreakCode, RepeatCode
<1>6. CASE k = "alt"    BY <1>3, <1>6 DEF MakeCode, BreakCode, RepeatCode
<1>7. CASE k = "lshift" BY <1>3, <1>7 DEF MakeCode, BreakCode, RepeatCode
<1>8. CASE k = "rshift" BY <1>3, <1>8 DEF MakeCode, BreakCode, RepeatCode
<1>9. CASE k = "up"     BY <1>2, <1>9 DEF MakeCode, BreakCode, RepeatCode
<1>10. CASE k = "prtsc"
  <2>1. MakeCode[k] = <<224, 42, 224, 55>> /\ BreakCode[k] = <<224, 183, 224, 170>>
    BY <1>10 DEF MakeCode, BreakCode
  <2>2. RepeatCode(k) = <<224, 55>>
    BY <1>10 DEF RepeatCode
  <2>3. QED  BY <1>2, <1>4, <2>1, <2>2
<1>11. QED  BY <1>1, <1>5, <1>6, <1>7, <1>8, <1>9, <1>10

\* A feigned code, or none.
IsFeigned(f, b) == f = <<224, b>> \/ f = <<>>
IsBytes(f) == f \in Seq(0..255)

LEMMA FeignedBytes ==
  ASSUME NEW b \in 0..255, NEW f, IsFeigned(f, b)
  PROVE  IsBytes(f)
<1>1. CASE f = <<224, b>>
  BY <1>1 DEF IsBytes
<1>2. CASE f = <<>>
  BY <1>2, EmptySeq DEF IsBytes
<1>3. QED  BY <1>1, <1>2 DEF IsFeigned

\* The codes feigned before and after a navigation key's own.
FakeParts(S, a, b, p, q) ==
  /\ FakeBreak(S) = a \o b /\ FakeMake(S) = p \o q
  /\ a \in Seq(0..255) /\ b \in Seq(0..255) /\ p \in Seq(0..255) /\ q \in Seq(0..255)
  /\ "lshift" \in S => a = <<224, 170>> /\ p = <<224, 42>>
  /\ "lshift" \notin S => a = <<>> /\ p = <<>>
  /\ "rshift" \in S => b = <<224, 182>> /\ q = <<224, 54>>
  /\ "rshift" \notin S => b = <<>> /\ q = <<>>

LEMMA FakesHaveParts ==
  ASSUME NEW S
  PROVE  \E a, b, p, q : FakeParts(S, a, b, p, q)
<1>1. PICK a, b, p, q : /\ a = Feigned(170, "lshift", S) /\ b = Feigned(182, "rshift", S)
                        /\ p = Feigned(42, "lshift", S) /\ q = Feigned(54, "rshift", S)
  OBVIOUS
<1>2. /\ "lshift" \in S => a = <<224, 170>> /\ p = <<224, 42>>
      /\ "lshift" \notin S => a = <<>> /\ p = <<>>
      /\ "rshift" \in S => b = <<224, 182>> /\ q = <<224, 54>>
      /\ "rshift" \notin S => b = <<>> /\ q = <<>>
  BY <1>1, Zenon DEF Feigned
<1>3. IsFeigned(a, 170) /\ IsFeigned(b, 182) /\ IsFeigned(p, 42) /\ IsFeigned(q, 54)
  BY <1>2, Zenon DEF IsFeigned
<1>4. a \in Seq(0..255) /\ b \in Seq(0..255) /\ p \in Seq(0..255) /\ q \in Seq(0..255)
  <2>1. 170 \in 0..255 /\ 182 \in 0..255 /\ 42 \in 0..255 /\ 54 \in 0..255
    OBVIOUS
  <2>2. IsBytes(a) /\ IsBytes(b) /\ IsBytes(p) /\ IsBytes(q)
    BY <1>3, <2>1, FeignedBytes
  <2>3. QED  BY <2>2 DEF IsBytes
<1>5. FakeBreak(S) = a \o b /\ FakeMake(S) = p \o q
  BY <1>1 DEF FakeBreak, FakeMake
<1>6. FakeParts(S, a, b, p, q)
  BY <1>2, <1>4, <1>5, Zenon DEF FakeParts
<1>7. QED  BY <1>6

LEMMA FakeBytes ==
  ASSUME NEW S
  PROVE  FakeBreak(S) \in Seq(0..255) /\ FakeMake(S) \in Seq(0..255)
<1>1. PICK a, b, p, q : FakeParts(S, a, b, p, q)
  BY FakesHaveParts
<1>2. QED  BY <1>1, ConcatProperties DEF FakeParts

\* What a key sends when it goes down or up, with the codes it feigns.
LEMMA EventCodes ==
  ASSUME NEW k \in Keys
  PROVE  /\ PressCodes(k) \in Seq(0..255) /\ Len(PressCodes(k)) >= 1
         /\ ReleaseCodes(k) \in Seq(0..255) /\ Len(ReleaseCodes(k)) >= 1
<1>1. PICK down, up : down = FakeBreak(Hides(k)) /\ up = FakeMake(Shows(k))
  OBVIOUS
<1>2. down \in Seq(0..255) /\ up \in Seq(0..255)
  BY <1>1, FakeBytes
<1>3. PICK make, break : make = MakeCode[k] /\ break = BreakCode[k]
  OBVIOUS
<1>4. /\ make \in Seq(0..255) /\ Len(make) >= 1
      /\ break \in Seq(0..255) /\ Len(break) >= 1
  BY <1>3, KeyCodes
<1>5. /\ down \o make \in Seq(0..255) /\ Len(down \o make) >= 1
      /\ break \o up \in Seq(0..255) /\ Len(break \o up) >= 1
  <2>1. \A a, b \in Seq(0..255) : a \o b \in Seq(0..255) /\ Len(a \o b) = Len(a) + Len(b)
    BY ConcatProperties
  <2>2. Len(down) \in Nat /\ Len(up) \in Nat /\ Len(make) \in Nat /\ Len(break) \in Nat
    BY <1>2, <1>4, LenProperties
  <2>3. QED  BY <1>2, <1>4, <2>1, <2>2
<1>6. QED  BY <1>1, <1>3, <1>5 DEF PressCodes, ReleaseCodes

\* What a key event changes.
KeyEvent(bytes) == /\ bytes \in Seq(0..255)
                   /\ Len(bytes) >= 1
                   /\ sent' = sent \o bytes
                   /\ UNCHANGED <<code, handled, slotByte, cByte, got, lost,
                                  under, sets>>

\* Every step of the user is a key event.
LEMMA UserSends ==
  ASSUME User
  PROVE  \E bytes : KeyEvent(bytes)
<1>1. PICK k \in Keys : Press(k) \/ Repeat(k) \/ Release(k)
  BY DEF User
<1>2. CASE Press(k)
  BY <1>2, EventCodes DEF Press, Emit, KeyEvent
<1>3. CASE Repeat(k)
  BY <1>3, KeyCodes DEF Repeat, Emit, KeyEvent
<1>4. CASE Release(k)
  BY <1>4, EventCodes DEF Release, Emit, KeyEvent
<1>5. QED  BY <1>1, <1>2, <1>3, <1>4

\* A decoded byte is a character the mailbox can hold.
LEMMA DecodedIsChar ==
  ASSUME TypeOK, NEW byte \in 0..127
  PROVE  Decoded(byte) \in Char
<1>1. current_layout \in LayoutNames /\ shift_active \in BOOLEAN
  BY DEF TypeOK
<1>2. QED  BY <1>1 DEF Decoded, Char

LEMMA NulIsChar == NUL \in Char
BY DEF Char

\* A step of the user preserves the type invariant.
LEMMA TypeUser ==
  ASSUME TypeOK, User
  PROVE  TypeOK'
<1>1. PICK bytes : KeyEvent(bytes)
  BY UserSends
<1>2. /\ sent' \in Seq(0..255)
      /\ Len(sent') = Len(sent) + Len(bytes)
      /\ Len(sent) \in Nat /\ Len(bytes) \in Nat
  BY <1>1, ConcatProperties DEF KeyEvent, TypeOK
<1>3. handled' \in 0..Len(sent')
  BY <1>1, <1>2 DEF KeyEvent, TypeOK
<1>4. /\ held' \subseteq Keys /\ repeats' \subseteq held' /\ solo' \in BOOLEAN
      /\ hidden' \subseteq held' \cap RealShift
  <2>1. /\ held \subseteq Keys /\ repeats \subseteq held /\ solo \in BOOLEAN
        /\ hidden \subseteq held \cap RealShift
    BY DEF TypeOK
  <2>2. PICK k \in Keys : Press(k) \/ Repeat(k) \/ Release(k)
    BY DEF User
  <2>3. CASE Press(k)
    BY <2>1, <2>3 DEF Press, Hides
  <2>4. CASE Repeat(k)
    BY <2>1, <2>4 DEF Repeat
  <2>5. CASE Release(k)
    BY <2>1, <2>5 DEF Release
  <2>6. QED  BY <2>2, <2>3, <2>4, <2>5
<1>5. /\ current_layout' \in LayoutNames /\ shift_active' \in BOOLEAN
      /\ last_interrupt_char' \in Char /\ pc' \in {"load", "clear"}
      /\ c' \in Char /\ slotByte' \in 0..handled' /\ cByte' \in 0..handled'
      /\ lost' \subseteq 0..handled'
      /\ got' \in Seq([n : Nat, ch : Char \ {NUL}])
      /\ under' \in Seq(LayoutNames) /\ Len(under') = handled' /\ sets' \in Nat
  BY <1>1 DEF KeyEvent, TypeOK, code
<1>6. QED  BY <1>2, <1>3, <1>4, <1>5 DEF TypeOK

\* Type correctness of the keyboard driver's state and of its history.
THEOREM TypeCorrect == Spec => []TypeOK
<1>1. Init => TypeOK
  <2> SUFFICES ASSUME Init PROVE TypeOK
    OBVIOUS
  <2>1. sent \in Seq(0..255) /\ Len(sent) = 0
    BY EmptySeq DEF Init
  <2>2. got \in Seq([n : Nat, ch : Char \ {NUL}])
    BY EmptySeq DEF Init
  <2>3. /\ current_layout \in LayoutNames /\ shift_active \in BOOLEAN
        /\ last_interrupt_char \in Char /\ pc \in {"load", "clear"}
        /\ c \in Char /\ held \subseteq Keys /\ repeats \subseteq held
        /\ lost \subseteq 0..handled /\ solo \in BOOLEAN
        /\ hidden \subseteq held \cap RealShift /\ sets \in Nat
    BY NulIsChar DEF Init
  <2>4. /\ handled \in 0..Len(sent)
        /\ slotByte \in 0..handled /\ cByte \in 0..handled
    BY <2>1 DEF Init
  <2>5. under \in Seq(LayoutNames) /\ Len(under) = handled
    BY EmptySeq DEF Init
  <2>6. QED  BY <2>1, <2>2, <2>3, <2>4, <2>5 DEF TypeOK
<1>2. ASSUME TypeOK, [Next]_vars
      PROVE  TypeOK'
  <2>1. CASE User
    BY <2>1, TypeUser, <1>2
  <2>2. CASE KeyboardHandler
    <3> DEFINE n == handled + 1
    <3>1. n \in 1..Len(sent) /\ sent[n] \in 0..255
      <4>1. handled < Len(sent)
        BY <2>2 DEF KeyboardHandler
      <4>2. handled \in 0..Len(sent) /\ sent \in Seq(0..255)
        BY <1>2 DEF TypeOK
      <4>3. n \in 1..Len(sent)
        BY <4>1, <4>2
      <4>4. QED  BY <4>2, <4>3, ElementOfSeq
    <3>2. handled' = n /\ handled' \in 0..Len(sent)
      BY <2>2, <3>1 DEF KeyboardHandler
    <3>3. shift_active' \in BOOLEAN /\ slotByte' \in 0..handled'
      <4>1. /\ shift_active \in BOOLEAN /\ slotByte \in 0..handled
            /\ handled \in Nat
        BY <1>2 DEF TypeOK
      <4>2. /\ \/ shift_active' = TRUE \/ shift_active' = FALSE
               \/ shift_active' = shift_active
            /\ slotByte' = n \/ slotByte' = slotByte
        BY <2>2 DEF KeyboardHandler
      <4>3. shift_active' \in BOOLEAN
        BY <4>1, <4>2
      <4>4. slotByte' \in 0..handled'
        BY <3>2, <4>1, <4>2
      <4>5. QED  BY <4>3, <4>4
    <3>4. last_interrupt_char' \in Char
      <4>1. CASE UNCHANGED last_interrupt_char
        BY <4>1, <1>2 DEF TypeOK
      <4>2. CASE Decodes(sent[n]) /\ last_interrupt_char' = Decoded(sent[n])
        <5>1. PICK byte \in 0..255 : byte = sent[n]
          BY <3>1
        <5>2. Decodes(byte) /\ last_interrupt_char' = Decoded(byte)
          BY <4>2, <5>1, Zenon
        <5>3. byte \in 0..127
          BY <5>2 DEF Decodes
        <5>4. QED  BY <1>2, <5>2, <5>3, DecodedIsChar
      <4>3. QED  BY <2>2, <4>1, <4>2 DEF KeyboardHandler
    <3>5. lost' \subseteq 0..handled' /\ cByte' \in 0..handled'
      <4>1. Cost(n) \subseteq {slotByte, n}
        BY DEF Cost
      <4>2. handled \in Nat /\ slotByte \in 0..handled /\ cByte \in 0..handled
            /\ lost \subseteq 0..handled
        BY <1>2 DEF TypeOK
      <4>3. cByte' = cByte /\ lost' \subseteq lost \cup Cost(n)
        BY <2>2 DEF KeyboardHandler
      <4>4. QED  BY <3>2, <4>1, <4>2, <4>3
    <3>6. under' \in Seq(LayoutNames) /\ Len(under') = handled'
      <4>1. /\ under \in Seq(LayoutNames) /\ Len(under) = handled
            /\ current_layout \in LayoutNames
        BY <1>2 DEF TypeOK
      <4>2. under' = Append(under, current_layout)
        BY <2>2 DEF KeyboardHandler
      <4>3. QED  BY <3>2, <4>1, <4>2, AppendProperties
    <3>7. UNCHANGED <<current_layout, pc, c, held, repeats, hidden, solo, sent,
                      got, sets>>
      BY <2>2 DEF KeyboardHandler, user
    <3>8. /\ current_layout' \in LayoutNames /\ pc' \in {"load", "clear"}
          /\ c' \in Char /\ held' \subseteq Keys /\ repeats' \subseteq held'
          /\ hidden' \subseteq held' \cap RealShift /\ sent' \in Seq(0..255)
          /\ got' \in Seq([n : Nat, ch : Char \ {NUL}])
          /\ solo' \in BOOLEAN /\ sets' \in Nat
      BY <3>7, <1>2 DEF TypeOK
    <3>9. handled' \in 0..Len(sent') /\ slotByte' \in 0..handled'
          /\ cByte' \in 0..handled' /\ lost' \subseteq 0..handled'
      BY <3>2, <3>3, <3>5, <3>7
    <3>10. shift_active' \in BOOLEAN /\ last_interrupt_char' \in Char
           /\ under' \in Seq(LayoutNames) /\ Len(under') = handled'
      BY <3>3, <3>4, <3>6
    <3>11. QED  BY <3>8, <3>9, <3>10, Zenon DEF TypeOK
  <2>3. CASE Load
    BY <2>3, <1>2 DEF Load, TypeOK, user
  <2>4. CASE Clear
    <3>1. got' \in Seq([n : Nat, ch : Char \ {NUL}])
      <4>1. cByte \in Nat /\ c \in Char
        BY <1>2 DEF TypeOK
      <4>2. c # NUL => [n |-> cByte, ch |-> c] \in [n : Nat, ch : Char \ {NUL}]
        BY <4>1
      <4>3. got \in Seq([n : Nat, ch : Char \ {NUL}])
        BY <1>2 DEF TypeOK
      <4>4. QED  BY <2>4, <4>2, <4>3, AppendProperties DEF Clear, Return
    <3>2. QED  BY <2>4, <1>2, <3>1, NulIsChar DEF Clear, TypeOK, user
  <2>5. CASE Layout
    BY <2>5, <1>2 DEF Layout, SetLayout, TypeOK, user
  <2>6. CASE UNCHANGED vars
    BY <2>6, <1>2 DEF vars, code, user, TypeOK
  <2>7. QED  BY <1>2, <2>1, <2>2, <2>3, <2>4, <2>5, <2>6 DEF Next
<1>3. QED  BY <1>1, <1>2, PTL DEF Spec

-----------------------------------------------------------------------------
(* The inductive invariant: where each character in the driver is from.    *)

\* What byte n types under the shift state before it: with the layout it was
\* handled under, and with the one that is current.
Meant(n) == ApplyLayout(under[n], ShiftBefore(n), sent[n])
Typed(n) == ApplyLayout(current_layout, ShiftBefore(n), sent[n])

\* A character ch of byte n: n has been handled, is a key press, and ch is
\* what it types.
From(ch, n) == n \in 1..handled /\ IsKeyPress(sent[n]) /\ ch = Meant(n)

\* The mailbox, c and what was received hold characters of bytes, and the
\* flag is the shift state before the byte that is next.
Origins ==
  /\ shift_active <=> ShiftBefore(handled + 1)
  /\ last_interrupt_char # NUL => From(last_interrupt_char, slotByte)
  /\ pc = "clear" /\ c # NUL => From(c, cByte)
  /\ \A k \in 1..Len(got) : From(got[k].ch, got[k].n)

\* What was received is in order and older than what is on its way.
Ordered ==
  /\ \A j, k \in 1..Len(got) : j < k => got[j].n < got[k].n
  /\ pc = "load" /\ last_interrupt_char # NUL =>
       \A k \in 1..Len(got) : got[k].n < slotByte
  /\ pc = "clear" /\ c # NUL => \A k \in 1..Len(got) : got[k].n < cByte
  /\ pc = "clear" => cByte <= slotByte

\* A character that came between load and clear is accounted for, and one
\* that did not is still the one that was loaded.
Accounted ==
  /\ pc = "clear" /\ cByte = slotByte => c = last_interrupt_char
  /\ pc = "clear" /\ cByte # slotByte /\ last_interrupt_char # NUL => slotByte \in lost
  /\ LossExplained

\* Shift is on at the end of what was sent only if a key that sends a shift
\* code is down; if one shift key alone has been in use, it is on unless a
\* navigation key has hidden that shift key, whose typematic repeat has then
\* stopped.
ShiftKept ==
  /\ ShiftBefore(Len(sent) + 1) => held \cap ShiftKeys # {}
  /\ solo => \A a, b \in held \cap ShiftKeys : a = b
  /\ hidden \cap repeats = {}
  /\ solo /\ held \cap RealShift # {} =>
       (ShiftBefore(Len(sent) + 1) <=> hidden = {})

IInv == TypeOK /\ Origins /\ Ordered /\ Accounted /\ ShiftKept
-----------------------------------------------------------------------------
(* The shift state along a sequence of bytes.                              *)

\* ShiftBefore, of any sequence.
ShiftIn(s, n) ==
  \E m \in 1..(n-1) : /\ s[m] \in {42, 54}
                      /\ \A k \in (m+1)..(n-1) : s[k] \notin {170, 182}
ShiftEnd(s) == ShiftIn(s, Len(s) + 1)

\* What a code appended to a sequence makes of it.
IsJoined(t, s, bytes) ==
  /\ t \in Seq(0..255)
  /\ Len(s) \in Nat /\ Len(bytes) \in Nat
  /\ Len(t) = Len(s) + Len(bytes)
  /\ \A n \in 1..Len(s) : t[n] = s[n]
  /\ \A n \in 1..Len(bytes) : t[Len(s) + n] = bytes[n]

LEMMA Joined ==
  ASSUME NEW s \in Seq(0..255), NEW bytes \in Seq(0..255),
         NEW t, t = s \o bytes
  PROVE  IsJoined(t, s, bytes)
BY ConcatProperties DEF IsJoined

LEMMA Later ==
  ASSUME NEW n \in Nat
  PROVE  \A m \in 1..(n - 1) : \A k \in (m + 1)..(n - 1) : k \in 1..(n - 1)
OBVIOUS

\* Shift depends on the bytes before only.
LEMMA SameShift ==
  ASSUME NEW n \in Nat, NEW s, NEW t, \A k \in 1..(n - 1) : t[k] = s[k],
         ShiftIn(s, n)
  PROVE  ShiftIn(t, n)
<1>1. PICK m \in 1..(n - 1) : /\ s[m] \in {42, 54}
                              /\ \A k \in (m + 1)..(n - 1) : s[k] \notin {170, 182}
  BY DEF ShiftIn
<1>2. t[m] \in {42, 54}
  BY <1>1
<1>3. \A k \in (m + 1)..(n - 1) : k \in 1..(n - 1)
  BY Later
<1>4. ASSUME NEW k \in (m + 1)..(n - 1) PROVE t[k] \notin {170, 182}
  <2>1. t[k] = s[k] /\ s[k] \notin {170, 182}
    BY <1>1, <1>3
  <2>2. QED  BY <2>1
<1>5. QED  BY <1>2, <1>4 DEF ShiftIn

\* What is sent later does not change the shift state before byte n.
LEMMA ShiftPrefix ==
  ASSUME NEW s \in Seq(0..255), NEW bytes \in Seq(0..255),
         NEW n \in 1..(Len(s) + 1)
  PROVE  ShiftIn(s \o bytes, n) <=> ShiftIn(s, n)
<1>0. PICK t : t = s \o bytes
  OBVIOUS
<1>1. \A k \in 1..(n - 1) : t[k] = s[k]
  <2>1. \A k \in 1..(n - 1) : k \in 1..Len(s)
    OBVIOUS
  <2>2. IsJoined(t, s, bytes)
    BY <1>0, Joined
  <2>3. QED  BY <2>1, <2>2 DEF IsJoined
<1>2. n \in Nat
  OBVIOUS
<1>3. ShiftIn(t, n) <=> ShiftIn(s, n)
  BY <1>1, <1>2, SameShift
<1>4. QED  BY <1>0, <1>3

\* Byte n turns shift on, off, or leaves it.
LEMMA ShiftStep ==
  ASSUME NEW s \in Seq(0..255), NEW n \in 1..Len(s), NEW m, m = n + 1
  PROVE  ShiftIn(s, m) <=> \/ s[n] \in {42, 54}
                           \/ ShiftIn(s, n) /\ s[n] \notin {170, 182}
<1>1. n \in Nat /\ n >= 1 /\ m - 1 = n
  OBVIOUS
<1>2. ASSUME s[n] \in {42, 54} PROVE ShiftIn(s, m)
  <2>1. n \in 1..(m - 1) /\ (n + 1)..(m - 1) = {}
    BY <1>1
  <2>2. QED  BY <1>2, <2>1 DEF ShiftIn
<1>3. ASSUME ShiftIn(s, n), s[n] \notin {170, 182} PROVE ShiftIn(s, m)
  <2>1. PICK on \in 1..(n - 1) : /\ s[on] \in {42, 54}
                                 /\ \A k \in (on+1)..(n-1) : s[k] \notin {170, 182}
    BY <1>3 DEF ShiftIn
  <2>2. on \in 1..(m - 1)
    BY <1>1
  <2>3. \A k \in (on+1)..(m - 1) : k = n \/ k \in (on+1)..(n-1)
    BY <1>1
  <2>4. \A k \in (on+1)..(m - 1) : s[k] \notin {170, 182}
    BY <1>3, <2>1, <2>3
  <2>5. QED  BY <2>1, <2>2, <2>4 DEF ShiftIn
<1>4. ASSUME ShiftIn(s, m), s[n] \notin {42, 54}
      PROVE  ShiftIn(s, n) /\ s[n] \notin {170, 182}
  <2>1. PICK on \in 1..(m - 1) :
               /\ s[on] \in {42, 54}
               /\ \A k \in (on+1)..(m-1) : s[k] \notin {170, 182}
    BY <1>4 DEF ShiftIn
  <2>2. on # n
    BY <1>4, <2>1
  <2>3. on \in 1..(n - 1) /\ n \in (on+1)..(m-1)
        /\ (on+1)..(n-1) \subseteq (on+1)..(m-1)
    BY <1>1, <2>2
  <2>4. QED  BY <2>1, <2>3 DEF ShiftIn
<1>5. QED  BY <1>2, <1>3, <1>4

LEMMA ShiftEnds ==
  ASSUME NEW s \in Seq(0..255), NEW bytes \in Seq(0..255),
         NEW t, t = s \o bytes
  PROVE  ShiftIn(t, Len(s) + 1) <=> ShiftEnd(s)
<1>1. Len(s) + 1 \in 1..(Len(s) + 1)
  OBVIOUS
<1>2. ShiftIn(s \o bytes, Len(s) + 1) <=> ShiftIn(s, Len(s) + 1)
  BY <1>1, ShiftPrefix
<1>3. QED  BY <1>2 DEF ShiftEnd

LEMMA ShiftOneByte ==
  ASSUME NEW s \in Seq(0..255), NEW bytes \in Seq(0..255), Len(bytes) = 1
  PROVE  ShiftEnd(s \o bytes) <=> \/ bytes[1] \in {42, 54}
                                  \/ ShiftEnd(s) /\ bytes[1] \notin {170, 182}
<1>0. PICK t, p : t = s \o bytes /\ p = Len(s) + 1
  OBVIOUS
<1>1. /\ t \in Seq(0..255) /\ Len(t) = p /\ t[p] = bytes[1]
      /\ p \in Nat /\ p \in 1..Len(t)
      /\ ShiftIn(t, p) <=> ShiftEnd(s)
  <2>1. IsJoined(t, s, bytes)
    BY <1>0, Joined
  <2>2. ShiftIn(t, p) <=> ShiftEnd(s)
    BY <1>0, ShiftEnds
  <2>3. 1 \in 1..Len(bytes)
    OBVIOUS
  <2>4. QED  BY <1>0, <2>1, <2>2, <2>3 DEF IsJoined
<1>2. ShiftIn(t, p + 1) <=> \/ t[p] \in {42, 54}
                            \/ ShiftIn(t, p) /\ t[p] \notin {170, 182}
  BY <1>1, ShiftStep
<1>3. ShiftEnd(t) <=> ShiftIn(t, p + 1)
  BY <1>1 DEF ShiftEnd
<1>4. QED  BY <1>0, <1>1, <1>2, <1>3

\* The code bytes, 0xE0 and another, turns shift on, off, or leaves it.
PrefixedEffect(s, bytes) ==
  bytes[1] = 224 =>
    (ShiftEnd(s \o bytes) <=> \/ bytes[2] \in {42, 54}
                              \/ ShiftEnd(s) /\ bytes[2] \notin {170, 182})

LEMMA ShiftPrefixed ==
  ASSUME NEW s \in Seq(0..255), NEW bytes \in Seq(0..255), Len(bytes) = 2
  PROVE  PrefixedEffect(s, bytes)
<1>0. PICK t, p : t = s \o bytes /\ p = Len(s) + 1
  OBVIOUS
<1>1. /\ t \in Seq(0..255) /\ Len(t) = p + 1
      /\ t[p] = bytes[1] /\ t[p + 1] = bytes[2]
      /\ p \in Nat /\ p \in 1..Len(t) /\ p + 1 \in 1..Len(t)
  <2>1. IsJoined(t, s, bytes)
    BY <1>0, Joined
  <2>2. 1 \in 1..Len(bytes) /\ 2 \in 1..Len(bytes)
    OBVIOUS
  <2>3. t[Len(s) + 1] = bytes[1] /\ t[Len(s) + 2] = bytes[2]
    BY <1>0, <2>1, <2>2 DEF IsJoined
  <2>4. QED  BY <1>0, <2>1, <2>3 DEF IsJoined
<1>2. ShiftIn(t, p) <=> ShiftEnd(s)
  BY <1>0, ShiftEnds
<1>3. ShiftIn(t, p + 1) <=> \/ t[p] \in {42, 54}
                            \/ ShiftIn(t, p) /\ t[p] \notin {170, 182}
  <2>1. t \in Seq(0..255) /\ p \in 1..Len(t)
    BY <1>1
  <2>2. QED  BY <2>1, ShiftStep
<1>4. ShiftIn(t, p + 2) <=> \/ t[p + 1] \in {42, 54}
                            \/ ShiftIn(t, p + 1) /\ t[p + 1] \notin {170, 182}
  BY <1>1, ShiftStep
<1>5. ShiftEnd(t) <=> ShiftIn(t, p + 2)
  BY <1>1 DEF ShiftEnd
<1>6. QED  BY <1>0, <1>1, <1>2, <1>3, <1>4, <1>5 DEF PrefixedEffect

LEMMA ShiftFake ==
  ASSUME NEW s \in Seq(0..255), NEW bytes \in Seq(0..255), Len(bytes) = 4
  PROVE  /\ bytes[2] = 42 /\ bytes[3] = 224 /\ bytes[4] = 55 => ShiftEnd(s \o bytes)
         /\ bytes[4] = 170 => ~ShiftEnd(s \o bytes)
<1>0. PICK t, p : t = s \o bytes /\ p = Len(s) + 2
  OBVIOUS
<1>1. /\ t \in Seq(0..255) /\ Len(t) = p + 2
      /\ t[p] = bytes[2] /\ t[p + 1] = bytes[3] /\ t[p + 2] = bytes[4]
      /\ p \in Nat
      /\ p \in 1..Len(t) /\ p + 1 \in 1..Len(t) /\ p + 2 \in 1..Len(t)
  <2>1. IsJoined(t, s, bytes)
    BY <1>0, Joined
  <2>2. 2 \in 1..Len(bytes) /\ 3 \in 1..Len(bytes) /\ 4 \in 1..Len(bytes)
    OBVIOUS
  <2>3. /\ t[Len(s) + 2] = bytes[2] /\ t[Len(s) + 3] = bytes[3]
        /\ t[Len(s) + 4] = bytes[4]
    BY <1>0, <2>1, <2>2 DEF IsJoined
  <2>4. t \in Seq(0..255) /\ Len(s) \in Nat /\ Len(t) = Len(s) + 4
    BY <1>0, <2>1 DEF IsJoined
  <2>5. p + 1 = Len(s) + 3 /\ p + 2 = Len(s) + 4
    BY <1>0, <2>4
  <2>6. QED  BY <1>0, <2>3, <2>4, <2>5
<1>2. ShiftIn(t, p + 1) <=> \/ t[p] \in {42, 54}
                            \/ ShiftIn(t, p) /\ t[p] \notin {170, 182}
  BY <1>1, ShiftStep
<1>3. ShiftIn(t, p + 2) <=> \/ t[p + 1] \in {42, 54}
                            \/ ShiftIn(t, p + 1) /\ t[p + 1] \notin {170, 182}
  <2>1. t \in Seq(0..255) /\ p + 1 \in 1..Len(t) /\ p + 2 = p + 1 + 1
    BY <1>1
  <2>2. QED  BY <2>1, ShiftStep
<1>4. ShiftIn(t, p + 3) <=> \/ t[p + 2] \in {42, 54}
                            \/ ShiftIn(t, p + 2) /\ t[p + 2] \notin {170, 182}
  BY <1>1, ShiftStep
<1>5. ShiftEnd(t) <=> ShiftIn(t, p + 3)
  BY <1>1 DEF ShiftEnd
<1>6. QED  BY <1>0, <1>1, <1>2, <1>3, <1>4, <1>5

\* What one feigned code does.
FeignedEffect(s, f, b) ==
  s \o f \in Seq(0..255) /\ (ShiftEnd(s \o f) <=> b \in {42, 54})

LEMMA ShiftFeigned ==
  ASSUME NEW s \in Seq(0..255), NEW b \in {42, 54, 170, 182},
         NEW f, f = <<224, b>>
  PROVE  FeignedEffect(s, f, b)
<1>1. f \in Seq(0..255) /\ Len(f) = 2 /\ f[1] = 224 /\ f[2] = b
  OBVIOUS
<1>2. s \o f \in Seq(0..255)
  BY <1>1, ConcatProperties
<1>3. PrefixedEffect(s, f)
  BY <1>1, ShiftPrefixed
<1>4. ShiftEnd(s \o f) <=> b \in {42, 54} \/ (ShiftEnd(s) /\ b \notin {170, 182})
  BY <1>1, <1>3 DEF PrefixedEffect
<1>5. QED  BY <1>2, <1>4 DEF FeignedEffect

Associates(s, a, b) == (s \o a) \o b = s \o (a \o b)

LEMMA JoinsAssociate ==
  ASSUME NEW s \in Seq(0..255), NEW a \in Seq(0..255), NEW b \in Seq(0..255)
  PROVE  Associates(s, a, b)
BY ConcatAssociative DEF Associates

\* Feigned releases leave shift off, feigned presses leave it on.
LEMMA ShiftFakes ==
  ASSUME NEW s \in Seq(0..255), NEW S
  PROVE  /\ s \o FakeBreak(S) \in Seq(0..255)
         /\ s \o FakeMake(S) \in Seq(0..255)
         /\ ShiftEnd(s \o FakeBreak(S)) <=> ShiftEnd(s) /\ S \cap RealShift = {}
         /\ ShiftEnd(s \o FakeMake(S)) <=> ShiftEnd(s) \/ S \cap RealShift # {}
<1>1. PICK a, b, p, q : FakeParts(S, a, b, p, q)
  BY FakesHaveParts
<1>2. /\ "lshift" \in S => a = <<224, 170>> /\ p = <<224, 42>>
      /\ "lshift" \notin S => a = <<>> /\ p = <<>>
      /\ "rshift" \in S => b = <<224, 182>> /\ q = <<224, 54>>
      /\ "rshift" \notin S => b = <<>> /\ q = <<>>
  BY <1>1 DEF FakeParts
<1>3. PICK sa, sp : sa = s \o a /\ sp = s \o p
  OBVIOUS
<1>4. PICK sab, spq : sab = sa \o b /\ spq = sp \o q
  OBVIOUS
<1>5. /\ sa \in Seq(0..255) /\ sp \in Seq(0..255)
      /\ "lshift" \notin S => sa = s /\ sp = s
      /\ "lshift" \in S => ~ShiftEnd(sa) /\ ShiftEnd(sp)
  <2>1. CASE "lshift" \in S
    <3>1. a = <<224, 170>> /\ p = <<224, 42>>
      BY <1>2, <2>1, Zenon
    <3>2. FeignedEffect(s, a, 170)
      BY <3>1, ShiftFeigned
    <3>3. FeignedEffect(s, p, 42)
      BY <3>1, ShiftFeigned
    <3>4. QED  BY <1>3, <2>1, <3>2, <3>3 DEF FeignedEffect
  <2>2. CASE "lshift" \notin S
    <3>1. sa = s /\ sp = s
      BY <1>2, <1>3, <2>2, ConcatEmptySeq
    <3>2. QED  BY <2>2, <3>1
  <2>3. QED  BY <2>1, <2>2
<1>6. /\ sab \in Seq(0..255) /\ spq \in Seq(0..255)
      /\ "rshift" \notin S => sab = sa /\ spq = sp
      /\ "rshift" \in S => ~ShiftEnd(sab) /\ ShiftEnd(spq)
  <2>1. CASE "rshift" \in S
    <3>1. b = <<224, 182>> /\ q = <<224, 54>>
      BY <1>2, <2>1, Zenon
    <3>2. FeignedEffect(sa, b, 182)
      BY <1>5, <3>1, ShiftFeigned
    <3>3. FeignedEffect(sp, q, 54)
      BY <1>5, <3>1, ShiftFeigned
    <3>4. QED  BY <1>4, <2>1, <3>2, <3>3 DEF FeignedEffect
  <2>2. CASE "rshift" \notin S
    <3>1. sab = sa /\ spq = sp
      BY <1>2, <1>4, <1>5, <2>2, ConcatEmptySeq
    <3>2. QED  BY <1>5, <2>2, <3>1
  <2>3. QED  BY <2>1, <2>2
<1>7. s \o FakeBreak(S) = sab /\ s \o FakeMake(S) = spq
  <2>1. /\ a \in Seq(0..255) /\ b \in Seq(0..255)
        /\ p \in Seq(0..255) /\ q \in Seq(0..255)
    BY <1>1 DEF FakeParts
  <2>2. Associates(s, a, b) /\ Associates(s, p, q)
    BY <2>1, JoinsAssociate
  <2>3. FakeBreak(S) = a \o b /\ FakeMake(S) = p \o q
    BY <1>1 DEF FakeParts
  <2>4. QED  BY <1>3, <1>4, <2>2, <2>3 DEF Associates
<1>8. S \cap RealShift = {} <=> "lshift" \notin S /\ "rshift" \notin S
  BY DEF RealShift
<1>9. ShiftEnd(sab) <=> ShiftEnd(s) /\ S \cap RealShift = {}
  BY <1>5, <1>6, <1>8
<1>10. ShiftEnd(spq) <=> ShiftEnd(s) \/ S \cap RealShift # {}
  BY <1>5, <1>6, <1>8
<1>11. QED  BY <1>6, <1>7, <1>9, <1>10

\* What the codes of a key do, without those it feigns.
LEMMA ShiftCodes ==
  ASSUME NEW s \in Seq(0..255), NEW k \in Keys
  PROVE  /\ ShiftEnd(s \o MakeCode[k]) <=> k \in ShiftKeys \/ ShiftEnd(s)
         /\ ShiftEnd(s \o BreakCode[k]) <=> k \notin ShiftKeys /\ ShiftEnd(s)
         /\ ShiftEnd(s \o RepeatCode(k)) <=> k \in RealShift \/ ShiftEnd(s)
<1> DEFINE make == MakeCode[k]
           break == BreakCode[k]
           repeat == RepeatCode(k)
<1>1. k \in {"three", "alt", "lshift", "rshift", "up", "prtsc"}
  BY KeysAssumption DEF MakeCode
<1>2. make \in Seq(0..255) /\ break \in Seq(0..255) /\ repeat \in Seq(0..255)
  BY KeyCodes
<1>3. CASE k \notin {"up", "prtsc"}
  <2>1. /\ Len(make) = 1 /\ Len(break) = 1
        /\ k = "three" => make[1] = 4 /\ break[1] = 132
        /\ k = "alt" => make[1] = 56 /\ break[1] = 184
        /\ k = "lshift" => make[1] = 42 /\ break[1] = 170
        /\ k = "rshift" => make[1] = 54 /\ break[1] = 182
    BY <1>1, <1>3 DEF MakeCode, BreakCode
  <2>2. repeat = make
    BY <1>3 DEF RepeatCode
  <2> HIDE DEF make, break, repeat
  <2>3. /\ ShiftEnd(s \o make) <=> \/ make[1] \in {42, 54}
                                   \/ ShiftEnd(s) /\ make[1] \notin {170, 182}
        /\ ShiftEnd(s \o break) <=> \/ break[1] \in {42, 54}
                                    \/ ShiftEnd(s) /\ break[1] \notin {170, 182}
    BY <1>2, <2>1, ShiftOneByte
  <2>4. QED
    BY <1>1, <1>3, <2>1, <2>2, <2>3 DEF ShiftKeys, RealShift, make, break, repeat
<1>4. CASE k = "up"
  <2>1. /\ Len(make) = 2 /\ make[1] = 224 /\ make[2] = 72
        /\ Len(break) = 2 /\ break[1] = 224 /\ break[2] = 200
    BY <1>4 DEF MakeCode, BreakCode
  <2>2. repeat = make
    BY <1>4 DEF RepeatCode
  <2> HIDE DEF make, break, repeat
  <2>3. PrefixedEffect(s, make) /\ PrefixedEffect(s, break)
    BY <1>2, <2>1, ShiftPrefixed
  <2>4. /\ ShiftEnd(s \o make) <=> ShiftEnd(s)
        /\ ShiftEnd(s \o break) <=> ShiftEnd(s)
    BY <2>1, <2>3 DEF PrefixedEffect
  <2>5. QED
    BY <1>4, <2>2, <2>4 DEF ShiftKeys, RealShift, make, break, repeat
<1>5. CASE k = "prtsc"
  <2>1. /\ Len(make) = 4 /\ make[1] = 224 /\ make[2] = 42
        /\ make[3] = 224 /\ make[4] = 55
        /\ Len(break) = 4 /\ break[1] = 224 /\ break[3] = 224 /\ break[4] = 170
    BY <1>5 DEF MakeCode, BreakCode
  <2>2. Len(repeat) = 2 /\ repeat[1] = 224 /\ repeat[2] = 55
    <3>1. repeat = <<224, 55>>
      BY <1>5 DEF RepeatCode
    <3> HIDE DEF repeat
    <3>2. QED  BY <3>1
  <2> HIDE DEF make, break, repeat
  <2>3. ShiftEnd(s \o make) /\ ~ShiftEnd(s \o break)
    BY <1>2, <2>1, ShiftFake
  <2>4. ShiftEnd(s \o repeat) <=> ShiftEnd(s)
    <3>1. PrefixedEffect(s, repeat)
      BY <1>2, <2>2, ShiftPrefixed
    <3>2. QED  BY <2>2, <3>1 DEF PrefixedEffect
  <2>5. QED  BY <1>5, <2>3, <2>4 DEF ShiftKeys, RealShift, make, break, repeat
<1>6. QED  BY <1>1, <1>3, <1>4, <1>5

\* What a key does when it goes down or up, with the codes it feigns: a
\* navigation key turns shift off if a shift key is hidden by it, and on again.
LEMMA ShiftEvents ==
  ASSUME NEW s \in Seq(0..255), NEW k \in Keys
  PROVE  /\ ShiftEnd(s \o PressCodes(k)) <=>
              \/ k \in ShiftKeys
              \/ ShiftEnd(s) /\ Hides(k) \cap RealShift = {}
         /\ ShiftEnd(s \o ReleaseCodes(k)) <=>
              \/ k \notin ShiftKeys /\ ShiftEnd(s)
              \/ Shows(k) \cap RealShift # {}
<1>1. PICK down, up : down = FakeBreak(Hides(k)) /\ up = FakeMake(Shows(k))
  OBVIOUS
<1>2. PICK make, break : make = MakeCode[k] /\ break = BreakCode[k]
  OBVIOUS
<1>3. PICK sdown, sbreak : sdown = s \o down /\ sbreak = s \o break
  OBVIOUS
<1>4. /\ down \in Seq(0..255) /\ up \in Seq(0..255)
      /\ make \in Seq(0..255) /\ break \in Seq(0..255)
  BY <1>1, <1>2, FakeBytes, KeyCodes
<1>5. /\ s \o PressCodes(k) = sdown \o make
      /\ s \o ReleaseCodes(k) = sbreak \o up
  <2>1. /\ PressCodes(k) = down \o make /\ ReleaseCodes(k) = break \o up
    BY <1>1, <1>2 DEF PressCodes, ReleaseCodes
  <2>2. Associates(s, down, make)
    BY <1>4, JoinsAssociate
  <2>3. Associates(s, break, up)
    BY <1>4, JoinsAssociate
  <2>4. QED  BY <1>3, <2>1, <2>2, <2>3 DEF Associates
<1>6. /\ sdown \in Seq(0..255)
      /\ ShiftEnd(sdown) <=> ShiftEnd(s) /\ Hides(k) \cap RealShift = {}
  BY <1>1, <1>3, ShiftFakes
<1>7. ShiftEnd(sdown \o make) <=> k \in ShiftKeys \/ ShiftEnd(sdown)
  BY <1>2, <1>6, ShiftCodes
<1>8. /\ sbreak \in Seq(0..255)
      /\ ShiftEnd(sbreak) <=> k \notin ShiftKeys /\ ShiftEnd(s)
  BY <1>2, <1>3, <1>4, ConcatProperties, ShiftCodes
<1>9. ShiftEnd(sbreak \o up) <=> ShiftEnd(sbreak) \/ Shows(k) \cap RealShift # {}
  BY <1>1, <1>8, ShiftFakes
<1>10. QED  BY <1>5, <1>6, <1>7, <1>8, <1>9
-----------------------------------------------------------------------------
(* The user's steps.                                                       *)

\* What has been sent stays as it is, and so does what is said of it.
LEMMA PastKept ==
  ASSUME TypeOK, NEW bytes, KeyEvent(bytes)
  PROVE  /\ Len(sent) \in Nat /\ Len(sent') \in Nat /\ Len(sent) <= Len(sent')
         /\ handled \in 0..Len(sent) /\ handled' = handled
         /\ \A n \in 1..Len(sent) : sent'[n] = sent[n]
         /\ \A n \in 1..(Len(sent) + 1) : ShiftBefore(n)' <=> ShiftBefore(n)
         /\ \A n \in 1..handled : Meant(n)' = Meant(n)
         /\ \A n : \A ch : From(ch, n)' <=> From(ch, n)
<1>1. /\ sent \in Seq(0..255) /\ bytes \in Seq(0..255)
      /\ sent' = sent \o bytes /\ handled \in 0..Len(sent)
      /\ handled' = handled /\ under' = under
  BY DEF TypeOK, KeyEvent
<1>2. /\ Len(sent) \in Nat /\ Len(sent') \in Nat /\ Len(sent) <= Len(sent')
      /\ \A n \in 1..Len(sent) : sent'[n] = sent[n]
  <2>1. IsJoined(sent', sent, bytes)
    BY <1>1, Joined
  <2>2. QED  BY <2>1 DEF IsJoined
<1>3. \A n \in 1..(Len(sent) + 1) : ShiftBefore(n)' <=> ShiftBefore(n)
  <2>1. \A n \in 1..(Len(sent) + 1) : ShiftIn(sent', n) <=> ShiftIn(sent, n)
    BY <1>1, ShiftPrefix
  <2>2. QED  BY <2>1 DEF ShiftBefore, ShiftIn
<1>4. \A n \in 1..handled : n \in 1..Len(sent) /\ n \in 1..(Len(sent) + 1)
  BY <1>1, <1>2
<1>5. \A n \in 1..handled : Meant(n)' = Meant(n)
  BY <1>1, <1>2, <1>3, <1>4 DEF Meant, ApplyLayout
<1>6. \A n : \A ch : From(ch, n)' <=> From(ch, n)
  BY <1>1, <1>2, <1>4, <1>5 DEF From, IsKeyPress
<1>7. QED  BY <1>1, <1>2, <1>3, <1>5, <1>6

LEMMA UserOrigins ==
  ASSUME TypeOK, Origins, Ordered, User
  PROVE  Origins' /\ Ordered'
<1>1. PICK bytes : KeyEvent(bytes)
  BY UserSends
<1>2. UNCHANGED <<shift_active, last_interrupt_char, pc, c, handled, slotByte,
                  cByte, got>>
  BY <1>1 DEF KeyEvent, code
<1>3. ShiftBefore(handled + 1)' <=> ShiftBefore(handled + 1)
  <2>1. handled + 1 \in 1..(Len(sent) + 1) /\ handled' = handled
    BY <1>1, PastKept
  <2>2. ShiftBefore(handled + 1)' <=> ShiftIn(sent', handled + 1)
    BY <2>1 DEF ShiftBefore, ShiftIn
  <2>3. \A n \in 1..(Len(sent) + 1) : ShiftIn(sent', n) <=> ShiftIn(sent, n)
    BY <1>1, ShiftPrefix DEF TypeOK, KeyEvent
  <2>4. ShiftIn(sent, handled + 1) <=> ShiftBefore(handled + 1)
    BY DEF ShiftBefore, ShiftIn
  <2>5. QED  BY <2>1, <2>2, <2>3, <2>4
<1>4. \A n : \A ch : From(ch, n)' <=> From(ch, n)
  BY <1>1, PastKept
<1>5. /\ last_interrupt_char # NUL => From(last_interrupt_char, slotByte)'
      /\ pc = "clear" /\ c # NUL => From(c, cByte)'
      /\ \A k \in 1..Len(got) : From(got[k].ch, got[k].n)'
  BY <1>2, <1>4 DEF Origins, From, Meant
<1>6. Origins'
  BY <1>2, <1>3, <1>5 DEF Origins
<1>7. Ordered'
  BY <1>2 DEF Ordered
<1>8. QED  BY <1>6, <1>7
LEMMA UserAccounted ==
  ASSUME TypeOK, Accounted, User
  PROVE  Accounted'
<1>1. PICK bytes : KeyEvent(bytes)
  BY UserSends
<1>2. UNCHANGED <<current_layout, last_interrupt_char, pc, c, handled, slotByte,
                  cByte, got, lost>>
  BY <1>1 DEF KeyEvent, code
<1>0. handled' = handled /\ under' = under
  BY <1>1 DEF KeyEvent
<1>3. /\ handled \in 0..Len(sent) /\ Len(sent) \in Nat /\ Len(sent') \in Nat
      /\ \A n \in 1..Len(sent) : sent'[n] = sent[n]
  BY <1>1, PastKept
<1>4. ASSUME NEW n \in 1..Len(sent'), Types(n)'
      PROVE  Delivered(n)' \/ Waiting(n)' \/ n \in lost'
  <2>1. n \in 1..Len(sent)
    BY <1>0, <1>3, <1>4 DEF Types
  <2>2. Types(n)
    BY <1>0, <1>3, <1>4, <2>1 DEF Types, IsKeyPress
  <2>3. Delivered(n) \/ Waiting(n) \/ n \in lost
    BY <2>1, <2>2 DEF Accounted, LossExplained
  <2>4. QED  BY <1>2, <2>3 DEF Delivered, Waiting
<1>5. LossExplained'
  BY <1>4 DEF LossExplained
<1>6. QED  BY <1>2, <1>5 DEF Accounted

LEMMA ShiftAtEnd == ShiftBefore(Len(sent) + 1) <=> ShiftEnd(sent)
BY DEF ShiftBefore, ShiftEnd, ShiftIn

\* A key held and the shift codes sent agree.
LEMMA UserShift ==
  ASSUME TypeOK, ShiftKept, User
  PROVE  ShiftKept'
<1>1. PICK k \in Keys : Press(k) \/ Repeat(k) \/ Release(k)
  BY DEF User
<1>2. /\ sent \in Seq(0..255) /\ repeats \subseteq held
      /\ hidden \subseteq held /\ hidden \subseteq RealShift
  BY DEF TypeOK
<1>3. /\ ShiftEnd(sent) => held \cap ShiftKeys # {}
      /\ solo => \A a, b \in held \cap ShiftKeys : a = b
      /\ hidden \cap repeats = {}
      /\ solo /\ held \cap RealShift # {} => (ShiftEnd(sent) <=> hidden = {})
  BY ShiftAtEnd DEF ShiftKept
<1>4. SUFFICES /\ ShiftEnd(sent') => held' \cap ShiftKeys # {}
               /\ solo' => \A a, b \in held' \cap ShiftKeys : a = b
               /\ hidden' \cap repeats' = {}
               /\ solo' /\ held' \cap RealShift # {} =>
                    (ShiftEnd(sent') <=> hidden' = {})
  <2>1. ShiftBefore(Len(sent) + 1)' <=> ShiftEnd(sent')
    BY DEF ShiftBefore, ShiftEnd, ShiftIn
  <2>2. QED  BY <2>1 DEF ShiftKept, ShiftKeys, RealShift
<1>5. RealShift \subseteq ShiftKeys /\ \A n \in NavKeys : n \notin ShiftKeys
  BY DEF RealShift, ShiftKeys, NavKeys
<1>6. CASE Press(k)
  <2>1. ShiftEnd(sent') <=> \/ k \in ShiftKeys
                            \/ ShiftEnd(sent) /\ Hides(k) \cap RealShift = {}
    BY <1>2, <1>6, ShiftEvents DEF Press, Emit
  <2>2. /\ k \notin held /\ held' = held \cup {k}
        /\ hidden' = hidden \cup Hides(k) /\ repeats' = {k}
        /\ solo' = IF k \in ShiftKeys THEN held \cap ShiftKeys = {} ELSE solo
    BY <1>6 DEF Press
  <2>3. Hides(k) = IF k \in NavKeys THEN held \cap RealShift ELSE {}
    BY DEF Hides
  <2>4. hidden' \cap repeats' = {}
    BY <1>2, <2>2, <2>3
  <2>5. CASE k \in ShiftKeys
    BY <1>2, <1>3, <1>5, <2>1, <2>2, <2>3, <2>4, <2>5
  <2>6. CASE k \in NavKeys
    <3>1. k \notin ShiftKeys /\ k \notin RealShift
      BY <1>5, <2>6
    <3>2. /\ ShiftEnd(sent') <=> ShiftEnd(sent) /\ held \cap RealShift = {}
          /\ held' \cap ShiftKeys = held \cap ShiftKeys
          /\ held' \cap RealShift = held \cap RealShift
          /\ solo' = solo /\ hidden' = hidden \cup (held \cap RealShift)
      BY <2>1, <2>2, <2>3, <2>6, <3>1
    <3>3. QED  BY <1>3, <2>4, <3>2
  <2>7. CASE k \notin ShiftKeys /\ k \notin NavKeys
    <3>1. /\ ShiftEnd(sent') <=> ShiftEnd(sent)
          /\ held' \cap ShiftKeys = held \cap ShiftKeys
          /\ held' \cap RealShift = held \cap RealShift
          /\ solo' = solo /\ hidden' = hidden
      BY <1>5, <2>1, <2>2, <2>3, <2>7
    <3>2. QED  BY <1>3, <2>4, <3>1
  <2>8. QED  BY <2>5, <2>6, <2>7
<1>7. CASE Repeat(k)
  <2>1. ShiftEnd(sent') <=> k \in RealShift \/ ShiftEnd(sent)
    BY <1>2, <1>7, ShiftCodes DEF Repeat, Emit
  <2>2. /\ k \in repeats /\ k \in held /\ held' = held /\ solo' = solo
        /\ hidden' = hidden /\ repeats' = repeats
    BY <1>2, <1>7 DEF Repeat
  <2>3. CASE k \in RealShift
    <3>1. k \notin hidden /\ k \in held \cap ShiftKeys
      BY <1>3, <1>5, <2>2, <2>3
    <3>2. solo => hidden = {}
      BY <1>2, <1>3, <1>5, <3>1
    <3>3. QED  BY <1>3, <2>1, <2>2, <2>3, <3>1, <3>2
  <2>4. CASE k \notin RealShift
    BY <1>3, <2>1, <2>2, <2>4
  <2>5. QED  BY <2>3, <2>4
<1>8. CASE Release(k)
  <2>1. ShiftEnd(sent') <=> \/ k \notin ShiftKeys /\ ShiftEnd(sent)
                            \/ Shows(k) \cap RealShift # {}
    BY <1>2, <1>8, ShiftEvents DEF Release, Emit
  <2>2. /\ k \in held /\ held' = held \ {k} /\ solo' = solo
        /\ hidden' = hidden \ (Shows(k) \cup {k}) /\ repeats' = repeats \ {k}
    BY <1>8 DEF Release
  <2>3. Shows(k) = IF k \in NavKeys THEN hidden ELSE {}
    BY DEF Shows
  <2>4. hidden' \cap repeats' = {}
    BY <1>3, <2>2
  <2>5. CASE k \in ShiftKeys
    <3>1. ~ShiftEnd(sent')
      BY <1>5, <2>1, <2>3, <2>5
    <3>2. solo => held' \cap RealShift = {}
      BY <1>3, <1>5, <2>2, <2>5
    <3>3. solo' => \A a, b \in held' \cap ShiftKeys : a = b
      BY <1>3, <2>2
    <3>4. QED  BY <2>2, <2>4, <3>1, <3>2, <3>3
  <2>6. CASE k \in NavKeys
    <3>1. k \notin ShiftKeys /\ k \notin RealShift
      BY <1>5, <2>6
    <3>2. /\ ShiftEnd(sent') <=> ShiftEnd(sent) \/ hidden # {}
          /\ held' \cap ShiftKeys = held \cap ShiftKeys
          /\ held' \cap RealShift = held \cap RealShift
          /\ solo' = solo /\ hidden' = {}
      BY <1>2, <2>1, <2>2, <2>3, <2>6, <3>1
    <3>3. hidden # {} => held \cap ShiftKeys # {}
      BY <1>2, <1>5
    <3>4. QED  BY <1>3, <2>4, <3>2, <3>3
  <2>7. CASE k \notin ShiftKeys /\ k \notin NavKeys
    <3>1. /\ ShiftEnd(sent') <=> ShiftEnd(sent)
          /\ held' \cap ShiftKeys = held \cap ShiftKeys
          /\ held' \cap RealShift = held \cap RealShift
          /\ solo' = solo /\ hidden' = hidden
      BY <1>2, <1>5, <2>1, <2>2, <2>3, <2>7
    <3>2. QED  BY <1>3, <2>4, <3>1
  <2>8. QED  BY <2>5, <2>6, <2>7
<1>9. QED  BY <1>1, <1>6, <1>7, <1>8
-----------------------------------------------------------------------------
(* keyboard_handler.                                                       *)

\* No row of apply_shift yields NUL.
LEMMA ShiftedIsNotNul ==
  ASSUME NEW layout \in LayoutNames
  PROVE  \A row \in ShiftRows(layout) : row[2] # NUL
<1>1. \A row \in LetterShift : row[2] # NUL
  <2>1. \A k \in 1..26 :
          UpperCase[k] \in {"A","B","C","D","E","F","G","H","I","J","K","L","M",
                            "N","O","P","Q","R","S","T","U","V","W","X","Y","Z"}
    BY DEF UpperCase
  <2>2. \A ch \in {"A","B","C","D","E","F","G","H","I","J","K","L","M",
                   "N","O","P","Q","R","S","T","U","V","W","X","Y","Z"} : ch # NUL
    BY DEF NUL
  <2>3. QED  BY <2>1, <2>2 DEF LetterShift
<1>2. \A row \in EnUsShift : row[2] # NUL
  <2> DEFINE S == {"!","@","#","$","%","^","&","*","(",")","_","+","{","}",
                 ":","\"","~","|","<",">","?"}
  <2>1. \A row \in EnUsShift : \E a : \E ch \in S : row = <<a, ch>>
    BY Zenon DEF EnUsShift
  <2>2. \A ch \in S : ch # NUL
    BY Zenon DEF NUL
  <2> HIDE DEF S
  <2>3. QED  BY <2>1, <2>2
<1>3. \A row \in FrCaShift : row[2] # NUL
  <2> DEFINE S == {"!","\"","/","$","%","?","&","*","(",")","_","+","xB7",
                 "xD4","x90","x80","xD6","xA8",":","<",">"}
  <2>1. \A row \in FrCaShift : \E a : \E ch \in S : row = <<a, ch>>
    BY Zenon DEF FrCaShift
  <2>2. \A ch \in S : ch # NUL
    BY Zenon DEF NUL
  <2> HIDE DEF S
  <2>3. QED  BY <2>1, <2>2
<1>4. QED  BY <1>1, <1>2, <1>3 DEF ShiftRows

\* A character that is typed is none that a table or a row leaves out.
LEMMA TypedIsNotNul ==
  ASSUME NEW layout \in LayoutNames, NEW shift \in BOOLEAN, NEW b,
         TableChar(layout, b) # NUL
  PROVE  ApplyLayout(layout, shift, b) # NUL
<1> DEFINE ch == TableChar(layout, b)
<1>1. \A row \in ShiftRows(layout) : row[2] # NUL
  BY ShiftedIsNotNul
<1>2. CASE \E row \in ShiftRows(layout) : row[1] = ch
  <2>1. (CHOOSE row \in ShiftRows(layout) : row[1] = ch) \in ShiftRows(layout)
    BY <1>2
  <2>2. ApplyShift(layout, ch) # NUL
    BY <1>1, <1>2, <2>1 DEF ApplyShift
  <2>3. QED  BY <2>2 DEF ApplyLayout
<1>3. CASE ~ \E row \in ShiftRows(layout) : row[1] = ch
  BY <1>3 DEF ApplyShift, ApplyLayout
<1>4. QED  BY <1>2, <1>3

\* What handling byte n changes.
Handles(n) ==
  /\ handled \in Nat /\ n \in 1..Len(sent) /\ handled' = n
  /\ UNCHANGED <<pc, c, held, repeats, hidden, sent, solo, cByte, got>>
  /\ under'[n] = current_layout /\ \A m \in 1..handled : under'[m] = under[m]
  /\ shift_active \in BOOLEAN /\ (shift_active <=> ShiftBefore(n))
  /\ \/ /\ sent[n] \in {42, 54} /\ shift_active' = TRUE
        /\ UNCHANGED <<last_interrupt_char, slotByte, lost>>
     \/ /\ sent[n] \in {170, 182} /\ shift_active' = FALSE
        /\ UNCHANGED <<last_interrupt_char, slotByte, lost>>
     \/ /\ sent[n] \notin {42, 54, 170, 182} /\ IsKeyPress(sent[n])
        /\ last_interrupt_char' = Typed(n) /\ slotByte' = n
        /\ shift_active' = shift_active
        /\ lost' = lost \cup Cost(n)
     \/ /\ sent[n] \notin {42, 54, 170, 182} /\ ~IsKeyPress(sent[n])
        /\ UNCHANGED <<shift_active, last_interrupt_char, slotByte, lost>>

LEMMA HandlerStep ==
  ASSUME TypeOK, Origins, KeyboardHandler, NEW n, n = handled + 1
  PROVE  Handles(n)
<1>1. /\ handled \in Nat /\ n \in 1..Len(sent) /\ handled' = n
      /\ shift_active \in BOOLEAN /\ (shift_active <=> ShiftBefore(n))
      /\ sent[n] \in 0..255
  <2>1. handled \in Nat /\ n \in 1..Len(sent) /\ handled' = n
    BY DEF KeyboardHandler, TypeOK
  <2>2. sent \in Seq(0..255) /\ shift_active \in BOOLEAN
    BY DEF TypeOK
  <2>3. sent[n] \in 0..255
    BY <2>1, <2>2, ElementOfSeq
  <2>4. shift_active <=> ShiftBefore(n)
    BY DEF Origins
  <2>5. QED  BY <2>1, <2>2, <2>3, <2>4
<1>2. /\ UNCHANGED <<pc, c, held, repeats, hidden, sent, solo, cByte, got>>
      /\ under'[n] = current_layout /\ \A m \in 1..handled : under'[m] = under[m]
  <2>1. UNCHANGED <<pc, c, held, repeats, hidden, sent, solo, cByte, got>>
    BY DEF KeyboardHandler, user
  <2>2. /\ under \in Seq(LayoutNames) /\ Len(under) = handled
        /\ current_layout \in LayoutNames
    BY DEF TypeOK
  <2>3. under' = Append(under, current_layout)
    BY DEF KeyboardHandler
  <2>4. /\ under'[Len(under) + 1] = current_layout
        /\ \A m \in 1..Len(under) : under'[m] = under[m]
    BY <2>2, <2>3, AppendProperties
  <2>5. QED  BY <2>1, <2>2, <2>4
<1>3. Decoded(sent[n]) = Typed(n)
  BY <1>1 DEF Decoded, Typed, ApplyLayout
<1>4. lost' = IF IsKeyPress(sent[n]) THEN lost \cup Cost(n) ELSE lost
  BY DEF KeyboardHandler
<1>5. CASE sent[n] \in {42, 54, 170, 182}
  <2>1. \/ /\ sent[n] \in {42, 54} /\ shift_active' = TRUE
           /\ UNCHANGED <<last_interrupt_char, slotByte>>
        \/ /\ sent[n] \in {170, 182} /\ shift_active' = FALSE
           /\ UNCHANGED <<last_interrupt_char, slotByte>>
    BY <1>5 DEF KeyboardHandler, ShiftMake, ShiftBreak, IsShift, Decodes
  <2>2. lost' = lost
    BY <1>4, <1>5 DEF IsKeyPress
  <2>3. QED  BY <1>1, <1>2, <2>1, <2>2 DEF Handles
<1>6. CASE sent[n] \notin {42, 54, 170, 182}
  <2>1. \/ /\ IsKeyPress(sent[n])
           /\ last_interrupt_char' = Typed(n) /\ slotByte' = n
           /\ shift_active' = shift_active
        \/ /\ ~IsKeyPress(sent[n])
           /\ UNCHANGED <<shift_active, last_interrupt_char, slotByte>>
    BY <1>3, <1>6 DEF KeyboardHandler, ShiftMake, ShiftBreak, IsShift, Decodes, IsKeyPress
  <2>2. QED  BY <1>1, <1>2, <1>4, <1>6, <2>1 DEF Handles
<1>7. QED  BY <1>5, <1>6

\* Byte n leaves the flag as the shift state before the byte that follows.
LEMMA HandlerShift ==
  ASSUME TypeOK, Origins, KeyboardHandler
  PROVE  (shift_active <=> ShiftBefore(handled + 1))'
<1> PICK n : n = handled + 1
  OBVIOUS
<1> PICK m : m = n + 1
  OBVIOUS
<1>1. /\ handled \in Nat /\ n \in 1..Len(sent) /\ handled' = n /\ sent' = sent
      /\ shift_active <=> ShiftBefore(n)
      /\ \/ sent[n] \in {42, 54} /\ shift_active' = TRUE
         \/ sent[n] \in {170, 182} /\ shift_active' = FALSE
         \/ sent[n] \notin {42, 54, 170, 182} /\ shift_active' = shift_active
  <2>1. Handles(n)
    BY HandlerStep
  <2>2. QED  BY <2>1 DEF Handles
<1>2. ShiftIn(sent, m) <=> \/ sent[n] \in {42, 54}
                           \/ ShiftIn(sent, n) /\ sent[n] \notin {170, 182}
  <2>1. sent \in Seq(0..255)
    BY DEF TypeOK
  <2>2. QED  BY <1>1, <2>1, ShiftStep
<1>3. ShiftBefore(n) <=> ShiftIn(sent, n)
  BY DEF ShiftBefore, ShiftIn
<1>4. ShiftBefore(handled + 1)' <=> ShiftIn(sent, m)
  BY <1>1 DEF ShiftBefore, ShiftIn
<1>5. shift_active' <=> ShiftIn(sent, m)
  BY <1>1, <1>2, <1>3
<1>6. QED  BY <1>4, <1>5

\* What is known of a byte stays true when the next one is handled, which is
\* decoded under the layout that is current.
LEMMA HandlerFrom ==
  ASSUME TypeOK, Origins, KeyboardHandler, NEW ch, NEW n
  PROVE  /\ From(ch, n) => From(ch, n)'
         /\ n = handled + 1 /\ IsKeyPress(sent[n]) /\ ch = Typed(n) => From(ch, n)'
<1> PICK p : p = handled + 1
  OBVIOUS
<1>1. /\ handled \in Nat /\ handled' = p /\ sent' = sent
      /\ under'[p] = current_layout /\ \A m \in 1..handled : under'[m] = under[m]
  <2>1. Handles(p)
    BY HandlerStep
  <2>2. QED  BY <2>1 DEF Handles
<1>2. ASSUME From(ch, n) PROVE From(ch, n)'
  <2>1. n \in 1..handled /\ IsKeyPress(sent[n]) /\ ch = Meant(n)
    BY <1>2 DEF From
  <2>2. under'[n] = under[n] /\ (ShiftBefore(n)' <=> ShiftBefore(n))
    BY <1>1, <2>1 DEF ShiftBefore
  <2>3. Meant(n)' = Meant(n)
    BY <1>1, <2>2 DEF Meant, ApplyLayout
  <2>4. QED  BY <1>1, <2>1, <2>3 DEF From, IsKeyPress
<1>3. ASSUME n = handled + 1, IsKeyPress(sent[n]), ch = Typed(n)
      PROVE  From(ch, n)'
  <2>1. under'[n] = current_layout
    BY <1>1, <1>3
  <2>2. Meant(n)' = Typed(n)
    BY <1>1, <2>1 DEF Meant, Typed, ShiftBefore, ApplyLayout
  <2>3. QED  BY <1>1, <1>3, <2>2 DEF From, IsKeyPress
<1>4. QED  BY <1>2, <1>3

LEMMA HandlerOrigins ==
  ASSUME TypeOK, Origins, Ordered, KeyboardHandler
  PROVE  Origins' /\ Ordered'
<1> PICK n : n = handled + 1
  OBVIOUS
<1>1. /\ handled \in Nat /\ handled' = n
      /\ UNCHANGED <<pc, c, cByte, got>>
      /\ \/ UNCHANGED <<last_interrupt_char, slotByte>>
         \/ /\ IsKeyPress(sent[n]) /\ last_interrupt_char' = Typed(n)
            /\ slotByte' = n
  <2>1. Handles(n)
    BY HandlerStep
  <2>2. QED  BY <2>1 DEF Handles
<1>2. slotByte \in 0..handled /\ cByte \in 0..handled
  BY DEF TypeOK
<1>3. (last_interrupt_char # NUL => From(last_interrupt_char, slotByte))'
  <2>1. ASSUME NEW ch, NEW m, ch = last_interrupt_char', m = slotByte', ch # NUL
        PROVE  From(ch, m)'
    <3>1. CASE UNCHANGED <<last_interrupt_char, slotByte>>
      BY <2>1, <3>1, HandlerFrom DEF Origins
    <3>2. CASE IsKeyPress(sent[n]) /\ last_interrupt_char' = Typed(n) /\ slotByte' = n
      BY <2>1, <3>2, HandlerFrom
    <3>3. QED  BY <1>1, <3>1, <3>2
  <2>2. QED  BY <2>1 DEF From, Meant
<1>4. (pc = "clear" /\ c # NUL => From(c, cByte))'
  BY <1>1, HandlerFrom DEF Origins
<1>5. \A k \in 1..Len(got) : From(got[k].ch, got[k].n)'
  BY <1>1, HandlerFrom DEF Origins
<1>6. Origins'
  BY <1>1, <1>3, <1>4, <1>5, HandlerShift DEF Origins
<1>7. \A k \in 1..Len(got) : got[k].n \in 1..handled
  BY DEF Origins, From
<1>8. Ordered'
  BY <1>1, <1>2, <1>7 DEF Ordered
<1>9. QED  BY <1>6, <1>8

\* A typed character that byte n overwrites is lost, or already in c.
LEMMA HandlerAccounted ==
  ASSUME TypeOK, Origins, Accounted, KeyboardHandler
  PROVE  Accounted'
<1> PICK n : n = handled + 1
  OBVIOUS
<1>1. /\ handled \in Nat /\ n \in 1..Len(sent) /\ handled' = n
      /\ UNCHANGED <<pc, c, sent, cByte, got>>
      /\ under'[n] = current_layout /\ \A m \in 1..handled : under'[m] = under[m]
      /\ \/ ~IsKeyPress(sent[n]) /\ UNCHANGED <<last_interrupt_char, slotByte, lost>>
         \/ /\ IsKeyPress(sent[n]) /\ last_interrupt_char' = Typed(n)
            /\ slotByte' = n /\ lost' = lost \cup Cost(n)
  <2>1. Handles(n)
    BY HandlerStep
  <2>2. sent[n] \in {42, 54} \/ sent[n] \in {170, 182} => ~IsKeyPress(sent[n])
    BY DEF IsKeyPress
  <2>3. QED  BY <2>1, <2>2 DEF Handles
<1>2. slotByte \in 0..handled /\ cByte \in 0..handled
  BY DEF TypeOK
<1>0. ASSUME NEW m \in 1..Len(sent), Types(m)', m # n
      PROVE  Types(m)
  <2>1. m \in 1..handled
    BY <1>1, <1>0 DEF Types
  <2>2. QED  BY <1>1, <1>0, <2>1 DEF Types, IsKeyPress
<1>3. CASE ~IsKeyPress(sent[n])
  <2>1. UNCHANGED <<last_interrupt_char, slotByte, lost>>
    BY <1>1, <1>3
  <2>2. ASSUME NEW m \in 1..Len(sent), Types(m)'
        PROVE  Delivered(m)' \/ Waiting(m)' \/ m \in lost'
    <3>0. m # n
      BY <1>1, <1>3, <2>2 DEF Types, IsKeyPress
    <3>1. Types(m)
      BY <1>0, <2>2, <3>0
    <3>2. Delivered(m) \/ Waiting(m) \/ m \in lost
      BY <3>1 DEF Accounted, LossExplained
    <3>3. QED  BY <1>1, <2>1, <3>2 DEF Delivered, Waiting
  <2>3. LossExplained'
    BY <1>1, <2>2 DEF LossExplained
  <2>4. QED  BY <1>1, <2>1, <2>3 DEF Accounted
<1>4. CASE IsKeyPress(sent[n])
  <2>1. /\ last_interrupt_char' = Typed(n)
        /\ slotByte' = n /\ lost' = lost \cup Cost(n)
    BY <1>1, <1>4
  <2>2. ASSUME NEW m \in 1..Len(sent), Types(m)'
        PROVE  Delivered(m)' \/ Waiting(m)' \/ m \in lost'
    <3>1. CASE m = n
      <4>1. current_layout \in LayoutNames /\ ShiftBefore(n) \in BOOLEAN
        BY DEF TypeOK, ShiftBefore
      <4>2. TableChar(current_layout, sent[n]) # NUL
        BY <1>1, <2>2, <3>1 DEF Types
      <4>3. Typed(n) # NUL
        BY <4>1, <4>2, TypedIsNotNul DEF Typed
      <4>4. QED  BY <2>1, <3>1, <4>3 DEF Waiting
    <3>2. CASE m # n
      <4>1. Delivered(m) \/ Waiting(m) \/ m \in lost
        BY <1>0, <2>2, <3>2 DEF Accounted, LossExplained
      <4>2. CASE Delivered(m) \/ m \in lost
        BY <1>1, <2>1, <4>2 DEF Delivered
      <4>3. CASE pc = "clear" /\ c # NUL /\ cByte = m
        BY <1>1, <4>3 DEF Waiting
      <4>4. CASE last_interrupt_char # NUL /\ slotByte = m
        <5>1. CASE Unread
          BY <2>1, <4>4, <5>1 DEF Cost
        <5>2. CASE ~Unread
          <6>1. pc = "clear" /\ cByte = m /\ c # NUL
            BY <4>4, <5>2 DEF Unread, Accounted
          <6>2. QED  BY <1>1, <6>1 DEF Waiting
        <5>3. QED  BY <5>1, <5>2
      <4>5. QED  BY <4>1, <4>2, <4>3, <4>4 DEF Waiting
    <3>3. QED  BY <3>1, <3>2
  <2>3. LossExplained'
    BY <1>1, <2>2 DEF LossExplained
  <2>4. pc = "clear" => cByte # slotByte' /\ slotByte' \in lost'
    BY <1>1, <1>2, <2>1 DEF Cost
  <2>5. QED  BY <1>1, <2>3, <2>4 DEF Accounted
<1>5. QED  BY <1>3, <1>4

LEMMA HandlerInv ==
  ASSUME IInv, KeyboardHandler
  PROVE  Origins' /\ Ordered' /\ Accounted' /\ ShiftKept'
<1>1. UNCHANGED <<sent, held, hidden, repeats, solo>>
  BY DEF KeyboardHandler, user
<1>2. ShiftKept'
  BY <1>1 DEF IInv, ShiftKept, ShiftBefore
<1>3. QED  BY <1>2, HandlerOrigins, HandlerAccounted DEF IInv
-----------------------------------------------------------------------------
(* keyboard_get_char.                                                      *)

LEMMA LoadInv ==
  ASSUME IInv, Load
  PROVE  Origins' /\ Ordered' /\ Accounted' /\ ShiftKept'
<1>1. /\ pc = "load" /\ pc' = "clear"
      /\ c' = last_interrupt_char /\ cByte' = slotByte
      /\ UNCHANGED <<shift_active, last_interrupt_char, held, repeats, hidden,
                     sent, solo, handled, slotByte, got, lost, under>>
  BY DEF Load, user
<1>2. Origins'
  <2>1. \A n : \A ch : From(ch, n)' <=> From(ch, n)
    BY <1>1 DEF From, Meant, ShiftBefore, IsKeyPress
  <2>2. ASSUME NEW ch, NEW m, ch = last_interrupt_char, m = slotByte, ch # NUL
        PROVE  From(ch, m)'
    BY <2>1, <2>2 DEF IInv, Origins
  <2>3. /\ (last_interrupt_char # NUL => From(last_interrupt_char, slotByte))'
        /\ (pc = "clear" /\ c # NUL => From(c, cByte))'
    BY <1>1, <2>2 DEF From, Meant
  <2>4. (\A k \in 1..Len(got) : From(got[k].ch, got[k].n))'
    <3>1. \A k \in 1..Len(got') : \A ch : \A m :
            ch = got'[k].ch /\ m = got'[k].n => From(ch, m)'
      BY <1>1, <2>1 DEF IInv, Origins
    <3>2. QED  BY <3>1 DEF From, Meant
  <2>5. (shift_active <=> ShiftBefore(handled + 1))'
    BY <1>1 DEF IInv, Origins, ShiftBefore
  <2>6. QED  BY <2>3, <2>4, <2>5 DEF Origins
<1>3. Ordered'
  BY <1>1 DEF IInv, Ordered, TypeOK
<1>4. Accounted'
  BY <1>1 DEF IInv, Accounted, LossExplained, Types, IsKeyPress, Delivered, Waiting
<1>5. ShiftKept'
  BY <1>1 DEF IInv, ShiftKept, ShiftBefore
<1>6. QED  BY <1>2, <1>3, <1>4, <1>5

\* What Clear hands over, if anything: c, after all that was received.
LEMMA Received ==
  ASSUME IInv, Clear
  PROVE  /\ Len(got) \in Nat
         /\ \/ c = NUL /\ got' = got
            \/ /\ c # NUL /\ got' = Append(got, [n |-> cByte, ch |-> c])
               /\ Len(got') = Len(got) + 1
               /\ got'[Len(got')].n = cByte /\ got'[Len(got')].ch = c
         /\ \A k \in 1..Len(got) : got'[k] = got[k]
<1>1. got \in Seq([n : Nat, ch : Char \ {NUL}])
  BY DEF IInv, TypeOK
<1>2. [n |-> cByte, ch |-> c] \in [n : Nat, ch : Char \ {NUL}] \/ c = NUL
  BY DEF IInv, TypeOK
<1>3. CASE c = NUL
  BY <1>1, <1>3 DEF Clear, Return
<1>4. CASE c # NUL
  <2>1. got' = Append(got, [n |-> cByte, ch |-> c])
    BY <1>4 DEF Clear, Return
  <2>2. QED  BY <1>1, <1>2, <1>4, <2>1, AppendProperties
<1>5. QED  BY <1>3, <1>4

LEMMA ClearInv ==
  ASSUME IInv, Clear
  PROVE  Origins' /\ Ordered' /\ Accounted' /\ ShiftKept'
<1>1. /\ pc = "clear" /\ pc' = "load" /\ last_interrupt_char' = NUL
      /\ UNCHANGED <<shift_active, c, held, repeats, hidden, sent, solo,
                     handled, slotByte, cByte, lost, under>>
  BY DEF Clear, user
<1>2. /\ Len(got) \in Nat
      /\ \/ c = NUL /\ got' = got
         \/ /\ c # NUL /\ Len(got') = Len(got) + 1
            /\ got'[Len(got')].n = cByte /\ got'[Len(got')].ch = c
      /\ \A k \in 1..Len(got) : got'[k] = got[k]
  BY Received
<1>3. \A n : \A ch : From(ch, n)' <=> From(ch, n)
  BY <1>1 DEF From, Meant, ShiftBefore, IsKeyPress
<1>4. \A k \in 1..Len(got') : \/ k \in 1..Len(got) /\ got'[k] = got[k]
                              \/ k = Len(got') /\ c # NUL /\ Len(got') = Len(got) + 1
  BY <1>2
<1>5. Origins'
  <2>1. \A k \in 1..Len(got') : From(got'[k].ch, got'[k].n)
    <3>1. \A k \in 1..Len(got) : From(got[k].ch, got[k].n)
      BY DEF IInv, Origins
    <3>2. c # NUL => From(c, cByte)
      BY <1>1 DEF IInv, Origins
    <3>3. QED  BY <1>2, <1>4, <3>1, <3>2
  <2>2. (shift_active <=> ShiftBefore(handled + 1))'
    BY <1>1 DEF IInv, Origins, ShiftBefore
  <2>3. \A k \in 1..Len(got') : \A ch : \A m :
          ch = got'[k].ch /\ m = got'[k].n => From(ch, m)'
    BY <1>3, <2>1
  <2>4. (\A k \in 1..Len(got) : From(got[k].ch, got[k].n))'
    BY <2>3 DEF From, Meant
  <2>5. QED  BY <1>1, <2>2, <2>4 DEF Origins
<1>6. Ordered'
  <2>1. \A j, k \in 1..Len(got) : j < k => got[j].n < got[k].n
    BY DEF IInv, Ordered
  <2>2. c # NUL => \A k \in 1..Len(got) : got[k].n < cByte
    BY <1>1 DEF IInv, Ordered
  <2>3. \A j, k \in 1..Len(got') : j < k => got'[j].n < got'[k].n
    BY <1>2, <1>4, <2>1, <2>2
  <2>4. QED  BY <1>1, <2>3 DEF Ordered
<1>7. Accounted'
  <2>1. ASSUME NEW m \in 1..Len(sent), Types(m)
        PROVE  Delivered(m)' \/ Waiting(m)' \/ m \in lost'
    <3>1. Delivered(m) \/ Waiting(m) \/ m \in lost
      BY <2>1 DEF IInv, Accounted, LossExplained
    <3>2. CASE Delivered(m)
      <4>1. PICK k \in 1..Len(got) : got[k].n = m
        BY <3>2 DEF Delivered
      <4>2. k \in 1..Len(got') /\ got'[k].n = m
        BY <1>2, <4>1
      <4>3. QED  BY <4>2 DEF Delivered
    <3>3. CASE m \in lost
      BY <1>1, <3>3
    <3>4. CASE c # NUL /\ cByte = m
      <4>1. Len(got') \in 1..Len(got') /\ got'[Len(got')].n = m
        BY <1>2, <3>4
      <4>2. QED  BY <4>1 DEF Delivered
    <3>5. CASE last_interrupt_char # NUL /\ slotByte = m /\ cByte # slotByte
      BY <1>1, <3>5 DEF IInv, Accounted
    <3>6. QED
      BY <1>1, <3>1, <3>2, <3>3, <3>4, <3>5 DEF Waiting, IInv, Accounted
  <2>2. LossExplained'
    BY <1>1, <2>1 DEF LossExplained, Types, IsKeyPress
  <2>3. QED  BY <1>1, <2>2 DEF Accounted
<1>8. ShiftKept'
  BY <1>1 DEF IInv, ShiftKept, ShiftBefore
<1>9. QED  BY <1>5, <1>6, <1>7, <1>8
-----------------------------------------------------------------------------
(* The theorems.                                                           *)

LEMMA InvInit ==
  ASSUME Init
  PROVE  Origins /\ Ordered /\ Accounted /\ ShiftKept
<1>1. /\ handled = 0 /\ shift_active = FALSE /\ pc = "load"
      /\ last_interrupt_char = NUL /\ held = {} /\ hidden = {} /\ lost = {}
      /\ Len(got) = 0 /\ Len(sent) = 0
  BY DEF Init
<1>2. ~ShiftBefore(1)
  BY DEF ShiftBefore
<1>3. Origins
  BY <1>1, <1>2 DEF Origins
<1>4. Ordered
  BY <1>1 DEF Ordered
<1>5. Accounted
  BY <1>1 DEF Accounted, LossExplained
<1>6. ShiftKept
  BY <1>1, <1>2 DEF ShiftKept
<1>7. QED  BY <1>3, <1>4, <1>5, <1>6

\* The invariant does not depend on the layout that is current.
LEMMA InvUnchanged ==
  ASSUME IInv, Layout \/ UNCHANGED vars
  PROVE  Origins' /\ Ordered' /\ Accounted' /\ ShiftKept'
<1>1. UNCHANGED <<shift_active, last_interrupt_char, pc, c, held, repeats,
                  hidden, sent, solo, handled, slotByte, cByte, got, lost, under>>
  BY DEF vars, code, user, Layout, SetLayout
<1>2. \A n : \A ch : From(ch, n)' <=> From(ch, n)
  BY <1>1 DEF From, Meant, ShiftBefore, IsKeyPress
<1>3. \A ch : \A m : \/ ch = last_interrupt_char' /\ m = slotByte' /\ ch # NUL
                     \/ pc = "clear" /\ ch = c' /\ m = cByte' /\ ch # NUL
                     \/ \E k \in 1..Len(got') : ch = got'[k].ch /\ m = got'[k].n
        => From(ch, m)'
  BY <1>1, <1>2 DEF IInv, Origins
<1>4. Origins'
  <2>1. /\ (last_interrupt_char # NUL => From(last_interrupt_char, slotByte))'
        /\ (pc = "clear" /\ c # NUL => From(c, cByte))'
    BY <1>1, <1>3 DEF From, Meant
  <2>2. (\A k \in 1..Len(got) : From(got[k].ch, got[k].n))'
    BY <1>3 DEF From, Meant
  <2>3. (shift_active <=> ShiftBefore(handled + 1))'
    BY <1>1 DEF IInv, Origins, ShiftBefore
  <2>4. QED  BY <2>1, <2>2, <2>3 DEF Origins
<1>5. Ordered' /\ Accounted' /\ ShiftKept'
  BY <1>1 DEF IInv, Ordered, Accounted, LossExplained, ShiftKept, ShiftBefore,
              Types, IsKeyPress, Delivered, Waiting
<1>6. QED  BY <1>4, <1>5

\* Where every character in the driver is from, in what order, and what the
\* loss of one is due to: the invariant that the theorems below rest on.
THEOREM Invariant == Spec => []IInv
<1>1. Init /\ TypeOK => IInv
  BY InvInit DEF IInv
<1>2. IInv /\ [Next]_vars /\ TypeOK' => IInv'
  <2> SUFFICES ASSUME IInv, [Next]_vars, TypeOK' PROVE IInv'
    OBVIOUS
  <2>1. CASE User
    BY <2>1, UserOrigins, UserAccounted, UserShift DEF IInv
  <2>2. CASE KeyboardHandler
    BY <2>2, HandlerInv DEF IInv
  <2>3. CASE Load
    BY <2>3, LoadInv DEF IInv
  <2>4. CASE Clear
    BY <2>4, ClearInv DEF IInv
  <2>5. CASE Layout \/ UNCHANGED vars
    BY <2>5, InvUnchanged DEF IInv
  <2>6. QED  BY <2>1, <2>2, <2>3, <2>4, <2>5 DEF Next
<1>3. QED  BY <1>1, <1>2, TypeCorrect, PTL DEF Spec

\* keyboard_get_char hands over what the key typed at its moment, for every
\* interleaving of the handler with the reader and every sequence of keys.
THEOREM AsTyped == Spec => []DeliveredAsTyped
<1>1. IInv => DeliveredAsTyped
  BY DEF IInv, Origins, From, Meant, DeliveredAsTyped
<1>2. QED  BY <1>1, Invariant, PTL

\* A typed character is delivered, on its way, or lost to a later key press
\* or to the store that follows the load in keyboard_get_char.
THEOREM LossIsExplained == Spec => []LossExplained
<1>1. IInv => LossExplained
  BY DEF IInv, Accounted
<1>2. QED  BY <1>1, Invariant, PTL

\* No sequence of key events leaves shift_active on with every key that sends
\* a shift code up.
THEOREM ShiftNotStuck == Spec => []NoStuckShift
<1>1. IInv => NoStuckShift
  BY DEF IInv, Origins, ShiftKept, NoStuckShift
<1>2. QED  BY <1>1, Invariant, PTL

\* A shift key used alone is honoured as long as it is down, except while a
\* navigation key pressed with it is down too: then the flag is off.
THEOREM SoloShift == Spec => []SoloShiftHonoured
<1>1. IInv => SoloShiftHonoured
  BY DEF IInv, Origins, ShiftKept, SoloShiftHonoured
<1>2. QED  BY <1>1, Invariant, PTL
-----------------------------------------------------------------------------
(* The refinement.                                                         *)

Positions == [k \in 1..Len(got) |-> got[k].n]

\* A key event only adds to what was sent.
LEMMA UserIsSend ==
  ASSUME TypeOK, User
  PROVE  Mailbox!Send
<1>1. PICK bytes : KeyEvent(bytes)
  BY UserSends
<1>2. /\ sent \in Seq(0..255) /\ bytes \in Seq(0..255) /\ Len(bytes) >= 1
      /\ sent' = sent \o bytes /\ got' = got
  BY <1>1 DEF TypeOK, KeyEvent
<1>3. sent' \in Seq(0..255) /\ Len(sent') > Len(sent)
  <2>1. IsJoined(sent', sent, bytes)
    BY <1>2, Joined
  <2>2. QED  BY <1>2, <2>1 DEF IsJoined
<1>4. SubSeq(sent', 1, Len(sent)) = sent
  BY <1>2
<1>5. QED  BY <1>2, <1>3, <1>4 DEF Mailbox!Send

\* What Clear hands over is a byte sent later than all that was received.
LEMMA ClearIsDeliver ==
  ASSUME IInv, Clear
  PROVE  Mailbox!Deliver \/ UNCHANGED <<sent, Positions>>
<1>1. sent' = sent /\ pc = "clear"
  BY DEF Clear, user
<1>2. CASE c = NUL
  BY <1>1, <1>2 DEF Clear, Return, Positions
<1>3. CASE c # NUL
  <2>1. cByte \in 1..Len(sent)
    BY <1>1, <1>3 DEF IInv, Origins, From, TypeOK
  <2>2. \A k \in 1..Len(got) : got[k].n < cByte
    BY <1>1, <1>3 DEF IInv, Ordered
  <2>3. /\ Len(got) \in Nat /\ Len(got') = Len(got) + 1
        /\ got'[Len(got')].n = cByte
        /\ \A k \in 1..Len(got) : got'[k] = got[k] /\ got[k].n \in Nat
    <3>1. /\ Len(got) \in Nat /\ Len(got') = Len(got) + 1
          /\ got'[Len(got')].n = cByte
          /\ \A k \in 1..Len(got) : got'[k] = got[k]
      BY <1>3, Received
    <3>2. \A k \in 1..Len(got) : got[k].n \in Nat
      BY DEF IInv, Origins, From
    <3>3. QED  BY <3>1, <3>2
  <2>4. Positions \in Seq(Nat) /\ Len(Positions) = Len(got)
    BY <2>3 DEF Positions
  <2>5. Positions' = Append(Positions, cByte)
    BY <2>1, <2>3, <2>4, AppendProperties DEF Positions
  <2>6. QED  BY <1>1, <2>1, <2>2, <2>3, <2>4, <2>5 DEF Mailbox!Deliver, Positions
<1>4. QED  BY <1>2, <1>3

\* The driver implements the lossy channel: its reader never receives a byte
\* twice, out of order, or one that was not sent.
THEOREM Refinement == Spec => ImplementsMailbox
<1>1. Init => Mailbox!Init
  BY DEF Init, Mailbox!Init
<1>2. IInv /\ [Next]_vars => [Mailbox!Next]_<<sent, Positions>>
  <2> SUFFICES ASSUME IInv, [Next]_vars
               PROVE  [Mailbox!Next]_<<sent, Positions>>
    OBVIOUS
  <2>1. CASE User
    BY <2>1, UserIsSend DEF IInv, Mailbox!Next
  <2>2. CASE KeyboardHandler
    BY <2>2 DEF KeyboardHandler, user, Positions
  <2>3. CASE Load
    BY <2>3 DEF Load, user, Positions
  <2>4. CASE Clear
    BY <2>4, ClearIsDeliver DEF Mailbox!Next
  <2>5. CASE Layout \/ UNCHANGED vars
    BY <2>5 DEF vars, code, user, Layout, SetLayout, Positions
  <2>6. QED  BY <2>1, <2>2, <2>3, <2>4, <2>5 DEF Next
<1>3. QED
  BY <1>1, <1>2, Invariant, PTL DEF Spec, ImplementsMailbox, Mailbox!Spec, Positions
=============================================================================
