------------------------------ MODULE Keyboard ------------------------------
(***************************************************************************)
(* kernel/drivers/keyboard.c once interrupts are on: the interrupt side    *)
(* (keyboard_handler) leaves each decoded character in the one-byte        *)
(* mailbox last_interrupt_char, and the main side polls it with            *)
(* keyboard_get_char, which loads the byte and then clears it.             *)
(*                                                                         *)
(* interrupt_handler runs behind an interrupt gate, so the handler is one  *)
(* step; the main side is two, because the interrupt may fall between the  *)
(* load and the store of the volatile byte.  Between two polls the main    *)
(* side may run the layout command: keyboard_init's store to               *)
(* current_layout is here, where the handler reads it; what keyboard_init  *)
(* says to the 8042, and the key bytes it may take from the handler by     *)
(* doing so, are the subject of KeyboardController.                        *)
(*                                                                         *)
(* The keyboard itself (external) is the sequence of bytes it sends: the   *)
(* PS/2 set-1 codes of the keys a user presses, holds and releases.        *)
(***************************************************************************)
EXTENDS Layouts, FiniteSets

CONSTANTS
  Keys,      \* the keys the user has
  MaxEvents  \* bound: the bytes sent, prefixes not counted, and the layout
             \* commands run in one behaviour

\* What each key sends when pressed and when released.  PrintScreen wraps
\* its own code in a fake left shift, as set 1 prescribes (a real shift held
\* with it would suppress the fake one; here it is sent all the same).
\* "up" stands for the navigation keys, the arrows, Insert, Delete and so on.
MakeCode == [ three |-> <<4>>, alt |-> <<56>>,
              lshift |-> <<42>>, rshift |-> <<54>>, up |-> <<224, 72>>,
              prtsc |-> <<224, 42, 224, 55>> ]
BreakCode == [ three |-> <<132>>, alt |-> <<184>>,
               lshift |-> <<170>>, rshift |-> <<182>>, up |-> <<224, 200>>,
               prtsc |-> <<224, 183, 224, 170>> ]
RepeatCode(k) == IF k = "prtsc" THEN <<224, 55>> ELSE MakeCode[k]

ASSUME KeysAssumption == Keys \subseteq DOMAIN MakeCode
ASSUME BoundAssumption == MaxEvents \in Nat

VARIABLES
  current_layout,
  shift_active,
  last_interrupt_char,
  pc,       \* keyboard_get_char: about to "load", or about to "clear"
  c,        \* its local c
  held,     \* the keys that are down
  repeats,  \* the key whose typematic repeat is running, as a set
  hidden,   \* the shift keys whose release the keyboard has feigned
  sent,     \* every byte the keyboard has sent
  handled,  \* how many of them keyboard_handler has read
  \* history
  slotByte, \* which byte the mailbox's character came from
  cByte,    \* which byte c's character came from
  got,      \* what the reader received: records [n, ch]
  lost,     \* bytes whose loss the one-byte mailbox explains
  under,    \* the layout that was current when each byte was handled
  sets,     \* how many layout commands have run
  solo      \* since all shift-like keys were up, at most one was used

code == <<current_layout, shift_active, last_interrupt_char, pc, c>>
user == <<held, repeats, hidden, sent, solo>>
vars == <<code, user, handled, slotByte, cByte, got, lost, under, sets>>

-----------------------------------------------------------------------------
(* The user and the keyboard.                                              *)

RealShift == {"lshift", "rshift"}
ShiftKeys == RealShift \cup {"prtsc"}
NavKeys == {"up"}

\* A navigation key sends the codes of the numeric pad's key behind 0xE0.
\* For these to mean the same with shift, the keyboard feigns the release of
\* the shift keys that are down first, and their press again once the key is
\* up, if they are down still.
Feigned(byte, k, S) == IF k \in S THEN <<224, byte>> ELSE <<>>
FakeBreak(S) == Feigned(170, "lshift", S) \o Feigned(182, "rshift", S)
FakeMake(S) == Feigned(42, "lshift", S) \o Feigned(54, "rshift", S)
Hides(k) == IF k \in NavKeys THEN held \cap RealShift ELSE {}
Shows(k) == IF k \in NavKeys THEN hidden ELSE {}
PressCodes(k) == FakeBreak(Hides(k)) \o MakeCode[k]
ReleaseCodes(k) == BreakCode[k] \o FakeMake(Shows(k))

\* The prefix 0xE0 does not count towards the bound.
Count(bytes) == Len(SelectSeq(bytes, LAMBDA b : b # 224))

Emit(bytes) == /\ Count(sent \o bytes) + sets <= MaxEvents
               /\ sent' = sent \o bytes
               /\ UNCHANGED <<code, handled, slotByte, cByte, got, lost,
                               under, sets>>

Press(k) == /\ k \notin held
            /\ Emit(PressCodes(k))
            /\ hidden' = hidden \cup Hides(k)
            /\ held' = held \cup {k}
            /\ repeats' = {k}
            /\ solo' = IF k \in ShiftKeys
                       THEN held \cap ShiftKeys = {} ELSE solo

Repeat(k) == /\ k \in repeats
             /\ Emit(RepeatCode(k))
             /\ UNCHANGED <<held, repeats, hidden, solo>>

Release(k) == /\ k \in held
              /\ Emit(ReleaseCodes(k))
              /\ hidden' = hidden \ (Shows(k) \cup {k})
              /\ held' = held \ {k}
              /\ repeats' = repeats \ {k}
              /\ UNCHANGED solo

-----------------------------------------------------------------------------
(* keyboard_handler                                                        *)

ShiftMakeLeftOnly == {42}
ShiftMake == {42, 54}
ShiftBreakLeftOnly == {170}
ShiftBreak == {170, 182}
IsShift(byte) == byte \in ShiftMake \cup ShiftBreak

\* The codes that are decoded into the mailbox: presses, not releases.
DecodesReleases(byte) == ~IsShift(byte)
Decodes(byte) == ~IsShift(byte) /\ byte < 128

DecodedUnshifted(byte) == ApplyLayoutUnshifted(current_layout, shift_active, byte)
Decoded(byte) == ApplyLayout(current_layout, shift_active, byte)

\* History: the mailbox holds a character that the reader has not loaded;
\* what the arrival of key-press byte n costs a one-byte mailbox - the
\* character still in it, and n itself if the reader is about to clear.
IsKeyPress(byte) == byte < 128 /\ byte \notin {42, 54}
Unread == last_interrupt_char # NUL /\ ~(pc = "clear" /\ cByte = slotByte)
Cost(n) == { m \in {slotByte} : Unread } \cup { m \in {n} : pc = "clear" }

KeyboardHandler ==
  /\ handled < Len(sent)
  /\ handled' = handled + 1
  /\ LET n        == handled + 1
         scancode == sent[n]
     IN  /\ \/ /\ scancode \in ShiftMake
               /\ shift_active' = TRUE
               /\ UNCHANGED <<last_interrupt_char, slotByte>>
            \/ /\ scancode \in ShiftBreak
               /\ shift_active' = FALSE
               /\ UNCHANGED <<last_interrupt_char, slotByte>>
            \/ /\ Decodes(scancode)
               /\ last_interrupt_char' = Decoded(scancode)
               /\ slotByte' = n
               /\ UNCHANGED shift_active
            \/ /\ ~IsShift(scancode) /\ ~Decodes(scancode)
               /\ UNCHANGED <<shift_active, last_interrupt_char, slotByte>>
         /\ lost' = IF IsKeyPress(scancode) THEN lost \cup Cost(n) ELSE lost
  /\ under' = Append(under, current_layout)
  /\ UNCHANGED <<current_layout, pc, c, user, cByte, got, sets>>

-----------------------------------------------------------------------------
(* keyboard_get_char                                                       *)


Load == /\ pc = "load"
        /\ pc' = "clear"
        /\ c' = last_interrupt_char
        /\ cByte' = slotByte
        /\ UNCHANGED <<current_layout, shift_active, last_interrupt_char,
                       user, handled, slotByte, got, lost, under, sets>>

\* What the caller sees: readline skips a NUL.
ReturnNulToo == got' = Append(got, [n |-> cByte, ch |-> c])
Return == got' = IF c = NUL THEN got ELSE Append(got, [n |-> cByte, ch |-> c])

ClearForgotten == /\ pc = "clear"
                  /\ pc' = "load"
                  /\ Return
                  /\ UNCHANGED <<current_layout, shift_active, c, user, handled,
                                 last_interrupt_char, slotByte, cByte, lost,
                                   under, sets>>

Clear == /\ pc = "clear"
         /\ pc' = "load"
         /\ last_interrupt_char' = NUL
         /\ Return
         /\ UNCHANGED <<current_layout, shift_active, c, user, handled,
                        slotByte, cByte, lost, under, sets>>

-----------------------------------------------------------------------------
(* keyboard_init's first line, from cmd_layout, which readline's caller    *)
(* runs between two polls.                                                 *)

SetLayout(layout) ==
  /\ Count(sent) + sets < MaxEvents
  /\ pc = "load"
  /\ current_layout' = layout
  /\ sets' = sets + 1
  /\ UNCHANGED <<shift_active, last_interrupt_char, pc, c, user, handled,
                 slotByte, cByte, got, lost, under>>

-----------------------------------------------------------------------------
Init ==
  /\ current_layout \in LayoutNames
  /\ shift_active = FALSE
  /\ last_interrupt_char = NUL
  /\ pc = "load" /\ c = NUL
  /\ held = {} /\ repeats = {} /\ hidden = {} /\ sent = <<>> /\ handled = 0
  /\ slotByte = 0 /\ cByte = 0 /\ got = <<>> /\ lost = {} /\ solo = TRUE
  /\ under = <<>> /\ sets = 0

User == \E k \in Keys : Press(k) \/ Repeat(k) \/ Release(k)

Layout == \E layout \in LayoutNames : SetLayout(layout)

Next == User \/ KeyboardHandler \/ Load \/ Clear \/ Layout

Spec == Init /\ [][Next]_vars

\* readline polls for ever, and with interrupts enabled a pending keyboard
\* interrupt is taken; nothing obliges the user to press or to type a command.
Fairness == WF_vars(KeyboardHandler) /\ WF_vars(Load) /\ WF_vars(Clear)

FairSpec == Spec /\ Fairness

-----------------------------------------------------------------------------
TypeOK ==
  /\ current_layout \in LayoutNames
  /\ shift_active \in BOOLEAN
  /\ last_interrupt_char \in Char
  /\ pc \in {"load", "clear"}
  /\ c \in Char
  /\ held \subseteq Keys /\ repeats \subseteq held
  /\ hidden \subseteq held \cap RealShift
  /\ sent \in Seq(0..255)
  /\ handled \in 0..Len(sent)
  /\ slotByte \in 0..handled /\ cByte \in 0..handled
  /\ got \in Seq([n : Nat, ch : Char \ {NUL}])
  /\ lost \subseteq 0..handled
  /\ solo \in BOOLEAN
  /\ under \in Seq(LayoutNames) /\ Len(under) = handled
  /\ sets \in Nat

\* The reader is a lossy, ordered, duplicate-free view of the keyboard: the
\* load-then-clear of keyboard_get_char and the overwriting handler never
\* deliver a key twice or out of order, wherever the interrupt falls.
Mailbox == INSTANCE KeyMailbox WITH got <- [k \in 1..Len(got) |-> got[k].n]
ImplementsMailbox == Mailbox!Spec

\* The shift state a byte should be decoded under: that of the last shift
\* code sent before it.
ShiftBefore(n) ==
  \E m \in 1..(n-1) : /\ sent[m] \in {42, 54}
                      /\ \A k \in (m+1)..(n-1) : sent[k] \notin {170, 182}

\* A character the reader receives is the decoding of the key press it came
\* from under the layout and the shift state of that moment: what follows it,
\* a shift code that the handler takes before the reader polls or a layout
\* command, does not change it.
DeliveredAsTyped ==
  \A k \in 1..Len(got) :
    LET n == got[k].n
    IN  got[k].ch = ApplyLayout(under[n], ShiftBefore(n), sent[n])

\* A key press that has been handled and types a character.
Types(n) == /\ n <= handled
            /\ IsKeyPress(sent[n])
            /\ TableChar(under[n], sent[n]) # NUL

Delivered(n) == \E k \in 1..Len(got) : got[k].n = n
Waiting(n) == \/ last_interrupt_char # NUL /\ slotByte = n
              \/ pc = "clear" /\ c # NUL /\ cByte = n

\* The only ways to lose a typed character: a later key press arrives before
\* the reader has loaded it, or it arrives between the reader's load and
\* clear.  Releases, shift keys, layout commands and the end of a poll lose
\* nothing.  (What keyboard_init itself takes is not counted here.)
LossExplained ==
  \A n \in 1..Len(sent) : Types(n) => Delivered(n) \/ Waiting(n) \/ n \in lost

\* Once every code is processed, shift is on only while a key that sends a
\* shift code is down: no sequence of presses, of navigation keys with their
\* feigned codes too, leaves shift stuck.  (Provided the handler gets every
\* byte: a release that keyboard_init takes for the controller's reply is not
\* seen by it.)
NoStuckShift ==
  shift_active /\ handled = Len(sent) => held \cap ShiftKeys # {}

\* One shift key in use and down: the flag is on, except while a navigation
\* key is down that was pressed with it.  The release that key feigns is a
\* release to keyboard_handler, which looks at no prefix, so other keys typed
\* meanwhile come out unshifted; the press it feigns last puts the flag right.
\* (With two shift keys in use the release of either turns shift off: there is
\* one flag.)
SoloShiftHonoured ==
  solo /\ handled = Len(sent) /\ held \cap RealShift # {}
    => (shift_active <=> hidden = {})

\* No byte is left unhandled and no typed character left behind: each is
\* delivered or lost for one of the two reasons of LossExplained, in finite
\* time.
Resolved(n) ==
  n <= handled /\ (Types(n) => Delivered(n) \/ n \in lost)
=============================================================================
