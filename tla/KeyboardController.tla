------------------------- MODULE KeyboardController -------------------------
(***************************************************************************)
(* keyboard_init (kernel/drivers/keyboard.c) against the 8042 controller   *)
(* and the keyboard interrupt.  kmain calls it once with interrupts off,   *)
(* then sets IF; the shell's layout command calls it again with them on,   *)
(* and then keyboard_handler competes with it for the one output buffer.   *)
(* Its first line, the store to current_layout, is Keyboard's SetLayout.   *)
(*                                                                         *)
(* The controller is external: it takes commands and data from a one-byte  *)
(* input buffer, puts its replies and the keyboard's bytes in a one-byte   *)
(* output buffer, and latches IRQ1 whenever that buffer fills while bit 0  *)
(* of the configuration byte is set.  A read of an empty output buffer     *)
(* returns the last byte again, and a read may or may not withdraw an      *)
(* interrupt that is latched (PICs differ).                                *)
(***************************************************************************)
EXTENDS Integers, FiniteSets

CONSTANTS
  Firmware,  \* the configuration bytes the firmware may leave
  KeyBytes,  \* the bytes the keyboard may send
  MaxKeys,   \* bound: the bytes it sends in one behaviour
  MaxCalls   \* bound: the layout commands in one behaviour

ASSUME ByteAssumption == Firmware \subseteq 0..255 /\ KeyBytes \subseteq 0..255
ASSUME BoundAssumption == MaxKeys \in Nat /\ MaxCalls \in Nat

VARIABLES
  pc,           \* the statement keyboard_init is at; "done" when it is not
  cb,           \* its local cb
  interrupts,   \* the IF flag
  config,       \* the 8042's configuration byte
  ib,           \* its input buffer: {} or one command or datum
  expectsData,  \* it has taken command 0x60 and waits for the byte
  replying,     \* a reply is waiting for the output buffer
  ob, obFull,   \* the output buffer and status bit 0
  obReply,      \* whether ob holds the reply to command 0x20
  irq,          \* IRQ1 is latched
  keys, calls,  \* how many bytes came, how many calls were made
  configured,   \* history: a call has written the configuration byte
  robbed,       \* history: the handler read the reply this call awaits
  mistaken      \* history: a byte that is no reply was taken for one

main       == <<cb, interrupts, calls, configured, mistaken>>
controller == <<config, ib, expectsData, replying>>
buffer     == <<ob, obFull, obReply, irq>>
vars == <<pc, main, controller, buffer, keys, robbed>>

ENABLE == [cmd |-> 174]  \* 0xAE: enable the keyboard's clock
ASK    == [cmd |-> 32]   \* 0x20: reply with the configuration byte
SET    == [cmd |-> 96]   \* 0x60: the next datum is the configuration byte
Datum(b) == [datum |-> b]

Bit(b, k) == (b \div 2^k) % 2
ClockOn(b) == b - 16 * Bit(b, 4)

\* cb |= 1; cb &= ~0x10
EnabledClockAsFound(b) == b + (1 - Bit(b, 0))
EnabledAlone(b) == 1
Enabled(b) == ClockOn(b + (1 - Bit(b, 0)))

-----------------------------------------------------------------------------
(* keyboard_init; each step makes at most one access to a port.            *)

Goto(from, to) == pc = from /\ pc' = to

Read == /\ obFull' = FALSE
        /\ irq' \in {irq, FALSE}
        /\ UNCHANGED <<ob, obReply>>

Write(x) == ib' = {x} /\ UNCHANGED <<config, expectsData, replying>>

\* while (inb(0x64) & 1) inb(0x60);
Drain == /\ \/ obFull /\ Goto("drain", "discard")
            \/ ~obFull /\ Goto("drain", "enable")
         /\ UNCHANGED <<main, controller, buffer, keys, robbed>>
Discard == Goto("discard", "drain") /\ Read
           /\ UNCHANGED <<main, controller, keys, robbed>>

\* outb(0x64, 0xAE); outb(0x64, 0x20); the second does not wait for the first.
EnableClock == Goto("enable", "ask") /\ Write(ENABLE)
               /\ UNCHANGED <<main, buffer, keys, robbed>>
AskOtherCommand == Goto("ask", "await") /\ Write(ENABLE)
                   /\ UNCHANGED <<main, buffer, keys, robbed>>
Ask == Goto("ask", "await") /\ Write(ASK)
       /\ UNCHANGED <<main, buffer, keys, robbed>>

\* while (!(inb(0x64) & 1));
Await == /\ obFull /\ Goto("await", "take")
         /\ UNCHANGED <<main, controller, buffer, keys, robbed>>

\* uint8_t cb = inb(0x60); cb |= 1; cb &= ~0x10;
Take == /\ Goto("take", "set") /\ Read
        /\ cb' = Enabled(ob)
        /\ mistaken' = (mistaken \/ ~obReply)
        /\ UNCHANGED <<interrupts, calls, configured, controller, keys, robbed>>

\* outb(0x64, 0x60); while (inb(0x64) & 2); outb(0x60, cb);
Set == Goto("set", "put") /\ Write(SET)
       /\ UNCHANGED <<main, buffer, keys, robbed>>
PutUnwaited == /\ Goto("put", "done") /\ Write(Datum(cb))
               /\ configured' = TRUE
               /\ UNCHANGED <<cb, interrupts, calls, mistaken, buffer, keys, robbed>>
Put == /\ ib = {}
       /\ Goto("put", "done") /\ Write(Datum(cb))
       /\ configured' = TRUE
       /\ UNCHANGED <<cb, interrupts, calls, mistaken, buffer, keys, robbed>>

KeyboardInit == \/ Drain \/ Discard \/ EnableClock \/ Ask
                \/ Await \/ Take \/ Set \/ Put

\* kmain's sti, and the shell's layout command; the 8042 has taken the last
\* datum long before the user has typed a line.
Sti == /\ pc = "done" /\ ~interrupts
       /\ interrupts' = TRUE
       /\ UNCHANGED <<pc, cb, calls, configured, mistaken,
                      controller, buffer, keys, robbed>>
CmdLayout == /\ interrupts /\ ib = {} /\ Goto("done", "drain")
             /\ calls < MaxCalls /\ calls' = calls + 1 /\ robbed' = FALSE
             /\ UNCHANGED <<cb, interrupts, configured, mistaken,
                            controller, buffer, keys>>

\* A handler that sees to the interrupt and leaves the byte where it is.
KeyboardHandlerUnread ==
  /\ interrupts /\ irq
  /\ irq' = FALSE
  /\ UNCHANGED <<pc, main, controller, ob, obFull, obReply, keys, robbed>>

\* interrupt_handler for vector 33: keyboard_handler reads one byte.
KeyboardHandler == /\ interrupts /\ irq
                   /\ irq' = FALSE /\ obFull' = FALSE
                   /\ robbed' = (robbed \/ (obFull /\ obReply /\ pc = "await"))
                   /\ UNCHANGED <<pc, main, controller, ob, obReply, keys>>

-----------------------------------------------------------------------------
(* The 8042 and the keyboard.                                              *)

Fill(b, reply) == /\ ~obFull
                  /\ obFull' = TRUE /\ ob' = b /\ obReply' = reply
                  /\ irq' = (irq \/ Bit(config, 0) = 1)

\* A datum nobody announced goes to the keyboard and changes nothing here.
\* Turning the interrupt on raises it for a byte that is there already.
Accept == /\ ib # {} /\ ib' = {}
          /\ LET x == CHOOSE x \in ib : TRUE
             IN  /\ config' = IF x = ENABLE THEN ClockOn(config)
                              ELSE IF "datum" \in DOMAIN x /\ expectsData
                              THEN x.datum ELSE config
                 /\ replying' = (replying \/ x = ASK)
                 /\ expectsData' = (x = SET)
          /\ irq' = (irq \/ (obFull /\ Bit(config, 0) < Bit(config', 0)))
          /\ UNCHANGED <<pc, main, ob, obFull, obReply, keys, robbed>>

Reply == /\ replying /\ replying' = FALSE
         /\ Fill(config, TRUE)
         /\ UNCHANGED <<pc, main, config, ib, expectsData, keys, robbed>>

KeyByte == /\ Bit(config, 4) = 0
           /\ keys < MaxKeys /\ keys' = keys + 1
           /\ \E b \in KeyBytes : Fill(b, FALSE)
           /\ UNCHANGED <<pc, main, controller, robbed>>

-----------------------------------------------------------------------------
\* What the firmware leaves: any configuration byte, a byte nobody has read
\* or none, and its interrupt latched or not.
Init ==
  /\ pc = "drain" /\ cb = 0 /\ interrupts = FALSE
  /\ config \in Firmware /\ ib = {} /\ expectsData = FALSE /\ replying = FALSE
  /\ ob \in KeyBytes /\ obFull \in BOOLEAN /\ obReply = FALSE /\ irq \in BOOLEAN
  /\ keys = 0 /\ calls = 0
  /\ configured = FALSE /\ robbed = FALSE /\ mistaken = FALSE

Next == \/ KeyboardInit \/ Sti \/ CmdLayout \/ KeyboardHandler
        \/ Accept \/ Reply \/ KeyByte

Spec == Init /\ [][Next]_vars

\* The main thread runs, a latched interrupt is taken once IF is set, and
\* the controller answers; nobody has to type.
Fairness == /\ WF_vars(KeyboardInit \/ Sti) /\ WF_vars(KeyboardHandler)
            /\ WF_vars(Accept) /\ WF_vars(Reply)
FairSpec == Spec /\ Fairness

-----------------------------------------------------------------------------
TypeOK ==
  /\ pc \in {"drain", "discard", "enable", "ask", "await", "take", "set",
             "put", "done"}
  /\ cb \in 0..255 /\ config \in 0..255 /\ ob \in 0..255
  /\ ib \subseteq {ENABLE, ASK, SET} \cup { Datum(b) : b \in 0..255 }
  /\ Cardinality(ib) <= 1
  /\ interrupts \in BOOLEAN /\ expectsData \in BOOLEAN /\ replying \in BOOLEAN
  /\ obFull \in BOOLEAN /\ obReply \in BOOLEAN /\ irq \in BOOLEAN
  /\ configured \in BOOLEAN /\ robbed \in BOOLEAN /\ mistaken \in BOOLEAN
  /\ keys \in 0..MaxKeys /\ calls \in 0..MaxCalls

\* Once a call has written the configuration byte, the keyboard can be heard
\* for ever: its interrupt is on and its clock is not off, whatever byte was
\* taken for the controller's reply and whoever read the buffer.
KeyboardStaysEnabled ==
  configured /\ ib = {} => Bit(config, 0) = 1 /\ Bit(config, 4) = 0

\* The other bits (among them scan-code translation, on which the layout
\* tables rely) are as the firmware left them, unless a key's byte was taken
\* for the reply - which keyboard_init does not tell apart.
OtherBits(b) == { k \in (0..7) \ {0, 4} : Bit(b, k) = 1 }
ConfigPreserved ==
  ~mistaken => \E f \in Firmware : OtherBits(config) = OtherBits(f)

\* keyboard_init returns, whatever the firmware left in the buffer and
\* whatever is typed meanwhile, unless the handler took the reply it was
\* waiting for - which at boot, with interrupts off, does not happen.
ReturnsUnlessRobbed == pc = "drain" ~> pc = "done" \/ robbed

\* No byte stays in the output buffer, where it would keep every later key
\* from coming: although IRQ1 is raised once for a byte, and two readers race
\* for it, somebody always reads.
KeyboardNeverDeaf == obFull ~> ~obFull

\* The layout command changes the layout and comes back to the prompt.
LayoutReturns == calls > 0 ~> pc = "done"
=============================================================================
