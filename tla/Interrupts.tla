----------------------------- MODULE Interrupts -----------------------------
(***************************************************************************)
(* kernel/arch/x86_64/idt.c and interrupts.s with timer_handler: the path  *)
(* of an interrupt through the two PICs, the IDT, the common stub,         *)
(* interrupt_handler and its end-of-interrupt commands; and rsod, which    *)
(* counts down to a reboot after an exception.  Boot composes these actions*)
(* with kmain, which programs the PICs and loads the tables.               *)
(*                                                                         *)
(* Every gate is an interrupt gate (0x8E): IF is clear from the delivery to*)
(* the iretq.  A vector without a gate ends in a general protection fault, *)
(* delivered as vector 13, or in a double fault, as vector 8, if it is that*)
(* of an exception of the kinds the CPU escalates; with the boot loader's  *)
(* tables still in place, any delivery ends in a triple fault, which resets*)
(* the machine.                                                            *)
(*                                                                         *)
(* The PICs are external: a line that rises is latched (irr) until it is   *)
(* acknowledged, then in service (isr) until an EOI ends the in-service    *)
(* line of highest priority.  A line that falls before the acknowledgement *)
(* is delivered as the spurious line 7 or 15, never put in service.        *)
(***************************************************************************)
EXTENDS Integers, Sequences, FiniteSets

CONSTANTS
  Lines,       \* the lines a device may raise, in 0..15 without the cascade
  Exceptions,  \* the exceptions the main thread may cause
  MaxRaises    \* bound: how often each line rises

ASSUME LineAssumption == Lines \subseteq (0..15) \ {2} /\ MaxRaises \in Nat
ASSUME ExceptionAssumption == Exceptions \subseteq 0..31

VARIABLES
  interrupts,  \* the IF flag
  at,          \* what the CPU executes: "main", then "handle", "eoi", "iretq";
               \* or "rsod", "reset"
  vector,      \* frame->vector
  irr, isr,    \* the PICs' latched and in-service lines, 2 being the cascade
  spurious,    \* the spurious lines, of {7, 15}, that wait for delivery
  offset,      \* the vectors of the PICs' first lines
  imr,         \* the PICs' mask bytes
  gdtr,        \* the segment descriptors the CPU uses
  idtr,        \* the vectors with a gate in the table the CPU uses
  system_ticks,
  wait_secs,
  cause,       \* history: the exception that happened, or 32 + the line
  raised,      \* history: how often each line rose
  merged       \* history: rises of line 0 that found it latched or were dropped

pics == <<irr, isr, spurious>>
tables == <<offset, imr, gdtr, idtr>>
devices == <<raised, merged>>
ivars == <<interrupts, at, vector, pics, tables, system_ticks, wait_secs,
           cause, devices>>

exception_message ==
  [ n \in 0..31 |->
      CASE n = 0  -> "Division By Zero"  [] n = 1  -> "Debug"
        [] n = 6  -> "Invalid Opcode"    [] n = 8  -> "Double Fault"
        [] n = 13 -> "General Protection Fault"
        [] n = 14 -> "Page Fault"        [] OTHER -> "another" ]
DoubleFault == 8
GeneralProtection == 13
PageFault == 14  \* the page at NULL is not mapped

\* A fault in the delivery of one of these is a double fault: the contributory
\* exceptions and the page fault.
Escalating == {0} \cup (10..13) \cup {PageFault}

\* The PICs, and their lines in the order of priority: the second one hangs
\* on line 2 of the first.
Chip(l) == l \div 8 + 1
Master(l) == IF l >= 8 THEN 2 ELSE l
Rank(l) == IF l < 2 THEN l ELSE IF l >= 8 THEN l - 6 ELSE l + 8
First(S) == { l \in S : \A m \in S : Rank(l) <= Rank(m) }

Bit(b, k) == (b \div 2^k) % 2
Unmasked(l) == \A m \in {l, Master(l)} : Bit(imr[Chip(m)], m % 8) = 0
Pending == { l \in irr : Unmasked(l) }

\* The selector in every gate (kernel_cs); what it must select is present,
\* code, and 64 bits wide.
kernel_cs == 8
LongCode(table, selector) ==
  LET d == table[selector \div 8 + 1]
  IN  Bit(d.access, 7) = 1 /\ Bit(d.access, 3) = 1 /\ Bit(d.granularity, 5) = 1

-----------------------------------------------------------------------------
(* Devices.                                                                *)

\* Bound: what the lines do after a crash, when none is served, is left out.
Crashed == at \in {"rsod", "reset"}

Raise(l) == /\ raised[l] < MaxRaises /\ ~Crashed
            /\ raised' = [raised EXCEPT ![l] = @ + 1]
            /\ irr' = irr \cup {l}
            /\ merged' = IF l = 0 /\ l \in irr THEN merged + 1 ELSE merged
            /\ UNCHANGED <<interrupts, at, vector, isr, spurious, tables,
                           system_ticks, wait_secs, cause>>

\* What the line announced was dealt with by polling; a PIC that has told
\* the CPU of it already has nothing else to say than its last line.
Withdraw(l) == /\ l \in irr /\ l # 0 /\ ~Crashed
               /\ irr' = irr \ {l}
               /\ spurious' = IF Unmasked(l)
                              THEN spurious \cup {8 * Chip(l) - 1} ELSE spurious
               /\ UNCHANGED <<interrupts, at, vector, isr, tables,
                              system_ticks, wait_secs, cause, devices>>

-----------------------------------------------------------------------------
(* The CPU: delivery through the IDT, the stub and interrupt_handler.      *)

\* What is delivered for vector v, "why" telling exceptions from interrupts.
Delivered(v, why) == IF v \in idtr THEN v
                     ELSE IF why \in Escalating THEN DoubleFault
                     ELSE GeneralProtection

\* The boot loader's tables have no gate.
Deliver(v, why) ==
  /\ interrupts' = FALSE
  /\ cause' = why
  /\ IF idtr # {} /\ LongCode(gdtr, kernel_cs)
     THEN at' = "handle" /\ vector' = Delivered(v, why)
     ELSE at' = "reset" /\ UNCHANGED vector
  /\ UNCHANGED <<tables, system_ticks, wait_secs, devices>>

\* A line of higher priority than those in service, or a spurious one, by
\* the vector its PIC is programmed for.
Acknowledge ==
  /\ at = "main" /\ interrupts
  /\ \E l \in 0..15 :
       /\ Deliver(offset[Chip(l)] + (l % 8), 32 + l)
       /\ \/ /\ l \in First(Pending)
             /\ \A m \in isr : Rank(l) < Rank(m)
             /\ irr' = irr \ {l}
             /\ isr' = isr \cup {l, Master(l)}
             /\ UNCHANGED spurious
          \/ /\ l \in spurious
             /\ Pending = {} /\ 2 \notin isr
             /\ spurious' = spurious \ {l}
             /\ isr' = IF l = 15 THEN isr \cup {2} ELSE isr
             /\ UNCHANGED irr

Exception(v) == at = "main" /\ Deliver(v, v) /\ UNCHANGED pics

\* Counts every interrupt that is not the keyboard's.
HandleElseTick ==
  /\ at = "handle"
  /\ \/ vector < 32 /\ at' = "rsod" /\ UNCHANGED system_ticks
     \/ /\ vector >= 32 /\ at' = "eoi"
        /\ system_ticks' = IF vector # 33 THEN system_ticks + 1 ELSE system_ticks
  /\ UNCHANGED <<interrupts, vector, pics, tables, wait_secs, cause, devices>>

\* if (vector < 32) rsod(frame); otherwise the handler of the vector.
Handle ==
  /\ at = "handle"
  /\ \/ /\ vector < 32
        /\ at' = "rsod"
        /\ wait_secs' = 15
        /\ UNCHANGED system_ticks
     \/ /\ vector >= 32
        /\ at' = "eoi"
        /\ system_ticks' = IF vector = 32 THEN system_ticks + 1 ELSE system_ticks
        /\ UNCHANGED wait_secs
  /\ UNCHANGED <<interrupts, vector, pics, tables, cause, devices>>

EoiTimerOnly == /\ at = "eoi"
                /\ at' = "iretq"
                /\ isr' = IF vector = 32 THEN isr \ First(isr \cap (0..7)) ELSE isr
                /\ UNCHANGED <<interrupts, vector, irr, spurious, tables,
                               system_ticks, wait_secs, cause, devices>>

\* outb(0x20, 0x20), after outb(0xA0, 0x20) for a vector of the second PIC.
Eoi == /\ at = "eoi"
       /\ at' = "iretq"
       /\ isr' = isr \ (First(isr \cap (0..7)) \cup
                          IF vector >= 40 THEN First(isr \cap (8..15)) ELSE {})
       /\ UNCHANGED <<interrupts, vector, irr, spurious, tables, system_ticks,
                      wait_secs, cause, devices>>

Iretq == /\ at = "iretq"
         /\ at' = "main"
         /\ interrupts' = TRUE
         /\ UNCHANGED <<vector, pics, tables, system_ticks, wait_secs, cause,
                        devices>>

\* The test for zero before the decrement: the unsigned counter wraps.
RsodSleepWraps == /\ at = "rsod"
                  /\ wait_secs' = IF wait_secs = 0 THEN 15 ELSE wait_secs - 1
                  /\ at' = IF wait_secs' < 0 THEN "reset" ELSE "rsod"
                  /\ UNCHANGED <<interrupts, vector, pics, tables, system_ticks,
                                 cause, devices>>

\* safe_sleep(1000), wait_secs--, and reboot() at zero; what it draws is in
\* Framebuffer.
RsodSleep == /\ at = "rsod"
             /\ wait_secs' = wait_secs - 1
             /\ at' = IF wait_secs' <= 0 THEN "reset" ELSE "rsod"
             /\ UNCHANGED <<interrupts, vector, pics, tables, system_ticks,
                            cause, devices>>

Processor == Acknowledge \/ Handle \/ Eoi \/ Iretq \/ RsodSleep

Devices == \/ \E l \in Lines : Raise(l) \/ Withdraw(l)
           \/ \E v \in Exceptions : Exception(v)

-----------------------------------------------------------------------------
InterruptsTypeOK ==
  /\ interrupts \in BOOLEAN
  /\ at \in {"main", "handle", "eoi", "iretq", "rsod", "reset"}
  /\ vector \in 0..47 /\ cause \in -1..47
  /\ irr \subseteq Lines /\ isr \subseteq Lines \cup {2} /\ spurious \subseteq {7, 15}
  /\ offset \in (0..255) \X (0..255) /\ imr \in (0..255) \X (0..255)
  /\ idtr \subseteq 0..255
  /\ system_ticks \in Nat /\ wait_secs \in 0..15
  /\ raised \in [Lines -> 0..MaxRaises] /\ merged \in Nat

\* Whenever interrupts are on nothing is in service, so no line is blocked:
\* every path through interrupt_handler ended what its delivery began.
NothingBlocked == interrupts => isr = {}

\* The EOI of interrupt_handler is not specific: it ends whatever has the
\* highest priority.  That is always the interrupt being handled, or nothing
\* when it is a spurious one - never another line's.
EoiEndsItsOwn ==
  at = "eoi" => isr \subseteq {vector - 32, Master(vector - 32)}

\* The uptime counts each tick of the timer once: all that rose, save those
\* still latched, those that rose while one was latched already, and those
\* that pic_remap dropped.
TicksExact ==
  0 \in Lines =>
    system_ticks = raised[0] - merged - (IF 0 \in irr THEN 1 ELSE 0)
                   - (IF at = "handle" /\ cause = 32 THEN 1 ELSE 0)

\* The crash screen ends in a reboot.
CrashReboots == at = "rsod" ~> at = "reset"

\* The crash screen names the exception that happened.
CrashNamesException ==
  at = "rsod" /\ cause \in 0..31 => exception_message[vector] = exception_message[cause]
=============================================================================
