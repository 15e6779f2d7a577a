------------------------------- MODULE Timer -------------------------------
(***************************************************************************)
(* safe_sleep of kernel/drivers/timer.c with pit_prepare_sleep and         *)
(* pit_perform_sleep, one action per port access, on channel 0 of the PIT, *)
(* which timer_init has set to a periodic mode.                            *)
(*                                                                         *)
(* The PIT is external.  A control word for mode 0 lowers OUT and stops the*)
(* channel until both bytes of a count are written; OUT rises when the     *)
(* count, 0 standing for Byte * Byte, has run out.  In the periodic mode   *)
(* OUT goes up and down by itself.  A read-back command latches OUT for the*)
(* next read of the port.                                                  *)
(***************************************************************************)
EXTENDS Integers

CONSTANTS
  Byte,     \* 256
  Hz,       \* the PIT's ticks in a second: 1193182
  Second,   \* the milliseconds in one: 1000
  PerMs,    \* what the code multiplies milliseconds by: 1193
  Chunk,    \* the longest single wait: 50
  Requests  \* the arguments of safe_sleep

ASSUME PitAssumption == {Byte, Hz, Second, PerMs, Chunk} \subseteq Nat \ {0}
ASSUME Rounded == Second * PerMs <= Hz /\ Hz <= Second * (PerMs + 1)
ASSUME ChunkFits == Chunk * PerMs < Byte * Byte
ASSUME RequestAssumption == Requests \subseteq Nat

VARIABLES
  at,         \* the port access that is next; "idle"
  ms,         \* what is left of the argument of safe_sleep
  mode,       \* of the channel: "periodic" or "once"
  loaded,     \* the bytes of the count written since the control word
  count,      \* the ticks until OUT rises
  OUT,        \* the channel's output
  status,     \* OUT as the last read-back command latched it
  asked,      \* history: the argument of safe_sleep
  elapsed,    \* history: the ticks since the call, up to the time asked for
  programmed  \* history: the sum of the counts written since the call

code == <<at, ms>>
pit == <<mode, loaded, count, OUT, status>>
history == <<asked, elapsed, programmed>>
vars == <<code, pit, history>>

None == -1
MaxCount == Byte * Byte - 1  \* 0xFFFF

\* pit_prepare_sleep: the wait that comes next, its ticks capped to 16 bits.
Wait == IF ms > Chunk THEN Chunk ELSE ms
Ticks == IF Wait * PerMs > MaxCount THEN MaxCount ELSE Wait * PerMs

\* timer_init has left the channel in a periodic mode, OUT up or down.
Init == /\ at = "idle" /\ ms = 0
        /\ mode = "periodic" /\ loaded = 2 /\ count = 0
        /\ OUT \in BOOLEAN /\ status = FALSE
        /\ asked = None /\ elapsed = 0 /\ programmed = 0

-----------------------------------------------------------------------------
(* safe_sleep                                                              *)

Call(m) == /\ at = "idle" /\ at' = "control"
           /\ ms' = m
           /\ asked' = m /\ elapsed' = 0 /\ programmed' = 0
           /\ UNCHANGED pit

\* outb(0x43, 0x36): the mode timer_init uses.
ControlPeriodic == /\ at = "control" /\ at' = "low"
                   /\ mode' = "periodic" /\ loaded' = 0
                   /\ UNCHANGED <<ms, count, OUT, status, history>>

\* outb(0x43, 0x30): channel 0, both bytes, mode 0.
Control == /\ at = "control" /\ at' = "low"
           /\ mode' = "once" /\ loaded' = 0 /\ OUT' = FALSE
           /\ UNCHANGED <<ms, count, status, history>>

\* The two bytes of the count; the channel starts with the second.
Low == /\ at = "low" /\ at' = "high"
       /\ loaded' = 1 /\ count' = Ticks % Byte
       /\ UNCHANGED <<ms, mode, OUT, status, history>>

\* A second byte that is never written.
HighForgotten == /\ at = "high" /\ at' = "readback"
                 /\ programmed' = programmed + count
                 /\ UNCHANGED <<ms, pit, asked, elapsed>>

High == /\ at = "high" /\ at' = "readback"
        /\ loaded' = 2
        /\ LET written == count + Byte * ((Ticks \div Byte) % Byte)
           IN  count' = IF written = 0 THEN MaxCount + 1 ELSE written
        /\ programmed' = programmed + count'
        /\ UNCHANGED <<ms, mode, OUT, status, asked, elapsed>>

\* outb(0x43, 0xE2), then the status: the loop ends when OUT is up.
ReadBack == /\ at = "readback" /\ at' = "status"
            /\ status' = OUT
            /\ UNCHANGED <<ms, mode, loaded, count, OUT, history>>

\* A loop that runs while the rest is not less than a chunk.
StatusOnceMore ==
  /\ at = "status"
  /\ \/ ~status /\ at' = "readback" /\ UNCHANGED ms
     \/ status /\ ms >= Chunk /\ at' = "control" /\ ms' = ms - Chunk
     \/ status /\ ms < Chunk /\ at' = "idle" /\ UNCHANGED ms
  /\ UNCHANGED <<pit, history>>

Status ==
  /\ at = "status"
  /\ \/ ~status /\ at' = "readback" /\ UNCHANGED ms
     \/ status /\ ms > Chunk /\ at' = "control" /\ ms' = ms - Chunk
     \/ status /\ ms <= Chunk /\ at' = "idle" /\ UNCHANGED ms
  /\ UNCHANGED <<pit, history>>

safe_sleep == Control \/ Low \/ High \/ ReadBack \/ Status

-----------------------------------------------------------------------------
(* A tick of the PIT's clock.  External.                                   *)

Tick ==
  /\ at # "idle"
  /\ elapsed' = IF Second * elapsed < asked * Hz THEN elapsed + 1 ELSE elapsed
  /\ \/ mode = "periodic" /\ OUT' \in BOOLEAN /\ UNCHANGED count
     \/ /\ mode = "once" /\ loaded = 2 /\ ~OUT
        /\ count' = count - 1 /\ OUT' = (count = 1)
     \/ mode = "once" /\ (loaded < 2 \/ OUT) /\ UNCHANGED <<count, OUT>>
  /\ UNCHANGED <<code, mode, loaded, status, asked, programmed>>

Next == (\E m \in Requests : Call(m)) \/ safe_sleep \/ Tick

Spec == Init /\ [][Next]_vars

\* The CPU polls without a pause and the PIT's clock runs.
FairSpec == Spec /\ WF_vars(safe_sleep) /\ WF_vars(Tick)

-----------------------------------------------------------------------------
TypeOK ==
  /\ at \in {"idle", "control", "low", "high", "readback", "status"}
  /\ ms \in Nat
  /\ mode \in {"periodic", "once"} /\ loaded \in 0..2
  /\ count \in 0..(MaxCount + 1)
  /\ OUT \in BOOLEAN /\ status \in BOOLEAN
  /\ asked \in Nat \cup {None} /\ elapsed \in Nat /\ programmed \in Nat

\* safe_sleep returns early by a tick for each millisecond at most, which is
\* what 1193 for 1193.182 costs (182 ticks, 0.15 ms, of a second): neither a
\* status left from an earlier wait or from the periodic mode, nor the sixteen
\* bits of a count, nor the split in chunks cuts it any shorter.
NotCutShort ==
  at = "idle" /\ asked # None => Second * (elapsed + asked) >= asked * Hz

\* What it programs is exactly what was asked for, at PerMs ticks each and
\* split in chunks that fit.
\* (A wait of 0 is left out: the PIT takes a count of 0 for the longest.)
WaitsAddUp == at = "idle" /\ asked > 0 => programmed = asked * PerMs

\* Every call returns.
SleepEnds == at # "idle" ~> at = "idle"
=============================================================================
