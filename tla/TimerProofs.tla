----------------------------- MODULE TimerProofs -----------------------------
(***************************************************************************)
(* Proofs about Timer, for every width of a byte, speed of the PIT, chunk  *)
(* that fits and argument of safe_sleep: a sleep is short by no more than  *)
(* the rounding of the PIT's speed, and what it programs adds up to what   *)
(* was asked for.                                                          *)
(***************************************************************************)
EXTENDS Timer, TLAPS

(* The inductive invariant, in parts.                                      *)

\* The ticks of the chunks that are over, and of the one that is under way.
Before == (asked - ms) * PerMs
Now == Wait * PerMs
Setting == {"control", "low", "high"}
Waiting == {"readback", "status"}

\* What is left of the call.
Calling == at # "idle" => asked \in Nat /\ ms \in 0..asked /\ (asked > 0 => ms > 0)

\* The channel, as far as it has been set.
Channel ==
  /\ at \in {"low", "high"} \cup Waiting => mode = "once"
  /\ at = "low" => loaded = 0 /\ ~OUT
  /\ at = "high" => loaded = 1 /\ ~OUT /\ count = Ticks % Byte
  /\ at \in Waiting => loaded = 2
  /\ mode = "once" /\ loaded = 2 /\ ~OUT => count >= 1

\* What has been written to it.
Programmed ==
  /\ asked > 0 /\ at \in Setting => programmed = Before
  /\ asked > 0 /\ at \in Waiting => programmed = Before + Now
  /\ WaitsAddUp

\* The ticks that were programmed have passed by the return.
Slept == at = "idle" /\ asked # None => elapsed >= asked * PerMs

\* What has passed: when OUT is up, the whole of the chunk.
Passed ==
  /\ at \in Setting => elapsed >= Before
  /\ at \in Waiting => elapsed + (IF OUT THEN 0 ELSE count) >= Before + Now
  /\ at = "status" /\ status => OUT
  /\ Slept

IInv == TypeOK /\ Calling /\ Channel /\ Programmed /\ Passed
-----------------------------------------------------------------------------
(* Chunks, their ticks and the two bytes of a count.                       *)

LEMMA Constants ==
  /\ Byte \in Nat \ {0} /\ PerMs \in Nat \ {0} /\ Chunk \in Nat \ {0}
  /\ MaxCount \in Nat /\ MaxCount + 1 = Byte * Byte
  /\ Chunk * PerMs <= MaxCount
<1>1. Byte \in Nat \ {0} /\ PerMs \in Nat \ {0} /\ Chunk \in Nat \ {0}
  BY PitAssumption
<1>2. Byte * Byte \in Nat \ {0} /\ Chunk * PerMs \in Nat
  BY <1>1
<1>3. QED  BY <1>1, <1>2, ChunkFits DEF MaxCount

LEMMA Times ==
  ASSUME NEW a \in Nat, NEW b \in Nat, NEW p \in Nat
  PROVE  /\ a * p \in Nat
         /\ a <= b => a * p <= b * p
         /\ (a + b) * p = a * p + b * p
OBVIOUS

\* No chunk is capped: the ticks of one fit in sixteen bits.
LEMMA ChunkTicks ==
  ASSUME ms \in Nat
  PROVE  /\ Wait \in Nat /\ Wait <= ms /\ (ms > 0 => Wait > 0)
         /\ ms > Chunk => Wait = Chunk
         /\ ms <= Chunk => Wait = ms
         /\ Now \in 0..MaxCount /\ Ticks = Now
         /\ Wait > 0 => Now > 0
<1>1. /\ Wait \in Nat /\ Wait <= ms /\ (ms > 0 => Wait > 0) /\ Wait <= Chunk
      /\ ms > Chunk => Wait = Chunk
      /\ ms <= Chunk => Wait = ms
  BY Constants DEF Wait
<1>2. Now \in Nat /\ Now <= Chunk * PerMs
  BY <1>1, Constants, Times DEF Now
<1>3. Now <= MaxCount
  <2>1. Chunk * PerMs \in Nat
    BY Constants
  <2>2. QED  BY <1>2, <2>1, Constants
<1>4. Wait > 0 => Now > 0
  <2>1. Wait > 0 => 1 * PerMs <= Wait * PerMs /\ 1 * PerMs = PerMs
    BY <1>1, Constants, Times
  <2>2. QED  BY <1>1, <1>2, <2>1, Constants DEF Now
<1>5. Ticks = Now
  BY <1>2, <1>3, Constants DEF Ticks, Now
<1>6. QED  BY <1>1, <1>2, <1>3, <1>4, <1>5, Constants

LEMMA TwoBytes ==
  ASSUME NEW x \in 0..MaxCount
  PROVE  /\ x % Byte \in 0..MaxCount
         /\ (x % Byte) + Byte * ((x \div Byte) % Byte) = x
<1>1. /\ x \in Nat /\ x < Byte * Byte /\ Byte \in Nat \ {0}
      /\ MaxCount \in Nat
  <2>1. Byte * Byte \in Nat
    BY Constants
  <2>2. QED  BY <2>1, Constants
<1>2. x \div Byte \in Nat /\ x % Byte \in Nat /\ x = Byte * (x \div Byte) + (x % Byte)
  BY <1>1
<1>3. x \div Byte < Byte
  BY <1>1
<1>4. (x \div Byte) % Byte = x \div Byte
  BY <1>1, <1>2, <1>3
<1>5. x % Byte <= x
  BY <1>1, <1>2, Constants
<1>6. QED  BY <1>1, <1>2, <1>4, <1>5

\* The chunks that are over and those that are left are all of the call.
LEMMA Parts ==
  ASSUME asked \in Nat, ms \in 0..asked
  PROVE  /\ Before \in Nat /\ Now \in Nat /\ asked * PerMs \in Nat
         /\ Before + ms * PerMs = asked * PerMs
         /\ Before + Now <= asked * PerMs
<1>1. /\ asked - ms \in Nat /\ ms \in Nat /\ PerMs \in Nat
      /\ (asked - ms) + ms = asked
  BY Constants
<1>2. Before \in Nat /\ ms * PerMs \in Nat /\ asked * PerMs \in Nat
  BY <1>1, Times DEF Before
<1>3. Before + ms * PerMs = asked * PerMs
  BY <1>1, Times DEF Before
<1>4. Now \in Nat /\ Now <= ms * PerMs
  BY <1>1, ChunkTicks, Times DEF Now
<1>5. QED  BY <1>2, <1>3, <1>4
\* The PIT is no slower than the code takes it to be, ...
LEMMA TimeIsTicks ==
  ASSUME NEW n \in Nat, NEW m \in Nat, Second * n >= m * Hz
  PROVE  n >= m * PerMs
<1>1. PICK s \in Nat \ {0}, h \in Nat, p \in Nat : s = Second /\ h = Hz /\ p = PerMs
  BY PitAssumption
<1>2. s * p \in Nat /\ s * p <= h
  BY <1>1, Rounded
<1>3. m * (s * p) <= m * h
  <2>1. PICK q \in Nat : q = s * p
    BY <1>2
  <2>2. m * q <= m * h
    BY <1>1, <1>2, <2>1
  <2>3. QED  BY <2>1, <2>2
<1>4. m * (s * p) = s * (m * p)
  BY <1>1
<1>5. s * n >= s * (m * p)
  <2>1. s * n \in Nat /\ m * h \in Nat /\ s * (m * p) \in Nat
    BY <1>1
  <2>2. s * n >= m * h
    BY <1>1
  <2>3. QED  BY <1>3, <1>4, <2>1, <2>2
<1>6. n >= m * p
  <2>1. PICK q \in Nat : q = m * p
    BY <1>1
  <2>2. s * n >= s * q
    BY <1>5, <2>1
  <2>3. n >= q
    BY <1>1, <2>2
  <2>4. QED  BY <2>1, <2>3
<1>7. QED  BY <1>1, <1>6

\* ... and by at most a tick a millisecond faster.
LEMMA TicksAreTime ==
  ASSUME NEW n \in Nat, NEW m \in Nat, n >= m * PerMs
  PROVE  Second * (n + m) >= m * Hz
<1>1. PICK s \in Nat \ {0}, h \in Nat, p \in Nat : s = Second /\ h = Hz /\ p = PerMs
  BY PitAssumption
<1>2. n + m >= m * (p + 1)
  <2>1. m * (p + 1) = m * p + m
    BY <1>1
  <2>2. m * p \in Nat /\ n >= m * p
    BY <1>1
  <2>3. QED  BY <2>1, <2>2
<1>3. s * (n + m) >= s * (m * (p + 1))
  <2>1. PICK q \in Nat : q = m * (p + 1)
    BY <1>1
  <2>2. PICK r \in Nat : r = n + m
    OBVIOUS
  <2>3. r >= q
    BY <1>2, <2>1, <2>2
  <2>4. s * r >= s * q
    BY <1>1, <2>3
  <2>5. QED  BY <2>1, <2>2, <2>4
<1>4. s * (m * (p + 1)) = m * (s * (p + 1))
  BY <1>1
<1>5. m * (s * (p + 1)) >= m * h
  <2>1. PICK q \in Nat : q = s * (p + 1)
    BY <1>1
  <2>2. q >= h
    BY <1>1, <2>1, Rounded
  <2>3. m * q >= m * h
    BY <1>1, <2>2
  <2>4. QED  BY <2>1, <2>3
<1>6. s * (n + m) >= m * h
  <2>1. s * (n + m) \in Nat /\ m * h \in Nat /\ m * (s * (p + 1)) \in Nat
    BY <1>1
  <2>2. QED  BY <1>3, <1>4, <1>5, <2>1
<1>7. QED  BY <1>1, <1>6

-----------------------------------------------------------------------------
(* The steps.                                                              *)

LEMMA CallInv ==
  ASSUME IInv, NEW m \in Requests, Call(m)
  PROVE  IInv'
<1>1. /\ at = "idle" /\ at' = "control" /\ ms' = m /\ asked' = m
      /\ elapsed' = 0 /\ programmed' = 0
      /\ UNCHANGED <<mode, loaded, count, OUT, status>> /\ m \in Nat
  BY RequestAssumption DEF Call, pit
<1>2. TypeOK' /\ Calling' /\ Channel'
  BY <1>1 DEF IInv, TypeOK, Calling, Channel, Setting, Waiting, MaxCount
<1>3. Before' = 0
  <2>1. (m - m) * PerMs = 0
    BY <1>1, Constants
  <2>2. QED  BY <1>1, <2>1 DEF Before
<1>4. Programmed' /\ Passed'
  BY <1>1, <1>3 DEF Programmed, Passed, Setting, Waiting, WaitsAddUp, Slept
<1>5. QED  BY <1>2, <1>4 DEF IInv

LEMMA ControlInv ==
  ASSUME IInv, Control
  PROVE  IInv'
<1>1. /\ at = "control" /\ at' = "low" /\ mode' = "once" /\ loaded' = 0
      /\ OUT' = FALSE
      /\ UNCHANGED <<ms, count, status, asked, elapsed, programmed>>
  BY DEF Control, history
<1>2. OUT' \in BOOLEAN
  BY <1>1, Zenon
<1>3. TypeOK' /\ Calling' /\ Channel'
  BY <1>1, <1>2 DEF IInv, TypeOK, Calling, Channel, Waiting, MaxCount
<1>4. Before' = Before
  BY <1>1 DEF Before
<1>5. Programmed' /\ Passed'
  BY <1>1, <1>4
     DEF IInv, Programmed, Passed, Setting, Waiting, WaitsAddUp, Slept
<1>6. QED  BY <1>3, <1>5 DEF IInv

LEMMA LowInv ==
  ASSUME IInv, Low
  PROVE  IInv'
<1>1. /\ at = "low" /\ at' = "high" /\ loaded' = 1 /\ count' = Ticks % Byte
      /\ UNCHANGED <<ms, mode, OUT, status, asked, elapsed, programmed>>
  BY DEF Low, history
<1>2. count' \in 0..MaxCount /\ Ticks' = Ticks
  <2>1. ms \in Nat
    BY DEF IInv, TypeOK
  <2>2. Ticks \in 0..MaxCount
    BY <2>1, ChunkTicks
  <2>3. QED  BY <1>1, <2>2, TwoBytes DEF Ticks, Wait, MaxCount
<1>3. TypeOK'
  BY <1>1, <1>2, Constants DEF IInv, TypeOK, MaxCount
<1>4. Calling' /\ Channel'
  BY <1>1, <1>2 DEF IInv, Calling, Channel, Waiting
<1>5. Before' = Before
  BY <1>1 DEF Before
<1>6. Programmed' /\ Passed'
  BY <1>1, <1>5
     DEF IInv, Programmed, Passed, Setting, Waiting, WaitsAddUp, Slept
<1>7. QED  BY <1>3, <1>4, <1>6 DEF IInv

\* The second byte completes the chunk's ticks; a chunk of 0 is the longest.
LEMMA HighInv ==
  ASSUME IInv, High
  PROVE  IInv'
<1>1. /\ at = "high" /\ at' = "readback" /\ loaded' = 2
      /\ count' = IF count + Byte * ((Ticks \div Byte) % Byte) = 0
                  THEN MaxCount + 1
                  ELSE count + Byte * ((Ticks \div Byte) % Byte)
      /\ programmed' = programmed + count'
      /\ UNCHANGED <<ms, mode, OUT, status, asked, elapsed>>
  BY DEF High
<1>2. /\ asked \in Nat /\ ms \in 0..asked /\ (asked > 0 => ms > 0) /\ ms \in Nat
      /\ mode = "once" /\ ~OUT /\ count = Ticks % Byte
  BY <1>1 DEF IInv, Calling, Channel
<1>3. Now \in 0..MaxCount /\ Ticks = Now /\ (asked > 0 => Now > 0)
  BY <1>2, ChunkTicks
<1>4. count + Byte * ((Ticks \div Byte) % Byte) = Now
  BY <1>2, <1>3, TwoBytes
<1>5. /\ count' \in 1..(MaxCount + 1) /\ count' >= Now
      /\ asked > 0 => count' = Now
  BY <1>1, <1>3, <1>4, Constants
<1>6. Before' = Before /\ Now' = Now /\ Before \in Nat
  BY <1>1, <1>2, Parts DEF Before, Now, Wait
<1>7. /\ programmed \in Nat /\ elapsed \in Nat /\ elapsed >= Before
      /\ asked > 0 => programmed = Before
  BY <1>1 DEF IInv, TypeOK, Programmed, Passed, Setting
<1>8. TypeOK'
  BY <1>1, <1>5, <1>7, Constants DEF IInv, TypeOK, MaxCount
<1>9. Calling' /\ Channel'
  BY <1>1, <1>2, <1>5 DEF Calling, Channel, Waiting
<1>10. Programmed' /\ Passed'
  BY <1>1, <1>2, <1>3, <1>5, <1>6, <1>7
     DEF Programmed, Passed, Setting, Waiting, WaitsAddUp, Slept
<1>11. QED  BY <1>8, <1>9, <1>10 DEF IInv

LEMMA ReadBackInv ==
  ASSUME IInv, ReadBack
  PROVE  IInv'
<1>1. /\ at = "readback" /\ at' = "status" /\ status' = OUT
      /\ UNCHANGED <<ms, mode, loaded, count, OUT, asked, elapsed, programmed>>
  BY DEF ReadBack, history
<1>2. TypeOK' /\ Calling' /\ Channel'
  BY <1>1 DEF IInv, TypeOK, Calling, Channel, Waiting, MaxCount
<1>3. Before' = Before /\ Now' = Now
  BY <1>1 DEF Before, Now, Wait
<1>4. Programmed' /\ Passed'
  BY <1>1, <1>3
     DEF IInv, Programmed, Passed, Setting, Waiting, WaitsAddUp, Slept
<1>5. QED  BY <1>2, <1>4 DEF IInv

\* OUT is up, so the chunk is over: the next one, or the return.
LEMMA StatusInv ==
  ASSUME IInv, Status
  PROVE  IInv'
<1>1. /\ at = "status"
      /\ UNCHANGED <<mode, loaded, count, OUT, status, asked, elapsed, programmed>>
  BY DEF Status, pit, history
<1>2. /\ asked \in Nat /\ ms \in 0..asked /\ (asked > 0 => ms > 0) /\ ms \in Nat
  BY <1>1 DEF IInv, Calling
<1>3. TypeOK /\ Channel /\ (status => OUT)
      /\ elapsed + (IF OUT THEN 0 ELSE count) >= Before + Now
      /\ (asked > 0 => programmed = Before + Now) /\ elapsed \in Nat
  BY <1>1 DEF IInv, TypeOK, Passed, Programmed, Waiting
<1>4. /\ Before \in Nat /\ Now \in Nat /\ asked * PerMs \in Nat
      /\ Before + ms * PerMs = asked * PerMs
  BY <1>2, Parts
<1>5. CASE ~status /\ at' = "readback" /\ ms' = ms
  <2>1. Before' = Before /\ Now' = Now
    BY <1>1, <1>5 DEF Before, Now, Wait
  <2>2. TypeOK' /\ Calling' /\ Channel'
    BY <1>1, <1>2, <1>3, <1>5 DEF TypeOK, Calling, Channel, Waiting, MaxCount
  <2>3. Programmed' /\ Passed'
    BY <1>1, <1>3, <1>5, <2>1
       DEF Programmed, Passed, Setting, Waiting, WaitsAddUp, Slept
  <2>4. QED  BY <2>2, <2>3 DEF IInv
<1>6. CASE status /\ ms > Chunk /\ at' = "control" /\ ms' = ms - Chunk
  <2>1. Now = Chunk * PerMs /\ Chunk \in Nat \ {0} /\ PerMs \in Nat
    BY <1>2, <1>6, ChunkTicks, Constants DEF Now
  <2>2. Before' = Before + Now
    <3>1. /\ asked - ms \in Nat
          /\ asked - ms' = (asked - ms) + Chunk
      BY <1>2, <1>6, <2>1
    <3>2. (asked - ms') * PerMs = (asked - ms) * PerMs + Chunk * PerMs
      BY <2>1, <3>1, Times
    <3>3. QED  BY <1>1, <2>1, <3>2 DEF Before
  <2>3. ms' \in 0..asked /\ ms' > 0
    BY <1>2, <1>6, <2>1
  <2>4. TypeOK' /\ Calling' /\ Channel'
    BY <1>1, <1>2, <1>3, <1>6, <2>3 DEF TypeOK, Calling, Channel, Waiting, MaxCount
  <2>5. Programmed' /\ Passed'
    BY <1>1, <1>3, <1>6, <2>2
       DEF Programmed, Passed, Setting, Waiting, WaitsAddUp, Slept
  <2>6. QED  BY <2>4, <2>5 DEF IInv
<1>7. CASE status /\ ms <= Chunk /\ at' = "idle" /\ ms' = ms
  <2>1. Now = ms * PerMs
    BY <1>2, <1>7, ChunkTicks DEF Now
  <2>2. elapsed >= asked * PerMs /\ (asked > 0 => programmed = asked * PerMs)
    BY <1>3, <1>4, <1>7, <2>1
  <2>3. TypeOK' /\ Calling' /\ Channel'
    BY <1>1, <1>3, <1>7 DEF TypeOK, Calling, Channel, Waiting, MaxCount
  <2>4. Programmed' /\ Passed'
    BY <1>1, <1>7, <2>2
       DEF Programmed, Passed, Setting, Waiting, WaitsAddUp, Slept
  <2>5. QED  BY <2>3, <2>4 DEF IInv
<1>8. QED  BY <1>5, <1>6, <1>7 DEF Status

\* A tick passes for the call and for the count, or the count is not running.
LEMMA TickInv ==
  ASSUME IInv, Tick
  PROVE  IInv'
<1>1. /\ at # "idle"
      /\ elapsed' = IF Second * elapsed < asked * Hz THEN elapsed + 1 ELSE elapsed
      /\ UNCHANGED <<at, ms, mode, loaded, status, asked, programmed>>
      /\ \/ mode = "periodic" /\ OUT' \in BOOLEAN /\ count' = count
         \/ /\ mode = "once" /\ loaded = 2 /\ ~OUT
            /\ count' = count - 1 /\ OUT' = (count = 1)
         \/ /\ mode = "once" /\ (loaded < 2 \/ OUT)
            /\ count' = count /\ OUT' = OUT
  BY DEF Tick, code
<1>2. /\ asked \in Nat /\ ms \in 0..asked /\ TypeOK /\ Channel /\ Calling
      /\ elapsed \in Nat /\ count \in 0..(MaxCount + 1) /\ MaxCount \in Nat
  BY <1>1, Constants DEF IInv, Calling, TypeOK
<1>3. /\ Before \in Nat /\ Now \in Nat /\ asked * PerMs \in Nat
      /\ Before + Now <= asked * PerMs
  BY <1>2, Parts
<1>4. elapsed' \in Nat /\ elapsed' >= elapsed
      /\ (elapsed' = elapsed + 1 \/ elapsed' >= asked * PerMs)
  <2>1. Second * elapsed >= asked * Hz => elapsed >= asked * PerMs
    BY <1>2, TimeIsTicks
  <2>2. Second * elapsed \in Nat /\ asked * Hz \in Nat
    BY <1>2, PitAssumption
  <2>3. QED  BY <1>1, <1>2, <1>3, <2>1, <2>2
<1>5. OUT' \in BOOLEAN
  BY <1>1, <1>2, Zenon DEF TypeOK
<1>6. count' \in 0..(MaxCount + 1)
  BY <1>1, <1>2 DEF Channel
<1>7. TypeOK' /\ Calling'
  BY <1>1, <1>2, <1>4, <1>5, <1>6 DEF TypeOK, Calling, MaxCount
<1>8. Channel'
  <2>1. Ticks' = Ticks
    BY <1>1 DEF Ticks, Wait, MaxCount
  <2>2. CASE mode = "periodic" /\ count' = count
    BY <1>1, <1>2, <2>1, <2>2 DEF Channel, Waiting
  <2>3. CASE /\ mode = "once" /\ loaded = 2 /\ ~OUT
             /\ count' = count - 1 /\ OUT' = (count = 1)
    <3>1. count >= 1 /\ count \in Nat
      BY <1>2, <2>3 DEF Channel
    <3>2. count = 1 => OUT'
      BY <2>3, Zenon
    <3>3. count' >= 1 \/ OUT'
      BY <2>3, <3>1, <3>2
    <3>4. QED  BY <1>1, <1>2, <2>3, <3>3 DEF Channel, Waiting
  <2>4. CASE mode = "once" /\ count' = count /\ OUT' = OUT
    BY <1>1, <1>2, <2>1, <2>4 DEF Channel, Waiting
  <2>5. QED  BY <1>1, <2>2, <2>3, <2>4
<1>9. Before' = Before /\ Now' = Now
  BY <1>1 DEF Before, Now, Wait
<1>10. Programmed'
  BY <1>1, <1>9 DEF IInv, Programmed, WaitsAddUp
<1>11. Passed'
  <2>1. at \in Setting => elapsed' >= Before
    BY <1>2, <1>3, <1>4 DEF IInv, Passed
  <2>2. at \in Waiting => elapsed' + (IF OUT' THEN 0 ELSE count') >= Before + Now
    <3> SUFFICES ASSUME at \in Waiting
                 PROVE  elapsed' + (IF OUT' THEN 0 ELSE count') >= Before + Now
      OBVIOUS
    <3> DEFINE need == asked * PerMs
               chunk == Before + Now
    <3>1. /\ elapsed + (IF OUT THEN 0 ELSE count) >= chunk
          /\ mode = "once" /\ loaded = 2
      BY <1>2 DEF IInv, Passed, Channel
    <3>2. chunk \in Nat /\ need \in Nat /\ chunk <= need
          /\ (elapsed' = elapsed + 1 \/ elapsed' >= need)
      BY <1>3, <1>4
    <3> HIDE DEF need, chunk
    <3>3. CASE OUT
      <4>1. OUT' /\ elapsed >= chunk
        BY <1>1, <1>2, <3>1, <3>3
      <4>2. QED  BY <1>2, <1>4, <3>2, <4>1 DEF chunk
    <3>4. CASE ~OUT
      <4>1. count' = count - 1 /\ (count = 1 <=> OUT')
        <5>1. ~(loaded < 2)
          BY <3>1
        <5>2. QED  BY <1>1, <3>1, <3>4, <5>1, Zenon
      <4>2. elapsed + count >= chunk
        BY <3>1, <3>4
      <4>3. elapsed' + count' >= chunk
        <5>1. CASE elapsed' = elapsed + 1
          BY <1>2, <3>2, <4>1, <4>2, <5>1
        <5>2. CASE elapsed' >= need
          <6>1. count' \in Nat /\ elapsed' \in Nat /\ chunk \in Nat
            BY <1>2, <1>4, <1>6, <3>2
          <6>2. elapsed' >= chunk
            BY <3>2, <5>2, <6>1
          <6>3. \A e, n, k \in Nat : e >= k => e + n >= k
            OBVIOUS
          <6>4. QED  BY <6>1, <6>2, <6>3
        <5>3. QED  BY <3>2, <5>1, <5>2
      <4>4. CASE count = 1
        BY <1>4, <3>2, <4>1, <4>3, <4>4 DEF chunk
      <4>5. CASE count # 1
        BY <4>1, <4>3, <4>5 DEF chunk
      <4>6. QED  BY <4>4, <4>5
    <3>5. QED  BY <3>3, <3>4
  <2>3. at = "status" /\ status => OUT'
    BY <1>1 DEF IInv, Passed, Channel, Waiting
  <2>4. QED  BY <1>1, <1>9, <2>1, <2>2, <2>3 DEF Passed, Slept
<1>12. QED  BY <1>7, <1>8, <1>10, <1>11 DEF IInv
-----------------------------------------------------------------------------
(* The theorems.                                                           *)

\* What has been programmed and what has passed of the call, chunk by chunk:
\* the invariant that the theorems below rest on.
THEOREM Invariant == Spec => []IInv
<1>1. Init => IInv
  <2> SUFFICES ASSUME Init PROVE IInv
    OBVIOUS
  <2>1. /\ at = "idle" /\ ms = 0 /\ mode = "periodic" /\ loaded = 2 /\ count = 0
        /\ OUT \in BOOLEAN /\ status = FALSE
        /\ asked = -1 /\ elapsed = 0 /\ programmed = 0
    BY DEF Init, None
  <2>2. status \in BOOLEAN
    BY <2>1, Zenon
  <2>3. TypeOK
    BY <2>1, <2>2, Constants DEF TypeOK, None
  <2>4. Calling /\ Channel /\ Programmed /\ Passed
    BY <2>1 DEF Calling, Channel, Programmed, Passed, Setting, Waiting,
                WaitsAddUp, Slept, None
  <2>5. QED  BY <2>3, <2>4 DEF IInv
<1>2. IInv /\ [Next]_vars => IInv'
  <2> SUFFICES ASSUME IInv, [Next]_vars PROVE IInv'
    OBVIOUS
  <2>1. CASE \E m \in Requests : Call(m)
    BY <2>1, CallInv
  <2>2. CASE safe_sleep
    BY <2>2, ControlInv, LowInv, HighInv, ReadBackInv, StatusInv DEF safe_sleep
  <2>3. CASE Tick
    BY <2>3, TickInv
  <2>4. CASE UNCHANGED vars
    BY <2>4 DEF vars, code, pit, history, IInv, TypeOK, Calling, Channel,
                Programmed, Passed, WaitsAddUp, Slept, Before, Now, Wait,
                Ticks, MaxCount
  <2>5. QED  BY <2>1, <2>2, <2>3, <2>4 DEF Next
<1>3. QED  BY <1>1, <1>2, PTL DEF Spec

\* Type correctness of the sleeping main thread and of the PIT.
THEOREM TypeCorrect == Spec => []TypeOK
<1>1. IInv => TypeOK
  BY DEF IInv
<1>2. QED  BY <1>1, Invariant, PTL

\* safe_sleep returns before its time by at most a tick for each
\* millisecond, for every speed of the PIT that PerMs rounds down.
THEOREM SleepNotShort == Spec => []NotCutShort
<1>1. IInv => NotCutShort
  <2> SUFFICES ASSUME IInv, at = "idle", asked # None
               PROVE  Second * (elapsed + asked) >= asked * Hz
    BY DEF NotCutShort
  <2>1. asked \in Nat /\ elapsed \in Nat /\ elapsed >= asked * PerMs
    BY DEF IInv, TypeOK, Passed, Slept
  <2>2. QED  BY <2>1, TicksAreTime
<1>2. QED  BY <1>1, Invariant, PTL

\* The counts it writes add up to what it was asked for.
THEOREM SleepExact == Spec => []WaitsAddUp
<1>1. IInv => WaitsAddUp
  BY DEF IInv, Programmed
<1>2. QED  BY <1>1, Invariant, PTL
=============================================================================
