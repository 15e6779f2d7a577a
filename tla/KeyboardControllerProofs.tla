---------------------- MODULE KeyboardControllerProofs ----------------------
(***************************************************************************)
(* Proofs about KeyboardController, for every configuration byte the       *)
(* firmware may leave, every byte the keyboard may send and any number of  *)
(* calls: type correctness, that a keyboard which has been configured is   *)
(* never switched off again, and that the bits keyboard_init does not mean *)
(* to change stay as they were.                                            *)
(***************************************************************************)
EXTENDS KeyboardController, FiniteSetTheorems, TLAPS

Bytes == 0..255
Others == (0..7) \ {0, 4}

-----------------------------------------------------------------------------
(* The bits of a byte.                                                     *)

LEMMA Powers ==
  /\ 2^0 = 1 /\ 2^1 = 2 /\ 2^2 = 4 /\ 2^3 = 8
  /\ 2^4 = 16 /\ 2^5 = 32 /\ 2^6 = 64 /\ 2^7 = 128
OBVIOUS

LEMMA BitIs ==
  ASSUME NEW b \in Bytes
  PROVE  /\ Bit(b, 0) = b % 2 /\ Bit(b, 4) = (b \div 16) % 2
         /\ \A k \in Others : \E w \in {2, 4, 8, 32, 64, 128} :
              \A c \in Bytes : Bit(c, k) = (c \div w) % 2
<1>1. Bit(b, 0) = b % 2 /\ Bit(b, 4) = (b \div 16) % 2
  BY Powers DEF Bit, Bytes
<1>2. ASSUME NEW k \in Others
      PROVE  \E w \in {2, 4, 8, 32, 64, 128} :
               \A c \in Bytes : Bit(c, k) = (c \div w) % 2
  <2>1. 2^k \in {2, 4, 8, 32, 64, 128}
    <3>1. k = 1 \/ k = 2 \/ k = 3 \/ k = 5 \/ k = 6 \/ k = 7
      BY DEF Others
    <3>2. \/ 2^k = 2^1 \/ 2^k = 2^2 \/ 2^k = 2^3
          \/ 2^k = 2^5 \/ 2^k = 2^6 \/ 2^k = 2^7
      BY <3>1, Zenon
    <3> DEFINE w == 2^k
    <3>3. w = 2 \/ w = 4 \/ w = 8 \/ w = 32 \/ w = 64 \/ w = 128
      <4>1. \/ w = 2^1 \/ w = 2^2 \/ w = 2^3
            \/ w = 2^5 \/ w = 2^6 \/ w = 2^7
        BY <3>2
      <4> HIDE DEF w
      <4>2. QED  BY <4>1, Powers
    <3> HIDE DEF w
    <3>4. w \in {2, 4, 8, 32, 64, 128}
      BY <3>3
    <3>5. QED  BY <3>4 DEF w
  <2>2. \A c \in Bytes : Bit(c, k) = (c \div 2^k) % 2
    BY DEF Bit
  <2>3. QED  BY <2>1, <2>2
<1>3. QED  BY <1>1, <1>2

\* cb &= ~0x10
LEMMA ClockOnBits ==
  ASSUME NEW b \in Bytes
  PROVE  /\ ClockOn(b) \in Bytes
         /\ Bit(ClockOn(b), 0) = Bit(b, 0) /\ Bit(ClockOn(b), 4) = 0
         /\ \A k \in Others : Bit(ClockOn(b), k) = Bit(b, k)
<1>1. Bit(b, 4) = (b \div 16) % 2
  BY BitIs
<1> DEFINE c == b - 16 * ((b \div 16) % 2)
<1>2. ClockOn(b) = c /\ c \in Bytes
  BY <1>1 DEF ClockOn, Bytes
<1>3. c % 2 = b % 2 /\ (c \div 16) % 2 = 0
  BY DEF Bytes
<1>4. \A w \in {2, 4, 8, 32, 64, 128} : (c \div w) % 2 = (b \div w) % 2
  BY DEF Bytes
<1> HIDE DEF c
<1>5. Bit(c, 0) = Bit(b, 0) /\ Bit(c, 4) = 0
  BY <1>2, <1>3, BitIs
<1>6. \A k \in Others : Bit(c, k) = Bit(b, k)
  BY <1>2, <1>4, BitIs
<1>7. QED  BY <1>2, <1>5, <1>6

\* cb |= 1
LEMMA InterruptOnBits ==
  ASSUME NEW b \in Bytes
  PROVE  /\ b + (1 - Bit(b, 0)) \in Bytes
         /\ Bit(b + (1 - Bit(b, 0)), 0) = 1
         /\ \A k \in Others : Bit(b + (1 - Bit(b, 0)), k) = Bit(b, k)
<1>1. Bit(b, 0) = b % 2
  BY BitIs
<1> DEFINE c == b + (1 - (b % 2))
<1>2. b + (1 - Bit(b, 0)) = c /\ c \in Bytes
  BY <1>1 DEF Bytes
<1>3. c % 2 = 1
  BY DEF Bytes
<1>4. \A w \in {2, 4, 8, 32, 64, 128} : (c \div w) % 2 = (b \div w) % 2
  BY DEF Bytes
<1> HIDE DEF c
<1>5. Bit(c, 0) = 1
  BY <1>2, <1>3, BitIs
<1>6. \A k \in Others : Bit(c, k) = Bit(b, k)
  BY <1>2, <1>4, BitIs
<1>7. QED  BY <1>2, <1>5, <1>6

\* The keyboard can be heard.
On(b) == Bit(b, 0) = 1 /\ Bit(b, 4) = 0

LEMMA EnabledBits ==
  ASSUME NEW b \in Bytes
  PROVE  Enabled(b) \in Bytes /\ On(Enabled(b)) /\ OtherBits(Enabled(b)) = OtherBits(b)
<1> DEFINE c == b + (1 - Bit(b, 0))
<1>1. /\ c \in Bytes /\ Bit(c, 0) = 1
      /\ \A k \in Others : Bit(c, k) = Bit(b, k)
  BY InterruptOnBits
<1>2. Enabled(b) = ClockOn(c)
  BY DEF Enabled
<1> HIDE DEF c
<1>3. /\ ClockOn(c) \in Bytes
      /\ Bit(ClockOn(c), 0) = 1 /\ Bit(ClockOn(c), 4) = 0
      /\ \A k \in Others : Bit(ClockOn(c), k) = Bit(b, k)
  BY <1>1, ClockOnBits
<1>4. OtherBits(ClockOn(c)) = OtherBits(b)
  BY <1>3 DEF OtherBits, Others
<1>5. QED  BY <1>2, <1>3, <1>4 DEF On

LEMMA ClockOnKeeps ==
  ASSUME NEW b \in Bytes
  PROVE  /\ ClockOn(b) \in Bytes /\ (On(b) => On(ClockOn(b)))
         /\ OtherBits(ClockOn(b)) = OtherBits(b)
BY ClockOnBits DEF On, OtherBits, Others

-----------------------------------------------------------------------------
(* The inductive invariant.                                                *)

Commands == {ENABLE, ASK, SET}
Input == Commands \cup { Datum(b) : b \in Bytes }

\* The input buffer holds one byte at most.
OnePending == ib = {} \/ \E x \in Input : ib = {x}

Types ==
  /\ pc \in {"drain", "discard", "enable", "ask", "await", "take", "set",
             "put", "done"}
  /\ cb \in Bytes /\ config \in Bytes /\ ob \in Bytes
  /\ OnePending
  /\ interrupts \in BOOLEAN /\ expectsData \in BOOLEAN /\ replying \in BOOLEAN
  /\ obFull \in BOOLEAN /\ obReply \in BOOLEAN /\ irq \in BOOLEAN
  /\ configured \in BOOLEAN /\ robbed \in BOOLEAN /\ mistaken \in BOOLEAN
  /\ keys \in 0..MaxKeys /\ calls \in 0..MaxCalls

\* Command 0x60 is on its way until the datum is put, so the datum is taken
\* for the configuration byte; and it is a byte that keyboard_init enabled.
Writing ==
  /\ pc \in {"set", "put"} => On(cb)
  /\ pc = "put" => ib = {SET} \/ (ib = {} /\ expectsData)
  /\ ib = {SET} => pc = "put"
  /\ \A b \in Bytes : ib = {Datum(b)} => pc = "done" /\ expectsData /\ On(b)
  /\ configured => On(config) \/ \E b \in Bytes : ib = {Datum(b)}

\* Every byte on the way to or from the configuration has the firmware's
\* other bits.
AsFound(b) == \E f \in Firmware : OtherBits(b) = OtherBits(f)
Copies ==
  ~mistaken =>
    /\ AsFound(config)
    /\ obReply => AsFound(ob)
    /\ pc \in {"set", "put"} => AsFound(cb)
    /\ \A b \in Bytes : ib = {Datum(b)} => AsFound(b)

IInv == Types /\ Writing /\ Copies

LEMMA InputDiffers ==
  /\ ENABLE # ASK /\ ENABLE # SET /\ ASK # SET
  /\ \A b \in Bytes : Datum(b) # ENABLE /\ Datum(b) # ASK /\ Datum(b) # SET
  /\ \A a, b \in Bytes : Datum(a) = Datum(b) => a = b
  /\ \A x \in Commands : "datum" \notin DOMAIN x
  /\ \A b \in Bytes : "datum" \in DOMAIN Datum(b) /\ Datum(b).datum = b
<1>1. /\ ENABLE # ASK /\ ENABLE # SET /\ ASK # SET
  BY DEF ENABLE, ASK, SET
<1>2. \A x \in Commands : "datum" \notin DOMAIN x
  BY DEF Commands, ENABLE, ASK, SET
<1>3. \A b \in Bytes : "datum" \in DOMAIN Datum(b) /\ Datum(b).datum = b
  BY DEF Datum
<1>4. \A b \in Bytes : Datum(b) # ENABLE /\ Datum(b) # ASK /\ Datum(b) # SET
  BY <1>2, <1>3 DEF Commands
<1>5. \A a, b \in Bytes : Datum(a) = Datum(b) => a = b
  BY <1>3
<1>6. QED  BY <1>1, <1>2, <1>3, <1>4, <1>5

\* The singletons of the input buffer, told apart.
LEMMA Singletons ==
  /\ {ENABLE} # {} /\ {ASK} # {} /\ {SET} # {}
  /\ {ENABLE} # {SET} /\ {ASK} # {SET}
  /\ \A b \in Bytes : /\ {Datum(b)} # {} /\ {Datum(b)} # {ENABLE}
                      /\ {Datum(b)} # {ASK} /\ {Datum(b)} # {SET}
  /\ \A a, b \in Bytes : {Datum(a)} = {Datum(b)} => a = b
<1>1. \A x, y : {x} = {y} => x = y
  OBVIOUS
<1>2. QED  BY <1>1, InputDiffers

\* The steps that leave everything the two claims are about alone.
Aside(goal) ==
  /\ pc' = goal /\ UNCHANGED <<cb, config, ib, expectsData, configured, mistaken>>
  /\ ob' = ob /\ (obReply' => obReply)

LEMMA AsideKeeps ==
  ASSUME Writing, Copies, NEW goal, Aside(goal),
         goal \in {"set", "put"} => pc \in {"set", "put"},
         goal = "put" <=> pc = "put", goal = "done" <=> pc = "done"
  PROVE  Writing' /\ Copies'
<1>1. Writing'
  BY DEF Writing, Aside
<1>2. Copies'
  BY DEF Copies, Aside
<1>3. QED  BY <1>1, <1>2

-----------------------------------------------------------------------------
(* Each step of keyboard_init.                                             *)

LEMMA StepDrain ==
  ASSUME IInv, Drain \/ Discard
  PROVE  IInv'
<1>1. /\ pc \in {"drain", "discard"} /\ pc' \in {"drain", "discard", "enable"}
      /\ UNCHANGED <<main, controller, keys, robbed>>
      /\ ob' = ob /\ obReply' = obReply
      /\ obFull' \in BOOLEAN /\ irq' \in BOOLEAN
  BY DEF Drain, Discard, Goto, Read, buffer, IInv, Types
<1>2. Types'
  BY <1>1 DEF IInv, Types, OnePending, main, controller
<1>3. Aside(pc')
  BY <1>1 DEF Aside, main, controller
<1>4. Writing' /\ Copies'
  BY <1>1, <1>3, AsideKeeps DEF IInv
<1>5. QED  BY <1>2, <1>4 DEF IInv

\* A command other than 0x60 changes nothing yet.
LEMMA StepCommand ==
  ASSUME IInv, EnableClock \/ Ask
  PROVE  IInv'
<1>1. /\ pc \in {"enable", "ask"} /\ pc' \in {"ask", "await"}
      /\ ib' = {ENABLE} \/ ib' = {ASK}
      /\ UNCHANGED <<main, buffer, keys, robbed, config, expectsData, replying>>
  BY DEF EnableClock, Ask, Goto, Write
<1>2. OnePending'
  BY <1>1 DEF OnePending, Input, Commands
<1>3. Types'
  BY <1>1, <1>2 DEF IInv, Types, main, buffer
<1>4. \A b \in Bytes : ib' # {Datum(b)} /\ ib # {Datum(b)}
  BY <1>1, Singletons DEF IInv, Writing
<1>5. Writing'
  <2>1. ib' # {SET}
    BY <1>1, Singletons
  <2>2. configured' => On(config')
    BY <1>1, <1>4 DEF IInv, Writing, main
  <2>3. QED  BY <1>1, <1>4, <2>1, <2>2 DEF Writing
<1>6. Copies'
  BY <1>1, <1>4 DEF IInv, Copies, main, buffer
<1>7. QED  BY <1>3, <1>5, <1>6 DEF IInv

LEMMA StepAwait ==
  ASSUME IInv, Await
  PROVE  IInv'
<1>1. /\ pc = "await" /\ pc' = "take"
      /\ UNCHANGED <<main, controller, buffer, keys, robbed>>
  BY DEF Await, Goto
<1>2. Types'
  BY <1>1 DEF IInv, Types, OnePending, main, controller, buffer
<1>3. Aside("take")
  BY <1>1 DEF Aside, main, controller, buffer
<1>4. Writing' /\ Copies'
  BY <1>1, <1>3, AsideKeeps DEF IInv
<1>5. QED  BY <1>2, <1>4 DEF IInv

\* Whatever byte is taken, the one made of it enables the keyboard; and if it
\* is the reply, it has the firmware's other bits.
LEMMA StepTake ==
  ASSUME IInv, Take
  PROVE  IInv'
<1>1. /\ pc = "take" /\ pc' = "set" /\ cb' = Enabled(ob)
      /\ mistaken' = (mistaken \/ ~obReply)
      /\ UNCHANGED <<interrupts, calls, configured, controller, keys, robbed>>
      /\ ob' = ob /\ obReply' = obReply
      /\ obFull' \in BOOLEAN /\ irq' \in BOOLEAN
  BY DEF Take, Goto, Read, IInv, Types
<1>2. ob \in Bytes
  BY DEF IInv, Types
<1>3. /\ cb' \in Bytes /\ On(cb)' /\ OtherBits(cb)' = OtherBits(ob)
  BY <1>1, <1>2, EnabledBits DEF On, OtherBits
<1>4. mistaken' \in BOOLEAN
  BY <1>1
<1>5. Types'
  BY <1>1, <1>3, <1>4 DEF IInv, Types, OnePending, controller
<1>6. ib # {SET} /\ \A b \in Bytes : ib # {Datum(b)}
  BY <1>1 DEF IInv, Writing
<1>7. Writing'
  <2>1. configured' => On(config')
    BY <1>1, <1>6 DEF IInv, Writing, controller
  <2>2. QED  BY <1>1, <1>3, <1>6, <2>1 DEF Writing, controller
<1>8. Copies'
  <2> SUFFICES ASSUME ~mistaken'
               PROVE  Copies'
    BY DEF Copies
  <2>1. ~mistaken /\ obReply
    BY <1>1
  <2>2. AsFound(config) /\ AsFound(ob)
    BY <2>1 DEF IInv, Copies
  <2>3. AsFound(cb)'
    BY <1>3, <2>2 DEF AsFound
  <2>4. AsFound(config)' /\ AsFound(ob)'
    BY <1>1, <2>2 DEF AsFound, controller
  <2>5. \A b \in Bytes : ib' # {Datum(b)}
    BY <1>1, <1>6 DEF controller
  <2>6. QED  BY <2>3, <2>4, <2>5 DEF Copies
<1>9. QED  BY <1>5, <1>7, <1>8 DEF IInv

\* Command 0x60 replaces whatever was in the input buffer.
LEMMA StepSet ==
  ASSUME IInv, Set
  PROVE  IInv'
<1>1. /\ pc = "set" /\ pc' = "put" /\ ib' = {SET}
      /\ UNCHANGED <<main, buffer, keys, robbed, config, expectsData, replying>>
  BY DEF Set, Goto, Write
<1>2. OnePending'
  BY <1>1 DEF OnePending, Input, Commands
<1>3. Types'
  BY <1>1, <1>2 DEF IInv, Types, main, buffer
<1>4. \A b \in Bytes : ib' # {Datum(b)} /\ ib # {Datum(b)}
  BY <1>1, Singletons DEF IInv, Writing
<1>5. Writing'
  <2>1. On(cb)' /\ (configured' => On(config'))
    BY <1>1, <1>4 DEF IInv, Writing, main, On
  <2>2. QED  BY <1>1, <1>4, <2>1 DEF Writing, On
<1>6. Copies'
  BY <1>1, <1>4 DEF IInv, Copies, main, buffer, AsFound
<1>7. QED  BY <1>3, <1>5, <1>6 DEF IInv

\* The datum is put once the command has been taken, so it is expected.
LEMMA StepPut ==
  ASSUME IInv, Put
  PROVE  IInv'
<1>1. /\ pc = "put" /\ pc' = "done" /\ ib = {} /\ ib' = {Datum(cb)}
      /\ configured' = TRUE
      /\ UNCHANGED <<cb, interrupts, calls, mistaken, buffer, keys, robbed,
                     config, expectsData, replying>>
  BY DEF Put, Goto, Write
<1>2. cb \in Bytes
  BY DEF IInv, Types
<1>3. expectsData /\ On(cb)
  BY <1>1, Singletons DEF IInv, Writing
<1>4. OnePending'
  <2>1. Datum(cb) \in Input
    BY <1>2 DEF Input
  <2>2. QED  BY <1>1, <2>1 DEF OnePending
<1>5. Types'
  <2>1. configured' \in BOOLEAN
    BY <1>1, Zenon
  <2>2. QED  BY <1>1, <1>4, <2>1 DEF IInv, Types, buffer
<1>6. \A b \in Bytes : ib' = {Datum(b)} => b = cb
  BY <1>1, <1>2, Singletons
<1>7. Writing'
  <2>1. ib' # {SET}
    BY <1>1, <1>2, Singletons
  <2>2. QED  BY <1>1, <1>2, <1>3, <1>6, <2>1 DEF Writing
<1>8. Copies'
  BY <1>1, <1>6 DEF IInv, Copies, buffer
<1>9. QED  BY <1>5, <1>7, <1>8 DEF IInv

-----------------------------------------------------------------------------
(* The rest of the machine.                                                *)

LEMMA StepMain ==
  ASSUME IInv, Sti \/ CmdLayout
  PROVE  IInv'
<1>1. CASE Sti
  <2>1. /\ pc = "done" /\ pc' = pc /\ interrupts' = TRUE
        /\ UNCHANGED <<cb, calls, configured, mistaken, controller, buffer,
                       keys, robbed>>
    BY <1>1 DEF Sti
  <2>2. interrupts' \in BOOLEAN
    BY <2>1, Zenon
  <2>3. Types'
    BY <2>1, <2>2 DEF IInv, Types, OnePending, controller, buffer
  <2>4. Aside("done")
    BY <2>1 DEF Aside, controller, buffer
  <2>5. Writing' /\ Copies'
    BY <2>1, <2>4, AsideKeeps DEF IInv
  <2>6. QED  BY <2>3, <2>5 DEF IInv
<1>2. CASE CmdLayout
  <2>1. /\ pc = "done" /\ pc' = "drain" /\ ib = {}
        /\ calls < MaxCalls /\ calls' = calls + 1 /\ robbed' = FALSE
        /\ UNCHANGED <<cb, interrupts, configured, mistaken, controller,
                       buffer, keys>>
    BY <1>2 DEF CmdLayout, Goto
  <2>2. robbed' \in BOOLEAN
    BY <2>1, Zenon
  <2>3. calls' \in 0..MaxCalls
    BY <2>1, BoundAssumption DEF IInv, Types
  <2>4. Types'
    BY <2>1, <2>2, <2>3 DEF IInv, Types, OnePending, controller, buffer
  <2>5. ib' # {SET} /\ \A b \in Bytes : ib' # {Datum(b)} /\ ib # {Datum(b)}
    BY <2>1, Singletons DEF controller
  <2>6. Writing'
    BY <2>1, <2>5 DEF IInv, Writing, controller
  <2>7. Copies'
    BY <2>1, <2>5 DEF IInv, Copies, controller, buffer
  <2>8. QED  BY <2>4, <2>6, <2>7 DEF IInv
<1>3. QED  BY <1>1, <1>2

LEMMA StepHandler ==
  ASSUME IInv, KeyboardHandler
  PROVE  IInv'
<1>1. /\ irq' = FALSE /\ obFull' = FALSE
      /\ robbed' = (robbed \/ (obFull /\ obReply /\ pc = "await"))
      /\ UNCHANGED <<pc, main, controller, ob, obReply, keys>>
  BY DEF KeyboardHandler
<1>2. irq' \in BOOLEAN /\ obFull' \in BOOLEAN
  BY <1>1, Zenon
<1>3. robbed' \in BOOLEAN
  BY <1>1
<1>4. Types'
  BY <1>1, <1>2, <1>3 DEF IInv, Types, OnePending, main, controller
<1>5. Aside(pc)
  BY <1>1 DEF Aside, main, controller
<1>6. Writing' /\ Copies'
  BY <1>5, AsideKeeps DEF IInv
<1>7. QED  BY <1>4, <1>6 DEF IInv

\* The controller takes what is in its input buffer: the clock goes on, or
\* the announced byte becomes its configuration.
LEMMA StepAccept ==
  ASSUME IInv, Accept
  PROVE  IInv'
<1>1. PICK x \in Input : ib = {x}
  BY DEF Accept, IInv, Types, OnePending
<1>2. (CHOOSE y \in ib : TRUE) = x
  BY <1>1
<1>3. /\ ib' = {}
      /\ config' = IF x = ENABLE THEN ClockOn(config)
                   ELSE IF "datum" \in DOMAIN x /\ expectsData
                   THEN x.datum ELSE config
      /\ replying' = (replying \/ x = ASK)
      /\ expectsData' = (x = SET)
      /\ irq' = (irq \/ (obFull /\ Bit(config, 0) < Bit(config', 0)))
      /\ UNCHANGED <<pc, main, ob, obFull, obReply, keys, robbed>>
  BY <1>2 DEF Accept
<1>4. config \in Bytes
  BY DEF IInv, Types
<1>5. replying' \in BOOLEAN /\ expectsData' \in BOOLEAN /\ irq' \in BOOLEAN
  <2>1. replying' \in BOOLEAN
    BY <1>3
  <2>2. expectsData' \in BOOLEAN
    BY <1>3, Zenon
  <2>3. irq' \in BOOLEAN
    BY <1>3
  <2>4. QED  BY <2>1, <2>2, <2>3
<1>6. ib' # {SET} /\ \A b \in Bytes : ib' # {Datum(b)}
  BY <1>3, Singletons
<1>7. CASE x \in Commands
  <2>1. "datum" \notin DOMAIN x
    BY <1>7, InputDiffers
  <2>2. config' = ClockOn(config) \/ config' = config
    BY <1>3, <2>1
  <2>3. /\ config' \in Bytes /\ (On(config) => On(config)')
        /\ OtherBits(config)' = OtherBits(config)
    BY <1>4, <2>2, ClockOnKeeps DEF On, OtherBits
  <2>4. Types'
    BY <1>3, <1>5, <2>3 DEF IInv, Types, OnePending, main
  <2>5. \A b \in Bytes : ib # {Datum(b)}
    BY <1>1, <1>7, Singletons DEF Commands
  <2>6. pc = "put" => expectsData'
    BY <1>1, <1>3, Singletons DEF IInv, Writing
  <2>7. Writing'
    BY <1>3, <1>6, <2>3, <2>5, <2>6 DEF IInv, Writing, main, On
  <2>8. Copies'
    BY <1>3, <1>6, <2>3, <2>5 DEF IInv, Copies, AsFound, main
  <2>9. QED  BY <2>4, <2>7, <2>8 DEF IInv
<1>8. ASSUME NEW b \in Bytes, x = Datum(b)
      PROVE  IInv'
  <2>1. pc = "done" /\ expectsData /\ On(b)
    BY <1>1, <1>8 DEF IInv, Writing
  <2>2. config' = b
    BY <1>3, <1>8, <2>1, InputDiffers
  <2>3. Types'
    BY <1>3, <1>5, <2>2 DEF IInv, Types, OnePending, main
  <2>4. Writing'
    BY <1>3, <1>6, <2>1, <2>2 DEF Writing
  <2>5. Copies'
    BY <1>1, <1>3, <1>6, <1>8, <2>1, <2>2 DEF IInv, Copies, main
  <2>6. QED  BY <2>3, <2>4, <2>5 DEF IInv
<1>9. QED  BY <1>7, <1>8 DEF Input

\* The output buffer fills: with the configuration byte or with a key's.
LEMMA StepFill ==
  ASSUME IInv, Reply \/ KeyByte
  PROVE  IInv'
<1>1. PICK b \in Bytes : \E reply \in BOOLEAN :
        Fill(b, reply) /\ (reply => b = config)
  <2>1. CASE Reply
    BY <2>1 DEF Reply, IInv, Types
  <2>2. CASE KeyByte
    <3>1. PICK c \in KeyBytes : Fill(c, FALSE)
      BY <2>2 DEF KeyByte
    <3>2. c \in Bytes
      BY ByteAssumption DEF Bytes
    <3>3. QED  BY <3>1, <3>2, Zenon
  <2>3. QED  BY <2>1, <2>2
<1>2. /\ obFull' = TRUE /\ ob' = b /\ obReply' \in BOOLEAN
      /\ obReply' => b = config
      /\ irq' = (irq \/ Bit(config, 0) = 1)
  BY <1>1 DEF Fill
<1>3. /\ UNCHANGED <<pc, main, config, ib, expectsData, robbed>>
      /\ replying' \in BOOLEAN /\ keys' \in 0..MaxKeys
  <2>1. CASE Reply
    <3>1. replying' = FALSE /\ keys' = keys
          /\ UNCHANGED <<pc, main, config, ib, expectsData, robbed>>
      BY <2>1 DEF Reply
    <3>2. replying' \in BOOLEAN
      BY <3>1, Zenon
    <3>3. QED  BY <3>1, <3>2 DEF IInv, Types
  <2>2. CASE KeyByte
    BY <2>2, BoundAssumption DEF KeyByte, IInv, Types, controller
  <2>3. QED  BY <2>1, <2>2
<1>4. obFull' \in BOOLEAN /\ irq' \in BOOLEAN
  <2>1. obFull' \in BOOLEAN
    BY <1>2, Zenon
  <2>2. irq' \in BOOLEAN
    BY <1>2
  <2>3. QED  BY <2>1, <2>2
<1>5. Types'
  BY <1>2, <1>3, <1>4 DEF IInv, Types, OnePending, main
<1>6. Writing'
  BY <1>3 DEF IInv, Writing, main
<1>7. Copies'
  BY <1>2, <1>3 DEF IInv, Copies, main
<1>8. QED  BY <1>5, <1>6, <1>7 DEF IInv

-----------------------------------------------------------------------------
LEMMA InitIInv == Init => IInv
<1> SUFFICES ASSUME Init PROVE IInv
  OBVIOUS
<1>1. /\ pc = "drain" /\ cb = 0 /\ interrupts = FALSE
      /\ config \in Firmware /\ ib = {} /\ expectsData = FALSE
      /\ replying = FALSE /\ ob \in KeyBytes /\ obFull \in BOOLEAN
      /\ obReply = FALSE /\ irq \in BOOLEAN /\ keys = 0 /\ calls = 0
      /\ configured = FALSE /\ robbed = FALSE /\ mistaken = FALSE
  BY DEF Init
<1>2. cb \in Bytes /\ config \in Bytes /\ ob \in Bytes
  BY <1>1, ByteAssumption DEF Bytes
<1>3. Types
  <2>1. /\ interrupts \in BOOLEAN /\ expectsData \in BOOLEAN
        /\ replying \in BOOLEAN /\ obReply \in BOOLEAN /\ configured \in BOOLEAN
        /\ robbed \in BOOLEAN /\ mistaken \in BOOLEAN
    BY <1>1, Zenon
  <2>2. QED  BY <1>1, <1>2, <2>1, BoundAssumption DEF Types, OnePending
<1>4. ib # {SET} /\ \A b \in Bytes : ib # {Datum(b)}
  BY <1>1, Singletons
<1>5. Writing /\ Copies
  BY <1>1, <1>4 DEF Writing, Copies, AsFound
<1>6. QED  BY <1>3, <1>5 DEF IInv

LEMMA Inductive ==
  ASSUME IInv, [Next]_vars
  PROVE  IInv'
<1>1. CASE KeyboardInit
  BY <1>1, StepDrain, StepCommand, StepAwait, StepTake, StepSet, StepPut
  DEF KeyboardInit
<1>2. CASE UNCHANGED vars
  BY <1>2 DEF vars, main, controller, buffer, IInv, Types, OnePending,
              Writing, Copies, AsFound, On, OtherBits
<1>3. QED
  BY <1>1, <1>2, StepMain, StepHandler, StepAccept, StepFill DEF Next

\* The inductive invariant, for every firmware and every interleaving.
THEOREM Invariant == Spec => []IInv
BY InitIInv, Inductive, PTL DEF Spec

\* The state is always well typed; above all, the controller's input buffer
\* never holds two bytes and a byte taken is made into a byte.
THEOREM TypeCorrect == Spec => []TypeOK
<1>1. IInv => TypeOK
  <2> SUFFICES ASSUME IInv PROVE TypeOK
    OBVIOUS
  <2>1. Cardinality(ib) <= 1
    <3>1. CASE ib = {}
      <4>1. Cardinality({}) = 0
        BY FS_EmptySet
      <4>2. QED  BY <3>1, <4>1
    <3>2. ASSUME NEW x, ib = {x}
          PROVE  Cardinality(ib) <= 1
      <4>1. Cardinality({x}) = 1
        BY FS_Singleton
      <4>2. QED  BY <3>2, <4>1
    <3>3. QED  BY <3>1, <3>2 DEF IInv, Types, OnePending
  <2>2. ib \subseteq {ENABLE, ASK, SET} \cup { Datum(b) : b \in 0..255 }
    BY DEF IInv, Types, OnePending, Input, Commands, Bytes
  <2>3. QED  BY <2>1, <2>2 DEF IInv, Types, TypeOK, Bytes
<1>2. QED  BY <1>1, Invariant, PTL

\* A keyboard that has been configured is never switched off again, whatever
\* byte a later call takes for the reply and whoever reads the buffer.
THEOREM StaysEnabled == Spec => []KeyboardStaysEnabled
<1>1. IInv => KeyboardStaysEnabled
  BY Singletons DEF IInv, Writing, KeyboardStaysEnabled, On
<1>2. QED  BY <1>1, Invariant, PTL

\* As long as no other byte was taken for the controller's reply, the bits of
\* the configuration that keyboard_init does not mean to change, scan-code
\* translation among them, are the firmware's.
THEOREM BitsPreserved == Spec => []ConfigPreserved
<1>1. IInv => ConfigPreserved
  BY DEF IInv, Copies, ConfigPreserved, AsFound
<1>2. QED  BY <1>1, Invariant, PTL
=============================================================================
