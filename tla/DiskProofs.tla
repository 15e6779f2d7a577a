----------------------------- MODULE DiskProofs -----------------------------
(***************************************************************************)
(* The disk.  About Ata, for every size of bytes and sectors, every set of *)
(* sector numbers and a drive that may fail or not: a read that returns    *)
(* brings the sector that was asked for, and leaves nothing for the next.  *)
(* About Fat, which reads through it, for every disk of 512-byte sectors   *)
(* laid out as the FAT standard has it, every size of names and of         *)
(* directory sectors and every argument: cat reads what ls lists, save the *)
(* names fat_name_match cannot match, and nothing else.                    *)
(***************************************************************************)
EXTENDS Ata, Fat, SequenceTheorems, WellFoundedInduction, TLAPS

-----------------------------------------------------------------------------
(* The driver.                                                             *)

(* The inductive invariant, in parts.                                      *)

Registers == [sel : Nat, count : Nat, lo : Nat, mid : Nat, hi : Nat]
Polling == {"poll busy", "poll data"}

TypeOK ==
  /\ at \in {"idle", "sel", "count", "lo", "mid", "hi", "command", "insw"} \cup Polling
  /\ lba \in IF at = "idle" THEN {None} ELSE Sectors
  /\ regs \in Registers
  /\ status \in {"ready", "started", "busy", "drq", "error"}

\* What has been written to the drive's registers, statement by statement.
Written ==
  /\ at \notin {"idle", "sel"} =>
       regs.sel = (lba \div (Byte * Byte * Byte)) % Nibble
  /\ at \notin {"idle", "sel", "count"} => regs.count = 1
  /\ at \notin {"idle", "sel", "count", "lo"} => regs.lo = lba % Byte
  /\ at \notin {"idle", "sel", "count", "lo", "mid"} =>
       regs.mid = (lba \div Byte) % Byte
  /\ at \notin {"idle", "sel", "count", "lo", "mid", "hi"} =>
       regs.hi = (lba \div (Byte * Byte)) % Byte

\* The drive is at rest until it has a command, and then gives the sector.
Answering ==
  /\ at \notin Polling \cup {"insw"} => status = "ready"
  /\ at \in Polling => status # "ready"
  /\ at \in Polling /\ status = "drq" => data = Content(lba)
  /\ status # "drq" => data = <<>>
  /\ at = "insw" => status \in {"drq", "ready"}

\* The buffer and what the drive still has are the two parts of the sector.
Reading ==
  /\ at \in {"sel", "count", "lo", "mid", "hi", "command"} \cup Polling => buffer = <<>>
  /\ at = "insw" => /\ buffer \in Seq({lba} \X (1..Words))
                    /\ data \in Seq({lba} \X (1..Words))
                    /\ buffer \o data = Content(lba)
                    /\ status = "drq" <=> data # <<>>

AtaIInv == TypeOK /\ Written /\ Answering /\ Reading
-----------------------------------------------------------------------------
(* Sector numbers in four registers.                                       *)

LEMMA DivMod ==
  ASSUME NEW x \in Nat, NEW a \in Nat \ {0}
  PROVE  /\ x \div a \in Nat /\ x % a \in 0..(a - 1)
         /\ x = a * (x \div a) + (x % a)
OBVIOUS

LEMMA DivDiv ==
  ASSUME NEW x \in Nat, NEW a \in Nat \ {0}, NEW b \in Nat \ {0}
  PROVE  x \div (a * b) = (x \div a) \div b
OBVIOUS

LEMMA DivBound ==
  ASSUME NEW x \in Nat, NEW a \in Nat \ {0}, NEW b \in Nat \ {0}, x < a * b
  PROVE  x \div a < b
OBVIOUS

LEMMA ModSmall ==
  ASSUME NEW x \in Nat, NEW a \in Nat \ {0}, x < a
  PROVE  x % a = x
OBVIOUS

\* The four values ata_read_sector writes say the sector number.
LEMMA FourParts ==
  ASSUME NEW x \in Sectors
  PROVE  /\ x \in Nat
         /\ (x \div (Byte * Byte * Byte)) % Nibble \in Nat
         /\ (x \div (Byte * Byte)) % Byte \in Nat
         /\ (x \div Byte) % Byte \in Nat
         /\ x % Byte \in Nat
         /\ x = ((((x \div (Byte * Byte * Byte)) % Nibble) * Byte
                   + ((x \div (Byte * Byte)) % Byte)) * Byte
                   + ((x \div Byte) % Byte)) * Byte + (x % Byte)
<1> DEFINE B == Byte
           c == B * B
           q1 == x \div B
           q2 == q1 \div B
           q3 == q2 \div B
<1>1. B \in Nat \ {0} /\ Nibble \in Nat \ {0} /\ c \in Nat \ {0}
      /\ c * B \in Nat \ {0}
  BY SizeAssumption
<1>2. x \in Nat /\ x < c * B * Nibble
  <2>1. c * B * Nibble \in Nat
    BY <1>1
  <2>2. x \in 0..(c * B * Nibble - 1)
    BY SectorAssumption
  <2> HIDE DEF c
  <2>3. QED  BY <2>1, <2>2
<1>3. q1 \in Nat /\ q2 \in Nat /\ q3 \in Nat
  BY <1>1, <1>2, DivMod
<1>4. x \div c = q2
  BY <1>1, <1>2, DivDiv
<1>5. x \div (c * B) = q3
  <2> HIDE DEF c, B
  <2>1. PICK a \in Nat \ {0}, b \in Nat \ {0} : a = c /\ b = B
    BY <1>1
  <2>2. x \div (a * b) = (x \div a) \div b
    BY <1>2, DivDiv
  <2>3. QED  BY <1>4, <2>1, <2>2
<1>6. q3 % Nibble = q3
  <2>1. q3 < Nibble
    <3> DEFINE d == c * B
    <3>1. d \in Nat \ {0} /\ x < d * Nibble /\ x \div d = q3
      BY <1>1, <1>2, <1>5
    <3> HIDE DEF d, q3
    <3>2. QED  BY <1>1, <1>2, <3>1, DivBound
  <2>2. QED  BY <1>1, <1>3, <2>1, ModSmall
<1>7. /\ x = B * q1 + (x % B) /\ q1 = B * q2 + (q1 % B) /\ q2 = B * q3 + (q2 % B)
      /\ x % B \in Nat /\ q1 % B \in Nat /\ q2 % B \in Nat
  BY <1>1, <1>2, <1>3, DivMod
<1> HIDE DEF B, c, q1, q2, q3
<1>8. /\ q3 * B + (q2 % B) = q2 /\ q2 * B + (q1 % B) = q1
      /\ q1 * B + (x % B) = x
  BY <1>1, <1>2, <1>3, <1>7
<1>9. QED
  BY <1>1, <1>2, <1>3, <1>4, <1>5, <1>6, <1>7, <1>8 DEF B, c, q1

-----------------------------------------------------------------------------
(* The words of a sector, given one by one.                                *)

LEMMA ContentIsSector ==
  ASSUME NEW s
  PROVE  /\ Content(s) \in Seq({s} \X (1..Words))
         /\ Len(Content(s)) = Words /\ Words \in Nat \ {0}
         /\ Content(s) # <<>>
<1>1. Words \in Nat \ {0}
  BY SizeAssumption
<1>2. \A w \in 1..Words : <<s, w>> \in {s} \X (1..Words)
  OBVIOUS
<1>3. Content(s) \in Seq({s} \X (1..Words)) /\ Len(Content(s)) = Words
  BY <1>1, <1>2 DEF Content
<1>4. QED  BY <1>1, <1>3, EmptySeq

LEMMA MoveOne ==
  ASSUME NEW S, NEW b \in Seq(S), NEW d \in Seq(S), d # <<>>
  PROVE  /\ Append(b, Head(d)) \in Seq(S) /\ Tail(d) \in Seq(S)
         /\ Append(b, Head(d)) \o Tail(d) = b \o d
         /\ Len(d) = 1 <=> Tail(d) = <<>>
<1>1. /\ Head(d) \in S /\ Tail(d) \in Seq(S) /\ Len(Tail(d)) = Len(d) - 1
      /\ \A i \in 1..Len(Tail(d)) : Tail(d)[i] = d[i + 1]
      /\ Head(d) = d[1] /\ Len(d) \in Nat \ {0} /\ Len(b) \in Nat
  BY HeadTailProperties, EmptySeq, LenProperties
<1> DEFINE a == Append(b, Head(d))
           t == Tail(d)
<1>2. /\ a \in Seq(S) /\ Len(a) = Len(b) + 1 /\ a[Len(b) + 1] = d[1]
      /\ \A i \in 1..Len(b) : a[i] = b[i]
  BY <1>1, AppendProperties
<1>3. t \in Seq(S) /\ Len(t) = Len(d) - 1 /\ \A i \in 1..Len(t) : t[i] = d[i + 1]
  BY <1>1
<1>4. Len(d) = 1 <=> t = <<>>
  BY <1>1, <1>3, EmptySeq
<1> HIDE DEF a, t
<1>5. /\ a \o t \in Seq(S) /\ Len(a \o t) = Len(a) + Len(t)
      /\ \A i \in 1..(Len(a) + Len(t)) :
           (a \o t)[i] = IF i <= Len(a) THEN a[i] ELSE t[i - Len(a)]
  BY <1>2, <1>3, ConcatProperties
<1>6. /\ b \o d \in Seq(S) /\ Len(b \o d) = Len(b) + Len(d)
      /\ \A i \in 1..(Len(b) + Len(d)) :
           (b \o d)[i] = IF i <= Len(b) THEN b[i] ELSE d[i - Len(b)]
  BY ConcatProperties
<1>7. \A i \in 1..Len(b \o d) : (a \o t)[i] = (b \o d)[i]
  <2> SUFFICES ASSUME NEW i \in 1..(Len(b) + Len(d))
               PROVE  (a \o t)[i] = (b \o d)[i]
    BY <1>6
  <2>1. CASE i <= Len(b)
    <3>1. (a \o t)[i] = a[i] /\ i \in 1..Len(b)
      BY <1>1, <1>2, <1>3, <1>5, <2>1
    <3>2. (b \o d)[i] = b[i]
      BY <1>1, <1>6, <2>1
    <3>3. QED  BY <1>2, <3>1, <3>2
  <2>2. CASE i = Len(b) + 1
    <3>1. (a \o t)[i] = d[1]
      BY <1>1, <1>2, <1>3, <1>5, <2>2
    <3>2. (b \o d)[i] = d[i - Len(b)] /\ i - Len(b) = 1
      BY <1>1, <1>6, <2>2
    <3>3. QED  BY <3>1, <3>2
  <2>3. CASE i > Len(b) + 1
    <3>1. (a \o t)[i] = t[i - Len(a)] /\ i - Len(a) \in 1..Len(t)
      BY <1>1, <1>2, <1>3, <1>5, <2>3
    <3>2. (b \o d)[i] = d[i - Len(b)] /\ i - Len(b) = i - Len(a) + 1
      BY <1>1, <1>2, <1>6, <2>3
    <3>3. t[i - Len(a)] = d[i - Len(a) + 1]
      BY <1>3, <3>1
    <3>4. d[i - Len(a) + 1] = d[i - Len(b)]
      BY <3>2
    <3>5. QED  BY <3>1, <3>2, <3>3, <3>4
  <2>4. i <= Len(b) \/ i = Len(b) + 1 \/ i > Len(b) + 1
    BY <1>1
  <2>5. QED  BY <2>1, <2>2, <2>3, <2>4, Zenon
<1>8. Len(a \o t) = Len(b \o d)
  BY <1>1, <1>2, <1>3, <1>5, <1>6
<1>9. a \o t = b \o d
  BY <1>5, <1>6, <1>7, <1>8, SeqEqual
<1>10. QED  BY <1>2, <1>3, <1>4, <1>9 DEF a, t
-----------------------------------------------------------------------------
(* The steps.                                                              *)

LEMMA CallInv ==
  ASSUME AtaIInv, NEW s \in Sectors, Call(s)
  PROVE  AtaIInv'
<1>1. /\ at = "idle" /\ at' = "sel" /\ lba' = s /\ buffer' = <<>>
      /\ UNCHANGED <<regs, status, data>>
  BY DEF Call, drive
<1>2. QED
  BY <1>1 DEF AtaIInv, TypeOK, Polling, Written, Answering, Reading

\* A register takes its part of the sector number, and keeps it.
LEMMA WriteInv ==
  ASSUME AtaIInv, WriteRegs
  PROVE  AtaIInv'
<1>1. PICK here, reg, value, next :
        /\ Write(here, reg, value, next)
        /\ \/ /\ here = "sel" /\ reg = "sel" /\ next = "count"
              /\ value = (lba \div (Byte * Byte * Byte)) % Nibble
           \/ here = "count" /\ reg = "count" /\ next = "lo" /\ value = 1
           \/ here = "lo" /\ reg = "lo" /\ next = "mid" /\ value = lba % Byte
           \/ /\ here = "mid" /\ reg = "mid" /\ next = "hi"
              /\ value = (lba \div Byte) % Byte
           \/ /\ here = "hi" /\ reg = "hi" /\ next = "command"
              /\ value = (lba \div (Byte * Byte)) % Byte
  BY DEF WriteRegs, WriteCount
<1>2. /\ at = here /\ at' = next /\ regs' = [regs EXCEPT ![reg] = value]
      /\ UNCHANGED <<lba, buffer, status, data>>
  BY <1>1 DEF Write
<1>3. lba \in Sectors /\ regs \in Registers
  BY <1>1, <1>2 DEF AtaIInv, TypeOK
<1>4. value \in Nat
  BY <1>1, <1>3, FourParts
<1>5. TypeOK'
  BY <1>1, <1>2, <1>3, <1>4 DEF AtaIInv, TypeOK, Polling, Registers
<1>6. Written'
  BY <1>1, <1>2, <1>3 DEF AtaIInv, Written, Registers
<1>7. Answering' /\ Reading'
  BY <1>1, <1>2 DEF AtaIInv, Polling, Answering, Reading
<1>8. QED  BY <1>5, <1>6, <1>7 DEF AtaIInv

LEMMA PollInv ==
  ASSUME AtaIInv, Command \/ PollBusy \/ PollData
  PROVE  AtaIInv'
<1>1. /\ UNCHANGED <<lba, buffer, regs, data>>
      /\ \/ at = "command" /\ at' = "poll busy" /\ status' = "started"
         \/ at = "poll busy" /\ at' = "poll data" /\ status' = status
         \/ /\ at = "poll data" /\ at' = "insw"
            /\ status = "drq" /\ status' = status
  BY DEF Command, PollBusy, PollData, drive
<1>2. TypeOK' /\ Written' /\ Answering'
  BY <1>1 DEF AtaIInv, TypeOK, Polling, Written, Answering
<1>3. Reading'
  <2>1. CASE at' # "insw"
    BY <1>1, <2>1 DEF AtaIInv, Polling, Reading
  <2>2. CASE at' = "insw"
    <3>1. /\ buffer' = <<>> /\ data' = Content(lba') /\ status' = "drq"
          /\ lba' = lba
      BY <1>1, <2>2 DEF AtaIInv, Polling, Answering, Reading
    <3>2. /\ Content(lba') \in Seq({lba'} \X (1..Words)) /\ Content(lba') # <<>>
      BY ContentIsSector
    <3>3. /\ <<>> \in Seq({lba'} \X (1..Words))
          /\ <<>> \o Content(lba') = Content(lba')
      BY <3>2, EmptySeq, ConcatEmptySeq
    <3>4. /\ buffer' \in Seq({lba'} \X (1..Words))
          /\ data' \in Seq({lba'} \X (1..Words))
          /\ buffer' \o data' = Content(lba')
          /\ status' = "drq" <=> data' # <<>>
      BY <3>1, <3>2, <3>3
    <3>5. QED  BY <2>2, <3>4 DEF Reading, Polling, Content
  <2>3. QED  BY <2>1, <2>2
<1>4. QED  BY <1>2, <1>3 DEF AtaIInv

\* A word goes from the drive to the buffer; the junk the port gives when
\* there is no data is never read, because Words of them are there by then.
LEMMA InswInv ==
  ASSUME AtaIInv, Insw
  PROVE  AtaIInv'
<1> DEFINE S == {lba} \X (1..Words)
<1>1. /\ at = "insw" /\ Len(buffer) < Words /\ UNCHANGED <<at, lba, regs>>
  BY DEF Insw
<1>2. /\ buffer \in Seq(S) /\ data \in Seq(S) /\ buffer \o data = Content(lba)
      /\ status = "drq" <=> data # <<>>
  BY <1>1 DEF AtaIInv, Reading
<1>3. data # <<>>
  <2>1. Len(Content(lba)) = Words
    BY ContentIsSector
  <2>2. data = <<>> => buffer \o data = buffer
    BY <1>2, ConcatEmptySeq
  <2>3. Words \in Nat /\ Len(buffer) \in Nat
    BY <1>2, SizeAssumption, LenProperties
  <2>4. QED  BY <1>1, <1>2, <2>1, <2>2, <2>3
<1>4. /\ buffer' = Append(buffer, Head(data)) /\ data' = Tail(data)
      /\ status' = IF Len(data) = 1 THEN "ready" ELSE "drq"
  BY <1>2, <1>3 DEF Insw
<1>5. /\ buffer' \in Seq(S) /\ data' \in Seq(S) /\ buffer' \o data' = Content(lba)
      /\ Len(data) = 1 <=> data' = <<>>
  <2> HIDE DEF S
  <2>1. /\ Append(buffer, Head(data)) \in Seq(S) /\ Tail(data) \in Seq(S)
        /\ Append(buffer, Head(data)) \o Tail(data) = buffer \o data
        /\ Len(data) = 1 <=> Tail(data) = <<>>
    BY <1>2, <1>3, MoveOne
  <2>2. QED  BY <1>2, <1>4, <2>1
<1>6. TypeOK' /\ Written' /\ Answering'
  BY <1>1, <1>4, <1>5 DEF AtaIInv, TypeOK, Polling, Written, Answering
<1>7. Reading'
  BY <1>1, <1>4, <1>5 DEF Reading, Polling, Content
<1>8. QED  BY <1>6, <1>7 DEF AtaIInv

\* What is returned is the sector.
LEMMA ReturnsSector ==
  ASSUME AtaIInv, Return
  PROVE  /\ buffer = Content(lba) /\ data = <<>> /\ status = "ready"
         /\ lba \in Sectors
<1> DEFINE S == {lba} \X (1..Words)
<1>1. at = "insw" /\ Len(buffer) = Words
  BY DEF Return
<1>2. /\ buffer \in Seq(S) /\ data \in Seq(S) /\ buffer \o data = Content(lba)
      /\ status = "drq" <=> data # <<>>
  BY <1>1 DEF AtaIInv, Reading
<1>3. Len(data) = 0
  <2>1. Len(buffer \o data) = Len(buffer) + Len(data) /\ Len(data) \in Nat
    BY <1>2, ConcatProperties, LenProperties
  <2>2. Len(Content(lba)) = Words /\ Words \in Nat
    BY ContentIsSector
  <2>3. QED  BY <1>1, <1>2, <2>1, <2>2
<1>4. data = <<>>
  BY <1>2, <1>3, EmptySeq
<1>5. buffer = Content(lba)
  BY <1>2, <1>4, ConcatEmptySeq
<1>6. QED  BY <1>1, <1>2, <1>4, <1>5 DEF AtaIInv, TypeOK, Answering

LEMMA ReturnInv ==
  ASSUME AtaIInv, Return
  PROVE  AtaIInv'
<1>1. /\ at = "insw" /\ at' = "idle" /\ lba' = None
      /\ UNCHANGED <<buffer, regs, status, data>>
      /\ data = <<>> /\ status = "ready"
  BY ReturnsSector DEF Return, drive
<1>2. QED
  BY <1>1 DEF AtaIInv, TypeOK, Polling, Written, Answering, Reading

\* The drive gives the sector the registers say, which is the one asked for.
LEMMA DriveInv ==
  ASSUME AtaIInv, Begin \/ Deliver \/ Fail
  PROVE  AtaIInv'
<1>1. /\ UNCHANGED <<at, lba, buffer, last, regs>>
      /\ status \in {"started", "busy"} /\ status' \in {"busy", "drq", "error"}
      /\ \/ status' # "drq" /\ data' = data
         \/ Deliver
  BY DEF Begin, Deliver, Fail, driver
<1>2. at \in Polling /\ data = <<>> /\ lba \in Sectors
  BY <1>1 DEF AtaIInv, TypeOK, Answering, Polling
<1>3. Deliver => data' = Content(lba)
  <2>1. /\ regs.sel = (lba \div (Byte * Byte * Byte)) % Nibble
        /\ regs.hi = (lba \div (Byte * Byte)) % Byte
        /\ regs.mid = (lba \div Byte) % Byte
        /\ regs.lo = lba % Byte /\ regs.count = 1
    BY <1>2 DEF AtaIInv, Written, Polling
  <2>2. Addressed = lba
    BY <1>2, <2>1, FourParts DEF Addressed
  <2>3. Deliver => data' = Content(lba) \o <<>>
    BY <2>1, <2>2 DEF Deliver
  <2>4. Content(lba) \o <<>> = Content(lba)
    BY ContentIsSector, ConcatEmptySeq
  <2>5. QED  BY <2>3, <2>4
<1>4. TypeOK' /\ Written' /\ Reading'
  BY <1>1, <1>2 DEF AtaIInv, TypeOK, Polling, Written, Reading
<1>5. Answering'
  BY <1>1, <1>2, <1>3 DEF Deliver, Answering, Polling, Content
<1>6. QED  BY <1>4, <1>5 DEF AtaIInv
-----------------------------------------------------------------------------
(* The theorems.                                                           *)

\* How far the registers, the drive and the buffer are with the sector asked
\* for: the invariant that the theorems below rest on.
THEOREM AtaInvariant == AtaSpec => []AtaIInv
<1>1. AtaInit => AtaIInv
  <2> SUFFICES ASSUME AtaInit PROVE AtaIInv
    OBVIOUS
  <2>1. /\ at = "idle" /\ lba = None /\ status = "ready" /\ data = <<>>
        /\ regs \in [sel : {0}, count : {0, 1}, lo : {0}, mid : {0}, hi : {0}]
    BY DEF AtaInit
  <2>2. QED
    BY <2>1 DEF AtaIInv, TypeOK, Registers, Polling, Written, Answering, Reading
<1>2. AtaIInv /\ [AtaNext]_ata_vars => AtaIInv'
  <2> SUFFICES ASSUME AtaIInv, [AtaNext]_ata_vars PROVE AtaIInv'
    OBVIOUS
  <2>1. CASE \E s \in Sectors : Call(s)
    BY <2>1, CallInv
  <2>2. CASE ata_read_sector
    BY <2>2, WriteInv, PollInv, InswInv, ReturnInv DEF ata_read_sector
  <2>3. CASE Begin \/ Deliver \/ Fail
    BY <2>3, DriveInv
  <2>4. CASE UNCHANGED ata_vars
    BY <2>4 DEF ata_vars, driver, drive, AtaIInv, TypeOK, Polling, Written, Answering,
                Reading, Content
  <2>5. QED  BY <2>1, <2>2, <2>3, <2>4 DEF AtaNext
<1>3. QED  BY <1>1, <1>2, PTL DEF AtaSpec

\* The drive has nothing left to give when the next read begins.
THEOREM DriveAtRest == AtaSpec => []NothingLeft
<1>1. AtaIInv => NothingLeft
  BY DEF AtaIInv, Answering, Polling, NothingLeft
<1>2. QED  BY <1>1, AtaInvariant, PTL

\* ata_read_sector implements the disk the file system reads from: a read that
\* returns brings the whole sector it was asked for.
THEOREM Refinement == AtaSpec => ImplementsDisk
<1>1. AtaInit => Abstract!Init
  BY DEF AtaInit, Abstract!Init
<1>2. AtaIInv /\ [AtaNext]_ata_vars => [Abstract!Next]_<<lba, last>>
  <2> SUFFICES ASSUME AtaIInv, [AtaNext]_ata_vars
               PROVE  [Abstract!Next]_<<lba, last>>
    OBVIOUS
  <2>1. CASE \E s \in Sectors : Call(s)
    BY <2>1 DEF Call, AtaIInv, TypeOK, Abstract!Next, Abstract!Request
  <2>2. CASE WriteRegs \/ Command \/ PollBusy \/ PollData \/ Insw
    BY <2>2 DEF WriteRegs, WriteCount, Write, Command, PollBusy, PollData, Insw
  <2>3. CASE Return
    <3>1. /\ last' = <<lba, Content(lba)>> /\ lba' = None
          /\ lba \in Sectors
      BY <2>3, ReturnsSector DEF Return
    <3>2. lba # None
      BY <3>1, FourParts DEF None
    <3>3. QED  BY <3>1, <3>2 DEF Abstract!Next, Abstract!Answer
  <2>4. CASE Begin \/ Deliver \/ Fail
    BY <2>4 DEF Begin, Deliver, Fail, driver
  <2>5. CASE UNCHANGED ata_vars
    BY <2>5 DEF ata_vars, driver
  <2>6. QED
    BY <2>1, <2>2, <2>3, <2>4, <2>5 DEF AtaNext, ata_read_sector
<1>3. QED
  BY <1>1, <1>2, AtaInvariant, PTL DEF AtaSpec, ImplementsDisk, Abstract!Spec

-----------------------------------------------------------------------------
(* The FAT reader.                                                         *)

\* A set of natural numbers that is not empty has a least element.
LEMMA Least ==
  ASSUME NEW T, T \subseteq Nat, T # {}
  PROVE  \E x \in T : \A y \in T : x <= y
<1> DEFINE R == OpToRel(<, Nat)
<1>1. IsWellFoundedOn(R, Nat)
  BY NatLessThanWellFounded
<1>2. PICK x \in T : \A y \in T : ~(<<y, x>> \in R)
  <2> HIDE DEF R
  <2> QED  BY <1>1, WFMin
<1>3. \A y \in T : ~(y < x)
  BY <1>2 DEF OpToRel
<1>4. QED  BY <1>3

-----------------------------------------------------------------------------
(* The regions of a disk.                                                  *)

LEMMA Bpb ==
  ASSUME NEW b \in Bpbs
  PROVE  /\ b.bytes_per_sector \in Nat /\ b.bytes_per_sector >= 32
         /\ b.sectors_per_cluster \in Nat \ {0}
         /\ b.reserved_sectors \in Nat \ {0} /\ b.fat_count \in Nat
         /\ b.root_entries \in Nat \ {0} /\ b.sectors_per_fat \in Nat
<1>1. b.bytes_per_sector = 512
  BY DEF Bpbs
<1>2. QED  BY <1>1 DEF Bpbs

\* A number of bytes, rounded up to sectors.
LEMMA RoundedUp ==
  ASSUME NEW x \in Nat, NEW a \in Nat \ {0}
  PROVE  /\ (x + (a - 1)) \div a \in Nat
         /\ ((x + (a - 1)) \div a) * a >= x
         /\ ((x + (a - 1)) \div a) * a < x + a
OBVIOUS

LEMMA Times ==
  ASSUME NEW a \in Nat, NEW m \in Nat, NEW n \in Nat
  PROVE  /\ m * a \in Nat /\ (m + 1) * a = m * a + a /\ m <= n => m * a <= n * a
         /\ (m - 1) * a = m * a - a
OBVIOUS

\* RootSectors is the number of sectors fat_read_file computes.
LEMMA RootSectorsIs ==
  ASSUME NEW b \in Bpbs
  PROVE  /\ RootSectors(b) = (b.root_entries * 32 + (b.bytes_per_sector - 1))
                               \div b.bytes_per_sector
         /\ RootSectors(b) \in Nat \ {0}
<1> DEFINE a == b.bytes_per_sector
           x == b.root_entries * 32
           m == (x + (a - 1)) \div a
           P(n) == n * a >= x /\ (n - 1) * a < x
<1>1. /\ a \in Nat \ {0} /\ a >= 32 /\ x \in Nat /\ x > 0
      /\ b.root_entries \in Nat /\ b.root_entries * 32 = x
  BY Bpb
<1>2. m \in Nat /\ m * a >= x /\ m * a < x + a
  <2> HIDE DEF a, x
  <2> QED  BY <1>1, RoundedUp
<1> HIDE DEF m, a, x
<1>3. m \in 0..b.root_entries
  <2>1. ASSUME m > b.root_entries PROVE FALSE
    <3>1. b.root_entries + 1 <= m /\ (b.root_entries + 1) * a <= m * a
      BY <1>1, <1>2, <2>1, Times
    <3>2. (b.root_entries + 1) * a = b.root_entries * a + a
      BY <1>1, Times
    <3>3. b.root_entries * a >= b.root_entries * 32
      BY <1>1
    <3>4. b.root_entries * a \in Nat /\ m * a \in Nat
      BY <1>1, <1>2, Times
    <3>5. QED  BY <1>1, <1>2, <3>1, <3>2, <3>3, <3>4
  <2>2. QED  BY <1>1, <1>2, <2>1
<1>4. P(m)
  <2>1. (m - 1) * a = m * a - a /\ m * a \in Nat
    BY <1>1, <1>2, Times
  <2>2. QED  BY <1>1, <1>2, <2>1
<1>5. ASSUME NEW k \in 0..b.root_entries, P(k)
      PROVE  k = m
  <2>1. (k - 1) * a = k * a - a /\ k * a \in Nat /\ m * a \in Nat
    BY <1>1, <1>2, Times
  <2>2. k * a < x + a /\ k * a >= x
    BY <1>1, <1>5, <2>1
  <2>3. ~(k < m)
    <3>1. k < m => (k + 1) * a <= m * a
      BY <1>1, <1>2, Times
    <3>2. (k + 1) * a = k * a + a
      BY <1>1, Times
    <3>3. QED  BY <1>1, <1>2, <2>1, <2>2, <3>1, <3>2
  <2>4. ~(m < k)
    <3>1. m < k => (m + 1) * a <= k * a
      BY <1>1, <1>2, Times
    <3>2. (m + 1) * a = m * a + a
      BY <1>1, <1>2, Times
    <3>3. QED  BY <1>1, <1>2, <2>1, <2>2, <3>1, <3>2
  <2>5. QED  BY <1>2, <2>3, <2>4
<1>6. RootSectors(b) = CHOOSE n \in 0..b.root_entries : P(n)
  BY DEF RootSectors, a, x
<1> HIDE DEF P
<1>7. RootSectors(b) = m
  BY <1>3, <1>4, <1>5, <1>6
<1>8. m # 0
  BY <1>1, <1>2
<1>9. QED  BY <1>2, <1>7, <1>8 DEF m, a, x

LEMMA RegionsAre ==
  ASSUME NEW b \in Bpbs
  PROVE  /\ Regions(b)[1] = b.reserved_sectors
         /\ \A k \in 2..(b.fat_count + 1) : Regions(b)[k] = b.sectors_per_fat
         /\ Regions(b)[b.fat_count + 2] = RootSectors(b)
<1> DEFINE fats == [k \in 1..b.fat_count |-> b.sectors_per_fat]
           S == Nat
<1>1. /\ b.reserved_sectors \in S /\ b.fat_count \in Nat
      /\ b.sectors_per_fat \in S /\ RootSectors(b) \in S
  BY Bpb, RootSectorsIs
<1>2. fats \in Seq(S) /\ Len(fats) = b.fat_count
      /\ \A k \in 1..b.fat_count : fats[k] = b.sectors_per_fat
  BY <1>1
<1>3. Regions(b) = <<b.reserved_sectors>> \o fats \o <<RootSectors(b)>>
  BY DEF Regions
<1> HIDE DEF fats, S
<1>4. QED  BY <1>1, <1>2, <1>3

\* Region after region, the root directory begins where fat_list_files and
\* fat_find_file read, and the data where fat_read_file counts from.
LEMMA AfterIs ==
  ASSUME NEW b \in Bpbs
  PROVE  /\ After(b, 1 + b.fat_count) = RootLba(b)
         /\ After(b, 2 + b.fat_count) = FirstDataSector(b)
<1> DEFINE f == b.fat_count
           s == b.sectors_per_fat
           r == b.reserved_sectors
           size == Regions(b)
           g(k) == IF k = 0 THEN 0
                   ELSE IF k <= f + 1 THEN r + (k - 1) * s
                   ELSE r + f * s + RootSectors(b)
<1>1. f \in Nat /\ s \in Nat /\ r \in Nat /\ RootSectors(b) \in Nat
  BY Bpb, RootSectorsIs
<1>2. /\ size[1] = r /\ size[f + 2] = RootSectors(b)
      /\ \A k \in 2..(f + 1) : size[k] = s
  BY RegionsAre
<1> HIDE DEF f, s, r, size
<1>3. ASSUME NEW n \in Nat, n <= f + 2, NEW k \in 1..n
      PROVE  g(k) = g(k - 1) + size[k]
  <2>1. CASE k = 1
    BY <1>1, <1>2, <2>1
  <2>2. CASE k # 1 /\ k <= f + 1
    <3>1. size[k] = s
      BY <1>1, <1>2, <2>2
    <3>2. (k - 1) * s = (k - 2) * s + s
      <4> DEFINE p == k - 2
      <4>1. p \in Nat /\ k - 1 = p + 1
        BY <2>2
      <4> HIDE DEF p
      <4>2. (p + 1) * s = p * s + s
        BY <1>1, <4>1, Times
      <4>3. QED  BY <4>1, <4>2 DEF p
    <3>3. g(k) = r + (k - 1) * s /\ g(k - 1) = r + (k - 2) * s
      BY <1>1, <2>2
    <3>4. (k - 2) * s \in Int /\ (k - 1) * s \in Int
      BY <1>1
    <3>5. QED  BY <1>1, <3>1, <3>2, <3>3, <3>4
  <2>3. CASE k = f + 2
    <3>1. g(k - 1) = r + f * s
      BY <1>1, <2>3
    <3>2. QED  BY <1>1, <1>2, <2>3, <3>1
  <2>4. QED  BY <1>1, <1>3, <2>1, <2>2, <2>3
<1>4. ASSUME NEW n \in Nat, n <= f + 2
      PROVE  After(b, n) = g(n)
  <2> DEFINE Step(e) == [k \in 0..n |-> IF k = 0 THEN 0 ELSE e[k - 1] + size[k]]
             end == CHOOSE e : e = Step(e)
             total == [k \in 0..n |-> g(k)]
  <2>1. total = Step(total)
    <3> HIDE DEF g
    <3>1. g(0) = 0
      BY DEF g
    <3>2. \A k \in 1..n : g(k) = g(k - 1) + size[k]
      BY <1>3, <1>4
    <3>3. \A k \in 0..n : total[k] = Step(total)[k]
      BY <3>1, <3>2
    <3>4. QED  BY <3>3
  <2>2. end = Step(end)
    BY <2>1
  <2>3. After(b, n) = end[n]
    BY DEF After, size
  <2>4. \A k \in 0..n : end[k] = g(k)
    <3> DEFINE T == { k \in 0..n : end[k] # g(k) }
    <3>1. ASSUME T # {} PROVE FALSE
      <4>1. PICK k \in T : \A j \in T : k <= j
        <5> HIDE DEF T
        <5>1. T \subseteq Nat
          BY DEF T
        <5> QED  BY <3>1, <5>1, Least
      <4>2. k \in 0..n /\ end[k] # g(k)
        BY <4>1
      <4>3. \A j \in 0..n : j < k => end[j] = g(j)
        BY <4>1, <4>2
      <4> HIDE DEF T, end
      <4>4. end[k] = IF k = 0 THEN 0 ELSE end[k - 1] + size[k]
        BY <2>2, <4>2
      <4>5. CASE k = 0
        BY <4>2, <4>4, <4>5
      <4>6. CASE k # 0
        <5>1. end[k - 1] = g(k - 1)
          BY <4>2, <4>3, <4>6
        <5>2. g(k) = g(k - 1) + size[k]
          BY <1>3, <1>4, <4>2, <4>6
        <5> HIDE DEF g
        <5>3. QED  BY <4>2, <4>4, <4>6, <5>1, <5>2
      <4>7. QED  BY <4>5, <4>6
    <3>2. QED  BY <3>1
  <2> HIDE DEF end
  <2>5. QED  BY <2>3, <2>4
<1>5. After(b, 1 + f) = r + f * s
  BY <1>1, <1>4
<1>6. After(b, 2 + f) = r + f * s + RootSectors(b)
  BY <1>1, <1>4
<1>7. QED
  BY <1>5, <1>6, RootSectorsIs DEF f, s, r, RootLba, FirstDataSector

LEMMA SectorsAre ==
  ASSUME disk \in Disks
  PROVE  /\ SectorAt(0) = <<"boot", disk.bpb>>
         /\ SectorAt(RootLba(disk.bpb)) = <<"root", SubSeq(disk.root, 1, Slots)>>
         /\ \A c \in Nat \ {0, 1} :
              SectorAt(FileLba(disk.bpb, c)) = <<"data", c, 0>>
<1> DEFINE b == disk.bpb
           root == After(b, 1 + b.fat_count)
           files == After(b, 2 + b.fat_count)
           w == b.sectors_per_cluster
<1>1. b \in Bpbs
  BY DiskAssumption
<1>2. /\ root = RootLba(b) /\ files = FirstDataSector(b)
      /\ root \in Nat /\ root > 0 /\ files \in Nat /\ files > root
  <2>1. root = RootLba(b) /\ files = FirstDataSector(b)
    BY <1>1, AfterIs
  <2>2. files = RootLba(b) + RootSectors(b)
    BY <1>1, <2>1, RootSectorsIs DEF FirstDataSector
  <2>3. b.fat_count * b.sectors_per_fat \in Nat
    BY <1>1, Bpb
  <2>4. RootLba(b) \in Nat /\ RootLba(b) > 0
    BY <1>1, <2>3, Bpb DEF RootLba
  <2>5. RootSectors(b) \in Nat /\ RootSectors(b) > 0
    BY <1>1, RootSectorsIs
  <2>6. QED  BY <2>1, <2>2, <2>4, <2>5
<1>3. w \in Nat \ {0}
  BY <1>1, Bpb
<1> HIDE DEF root, files
<1>4. ASSUME NEW number \in Nat
      PROVE  /\ number = 0 => SectorAt(number) = <<"boot", b>>
             /\ number = root => SectorAt(number) = <<"root", SubSeq(disk.root, 1, Slots)>>
             /\ number >= files =>
                  SectorAt(number) = <<"data", (number - files) \div w + 2, (number - files) % w>>
  <2>1. SectorAt(number) =
          CASE number = 0    -> <<"boot", b>>
            [] number = root -> <<"root", SubSeq(disk.root, 1, Slots)>>
            [] number >= files -> <<"data", (number - files) \div w + 2, (number - files) % w>>
            [] OTHER -> <<"other">>
    BY DEF SectorAt, root, files
  <2>2. QED  BY <1>2, <2>1
<1>5. ASSUME NEW c \in Nat \ {0, 1}
      PROVE  SectorAt(FileLba(b, c)) = <<"data", c, 0>>
  <2> DEFINE p == c - 2
             number == FileLba(b, c)
  <2>1. p \in Nat /\ c = p + 2
    OBVIOUS
  <2>2. number = p * w + files
    BY <1>2 DEF FileLba
  <2> HIDE DEF p, w, number
  <2>3. p * w \in Nat /\ (p * w) \div w = p /\ (p * w) % w = 0
    BY <1>3, <2>1
  <2>4. number \in Nat /\ number >= files /\ number - files = p * w
    BY <1>2, <2>2, <2>3
  <2>5. SectorAt(number) = <<"data", (number - files) \div w + 2, (number - files) % w>>
    BY <1>4, <2>4
  <2>6. (number - files) \div w + 2 = c /\ (number - files) % w = 0
    BY <2>1, <2>3, <2>4
  <2>7. QED  BY <2>5, <2>6 DEF number
<1>6. QED  BY <1>2, <1>4, <1>5

-----------------------------------------------------------------------------
(* Names.                                                                  *)

LEMMA Sizes == BaseLen \in Nat \ {0} /\ ExtLen \in Nat \ {0}
               /\ NameLen = BaseLen + ExtLen /\ Slots \in Nat \ {0}
BY NameAssumption, SlotAssumption DEF NameLen

\* Up gives neither a dot nor a mark of a slot but for itself.
LEMMA UpKeeps ==
  ASSUME NEW ch, NEW x \in {NUL, Dot, Blank}
  PROVE  Up(ch) = x <=> ch = x
<1>1. x \notin DOMAIN Capital /\ x \notin Range(Capital)
  BY CapitalAssumption
<1>2. ch \in DOMAIN Capital => Capital[ch] \in Range(Capital)
  BY DEF Range
<1>3. QED  BY <1>1, <1>2 DEF Up

LEMMA Part ==
  ASSUME NEW S, NEW s \in Seq(S), NEW i \in Nat \ {0}, NEW n \in Nat, i + n <= Len(s) + 1,
         NEW q, q = SubSeq(s, i, i + n - 1)
  PROVE  q \in Seq(S) /\ Len(q) = n /\ \A k \in 1..n : q[k] = s[i + k - 1]
<1>1. Len(s) \in Nat
  OBVIOUS
<1>2. i \in 1..(Len(s) + 1) /\ i + n - 1 \in (i - 1)..Len(s)
  BY <1>1
<1>3. /\ q \in Seq(S) /\ Len(q) = i + n - 1 - i + 1
      /\ \A k \in 1..(i + n - 1 - i + 1) : q[k] = s[i + k - 1]
  BY <1>2, SubSeqProperties
<1>4. i + n - 1 - i + 1 = n
  OBVIOUS
<1>5. QED  BY <1>3, <1>4

\* Two parts with a dot between them.
IsDotted(q, a, b) ==
  /\ Len(q) = Len(a) + 1 + Len(b)
  /\ \A k \in 1..Len(a) : q[k] = a[k]
  /\ q[Len(a) + 1] = Dot
  /\ \A k \in 1..Len(b) : q[Len(a) + 1 + k] = b[k]

LEMMA Dotted ==
  ASSUME NEW S, NEW a \in Seq(S), NEW b \in Seq(S), Dot \in S,
         NEW q, q = a \o <<Dot>> \o b
  PROVE  q \in Seq(S) /\ IsDotted(q, a, b)
<1> DEFINE c == a \o <<Dot>>
<1>1. Len(a) \in Nat /\ Len(b) \in Nat
  OBVIOUS
<1>2. /\ c \in Seq(S) /\ Len(c) = Len(a) + 1 /\ c[Len(a) + 1] = Dot
      /\ \A k \in 1..Len(a) : c[k] = a[k]
  BY <1>1
<1>3. q = c \o b
  OBVIOUS
<1> HIDE DEF c
<1>4. /\ q \in Seq(S) /\ Len(q) = Len(c) + Len(b)
      /\ \A k \in 1..Len(c) : q[k] = c[k]
  BY <1>2, <1>3
<1>5. ASSUME NEW k \in 1..Len(b)
      PROVE  q[Len(c) + k] = b[k]
  BY <1>1, <1>2, <1>3
<1>6. QED  BY <1>1, <1>2, <1>4, <1>5 DEF IsDotted

\* What a typing of a printed name is: m characters of the base, a dot and n
\* of the extension, the blanks at the end of either left out or not.
Parts(t, name, m, n) ==
  /\ Len(t) = m + 1 + n
  /\ \A k \in 1..m : t[k] = name[k]
  /\ t[m + 1] = Dot
  /\ \A k \in 1..n : t[m + 1 + k] = name[BaseLen + k]
  /\ \A k \in (m + 1)..BaseLen : name[k] = Blank
  /\ \A k \in (n + 1)..ExtLen : name[BaseLen + k] = Blank

\* The base, the dot and the extension of a line that ls prints.
LEMMA PrintedIs ==
  ASSUME NEW S, Dot \in S, NEW name \in Seq(S), Len(name) = NameLen,
         NEW line, line = Printed(name)
  PROVE  /\ line \in Seq(S) /\ Len(line) = NameLen + 1
         /\ \A k \in 1..BaseLen : line[k] = name[k]
         /\ \A k \in 1..ExtLen : line[BaseLen + 1 + k] = name[BaseLen + k]
<1>1. /\ BaseLen \in Nat /\ ExtLen \in Nat /\ NameLen = BaseLen + ExtLen
  BY Sizes
<1>2. PICK one : one = SubSeq(name, 1, 1 + BaseLen - 1)
  OBVIOUS
<1>3. PICK two : two = SubSeq(name, BaseLen + 1, BaseLen + 1 + ExtLen - 1)
  OBVIOUS
<1>4. line = one \o <<Dot>> \o two
  <2>1. 1 + BaseLen - 1 = BaseLen /\ BaseLen + 1 + ExtLen - 1 = NameLen
    BY <1>1
  <2>2. QED  BY <1>2, <1>3, <2>1 DEF Printed
<1>5. /\ one \in Seq(S) /\ Len(one) = BaseLen
      /\ \A k \in 1..BaseLen : one[k] = name[k]
  <2>1. 1 + BaseLen <= Len(name) + 1
    BY <1>1
  <2>2. /\ one \in Seq(S) /\ Len(one) = BaseLen
        /\ \A k \in 1..BaseLen : one[k] = name[1 + k - 1]
    BY <1>1, <1>2, <2>1, Part
  <2>3. QED  BY <1>1, <2>2
<1>6. /\ two \in Seq(S) /\ Len(two) = ExtLen
      /\ \A k \in 1..ExtLen : two[k] = name[BaseLen + k]
  <2>1. BaseLen + 1 + ExtLen <= Len(name) + 1 /\ BaseLen + 1 \in Nat \ {0}
    BY <1>1
  <2>2. /\ two \in Seq(S) /\ Len(two) = ExtLen
        /\ \A k \in 1..ExtLen : two[k] = name[BaseLen + 1 + k - 1]
    BY <1>1, <1>3, <2>1, Part
  <2>3. \A k \in 1..ExtLen : BaseLen + 1 + k - 1 = BaseLen + k
    BY <1>1
  <2>4. QED  BY <2>2, <2>3
<1>7. line \in Seq(S) /\ IsDotted(line, one, two)
  BY <1>4, <1>5, <1>6, Dotted
<1>8. QED
  <2>1. Len(line) = NameLen + 1
    BY <1>1, <1>5, <1>6, <1>7 DEF IsDotted
  <2>2. ASSUME NEW k \in 1..BaseLen PROVE line[k] = name[k]
    BY <1>5, <1>7 DEF IsDotted
  <2>3. ASSUME NEW k \in 1..ExtLen PROVE line[BaseLen + 1 + k] = name[BaseLen + k]
    BY <1>5, <1>6, <1>7 DEF IsDotted
  <2>4. QED  BY <1>7, <2>1, <2>2, <2>3

\* q is the first n characters of part, and blanks follow there.
IsTrimmed(q, part, n, S) ==
  /\ q \in Seq(S) /\ Len(q) = n
  /\ \A k \in 1..n : q[k] = part[k]
  /\ \A k \in (n + 1)..Len(part) : part[k] = Blank

\* A part of a line whose blanks at the end are left out, or some of them.
LEMMA TrimIs ==
  ASSUME NEW S, NEW part \in Seq(S), NEW q \in Trim(part)
  PROVE  \E n \in 0..Len(part) : IsTrimmed(q, part, n, S)
<1>1. PICK n \in 0..Len(part) : /\ q = SubSeq(part, 1, n)
                                /\ \A k \in (n + 1)..Len(part) : part[k] = Blank
  BY DEF Trim
<1>2. n \in Nat /\ 1 + n <= Len(part) + 1 /\ n = 1 + n - 1
  OBVIOUS
<1>3. q = SubSeq(part, 1, 1 + n - 1)
  BY <1>1, <1>2
<1>4. q \in Seq(S) /\ Len(q) = n /\ \A k \in 1..n : q[k] = part[1 + k - 1]
  BY <1>2, <1>3, Part
<1>5. \A k \in 1..n : 1 + k - 1 = k
  OBVIOUS
<1>6. IsTrimmed(q, part, n, S)
  BY <1>1, <1>4, <1>5 DEF IsTrimmed
<1>7. QED  BY <1>6

LEMMA TypingParts ==
  ASSUME NEW name, name \in Seq(Range(name)), Len(name) = NameLen,
         NEW t \in Typings(Printed(name))
  PROVE  \E m \in 0..BaseLen, n \in 0..ExtLen : Parts(t, name, m, n)
<1>1. /\ BaseLen \in Nat /\ ExtLen \in Nat /\ NameLen = BaseLen + ExtLen
  BY Sizes
<1>2. PICK S : name \in Seq(S) /\ Dot \in S
  <2>1. name \in Seq(Range(name) \cup {Dot})
    OBVIOUS
  <2>2. QED  BY <2>1
<1>3. PICK line : line = Printed(name)
  OBVIOUS
<1>4. /\ line \in Seq(S) /\ Len(line) = NameLen + 1
      /\ \A k \in 1..BaseLen : line[k] = name[k]
      /\ \A k \in 1..ExtLen : line[BaseLen + 1 + k] = name[BaseLen + k]
  BY <1>2, <1>3, PrintedIs
<1>5. PICK base : base = SubSeq(line, 1, BaseLen)
  OBVIOUS
<1>6. PICK ext : ext = SubSeq(line, BaseLen + 2, NameLen + 1)
  OBVIOUS
<1>7. /\ base \in Seq(S) /\ Len(base) = BaseLen
      /\ \A k \in 1..BaseLen : base[k] = name[k]
  <2>1. 1 + BaseLen <= Len(line) + 1 /\ base = SubSeq(line, 1, 1 + BaseLen - 1)
    BY <1>1, <1>4, <1>5
  <2>2. /\ base \in Seq(S) /\ Len(base) = BaseLen
        /\ \A k \in 1..BaseLen : base[k] = line[1 + k - 1]
    BY <1>1, <1>4, <2>1, Part
  <2>3. QED  BY <1>1, <1>4, <2>2
<1>8. /\ ext \in Seq(S) /\ Len(ext) = ExtLen
      /\ \A k \in 1..ExtLen : ext[k] = name[BaseLen + k]
  <2>1. /\ BaseLen + 2 + ExtLen <= Len(line) + 1 /\ BaseLen + 2 \in Nat \ {0}
        /\ ext = SubSeq(line, BaseLen + 2, BaseLen + 2 + ExtLen - 1)
    <3>1. PICK a \in Nat, b \in Nat : a = BaseLen /\ b = ExtLen
      BY <1>1
    <3>2. NameLen = a + b /\ Len(line) = NameLen + 1
      BY <1>1, <1>4, <3>1 DEF NameLen
    <3>3. NameLen + 1 = a + 2 + b - 1 /\ a + 2 + b <= NameLen + 1 + 1
      BY <3>2
    <3>4. QED  BY <1>6, <3>1, <3>2, <3>3
  <2>2. /\ ext \in Seq(S) /\ Len(ext) = ExtLen
        /\ \A k \in 1..ExtLen : ext[k] = line[BaseLen + 2 + k - 1]
    BY <1>1, <1>4, <2>1, Part
  <2>3. \A k \in 1..ExtLen : BaseLen + 2 + k - 1 = BaseLen + 1 + k
    BY <1>1
  <2>4. QED  BY <1>4, <2>2, <2>3
<1>9. PICK first \in Trim(base), second \in Trim(ext) : t = first \o <<Dot>> \o second
  BY <1>3, <1>5, <1>6 DEF Typings
<1>10. PICK m \in 0..BaseLen :
         /\ first \in Seq(S) /\ Len(first) = m
         /\ \A k \in 1..m : first[k] = base[k]
         /\ \A k \in (m + 1)..BaseLen : base[k] = Blank
  <2>1. PICK m \in 0..Len(base) : IsTrimmed(first, base, m, S)
    BY <1>7, <1>9, TrimIs
  <2>2. QED  BY <1>7, <2>1 DEF IsTrimmed
<1>11. PICK n \in 0..ExtLen :
         /\ second \in Seq(S) /\ Len(second) = n
         /\ \A k \in 1..n : second[k] = ext[k]
         /\ \A k \in (n + 1)..ExtLen : ext[k] = Blank
  <2>1. PICK n \in 0..Len(ext) : IsTrimmed(second, ext, n, S)
    BY <1>8, <1>9, TrimIs
  <2>2. QED  BY <1>8, <2>1 DEF IsTrimmed
<1>12. IsDotted(t, first, second)
  BY <1>2, <1>9, <1>10, <1>11, Dotted
<1>13. Parts(t, name, m, n)
  <2>1. Len(t) = m + 1 + n /\ t[m + 1] = Dot
    BY <1>10, <1>11, <1>12 DEF IsDotted
  <2>2. ASSUME NEW k \in 1..m PROVE t[k] = name[k]
    BY <1>1, <1>7, <1>10, <1>12 DEF IsDotted
  <2>3. ASSUME NEW k \in 1..n PROVE t[m + 1 + k] = name[BaseLen + k]
    <3>1. t[m + 1 + k] = second[k]
      BY <1>10, <1>11, <1>12 DEF IsDotted
    <3>2. second[k] = ext[k] /\ ext[k] = name[BaseLen + k]
      BY <1>1, <1>8, <1>11
    <3>3. QED  BY <3>1, <3>2
  <2>4. ASSUME NEW k \in (m + 1)..BaseLen PROVE name[k] = Blank
    BY <1>1, <1>7, <1>10
  <2>5. ASSUME NEW k \in (n + 1)..ExtLen PROVE name[BaseLen + k] = Blank
    BY <1>1, <1>8, <1>11
  <2>6. QED  BY <2>1, <2>2, <2>3, <2>4, <2>5 DEF Parts
<1>14. QED  BY <1>13

\* fat_format_name undoes the printing of a file's name and its typing.
LEMMA FormatUndoes ==
  ASSUME NEW e, IsEntry(e), e.attr # "label", NEW s, NEW t \in Typings(Printed(e.name)),
         SameLetters(s, t), DOMAIN s = 1..Len(s), Len(s) \in Nat
  PROVE  \A k \in 1..NameLen : fat_format_name(s)[k] = e.name[k]
<1> DEFINE name == e.name
<1>0. /\ BaseLen \in Nat /\ ExtLen \in Nat /\ NameLen = BaseLen + ExtLen
  BY Sizes
<1>1. /\ name \in Seq(Range(name)) /\ Len(name) = NameLen
      /\ \A k \in 1..NameLen : name[k] # Dot /\ Up(name[k]) = name[k]
  <2>1. /\ name \in Seq(Range(name)) /\ Len(name) = NameLen
        /\ \A ch \in Range(name) : ch # Dot /\ Up(ch) = ch
    BY DEF IsEntry
  <2>2. \A k \in 1..NameLen : name[k] \in Range(name)
    BY <2>1 DEF Range
  <2>3. QED  BY <2>1, <2>2
<1>2. PICK m \in 0..BaseLen, n \in 0..ExtLen : Parts(t, name, m, n)
  BY <1>1, TypingParts
<1> HIDE DEF name
<1>3. Len(s) = m + 1 + n /\ \A k \in 1..(m + 1 + n) : Up(s[k]) = Up(t[k])
  BY <1>2 DEF SameLetters, Parts
<1>4. /\ \A k \in 1..m : Up(s[k]) = name[k]
      /\ s[m + 1] = Dot
      /\ \A k \in 1..n : Up(s[m + 1 + k]) = name[BaseLen + k]
  <2>1. ASSUME NEW k \in 1..m PROVE Up(s[k]) = name[k]
    <3>1. k \in 1..(m + 1 + n) /\ k \in 1..NameLen
      BY <1>0
    <3>2. t[k] = name[k]
      BY <1>2 DEF Parts
    <3>3. QED  BY <1>1, <1>3, <3>1, <3>2
  <2>2. s[m + 1] = Dot
    <3>1. m + 1 \in 1..(m + 1 + n) /\ t[m + 1] = Dot
      BY <1>0, <1>2 DEF Parts
    <3>2. Up(s[m + 1]) = Up(t[m + 1])
      BY <1>3, <3>1
    <3>3. QED  BY <3>1, <3>2, UpKeeps
  <2>3. ASSUME NEW k \in 1..n PROVE Up(s[m + 1 + k]) = name[BaseLen + k]
    <3>1. m + 1 + k \in 1..(m + 1 + n) /\ BaseLen + k \in 1..NameLen
      BY <1>0
    <3>2. t[m + 1 + k] = name[BaseLen + k]
      BY <1>2 DEF Parts
    <3>3. QED  BY <1>1, <1>3, <3>1, <3>2
  <2>4. QED  BY <2>1, <2>2, <2>3
<1>5. ASSUME NEW k \in 1..m PROVE s[k] # Dot
  <2>1. k \in 1..NameLen
    BY <1>0
  <2>2. Up(s[k]) # Dot
    BY <1>1, <1>4, <2>1
  <2>3. QED  BY <2>2, UpKeeps
<1>6. FirstDot(s) = m + 1
  <2> DEFINE P(k) == /\ k <= Len(s) => s[k] = Dot
                     /\ \A j \in 1..(k - 1) : s[j] # Dot
  <2>1. m + 1 \in 1..(Len(s) + 1) /\ P(m + 1)
    BY <1>0, <1>3, <1>4, <1>5
  <2>2. ASSUME NEW k \in 1..(Len(s) + 1), P(k) PROVE k = m + 1
    BY <1>0, <1>3, <1>4, <1>5, <2>2
  <2>3. FirstDot(s) = CHOOSE k \in 1..(Len(s) + 1) : P(k)
    BY DEF FirstDot
  <2> HIDE DEF P
  <2>4. QED  BY <2>1, <2>2, <2>3
<1>7. ASSUME NEW k \in 1..NameLen, k <= BaseLen
      PROVE  fat_format_name(s)[k] = name[k]
  <2>1. fat_format_name(s)[k] =
          IF k <= Len(s) /\ k < FirstDot(s) THEN Up(s[k]) ELSE Blank
    BY <1>7 DEF fat_format_name
  <2>2. k <= Len(s) /\ k < FirstDot(s) <=> k <= m
    BY <1>0, <1>3, <1>6
  <2>3. k <= m => Up(s[k]) = name[k]
    BY <1>4
  <2>4. ~(k <= m) => name[k] = Blank
    BY <1>0, <1>2, <1>7 DEF Parts
  <2>5. QED  BY <2>1, <2>2, <2>3, <2>4
<1>8. ASSUME NEW k \in 1..NameLen, ~(k <= BaseLen)
      PROVE  fat_format_name(s)[k] = name[k]
  <2> DEFINE j == k - BaseLen
  <2>1. j \in 1..ExtLen /\ k = BaseLen + j
    BY <1>0, <1>8
  <2>2. fat_format_name(s)[k] = IF m + 1 + j <= Len(s) THEN Up(s[m + 1 + j]) ELSE Blank
    <3>1. fat_format_name(s)[k] =
            IF FirstDot(s) + k - BaseLen <= Len(s)
            THEN Up(s[FirstDot(s) + k - BaseLen]) ELSE Blank
      BY <1>8 DEF fat_format_name
    <3>2. FirstDot(s) + k - BaseLen = m + 1 + j
      BY <1>0, <1>6
    <3>3. QED  BY <3>1, <3>2
  <2> HIDE DEF j
  <2>3. m + 1 + j <= Len(s) <=> j <= n
    BY <1>0, <1>3, <2>1
  <2>4. j <= n => Up(s[m + 1 + j]) = name[k]
    BY <1>4, <2>1
  <2>5. ~(j <= n) => name[k] = Blank
    <3>1. \A i \in (n + 1)..ExtLen : name[BaseLen + i] = Blank
      BY <1>2 DEF Parts
    <3>2. ~(j <= n) => j \in (n + 1)..ExtLen
      BY <1>0, <2>1
    <3>3. QED  BY <2>1, <3>1, <3>2
  <2>6. QED  BY <2>2, <2>3, <2>4, <2>5
<1>9. QED  BY <1>0, <1>7, <1>8 DEF name

\* A match is with the whole name.
LEMMA MatchIs ==
  ASSUME NEW d, IsEntry(d), NEW e, IsEntry(e), NEW search,
         fat_name_match(d.name, search), fat_name_match(e.name, search)
  PROVE  d.name = e.name
<1>1. /\ d.name \in Seq(Range(d.name)) /\ Len(d.name) = NameLen
      /\ e.name \in Seq(Range(e.name)) /\ Len(e.name) = NameLen
  BY DEF IsEntry
<1>2. \A k \in 1..NameLen : d.name[k] = e.name[k]
  BY DEF fat_name_match
<1>3. QED  BY <1>1, <1>2

\* What was typed never looks for an unused slot.
LEMMA SearchIsTyped ==
  ASSUME NEW s \in Args, s # <<>>
  PROVE  fat_format_name(s)[1] # NUL
<1>1. 1 \in 1..NameLen /\ 1 <= BaseLen
  BY Sizes
<1>2. s \in Seq(Range(s)) /\ NUL \notin Range(s)
  BY ArgsAssumption
<1>3. 1 \in DOMAIN s
  BY <1>2
<1>4. s[1] # NUL
  BY <1>2, <1>3 DEF Range
<1>5. Up(s[1]) # NUL
  BY <1>4, UpKeeps
<1>6. Blank # NUL
  BY Zenon DEF Blank, NUL
<1>7. fat_format_name(s)[1] \in {Up(s[1]), Blank}
  BY <1>1 DEF fat_format_name
<1>8. QED  BY <1>5, <1>6, <1>7

-----------------------------------------------------------------------------
(* The directory.                                                          *)

LEMMA RootIs ==
  ASSUME disk \in Disks, NEW entries, entries = SubSeq(disk.root, 1, Slots)
  PROVE  /\ DOMAIN entries = 1..Slots
         /\ \A k \in 1..Slots :
              /\ entries[k] = disk.root[k] /\ IsEntry(disk.root[k])
              /\ \A j \in 1..k : disk.root[j].name[1] = NUL => disk.root[k].name[1] = NUL
<1>1. IsRoot(disk.root) /\ Slots \in Nat \ {0}
  BY DiskAssumption, Sizes
<1>2. PICK S : S = Range(disk.root)
  OBVIOUS
<1>3. disk.root \in Seq(S) /\ Len(disk.root) >= Slots
  BY <1>1, <1>2 DEF IsRoot
<1>4. /\ entries \in Seq(S) /\ Len(entries) = Slots
      /\ \A k \in 1..Slots : entries[k] = disk.root[1 + k - 1]
  <2>1. 1 + Slots <= Len(disk.root) + 1 /\ Slots = 1 + Slots - 1
    BY <1>1, <1>3
  <2>2. entries = SubSeq(disk.root, 1, 1 + Slots - 1)
    BY <2>1
  <2>3. QED  BY <1>1, <1>3, <2>1, <2>2, Part
<1>5. DOMAIN entries = 1..Slots
  BY <1>4
<1>6. \A k \in 1..Slots : entries[k] = disk.root[k]
  BY <1>1, <1>4
<1>7. \A k \in 1..Slots : k \in 1..Len(disk.root)
  BY <1>1, <1>3
<1>8. QED  BY <1>1, <1>5, <1>6, <1>7 DEF IsRoot

LEMMA VisibleIs ==
  ASSUME disk \in Disks, NEW k
  PROVE  k \in Visible <=>
           /\ k \in 1..Slots
           /\ \A j \in 1..k : disk.root[j].name[1] # NUL
           /\ disk.root[k].name[1] # DELETED
           /\ disk.root[k].attr # "label"
<1>1. PICK entries : entries = SubSeq(disk.root, 1, Slots)
  OBVIOUS
<1>2. DOMAIN entries = 1..Slots /\ \A j \in 1..Slots : entries[j] = disk.root[j]
  BY <1>1, RootIs
<1>3. \A n \in 1..Slots : \A j \in 1..n : j \in 1..Slots
  BY Sizes
<1>4. QED  BY <1>1, <1>2, <1>3 DEF Visible, Listed

-----------------------------------------------------------------------------
(* The inductive invariant.                                                *)

\* Until fat_init boot_sector is zero, and then the disk's own.
Booted == disk \in Disks /\ (boot_sector = Zeroed \/ boot_sector = disk.bpb)

\* ListedIsReadable of every file that ls would list: whether ls has shown it
\* yet makes no difference to cat.
Readable ==
  answer.kind \in {"file", "not found"} =>
    \A k \in Visible :
      LET e == disk.root[k]
      IN  /\ \E t \in Typings(Printed(e.name)) : SameLetters(args, t)
          /\ e.cluster # 0 /\ Range(e.name) \cap High = {}
          /\ \A j \in 1..(k - 1) : disk.root[j].name # e.name
          => answer = [ kind |-> "file", size |-> e.size,
                        sector |-> <<"data", e.cluster, 0>> ]

FatIInv == Booted /\ Readable /\ CatReadsListed

\* What cmd_cat finds: the first slot with the name, if it has a cluster.
LEMMA FoundIs ==
  ASSUME Booted, NEW s, cmd_cat(s), NEW found,
         found = { k \in 1..Slots :
                     /\ fat_name_match(disk.root[k].name, fat_format_name(s))
                     /\ \A j \in 1..(k - 1) :
                          ~fat_name_match(disk.root[j].name, fat_format_name(s))
                     /\ disk.root[k].cluster # 0 }
  PROVE  \/ answer' = [kind |-> "usage"]
         \/ s # <<>> /\ found = {} /\ answer' = [kind |-> "not found"]
         \/ /\ s # <<>>
            /\ \E k \in found :
                 answer' = [ kind |-> "file", size |-> disk.root[k].size,
                             sector |-> <<"data", disk.root[k].cluster, 0>> ]
<1>1. disk \in Disks /\ boot_sector = disk.bpb
  BY DEF Booted, cmd_cat
<1>2. PICK entries : entries = SubSeq(disk.root, 1, Slots)
  OBVIOUS
<1>3. Entries(RootLba(boot_sector)) = entries
  BY <1>1, <1>2, SectorsAre DEF Entries
<1>4. /\ DOMAIN entries = 1..Slots
      /\ \A k \in 1..Slots : entries[k] = disk.root[k] /\ IsEntry(disk.root[k])
  BY <1>1, <1>2, RootIs
<1>5. \A k \in 1..Slots : \A j \in 1..(k - 1) : entries[j] = disk.root[j]
  BY <1>4, Sizes
<1>6. PICK search : search = fat_format_name(s)
  OBVIOUS
<1>7. found = { k \in Matching(entries, search) : entries[k].cluster # 0 }
  BY <1>4, <1>5, <1>6 DEF Matching
<1>8. \A k \in found :
        SectorAt(FileLba(boot_sector, entries[k].cluster))
          = <<"data", disk.root[k].cluster, 0>>
  <2>1. ASSUME NEW k \in found
        PROVE  k \in 1..Slots /\ disk.root[k].cluster \in Nat \ {0, 1}
    BY <1>4 DEF IsEntry
  <2>2. QED  BY <1>1, <1>4, <2>1, SectorsAre
<1>9. \A k \in found : entries[k] = disk.root[k]
  BY <1>4
<1>10. \/ answer' = [kind |-> "usage"]
       \/ s # <<>> /\ found = {} /\ answer' = [kind |-> "not found"]
       \/ /\ s # <<>>
          /\ \E k \in found :
               answer' = [ kind |-> "file", size |-> entries[k].size,
                           sector |-> SectorAt(FileLba(boot_sector,
                                                       entries[k].cluster)) ]
  BY <1>3, <1>6, <1>7 DEF cmd_cat
<1>11. QED  BY <1>8, <1>9, <1>10

\* A file found is one that ls lists.
LEMMA FoundIsVisible ==
  ASSUME disk \in Disks, NEW s \in Args, s # <<>>, NEW k \in 1..Slots,
         fat_name_match(disk.root[k].name, fat_format_name(s)),
         disk.root[k].cluster # 0
  PROVE  k \in Visible
<1>1. /\ IsEntry(disk.root[k])
      /\ \A j \in 1..k : disk.root[j].name[1] = NUL => disk.root[k].name[1] = NUL
  BY RootIs
<1>2. /\ disk.root[k].name[1] = fat_format_name(s)[1]
      /\ fat_format_name(s)[1] \notin High
  <2>1. 1 \in 1..NameLen
    BY Sizes
  <2>2. QED  BY <2>1 DEF fat_name_match
<1>3. disk.root[k].name[1] # NUL /\ disk.root[k].name[1] # DELETED
  BY <1>2, SearchIsTyped, HighAssumption
<1>4. disk.root[k].attr # "label"
  BY <1>1 DEF IsEntry
<1>5. QED  BY <1>1, <1>3, <1>4, VisibleIs

\* The kinds of an answer are told apart.
LEMMA KindsDiffer ==
  ASSUME NEW a
  PROVE  /\ a.kind = "file" => a # [kind |-> "usage"] /\ a # [kind |-> "not found"]
         /\ a.kind = "not found" => a # [kind |-> "usage"]
<1>1. [kind |-> "usage"].kind = "usage" /\ [kind |-> "not found"].kind = "not found"
  BY Zenon
<1>2. "file" # "usage" /\ "file" # "not found" /\ "not found" # "usage"
  BY Zenon
<1>3. QED  BY <1>1, <1>2, Zenon

LEMMA StepCat ==
  ASSUME FatIInv, NEW s \in Args, cmd_cat(s)
  PROVE  FatIInv'
<1>1. disk' = disk /\ boot_sector' = boot_sector /\ args' = s /\ disk \in Disks
  BY DEF cmd_cat, FatIInv, Booted
<1>2. Visible' = Visible
  BY <1>1 DEF Visible
<1> DEFINE Match(k) == fat_name_match(disk.root[k].name, fat_format_name(s))
           First(k) == Match(k) /\ \A j \in 1..(k - 1) : ~Match(j)
           found == { k \in 1..Slots : /\ Match(k)
                                       /\ \A j \in 1..(k - 1) : ~Match(j)
                                       /\ disk.root[k].cluster # 0 }
           File(k) == [ kind |-> "file", size |-> disk.root[k].size,
                        sector |-> <<"data", disk.root[k].cluster, 0>> ]
<1>3. \/ answer' = [kind |-> "usage"]
      \/ s # <<>> /\ found = {} /\ answer' = [kind |-> "not found"]
      \/ s # <<>> /\ \E k \in found : answer' = File(k)
  BY FoundIs DEF FatIInv
<1>4. CatReadsListed'
  <2>1. ASSUME answer'.kind = "file"
        PROVE  \E k \in Visible : /\ answer'.size = disk.root[k].size
                                  /\ answer'.sector = <<"data", disk.root[k].cluster, 0>>
    <3>1. PICK k \in found : s # <<>> /\ answer' = File(k)
      <4>1. answer' # [kind |-> "usage"] /\ answer' # [kind |-> "not found"]
        BY <2>1, KindsDiffer
      <4> HIDE DEF found, File
      <4>2. QED  BY <1>3, <4>1
    <3>2. k \in Visible
      BY <1>1, <3>1, FoundIsVisible
    <3>3. QED  BY <3>1, <3>2
  <2>2. QED  BY <1>1, <1>2, <2>1 DEF CatReadsListed
<1>5. Readable'
  <2>1. ASSUME answer'.kind \in {"file", "not found"}, NEW k \in Visible,
               NEW t \in Typings(Printed(disk.root[k].name)), SameLetters(s, t),
               disk.root[k].cluster # 0, Range(disk.root[k].name) \cap High = {},
               \A j \in 1..(k - 1) : disk.root[j].name # disk.root[k].name
        PROVE  answer' = File(k)
    <3>1. k \in 1..Slots /\ disk.root[k].attr # "label"
      BY <1>1, VisibleIs
    <3>2. /\ IsEntry(disk.root[k])
          /\ \A j \in 1..(k - 1) : IsEntry(disk.root[j])
      <4>1. \A n \in 1..Slots : IsEntry(disk.root[n])
        BY <1>1, RootIs
      <4>2. \A j \in 1..(k - 1) : j \in 1..Slots
        BY <3>1, Sizes
      <4>3. QED  BY <3>1, <4>1, <4>2
    <3>3. DOMAIN s = 1..Len(s) /\ Len(s) \in Nat
      BY ArgsAssumption
    <3>4. Match(k)
      <4>1. \A j \in 1..NameLen : fat_format_name(s)[j] = disk.root[k].name[j]
        BY <2>1, <3>1, <3>2, <3>3, FormatUndoes
      <4>2. \A j \in 1..NameLen : disk.root[k].name[j] \notin High
        <5>1. /\ disk.root[k].name \in Seq(Range(disk.root[k].name))
              /\ Len(disk.root[k].name) = NameLen
          BY <3>2 DEF IsEntry
        <5>2. \A j \in 1..NameLen : disk.root[k].name[j] \in Range(disk.root[k].name)
          BY <5>1 DEF Range
        <5>3. QED  BY <2>1, <5>2
      <4>3. QED  BY <4>1, <4>2 DEF fat_name_match
    <3>5. \A j \in 1..(k - 1) : ~Match(j)
      BY <2>1, <3>2, <3>4, MatchIs
    <3>6. k \in found
      BY <2>1, <3>1, <3>4, <3>5
    <3>7. \A n \in found : n = k
      <4>1. ASSUME NEW n \in found PROVE n = k
        <5>1. n \in 1..Slots /\ First(n) /\ First(k)
          BY <3>4, <3>5
        <5> HIDE DEF Match
        <5>2. QED  BY <3>1, <5>1, Sizes
      <4>2. QED  BY <4>1
    <3>8. QED
      <4>1. answer' # [kind |-> "usage"]
        BY <2>1, KindsDiffer
      <4> HIDE DEF found, File
      <4>2. QED  BY <1>3, <4>1, <3>6, <3>7
  <2>2. QED  BY <1>1, <1>2, <2>1 DEF Readable
<1>6. Booted'
  BY <1>1 DEF FatIInv, Booted
<1>7. QED  BY <1>4, <1>5, <1>6 DEF FatIInv

-----------------------------------------------------------------------------
(* The theorems.                                                           *)

\* What boot_sector holds, and what the last answer of cat has to do with the
\* disk: the invariant that the theorems below rest on.
THEOREM FatInvariant == Spec => []FatIInv
<1>1. Init => FatIInv
  BY DEF Init, FatIInv, Booted, Readable, CatReadsListed
<1>2. FatIInv /\ [Next]_vars => FatIInv'
  <2> SUFFICES ASSUME FatIInv, [Next]_vars PROVE FatIInv'
    OBVIOUS
  <2>1. CASE fat_init
    <3>1. boot_sector' = disk.bpb
      <4>1. SectorAt(0) = <<"boot", disk.bpb>>
        BY SectorsAre DEF FatIInv, Booted
      <4>2. QED  BY <2>1, <4>1 DEF fat_init
    <3>2. UNCHANGED <<disk, args, answer>>
      BY <2>1 DEF fat_init
    <3>3. QED
      BY <3>1, <3>2 DEF FatIInv, Booted, Readable, CatReadsListed, Visible
  <2>2. CASE cmd_ls
    <3>1. UNCHANGED <<disk, boot_sector, args, answer>>
      BY <2>2 DEF cmd_ls
    <3>2. QED
      BY <3>1 DEF FatIInv, Booted, Readable, CatReadsListed, Visible
  <2>3. ASSUME NEW s \in Args, cmd_cat(s) PROVE FatIInv'
    BY <2>3, StepCat
  <2>4. CASE UNCHANGED vars
    BY <2>4 DEF vars, FatIInv, Booted, Readable, CatReadsListed, Visible
  <2>5. QED  BY <2>1, <2>2, <2>3, <2>4 DEF Next
<1>3. QED  BY <1>1, <1>2, PTL DEF Spec

\* A file that ls lists and that has data is read by cat, whichever way its
\* name is typed, unless an earlier slot has the same name or the name has a
\* character from 0x80 on.
THEOREM ListedCanBeRead == Spec => []ListedIsReadable
<1>1. FatIInv => ListedIsReadable
  BY DEF FatIInv, Readable, ListedIsReadable
<1>2. QED  BY <1>1, FatInvariant, PTL

\* Whatever is typed, cat reads only the first sector of a file that ls lists,
\* wherever on a disk of 512-byte sectors the regions of the FAT layout are.
THEOREM OnlyListedIsRead == Spec => []CatReadsListed
<1>1. FatIInv => CatReadsListed
  BY DEF FatIInv
<1>2. QED  BY <1>1, FatInvariant, PTL
=============================================================================
