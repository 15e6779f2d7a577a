-------------------------------- MODULE Ata --------------------------------
(***************************************************************************)
(* kernel/drivers/ata.c: one sector read by programmed I/O from the master *)
(* drive of the primary channel, one action per port access, in a sequence *)
(* of reads.                                                               *)
(*                                                                         *)
(* The drive is external.  It takes a command as soon as it is written but *)
(* may show BSY only a little later; then it has the sector ready (DRQ), or*)
(* reports an error if MayFail.  ata_read_sector waits for neither a ready *)
(* drive nor an error, and its buffer holds what was in it before.  The    *)
(* base of a byte and the size of a sector are constants; sector numbers   *)
(* are those 28 bits can say, as every caller's are (Fat).                 *)
(***************************************************************************)
EXTENDS Integers, Sequences

CONSTANTS
  Byte,     \* 256
  Nibble,   \* 16: the bits of the sector number in ATA_PRIMARY_DRIVE_SEL
  Words,    \* 256: the words of a sector
  Sectors,  \* the sector numbers the callers ask for
  MayFail   \* whether the drive may report an error

ASSUME SizeAssumption == {Byte, Nibble, Words} \subseteq Nat \ {0}
ASSUME SectorAssumption == Sectors \subseteq 0..(Byte * Byte * Byte * Nibble - 1)
ASSUME FailAssumption == MayFail \in BOOLEAN

VARIABLES
  at,      \* the statement of ata_read_sector that is next; "idle"
  lba,     \* its argument
  buffer,  \* the words read so far
  regs,    \* the drive's sector number and count registers
  status,  \* of the drive: "ready", "started", "busy", "drq", "error"
  data,    \* the words the drive still has to give
  last     \* the last sector read and what came of it

driver == <<at, lba, buffer, last>>
drive == <<regs, status, data>>
ata_vars == <<driver, drive>>

None == -1
Junk == <<None, 0>>  \* what the data port gives when there is no data
Content(s) == [w \in 1..Words |-> <<s, w>>]

AtaInit ==
  /\ at = "idle" /\ lba = None /\ buffer = <<>> /\ last = <<>>
  /\ regs \in [sel : {0}, count : {0, 1}, lo : {0}, mid : {0}, hi : {0}]
  /\ status = "ready" /\ data = <<>>

-----------------------------------------------------------------------------
(* ata_read_sector.                                                        *)

Call(s) == /\ at = "idle"
           /\ lba' = s /\ buffer' = <<>> /\ at' = "sel"
           /\ UNCHANGED <<last, drive>>

\* One outb to a register of the drive.
Write(here, reg, value, next) ==
  /\ at = here
  /\ regs' = [regs EXCEPT ![reg] = value]
  /\ at' = next
  /\ UNCHANGED <<lba, buffer, last, status, data>>

WriteCountNever == Write("count", "count", regs.count, "lo")
WriteCount == Write("count", "count", 1, "lo")

WriteRegs ==
  \/ Write("sel", "sel", (lba \div (Byte * Byte * Byte)) % Nibble, "count")
  \/ WriteCount
  \/ Write("lo", "lo", lba % Byte, "mid")
  \/ Write("mid", "mid", (lba \div Byte) % Byte, "hi")
  \/ Write("hi", "hi", (lba \div (Byte * Byte)) % Byte, "command")

\* 0x20, read sectors.
Command == /\ at = "command"
           /\ status' = "started"
           /\ at' = "poll busy"
           /\ UNCHANGED <<lba, buffer, last, regs, data>>

PollErrorBit == /\ at = "poll data" /\ status = "error"
                /\ at' = "insw"
                /\ UNCHANGED <<lba, buffer, last, drive>>

PollNothing == /\ at = "poll data" /\ status # "busy"
               /\ at' = "insw"
               /\ UNCHANGED <<lba, buffer, last, drive>>

\* The two polling loops: BSY has to be clear once, then DRQ set.
PollBusy == /\ at = "poll busy" /\ status # "busy"
            /\ at' = "poll data"
            /\ UNCHANGED <<lba, buffer, last, drive>>
PollData == /\ at = "poll data" /\ status = "drq"
            /\ at' = "insw"
            /\ UNCHANGED <<lba, buffer, last, drive>>

\* insw reads a word; the drive drops DRQ after the last one.
Insw == /\ at = "insw" /\ Len(buffer) < Words
        /\ IF status = "drq"
           THEN /\ buffer' = Append(buffer, Head(data))
                /\ data' = Tail(data)
                /\ status' = IF Len(data) = 1 THEN "ready" ELSE "drq"
           ELSE /\ buffer' = Append(buffer, Junk)
                /\ UNCHANGED <<data, status>>
        /\ UNCHANGED <<at, lba, last, regs>>

Return == /\ at = "insw" /\ Len(buffer) = Words
          /\ last' = <<lba, buffer>>
          /\ at' = "idle" /\ lba' = None
          /\ UNCHANGED <<buffer, drive>>

ata_read_sector ==
  WriteRegs \/ Command \/ PollBusy \/ PollData \/ Insw \/ Return

-----------------------------------------------------------------------------
(* The drive.  External.                                                   *)

Addressed == ((regs.sel * Byte + regs.hi) * Byte + regs.mid) * Byte + regs.lo

Begin == status = "started" /\ status' = "busy" /\ UNCHANGED <<driver, regs, data>>

\* A sector count of 1 is one sector; with any other there is more to come.
Deliver == /\ status \in {"started", "busy"}
           /\ status' = "drq"
           /\ data' = Content(Addressed)
                     \o (IF regs.count = 1 THEN <<>> ELSE Content(Addressed + 1))
           /\ UNCHANGED <<driver, regs>>

Fail == /\ MayFail /\ status \in {"started", "busy"}
        /\ status' = "error"
        /\ UNCHANGED <<driver, regs, data>>

-----------------------------------------------------------------------------
AtaNext == \/ \E s \in Sectors : Call(s)
           \/ ata_read_sector
           \/ Begin \/ Deliver \/ Fail

AtaSpec == AtaInit /\ [][AtaNext]_ata_vars

\* The main thread runs on, and a drive that has a command answers it.
AtaFairSpec == /\ AtaSpec
               /\ WF_ata_vars(ata_read_sector)
               /\ WF_ata_vars(Begin \/ Deliver \/ Fail)

-----------------------------------------------------------------------------
\* A read that returns brings the whole sector that was asked for and no
\* other words, although BSY may not be up yet when it is first polled and a
\* sequence of reads uses the same registers; a failed read never returns.
Abstract == INSTANCE Disk WITH Lbas <- Sectors, asked <- lba, answers <- last
ImplementsDisk == Abstract!Spec

\* Between two reads the drive has nothing left to give, so that the DRQ of
\* one read is never taken for the next one's.
NothingLeft == at \notin {"poll busy", "poll data", "insw"} =>
                 status # "drq" /\ data = <<>>

\* Every read returns, unless the drive has reported an error: the loops of
\* ata_read_sector look at neither ERR nor the time (ata.c).
ReadReturns == lba # None ~> lba = None \/ status = "error"
=============================================================================
