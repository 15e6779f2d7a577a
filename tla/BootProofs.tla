----------------------------- MODULE BootProofs -----------------------------
(***************************************************************************)
(* Proofs about Boot, and the interrupts it composes, for every set of     *)
(* lines and exceptions, every mask the firmware leaves and every response *)
(* of the boot loader: no line is blocked, an EOI ends its own line, every *)
(* tick is counted once, and only exceptions crash.                        *)
(***************************************************************************)
EXTENDS Boot, TLAPS

(* The inductive invariant, in parts.                                      *)

Gates == {0, 1, 8, 13, 14, 32, 33, 39}

\* The initialisation bytes each PIC waits for, by the write that is next.
Waits == << <<0, 0>>, <<0, 0>>, <<3, 0>>, <<3, 3>>, <<2, 3>>, <<2, 2>>, <<1, 2>>,
            <<1, 1>>, <<0, 1>>, <<0, 0>>, <<0, 0>>, <<0, 0>>, <<0, 0>>, <<0, 0>> >>

\* What each PIC has been told by the write that is next.
Remapped ==
  /\ icw = Waits[write + 1]
  /\ write > 3 => offset[1] = 32
  /\ write > 4 => offset[2] = 40
  /\ pc > 6 => write > 12

\* The tables hold what the steps behind kmain have put there.
Tables ==
  /\ pc > 3 => LongCode(gdtr, kernel_cs) \/ at = "reset"
  /\ pc > 5 => gates = Gates
  /\ pc <= 7 => idtr = {}
  /\ pc > 7 => idtr = Gates

\* A gated line is handled after sti only, and its line alone is in service.
Handling ==
  /\ interrupts => at = "main" /\ pc > 11
  /\ at \in {"main", "iretq"} => isr = {}
  /\ at \in {"eoi", "iretq"} => vector >= 32
  /\ at \in {"handle", "eoi", "iretq"} /\ vector >= 32 =>
       pc > 11 /\ vector \in {32, 33, 39} /\ isr \subseteq {vector - 32}

\* The history agrees with the vector that is handled, and counts the ticks.
Unserved == cause < 32 \/ cause - 32 \notin Served
Causes ==
  /\ at = "handle" => (cause = 32 <=> vector = 32)
  /\ Crashed => Unserved
  /\ at = "handle" /\ vector < 32 => Unserved
  /\ at = "rsod" => wait_secs >= 1

IInv == BootTypeOK /\ Remapped /\ Tables /\ Handling /\ Causes /\ TicksExact
-----------------------------------------------------------------------------
(* Where kmain is, and what the PICs have been told.                       *)

LEMMA Lengths == Len(Kmain) = 13 /\ Len(Remap) = 12
BY DEF Kmain, Remap

\* The place of each step in kmain.
LEMMA KmainSteps ==
  ASSUME BootTypeOK
  PROVE
  /\ At("framebuffer") => pc = 1
  /\ At("screen") => pc = 2
  /\ At("gdt_init") => pc = 3
  /\ At("gates") => pc = 5
  /\ At("pic_remap") => pc = 6
  /\ At("load_idt") => pc = 7
  /\ At("fat_init") => pc = 9
  /\ At("module") => pc = 10
  /\ At("sti") => pc = 11
  /\ At("kprint") => pc \in {4, 8, 12}
  /\ At("motd") => pc = 13
<1>1. Len(Kmain) = 13
  BY Lengths
<1>2. /\ Kmain[1] = "framebuffer" /\ Kmain[2] = "screen" /\ Kmain[3] = "gdt_init"
      /\ Kmain[4] = "kprint" /\ Kmain[5] = "gates" /\ Kmain[6] = "pic_remap"
      /\ Kmain[7] = "load_idt" /\ Kmain[8] = "kprint" /\ Kmain[9] = "fat_init"
      /\ Kmain[10] = "module" /\ Kmain[11] = "sti" /\ Kmain[12] = "kprint"
      /\ Kmain[13] = "motd"
  BY DEF Kmain
<1>3. ~InShell => pc \in 1..13
  BY <1>1 DEF InShell, BootTypeOK
<1>4. QED  BY <1>1, <1>2, <1>3 DEF At

\* The writes of pic_remap, column by column.
LEMMA RemapWrites == Len(Remap) = 12 /\ DOMAIN Remap = 1..12
BY DEF Remap

LEMMA RemapChips == \A w \in 1..12 : Remap[w][1] \in {1, 2}
BY DEF Remap

LEMMA RemapPorts ==
  /\ \A w \in {1, 2} : Remap[w][2] = "command"
  /\ \A w \in 3..12 : Remap[w][2] # "command"
BY DEF Remap

LEMMA RemapBytes == \A w \in 1..12 : Remap[w][3] = Restored \/ Remap[w][3] \in 0..255
BY DEF Remap, Restored

LEMMA RemapOffsets ==
  /\ Remap[3][1] = 1 /\ Remap[3][3] = 32 /\ Remap[3][3] # Restored
  /\ Remap[4][1] = 2 /\ Remap[4][3] = 40 /\ Remap[4][3] # Restored
BY DEF Remap, Restored

LEMMA OutPicStep ==
  ASSUME IInv, OutPic
  PROVE  /\ pc = 6 /\ write \in 1..12 /\ write' = write + 1
         /\ pc' \in {6, 7} /\ (pc' = 7 => write = 12) /\ at = "main"
         /\ UNCHANGED <<interrupts, at, vector, gdtr, idtr, system_ticks, wait_secs,
                        cause, raised, saved, gates, target_fb, tar_start, given>>
         /\ Remap[write][2] = "command" => Icw1(Remap[write][1])
         /\ Remap[write][2] # "command" =>
              Data(Remap[write][1], IF Remap[write][3] = Restored
                                    THEN saved[Remap[write][1]] ELSE Remap[write][3])
<1>1. At("pic_remap") /\ write \in 1..12 /\ write' = write + 1
  BY RemapWrites DEF OutPic
<1>2. pc = 6 /\ at = "main"
  BY <1>1, KmainSteps DEF IInv, At
<1>3. pc' = IF write = 12 THEN pc + 1 ELSE pc
  BY RemapWrites DEF OutPic
<1>4. pc' \in {6, 7} /\ (pc' = 7 => write = 12)
  BY <1>2, <1>3
<1>5. UNCHANGED <<interrupts, at, vector, gdtr, idtr, system_ticks, wait_secs,
                  cause, raised, saved, gates, target_fb, tar_start, given>>
  BY DEF OutPic
<1>6. /\ Remap[write][2] = "command" => Icw1(Remap[write][1])
      /\ Remap[write][2] # "command" =>
           Data(Remap[write][1], IF Remap[write][3] = Restored
                                 THEN saved[Remap[write][1]] ELSE Remap[write][3])
  BY Zenon DEF OutPic
<1>7. QED  BY <1>1, <1>2, <1>4, <1>5, <1>6

-----------------------------------------------------------------------------
(* What every step of kmain shares.                                        *)

\* What the interrupts' side keeps when a step of kmain touches none of it.
Interrupted == InterruptsTypeOK /\ Handling /\ Causes /\ TicksExact

\* kmain goes on, and nothing of the interrupts changes.
LEMMA Quiet ==
  ASSUME IInv, UNCHANGED ivars, pc' = pc \/ pc' = pc + 1
  PROVE  Interrupted'
<1>1. UNCHANGED <<interrupts, at, vector, irr, isr, spurious, offset, imr, gdtr,
                  idtr, system_ticks, wait_secs, cause, raised, merged>>
  BY DEF ivars, pics, tables, devices
<1>2. pc \in 1..(Len(Kmain) + 1) /\ Len(Kmain) = 13
  BY Lengths DEF IInv, BootTypeOK
<1>3. Handling'
  BY <1>1, <1>2 DEF IInv, Handling
<1>4. Causes' /\ TicksExact'
  BY <1>1 DEF IInv, Causes, Crashed, Unserved, TicksExact
<1>5. InterruptsTypeOK'
  BY <1>1 DEF IInv, BootTypeOK, InterruptsTypeOK
<1>6. QED  BY <1>3, <1>4, <1>5 DEF Interrupted

\* An exception of the main thread: it crashes, whatever is in the tables.
LEMMA Fault ==
  ASSUME IInv, at = "main", NEW v \in 0..31, Deliver(v, v), UNCHANGED pics
  PROVE  /\ Interrupted'
         /\ UNCHANGED <<offset, imr, gdtr, idtr>>
         /\ idtr = {} => at' = "reset"
<1>1. UNCHANGED <<irr, isr, spurious, offset, imr, gdtr, idtr, system_ticks,
                  wait_secs, raised, merged>>
  BY DEF Deliver, pics, tables, devices
<1>2. /\ interrupts' = FALSE /\ cause' = v
      /\ \/ at' = "handle" /\ vector' \in 0..31
         \/ at' = "reset" /\ vector' = vector
      /\ idtr = {} => at' = "reset"
  BY DEF Deliver, Delivered, DoubleFault, GeneralProtection
<1>3. Handling'
  BY <1>2 DEF Handling
<1>4. Causes'
  BY <1>2 DEF Causes, Crashed, Unserved
<1>5. TicksExact'
  BY <1>1, <1>2 DEF IInv, TicksExact
<1>6. InterruptsTypeOK'
  <2>1. InterruptsTypeOK
    BY DEF IInv, BootTypeOK
  <2>2. interrupts' \in BOOLEAN
    BY <1>2, Zenon
  <2>3. /\ at' \in {"handle", "reset"} /\ cause' \in -1..47
        /\ vector' \in 0..31 \/ vector' = vector
    BY <1>2
  <2>4. vector' \in 0..47
    BY <2>1, <2>3 DEF InterruptsTypeOK
  <2>5. QED  BY <1>1, <2>1, <2>2, <2>3, <2>4 DEF InterruptsTypeOK
<1>7. QED  BY <1>1, <1>2, <1>3, <1>4, <1>5, <1>6 DEF Interrupted

-----------------------------------------------------------------------------
(* The steps of kmain.                                                     *)

\* The steps that change neither the PICs nor the tables.
LEMMA PlainInv ==
  ASSUME IInv, HaveFramebuffer \/ ScreenInit \/ FatInit \/ TarInit
  PROVE  IInv'
<1>1. /\ pc \in {1, 2, 9, 10} /\ pc' = pc + 1 /\ UNCHANGED ivars
      /\ UNCHANGED <<write, icw, saved, gates, given>>
      /\ target_fb' \in BOOLEAN /\ tar_start' \in BOOLEAN
  <2>1. BootTypeOK
    BY DEF IInv
  <2>2. pc \in {1, 2, 9, 10} /\ pc' = pc + 1
    BY <2>1, KmainSteps DEF HaveFramebuffer, ScreenInit, FatInit, TarInit, Leave
  <2>3. UNCHANGED ivars /\ UNCHANGED <<write, icw, saved, gates, given>>
    BY DEF HaveFramebuffer, ScreenInit, FatInit, TarInit
  <2>4. target_fb' \in BOOLEAN /\ tar_start' \in BOOLEAN
    <3>1. target_fb \in BOOLEAN /\ tar_start \in BOOLEAN
      BY <2>1 DEF BootTypeOK
    <3>2. \/ target_fb' = target_fb /\ tar_start' = tar_start
          \/ target_fb' = TRUE /\ tar_start' = tar_start
          \/ target_fb' = target_fb /\ tar_start' = (given.modules > 0)
      BY Zenon DEF HaveFramebuffer, ScreenInit, FatInit, TarInit
    <3>3. (given.modules > 0) \in BOOLEAN
      BY <2>1, ResponseAssumption, SMT DEF BootTypeOK, Counts, NULL
    <3>4. QED  BY <3>1, <3>2, <3>3, Zenon
  <2>5. QED  BY <2>2, <2>3, <2>4
<1>2. UNCHANGED <<at, offset, gdtr, idtr>>
  BY <1>1 DEF ivars, tables
<1>3. Interrupted'
  BY <1>1, Quiet
<1>4. BootTypeOK'
  BY <1>1, <1>3, Lengths DEF IInv, BootTypeOK, Interrupted
<1>5. Remapped' /\ Tables'
  BY <1>1, <1>2 DEF IInv, Remapped, Tables
<1>6. QED  BY <1>3, <1>4, <1>5 DEF IInv, Interrupted

\* The segments are loaded, or their load faults.
LEMMA GdtInv ==
  ASSUME IInv, GdtInit
  PROVE  IInv'
<1>1. /\ pc = 3 /\ pc' = 4 /\ at = "main"
      /\ UNCHANGED <<write, icw, saved, gates, target_fb, tar_start, given>>
  BY KmainSteps DEF IInv, GdtInit, Leave, At
<1>2. CASE GdtLoads(gdt)
  <2>1. gdtr' = gdt /\ LongCode(gdt, kernel_cs)
    BY <1>2 DEF GdtInit, GdtLoads, kernel_cs
  <2>2. UNCHANGED <<interrupts, at, vector, irr, isr, spurious, offset, imr, idtr,
                    system_ticks, wait_secs, cause, raised, merged>>
    BY <1>2 DEF GdtInit, pics, devices
  <2>3. Interrupted'
    BY <1>1, <2>2 DEF IInv, Interrupted, BootTypeOK, InterruptsTypeOK, Handling,
                      Causes, Crashed, Unserved, TicksExact
  <2>4. BootTypeOK'
    BY <1>1, <2>3, Lengths DEF IInv, BootTypeOK, Interrupted
  <2>5. Remapped' /\ Tables'
    BY <1>1, <2>1, <2>2 DEF IInv, Remapped, Tables
  <2>6. QED  BY <2>3, <2>4, <2>5 DEF IInv, Interrupted
<1>3. CASE ~GdtLoads(gdt)
  <2>1. /\ Interrupted' /\ UNCHANGED <<offset, imr, gdtr, idtr>>
        /\ at' = "reset"
    BY <1>1, <1>3, Fault DEF IInv, Tables, GdtInit, GeneralProtection
  <2>2. BootTypeOK'
    BY <1>1, <2>1, Lengths DEF IInv, BootTypeOK, Interrupted
  <2>3. Remapped' /\ Tables'
    BY <1>1, <2>1 DEF IInv, Remapped, Tables
  <2>4. QED  BY <2>1, <2>2, <2>3 DEF IInv, Interrupted
<1>4. QED  BY <1>2, <1>3

\* The gates are written, before the table is loaded.
LEMMA GatesInv ==
  ASSUME IInv, IdtSetDescriptors
  PROVE  IInv'
<1>1. /\ pc = 5 /\ pc' = 6 /\ UNCHANGED ivars /\ gates' = Gates
      /\ UNCHANGED <<write, icw, saved, target_fb, tar_start, given>>
  BY KmainSteps DEF IInv, IdtSetDescriptors, Leave, Gates
<1>2. UNCHANGED <<at, offset, gdtr, idtr>>
  BY <1>1 DEF ivars, tables
<1>3. Interrupted'
  BY <1>1, Quiet
<1>4. BootTypeOK'
  BY <1>1, <1>3, Lengths DEF IInv, BootTypeOK, Interrupted, Gates
<1>5. Remapped' /\ Tables'
  BY <1>1, <1>2 DEF IInv, Remapped, Tables
<1>6. QED  BY <1>3, <1>4, <1>5 DEF IInv, Interrupted

LEMMA LoadIdtInv ==
  ASSUME IInv, LoadIdt
  PROVE  IInv'
<1>1. /\ pc = 7 /\ pc' = 8 /\ at = "main" /\ idtr' = gates
      /\ UNCHANGED <<write, icw, saved, gates, target_fb, tar_start, given>>
      /\ UNCHANGED <<interrupts, at, vector, irr, isr, spurious, offset, imr,
                     gdtr, system_ticks, wait_secs, cause, raised, merged>>
  BY KmainSteps DEF IInv, LoadIdt, Leave, At, pics, devices
<1>2. gates = Gates
  BY <1>1 DEF IInv, Tables
<1>3. Interrupted'
  BY <1>1, <1>2 DEF IInv, Interrupted, BootTypeOK, InterruptsTypeOK, Handling,
                    Causes, Crashed, Unserved, TicksExact
<1>4. BootTypeOK'
  BY <1>1, <1>3, Lengths DEF IInv, BootTypeOK, Interrupted
<1>5. Remapped' /\ Tables'
  BY <1>1, <1>2 DEF IInv, Remapped, Tables
<1>6. QED  BY <1>3, <1>4, <1>5 DEF IInv, Interrupted

LEMMA StiInv ==
  ASSUME IInv, Sti
  PROVE  IInv'
<1>1. /\ pc = 11 /\ pc' = 12 /\ at = "main" /\ interrupts' = TRUE
      /\ UNCHANGED <<write, icw, saved, gates, target_fb, tar_start, given>>
      /\ UNCHANGED <<at, vector, irr, isr, spurious, offset, imr,
                     gdtr, idtr, system_ticks, wait_secs, cause, raised, merged>>
  BY KmainSteps DEF IInv, Sti, Leave, At, pics, tables, devices
<1>2. Interrupted'
  <2>1. interrupts' \in BOOLEAN
    BY <1>1, Zenon
  <2>2. QED
    BY <1>1, <2>1 DEF IInv, Interrupted, BootTypeOK, InterruptsTypeOK, Handling,
                      Causes, Crashed, Unserved, TicksExact
<1>3. BootTypeOK'
  BY <1>1, <1>2, Lengths DEF IInv, BootTypeOK, Interrupted
<1>4. Remapped' /\ Tables'
  BY <1>1 DEF IInv, Remapped, Tables
<1>5. QED  BY <1>2, <1>3, <1>4 DEF IInv, Interrupted

\* kprint and tar_get_file work, or fault on a pointer that is not set.
LEMMA DereferenceInv ==
  ASSUME IInv, Kprint \/ Motd
  PROVE  IInv'
<1>1. /\ pc \in {4, 8, 12, 13} /\ pc' = pc + 1 /\ at = "main"
      /\ UNCHANGED <<write, icw, saved, gates, target_fb, tar_start, given>>
      /\ \/ UNCHANGED ivars
         \/ Deliver(PageFault, PageFault) /\ UNCHANGED pics
  BY KmainSteps DEF IInv, Kprint, Motd, Leave, At, Dereference
<1>2. Interrupted' /\ UNCHANGED <<offset, gdtr, idtr>>
      /\ (at' = at \/ at' = "reset" \/ pc > 4)
  <2>1. CASE UNCHANGED ivars
    BY <1>1, <2>1, Quiet DEF ivars, tables
  <2>2. CASE Deliver(PageFault, PageFault) /\ UNCHANGED pics
    BY <1>1, <2>2, Fault DEF IInv, Tables, PageFault
  <2>3. QED  BY <1>1, <2>1, <2>2
<1>3. BootTypeOK'
  BY <1>1, <1>2, Lengths DEF IInv, BootTypeOK, Interrupted
<1>4. Remapped' /\ Tables'
  BY <1>1, <1>2 DEF IInv, Remapped, Tables
<1>5. QED  BY <1>2, <1>3, <1>4 DEF IInv, Interrupted
-----------------------------------------------------------------------------
(* pic_remap.                                                              *)

LEMMA SaveMasksInv ==
  ASSUME IInv, SaveMasks
  PROVE  IInv'
<1>1. /\ pc = 6 /\ pc' = pc /\ UNCHANGED ivars /\ write = 0 /\ write' = 1
      /\ saved' = imr /\ UNCHANGED <<icw, gates, target_fb, tar_start, given>>
  BY KmainSteps DEF IInv, SaveMasks, Leave
<1>2. UNCHANGED <<at, offset, gdtr, idtr>>
  BY <1>1 DEF ivars, tables
<1>3. Interrupted'
  BY <1>1, Quiet
<1>4. BootTypeOK'
  <2>1. InterruptsTypeOK'
    BY <1>3 DEF Interrupted
  <2>2. saved' \in (0..255) \X (0..255)
    BY <1>1 DEF IInv, BootTypeOK, InterruptsTypeOK
  <2>3. QED  BY <1>1, <2>1, <2>2, Lengths DEF IInv, BootTypeOK
<1>5. Waits[1] = Waits[2]
  BY DEF Waits
<1>6. Remapped' /\ Tables'
  BY <1>1, <1>2, <1>5 DEF IInv, Remapped, Tables
<1>7. QED  BY <1>3, <1>4, <1>6 DEF IInv, Interrupted

LEMMA PairUpdate ==
  ASSUME NEW S, NEW pair \in S \X S, NEW k \in {1, 2}, NEW x \in S
  PROVE  /\ [pair EXCEPT ![k] = x] \in S \X S
         /\ [pair EXCEPT ![k] = x][k] = x
         /\ \A j \in {1, 2} \ {k} : [pair EXCEPT ![k] = x][j] = pair[j]
OBVIOUS

\* An initialisation byte more, or less, as Waits says.
LEMMA WaitsMore ==
  ASSUME NEW w \in {1, 2}
  PROVE  [Waits[w + 1] EXCEPT ![Remap[w][1]] = 3] = Waits[w + 2]
<1>1. \/ w = 1 /\ Remap[w][1] = 1 /\ Waits[w + 1] = <<0, 0>> /\ Waits[w + 2] = <<3, 0>>
      \/ w = 2 /\ Remap[w][1] = 2 /\ Waits[w + 1] = <<3, 0>> /\ Waits[w + 2] = <<3, 3>>
  BY DEF Waits, Remap
<1>2. QED  BY <1>1

LEMMA WaitsLess ==
  ASSUME NEW w \in 3..12
  PROVE  [Waits[w + 1] EXCEPT ![Remap[w][1]] = IF @ = 0 THEN 0 ELSE @ - 1] = Waits[w + 2]
<1>1. \/ w = 3 /\ Remap[w][1] = 1 /\ Waits[w + 1] = <<3, 3>> /\ Waits[w + 2] = <<2, 3>>
      \/ w = 4 /\ Remap[w][1] = 2 /\ Waits[w + 1] = <<2, 3>> /\ Waits[w + 2] = <<2, 2>>
      \/ w = 5 /\ Remap[w][1] = 1 /\ Waits[w + 1] = <<2, 2>> /\ Waits[w + 2] = <<1, 2>>
      \/ w = 6 /\ Remap[w][1] = 2 /\ Waits[w + 1] = <<1, 2>> /\ Waits[w + 2] = <<1, 1>>
      \/ w = 7 /\ Remap[w][1] = 1 /\ Waits[w + 1] = <<1, 1>> /\ Waits[w + 2] = <<0, 1>>
      \/ w = 8 /\ Remap[w][1] = 2 /\ Waits[w + 1] = <<0, 1>> /\ Waits[w + 2] = <<0, 0>>
      \/ w = 9 /\ Remap[w][1] = 1 /\ Waits[w + 1] = <<0, 0>> /\ Waits[w + 2] = <<0, 0>>
      \/ w = 10 /\ Remap[w][1] = 2 /\ Waits[w + 1] = <<0, 0>> /\ Waits[w + 2] = <<0, 0>>
      \/ w = 11 /\ Remap[w][1] = 1 /\ Waits[w + 1] = <<0, 0>> /\ Waits[w + 2] = <<0, 0>>
      \/ w = 12 /\ Remap[w][1] = 2 /\ Waits[w + 1] = <<0, 0>> /\ Waits[w + 2] = <<0, 0>>
  BY DEF Waits, Remap
<1>2. QED  BY <1>1

\* The byte after the first one is the offset, and there is one of it.
LEMMA WaitsOffset ==
  /\ Waits[4][1] = 3 /\ \A w \in 4..12 : Waits[w + 1][1] # 3
  /\ Waits[5][2] = 3 /\ \A w \in 5..12 : Waits[w + 1][2] # 3
BY DEF Waits

\* A write of pic_remap, whatever the port: no tick is lost uncounted.
LEMMA OutPicInterrupts ==
  ASSUME IInv, OutPic
  PROVE  Interrupted'
<1>1. /\ pc = 6 /\ pc' \in {6, 7} /\ at = "main" /\ write \in 1..12
      /\ UNCHANGED <<interrupts, at, vector, gdtr, idtr, system_ticks, wait_secs,
                     cause, raised>>
  BY OutPicStep
<1>2. /\ interrupts = FALSE /\ isr = {} /\ merged \in Nat /\ irr \subseteq Lines
      /\ spurious \subseteq {7, 15} /\ offset \in (0..255) \X (0..255)
      /\ imr \in (0..255) \X (0..255) /\ saved \in (0..255) \X (0..255)
  BY <1>1 DEF IInv, Handling, BootTypeOK, InterruptsTypeOK
<1> DEFINE chip == Remap[write][1]
<1>3. chip \in {1, 2}
  BY <1>1, RemapChips
<1>4. CASE Icw1(chip)
  <2> DEFINE own == { l \in 0..15 : Chip(l) = chip }
  <2>1. /\ irr' = irr \ own /\ isr' = isr \ own /\ spurious' = spurious \ own
        /\ imr' = [imr EXCEPT ![chip] = 0] /\ offset' = offset
        /\ merged' = IF 0 \in irr \cap own THEN merged + 1 ELSE merged
    BY <1>4 DEF Icw1
  <2> HIDE DEF own, chip
  <2>2. imr' \in (0..255) \X (0..255)
    BY <1>2, <1>3, <2>1, PairUpdate
  <2>3. InterruptsTypeOK'
    <3>1. irr' \subseteq Lines /\ isr' \subseteq Lines \cup {2}
          /\ spurious' \subseteq {7, 15} /\ offset' \in (0..255) \X (0..255)
      BY <1>2, <2>1
    <3>2. merged' \in Nat
      BY <1>2, <2>1
    <3>3. QED
      BY <1>1, <2>2, <3>1, <3>2 DEF IInv, BootTypeOK, InterruptsTypeOK
  <2>4. Handling' /\ Causes'
    BY <1>1, <1>2, <2>1 DEF IInv, Handling, Causes, Crashed, Unserved
  <2>5. TicksExact'
    <3>1. ASSUME 0 \in Lines
          PROVE  /\ system_ticks = raised[0] - merged - (IF 0 \in irr THEN 1 ELSE 0)
                                  - (IF at = "handle" /\ cause = 32 THEN 1 ELSE 0)
                 /\ raised[0] \in Nat /\ system_ticks \in Nat
      <4>1. TicksExact /\ InterruptsTypeOK
        BY DEF IInv, BootTypeOK
      <4>2. raised[0] \in Nat /\ system_ticks \in Nat
        BY <3>1, <4>1 DEF InterruptsTypeOK
      <4>3. QED  BY <3>1, <4>1, <4>2 DEF TicksExact
    <3>2. ASSUME 0 \in Lines
          PROVE  system_ticks = raised[0] - merged' - (IF 0 \in irr' THEN 1 ELSE 0)
      <4>1. CASE 0 \in own
        BY <1>1, <1>2, <2>1, <3>1, <3>2, <4>1
      <4>2. CASE 0 \notin own
        BY <1>1, <1>2, <2>1, <3>1, <3>2, <4>2
      <4>3. QED  BY <4>1, <4>2
    <3>3. merged' \in Nat
      BY <1>2, <2>1
    <3>4. QED  BY <1>1, <3>1, <3>2, <3>3 DEF TicksExact
  <2>6. QED  BY <2>3, <2>4, <2>5 DEF Interrupted
<1>5. CASE \E byte \in 0..255 : Data(chip, byte)
  <2>1. PICK byte \in 0..255 : Data(chip, byte)
    BY <1>5
  <2> HIDE DEF chip
  <2>2. /\ UNCHANGED <<irr, isr, spurious, merged>>
        /\ offset' = offset \/ offset' = [offset EXCEPT ![chip] = byte]
        /\ imr' = imr \/ imr' = [imr EXCEPT ![chip] = byte]
    BY <2>1 DEF Data, pics
  <2>3. imr' \in (0..255) \X (0..255) /\ offset' \in (0..255) \X (0..255)
    BY <1>2, <1>3, <2>2, PairUpdate
  <2>4. InterruptsTypeOK'
    BY <1>1, <1>2, <2>2, <2>3 DEF IInv, BootTypeOK, InterruptsTypeOK
  <2>5. Handling' /\ Causes' /\ TicksExact'
    BY <1>1, <1>2, <2>2 DEF IInv, Handling, Causes, Crashed, Unserved, TicksExact
  <2>6. QED  BY <2>4, <2>5 DEF Interrupted
<1>6. Icw1(chip) \/ \E byte \in 0..255 : Data(chip, byte)
  <2>1. saved[chip] \in 0..255
    BY <1>2, <1>3
  <2>2. Remap[write][3] = Restored \/ Remap[write][3] \in 0..255
    BY <1>1, RemapBytes
  <2>3. CASE Remap[write][2] = "command"
    BY <2>3, OutPicStep
  <2>4. CASE Remap[write][2] # "command"
    BY <2>1, <2>2, <2>4, OutPicStep
  <2>5. QED  BY <2>3, <2>4
<1>7. QED  BY <1>4, <1>5, <1>6

\* After it each PIC waits for what the next write brings.
LEMMA OutPicRemapped ==
  ASSUME IInv, OutPic
  PROVE  Remapped' /\ icw' \in (0..3) \X (0..3)
<1>1. /\ pc = 6 /\ pc' \in {6, 7} /\ (pc' = 7 => write = 12) /\ write \in 1..12
      /\ write' = write + 1
  BY OutPicStep
<1>2. /\ icw = Waits[write + 1] /\ icw \in (0..3) \X (0..3)
      /\ write > 3 => offset[1] = 32
      /\ write > 4 => offset[2] = 40
      /\ offset \in (0..255) \X (0..255)
  BY DEF IInv, Remapped, BootTypeOK, InterruptsTypeOK
<1> DEFINE chip == Remap[write][1]
<1>3. chip \in {1, 2}
  BY <1>1, RemapChips
<1>4. CASE write \in {1, 2}
  <2>1. icw' = [icw EXCEPT ![chip] = 3]
    BY <1>4, RemapPorts, OutPicStep DEF Icw1
  <2>2. icw' = Waits[write' + 1]
    <3>1. write' + 1 = write + 2
      BY <1>1
    <3>2. [Waits[write + 1] EXCEPT ![chip] = 3] = Waits[write + 2]
      BY <1>4, WaitsMore
    <3>3. QED  BY <1>2, <2>1, <3>1, <3>2
  <2>3. icw' \in (0..3) \X (0..3)
    BY <1>2, <1>3, <2>1, PairUpdate
  <2>4. QED  BY <1>1, <1>4, <2>2, <2>3 DEF Remapped
<1>5. CASE write \in 3..12
  <2> DEFINE byte == IF Remap[write][3] = Restored THEN saved[chip] ELSE Remap[write][3]
  <2>1. Data(chip, byte)
    BY <1>5, RemapPorts, OutPicStep
  <2>2. /\ icw' = [icw EXCEPT ![chip] = IF @ = 0 THEN 0 ELSE @ - 1]
        /\ offset' = IF icw[chip] = 3 THEN [offset EXCEPT ![chip] = byte] ELSE offset
    BY <2>1 DEF Data
  <2>3. icw' = Waits[write' + 1]
    <3>1. write' + 1 = write + 2
      BY <1>1
    <3>2. [Waits[write + 1] EXCEPT ![chip] = IF @ = 0 THEN 0 ELSE @ - 1] = Waits[write + 2]
      BY <1>5, WaitsLess
    <3>3. QED  BY <1>2, <2>2, <3>1, <3>2
  <2>4. icw' \in (0..3) \X (0..3)
    <3>1. (IF icw[chip] = 0 THEN 0 ELSE icw[chip] - 1) \in 0..3
      BY <1>2, <1>3
    <3>2. QED  BY <1>2, <1>3, <2>2, <3>1, PairUpdate
  <2>5. write' > 3 => offset'[1] = 32
    <3>1. CASE write = 3
      <4>1. chip = 1 /\ byte = 32
        BY <3>1, RemapOffsets
      <4>2. icw[chip] = 3
        BY <1>2, <3>1, <4>1, WaitsOffset
      <4>3. offset' = [offset EXCEPT ![1] = 32]
        BY <2>2, <4>1, <4>2
      <4>4. QED  BY <1>2, <4>3
    <3>2. CASE write > 3
      <4>1. icw[1] # 3
        BY <1>1, <1>2, <3>2, WaitsOffset
      <4>2. offset'[1] = offset[1]
        BY <1>2, <1>3, <2>2, <4>1
      <4>3. QED  BY <1>2, <3>2, <4>2
    <3>3. QED  BY <1>5, <3>1, <3>2
  <2>6. write' > 4 => offset'[2] = 40
    <3>1. CASE write = 4
      <4>1. chip = 2 /\ byte = 40
        BY <3>1, RemapOffsets
      <4>2. icw[chip] = 3
        BY <1>2, <3>1, <4>1, WaitsOffset
      <4>3. offset' = [offset EXCEPT ![2] = 40]
        BY <2>2, <4>1, <4>2
      <4>4. QED  BY <1>2, <4>3
    <3>2. CASE write > 4
      <4>1. icw[2] # 3
        BY <1>1, <1>2, <3>2, WaitsOffset
      <4>2. offset'[2] = offset[2]
        BY <1>2, <1>3, <2>2, <4>1
      <4>3. QED  BY <1>2, <3>2, <4>2
    <3>3. QED  BY <1>1, <3>1, <3>2
  <2>7. QED  BY <1>1, <2>3, <2>4, <2>5, <2>6 DEF Remapped
<1>6. QED  BY <1>1, <1>4, <1>5

LEMMA OutPicInv ==
  ASSUME IInv, OutPic
  PROVE  IInv'
<1>1. /\ pc = 6 /\ pc' \in {6, 7} /\ write \in 1..12 /\ write' = write + 1
      /\ UNCHANGED <<at, gdtr, idtr, saved, gates, target_fb, tar_start, given>>
  BY OutPicStep
<1>2. BootTypeOK'
  BY <1>1, OutPicInterrupts, OutPicRemapped, Lengths
     DEF IInv, BootTypeOK, Interrupted
<1>3. Tables'
  BY <1>1 DEF IInv, Tables
<1>4. QED
  BY <1>2, <1>3, OutPicInterrupts, OutPicRemapped DEF IInv, Interrupted
-----------------------------------------------------------------------------
(* The path of an interrupt.                                               *)

\* What the interrupts' side keeps is all there is to show of a step that
\* leaves kmain alone, and the PICs' offsets and the tables with it.
LEMMA KmainWaits ==
  ASSUME IInv, UNCHANGED kmain, UNCHANGED tables, Interrupted',
         at # "reset" \/ at' = "reset"
  PROVE  IInv'
<1>1. UNCHANGED <<pc, write, icw, saved, gates, target_fb, tar_start, given,
                  offset, imr, gdtr, idtr>>
  BY DEF kmain, tables
<1>2. BootTypeOK'
  BY <1>1 DEF IInv, BootTypeOK, Interrupted
<1>3. Remapped' /\ Tables'
  BY <1>1 DEF IInv, Remapped, Tables
<1>4. QED  BY <1>2, <1>3 DEF IInv, Interrupted

\* Once interrupts are on, line l comes by vector 32 + l.
LEMMA LineVector ==
  ASSUME IInv, interrupts, NEW l \in 0..15
  PROVE  offset[Chip(l)] + (l % 8) = 32 + l
<1>1. offset[1] = 32 /\ offset[2] = 40
  <2>1. pc > 11 /\ pc \in Nat /\ write \in Nat
    BY Lengths DEF IInv, Handling, BootTypeOK
  <2>2. write > 12
    BY <2>1 DEF IInv, Remapped
  <2>3. QED  BY <2>1, <2>2 DEF IInv, Remapped
<1>2. CASE l < 8
  BY <1>1, <1>2 DEF Chip
<1>3. CASE l >= 8
  BY <1>1, <1>3 DEF Chip
<1>4. QED  BY <1>2, <1>3

\* The line the CPU takes is the only one in service; without a gate for it
\* the general protection fault comes instead.
LEMMA AcknowledgeInv ==
  ASSUME IInv, Acknowledge, pc' = pc
  PROVE  Interrupted' /\ UNCHANGED tables
<1>1. /\ at = "main" /\ interrupts /\ pc > 11 /\ isr = {}
      /\ LongCode(gdtr, kernel_cs) /\ idtr = Gates
  <2>1. at = "main" /\ interrupts
    BY DEF Acknowledge
  <2>2. pc > 11 /\ isr = {} /\ pc \in Nat
    BY <2>1, Lengths DEF IInv, Handling, BootTypeOK
  <2>3. QED  BY <2>1, <2>2 DEF IInv, Tables
<1>2. PICK l \in 0..15 :
       /\ Deliver(offset[Chip(l)] + (l % 8), 32 + l)
       /\ \/ /\ l \in First(Pending)
             /\ irr' = irr \ {l}
             /\ isr' = isr \cup {l, Master(l)}
             /\ UNCHANGED spurious
          \/ /\ l \in spurious
             /\ spurious' = spurious \ {l}
             /\ isr' = IF l = 15 THEN isr \cup {2} ELSE isr
             /\ UNCHANGED irr
  BY DEF Acknowledge
<1>3. offset[Chip(l)] + (l % 8) = 32 + l
  BY <1>1, LineVector
<1>4. /\ interrupts' = FALSE /\ cause' = 32 + l /\ at' = "handle"
      /\ vector' = IF 32 + l \in Gates THEN 32 + l ELSE 13
      /\ UNCHANGED <<offset, imr, gdtr, idtr, system_ticks, wait_secs, raised, merged>>
  <2>1. 32 + l \notin Escalating
    BY DEF Escalating, PageFault
  <2>2. QED
    BY <1>1, <1>2, <1>3, <2>1
       DEF Deliver, Delivered, GeneralProtection, Gates, tables, devices
<1>5. /\ irr \subseteq Lines /\ spurious \subseteq {7, 15} /\ interrupts' \in BOOLEAN
      /\ vector \in 0..47
  BY <1>4, Zenon DEF IInv, BootTypeOK, InterruptsTypeOK
<1>6. \/ l \in irr /\ l \in Lines /\ irr' = irr \ {l} /\ spurious' = spurious
         /\ isr' = {l, Master(l)}
      \/ l \in {7, 15} /\ irr' = irr /\ spurious' = spurious \ {l}
         /\ isr' \subseteq {2} /\ (l = 7 => isr' = {})
  <2>1. l \in First(Pending) => l \in irr
    BY DEF First, Pending
  <2>2. QED  BY <1>1, <1>2, <1>5, <2>1
<1>7. l # 2 /\ l \in 0..15
  BY <1>6, LineAssumption
<1>8. \/ l \in {0, 1, 7} /\ vector' = 32 + l /\ isr' \subseteq {l}
      \/ l \notin {0, 1, 7} /\ vector' = 13
  <2>1. CASE l \in {0, 1, 7}
    <3>1. Master(l) = l
      BY <2>1 DEF Master
    <3>2. QED  BY <1>4, <1>6, <2>1, <3>1 DEF Gates
  <2>2. CASE l \notin {0, 1, 7}
    BY <1>4, <1>7, <2>2 DEF Gates
  <2>3. QED  BY <2>1, <2>2
<1>9. InterruptsTypeOK'
  <2>1. irr' \subseteq Lines /\ spurious' \subseteq {7, 15}
        /\ isr' \subseteq Lines \cup {2}
    BY <1>5, <1>6 DEF Master
  <2>2. vector' \in 0..47 /\ cause' \in -1..47
    BY <1>4, <1>8
  <2>3. QED
    BY <1>4, <1>5, <2>1, <2>2 DEF IInv, BootTypeOK, InterruptsTypeOK
<1>10. Handling'
  <2>1. vector' >= 32 => vector' \in {32, 33, 39} /\ isr' \subseteq {vector' - 32}
    BY <1>8
  <2>2. QED  BY <1>1, <1>4, <2>1 DEF Handling
<1>11. Causes'
  BY <1>4, <1>7, <1>8 DEF Causes, Crashed, Unserved, Served
<1>12. TicksExact'
  <2>1. cause' = 32 <=> l = 0
    BY <1>4
  <2>2. 0 \in irr' <=> 0 \in irr /\ l # 0
    BY <1>6
  <2>3. l = 0 => 0 \in irr
    BY <1>6
  <2>4. QED
    BY <1>1, <1>4, <2>1, <2>2, <2>3
       DEF IInv, TicksExact, BootTypeOK, InterruptsTypeOK
<1>13. QED  BY <1>4, <1>9, <1>10, <1>11, <1>12 DEF Interrupted, tables

\* interrupt_handler counts the tick that was taken, or crashes.
LEMMA HandleInv ==
  ASSUME IInv, Handle, pc' = pc
  PROVE  Interrupted' /\ UNCHANGED tables
<1>1. /\ at = "handle"
      /\ UNCHANGED <<interrupts, vector, irr, isr, spurious, offset, imr, gdtr,
                     idtr, cause, raised, merged>>
      /\ \/ /\ vector < 32 /\ at' = "rsod" /\ wait_secs' = 15
            /\ system_ticks' = system_ticks
         \/ /\ vector >= 32 /\ at' = "eoi" /\ wait_secs' = wait_secs
            /\ system_ticks' = IF vector = 32 THEN system_ticks + 1 ELSE system_ticks
  BY DEF Handle, pics, tables, devices
<1>2. system_ticks \in Nat /\ wait_secs \in 0..15
  BY DEF IInv, BootTypeOK, InterruptsTypeOK
<1>3. InterruptsTypeOK'
  <2>1. system_ticks' \in Nat /\ wait_secs' \in 0..15
    BY <1>1, <1>2
  <2>2. QED  BY <1>1, <2>1 DEF IInv, BootTypeOK, InterruptsTypeOK
<1>4. Handling'
  BY <1>1 DEF IInv, Handling
<1>5. Causes'
  BY <1>1 DEF IInv, Causes, Crashed, Unserved
<1>6. TicksExact'
  BY <1>1, <1>2 DEF IInv, TicksExact, Causes, BootTypeOK, InterruptsTypeOK
<1>7. QED  BY <1>1, <1>3, <1>4, <1>5, <1>6 DEF Interrupted, tables

\* Its EOI ends the line it has handled, and there is no other.
LEMMA EoiInv ==
  ASSUME IInv, Eoi, pc' = pc
  PROVE  Interrupted' /\ UNCHANGED tables
<1>1. /\ at = "eoi" /\ at' = "iretq"
      /\ UNCHANGED <<interrupts, vector, irr, spurious, offset, imr, gdtr, idtr,
                     system_ticks, wait_secs, cause, raised, merged>>
      /\ isr' \subseteq isr \ First(isr \cap (0..7))
  BY DEF Eoi, tables, devices
<1>2. pc > 11 /\ vector \in {32, 33, 39} /\ isr \subseteq {vector - 32}
  BY <1>1 DEF IInv, Handling
<1>3. isr' = {}
  <2>1. CASE isr = {}
    BY <1>1, <2>1
  <2>2. CASE isr = {vector - 32}
    <3>1. isr \cap (0..7) = isr
      <4>1. vector - 32 \in 0..7
        BY <1>2
      <4>2. QED  BY <2>2, <4>1
    <3>2. First(isr) = isr
      BY <1>2, <2>2 DEF First, Rank
    <3>3. QED  BY <1>1, <3>1, <3>2
  <2>3. QED  BY <1>2, <2>1, <2>2
<1>4. InterruptsTypeOK'
  BY <1>1, <1>3 DEF IInv, BootTypeOK, InterruptsTypeOK
<1>5. Handling' /\ Causes' /\ TicksExact'
  BY <1>1, <1>2, <1>3
     DEF IInv, Handling, Causes, Crashed, Unserved, TicksExact
<1>6. QED  BY <1>1, <1>4, <1>5 DEF Interrupted, tables

LEMMA IretqInv ==
  ASSUME IInv, Iretq, pc' = pc
  PROVE  Interrupted' /\ UNCHANGED tables
<1>1. /\ at = "iretq" /\ at' = "main" /\ interrupts' = TRUE
      /\ UNCHANGED <<vector, irr, isr, spurious, offset, imr, gdtr, idtr,
                     system_ticks, wait_secs, cause, raised, merged>>
  BY DEF Iretq, pics, tables, devices
<1>2. interrupts' \in BOOLEAN
  BY <1>1, Zenon
<1>3. InterruptsTypeOK'
  BY <1>1, <1>2 DEF IInv, BootTypeOK, InterruptsTypeOK
<1>4. Handling' /\ Causes' /\ TicksExact'
  BY <1>1 DEF IInv, Handling, Causes, Crashed, Unserved, TicksExact
<1>5. QED  BY <1>1, <1>3, <1>4 DEF Interrupted, tables

\* The countdown of the crash screen.
LEMMA RsodInv ==
  ASSUME IInv, RsodSleep, pc' = pc
  PROVE  Interrupted' /\ UNCHANGED tables
<1>1. /\ at = "rsod" /\ wait_secs' = wait_secs - 1
      /\ at' = IF wait_secs' <= 0 THEN "reset" ELSE "rsod"
      /\ UNCHANGED <<interrupts, vector, irr, isr, spurious, offset, imr, gdtr,
                     idtr, system_ticks, cause, raised, merged>>
  BY DEF RsodSleep, pics, tables, devices
<1>2. wait_secs \in 1..15
  BY <1>1 DEF IInv, Causes, BootTypeOK, InterruptsTypeOK
<1>3. InterruptsTypeOK'
  BY <1>1, <1>2 DEF IInv, BootTypeOK, InterruptsTypeOK
<1>4. Handling' /\ Causes' /\ TicksExact'
  BY <1>1, <1>2 DEF IInv, Handling, Causes, Crashed, Unserved, TicksExact
<1>5. QED  BY <1>1, <1>3, <1>4 DEF Interrupted, tables

-----------------------------------------------------------------------------
(* The devices, and the main thread's exceptions.                          *)

LEMMA RaiseInv ==
  ASSUME IInv, NEW l \in Lines, Raise(l), pc' = pc
  PROVE  Interrupted' /\ UNCHANGED tables
<1>1. /\ raised[l] < MaxRaises /\ raised' = [raised EXCEPT ![l] = @ + 1]
      /\ irr' = irr \cup {l}
      /\ merged' = IF l = 0 /\ l \in irr THEN merged + 1 ELSE merged
      /\ UNCHANGED <<interrupts, at, vector, isr, spurious, offset, imr, gdtr,
                     idtr, system_ticks, wait_secs, cause>>
  BY DEF Raise, tables
<1>2. raised \in [Lines -> 0..MaxRaises] /\ merged \in Nat /\ system_ticks \in Nat
      /\ irr \subseteq Lines /\ MaxRaises \in Nat
  BY LineAssumption DEF IInv, BootTypeOK, InterruptsTypeOK
<1>3. raised' \in [Lines -> 0..MaxRaises] /\ merged' \in Nat /\ irr' \subseteq Lines
  BY <1>1, <1>2
<1>4. InterruptsTypeOK'
  BY <1>1, <1>3 DEF IInv, BootTypeOK, InterruptsTypeOK
<1>5. Handling' /\ Causes'
  BY <1>1 DEF IInv, Handling, Causes, Crashed, Unserved
<1>6. TicksExact'
  <2>1. CASE l = 0
    BY <1>1, <1>2, <2>1 DEF IInv, TicksExact
  <2>2. CASE l # 0
    BY <1>1, <1>2, <2>2 DEF IInv, TicksExact
  <2>3. QED  BY <2>1, <2>2
<1>7. QED  BY <1>1, <1>4, <1>5, <1>6 DEF Interrupted, tables

LEMMA WithdrawInv ==
  ASSUME IInv, NEW l \in Lines, Withdraw(l), pc' = pc
  PROVE  Interrupted' /\ UNCHANGED tables
<1>1. /\ l # 0 /\ irr' = irr \ {l}
      /\ spurious' \subseteq spurious \cup {8 * Chip(l) - 1}
      /\ UNCHANGED <<interrupts, at, vector, isr, offset, imr, gdtr, idtr,
                     system_ticks, wait_secs, cause, raised, merged>>
  BY DEF Withdraw, tables, devices
<1>2. 8 * Chip(l) - 1 \in {7, 15}
  <2>1. l \in 0..15
    BY LineAssumption
  <2>2. QED  BY <2>1 DEF Chip
<1>3. InterruptsTypeOK'
  BY <1>1, <1>2 DEF IInv, BootTypeOK, InterruptsTypeOK
<1>4. Handling' /\ Causes' /\ TicksExact'
  BY <1>1 DEF IInv, Handling, Causes, Crashed, Unserved, TicksExact
<1>5. QED  BY <1>1, <1>3, <1>4 DEF Interrupted, tables

LEMMA ExceptionInv ==
  ASSUME IInv, NEW v \in Exceptions, Exception(v)
  PROVE  Interrupted' /\ UNCHANGED tables
<1>1. at = "main" /\ v \in 0..31 /\ Deliver(v, v) /\ UNCHANGED pics
  BY ExceptionAssumption DEF Exception
<1>2. QED  BY <1>1, Fault DEF Deliver
-----------------------------------------------------------------------------
(* The theorems.                                                           *)

LEMMA InvInit ==
  ASSUME Init
  PROVE  IInv
<1>1. /\ interrupts = FALSE /\ at = "main" /\ vector = 0 /\ cause = -1
      /\ irr = {} /\ isr = {} /\ spurious = {} /\ idtr = {}
      /\ offset = <<8, 112>> /\ imr \in FirmwareMasks
      /\ system_ticks = 0 /\ wait_secs = 0
      /\ raised = [l \in Lines |-> 0] /\ merged = 0
  BY DEF Init, NULL
<1>2. /\ pc = 1 /\ write = 0 /\ icw = <<0, 0>> /\ saved = <<0, 0>>
      /\ gates = {} /\ target_fb = FALSE /\ tar_start = FALSE
      /\ given \in Responses
  BY DEF Init
<1>3. interrupts \in BOOLEAN /\ target_fb \in BOOLEAN /\ tar_start \in BOOLEAN
  BY <1>1, <1>2, Zenon
<1>4. raised \in [Lines -> 0..MaxRaises] /\ imr \in (0..255) \X (0..255)
  BY <1>1, LineAssumption, MaskAssumption
<1>5. InterruptsTypeOK
  BY <1>1, <1>3, <1>4 DEF InterruptsTypeOK
<1>6. BootTypeOK
  BY <1>2, <1>3, <1>5, Lengths DEF BootTypeOK
<1>7. Remapped /\ Tables
  BY <1>1, <1>2 DEF Remapped, Waits, Tables
<1>8. Handling /\ Causes
  BY <1>1 DEF Handling, Causes, Crashed
<1>9. TicksExact
  BY <1>1 DEF TicksExact
<1>10. QED  BY <1>6, <1>7, <1>8, <1>9 DEF IInv

\* What kmain has set up, and what is in service while an interrupt is on its
\* way: the invariant that the theorems below rest on.
THEOREM Invariant == Spec => []IInv
<1>1. Init => IInv
  BY InvInit
<1>2. IInv /\ [Next]_vars => IInv'
  <2> SUFFICES ASSUME IInv, [Next]_vars PROVE IInv'
    OBVIOUS
  <2>1. CASE KmainStep
    BY <2>1, PlainInv, GdtInv, GatesInv, SaveMasksInv, OutPicInv, LoadIdtInv,
       StiInv, DereferenceInv DEF KmainStep
  <2>2. CASE Processor /\ UNCHANGED kmain
    <3>1. pc' = pc
      BY <2>2 DEF kmain
    <3>2. Interrupted' /\ UNCHANGED tables
      BY <2>2, <3>1, AcknowledgeInv, HandleInv, EoiInv, IretqInv, RsodInv
         DEF Processor
    <3>3. at # "reset"
      BY <2>2 DEF Processor, Acknowledge, Handle, Eoi, Iretq, RsodSleep
    <3>4. QED  BY <2>2, <3>2, <3>3, KmainWaits
  <2>3. CASE Devices /\ UNCHANGED kmain
    <3>1. pc' = pc
      BY <2>3 DEF kmain
    <3>2. Interrupted' /\ UNCHANGED tables
      BY <2>3, <3>1, RaiseInv, WithdrawInv, ExceptionInv DEF Devices
    <3>3. at # "reset"
      BY <2>3 DEF Devices, Raise, Withdraw, Crashed, Exception
    <3>4. QED  BY <2>3, <3>2, <3>3, KmainWaits
  <2>4. CASE UNCHANGED vars
    <3>1. UNCHANGED ivars /\ UNCHANGED kmain /\ pc' = pc /\ at' = at /\ UNCHANGED tables
      BY <2>4 DEF vars, kmain, ivars
    <3>2. Interrupted'
      BY <3>1, Quiet
    <3>3. QED  BY <3>1, <3>2, KmainWaits
  <2>5. QED  BY <2>1, <2>2, <2>3, <2>4 DEF Next, Cpu
<1>3. QED  BY <1>1, <1>2, PTL DEF Spec

\* Type correctness of kmain's state and of the interrupts'.
THEOREM TypeCorrect == Spec => []BootTypeOK
<1>1. IInv => BootTypeOK
  BY DEF IInv
<1>2. QED  BY <1>1, Invariant, PTL

\* No path through interrupt_handler leaves a line in service when it turns
\* interrupts on again, whatever lines rise, fall and come at once.
THEOREM NoLineBlocked == Spec => []NothingBlocked
<1>1. IInv => NothingBlocked
  BY DEF IInv, Handling, NothingBlocked
<1>2. QED  BY <1>1, Invariant, PTL

\* The unspecific EOI of interrupt_handler never ends another line.
THEOREM EoiOwn == Spec => []EoiEndsItsOwn
<1>1. IInv => EoiEndsItsOwn
  BY DEF IInv, Handling, EoiEndsItsOwn
<1>2. QED  BY <1>1, Invariant, PTL

\* system_ticks counts each tick of the timer once.
THEOREM TicksCounted == Spec => []TicksExact
<1>1. IInv => TicksExact
  BY DEF IInv
<1>2. QED  BY <1>1, Invariant, PTL

\* Only an exception, or a line that has no gate, ends in the crash screen or
\* in a reset: the order of kmain keeps every tick and every key away from
\* the firmware's vectors and from tables that are not there.
THEOREM OnlyExceptionsCrash == Spec => []CrashMeansException
<1>1. IInv => CrashMeansException
  BY DEF IInv, Causes, Unserved, CrashMeansException
<1>2. QED  BY <1>1, Invariant, PTL
=============================================================================
