-------------------------------- MODULE Boot --------------------------------
(***************************************************************************)
(* kmain (kernel/kernel.c) with what it calls of gdt.c and idt.c, one      *)
(* action per step and one per port write of pic_remap, composed with the  *)
(* interrupts: lines rise and exceptions happen at any point of it.        *)
(*                                                                         *)
(* kmain starts with interrupts off and the boot loader's tables, the PICs *)
(* as the firmware programmed them.  A PIC is external: ICW1 starts its    *)
(* initialisation, clears its masks and its latches, and takes the three   *)
(* next bytes on the data port for its offset, its wiring and its mode; any*)
(* other byte there is the mask.                                           *)
(*                                                                         *)
(* Steps that touch nothing of this are left to their modules: timer_init  *)
(* to Timer, keyboard_init to KeyboardController, the walk of tar_get_file *)
(* to Tar; of fat_init (Ata, Fat) there is only the wait for the drive.    *)
(***************************************************************************)
EXTENDS Interrupts

CONSTANTS
  FirmwareMasks,  \* the mask bytes the PICs may be left with
  Responses       \* the numbers of framebuffers and of modules, or NULL, and
                  \* whether the drive answers

NULL == -1
Counts == {NULL} \cup Nat
ASSUME ResponseAssumption ==
  Responses \subseteq [framebuffers : Counts, modules : Counts, drive : BOOLEAN]
ASSUME MaskAssumption == FirmwareMasks \subseteq (0..255) \X (0..255)

VARIABLES
  pc,         \* the step of kmain that is next, an index of Kmain
  write,      \* the port write of pic_remap that is next
  icw,        \* how many initialisation bytes each PIC waits for
  saved,      \* a1 and a2
  gates,      \* the vectors that have a gate in idt[]
  target_fb,  \* whether screen_init was called
  tar_start,  \* whether tar_init was called
  given       \* the boot loader's responses, and the drive

kmain == <<pc, write, icw, saved, gates, target_fb, tar_start, given>>
vars == <<ivars, kmain>>

\* sti before the tables and the PICs are set.
KmainStiFirst ==
  <<"framebuffer", "screen", "gdt_init", "kprint", "sti", "gates", "pic_remap",
    "load_idt", "kprint", "fat_init", "module", "kprint", "motd">>
\* The file is looked for before the archive's place is known.
KmainMotdFirst ==
  <<"framebuffer", "screen", "gdt_init", "kprint", "gates", "pic_remap",
    "load_idt", "kprint", "fat_init", "motd", "module", "sti", "kprint">>
\* The order of kmain, with the bodies of gdt_init and idt_init.
Kmain ==
  <<"framebuffer", "screen", "gdt_init", "kprint", "gates", "pic_remap",
    "load_idt", "kprint", "fat_init", "module", "sti", "kprint", "motd">>

InShell == pc > Len(Kmain)
At(step) == at = "main" /\ ~InShell /\ Kmain[pc] = step
Leave(step) == At(step) /\ pc' = pc + 1

-----------------------------------------------------------------------------
(* The steps of kmain.                                                     *)

\* Without a framebuffer kmain halts here for ever, interrupts off.
HaveFramebuffer == /\ Leave("framebuffer")
                   /\ given.framebuffers >= 1
                   /\ UNCHANGED <<ivars, write, icw, saved, gates, target_fb,
                                  tar_start, given>>

\* screen_init(fb); clear(0x000000);
ScreenInit == /\ Leave("screen")
              /\ target_fb' = TRUE
              /\ UNCHANGED <<ivars, write, icw, saved, gates, tar_start, given>>

Descriptor(access, granularity) == [access |-> access, granularity |-> granularity]
gdt == <<Descriptor(0, 0), Descriptor(154, 32), Descriptor(146, 0)>>

\* gdt_load returns through selector 0x08 and puts 0x10 in the other segment
\* registers: both must select what they should.
Writable(table, selector) ==
  LET d == table[selector \div 8 + 1]
  IN  Bit(d.access, 7) = 1 /\ Bit(d.access, 3) = 0 /\ Bit(d.access, 1) = 1
GdtLoads(table) == LongCode(table, 8) /\ Writable(table, 16)

GdtInit == /\ Leave("gdt_init")
           /\ IF GdtLoads(gdt)
              THEN gdtr' = gdt /\ UNCHANGED <<interrupts, at, vector, pics, offset,
                                              imr, idtr, system_ticks, wait_secs,
                                              cause, devices>>
              ELSE Deliver(GeneralProtection, GeneralProtection) /\ UNCHANGED pics
           /\ UNCHANGED <<write, icw, saved, gates, target_fb, tar_start, given>>

\* The calls of idt_set_descriptor.
IdtSetDescriptors == /\ Leave("gates")
                     /\ gates' = {0, 1, 8, 13, 14, 32, 33, 39}
                     /\ UNCHANGED <<ivars, write, icw, saved, target_fb,
                                    tar_start, given>>

LoadIdt == /\ Leave("load_idt")
           /\ idtr' = gates
           /\ UNCHANGED <<interrupts, at, vector, pics, offset, imr, gdtr,
                          system_ticks, wait_secs, cause, devices, write, icw,
                          saved, gates, target_fb, tar_start, given>>

FatInit == /\ Leave("fat_init")
           /\ given.drive
           /\ UNCHANGED <<ivars, write, icw, saved, gates, target_fb, tar_start,
                          given>>

\* tar_init with the first module, if there is one.
TarInit == /\ Leave("module")
           /\ tar_start' = (given.modules > 0)
           /\ UNCHANGED <<ivars, write, icw, saved, gates, target_fb, given>>

Sti == /\ Leave("sti")
       /\ interrupts' = TRUE
       /\ UNCHANGED <<at, vector, pics, tables, system_ticks, wait_secs, cause,
                      devices, write, icw, saved, gates, target_fb, tar_start,
                      given>>

\* kprint writes through target_fb, tar_get_file reads through tar_start.
Dereference(pointer) ==
  /\ IF pointer THEN UNCHANGED ivars
     ELSE Deliver(PageFault, PageFault) /\ UNCHANGED pics
  /\ UNCHANGED <<write, icw, saved, gates, target_fb, tar_start, given>>

Kprint == Leave("kprint") /\ Dereference(target_fb)

\* The file is printed; kernel_shell is next.
Motd == Leave("motd") /\ Dereference(tar_start)

-----------------------------------------------------------------------------
(* pic_remap.                                                              *)

Restored == -1  \* stands for a1 or a2

\* The outb calls: the PIC, its port, the byte.
Remap == << <<1, "command", 17>>, <<2, "command", 17>>,
            <<1, "data", 32>>, <<2, "data", 40>>,
            <<1, "data", 4>>,  <<2, "data", 2>>,
            <<1, "data", 1>>,  <<2, "data", 1>>,
            <<1, "data", Restored>>, <<2, "data", Restored>>,
            <<1, "data", 0>>,  <<2, "data", 0>> >>

\* a1 = inb(0x21); a2 = inb(0xA1);
SaveMasks == /\ At("pic_remap") /\ write = 0
             /\ write' = 1 /\ saved' = imr
             /\ UNCHANGED <<ivars, pc, icw, gates, target_fb, tar_start, given>>

Icw1(chip) ==
  LET own == { l \in 0..15 : Chip(l) = chip }
  IN  /\ icw' = [icw EXCEPT ![chip] = 3]
      /\ imr' = [imr EXCEPT ![chip] = 0]
      /\ irr' = irr \ own /\ isr' = isr \ own /\ spurious' = spurious \ own
      /\ merged' = IF 0 \in irr \cap own THEN merged + 1 ELSE merged
      /\ UNCHANGED offset

Data(chip, byte) ==
  /\ icw' = [icw EXCEPT ![chip] = IF @ = 0 THEN 0 ELSE @ - 1]
  /\ offset' = IF icw[chip] = 3 THEN [offset EXCEPT ![chip] = byte] ELSE offset
  /\ imr' = IF icw[chip] = 0 THEN [imr EXCEPT ![chip] = byte] ELSE imr
  /\ UNCHANGED <<pics, merged>>

OutPic ==
  /\ At("pic_remap") /\ write \in DOMAIN Remap
  /\ write' = write + 1
  /\ pc' = IF write = Len(Remap) THEN pc + 1 ELSE pc
  /\ LET chip == Remap[write][1]
         byte == Remap[write][3]
     IN  IF Remap[write][2] = "command" THEN Icw1(chip)
         ELSE Data(chip, IF byte = Restored THEN saved[chip] ELSE byte)
  /\ UNCHANGED <<interrupts, at, vector, gdtr, idtr, system_ticks, wait_secs,
                 cause, raised, saved, gates, target_fb, tar_start, given>>

-----------------------------------------------------------------------------
\* The boot loader's own table: under kernel_cs it has a 16-bit segment.
Init == /\ interrupts = FALSE /\ at = "main" /\ vector = 0 /\ cause = NULL
        /\ irr = {} /\ isr = {} /\ spurious = {}
        /\ offset = <<8, 112>> /\ imr \in FirmwareMasks
        /\ gdtr = <<Descriptor(0, 0), Descriptor(154, 0), Descriptor(146, 0)>>
        /\ idtr = {}
        /\ system_ticks = 0 /\ wait_secs = 0
        /\ raised = [l \in Lines |-> 0] /\ merged = 0
        /\ pc = 1 /\ write = 0 /\ icw = <<0, 0>> /\ saved = <<0, 0>>
        /\ gates = {} /\ target_fb = FALSE /\ tar_start = FALSE
        /\ given \in Responses

KmainStep == \/ HaveFramebuffer \/ ScreenInit \/ GdtInit \/ IdtSetDescriptors
             \/ SaveMasks \/ OutPic \/ LoadIdt
             \/ FatInit \/ TarInit \/ Sti \/ Kprint \/ Motd

Cpu == KmainStep \/ (Processor /\ UNCHANGED kmain)

Next == Cpu \/ (Devices /\ UNCHANGED kmain)

Spec == Init /\ [][Next]_vars

\* The CPU never stops executing; devices and faults are not obliged to come.
FairSpec == Spec /\ WF_vars(Cpu)

-----------------------------------------------------------------------------
BootTypeOK ==
  /\ InterruptsTypeOK
  /\ pc \in 1..(Len(Kmain) + 1) /\ write \in 0..(Len(Remap) + 1)
  /\ icw \in (0..3) \X (0..3) /\ saved \in (0..255) \X (0..255)
  /\ gates \subseteq 0..255 /\ target_fb \in BOOLEAN /\ tar_start \in BOOLEAN
  /\ given \in Responses

\* The lines for which there is a gate: the timer's, the keyboard's, and the
\* one a spurious interrupt comes by.
Served == {0, 1, 7}

\* The machine crashes, or is reset, only after an exception or an interrupt
\* of a line that has no gate: no timer tick and no key, whenever it comes, is
\* taken for an exception by the vectors of the firmware or finds no tables.
CrashMeansException ==
  Crashed => cause < 32 \/ cause - 32 \notin Served

\* kmain stands still where it waits for what never comes.
Stuck == \/ At("framebuffer") /\ given.framebuffers < 1
         \/ At("fat_init") /\ ~given.drive

\* Every line that is latched is served or, before the PICs are set, dropped,
\* unless the machine stops.
LinesServed ==
  \A l \in Lines : l \in irr ~> (l \notin irr \/ at = "reset" \/ Stuck)

\* kmain comes to the shell, whatever interrupts come on the way, if there is
\* a framebuffer, a module and a drive, and no exception.
Hindered == \/ given.framebuffers < 1 \/ given.modules < 1 \/ ~given.drive
            \/ cause \in Exceptions
            \/ cause >= 32 /\ cause - 32 \notin Served
BootsToShell == <>(InShell \/ Hindered)
=============================================================================
