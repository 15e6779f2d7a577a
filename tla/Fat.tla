-------------------------------- MODULE Fat --------------------------------
(***************************************************************************)
(* kernel/drivers/fat.c with the commands ls and cat of kernel/shell.c: the*)
(* first sector of the root directory of a FAT12/16 disk, and the first    *)
(* sector of a file.                                                       *)
(*                                                                         *)
(* A sector that ata_read_sector returns is what the FAT layout puts there *)
(* (SectorAt, external, built region by region); how the driver gets it is *)
(* in Ata.  A sector is the 512 bytes that ATA reads, so disks are those   *)
(* whose BPB says 512 (the code takes the BPB's own numbers for ATA sector *)
(* numbers).  Names are tuples of characters, as on the disk.  The sizes   *)
(* of a name and of a directory sector are constants; the numbers of the   *)
(* BPB are the real ones.  Colours are left out.                           *)
(***************************************************************************)
EXTENDS Integers, Sequences, Functions

CONSTANTS
  BaseLen, ExtLen,  \* 8 and 3
  Slots,            \* directory entries in a sector: 16
  Capital,          \* 'a'..'z' to 'A'..'Z'
  High,             \* the characters from 0x80 on
  Disks,            \* [bpb, root], root being the whole root directory
  Args              \* what the user may give to cat

ASSUME NameAssumption == BaseLen \in Nat \ {0} /\ ExtLen \in Nat \ {0}
ASSUME SlotAssumption == Slots \in Nat \ {0}

VARIABLES
  disk,         \* the disk in the drive
  boot_sector,  \* the copy fat_init makes
  shown,        \* what the last ls printed, a name a line
  args,         \* the argument of the last cat
  answer        \* what that cat did

vars == <<disk, boot_sector, shown, args, answer>>

Dot == "."
Blank == " "
NUL == "nul"      \* name[0] of a slot never used
DELETED == "xE5"  \* name[0] of a deleted file
NameLen == BaseLen + ExtLen
Zeroed == [ bytes_per_sector |-> 0, sectors_per_cluster |-> 0,
            reserved_sectors |-> 0, fat_count |-> 0, root_entries |-> 0,
            sectors_per_fat |-> 0 ]

\* What fat_format_name makes of a letter.
Up(ch) == IF ch \in DOMAIN Capital THEN Capital[ch] ELSE ch

\* Only letters have capitals, and only characters are typed.
ASSUME CapitalAssumption ==
  {NUL, Dot, Blank} \cap (DOMAIN Capital \cup Range(Capital)) = {}
ASSUME HighAssumption == DELETED \in High
ASSUME ArgsAssumption == \A s \in Args : s \in Seq(Range(s)) /\ NUL \notin Range(s)

\* A disk as the FAT standard has it, with the sectors ATA has.  External.
\* Clusters hold a sector at least, and the root directory an entry.
Bpbs == [ bytes_per_sector : {512}, sectors_per_cluster : Nat \ {0},
          reserved_sectors : Nat \ {0}, fat_count : Nat,
          root_entries : Nat \ {0}, sectors_per_fat : Nat ]

\* A short name is in capitals, save a label's (and the pieces of long names,
\* which have its attribute), of which nothing is asked but that they have no
\* cluster; clusters are numbered from 2.
IsEntry(e) ==
  /\ e.name \in Seq(Range(e.name)) /\ Len(e.name) = NameLen
  /\ e.cluster \in Nat \ {1}
  /\ IF e.attr = "label" THEN e.cluster = 0
     ELSE \A ch \in Range(e.name) : ch # Dot /\ Up(ch) = ch

\* The slots that were never used come last.
IsRoot(r) ==
  /\ r \in Seq(Range(r)) /\ Len(r) >= Slots
  /\ \A k \in 1..Len(r) :
       IsEntry(r[k]) /\ \A j \in 1..k : r[j].name[1] = NUL => r[k].name[1] = NUL

ASSUME DiskAssumption == \A d \in Disks : d.bpb \in Bpbs /\ IsRoot(d.root)

-----------------------------------------------------------------------------
(* The disk, as the FAT standard lays it out.  External.                   *)

\* The sectors the root directory takes: enough for all its entries.
RootSectors(b) == CHOOSE n \in 0..b.root_entries :
                    /\ n * b.bytes_per_sector >= b.root_entries * 32
                    /\ (n - 1) * b.bytes_per_sector < b.root_entries * 32

\* The sizes of the regions before the data, in the order they come.
Regions(b) == <<b.reserved_sectors>>
              \o [k \in 1..b.fat_count |-> b.sectors_per_fat]
              \o <<RootSectors(b)>>
After(b, n) ==
  LET size == Regions(b)
      end[k \in 0..n] == IF k = 0 THEN 0 ELSE end[k - 1] + size[k]
  IN  end[n]

SectorAt(lba) ==
  LET b    == disk.bpb
      root == After(b, 1 + b.fat_count)
      data == After(b, 2 + b.fat_count)
  IN  CASE lba = 0    -> <<"boot", b>>
        [] lba = root -> <<"root", SubSeq(disk.root, 1, Slots)>>
        [] lba >= data ->
             <<"data", (lba - data) \div b.sectors_per_cluster + 2,
               (lba - data) % b.sectors_per_cluster>>
        [] OTHER -> <<"other">>

-----------------------------------------------------------------------------
(* fat.c                                                                   *)

FirstDot(s) == CHOOSE k \in 1..(Len(s) + 1) :
                 /\ k <= Len(s) => s[k] = Dot
                 /\ \A j \in 1..(k - 1) : s[j] # Dot

\* A base that is copied up to BaseLen characters, the dot included.
FormatThroughDot(s) ==
  [ k \in 1..NameLen |->
      LET from == IF k <= BaseLen THEN k ELSE FirstDot(s) + k - BaseLen
      IN  IF from <= Len(s) THEN Up(s[from]) ELSE Blank ]

\* The base stops at the dot or after BaseLen characters, the extension is
\* what follows the first dot.
fat_format_name(s) ==
  [ k \in 1..NameLen |->
      LET from == IF k <= BaseLen THEN k ELSE FirstDot(s) + k - BaseLen
      IN  IF from <= Len(s) /\ (k <= BaseLen => from < FirstDot(s))
          THEN Up(s[from]) ELSE Blank ]

\* A byte on the disk is unsigned and a char that was typed is signed: from
\* 0x80 on they differ even if they are the same character.
fat_name_match(name, search) ==
  \A k \in 1..NameLen : name[k] = search[k] /\ search[k] \notin High

RootLba(b) == b.reserved_sectors + b.fat_count * b.sectors_per_fat

\* The entries in the sector read as the root directory; a sector that is
\* none has no entry that could match a name.
Entries(lba) == IF SectorAt(lba)[1] = "root" THEN SectorAt(lba)[2] ELSE <<>>

\* The slots that ls prints: up to the first unused one, no label.
Listed(entries) ==
  { k \in DOMAIN entries :
      /\ \A j \in 1..k : entries[j].name[1] # NUL
      /\ entries[k].name[1] # DELETED
      /\ entries[k].attr # "label" }

\* BaseLen characters, a dot, ExtLen characters.
Printed(name) == SubSeq(name, 1, BaseLen) \o <<Dot>>
                 \o SubSeq(name, BaseLen + 1, NameLen)

\* The slot fat_find_file stops at: the first that matches, of all of them.
Matching(entries, search) ==
  { k \in DOMAIN entries :
      /\ fat_name_match(entries[k].name, search)
      /\ \A j \in 1..(k - 1) : ~fat_name_match(entries[j].name, search) }

\* The size of the root directory rounded down.
FirstDataRoundedDown(b) ==
  RootLba(b) + (b.root_entries * 32) \div b.bytes_per_sector

FirstDataSector(b) ==
  RootLba(b) + (b.root_entries * 32 + (b.bytes_per_sector - 1))
                 \div b.bytes_per_sector

FileLba(b, cluster) ==
  (cluster - 2) * b.sectors_per_cluster + FirstDataSector(b)

-----------------------------------------------------------------------------
(* kmain's fat_init, and the commands.                                     *)

fat_init == /\ boot_sector = Zeroed
            /\ boot_sector' = SectorAt(0)[2]
            /\ UNCHANGED <<disk, shown, args, answer>>

cmd_ls ==
  /\ boot_sector # Zeroed
  /\ LET entries == Entries(RootLba(boot_sector))
     IN  shown' = { Printed(entries[k].name) : k \in Listed(entries) }
  /\ UNCHANGED <<disk, boot_sector, args, answer>>

\* Only a cluster that is not 0 counts as found.
cmd_cat(s) ==
  LET entries == Entries(RootLba(boot_sector))
      found   == { k \in Matching(entries, fat_format_name(s)) :
                     entries[k].cluster # 0 }
  IN  /\ boot_sector # Zeroed
      /\ args' = s
      /\ \/ s = <<>> /\ answer' = [kind |-> "usage"]
         \/ /\ s # <<>> /\ found = {}
            /\ answer' = [kind |-> "not found"]
         \/ /\ s # <<>>
            /\ \E k \in found :
                 answer' = [ kind |-> "file", size |-> entries[k].size,
                             sector |-> SectorAt(FileLba(boot_sector,
                                                         entries[k].cluster)) ]
      /\ UNCHANGED <<disk, boot_sector, shown>>

Init == /\ disk \in Disks
        /\ boot_sector = Zeroed
        /\ shown = {} /\ args = <<>> /\ answer = [kind |-> "none"]

Next == fat_init \/ cmd_ls \/ \E s \in Args : cmd_cat(s)

Spec == Init /\ [][Next]_vars

-----------------------------------------------------------------------------
\* The slots of the files that ls lists.
Visible == Listed(SubSeq(disk.root, 1, Slots))

\* The ways to type a name that ls printed: as it stands, or without the
\* blanks at the end of either part, in capitals or not.
Trim(part) == { SubSeq(part, 1, n) : n \in
                  { n \in 0..Len(part) :
                      \A k \in (n + 1)..Len(part) : part[k] = Blank } }
Typings(line) ==
  { base \o <<Dot>> \o ext : base \in Trim(SubSeq(line, 1, BaseLen)),
                             ext \in Trim(SubSeq(line, BaseLen + 2, NameLen + 1)) }
SameLetters(s, t) == /\ Len(s) = Len(t)
                     /\ \A k \in DOMAIN s : Up(s[k]) = Up(t[k])

\* A file that ls lists and that has data is read by cat, whichever way its
\* name is typed, unless an earlier slot, a label say, has the same name or
\* the name has a character from 0x80 on, which ls shows and cat cannot match.
\* What is shown starts with the first sector of that file's first cluster.
ListedIsReadable ==
  answer.kind \in {"file", "not found"} =>
    \A k \in Visible :
      LET e == disk.root[k]
      IN  /\ Printed(e.name) \in shown
          /\ \E t \in Typings(Printed(e.name)) : SameLetters(args, t)
          /\ e.cluster # 0 /\ Range(e.name) \cap High = {}
          /\ \A j \in 1..(k - 1) : disk.root[j].name # e.name
          => answer = [ kind |-> "file", size |-> e.size,
                        sector |-> <<"data", e.cluster, 0>> ]

\* Whatever is typed, cat reads nothing but the first sector of a file that
\* ls lists: no part of the FAT, of the directory, of another file, and no
\* deleted file (not even one whose first character, 0xE5, is typed).
CatReadsListed ==
  answer.kind = "file" =>
    \E k \in Visible :
      /\ answer.size = disk.root[k].size
      /\ answer.sector = <<"data", disk.root[k].cluster, 0>>

\* "File not found on A: drive." (shell.c): no file that ls lists has the
\* name that was typed.
NotFoundMeansAbsent ==
  answer.kind = "not found" =>
    ~\E k \in Visible :
      \E t \in Typings(Printed(disk.root[k].name)) : SameLetters(args, t)
=============================================================================
