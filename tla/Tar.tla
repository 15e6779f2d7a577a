-------------------------------- MODULE Tar --------------------------------
(***************************************************************************)
(* tar_get_file of kernel/drivers/tar.c, one step per header it visits, on *)
(* the archive the boot loader leaves in memory.                           *)
(*                                                                         *)
(* The archive is external: every file as a header and as many blocks as   *)
(* its size takes, then two blocks of zeros (GNU tar).  A block of a file  *)
(* may look like anything, a header included: the walk must never take it  *)
(* for one.  A name is a sequence of parts, "./" being one; a size is a    *)
(* field of octal digits, ended by a byte that is none.                    *)
(***************************************************************************)
EXTENDS Integers, Sequences, Functions

CONSTANTS
  Block,     \* 512
  Digits,    \* 11, of the field for a size
  Limit,     \* 10 MiB: the walk stops further from the start than this
  Archives,  \* sequences of files [name, size, looks], looks a block
  Names      \* the names asked for

ASSUME SizeAssumption ==
  Block \in Nat \ {0} /\ Digits \in Nat /\ Limit \in Nat

VARIABLES
  files,     \* history: the files of the archive in memory
  memory,    \* the archive, from tar_start on
  walking,   \* whether tar_get_file is running
  filename,  \* its last argument
  header,    \* the block where "header" points, counted from tar_start
  result     \* what the last call returned

vars == <<files, memory, walking, filename, header, result>>

NULL == [found |-> FALSE]

-----------------------------------------------------------------------------
(* The archive.  External.                                                 *)

\* The field for a size, digit after digit from the last one on, and the byte
\* after its digits (NUL or a space).
End == 8
Left(size) ==
  LET left[n \in 0..Digits] == IF n = 0 THEN size ELSE left[n - 1] \div 8
  IN  left
Octal(size) == Append([k \in 1..Digits |-> Left(size)[Digits - k] % 8], End)
Header(name, size) == [name |-> name, size |-> Octal(size)]
Zeros == [name |-> <<>>, size |-> <<End>>]

Blocks(size) == CHOOSE n \in 0..size : n * Block >= size /\ (n - 1) * Block < size
Stored(file) == <<Header(file.name, file.size)>>
                \o [n \in 1..Blocks(file.size) |-> file.looks]
\* What the first n files take.
Laid(fs, n) ==
  LET upto[k \in 0..Len(fs)] == IF k = 0 THEN <<>> ELSE upto[k - 1] \o Stored(fs[k])
  IN  upto[n]
Archive(fs) == Laid(fs, Len(fs)) \o <<Zeros, Zeros>>

\* Files have a name, and a size that fits the field.
ASSUME ArchiveAssumption ==
  \A fs \in Archives :
    /\ fs \in Seq(Range(fs))
    /\ \A file \in Range(fs) :
         file.name # <<>> /\ file.size \in Nat /\ Left(file.size)[Digits] = 0

-----------------------------------------------------------------------------
(* tar_get_file                                                            *)

Matches(name) ==
  \/ name = filename
  \/ name # <<>> /\ Head(name) = "./" /\ Tail(name) = filename

\* The digits at the start of a field.
Leading(in) == CHOOSE n \in 0..Len(in) : /\ \A k \in 1..n : in[k] \in 0..7
                                         /\ n < Len(in) => in[n + 1] \notin 0..7

\* The digits read as decimal ones.
decimal_to_int(in) ==
  LET value[n \in 0..Len(in)] == IF n = 0 THEN 0 ELSE value[n - 1] * 10 + in[n]
  IN  value[Leading(in)]
\* size * 8 and the next digit, as long as there is one.
octal_to_int(in) ==
  LET value[n \in 0..Len(in)] == IF n = 0 THEN 0 ELSE value[n - 1] * 8 + in[n]
  IN  value[Leading(in)]

Call(name) == /\ ~walking
              /\ walking' = TRUE /\ filename' = name /\ header' = 0
              /\ UNCHANGED <<files, memory, result>>

Return(value) == /\ walking' = FALSE /\ result' = value
                 /\ UNCHANGED <<files, memory, filename, header>>

NextWithoutHeader(size) == header + (size + Block - 1) \div Block
NextTruncated(size) == header + 1 + size \div Block

\* The header, then as many blocks as the size takes.
Next512(size) == header + 1 + (size + Block - 1) \div Block

\* After the archive there is no telling what is in memory.
At == IF header < Len(memory) THEN memory[header + 1] ELSE Header(<<"?">>, 0)

\* Where the walk breaks off.
TooFar(at) == at * Block > Limit

Visit ==
  LET size == octal_to_int(At.size)
  IN  /\ walking
      /\ \/ At.name = <<>> /\ Return(NULL)
         \/ /\ At.name # <<>> /\ Matches(At.name)
            /\ Return([found |-> TRUE, size |-> size, block |-> header + 1])
         \/ /\ At.name # <<>> /\ ~Matches(At.name) /\ TooFar(Next512(size))
            /\ Return(NULL)
         \/ /\ At.name # <<>> /\ ~Matches(At.name) /\ ~TooFar(Next512(size))
            /\ header' = Next512(size)
            /\ UNCHANGED <<files, memory, walking, filename, result>>

Init == /\ files \in Archives /\ memory = Archive(files)
        /\ walking = FALSE /\ filename = <<>> /\ header = 0 /\ result = NULL

Next == Visit \/ \E name \in Names : Call(name)

Spec == Init /\ [][Next]_vars
FairSpec == Spec /\ WF_vars(Visit)

-----------------------------------------------------------------------------
\* The block of the k-th file's header; the end marker's for one more.
Start(k) == Len(Laid(files, k - 1))

\* The walk stands on headers only, never on a block of a file, whatever the
\* file holds, and never after the archive.
WalkOnHeaders ==
  walking => \E k \in 1..(Len(files) + 1) : header = Start(k)

\* The files that a search can come to and that have the name asked for.
Candidates == { k \in DOMAIN files :
                  Matches(files[k].name) /\ Start(k) * Block <= Limit }

\* What a search has to find: the data of the first of them, NULL without one.
First == IF Candidates = {} THEN NULL
         ELSE LET k == CHOOSE k \in Candidates : \A j \in Candidates : k <= j
              IN  [ found |-> TRUE, size |-> files[k].size, block |-> Start(k) + 1 ]

\* What tar_get_file returns is the data of the first file of that name,
\* with or without "./", or NULL if there is none within the limit.
FirstOfItsName == [][walking /\ ~walking' => result' = First]_vars

\* Every search ends.
SearchEnds == walking ~> ~walking
=============================================================================
