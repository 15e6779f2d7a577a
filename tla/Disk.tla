-------------------------------- MODULE Disk --------------------------------
(***************************************************************************)
(* What the rest of the kernel needs of the disk driver: a read is asked   *)
(* for, and if it comes back at all it brings the whole sector asked for.  *)
(* Ata implements this specification.                                      *)
(***************************************************************************)
CONSTANTS Lbas,        \* the sectors
          None,        \* not a sector
          Content(_)   \* what a sector holds

VARIABLES asked,   \* the sector being read, or None
          answers  \* the last sector read and what came of it

Init == asked = None /\ answers = <<>>
Request == /\ asked = None
           /\ asked' \in Lbas
           /\ UNCHANGED answers
Answer == /\ asked # None
          /\ answers' = <<asked, Content(asked)>>
          /\ asked' = None

Next == Request \/ Answer
Spec == Init /\ [][Next]_<<asked, answers>>
=============================================================================
