---------------------------- MODULE CommandLine ----------------------------
(***************************************************************************)
(* What the shell promises its user: a line of bounded length is edited at *)
(* its end, and what runs is exactly the line as edited, split at its first*)
(* space into a name and its arguments - nothing of an earlier line and    *)
(* nothing that was erased.  Shell implements this specification.          *)
(***************************************************************************)
EXTENDS Naturals, Sequences

CONSTANTS Printable,  \* the characters a line is made of
          Separator,  \* the character between the name and the arguments
          Limit       \* the length of the longest line

VARIABLES line,  \* the line being edited
          ran    \* the commands that ran, oldest first: [name, args]

Init == line = <<>> /\ ran = <<>>

Type == /\ Len(line) < Limit
        /\ \E ch \in Printable : line' = Append(line, ch)
        /\ UNCHANGED ran

Erase == /\ line # <<>>
         /\ line' = SubSeq(line, 1, Len(line) - 1)
         /\ UNCHANGED ran

\* The line cut at its first space; without one it is all name.
FirstSpace(s) == CHOOSE k \in 1..(Len(s) + 1) :
                   /\ k <= Len(s) => s[k] = Separator
                   /\ \A j \in 1..(k - 1) : s[j] # Separator
Split(s) == [ name |-> SubSeq(s, 1, FirstSpace(s) - 1),
              args |-> SubSeq(s, FirstSpace(s) + 1, Len(s)) ]

Run == line # <<>> /\ line' = <<>> /\ ran' = Append(ran, Split(line))

Next == Type \/ Erase \/ Run

Spec == Init /\ [][Next]_<<line, ran>>
=============================================================================
