----------------------------- MODULE KeyMailbox -----------------------------
(***************************************************************************)
(* What the keyboard driver promises its reader, whatever the interleaving *)
(* of interrupts and polls: a lossy channel that never duplicates, never   *)
(* reorders and never invents.  The keyboard sends bytes; the reader gets  *)
(* some of them, identified by their position in what was sent, in order.  *)
(* Keyboard implements this specification.                                 *)
(***************************************************************************)
EXTENDS Naturals, Sequences

VARIABLES
  sent,  \* every byte the keyboard has sent
  got    \* what the reader received: the positions in sent, oldest first

Init == sent = <<>> /\ got = <<>>

\* One key event sends one or several bytes.
Send == /\ sent' \in Seq(0..255)
        /\ Len(sent') > Len(sent)
        /\ SubSeq(sent', 1, Len(sent)) = sent
        /\ UNCHANGED got

Deliver == /\ \E n \in 1..Len(sent) : /\ \A k \in 1..Len(got) : got[k] < n
                                      /\ got' = Append(got, n)
           /\ UNCHANGED sent

Next == Send \/ Deliver

Spec == Init /\ [][Next]_<<sent, got>>
=============================================================================
