---------------------------- MODULE ByteChannel ----------------------------
(***************************************************************************)
(* What a serial receiver promises: the firmware reads the bytes the peer  *)
(* sent, each once and in order, and every byte sent is read at last.      *)
(***************************************************************************)
EXTENDS Naturals, Sequences

VARIABLES sent,     \* how many bytes the peer has sent: 1, 2, ..., sent
          got       \* the bytes the firmware has read, in order

vars == <<sent, got>>

Init == sent = 0 /\ got = << >>

Send == sent' = sent + 1 /\ UNCHANGED got

Read == /\ Len(got) < sent
        /\ got' = Append(got, Len(got) + 1)
        /\ UNCHANGED sent

Next == Send \/ Read

\* What is read, and that it is read.
Safety == Init /\ [][Next]_vars
Spec == Safety /\ WF_vars(Read)
=============================================================================
