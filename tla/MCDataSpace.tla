---------------------------- MODULE MCDataSpace ----------------------------
(***************************************************************************)
(* Programs of MaxInsns instructions, after a prologue that sets SP and    *)
(* the two registers that @Ri uses.                                        *)
(***************************************************************************)
EXTENDS DataSpace

CONSTANT MaxInsns   \* bound: instructions of a program

VARIABLE count

\* The operands: R0 and R1, the end of lower RAM and the start of upper RAM,
\* CACHE_CTRL, which shares its address and has a hook, SP, the pointers, DPS
\* and a PSW that would select another bank.
SomeInsns ==
    {<<"mov", 127, 24>>, <<"mov", 128, 24>>, <<"mov", SP, 255>>, <<"mov", 130, 255>>,
     <<"mov", 132, 255>>, <<"mov", DPS, 255>>, <<"mov", PSW, 24>>}
    \cup {<<"movd", 127, 128>>, <<"movd", SP, 1>>, <<"modify", DPS, 1>>, <<"modify", 128, 255>>}
    \cup {<<"load", 128, ACC>>, <<"load", SP, 1>>, <<"xch", 127>>, <<"xch", SP>>}
    \cup {<<"bit", 128, 1>>, <<"bit", 211, 1>>, <<"movi", 0, 24>>, <<"movi", 1, 7>>}
    \cup {<<"movid", 0, 128>>, <<"movdi", 127, 1>>, <<"loadi", 0>>, <<"xchi", 0>>}
    \cup {<<"test", 128>>, <<"inci", 0>>, <<"deci", 1>>, <<"xchdi", 1>>, <<"addi", 0>>, <<"reg", 0, 129>>, <<"reg", 1, 3>>}
    \cup {<<"dptr", 255>>, <<"incdptr">>, <<"call", 4660>>, <<"ret">>}
    \cup {<<"push", a>> : a \in {1, 128, SP}} \cup {<<"pop", a>> : a \in {127, SP, DPS}}
SomeDevice == {128}
Answers == {0, 85}

Prologue(sp, r0, r1) == [ram EXCEPT ![SP] = sp, ![0] = r0, ![1] = r1]
MCInit == /\ count = 0
          /\ reg = 0 /\ dptr = 0 /\ pc = 0 /\ insn = <<"reset">>
          /\ frames = << >> /\ intact = TRUE
          /\ \E sp \in {7, 126, 254}, r \in {127, 128} :
                /\ base = sp
                /\ ram = [c \in Cell |-> CASE c = SP -> sp [] c = 0 -> r [] c = 1 -> 255 - r [] OTHER -> 0]
MCNext == \/ count < MaxInsns /\ count' = count + 1 /\ Next
          \/ count = MaxInsns /\ UNCHANGED <<vars, count>>
MCSpec == MCInit /\ [][MCNext]_<<vars, count>>
=============================================================================
