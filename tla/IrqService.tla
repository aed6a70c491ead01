----------------------------- MODULE IrqService -----------------------------
(***************************************************************************)
(* What an 8051 interrupt controller with two priority levels promises to  *)
(* the firmware, whatever the controller is built from: a service routine  *)
(* starts only for a source that asks for service at that moment, at the   *)
(* level the firmware gave it, and only above every level already in       *)
(* service; routines end in the reverse of the order they started in.      *)
(***************************************************************************)
EXTENDS Naturals, Sequences

CONSTANT Irq          \* the interrupt sources

VARIABLES
    asking,           \* sources whose request is enabled and asserted
    high,             \* sources the firmware put on the high level
    serving           \* routines in service, outermost first

vars == <<asking, high, serving>>

Routine == [irq : Irq, level : {0, 1}]

Level(i) == IF i \in high THEN 1 ELSE 0

Init == /\ asking = {}
        /\ high = {}
        /\ serving = << >>

\* Requests come and go, and the firmware moves sources between the levels.
Reconfigure == /\ asking' \in SUBSET Irq
               /\ high' \in SUBSET Irq
               /\ UNCHANGED serving

\* The routine of a source starts above everything that is in service.
Accept(i) == /\ i \in asking
             /\ \A k \in DOMAIN serving : serving[k].level < Level(i)
             /\ serving' = Append(serving, [irq |-> i, level |-> Level(i)])
             /\ UNCHANGED <<asking, high>>

\* The innermost routine returns.
Complete == /\ serving # << >>
            /\ serving' = SubSeq(serving, 1, Len(serving) - 1)
            /\ UNCHANGED <<asking, high>>

Next == \/ Reconfigure
        \/ \E i \in Irq : Accept(i)
        \/ Complete

Spec == Init /\ [][Next]_vars
=============================================================================
