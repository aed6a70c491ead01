---------------------------- MODULE UartFirmware ----------------------------
(***************************************************************************)
(* The UART driven by a firmware: a loop of the instructions that touch    *)
(* it, with the branches between them.  The instructions in between only   *)
(* take time, and the model's threads may pause anywhere.                  *)
(***************************************************************************)
EXTENDS Uart

(* The k-th instruction of a firmware: after it the firmware continues at  *)
(* yes or no, depending on the bit it tested (on = "flag") or on whether   *)
(* the UART's interrupt is taken (on = "irq").  Of the firmwares below the *)
(* repository has serial_write and the PCON handler: a receive loop and an *)
(* idle loop are what a program running on the emulator is taken to do.    *)
Then(o, k) == [op |-> o, on |-> "flag", yes |-> k, no |-> k]
Branch(o, y, n) == [op |-> o, on |-> "flag", yes |-> y, no |-> n]

\* External: JNB RI, $; MOV A, SBUF; CLR RI
Receiver == << Branch("testRI", 2, 1), Then("getSBUF", 3), Then("clrRI", 1) >>

\* The receiver (external), then hello.s serial_write: CLR TI; MOV SBUF, A; JNB TI, $
Echo == << Branch("testRI", 2, 1), Then("getSBUF", 3), Then("clrRI", 4),
           Then("clrTI", 5), Then("putSBUF", 6), Branch("testTI", 1, 6) >>

\* External: idle in PCON; the UART's interrupt reads the byte and returns.
Idle == << [op |-> "pokePCON", on |-> "irq", yes |-> 2, no |-> 1],
           Branch("testRI", 3, 1), Then("getSBUF", 4), Then("clrRI", 1) >>

Programs == {Receiver, Echo, Idle}

VARIABLES prog,     \* the firmware of this behaviour
          pc,       \* the instruction at which it is
          got       \* history: what its reads of SBUF returned

fvars == <<vars, prog, pc, got>>

FInit == Init /\ prog \in Programs /\ pc = 1 /\ got = << >>

IssueNext == Issue(prog[pc].op) /\ UNCHANGED <<prog, pc, got>>

\* The end of an instruction moves pc; reading SBUF extends got.
Taken == IF prog[pc].on = "irq" THEN irqsrc' ELSE Bit(op, snap')
Progress == /\ pc' = IF cpu # "fetch" /\ cpu' = "fetch"
                     THEN IF Taken THEN prog[pc].yes ELSE prog[pc].no
                     ELSE pc
            /\ UNCHANGED prog
            /\ got' = IF cpu = "get" /\ cpu' = "fetch" THEN Append(got, sbuf) ELSE got

FNext == IssueNext \/ (Machine /\ Progress)

FSpec == FInit /\ [][FNext]_fvars

(* As in Uart, and the CPU loop never stops.                               *)
FFair == /\ WF_fvars(IssueNext)
         /\ WF_fvars(CpuStep /\ Progress) /\ SF_fvars(CpuLock /\ Progress)
         /\ WF_fvars(ListenerStep /\ Progress) /\ SF_fvars(ListenerLock /\ Progress)
FFairSpec == FSpec /\ FFair

-----------------------------------------------------------------------------
\* A firmware that only receives gets every byte, once and in order, over any
\* number of connections: CLR RI in two lock sections is safe because the
\* listener leaves SCON alone while RI is set.
Receives == prog = Receiver
Channel == INSTANCE ByteChannel WITH sent <- IF Receives THEN sent ELSE 0,
                                     got <- IF Receives THEN got ELSE << >>
InOrderDelivery == Channel!Spec

\* Whatever the firmware, while no connection is reset it never reads a byte
\* twice or out of order; a transmit may put its own byte in SBUF before the
\* firmware looks.
NoDuplicate ==
    resets = 0 => \A i, j \in 1..Len(got) :
                     i < j /\ got[i] # Tx /\ got[j] # Tx => got[i] < got[j]

\* Bytes the listener has put into SBUF.
InHand == IF lis \in {"lock", "test", "fill", "raise"} THEN 1 ELSE 0
Delivered == sent - Len(wire) - InHand

\* An echoing firmware loses no more than two bytes for every byte it echoes,
\* one to CLR TI and one to MOV SBUF: their stale SCON is stored once each.
\* (A reset loses bytes on the wire, which nobody delivers.)
EchoLossBound ==
    prog = Echo /\ resets = 0 =>
        Delivered <= 3 * Len(got) + (IF scon.ri THEN 1 ELSE 0)

\* serial_write's wait for TI ends, in spite of the listener's stores to SCON.
\* (The MOV SBUF before it ends as InstructionEnds says.)
TransmitWaiting == prog[pc].op = "testTI"
TransmitEnds == TransmitWaiting ~> ~TransmitWaiting

\* A byte that arrives while the firmware idles in PCON reaches the interrupt
\* controller, though the listener runs no notifier: rtl8372.lua's PCON
\* handler stores SCON again.
ArrivalNoticed == prog = Idle /\ scon.ri ~> irqsrc \/ ~scon.ri
=============================================================================
