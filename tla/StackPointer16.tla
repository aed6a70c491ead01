--------------------------- MODULE StackPointer16 ---------------------------
(***************************************************************************)
(* The second stack as the chip has it (ghidra/8051_main.sinc): SSP is a    *)
(* register of 16 bits, its halves are SSPH and SSPL, a push decrements it  *)
(* and then stores, a pop loads and then increments it.                     *)
(***************************************************************************)
EXTENDS Words

CONSTANTS Mapped    \* the XRAM addresses with memory behind them

VARIABLES ssp, mem,
          got       \* the byte the last access read

Push(v) == /\ ssp' = Wrap(ssp - 1)
           /\ mem' = [a \in Mapped |-> IF a = ssp' THEN v ELSE mem[a]]
           /\ UNCHANGED got

Pop == /\ got' = IF ssp \in Mapped THEN mem[ssp] ELSE 255
       /\ ssp' = Wrap(ssp + 1)
       /\ UNCHANGED mem

SetHigh(v) == ssp' = Pair(v, Lo(ssp)) /\ UNCHANGED <<mem, got>>
SetLow(v) == ssp' = Pair(Hi(ssp), v) /\ UNCHANGED <<mem, got>>
GetHigh == got' = Hi(ssp) /\ UNCHANGED <<ssp, mem>>
GetLow == got' = Lo(ssp) /\ UNCHANGED <<ssp, mem>>

Init == ssp \in Word /\ mem \in [Mapped -> Byte] /\ got \in Byte

Next == \/ \E v \in Byte : Push(v) \/ SetHigh(v) \/ SetLow(v)
        \/ Pop \/ GetHigh \/ GetLow

Spec == Init /\ [][Next]_<<ssp, mem, got>>
=============================================================================
