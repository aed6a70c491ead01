------------------------------ MODULE MCIrqCtl ------------------------------
(***************************************************************************)
(* Instances of IrqCtl.  The program maps two interrupts, 4 for the UART   *)
(* and 5 for timer 2; only the UART's source is asserted by another        *)
(* thread.                                                                 *)
(***************************************************************************)
EXTENDS IrqCtl

Uart == 4
Timer2 == 5
MCIrq == {Uart, Timer2}
MCAsync == {Uart}
MCNoAsync == {}
OneLevel == {{}}
TwoLevels == SUBSET MCIrq
=============================================================================
