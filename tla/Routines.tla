------------------------------ MODULE Routines ------------------------------
(***************************************************************************)
(* The routines of the firmware, each called with every job it has.         *)
(***************************************************************************)
EXTENDS InitList, PortInit, HexDump, MainLoop, TestDump

CONSTANT Jobs

Program == Reg @@ InitListCode @@ PhyOcp @@ PortInitCode @@ Probe
             @@ Serial @@ Dump @@ Puts @@ Main @@ Main72

Init == /\ job \in Jobs
        /\ ListCall \/ PortCall \/ AddressCall \/ DumpCall \/ MainCall \/ TestCall

NextInsn == Step /\ UNCHANGED <<job, want>>
Finished == Halt /\ UNCHANGED <<job, want>>

Spec == Init /\ [][NextInsn \/ Finished]_routineVars /\ WF_routineVars(NextInsn)

(* Every entry of a list is applied, and every routine returns, whatever it  *)
(* is called with: the counters of its loops survive the routines it calls,  *)
(* and what it polls becomes ready.                                         *)
(* The packet loop has no end: with a packet it comes to acknowledge it, and  *)
(* without one it comes to poll.                                            *)
Completes ==
  /\ Script!Liveness
  /\ <>IF Calls("test") THEN pc[1] = "halt"
       ELSE IF Running THEN IF Pending(job.regs) THEN Acks # {} ELSE pc[1] = "rx_loop"
       ELSE Over
=============================================================================
