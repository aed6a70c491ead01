------------------------------ MODULE Routine ------------------------------
(***************************************************************************)
(* A call of a firmware routine on the emulated core.  A job says which     *)
(* routine is called and with what; it and what the call promises stay as   *)
(* they are and are read only by the properties.                            *)
(***************************************************************************)
EXTENDS Hello, Report

VARIABLES job,    \* a record with the routine and its arguments
          want    \* the bytes it promises to send

routineVars == <<pc, cell, psw, stack, rom, dev, job, want>>

Calls(routine) == job.routine = routine

(* The call, with the cells as given and the others at a value *)
Enter(label, cells, others) ==
  /\ pc = To(label)
  /\ stack = <<>>
  /\ psw \in {{}, {"C", "F0"}}
  /\ cell = [n \in Cell |-> IF n \in DOMAIN cells THEN cells[n] ELSE others]

AtDptr(address) == [DPH |-> Hi(address), DPL |-> Lo(address)]
=============================================================================
