------------------------------ MODULE InitList ------------------------------
(***************************************************************************)
(* reg_from_initlist (rtl8367/asm/hello.s): it reads a list from code       *)
(* memory and drives the indirect access port.  The job has the list, where *)
(* its entries lie, the bytes of code memory, and the registers before the  *)
(* call.                                                                    *)
(***************************************************************************)
EXTENDS Routine

(* The interpreter and reg_status_loop, which it calls, are in the program,  *)
(* and the registers they use are cells.                                    *)
ASSUME ProgramAssumption ==
  /\ \A label \in DOMAIN Reg : Code[label] = Reg[label]
  /\ \A label \in DOMAIN InitListCode : Code[label] = InitListCode[label]
ASSUME CellAssumption == {"A", "B", "DPH", "DPL"} \subseteq Cell

(* An entry writes a register or modifies one.  No list of the firmware     *)
(* modifies what reads as something else than it was written: a PHY         *)
(* register, or RXRDRL.                                                     *)
Address == 0..32767
Changeable == {a \in Address : ~IsPhy(a) /\ a # 6660}
Entry == ((Address \ {0}) \X Word) \cup (Changeable \X Word \X Word)

(* A list ends at least three bytes before the end of code memory. *)
CodePlace == 0..65532

(* .word stores the high byte first; bit 15 of the address marks an entry   *)
(* that modifies, and a zero word ends the list.                            *)
Holds(bytes, a, w) == a \in DOMAIN bytes /\ a + 1 \in DOMAIN bytes
                         /\ bytes[a] = Hi(w) /\ bytes[a + 1] = Lo(w)
Assembled(list, at, bytes) ==
  /\ at \in [1..(Len(list) + 1) -> CodePlace]
  /\ \A k \in 1..Len(list) :
       LET e == list[k]
       IN  /\ at[k + 1] = at[k] + 2 * Len(e)
           /\ Holds(bytes, at[k], IF Len(e) = 2 THEN e[1] ELSE 32768 + e[1])
           /\ \A i \in 2..Len(e) : Holds(bytes, at[k] + 2 * (i - 1), e[i])
  /\ Holds(bytes, at[Len(list) + 1], 0)

Words(regs) == DOMAIN regs \subseteq Word /\ regs \in [DOMAIN regs -> Word]

ListCall ==
  /\ Calls("reg_from_initlist")
  /\ job.list \in Seq(Entry) /\ Assembled(job.list, job.at, job.bytes) /\ Words(job.regs)
  /\ Enter("reg_from_initlist", AtDptr(job.at[1]), 0)
  /\ rom = job.bytes
  /\ dev = PowerUp(job.regs, <<>>)
  /\ want = <<>>

-----------------------------------------------------------------------------
Listing == Calls("reg_from_initlist")
Remaining == IF Listing THEN SubSeq(job.list, Len(dev.log) + 1, Len(job.list)) ELSE <<>>
Script == INSTANCE RegScript WITH Default <- Absent, todo <- Remaining,
                                  regs <- IF Listing THEN dev.regs ELSE <<>>

(* It stops at the terminator, not before and not past it: when it returns   *)
(* every entry has been written and DPTR is just after the zero word.        *)
StopsAtEnd ==
  Listing /\ Over => /\ Len(dev.log) = Len(job.list)
                     /\ Dptr = job.at[Len(job.list) + 1] + 2

(* The interpreter applies the list entry by entry: every step leaves the    *)
(* registers alone or applies exactly the next entry, and when it stops all  *)
(* of them have been applied (hello.s:251).                                 *)
AppliesList == Script!Safety /\ []StopsAtEnd
=============================================================================
