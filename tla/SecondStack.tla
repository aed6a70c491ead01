---------------------------- MODULE SecondStack ----------------------------
(***************************************************************************)
(* The second stack as the emulator has it (8051emu/rtl8367s.lua): ssp is a *)
(* Lua integer that a push or a pop never reduces to 16 bits, so it runs    *)
(* below zero and above 0xffff.                                             *)
(***************************************************************************)
EXTENDS Soc

CONSTANTS Mapped,   \* the XRAM addresses with memory behind them
          Written,  \* the bytes a program writes
          Near      \* bound: where ssp may be

ASSUME SpaceAssumption == Mapped \subseteq Word /\ Written \subseteq Byte

VARIABLES dev, got

vars == <<dev, got>>

Init == dev = PowerUp(<<>>, [a \in Mapped |-> 0]) /\ got = 0

Writing(name, v) == dev' = Put(dev, name, v) /\ dev'.ssp \in Near /\ UNCHANGED got
Reading(name) == got' = Get(dev, name) /\ dev' = AfterGet(dev, name) /\ dev'.ssp \in Near

Push(v) == Writing("SSIO", v)
Pop == Reading("SSIO")
SetHigh(v) == Writing("SSPH", v)
SetLow(v) == Writing("SSPL", v)
GetHigh == Reading("SSPH")
GetLow == Reading("SSPL")

Next == \/ \E v \in Written : Push(v) \/ SetHigh(v) \/ SetLow(v)
        \/ Pop \/ GetHigh \/ GetLow

Spec == Init /\ [][Next]_vars

-----------------------------------------------------------------------------
TypeOK == /\ dev.ssp \in Int
          /\ dev.xram \in [Mapped -> Byte]
          /\ got \in Byte

(* No program can tell the unbounded pointer from the 16-bit register: every  *)
(* access reads what it would read, and stores where it would store, if ssp   *)
(* were reduced (rtl8367s.lua:12463).                                        *)
Register == INSTANCE StackPointer16 WITH ssp <- Wrap(dev.ssp), mem <- dev.xram
ActsAs16Bits == Register!Spec
=============================================================================
