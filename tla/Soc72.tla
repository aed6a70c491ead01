------------------------------- MODULE Soc72 -------------------------------
(***************************************************************************)
(* What the RTL8372 (8051emu/rtl8372.lua) has beside the hooks of Soc: one    *)
(* register of 32 bits for the data read and written through the indirect    *)
(* port, the banks, and the flags of SCON and PCON.  A device of this kind   *)
(* has the fields below in addition; a value of 32 bits is its four bytes,   *)
(* the highest first.                                                        *)
(***************************************************************************)
EXTENDS Soc

DataByte == [INDACC_DATA_24 |-> 1, INDACC_DATA_16 |-> 2, INDACC_DATA_8 |-> 3, INDACC_DATA_0 |-> 4]
Timers == {"PCON", "T2CON"}
Banks == {"CODE_BANK", "DATA_BANK"}
Hooked72 == DOMAIN DataByte \cup Timers \cup Banks \cup {"SCON"}

Zero == <<0, 0, 0, 0>>
Unmapped == -1

(* image: the unpacked flash; code, data and top: the banks of code memory    *)
(* from 0x4000, of XRAM from 0x4000 and from 0xc000                         *)
PowerUp72(regs, image, sram) ==
  [word |-> Zero, image |-> image, code |-> Unmapped, data |-> 0, top |-> Unmapped,
   timer |-> [t \in Timers |-> 0]] @@ PowerUp(regs, sram)
IsRtl8372(d) == "image" \in DOMAIN d

-----------------------------------------------------------------------------
(* Registers.  Four clear themselves, entirely or in their low bits.         *)
Absent72 == <<222, 173, 190, 239>>     \* 0xdeadbeef
RegValue72(regs, addr) == IF addr \in DOMAIN regs THEN regs[addr] ELSE Absent72
Kept72(addr, v) ==
  CASE addr \in {36, 21460} -> Zero
    [] addr = 23724         -> [v EXCEPT ![4] = @ - (@ % 4)]
    [] addr = 3936          -> [v EXCEPT ![4] = @ - (@ % 2)]
    [] OTHER                -> v
FetchWordHalf(d) == LET v == RegValue72(d.regs, IndaccAddr(d)) IN [d EXCEPT !.word[3] = v[3], !.word[4] = v[4]]
FetchWord(d) == [d EXCEPT !.word = RegValue72(d.regs, IndaccAddr(d))]
IndaccCmd72(d, cmd) ==
  CASE cmd = 1 -> FetchWord(d)
    [] cmd = 3 -> LET addr == IndaccAddr(d)
                  IN  [d EXCEPT !.regs = Assign(@, addr, Kept72(addr, d.word)),
                                !.log = Append(@, <<addr, d.word>>)]
    [] OTHER   -> d

-----------------------------------------------------------------------------
(* Banks.  Bank n has its pages from 64 KiB * n + 0x4000 of the image on; a   *)
(* data bank is read-only, and bank 0 maps the SRAM again, which ends at      *)
(* 0xc000: what was mapped behind it stays.                                  *)
ImageByte(d, i) == IF i \in DOMAIN d.image THEN d.image[i] ELSE 255
BankByte(d, bank, addr) == IF bank = Unmapped THEN 255 ELSE ImageByte(d, 65536 * bank + addr)
Code72(d, addr) == IF addr < 16384 THEN ImageByte(d, addr) ELSE BankByte(d, d.code, addr)
Sram(d, addr) == addr < 16384 \/ (addr < 49152 /\ d.data = 0)
Xram72(d, addr) == IF Sram(d, addr) THEN Xram(d, addr)
                   ELSE BankByte(d, IF addr < 49152 THEN d.data ELSE d.top, addr)
Poke72(d, addr, v) == IF Sram(d, addr) THEN Poke(d, addr, v) ELSE d
SetDataBank(d, bank) == [d EXCEPT !.data = bank, !.top = IF bank = 0 THEN @ ELSE bank]

-----------------------------------------------------------------------------
(* The hooks of a device of either kind *)

(* Writing PCON also asserts timer 2: in Lua every number is true.           *)
Put72(d, name, v) ==
  CASE name \in DOMAIN DataByte -> [d EXCEPT !.word[DataByte[name]] = v]
    [] name = "INDACC_CMD" -> IndaccCmd72(d, v)
    [] name = "CODE_BANK"  -> [d EXCEPT !.code = v]
    [] name = "DATA_BANK"  -> SetDataBank(d, v)
    [] name = "T2CON"      -> [d EXCEPT !.timer["T2CON"] = v]
    [] name = "PCON"       -> [d EXCEPT !.timer["PCON"] = v, !.timer["T2CON"] = (@ % 128) + 128]
    [] name = "SCON"       -> [d EXCEPT !.ti = (v \div 2) % 2 = 1]
    [] name = "SSIO"       -> [Poke72(d, Wrap(d.ssp - 1), v) EXCEPT !.ssp = @ - 1]
    [] OTHER               -> Put(d, name, v)
Get72(d, name) ==
  CASE name \in DOMAIN DataByte -> d.word[DataByte[name]]
    [] name \in Timers     -> d.timer[name]
    [] name = "SSIO"       -> Xram72(d, Wrap(d.ssp))
    [] OTHER               -> Get(d, name)

BoardHooked(d) == IF IsRtl8372(d) THEN Hooked \cup Hooked72 ELSE Hooked
BoardPut(d, name, v) == IF IsRtl8372(d) THEN Put72(d, name, v) ELSE Put(d, name, v)
BoardGet(d, name) == IF IsRtl8372(d) THEN Get72(d, name) ELSE Get(d, name)
BoardXram(d, addr) == IF IsRtl8372(d) THEN Xram72(d, addr) ELSE Xram(d, addr)
BoardPoke(d, addr, v) == IF IsRtl8372(d) THEN Poke72(d, addr, v) ELSE Poke(d, addr, v)
=============================================================================
