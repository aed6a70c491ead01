-------------------------------- MODULE Soc --------------------------------
(***************************************************************************)
(* The RTL8367S as 8051emu/rtl8367s.lua emulates it: the special function   *)
(* registers the script hooks, and the switch registers behind the indirect *)
(* access port.  The device is a record; a hook is an operator that gives   *)
(* the value the CPU reads and the device after the access.                 *)
(*                                                                          *)
(* Two fields are history, kept for the properties and never read here:     *)
(* log, the switch register writes in order, and ocp, the PHY address of    *)
(* the last PHY read.                                                       *)
(***************************************************************************)
EXTENDS Words, Sequences, TLC

CONSTANT Packet   \* the bytes of pkt: its header and the canned ARP packet

Absent == 57005                       \* 0xdead

IndaccFile == {"INDACC_ADDR_H", "INDACC_ADDR_L", "INDACC_WDATA_H",
               "INDACC_WDATA_L", "INDACC_RDATA_H", "INDACC_RDATA_L"}
PedmaFile == {"PEDMA_E_ADDR0", "PEDMA_E_ADDR1", "PEDMA_P_ADDR0", "PEDMA_P_ADDR1"}
Hooked == IndaccFile \cup PedmaFile
            \cup {"INDACC_CMD", "INDACC_STATUS", "PEDMA_LEN", "SBUF",
                  "SSPL", "SSPH", "SSIO"}

(* regs: the soc_regs table the behaviour starts from; xram: the mapped bytes *)
PowerUp(regs, xram) ==
  [sfr |-> [n \in IndaccFile \cup PedmaFile |-> 0], regs |-> regs,
   xram |-> xram, ssp |-> 0, out |-> <<>>, ti |-> FALSE, log |-> <<>>, ocp |-> 0]

IndaccAddr(d) == Pair(d.sfr["INDACC_ADDR_H"], d.sfr["INDACC_ADDR_L"])
IndaccWdataSwapped(d) == Pair(d.sfr["INDACC_WDATA_L"], d.sfr["INDACC_WDATA_H"])
IndaccWdata(d) == Pair(d.sfr["INDACC_WDATA_H"], d.sfr["INDACC_WDATA_L"])

-----------------------------------------------------------------------------
(* Switch registers: a Lua table, which an assignment may extend *)

Assign(f, x, v) == [y \in DOMAIN f \cup {x} |-> IF y = x THEN v ELSE f[y]]

IsPhy(addr) == addr \in 8192..12287   \* 0x2000..0x2fff

(* The PHY address: bits 15..10 from register 0x1d15, bits 9..6 from bits    *)
(* 11..8 of the register address, bits 5..1 from its bits 4..0.             *)
OcpAddr(regs, addr) ==
  2 * (512 * (regs[7445] % 64) + 32 * ((addr \div 256) % 16) + (addr % 32))

RegValue(d, addr) ==
  IF addr \in DOMAIN d.regs THEN d.regs[addr] ELSE Absent

(* NIC_RXRDRL reads to zero *)
RegReadKeeps(d, addr) ==
  [val |-> RegValue(d, addr),
   dev |-> IF IsPhy(addr) THEN [d EXCEPT !.ocp = OcpAddr(d.regs, addr)] ELSE d]
RegRead(d, addr) ==
  IF IsPhy(addr) THEN [val |-> Absent, dev |-> [d EXCEPT !.ocp = OcpAddr(d.regs, addr)]]
  ELSE [val |-> RegValue(d, addr),
        dev |-> IF addr = 6660 THEN [d EXCEPT !.regs = Assign(@, addr, 0)] ELSE d]

RegWrite(d, addr, v) ==
  [d EXCEPT !.regs = Assign(@, addr, v), !.log = Append(@, <<addr, v>>)]

-----------------------------------------------------------------------------
(* Hooks *)

IndaccCmd(d, cmd) ==
  CASE cmd = 1 -> LET r == RegRead(d, IndaccAddr(d)) IN
                  [r.dev EXCEPT !.sfr["INDACC_RDATA_H"] = Hi(r.val),
                                !.sfr["INDACC_RDATA_L"] = Lo(r.val)]
    [] cmd = 3 -> RegWrite(d, IndaccAddr(d), IndaccWdata(d))
    [] OTHER   -> d

(* An unmapped byte reads as 0xff, and a write to it is lost *)
Xram(d, addr) == IF addr \in DOMAIN d.xram THEN d.xram[addr] ELSE 255
Poke(d, addr, v) ==
  IF addr \in DOMAIN d.xram THEN [d EXCEPT !.xram[addr] = v] ELSE d

(* Below 0x8000 the peripheral address reads the received packet: past its  *)
(* end the bytes are 0xff.  Above it the copy out has no effect here.       *)
PedmaLen(d, units) ==
  LET eaddr == Pair(d.sfr["PEDMA_E_ADDR1"], d.sfr["PEDMA_E_ADDR0"])
      paddr == Pair(d.sfr["PEDMA_P_ADDR1"], d.sfr["PEDMA_P_ADDR0"])
      byte(i) == IF i + paddr \in DOMAIN Packet THEN Packet[i + paddr] ELSE 255
      offset(a) == Wrap(a - eaddr)
  IN  IF paddr >= 32768 THEN d
      ELSE [d EXCEPT !.xram = [a \in DOMAIN @ |->
              IF offset(a) < 8 * units THEN byte(offset(a) + 1) ELSE @[a]]]

(* The second stack: ssp is a Lua integer, never reduced to 16 bits; only    *)
(* the address of an access and the value of a register are.                *)
SetSspl(d, v) == [d EXCEPT !.ssp = Pair(Hi(@), v)]
SetSsph(d, v) == [d EXCEPT !.ssp = Pair(v, Lo(@))]
SspPushAfter(d, v) == [Poke(d, Wrap(d.ssp), v) EXCEPT !.ssp = @ - 1]
SspPush(d, v) == [Poke(d, Wrap(d.ssp - 1), v) EXCEPT !.ssp = @ - 1]
SsphRead(d) == Lo(Hi(d.ssp))
SspPop(d) == [d EXCEPT !.ssp = @ + 1]

(* A byte transmitted: on the wire, and TI is set *)
TransmitQuiet(d, v) == [d EXCEPT !.out = Append(@, v)]
Transmit(d, v) == [d EXCEPT !.out = Append(@, v), !.ti = TRUE]

Put(d, name, v) ==
  CASE name \in IndaccFile \cup PedmaFile -> [d EXCEPT !.sfr[name] = v]
    [] name = "INDACC_CMD" -> IndaccCmd(d, v)
    [] name = "PEDMA_LEN"  -> PedmaLen(d, v)
    [] name = "SBUF"       -> Transmit(d, v)
    [] name = "SSPL"       -> SetSspl(d, v)
    [] name = "SSPH"       -> SetSsph(d, v)
    [] name = "SSIO"       -> SspPush(d, v)
    [] OTHER               -> d

(* INDACC_CMD, INDACC_STATUS and PEDMA_LEN always read as done *)
Get(d, name) ==
  CASE name \in IndaccFile \cup PedmaFile -> d.sfr[name]
    [] name = "SSPL" -> Lo(d.ssp)
    [] name = "SSPH" -> SsphRead(d)
    [] name = "SSIO" -> Xram(d, Wrap(d.ssp))
    [] OTHER         -> 0

AfterGet(d, name) == IF name = "SSIO" THEN SspPop(d) ELSE d
=============================================================================
