------------------------------ MODULE PortInit ------------------------------
(***************************************************************************)
(* port_init1 and phyocp_reg_addr (rtl8367/asm/hello.s).  A PHY register    *)
(* has a 16-bit address; the CPU reaches it through a window of the switch  *)
(* registers and a prefix in register 0x1d15, which every access has to set *)
(* up first, sixteen bits eight at a time.                                  *)
(***************************************************************************)
EXTENDS Routine

(* A register of r; one that is not there reads as Absent.                    *)
Holding(r, addr) == IF addr \in DOMAIN r THEN r[addr] ELSE Absent

(* What one port needs, in order, when the registers are r: a switch register *)
(* and its value, or the port, the PHY address and the value.                *)
Eee(r, port) == <<24 + 32 * port, BitOr(Holding(r, 24 + 32 * port), 3840)>>
Phy(port, addr, keep, set) == <<port, addr, BitOr(BitAnd(Absent, keep), set)>>
Wanted(r, port) == <<Eee(r, port), Phy(port, 42024, 65023, 0), <<5058, 585>>,
                     Phy(port, 42448, 65535, 6), Phy(port, 41984, 63487, 512)>>

(* The last two only on a chip whose version has 0xa there.                   *)
Supported(r) == (Holding(r, 4865) % 256) \div 16 = 10
PerPort(r) == IF Supported(r) THEN 5 ELSE 3
Plan(r) == [k \in 1..(5 * PerPort(r)) |->
              Wanted(r, (k - 1) \div PerPort(r))[((k - 1) % PerPort(r)) + 1]]

(* The blocks of the routine are in the program.                              *)
ASSUME PortProgramAssumption ==
  \A label \in DOMAIN PortInitCode : Code[label] = PortInitCode[label]

(* The job of port_init1 has the registers before the call and what the     *)
(* working cells hold.                                                      *)
PortCall ==
  /\ Calls("port_init1")
  /\ DOMAIN job.regs \subseteq Word /\ job.regs \in [DOMAIN job.regs -> Word]
  /\ job.left \in Byte
  /\ Enter("port_init1", <<>>, job.left)
  /\ dev = PowerUp(job.regs, <<>>)
  /\ rom = <<>> /\ want = Plan(job.regs)

(* The job of phyocp_reg_addr has a PHY address, a port, and 0x1d15 before   *)
(* the call; the call is followed by reg_read, as both its callers do.       *)
Probe == [probe |-> Closed(<<
  <<"call", "phyocp_reg_addr">>, <<"call", "reg_read">>, <<"ret">> >>)]

(* phyocp_reg_addr, its caller and the routines it calls are in the program. *)
ASSUME AddressProgramAssumption ==
  /\ \A label \in DOMAIN Reg : Code[label] = Reg[label]
  /\ \A label \in DOMAIN PhyOcp : Code[label] = PhyOcp[label]
  /\ \A label \in DOMAIN Probe : Code[label] = Probe[label]
ASSUME AddressCellAssumption ==
  {"A", "B", "DPH", "DPL", "R5", "R6", "R7"} \subseteq Cell

(* PHY registers have even addresses, and the window has room for 8 ports. *)
PhyAddress == {a \in Word : a % 2 = 0}

AddressCall ==
  /\ Calls("phyocp_reg_addr")
  /\ job.addr \in PhyAddress /\ job.port \in 0..7 /\ job.prefix \in Word
  /\ Enter("probe", [DPH |-> Hi(job.addr), DPL |-> Lo(job.addr), R7 |-> job.port], 170)
  /\ dev = PowerUp([r \in {7445} |-> job.prefix], <<>>)
  /\ rom = <<>> /\ want = <<>>

-----------------------------------------------------------------------------
(* The writes of a log up to the i-th, those of the prefix not counted; a      *)
(* write through the window stands for the PHY register it reaches under the   *)
(* prefix of that moment.                                                     *)
Shown(log, i) == Cardinality({j \in 1..i : log[j][1] # 7445})
Prefix(r, log, i) == LET set == {j \in 1..i : log[j][1] = 7445}
                     IN  IF set = {} THEN Holding(r, 7445) ELSE log[Max(set)][2]
Meaning(r, log, i) ==
  LET addr == log[i][1]
  IN  IF IsPhy(addr)
      THEN <<(addr % 256) \div 32, OcpAddr([a \in {7445} |-> Prefix(r, log, i)], addr), log[i][2]>>
      ELSE log[i]

(* Every write so far is the next one of the plan: no PHY register is         *)
(* reached under another register's prefix or in another port's window, and   *)
(* when the routine returns nothing is missing (hello.s:441).  Setting the   *)
(* prefix keeps the bits of 0x1d15 above it (hello.s:338).                    *)
FollowsPlan ==
  Calls("port_init1") =>
    /\ \A i \in 1..Len(dev.log) :
         dev.log[i][1] # 7445 => /\ Shown(dev.log, i) \in DOMAIN want
                                 /\ Meaning(job.regs, dev.log, i) = want[Shown(dev.log, i)]
    /\ Over => Shown(dev.log, Len(dev.log)) = Len(want)
    /\ Holding(dev.regs, 7445) \div 64 = Holding(job.regs, 7445) \div 64

(* The read after phyocp_reg_addr reaches the register asked for, in the      *)
(* port's window, whatever carry the caller left for the rotations; the       *)
(* only register it writes is the prefix, once, keeping the bits above it,    *)
(* and R7 is left alone.                                                    *)
ReachesRegister ==
  Calls("phyocp_reg_addr") /\ Over =>
    /\ dev.ocp = job.addr
    /\ Dptr % 256 \in (32 * job.port)..(32 * job.port + 31)
    /\ Len(dev.log) = 1 /\ dev.regs[7445] \div 64 = job.prefix \div 64
    /\ cell["R7"] = job.port
=============================================================================
