------------------------------ MODULE MainLoop ------------------------------
(***************************************************************************)
(* The end of system_init (rtl8367/asm/hello.s): the dump of the switch     *)
(* registers and of the PHY registers of port 0, and rx_loop, which copies  *)
(* a received packet to XRAM, prints and acknowledges it.  The job has the  *)
(* registers before.                                                        *)
(***************************************************************************)
EXTENDS Routine

CONSTANTS FirstReg,    \* where the dump of the switch registers starts: 0
          Message      \* the bytes of message_got_packet, the zero included

-----------------------------------------------------------------------------
(* The text *)

RegLine(r, a) == LET v == IF a \in DOMAIN r THEN r[a] ELSE Absent
                 IN  Hex16(a) \o <<58>> \o Hex16(v) \o Newline
Window(a) == 8192 + (256 * ((a \div 64) % 16)) + ((a \div 2) % 32)
PhyLine(a) == Hex16(a) \o <<58>> \o Hex16(Window(a)) \o <<58>> \o Hex16(Absent) \o Newline
Lines(line(_), addresses) == FoldLeft(LAMBDA text, a : text \o line(a), <<>>, addresses)

Low(r, a) == Hex(r[a] % 256)
Ring(r) == Pair(r[6737] % 256, r[6736] % 256)
Received(r, a) == LET i == 8 * Ring(r) + a + 1
                  IN  IF i \in DOMAIN Packet THEN Packet[i] ELSE 255
PacketText(r) ==
  LET byte(a) == Received(r, a)
  IN  Low(r, 6665) \o Low(r, 6664) \o Blank \o Low(r, 6739) \o Low(r, 6738) \o Blank
        \o Low(r, 6661) \o Hex(0) \o Blank \o Low(r, 6737) \o Low(r, 6736) \o Blank
        \o Front(Message) \o HexDump(byte, 0, 32)
Pending(r) == r[6660] % 256 # 0

Promised(r) ==
  LET regLine(a) == RegLine(r, a)
  IN  Lines(regLine, [i \in 1..(8192 - FirstReg) |-> FirstReg + i - 1])
        \o Lines(PhyLine, [i \in 1..((54272 - FirstPhy) \div 2) |-> FirstPhy + 2 * (i - 1)])
        \o IF Pending(r) THEN PacketText(r) ELSE <<>>

-----------------------------------------------------------------------------
MainCall ==
  /\ Calls("system_init")
  /\ Enter("dump_register_loop", AtDptr(FirstReg), 0)
  /\ rom = [a \in MessageAt..(MessageAt + Len(Message) - 1) |-> Message[a - MessageAt + 1]]
  /\ dev = PowerUp(job.regs, [a \in 0..39 |-> 0])
  /\ want = Promised(job.regs)

-----------------------------------------------------------------------------
Running == Calls("system_init")
Acks == {i \in DOMAIN dev.log : dev.log[i][1] = 6668}

(* The text is what is promised, byte for byte: saving DPTR on the stack       *)
(* around phyocp_reg_addr resumes the walk over the PHY registers, and the    *)
(* packet's text comes once, although reading RXRDRL clears it and rx_do      *)
(* reads it again (hello.s:525, hello.s:541, hello.s:595).  The PHY register *)
(* read is the one whose address is printed (hello.s:543).                   *)
Transcript ==
  /\ Running => IsPrefix(dev.out, want)
  /\ pc = <<"dump_phy_loop", 7>> => dev.ocp = Pair(stack[2], stack[1])

(* A packet is acknowledged once, and only when it has been copied from its   *)
(* place in the ring, eight bytes a unit, and printed: after it the ring may  *)
(* reuse the place (hello.s:631, hello.s:663).                               *)
AckAfterUse ==
  Running /\ Acks # {} =>
    /\ Pending(job.regs) /\ Cardinality(Acks) = 1
    /\ dev.out = want
    /\ \A a \in 0..39 : dev.xram[a] = IF a < 32 THEN Received(job.regs, a) ELSE 0
    /\ Pair(dev.sfr["PEDMA_P_ADDR1"], dev.sfr["PEDMA_P_ADDR0"]) = 8 * Ring(job.regs)

(* "Write 1 to ACK packet RX" (hello.s:69): the command written is one.       *)
AckIsOne == Running => \A i \in Acks : dev.log[i][2] = 1
=============================================================================
