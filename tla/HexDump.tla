------------------------------ MODULE HexDump ------------------------------
(***************************************************************************)
(* hexdump (rtl8367/asm/hello.s): it prints R0:R1 bytes from DPTR on, of    *)
(* code memory, of XRAM or through the second stack, as R7 says.  The job   *)
(* has the source, the address and the number of bytes.                     *)
(***************************************************************************)
EXTENDS Routine

CONSTANT Memory   \* the mapped bytes: the same in code memory and in XRAM

ASSUME MemoryAssumption == DOMAIN Memory \subseteq Word /\ Memory \in [DOMAIN Memory -> Byte]
ASSUME DumpCellAssumption == {"A", "B", "DPH", "DPL", "R0", "R1", "R2", "R7"} \subseteq Cell
ASSUME DumpProgramAssumption == /\ \A label \in DOMAIN Serial : Code[label] = Serial[label]
                                /\ \A label \in DOMAIN Dump : Code[label] = Dump[label]

(* The byte at an address: 0xff where nothing is mapped; through the second   *)
(* stack, the byte shown is the next one (hello.s:163).                      *)
Mapped(a) == IF a \in DOMAIN Memory THEN Memory[a] ELSE 255
ShownFor(source, a) == Mapped(IF source = 2 THEN (a + 1) % 65536 ELSE a)

(* R0:R1 has the number of bytes; zero stands for 65536.                      *)
Amount == 1..65536

DumpCall ==
  /\ Calls("hexdump")
  /\ job.from \in Word /\ job.count \in Amount /\ job.source \in 0..2 /\ job.left \in Byte
  /\ Enter("hexdump", [DPH |-> Hi(job.from), DPL |-> Lo(job.from), R0 |-> Hi(Wrap(job.count)),
                       R1 |-> Lo(job.count), R7 |-> job.source], job.left)
  /\ rom = Memory
  /\ dev = PowerUp(<<>>, Memory)
  /\ want = LET byte(a) == ShownFor(job.source, a) IN HexDump(byte, job.from, job.count)

-----------------------------------------------------------------------------
(* What has been sent is always the beginning of the dump asked for, and all *)
(* of it once hexdump returns: R2, which counts the bytes of a line, F0,      *)
(* which asks for an address, and R0:R1 never disagree, also when a borrow    *)
(* goes from R1 into R0 (hello.s:208).  Through SSIO the byte shown for an    *)
(* address is the next one (hello.s:163).  A dump does not write XRAM, and    *)
(* DPTR ends just after the last byte.                                       *)
PrintsDump ==
  Calls("hexdump") => /\ IsPrefix(dev.out, want) /\ dev.xram = Memory
                      /\ Over => /\ dev.out = want
                                 /\ Dptr = (job.from + job.count) % 65536
=============================================================================
