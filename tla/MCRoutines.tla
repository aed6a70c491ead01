----------------------------- MODULE MCRoutines -----------------------------
EXTENDS Routines

Cells == {"A", "B", "DPH", "DPL", "R0", "R1", "R2", "R5", "R6", "R7",
          "RCAP2H", "RCAP2L", "TH2", "TL2", "SPC_FNC"} \cup Range(SpiSfrs)

-----------------------------------------------------------------------------
(* Lists.  A register whose low byte is zero, one whose high byte is zero,    *)
(* and one that is not implemented at power on.  0x1a04, which reads to zero, *)
(* is only written: no list of the firmware modifies it, and modifying it is *)
(* not one step on the registers.                                           *)
Addresses == {256, 1, 7474}
AtPowerOn == (256 :> 43605) @@ (1 :> 255) @@ (6660 :> 1)

Writes == {<<a, v>> : a \in Addresses \cup {6660}, v \in {0, 33023}}
Modifies == {<<a, 65471, b>> : a \in Addresses \cup {0}, b \in {0, 320}}
ShortLists == {<<>>} \cup {<<e>> : e \in Writes \cup Modifies}
                \cup {<<e, f>> : e \in Writes, f \in Modifies}

(* reg_initlist, and the entries of reg_initlist2 that meet one another: two   *)
(* writes of 0x130c, and 0x1d32, which reg_initlist writes and it modifies.   *)
FirstList == <<
  <<7461, 65535, 64>>, <<7457, 65535, 64>>, <<7453, 65471, 0>>,
  <<7474, 4>>, <<7487, 256>>, <<4918, 65>> >>
SecondList == <<
  <<6912, 5234>>, <<4876, 4208>>, <<4898, 32>>, <<4876, 5232>>,
  <<6368, 65534, 0>>, <<4869, 16383, 49152>>, <<7474, 65535, 2>> >>

(* The lists as they are assembled, from an address that makes them cross a   *)
(* page.                                                                    *)
Places(l) == FoldLeft(LAMBDA at, e : Append(at, Last(at) + 2 * Len(e)), <<255>>, l)
Image16(e) == [i \in DOMAIN e |-> IF i = 1 /\ Len(e) = 3 THEN 32768 + e[i] ELSE e[i]]
Bytes(l) == LET words == FoldLeft(LAMBDA ws, e : ws \o Image16(e), <<>>, l) \o <<0>>
            IN  [a \in 255..(254 + 2 * Len(words)) |->
                   LET w == words[(a - 255) \div 2 + 1] IN IF (a - 255) % 2 = 0 THEN Hi(w) ELSE Lo(w)]
ListJobs == {[routine |-> "reg_from_initlist", list |-> l, at |-> Places(l), bytes |-> Bytes(l),
              regs |-> AtPowerOn] : l \in ShortLists \cup {FirstList, SecondList}}

-----------------------------------------------------------------------------
(* Ports.  The EEE registers with every bit clear and every bit set; a chip   *)
(* version the routine supports, with and without a high byte, and one it     *)
(* does not; and a chip of which only the version is known.                   *)
Registers(eee, version, prefix) ==
  [p \in {24, 56, 88, 120, 152} |-> eee] @@ (4865 :> version) @@ (7445 :> prefix)
PortJobs == {[routine |-> "port_init1", regs |-> Registers(e, v, p), left |-> b] :
               e \in {0, 65535}, v \in {160, 4304, 1184}, p \in {41, 65535}, b \in {0, 255}}
            \cup {[routine |-> "port_init1", regs |-> (4865 :> 160), left |-> 0]}

(* Every bit of the three fields of a PHY address, the others clear or set    *)
Field(p, m, l) == 2 * (512 * p + 32 * m + l)
Fields == {Field(p, o, o) : p \in {0, 1, 2, 4, 8, 16, 32, 63}, o \in {0, 15}}
            \cup {Field(41, m, o) : m \in {0, 1, 2, 4, 8, 15}, o \in {0, 31}}
            \cup {Field(41, o, l) : o \in {0, 15}, l \in {0, 1, 2, 4, 8, 16, 31}}
AddressJobs == {[routine |-> "phyocp_reg_addr", addr |-> a, port |-> p, prefix |-> old] :
                  a \in Fields, p \in {0, 7}, old \in {0, 65535}}

-----------------------------------------------------------------------------
(* Dumps.  Mapped bytes around a page boundary and at the end of memory.      *)
(* Lines that are not full, exactly full and one byte too long, the wrap of   *)
(* DPTR, and the 256 bytes of hexdump_partial, which borrow from R0.          *)
Around == (224..512) \cup (0..1) \cup (65534..65535)
Pattern == [a \in Around |-> (a * 89) % 256]

Hexdump(s, a, n, b) == [routine |-> "hexdump", source |-> s, from |-> a, count |-> n, left |-> b]
DumpJobs == {Hexdump(s, 250, n, 0) : s \in 0..2, n \in {1, 2, 15, 16, 17, 33}}
            \cup {Hexdump(s, 65535, n, 255) : s \in 0..2, n \in {2, 5}}
            \cup {Hexdump(0, 250, 256, 255)}

-----------------------------------------------------------------------------
(* The packet loop.  The canned packet has 68 bytes; here they all differ.    *)
(* The message crosses a page; the dumps start two switch registers and four  *)
(* PHY registers before their ends.                                         *)
Bytes68 == [i \in 1..68 |-> (37 * i) % 256]
GotPacket == <<71, 111, 116, 13, 10, 0>>
At == 1278
Reg1 == 8190
Phy1 == 54264

(* No packet; packets at the start of the ring, three units further, at a     *)
(* place whose byte address needs the carry of the first product, and at the *)
(* last place the ring has.  0x1d15 as rtl8367s.lua has it, and with a zero   *)
(* high byte.                                                               *)
Board(ready, unit, prefix) ==
  (6660 :> ready) @@ (6661 :> 0) @@ (6664 :> 255) @@ (6665 :> 0)
  @@ (6736 :> unit % 256) @@ (6737 :> unit \div 256)
  @@ (6738 :> 0) @@ (6739 :> 3) @@ (7445 :> prefix) @@ (8190 :> 5)
Loop(board) == [routine |-> "system_init", regs |-> board]
LoopJobs == {Loop(Board(n, u, p)) : n \in {0, 255}, u \in {0, 3, 200, 764}, p \in {41, 2665}}

-----------------------------------------------------------------------------
(* The test of the RTL8372.  Two bytes of every part, of which the last one   *)
(* read through SSIO is the third; the end of SRAM; the last registers and    *)
(* the pin multiplexer, which the emulator has no value for at power on, and  *)
(* a value that has all other bits both ways.                               *)
Names == <<"hello", "spi", "crlf", "dumpcode", "dumpxram", "dumpxstack", "bank0", "bank1", "bank2">>
Place(name) == CHOOSE i \in DOMAIN Names : Names[i] = name
Texts == [n \in Range(Names) |-> IF n = "crlf" THEN <<13, 10>> ELSE <<64 + Place(n), 97>>]
TextsAt == [n \in Range(Names) |-> 250 + 4 * Place(n)]
TwoBytes == 2
NearEnd == 49148
LastWords == 65524
PartBytes == UNION {a..(a + 2) : a \in {0, 16384, 32768, 49152}}
SramHere == {a \in PartBytes \cup (49148..49151) : a < 49152}
TextImage == [i \in UNION {TextsAt[n]..(TextsAt[n] + Len(Texts[n])) : n \in Range(Names)} |->
                LET n == CHOOSE m \in Range(Names) : i \in TextsAt[m]..(TextsAt[m] + Len(Texts[m]))
                IN  IF i = TextsAt[n] + Len(Texts[n]) THEN 0 ELSE Texts[n][i - TextsAt[n] + 1]]
Image == [i \in {65536 * bank + a : bank \in 0..2, a \in PartBytes} |->
            (97 * (i \div 16384) + 31 * (i % 16384)) % 256] @@ TextImage
Spi == [n \in Range(SpiSfrs) |-> IF n = "SPI_S_RCMD" THEN 0 ELSE 17 * Len(n)]
TestJobs == {[routine |-> "test", regs |-> r, image |-> Image, spi |-> Spi] :
               r \in {65532 :> <<1, 2, 3, 4>>, 32656 :> <<165, 0, 255, 90>>}}

AllJobs == ListJobs \cup PortJobs \cup AddressJobs \cup DumpJobs \cup LoopJobs \cup TestJobs
OneLoop == {Loop(Board(1, 0, 2665))}
=============================================================================
