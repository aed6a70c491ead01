------------------------------ MODULE TestDump ------------------------------
(***************************************************************************)
(* The test firmware of the RTL8372 (rtl8372/hello.asm): it enables the      *)
(* serial port, fills XRAM with a pattern and prints code memory and XRAM in *)
(* three banks, XRAM again through the second stack, and the registers.  The *)
(* job has the registers and the flash image before.                        *)
(***************************************************************************)
EXTENDS Routine, Hello72

CONSTANTS Text,        \* the bytes of each text, without the zero
          SramBytes    \* the addresses of SRAM that are modelled

-----------------------------------------------------------------------------
(* The text.  The pattern: at an even address its low byte, at an odd one    *)
(* its high byte; then two bytes that would go to code memory if SPC_FNC did *)
(* what its name says, and go to XRAM.                                       *)
Pattern72(a) == CASE a = 0 -> 90 [] a = 1 -> 180
                  [] a > 1 /\ a < FirstFill -> 0
                  [] OTHER -> IF a % 2 = 0 THEN Lo(a) ELSE Hi(a)
InImage(bank, a) == LET i == 65536 * bank + a IN IF i \in DOMAIN job.image THEN job.image[i] ELSE 255
InCode(bank, a) == InImage(IF a < 16384 THEN 0 ELSE bank, a)
InXram(bank, a) == IF bank > 0 /\ a >= 16384 THEN InImage(bank, a)
                   ELSE IF a < 49152 THEN Pattern72(a) ELSE 255

Parts(byte(_)) == HexDump(byte, 0, PartSize) \o HexDump(byte, 16384, PartSize)
                    \o HexDump(byte, 32768, PartSize) \o HexDump(byte, 49152, PartSize)
BankText(view(_, _), name, bank) == LET byte(a) == view(bank, a) IN Text[name] \o Parts(byte)
BankTexts(view(_, _)) ==
  BankText(view, "bank0", 0) \o BankText(view, "bank1", 1) \o BankText(view, "bank2", 2)
Through(a) == InXram(2, (a + 1) % 65536)

Low1(v) == [v EXCEPT ![4] = @ - (@ % 2) + 1]
Registers72 == (32656 :> Low1(RegValue72(job.regs, 32656))) @@ job.regs
WordLine(a) == Hex16(a) \o <<58>> \o Together([i \in 1..4 |-> Hex(RegValue72(Registers72, a)[i])]) \o Newline

Promised72 ==
  Text["hello"] \o Text["spi"] \o Together([i \in DOMAIN SpiSfrs |-> Hex(job.spi[SpiSfrs[i]])]) \o Text["crlf"]
    \o Text["dumpcode"] \o BankTexts(InCode)
    \o Text["dumpxram"] \o BankTexts(InXram)
    \o Text["dumpxstack"] \o Parts(Through)
    \o Together([i \in 1..((65536 - FirstWord) \div 4) |-> WordLine(FirstWord + 4 * (i - 1))])

-----------------------------------------------------------------------------
TestCall ==
  /\ Calls("test")
  /\ Enter("system_init", job.spi, 0)
  /\ rom = <<>>
  /\ dev = PowerUp72(job.regs, job.image, [a \in SramBytes |-> 0])
  /\ want = Promised72

-----------------------------------------------------------------------------
(* What the test firmware prints is what is in code memory, XRAM and the      *)
(* registers, byte for byte: a bank selected for one dump shows up in the      *)
(* parts it maps and in no other, the dump through the second stack is one    *)
(* byte ahead and sees the data bank left selected, and the one register it   *)
(* writes keeps its other 31 bits although reads and writes share the data    *)
(* registers (hello.asm:195, hello.asm:243, hello.asm:292, hello.asm:310).    *)
PrintsMachine ==
  Calls("test") =>
    /\ IsPrefix(dev.out, want) /\ (pc[1] = "halt" => dev.out = want)
    /\ dev.log \in {<<>>, << <<32656, Registers72[32656]>> >>}
    /\ pc[1] = "dump_word_loop" => dev.regs = Registers72
=============================================================================
