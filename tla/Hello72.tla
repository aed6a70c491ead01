------------------------------ MODULE Hello72 ------------------------------
(***************************************************************************)
(* system_init of rtl8372/hello.asm as a program of the instruction core.    *)
(* Its serial, dump and register routines are those of hello.s; its          *)
(* dump_register_loop is dump_word_loop here, hello.s having one as well.    *)
(***************************************************************************)
EXTENDS Hello, Report

CONSTANTS TextAt,      \* where each text is in code memory
          PartSize,    \* the bytes of each part of hexdump_partial: 256
          FirstFill,   \* where the loop that fills XRAM starts: 0
          FirstWord    \* where the dump of the registers starts: 0

SpiSfrs == <<"SPI_IO_CONF", "SPI_RI_CONF", "SPI_RI_CMD", "SPI_S_CONF",
             "SPI_S_ACCESS", "SPI_S_RCMD", "SPI_S_WCMD", "SPI_DSEL_CYCLE">>
Say(text) == << <<"mov_dptr", TextAt[text]>>, <<"call", "serial_puts">> >>
SayState == Together([i \in DOMAIN SpiSfrs |-> SendHex(SpiSfrs[i])])

Part(addr) == << <<"mov_dptr", addr>>, <<"movi", "R0", Hi(PartSize)>>, <<"movi", "R1", Lo(PartSize)>> >>
DumpPart == << <<"call", "hexdump_partial">> >>
DumpBank(sfr, bank, text) == << <<"movi", sfr, bank>> >> \o Say(text) \o DumpPart
DumpBanks(sfr) == DumpBank(sfr, 0, "bank0") \o DumpBank(sfr, 1, "bank1") \o DumpBank(sfr, 2, "bank2")

(* The pin multiplexer: of the 32 bits read only one is changed              *)
SetPinMux ==
  ReadReg(32656) \o << <<"movx", "A", "INDACC_DATA_0">>, <<"set_a0">>,
                       <<"movx", "INDACC_DATA_0", "A">>, <<"call", "reg_write">> >>
SetUart == << <<"movi", "RCAP2H", 255>>, <<"movi", "RCAP2L", 245>>, <<"movi", "T2CON", 52>>,
              <<"movi", "SCON", 82>>, <<"movx", "A", "PCON">>, <<"set_a7">>, <<"movx", "PCON", "A">>,
              <<"movi", "TH2", 255>>, <<"movi", "TL2", 255>> >>

Main72 == [
  hexdump_partial |-> Closed(
    Part(0) \o << <<"call", "hexdump">> >> \o Part(16384) \o << <<"call", "hexdump">> >>
    \o Part(32768) \o << <<"call", "hexdump">> >> \o Part(49152) \o << <<"jmp", "hexdump">> >>),
  system_init |-> Block(
    << <<"movi", "DATA_BANK", 0>>, <<"movi", "SSPL", 128>>, <<"movi", "SSPH", 128>> >>
    \o SetPinMux \o SetUart \o Say("hello") \o Say("spi") \o SayState \o Say("crlf")
    \o << <<"movi", "DATA_BANK", 0>>, <<"mov_dptr", FirstFill>> >>, "xram_fill_loop"),
  xram_fill_loop |-> Block(
    << <<"movx", "A", "DPL">>, <<"movx_store">>, <<"inc_dptr">>,
       <<"movx", "A", "DPH">>, <<"movx_store">>, <<"inc_dptr">>,
       <<"movx", "A", "DPH">>, <<"cjne", "A", 192, "xram_fill_loop">>,
       <<"mov_dptr", 0>>, <<"movi", "A", 90>>, <<"movi", "SPC_FNC", 1>>, <<"movx_store">>,
       <<"inc_dptr">>, <<"movi", "A", 180>>, <<"movi", "SPC_FNC", 1>>, <<"movx_store">>,
       <<"movi", "SPC_FNC", 0>>, <<"movi", "R7", 0>> >>
    \o Say("dumpcode") \o DumpBanks("CODE_BANK")
    \o << <<"movi", "R7", 1>> >> \o Say("dumpxram") \o DumpBanks("DATA_BANK")
    \o << <<"movi", "R7", 2>> >> \o Say("dumpxstack") \o DumpPart
    \o << <<"mov_dptr", FirstWord>> >>, "dump_word_loop"),
  dump_word_loop |-> Block(
    << <<"call", "hexaddr">>, <<"call", "reg_read">> >>
    \o SendHex("INDACC_DATA_24") \o SendHex("INDACC_DATA_16")
    \o SendHex("INDACC_DATA_8") \o SendHex("INDACC_DATA_0")
    \o << <<"call", "serial_newline">>, <<"inc_dptr">>, <<"inc_dptr">>, <<"inc_dptr">>, <<"inc_dptr">>,
          <<"movx", "A", "DPL">>, <<"orlx", "DPH">>, <<"jnz", "dump_word_loop">> >>, "halt"),
  halt |-> Closed(<< <<"jmp", "halt">> >>)]
=============================================================================
