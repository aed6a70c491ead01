------------------------------- MODULE Hello -------------------------------
(***************************************************************************)
(* The routines of rtl8367/asm/hello.s as programs of the instruction core: *)
(* one block per label, with the label control falls through to.            *)
(***************************************************************************)
EXTENDS Core

Block(code, then) == [code |-> code, then |-> then]
Closed(code) == Block(code, "none")

(* serial_hex, serial_hex_nibble, serial_hex_digit, serial_write *)
Serial == [
  serial_hex |-> Block(<<
    <<"xch", "B">>, <<"movx", "A", "B">>, <<"swap">>, <<"anli", 15>>,
    <<"call", "serial_hex_nibble">>, <<"movx", "A", "B">>, <<"anli", 15>> >>,
    "serial_hex_nibble"),
  serial_hex_nibble |-> Block(<<
    <<"clrb", "C">>, <<"subbi", 10>>, <<"jc", "serial_hex_digit">>, <<"addi", 39>> >>,
    "serial_hex_digit"),
  serial_hex_digit |-> Block(<< <<"addi", 58>> >>, "serial_write"),
  serial_write |-> Block(<< <<"clrb", "TI">>, <<"movx", "SBUF", "A">> >>,
    "serial_write_wait"),
  serial_write_wait |-> Closed(<< <<"jnb", "TI", "serial_write_wait">>, <<"ret">> >>),
  serial_newline |-> Closed(<<
    <<"movi", "A", 13>>, <<"call", "serial_write">>,
    <<"movi", "A", 10>>, <<"call", "serial_write">>, <<"ret">> >>)]

(* A line of a dump is full: the next one starts with its address *)
NextLineNoAddress == << <<"movi", "R2", 16>>, <<"call", "serial_newline">> >>
NextLine == << <<"movi", "R2", 16>>, <<"call", "serial_newline">>, <<"setb", "F0">> >>

(* read_byte, hexaddr, hexdump *)
Dump == [
  read_byte |-> Block(<<
    <<"movx", "A", "R7">>, <<"jz", "read_code_byte">>, <<"dec", "A">>,
    <<"jz", "read_data_byte">> >>, "read_stack_byte"),
  read_stack_byte |-> Closed(<<
    <<"movx", "A", "DPL">>, <<"addi", 1>>, <<"movx", "SSPL", "A">>,
    <<"movx", "A", "DPH">>, <<"addci", 0>>, <<"movx", "SSPH", "A">>,
    <<"movx", "A", "SSIO">>, <<"ret">> >>),
  read_code_byte |-> Closed(<< <<"movi", "A", 0>>, <<"movc">>, <<"ret">> >>),
  read_data_byte |-> Closed(<< <<"movx_dptr">>, <<"ret">> >>),
  hexaddr |-> Closed(<<
    <<"movx", "A", "DPH">>, <<"call", "serial_hex">>,
    <<"movx", "A", "DPL">>, <<"call", "serial_hex">>,
    <<"movi", "A", 58>>, <<"call", "serial_write">>, <<"ret">> >>),
  hexdump |-> Block(<< <<"setb", "F0">>, <<"movi", "R2", 16>> >>, "hexdump_loop"),
  hexdump_loop |-> Block(<<
    <<"jnb", "F0", "hexdump_noaddr">>, <<"call", "hexaddr">>, <<"clrb", "F0">> >>,
    "hexdump_noaddr"),
  hexdump_noaddr |-> Block(<<
    <<"movi", "A", 32>>, <<"call", "serial_write">>, <<"call", "read_byte">>,
    <<"call", "serial_hex">>, <<"inc_dptr">>, <<"djnz", "R2", "hexdump_nonewline">> >>
    \o NextLine, "hexdump_nonewline"),
  hexdump_nonewline |-> Closed(<<
    <<"clrb", "C">>, <<"movx", "A", "R1">>, <<"subbi", 1>>, <<"movx", "R1", "A">>,
    <<"movx", "A", "R0">>, <<"subbi", 0>>, <<"movx", "R0", "A">>,
    <<"orlx", "R1">>, <<"jnz", "hexdump_loop">>, <<"ret">> >>)]

(* reg_read, reg_write *)
Reg == [
  reg_read |-> Block(<<
    <<"movx", "INDACC_ADDR_H", "DPH">>, <<"movx", "INDACC_ADDR_L", "DPL">>,
    <<"movi", "INDACC_CMD", 1>> >>, "reg_status_loop"),
  reg_status_loop |-> Closed(<<
    <<"movx", "A", "INDACC_STATUS">>, <<"cjne", "A", 0, "reg_status_loop">>, <<"ret">> >>),
  reg_write |-> Closed(<<
    <<"movx", "INDACC_ADDR_H", "DPH">>, <<"movx", "INDACC_ADDR_L", "DPL">>,
    <<"movi", "INDACC_CMD", 3>>, <<"jmp", "reg_status_loop">> >>)]

(* The next byte of the list: CLR A; MOVC A, @A+DPTR; INC DPTR *)
Clr  == <<"movi", "A", 0>>
Movc == <<"movc">>
Inc  == <<"inc_dptr">>

(* In reg_from_initlist a word of zero ends the list: A holds its low byte *)
InitListCode == [
  reg_from_initlist_done |-> Closed(<< <<"ret">> >>),
  reg_from_initlist |-> Block(<<
    Clr, Movc, Inc, <<"movx", "B", "A">>, <<"clr_a7">>, <<"movx", "INDACC_ADDR_H", "A">>,
    Clr, Movc, Inc, <<"movx", "INDACC_ADDR_L", "A">>, <<"jb", "B.7", "reg_from_initlist_rmw">>,
    <<"orlx", "INDACC_ADDR_H">>, <<"jz", "reg_from_initlist_done">>,
    Clr, Movc, Inc, <<"movx", "INDACC_WDATA_H", "A">>,
    Clr, Movc, Inc, <<"movx", "INDACC_WDATA_L", "A">> >>, "reg_from_initlist_write"),
  reg_from_initlist_write |-> Closed(<<
    <<"movi", "INDACC_CMD", 3>>, <<"call", "reg_status_loop">>, <<"jmp", "reg_from_initlist">> >>),
  reg_from_initlist_rmw |-> Closed(<<
    <<"movi", "INDACC_CMD", 1>>, <<"call", "reg_status_loop">>,
    Clr, Movc, Inc, <<"anlx", "INDACC_RDATA_H">>, <<"movx", "INDACC_WDATA_H", "A">>,
    Clr, Movc, Inc, <<"anlx", "INDACC_RDATA_L">>, <<"movx", "INDACC_WDATA_L", "A">>,
    Clr, Movc, Inc, <<"orlx", "INDACC_WDATA_H">>, <<"movx", "INDACC_WDATA_H", "A">>,
    Clr, Movc, Inc, <<"orlx", "INDACC_WDATA_L">>, <<"movx", "INDACC_WDATA_L", "A">>,
    <<"jmp", "reg_from_initlist_write">> >>)]

(* Register address base + 0x20 * R7 *)
AddPort == <<
    <<"movx", "A", "R7">>, <<"movi", "B", 32>>, <<"mul">>, <<"push", "B">>,
    <<"movx", "B", "A">>, <<"movx", "A", "DPL">>, <<"addx", "B">>, <<"movx", "DPL", "A">>,
    <<"movx", "A", "DPH">>, <<"pop", "B">>, <<"addcx", "B">>, <<"movx", "DPH", "A">> >>

ShiftPlain(name) == << <<"movx", "A", name>>, <<"rr">> >>
Shift(name) == << <<"movx", "A", name>>, <<"rrc">> >>

(* The bits of 0x1d15 that are not part of the prefix *)
KeptBits == << <<"movx", "A", "INDACC_RDATA_L">>, <<"anli", 192>>, <<"movx", "B", "A">> >>

(* The prefix, its top six bits in the low byte of 0x1d15; the port's row of the window *)
PrefixRead == <<
    <<"movx", "R6", "DPH">>, <<"movx", "R5", "DPL">>, <<"mov_dptr", 7445>>, <<"call", "reg_read">>,
    <<"movx", "A", "INDACC_RDATA_H">>, <<"movx", "INDACC_WDATA_H", "A">> >>
PrefixWrite == <<
    <<"movx", "A", "R6">>, <<"rr">>, <<"rr">>, <<"anli", 63>>, <<"orlx", "B">>,
    <<"movx", "INDACC_WDATA_L", "A">>, <<"call", "reg_write">>, <<"mov_dptr", 8192>> >>
AddLow == <<
    <<"anli", 31>>, <<"addx", "B">>, <<"movx", "DPL", "A">>,
    <<"movx", "A", "DPH">>, <<"addci", 0>>, <<"movx", "DPH", "A">> >>
AddMiddle == <<
    <<"swap">>, <<"anli", 15>>, <<"addx", "DPH">>, <<"movx", "DPH", "A">>, <<"ret">> >>

PhyOcp == [
  phyocp_reg_addr |-> Closed(
    PrefixRead \o KeptBits \o PrefixWrite
    \o AddPort \o << <<"movx", "B", "DPL">> >>
    \o Shift("R5") \o AddLow
    \o Shift("R6") \o << <<"movx", "R6", "A">> >>
    \o Shift("R5") \o << <<"movx", "R5", "A">> >>
    \o Shift("R6") \o << <<"movx", "R6", "A">> >>
    \o Shift("R5") \o AddMiddle)]

(* Read a register, change a byte of it by one or two instructions, write it back *)
ChangeHighOnly(op) == <<
    <<"call", "reg_read">>, <<"movx", "A", "INDACC_RDATA_H">>, op, <<"movx", "INDACC_WDATA_H", "A">>,
    <<"call", "reg_write">> >>
ChangeHigh(op) == <<
    <<"call", "reg_read">>, <<"movx", "A", "INDACC_RDATA_H">>, op, <<"movx", "INDACC_WDATA_H", "A">>,
    <<"movx", "A", "INDACC_RDATA_L">>, <<"movx", "INDACC_WDATA_L", "A">>, <<"call", "reg_write">> >>
ChangeHighTwice(op, also) == <<
    <<"call", "reg_read">>, <<"movx", "A", "INDACC_RDATA_H">>, op, also, <<"movx", "INDACC_WDATA_H", "A">>,
    <<"movx", "A", "INDACC_RDATA_L">>, <<"movx", "INDACC_WDATA_L", "A">>, <<"call", "reg_write">> >>
ChangeLow(op) == <<
    <<"call", "reg_read">>, <<"movx", "A", "INDACC_RDATA_H">>, <<"movx", "INDACC_WDATA_H", "A">>,
    <<"movx", "A", "INDACC_RDATA_L">>, op, <<"movx", "INDACC_WDATA_L", "A">>, <<"call", "reg_write">> >>
AtPhy(addr) == << <<"mov_dptr", addr>>, <<"call", "phyocp_reg_addr">> >>

(* The magic number is written; the rest is for one chip version *)
IfSupported == <<
    <<"mov_dptr", 5058>>, <<"movi", "INDACC_WDATA_H", 2>>, <<"movi", "INDACC_WDATA_L", 73>>,
    <<"call", "reg_write">>, <<"mov_dptr", 4865>>, <<"call", "reg_read">>,
    <<"movx", "A", "INDACC_RDATA_L">>, <<"anli", 240>>, <<"cjne", "A", 160, "port_init_phyocp_exit">> >>

PortInitCode == [
  port_init_eee |-> Closed(
    << <<"mov_dptr", 24>> >> \o AddPort \o ChangeHigh(<<"orli", 15>>) \o << <<"ret">> >>),
  port_init_phyocp |-> Block(
    AtPhy(42024) \o ChangeHigh(<<"anli", 253>>) \o IfSupported
    \o AtPhy(42448) \o ChangeLow(<<"orli", 6>>)
    \o AtPhy(41984) \o ChangeHighTwice(<<"anli", 247>>, <<"orli", 2>>),
    "port_init_phyocp_exit"),
  port_init_phyocp_exit |-> Closed(<< <<"ret">> >>),
  port_init1 |-> Block(<< <<"movi", "R7", 0>> >>, "port_init1_loop"),
  port_init1_loop |-> Closed(<<
    <<"call", "port_init_eee">>, <<"call", "port_init_phyocp">>,
    <<"inc", "R7">>, <<"cjne", "R7", 5, "port_init1_loop">>, <<"ret">> >>)]

-----------------------------------------------------------------------------
(* The main program after port_init1 *)
CONSTANTS MessageAt,   \* where message_got_packet is
          FirstPhy     \* where the dump of the PHY registers starts: 0xa400

Puts == [
  serial_puts |-> Closed(<<
    <<"movi", "A", 0>>, <<"movc">>, <<"jz", "serial_end">>, <<"inc_dptr">>,
    <<"call", "serial_write">>, <<"jmp", "serial_puts">> >>),
  serial_end |-> Closed(<< <<"ret">> >>)]

SendHex(name) == << <<"movx", "A", name>>, <<"call", "serial_hex">> >>
Space == << <<"movi", "A", 32>>, <<"call", "serial_write">> >>
ReadReg(addr) == << <<"mov_dptr", addr>>, <<"call", "reg_read">> >>
Show(addr) == ReadReg(addr) \o SendHex("INDACC_RDATA_L")
Times4(name) == << <<"movx", "A", name>>, <<"movi", "B", 4>>, <<"mul">> >>
Times8(name) == << <<"movx", "A", name>>, <<"movi", "B", 8>>, <<"mul">> >>
SendValue == SendHex("INDACC_RDATA_H") \o SendHex("INDACC_RDATA_L")
                \o << <<"call", "serial_newline">> >>

Main == [
  dump_register_loop |-> Block(
    << <<"call", "hexaddr">>, <<"call", "reg_read">> >> \o SendValue
    \o << <<"inc_dptr">>, <<"movx", "A", "DPH">>, <<"cjne", "A", 32, "dump_register_loop">>,
          <<"movi", "R7", 0>>, <<"mov_dptr", FirstPhy>> >>,
    "dump_phy_loop"),
  dump_phy_loop |-> Block(
    << <<"call", "hexaddr">>, <<"push", "DPL">>, <<"push", "DPH">>,
       <<"call", "phyocp_reg_addr">>, <<"call", "hexaddr">>, <<"call", "reg_read">>,
       <<"pop", "DPH">>, <<"pop", "DPL">> >>
    \o SendValue
    \o << <<"inc_dptr">>, <<"inc_dptr">>, <<"movx", "A", "DPH">>,
          <<"cjne", "A", 212, "dump_phy_loop">> >>,
    "rx_loop"),
  rx_loop |-> Block(
    ReadReg(6660) \o << <<"movx", "A", "INDACC_RDATA_L">>, <<"jnz", "rx_do">> >>
    \o ReadReg(6661) \o << <<"movx", "A", "INDACC_RDATA_L">>, <<"jz", "rx_loop">> >>,
    "rx_do"),
  rx_do |-> Block(
    Show(6665) \o Show(6664) \o Space \o Show(6739) \o Show(6738) \o Space
    \o Show(6661) \o Show(6660) \o Space
    \o ReadReg(6737) \o << <<"movx", "A", "INDACC_RDATA_L">>, <<"movx", "R0", "A">> >>
    \o << <<"call", "serial_hex">> >>
    \o ReadReg(6736) \o << <<"movx", "A", "INDACC_RDATA_L">>, <<"movx", "R1", "A">> >>
    \o << <<"call", "serial_hex">> >> \o Space
    \o << <<"movi", "PEDMA_E_ADDR0", 0>>, <<"movi", "PEDMA_E_ADDR1", 0>> >>
    \o Times8("R1") \o << <<"movx", "R1", "A">>, <<"movx", "R2", "B">> >>
    \o Times8("R0") \o << <<"addx", "R2">>, <<"movx", "R0", "A">>,
                           <<"movx", "PEDMA_P_ADDR0", "R1">>,
                           <<"movx", "PEDMA_P_ADDR1", "R0">>, <<"movi", "PEDMA_LEN", 4>> >>,
    "rx_wait"),
  rx_wait |-> Closed(
    << <<"movx", "A", "PEDMA_LEN">>, <<"jnz", "rx_wait">>,
       <<"mov_dptr", MessageAt>>, <<"call", "serial_puts">>,
       <<"movi", "R7", 1>>, <<"mov_dptr", 0>>, <<"movi", "R0", 0>>, <<"movi", "R1", 32>>,
       <<"call", "hexdump">>,
       <<"mov_dptr", 6668>>, <<"movi", "INDACC_WDATA_L", 1>>, <<"call", "reg_write">>,
       <<"jmp", "rx_loop">> >>)]
=============================================================================
