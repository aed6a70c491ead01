----------------------------- MODULE MemoryMap -----------------------------
(***************************************************************************)
(* The memory of the emulator: the page tables of 8051emu/core.c, the bank  *)
(* registers and the flash window of 8051emu/rtl8367s.lua.                  *)
(* A table has an entry for every address; the code, which only maps whole  *)
(* pages, has one for every 256.                                            *)
(***************************************************************************)
EXTENDS FlashImage

CONSTANTS Byte, Open,          \* as in BankedMemory
          Addresses, Commands,
          Stored,              \* bound: where a program stores ...
          Values,              \* ... and which bytes
          Zero                 \* the byte RAM starts with

ASSUME ByteAssumption ==
  /\ Open \in Byte /\ Fill \in Byte /\ Zero \in Byte /\ Values \subseteq Byte
  /\ \A i \in Linear : Image[i] \in Byte
ASSUME RegisterAssumption ==
  /\ Addresses \subseteq {x \in Linear : x + 3 \in Linear}
  /\ Stored \subseteq 0..Size - 1

VARIABLES rompage, xrampage,   \* where the byte of a code or XRAM address is
          readonly,            \* the addresses xramfnwr guards
          rom, sram,           \* the two buffers
          pcx, databank,       \* the registers CODE_BANK and DATA_BANK set
          topbank,             \* history: the last data bank other than 0
          adr, cmd, word       \* spis_addr, spis_rcmd, spis_data

maps == <<rompage, xrampage, readonly, pcx, databank, topbank>>
buffers == <<rom, sram>>
spis == <<adr, cmd, word>>
vars == <<maps, buffers, spis>>

Addr == 0..Size - 1
Unmapped == [buf |-> "none", at |-> 0]
InSram(k) == [buf |-> "sram", at |-> k]
InRom(k) == [buf |-> "rom", at |-> k]

-----------------------------------------------------------------------------
(* core.c: lookups *)

Readx(a) == LET p == xrampage[a] IN
  CASE p.buf = "sram" -> sram[p.at] [] p.buf = "rom" -> rom[p.at] [] OTHER -> Open
Readc(a) == IF rompage[a] = Unmapped THEN Open ELSE rom[rompage[a].at]

(* rtl8367s.lua: the maps after a bank register has been written *)
CodeMap(n) == [a \in Addr |-> IF a >= Common THEN InRom(a + (n * Size)) ELSE rompage[a]]
DataMapShort(n) ==
  [a \in Addr |-> CASE n = 0 /\ a < Window - 1 -> InSram(a)
                    [] n # 0 /\ a >= Common -> InRom(a + (n * Size))
                    [] OTHER -> xrampage[a]]
DataMap(n) ==
  [a \in Addr |-> CASE n = 0 /\ a < Window -> InSram(a)
                    [] n # 0 /\ a >= Common -> InRom(a + (n * Size))
                    [] OTHER -> xrampage[a]]
GuardForgotten(n) == readonly
Guard(n) ==
  [a \in Addr |-> CASE n = 0 /\ a < Window -> FALSE
                    [] n # 0 /\ a >= Common -> TRUE
                    [] OTHER -> readonly[a]]

-----------------------------------------------------------------------------
(* The script's globals start as numbers, rtl8367s.lua:8-15                  *)
SpisInit == adr = 0 /\ cmd = 0 /\ word = [i \in 0..3 |-> Fill]
Init == /\ rompage = [a \in Addr |-> IF a < Common THEN InRom(a) ELSE Unmapped]
        /\ xrampage = [a \in Addr |-> IF a < Window THEN InSram(a) ELSE Unmapped]
        /\ readonly = [a \in Addr |-> FALSE]
        /\ rom = Unpacked /\ sram = [a \in 0..Window - 1 |-> Zero]
        /\ pcx = 0 /\ databank = 0 /\ topbank = 0
        /\ SpisInit

WriteCodeBank(n) ==
  /\ pcx' = n /\ rompage' = CodeMap(n)
  /\ UNCHANGED <<xrampage, readonly, databank, topbank, buffers, spis>>

WriteDataBank(n) ==
  /\ databank' = n /\ xrampage' = DataMap(n) /\ readonly' = Guard(n)
  /\ topbank' = IF n = 0 THEN topbank ELSE n
  /\ UNCHANGED <<rompage, pcx, buffers, spis>>

Writex(a, v) ==
  LET p == xrampage[a] IN
  /\ sram' = IF ~readonly[a] /\ p.buf = "sram" THEN [sram EXCEPT ![p.at] = v] ELSE sram
  /\ rom' = IF ~readonly[a] /\ p.buf = "rom" THEN [rom EXCEPT ![p.at] = v] ELSE rom
  /\ UNCHANGED <<maps, spis>>

WriteSpisAddr(x) == adr' = x /\ UNCHANGED <<maps, buffers, cmd, word>>
WriteSpisRcmd(c) == cmd' = c /\ UNCHANGED <<maps, buffers, adr, word>>
WriteSpisData(i, v) == word' = [word EXCEPT ![i] = v] /\ UNCHANGED <<maps, buffers, adr, cmd>>

(* Every value written to CACHE_CTRL starts the command: in Lua, 0 is true    *)
WriteCacheCtrl ==
  /\ word' = CASE cmd = 5 -> [word EXCEPT ![0] = Fill]
               [] cmd = 187 -> [i \in 0..3 |-> rom[WindowAddr(adr) + i]]
               [] OTHER -> word
  /\ UNCHANGED <<maps, buffers, adr, cmd>>

Next == \/ \E n \in 0..Banks : WriteCodeBank(n) \/ WriteDataBank(n)
        \/ \E a \in Stored, v \in Values : Writex(a, v)
        \/ \E x \in Addresses : WriteSpisAddr(x)
        \/ \E c \in Commands : WriteSpisRcmd(c)
        \/ \E i \in 0..3, v \in Values : WriteSpisData(i, v)
        \/ WriteCacheCtrl

Spec == Init /\ [][Next]_vars

-----------------------------------------------------------------------------
TypeOK == /\ sram \in [0..Window - 1 -> Byte] /\ word \in [0..3 -> Byte]
          /\ pcx \in 0..Banks /\ databank \in 0..Banks /\ topbank \in 0..Banks
          /\ adr \in Addresses \cup {0} /\ cmd \in Commands \cup {0}

(* No sequence of bank switches and stores reaches the image: a mapping of    *)
(* the ROM into XRAM is always guarded (core.c:154, rtl8367s.lua:12400).     *)
ImageIntact == rom = Unpacked

(* Bank switches, stores and flash reads act on the linear image and the RAM  *)
(* as the registers say, with no trace of the tables; where a read leaves the *)
(* linear image, BankedMemory says what it brings instead                    *)
(* (rtl8367s.lua:12334-12404, core.c:133-205).                              *)
Memory == INSTANCE BankedMemory WITH
  code <- IF rompage[Common] = Unmapped THEN -1 ELSE pcx,
  data <- databank, top <- topbank, ram <- sram
ActsBanked == Memory!Spec

(* And a fetch or a load of any address reads the byte of the linear image or *)
(* the RAM that the registers select (core.c:165-178, 296-304).              *)
ReadsBanked == \A a \in Addr : Readc(a) = Memory!CodeByte(a) /\ Readx(a) = Memory!DataByte(a)
=============================================================================
