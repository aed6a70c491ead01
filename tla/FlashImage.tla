----------------------------- MODULE FlashImage -----------------------------
(***************************************************************************)
(* The flash image of a banked chip: the linear file, the file of 64 KiB    *)
(* banks 8051emu/unpackrtl.py makes of it, and the address by which         *)
(* 8051emu/rtl8367s.lua finds a linear address in that file.                *)
(***************************************************************************)
EXTENDS Integers

CONSTANTS Common,   \* bytes of the area all banks share (0x4000)
          Window,   \* bytes of the area a bank fills (0xc000)
          Banks,    \* windows in the image
          Image,    \* the linear file, whose last window is full
          Fill      \* the zero byte

Header == 2
Size == Common + Window
Linear == 0..(Common + Banks * Window - 1)
Buffer == 0..((Banks + 1) * Size - 1)

(* A word of 4 bytes fits into every area, and aligned it straddles none      *)
ASSUME AreaAssumption ==
  /\ Common \in Nat /\ Common >= 4 /\ Common % 4 = 0
  /\ Window \in Nat /\ Window >= Common /\ Window % 4 = 0
  /\ Banks \in Nat
ASSUME ImageAssumption == DOMAIN Image = Linear

(* Bank b of the unpacked file: the shared code without its header, then      *)
(* windows, each behind an empty shared area                                *)
BankByte(b, o) ==
  IF b = 0 THEN IF o + Header < Common THEN Image[o + Header] ELSE Fill
  ELSE IF o < Common THEN Fill ELSE Image[b * Window + o - Window]
Unpacked == [u \in Buffer |-> BankByte(u \div Size, u % Size)]

(* rtl8367s.lua: bank and offset of a linear address.  Common is the first of *)
(* bank 1, but the script compares with > and leaves it in the shared area.   *)
BankOfNone(adr) == (adr - Common) \div Window
BankOf(adr) == ((adr - Common) \div Window) + 1
OfsOf(adr) == ((adr - Common) % Window) + Common
WindowAddr(adr) == IF adr > Common THEN (BankOf(adr) * Size) + OfsOf(adr) ELSE adr
=============================================================================
