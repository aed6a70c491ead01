-------------------------- MODULE MemoryMap_proofs --------------------------
(***************************************************************************)
(* The page tables implement the banked memory, for every size of the areas *)
(* and every number of banks: the layout of the unpacked image is the        *)
(* inverse of the address arithmetic, and the tables follow the registers.  *)
(***************************************************************************)
EXTENDS MemoryMap, TLAPS

-----------------------------------------------------------------------------
(* The layout                                                               *)

LEMMA Sizes ==
  /\ Common \in Nat /\ Common >= 4 /\ Window \in Nat /\ Window >= Common
  /\ Banks \in Nat /\ Size \in Nat /\ Size > 0 /\ Size = Common + Window
  BY AreaAssumption DEF Size

(* A block of the file is a bank                                            *)
LEMMA Block ==
  ASSUME NEW n \in 0..Banks, NEW a \in Addr
  PROVE  /\ a + (n * Size) \in Buffer
         /\ Unpacked[a + (n * Size)] = BankByte(n, a)
  <1>1. n \in Nat /\ a \in Nat /\ a < Size /\ a \in 0..Size - 1 BY Sizes DEF Addr
  <1>2. (a + (n * Size)) \div Size = n BY <1>1, Sizes
  <1>3. (a + (n * Size)) % Size = a BY <1>1, Sizes
  <1>4. a + (n * Size) \in Buffer
    <2>1. (Banks - n) \in Nat BY <1>1, Sizes
    <2>2. (Banks - n) * Size >= 0 BY <2>1, Sizes
    <2>3. (Banks + 1) * Size = ((Banks - n) * Size) + (n * Size) + Size BY <1>1, Sizes
    <2>4. n * Size \in Nat BY <1>1, Sizes
    <2>5. (Banks + 1) * Size \in Nat BY Sizes
    <2>6. (Banks - n) * Size \in Nat BY <2>1, Sizes
    <2> QED BY <2>2, <2>3, <2>4, <2>5, <2>6, <1>1, Sizes DEF Buffer
  <1> QED BY <1>2, <1>3, <1>4 DEF Unpacked

LEMMA BankBytes ==
  ASSUME NEW n \in 0..Banks, NEW a \in Addr
  PROVE  BankByte(n, a) \in Byte
  <1>1. n \in Nat /\ a \in Nat /\ a < Size BY Sizes DEF Addr
  <1>2. Fill \in Byte /\ \A i \in Linear : Image[i] \in Byte BY ByteAssumption
  <1>3. CASE n = 0 /\ a + Header < Common
    <2>1. Banks * Window >= 0 /\ Banks * Window \in Nat BY Sizes
    <2>2. a + Header \in Linear BY <1>1, <1>3, <2>1, Sizes DEF Linear, Header
    <2> QED BY <1>2, <1>3, <2>2 DEF BankByte
  <1>4. CASE n # 0 /\ a >= Common
    <2>1. n - 1 \in Nat /\ Banks - n \in Nat BY <1>1, <1>4, Sizes
    <2>2. (n - 1) * Window \in Nat /\ (Banks - n) * Window \in Nat BY <2>1, Sizes
    <2>3. n * Window \in Nat /\ Banks * Window \in Nat BY <1>1, Sizes
    <2>4. (n - 1) * Window = (n * Window) - Window BY <1>1, Sizes
    <2>5. (Banks - n) * Window = (Banks * Window) - (n * Window) BY <1>1, Sizes
    <2>6. (n * Window) + a - Window \in Linear
      BY <1>1, <1>4, <2>2, <2>3, <2>4, <2>5, Sizes DEF Linear
    <2> QED BY <1>2, <1>4, <2>6, <1>1, Sizes DEF BankByte
  <1>5. CASE ~(n = 0 /\ a + Header < Common) /\ ~(n # 0 /\ a >= Common)
    BY <1>2, <1>5, <1>1, Sizes DEF BankByte
  <1> QED BY <1>3, <1>4, <1>5

LEMMA UnpackedType == Unpacked \in [Buffer -> Byte]
  <1> SUFFICES ASSUME NEW u \in Buffer PROVE BankByte(u \div Size, u % Size) \in Byte
    BY DEF Unpacked
  <1>1. u \in Nat /\ u < (Banks + 1) * Size BY Sizes DEF Buffer
  <1>2. u % Size \in Addr BY <1>1, Sizes DEF Addr
  <1>3. u \div Size \in Nat /\ u = (Size * (u \div Size)) + (u % Size) BY <1>1, Sizes
  <1>4. u \div Size <= Banks
    <2>1. SUFFICES ASSUME u \div Size > Banks PROVE FALSE BY <1>3, Sizes
    <2>2. (u \div Size) - Banks - 1 \in Nat BY <2>1, <1>3, Sizes
    <2>3. ((u \div Size) - Banks - 1) * Size \in Nat BY <2>2, Sizes
    <2>4. ((u \div Size) - Banks - 1) * Size = (Size * (u \div Size)) - ((Banks + 1) * Size)
      BY <1>3, Sizes
    <2>5. Size * (u \div Size) \in Nat /\ (Banks + 1) * Size \in Nat BY <1>3, Sizes
    <2>6. u % Size \in Nat BY <1>1, Sizes
    <2> QED BY <1>1, <1>3, <2>3, <2>4, <2>5, <2>6
  <1> QED BY <1>2, <1>3, <1>4, Sizes, BankBytes

(* The bank and the offset the script computes                               *)
LEMMA Split ==
  ASSUME NEW x \in Linear, x + 3 \in Linear, x > Common
  PROVE  /\ BankOf(x) \in 1..Banks
         /\ OfsOf(x) \in Common..Size - 1
         /\ (BankOf(x) * Window) + OfsOf(x) - Window = x
  <1> DEFINE q == (x - Common) \div Window
             r == (x - Common) % Window
  <1>1. x \in Nat /\ x < Common + (Banks * Window) /\ x - Common \in Nat
    <2>1. Banks * Window \in Nat BY Sizes
    <2> QED BY <2>1, Sizes DEF Linear
  <1>2. q \in Nat /\ r \in Nat /\ r < Window /\ x - Common = (Window * q) + r BY <1>1, Sizes
  <1>3. q < Banks
    <2>1. SUFFICES ASSUME q >= Banks PROVE FALSE BY <1>2, Sizes
    <2>2. q - Banks \in Nat BY <2>1, <1>2, Sizes
    <2>3. (q - Banks) * Window \in Nat BY <2>2, Sizes
    <2>4. (q - Banks) * Window = (Window * q) - (Banks * Window) BY <1>2, Sizes
    <2>5. Window * q \in Nat /\ Banks * Window \in Nat BY <1>2, Sizes
    <2> HIDE DEF q, r
    <2> QED BY <1>1, <1>2, <2>3, <2>4, <2>5, Sizes
  <1>4. BankOf(x) = q + 1 /\ OfsOf(x) = r + Common BY DEF BankOf, OfsOf
  <1>5. ((q + 1) * Window) + (r + Common) - Window = x
    <2> HIDE DEF q, r
    <2>1. (q + 1) * Window = (Window * q) + Window BY <1>2, Sizes
    <2>2. Window * q \in Nat BY <1>2, Sizes
    <2> QED BY <1>1, <1>2, <2>1, <2>2, Sizes
  <1> HIDE DEF q, r
  <1> QED BY <1>2, <1>3, <1>4, <1>5, Sizes

LEMMA Shift ==
  ASSUME NEW p \in Int, NEW o \in Int, NEW w \in Int, NEW y \in Int, NEW j \in Int,
         p + o - w = y
  PROVE  p + (o + j) - w = y + j
  OBVIOUS

(* The shared area                                                          *)
LEMMA SharedCell ==
  ASSUME NEW a \in Addr
  PROVE  /\ (a < Common => Unpacked[a] = Memory!Shared(a))
         /\ (a >= Common => Unpacked[a] = Fill)
  <1>1. a \in Int /\ 0 \in 0..Banks BY Sizes DEF Addr
  <1>2. a + (0 * Size) = a BY <1>1, Sizes
  <1>3. Unpacked[a] = BankByte(0, a) BY <1>1, <1>2, Block
  <1> QED BY <1>1, <1>3, Sizes DEF BankByte, Memory!Shared, Memory!Header, Header

(* A flash read finds in the file what the banked memory says of its address:  *)
(* the linear byte, but for the shared area, its end, and the end of a bank   *)
LEMMA WindowByte ==
  ASSUME NEW x \in Linear, x + 3 \in Linear, NEW i \in 0..3
  PROVE  Unpacked[WindowAddr(x) + i] = Memory!FlashByte(x, i)
  <1>1. x \in Nat /\ i \in Nat /\ i <= 3 /\ Banks * Window \in Nat BY Sizes DEF Linear
  <1>2. CASE x <= Common
    <2>1. x + i \in Addr BY <1>1, <1>2, Sizes DEF Addr
    <2>2. WindowAddr(x) = x BY <1>1, <1>2, Sizes DEF WindowAddr
    <2>3. Unpacked[x + i] = IF x + i < Common THEN Memory!Shared(x + i) ELSE Fill
      BY <1>1, <2>1, SharedCell, Sizes
    <2>4. ~(x > Common) BY <1>1, <1>2, Sizes
    <2> QED BY <1>2, <2>2, <2>3, <2>4 DEF Memory!FlashByte
  <1>3. CASE x > Common
    <2> DEFINE b == BankOf(x)
               o == OfsOf(x)
    <2>1. b \in 1..Banks /\ o \in Common..Size - 1 /\ (b * Window) + o - Window = x
      BY <1>3, Split
    <2>2. WindowAddr(x) = (b * Size) + o BY <1>3 DEF WindowAddr
    <2> HIDE DEF b, o
    <2>3. /\ b \in Nat /\ b > 0 /\ o \in Nat /\ o >= Common /\ o < Size
          /\ b * Window \in Nat /\ b * Size \in Nat
      BY <2>1, Sizes
    <2>4. Common + b * Window \in Memory!BankEnds BY <2>1 DEF Memory!BankEnds
    <2>5. CASE o + i < Size
      <3>1. o + i \in Addr /\ b \in 0..Banks BY <2>1, <2>3, <2>5, <1>1, Sizes DEF Addr
      <3>2. WindowAddr(x) + i = (o + i) + (b * Size) BY <2>2, <2>3, <1>1
      <3>3. Unpacked[WindowAddr(x) + i] = BankByte(b, o + i) BY <3>1, <3>2, Block
      <3>4. BankByte(b, o + i) = Image[(b * Window) + (o + i) - Window]
        BY <2>3, <1>1, Sizes DEF BankByte
      <3>5. (b * Window) + (o + i) - Window = x + i BY <2>1, <2>3, <1>1, Sizes, Shift
      <3>6. ~(\E e \in Memory!BankEnds : x < e /\ e <= x + i)
        <4>1. SUFFICES ASSUME NEW c \in 1..Banks,
                              x < Common + c * Window, Common + c * Window <= x + i
                       PROVE  FALSE
          BY DEF Memory!BankEnds
        <4>2. c \in Nat /\ c * Window \in Nat BY Sizes
        <4>3. x + i < Common + b * Window BY <2>1, <2>3, <2>5, <1>1, Sizes
        <4>4. c < b
          <5>1. SUFFICES ASSUME c >= b PROVE FALSE BY <4>2, <2>3
          <5>2. c - b \in Nat BY <5>1, <4>2, <2>3
          <5>3. (c - b) * Window \in Nat BY <5>2, Sizes
          <5>4. (c - b) * Window = (c * Window) - (b * Window) BY <4>2, <2>3, Sizes
          <5> QED BY <4>1, <4>2, <4>3, <5>3, <5>4, <2>3, <1>1, Sizes
        <4>5. b - 1 - c \in Nat BY <4>2, <4>4, <2>3
        <4>6. (b - 1 - c) * Window \in Nat BY <4>5, Sizes
        <4>7. (b - 1 - c) * Window = (b * Window) - Window - (c * Window) BY <4>2, <2>3, Sizes
        <4> QED BY <4>1, <4>2, <4>6, <4>7, <2>1, <2>3, <1>1, Sizes
      <3>7. Memory!FlashByte(x, i) = Image[x + i] BY <1>1, <1>3, <3>6, Sizes DEF Memory!FlashByte
      <3> QED BY <3>3, <3>4, <3>5, <3>7
    <2>6. CASE o + i >= Size
      <3> DEFINE j == o + i - Size
      <3>1. j \in Nat /\ j < 3 /\ j \in Addr BY <2>3, <2>6, <1>1, Sizes DEF Addr
      <3>2. Common + b * Window <= x + i /\ x < Common + b * Window
        BY <2>1, <2>3, <2>6, <1>1, Sizes
      <3>3. b < Banks
        <4>1. SUFFICES ASSUME b >= Banks PROVE FALSE BY <2>3, Sizes
        <4>2. b = Banks BY <4>1, <2>1, Sizes
        <4> QED BY <4>2, <3>2, <1>1, Sizes DEF Linear
      <3>4. b + 1 \in 0..Banks /\ b + 1 # 0 BY <3>3, <2>3, Sizes
      <3>5. WindowAddr(x) + i = j + ((b + 1) * Size)
        <4>1. (b + 1) * Size = (b * Size) + Size BY <2>3, Sizes
        <4> QED BY <4>1, <2>2, <2>3, <1>1, Sizes
      <3>6. Unpacked[WindowAddr(x) + i] = BankByte(b + 1, j) BY <3>1, <3>4, <3>5, Block
      <3>7. BankByte(b + 1, j) = Fill BY <3>1, <3>4, Sizes DEF BankByte
      <3>8. \E e \in Memory!BankEnds : x < e /\ e <= x + i BY <2>4, <3>2
      <3>9. Memory!FlashByte(x, i) = Fill BY <1>1, <1>3, <3>8, Sizes DEF Memory!FlashByte
      <3> QED BY <3>6, <3>7, <3>9
    <2> QED BY <2>5, <2>6, <2>3, <1>1, Sizes
  <1> QED BY <1>1, <1>2, <1>3, Sizes

(* No flash read leaves the buffer                                          *)
LEMMA WindowInBuffer ==
  ASSUME NEW x \in Linear, x + 3 \in Linear, NEW i \in 0..3
  PROVE  WindowAddr(x) + i \in Buffer
  <1>1. x \in Nat /\ (Banks + 1) * Size \in Nat /\ (Banks + 1) * Size = (Banks * Size) + Size
        /\ Banks * Size \in Nat
    BY Sizes DEF Linear
  <1>2. CASE x > Common
    <2>1. /\ BankOf(x) \in 1..Banks
          /\ OfsOf(x) \in Common..Size - 1
          /\ (BankOf(x) * Window) + OfsOf(x) - Window = x
      BY <1>2, Split
    <2>2. BankOf(x) * Size \in Nat /\ OfsOf(x) \in Nat BY <2>1, Sizes
    <2>3. WindowAddr(x) = (BankOf(x) * Size) + OfsOf(x) BY <1>2 DEF WindowAddr
    <2>4. CASE BankOf(x) = Banks
      <3>1. OfsOf(x) + 3 < Size
        <4>1. (Banks * Window) + OfsOf(x) - Window = x /\ Banks * Window \in Nat
          BY <2>1, <2>4, Sizes
        <4>2. x + 3 < Common + (Banks * Window) BY <4>1, Sizes DEF Linear
        <4> QED BY <4>1, <4>2, <2>2, Sizes
      <3> QED BY <3>1, <2>2, <2>3, <2>4, <1>1, Sizes DEF Buffer
    <2>5. CASE BankOf(x) < Banks
      <3>1. Banks - BankOf(x) - 1 \in Nat BY <2>1, <2>5, Sizes
      <3>2. (Banks - BankOf(x) - 1) * Size \in Nat BY <3>1, Sizes
      <3>3. (Banks - BankOf(x) - 1) * Size = (Banks * Size) - (BankOf(x) * Size) - Size
        BY <2>1, Sizes
      <3> QED BY <3>2, <3>3, <2>1, <2>2, <2>3, <1>1, Sizes DEF Buffer
    <2> QED BY <2>1, <2>4, <2>5, Sizes
  <1>3. CASE x <= Common BY <1>1, <1>3, Sizes DEF WindowAddr, Buffer
  <1> QED BY <1>1, <1>2, <1>3, Sizes

-----------------------------------------------------------------------------
(* The state                                                                *)

Cell == [buf : {"none", "sram", "rom"}, at : Int]

(* The tables depend on the registers alone, except above the RAM, where the  *)
(* pages of the last bank stay when DATA_BANK returns to 0.                  *)
CodeCell(a) == CASE a < Common -> InRom(a)
                 [] a >= Common /\ rompage[Common] = Unmapped -> Unmapped
                 [] OTHER -> InRom(a + (pcx * Size))
DataCell(a) ==
  CASE a < Common \/ (databank = 0 /\ a < Window) -> InSram(a)
    [] a >= Common /\ databank # 0 /\ a < Window -> InRom(a + (databank * Size))
    [] OTHER -> IF topbank = 0 THEN Unmapped ELSE InRom(a + (topbank * Size))

CodeTable == /\ DOMAIN rompage = Addr /\ rompage[Common] \in Cell
             /\ \A a \in Addr : rompage[a] = CodeCell(a)
DataTable == /\ DOMAIN xrampage = Addr
             /\ \A a \in Addr : xrampage[a] = DataCell(a)
             /\ (databank # 0 => topbank = databank)
Guarded == /\ DOMAIN readonly = Addr
           /\ \A a \in Addr : readonly[a] = (xrampage[a].buf = "rom")
IInv == TypeOK /\ CodeTable /\ DataTable /\ Guarded /\ ImageIntact

LEMMA Cells ==
  ASSUME NEW k
  PROVE  /\ InRom(k).buf = "rom" /\ InRom(k).at = k /\ InRom(k) # Unmapped
         /\ InSram(k).buf = "sram" /\ InSram(k).at = k
         /\ Unmapped.buf = "none" /\ Unmapped \in Cell
         /\ (k \in Int => InRom(k) \in Cell)
  BY DEF InRom, InSram, Unmapped, Cell

(* What the program does to the RAM, the registers and the window keeps their  *)
(* types, and cannot reach the image                                        *)
LEMMA StoreKeeps ==
  ASSUME IInv, NEW a \in Stored, NEW v \in Values, Writex(a, v)
  PROVE  /\ sram' \in [0..Window - 1 -> Byte]
         /\ rom' = rom
         /\ sram' = IF Memory!InRam(a) THEN [sram EXCEPT ![a] = v] ELSE sram
  <1>1. a \in Addr /\ v \in Byte BY ByteAssumption, RegisterAssumption DEF Addr
  <1>2. xrampage[a] = DataCell(a) /\ readonly[a] = (xrampage[a].buf = "rom")
    BY <1>1 DEF IInv, DataTable, Guarded
  <1>3. a \in Int /\ a >= 0 /\ a < Size BY <1>1, Sizes DEF Addr
  <1>4. CASE Memory!InRam(a)
    <2>1. a < Common \/ (databank = 0 /\ a < Window) BY <1>4 DEF Memory!InRam
    <2>2. xrampage[a] = InSram(a) BY <1>2, <2>1, <1>3, Sizes DEF DataCell
    <2>3. a \in 0..Window - 1 BY <2>1, <1>3, Sizes
    <2>4. xrampage[a].buf = "sram" /\ xrampage[a].at = a /\ readonly[a] = FALSE
      BY <1>2, <2>2, Cells
    <2>5. sram' = [sram EXCEPT ![a] = v] /\ rom' = rom BY <2>4 DEF Writex
    <2> QED BY <1>1, <1>4, <2>3, <2>5 DEF IInv, TypeOK
  <1>5. CASE ~Memory!InRam(a)
    <2>1. ~(a < Common \/ (databank = 0 /\ a < Window)) BY <1>5 DEF Memory!InRam
    <2>2. xrampage[a].buf # "sram" BY <1>2, <2>1, <1>3, Sizes, Cells DEF DataCell
    <2>3. sram' = sram /\ rom' = rom BY <1>2, <2>2 DEF Writex
    <2> QED BY <1>5, <2>3 DEF IInv, TypeOK
  <1> QED BY <1>4, <1>5

LEMMA WordKeeps ==
  ASSUME IInv, WriteCacheCtrl
  PROVE  word' \in [0..3 -> Byte]
  <1>1. CASE cmd = 187
    <2>1. adr \in Addresses \cup {0} /\ rom = Unpacked BY DEF IInv, TypeOK, ImageIntact
    <2>2. adr \in Linear /\ adr + 3 \in Linear
      <3>1. Banks * Window \in Nat BY Sizes
      <3>2. 0 \in Linear /\ 0 + 3 \in Linear BY <3>1, Sizes DEF Linear
      <3> QED BY <2>1, <3>2, RegisterAssumption
    <2>3. \A i \in 0..3 : Unpacked[WindowAddr(adr) + i] \in Byte
      BY <2>2, WindowInBuffer, UnpackedType
    <2>4. word' = [i \in 0..3 |-> Unpacked[WindowAddr(adr) + i]] BY <1>1, <2>1 DEF WriteCacheCtrl
    <2> QED BY <2>3, <2>4
  <1>2. CASE cmd = 5 BY <1>2, ByteAssumption DEF WriteCacheCtrl, IInv, TypeOK
  <1>3. CASE cmd \notin {5, 187} BY <1>3 DEF WriteCacheCtrl, IInv, TypeOK
  <1> QED BY <1>1, <1>2, <1>3

-----------------------------------------------------------------------------
(* The invariant                                                            *)

LEMMA Start == Init => IInv
  <1> SUFFICES ASSUME Init PROVE IInv
    OBVIOUS
  <1> USE DEF Init, SpisInit
  <1>1. TypeOK
    <2>1. 0 \in 0..Banks BY Sizes
    <2> QED BY <2>1, ByteAssumption DEF TypeOK
  <1>2. Common \in Addr BY Sizes DEF Addr
  <1>3. CodeTable
    <2>1. rompage[Common] = Unmapped BY <1>2, Sizes
    <2>2. ASSUME NEW a \in Addr PROVE rompage[a] = CodeCell(a)
      BY <2>1, Sizes DEF Addr, CodeCell
    <2> QED BY <2>1, <2>2, Cells DEF CodeTable
  <1>4. DataTable BY Sizes DEF DataTable, DataCell, Addr
  <1>5. Guarded BY Cells DEF Guarded
  <1> QED BY <1>1, <1>3, <1>4, <1>5 DEF IInv, ImageIntact

LEMMA CodeBankKeeps ==
  ASSUME IInv, NEW n \in 0..Banks, WriteCodeBank(n)
  PROVE  IInv'
  <1>1. rompage' = CodeMap(n) /\ pcx' = n
        /\ UNCHANGED <<xrampage, readonly, databank, topbank, buffers, spis>>
    BY DEF WriteCodeBank
  <1>2. Common \in Addr /\ n * Size \in Int BY Sizes DEF Addr
  <1>3. TypeOK' BY <1>1 DEF IInv, TypeOK, buffers, spis
  <1>4. CodeTable'
    <2>1. rompage'[Common] = InRom(Common + (n * Size)) BY <1>1, <1>2, Sizes DEF CodeMap
    <2>2. DOMAIN rompage' = Addr BY <1>1 DEF CodeMap
    <2>3. rompage'[Common] \in Cell /\ rompage'[Common] # Unmapped
      BY <2>1, <1>2, Sizes, Cells
    <2>4. ASSUME NEW a \in Addr PROVE rompage'[a] = CodeCell(a)'
      <3>1. a \in Int BY Sizes DEF Addr
      <3>2. CASE a < Common
        <4>1. rompage'[a] = rompage[a] BY <1>1, <3>1, <3>2, Sizes DEF CodeMap
        <4> QED BY <3>1, <3>2, <4>1, Sizes DEF IInv, CodeTable, CodeCell
      <3>3. CASE a >= Common
        <4>1. rompage'[a] = InRom(a + (n * Size)) BY <1>1, <3>1, <3>3, Sizes DEF CodeMap
        <4> QED BY <1>1, <2>3, <3>1, <3>3, <4>1, Sizes DEF CodeCell
      <3> QED BY <3>1, <3>2, <3>3, Sizes
    <2> QED BY <2>2, <2>3, <2>4 DEF CodeTable
  <1>5. DataTable' /\ Guarded' /\ ImageIntact'
    BY <1>1 DEF IInv, DataTable, DataCell, Guarded, ImageIntact, buffers
  <1> QED BY <1>3, <1>4, <1>5 DEF IInv

LEMMA DataBankKeeps ==
  ASSUME IInv, NEW n \in 0..Banks, WriteDataBank(n)
  PROVE  IInv'
  <1>1. /\ databank' = n /\ xrampage' = DataMap(n) /\ readonly' = Guard(n)
        /\ topbank' = IF n = 0 THEN topbank ELSE n
        /\ UNCHANGED <<rompage, pcx, buffers, spis>>
    BY DEF WriteDataBank
  <1>2. TypeOK' BY <1>1 DEF IInv, TypeOK, buffers, spis
  <1>3. CodeTable' /\ ImageIntact' BY <1>1 DEF IInv, CodeTable, CodeCell, ImageIntact, buffers
  <1>4. DOMAIN xrampage' = Addr /\ DOMAIN readonly' = Addr BY <1>1 DEF DataMap, Guard
  <1>5. ASSUME NEW a \in Addr
        PROVE  xrampage'[a] = DataCell(a)' /\ readonly'[a] = (xrampage'[a].buf = "rom")
    <2>1. a \in Int /\ xrampage[a] = DataCell(a) /\ readonly[a] = (xrampage[a].buf = "rom")
      BY Sizes DEF Addr, IInv, DataTable, Guarded
    <2>2. CASE n = 0 /\ a < Window
      <3>1. xrampage'[a] = InSram(a) /\ readonly'[a] = FALSE
        BY <1>1, <2>1, <2>2, Sizes DEF DataMap, Guard
      <3> QED BY <1>1, <2>1, <2>2, <3>1, Sizes, Cells DEF DataCell
    <2>3. CASE n # 0 /\ a >= Common
      <3>1. xrampage'[a] = InRom(a + (n * Size)) /\ readonly'[a] = TRUE
        BY <1>1, <2>1, <2>3, Sizes DEF DataMap, Guard
      <3>2. databank' = n /\ topbank' = n BY <1>1, <2>3
      <3>3. xrampage'[a] = DataCell(a)' BY <2>1, <2>3, <3>1, <3>2, Sizes DEF DataCell
      <3> QED BY <3>1, <3>3, Cells
    <2>4. CASE ~(n = 0 /\ a < Window) /\ ~(n # 0 /\ a >= Common)
      <3>1. xrampage'[a] = xrampage[a] /\ readonly'[a] = readonly[a]
        BY <1>1, <2>1, <2>4, Sizes DEF DataMap, Guard
      <3> QED BY <1>1, <2>1, <2>4, <3>1, Sizes DEF DataCell
    <2> QED BY <2>2, <2>3, <2>4
  <1>6. databank' # 0 => topbank' = databank' BY <1>1
  <1> QED BY <1>2, <1>3, <1>4, <1>5, <1>6 DEF IInv, DataTable, Guarded

(* Actions that leave the tables and the image as they are                   *)
LEMMA TablesKeep ==
  ASSUME IInv, UNCHANGED maps, rom' = rom
  PROVE  CodeTable' /\ DataTable' /\ Guarded' /\ ImageIntact'
  BY DEF IInv, maps, CodeTable, CodeCell, DataTable, DataCell, Guarded, ImageIntact

LEMMA Inductive ==
  ASSUME IInv, [Next]_vars
  PROVE  IInv'
  <1>1. CASE UNCHANGED vars
    BY <1>1, TablesKeep DEF vars, buffers, spis, maps, IInv, TypeOK
  <1>2. ASSUME NEW a \in Stored, NEW v \in Values, Writex(a, v) PROVE IInv'
    <2>1. UNCHANGED <<maps, spis>> BY <1>2 DEF Writex
    <2> QED BY <1>2, <2>1, StoreKeeps, TablesKeep DEF IInv, TypeOK, maps, spis
  <1>3. ASSUME NEW x \in Addresses, WriteSpisAddr(x) PROVE IInv'
    BY <1>3, TablesKeep DEF WriteSpisAddr, IInv, TypeOK, maps, buffers
  <1>4. ASSUME NEW c \in Commands, WriteSpisRcmd(c) PROVE IInv'
    BY <1>4, TablesKeep DEF WriteSpisRcmd, IInv, TypeOK, maps, buffers
  <1>5. ASSUME NEW i \in 0..3, NEW v \in Values, WriteSpisData(i, v) PROVE IInv'
    BY <1>5, ByteAssumption, TablesKeep DEF WriteSpisData, IInv, TypeOK, maps, buffers
  <1>6. CASE WriteCacheCtrl
    <2>1. UNCHANGED <<maps, buffers, adr, cmd>> BY <1>6 DEF WriteCacheCtrl
    <2> QED BY <1>6, <2>1, WordKeeps, TablesKeep DEF IInv, TypeOK, maps, buffers
  <1> QED BY <1>1, <1>2, <1>3, <1>4, <1>5, <1>6, CodeBankKeeps, DataBankKeeps DEF Next

LEMMA Invariance == Spec => []IInv
  BY Start, Inductive, PTL DEF Spec

(* The image is never written, whatever the banks and the stores              *)
(* (core.c:154, rtl8367s.lua:12400).                                         *)
THEOREM ImageNeverWritten == Spec => []ImageIntact
  <1>1. IInv => ImageIntact BY DEF IInv
  <1> QED BY <1>1, Invariance, PTL

-----------------------------------------------------------------------------
(* The reads                                                                *)

LEMMA FlashCell ==
  ASSUME NEW n \in 1..Banks, NEW a \in Addr, a >= Common
  PROVE  Unpacked[a + (n * Size)] = Memory!Flash(n, a)
  <1>1. n \in Int /\ n # 0 /\ a \in Int /\ n \in 0..Banks BY Sizes DEF Addr
  <1>2. Unpacked[a + (n * Size)] = BankByte(n, a) BY <1>1, Block
  <1>3. (n * Window) + a - Window = Common + ((n - 1) * Window) + (a - Common)
    <2>1. n * Window \in Int /\ (n - 1) * Window = (n * Window) - Window BY <1>1, Sizes
    <2> QED BY <1>1, <2>1, Sizes
  <1>4. BankByte(n, a) = Image[(n * Window) + a - Window] BY <1>1, Sizes DEF BankByte
  <1> QED BY <1>2, <1>3, <1>4 DEF Memory!Flash

LEMMA CodeReads ==
  ASSUME IInv, NEW a \in Addr
  PROVE  Readc(a) = Memory!CodeByte(a)
  <1>1. rompage[a] = CodeCell(a) /\ rom = Unpacked /\ pcx \in 0..Banks
    BY DEF IInv, CodeTable, ImageIntact, TypeOK
  <1>2. a \in Int /\ pcx \in Int /\ pcx * Size \in Int BY <1>1, Sizes DEF Addr
  <1>3. CASE a < Common
    <2>1. rompage[a] = InRom(a) BY <1>1, <1>2, <1>3, Sizes DEF CodeCell
    <2>2. Readc(a) = Unpacked[a] BY <1>1, <2>1, Cells DEF Readc
    <2>3. Memory!CodeByte(a) = Memory!Shared(a) BY <1>2, <1>3, Sizes DEF Memory!CodeByte
    <2> QED BY <1>3, <2>2, <2>3, SharedCell
  <1>4. CASE a >= Common /\ rompage[Common] = Unmapped
    <2>1. Readc(a) = Open BY <1>1, <1>2, <1>4, Sizes DEF CodeCell, Readc
    <2>2. Memory!CodeByte(a) = Open
      BY <1>2, <1>4, Sizes DEF Memory!CodeByte, Memory!NoBank
    <2> QED BY <2>1, <2>2
  <1>5. CASE a >= Common /\ rompage[Common] # Unmapped
    <2>1. rompage[a] = InRom(a + (pcx * Size)) BY <1>1, <1>2, <1>5, Sizes DEF CodeCell
    <2>2. Readc(a) = Unpacked[a + (pcx * Size)] BY <1>1, <2>1, Cells DEF Readc
    <2>3. CASE pcx = 0
      <3>1. a + (pcx * Size) = a BY <1>2, <2>3, Sizes
      <3>2. Memory!CodeByte(a) = Fill
        BY <1>2, <1>5, <2>3, Sizes DEF Memory!CodeByte, Memory!NoBank
      <3> QED BY <1>5, <2>2, <3>1, <3>2, SharedCell
    <2>4. CASE pcx # 0
      <3>1. pcx \in 1..Banks BY <1>1, <2>4, Sizes
      <3>2. Memory!CodeByte(a) = Memory!Flash(pcx, a)
        BY <1>2, <1>5, <2>4, <3>1, Sizes DEF Memory!CodeByte, Memory!NoBank
      <3> QED BY <1>5, <2>2, <3>1, <3>2, FlashCell
    <2> QED BY <2>3, <2>4
  <1> QED BY <1>2, <1>3, <1>4, <1>5, Sizes

LEMMA DataReads ==
  ASSUME IInv, NEW a \in Addr
  PROVE  Readx(a) = Memory!DataByte(a)
  <1>1. /\ xrampage[a] = DataCell(a) /\ rom = Unpacked
        /\ databank \in 0..Banks /\ topbank \in 0..Banks
    BY DEF IInv, DataTable, ImageIntact, TypeOK
  <1>2. a \in Int /\ a < Size BY Sizes DEF Addr
  <1>3. CASE Memory!InRam(a)
    <2>1. xrampage[a] = InSram(a) BY <1>1, <1>2, <1>3, Sizes DEF DataCell, Memory!InRam
    <2>2. Readx(a) = sram[a] BY <2>1, Cells DEF Readx
    <2> QED BY <1>3, <2>2 DEF Memory!DataByte
  <1>4. CASE ~Memory!InRam(a) /\ a < Window
    <2>1. a >= Common /\ databank # 0 BY <1>2, <1>4, Sizes DEF Memory!InRam
    <2>2. xrampage[a] = InRom(a + (databank * Size)) BY <1>1, <1>2, <1>4, <2>1, Sizes DEF DataCell
    <2>3. Readx(a) = Unpacked[a + (databank * Size)] BY <1>1, <2>2, Cells DEF Readx
    <2>4. databank \in 1..Banks BY <1>1, <2>1, Sizes
    <2> QED BY <1>4, <2>1, <2>3, <2>4, FlashCell DEF Memory!DataByte
  <1>5. CASE ~Memory!InRam(a) /\ ~(a < Window)
    <2>1. a >= Common BY <1>2, <1>5, Sizes
    <2>2. xrampage[a] = IF topbank = 0 THEN Unmapped ELSE InRom(a + (topbank * Size))
      BY <1>1, <1>2, <1>5, <2>1, Sizes DEF DataCell
    <2>3. CASE topbank = 0
      <3>1. Readx(a) = Open BY <2>2, <2>3, Cells DEF Readx
      <3> QED BY <1>5, <2>3, <3>1 DEF Memory!DataByte
    <2>4. CASE topbank # 0
      <3>1. Readx(a) = Unpacked[a + (topbank * Size)] BY <1>1, <2>2, <2>4, Cells DEF Readx
      <3>2. topbank \in 1..Banks BY <1>1, <2>4, Sizes
      <3> QED BY <1>5, <2>1, <2>4, <3>1, <3>2, FlashCell DEF Memory!DataByte
    <2> QED BY <2>3, <2>4
  <1> QED BY <1>3, <1>4, <1>5

(* Every fetch and every load reads the byte of the linear image or the RAM   *)
(* that the bank registers select, for every size and number of banks         *)
(* (core.c:165-178, 296-304, rtl8367s.lua:12384-12404).                      *)
THEOREM ReadsAreBanked == Spec => []ReadsBanked
  <1>1. IInv => ReadsBanked BY CodeReads, DataReads DEF ReadsBanked
  <1> QED BY <1>1, Invariance, PTL

-----------------------------------------------------------------------------
(* The refinement                                                           *)

code == IF rompage[Common] = Unmapped THEN -1 ELSE pcx

LEMMA StartsAlike == Init => Memory!Init
  <1> SUFFICES ASSUME Init PROVE Memory!Init
    OBVIOUS
  <1>1. IInv BY Start
  <1>2. rompage[Common] = Unmapped BY Sizes DEF Init, Addr
  <1> QED BY <1>1, <1>2 DEF Init, SpisInit, IInv, TypeOK, Memory!Init, Memory!NoBank

(* A command                                                                *)
LEMMA Executes ==
  ASSUME IInv, WriteCacheCtrl
  PROVE  Memory!Execute
  <1>1. UNCHANGED <<maps, buffers, adr, cmd>> BY DEF WriteCacheCtrl
  <1>2. CASE cmd = 187
    <2>1. adr \in Addresses \cup {0} /\ rom = Unpacked BY DEF IInv, TypeOK, ImageIntact
    <2>2. 0 \in Linear /\ 0 + 3 \in Linear
      <3>1. Banks * Window \in Nat BY Sizes
      <3> QED BY <3>1, Sizes DEF Linear
    <2>3. adr \in Linear /\ adr + 3 \in Linear BY <2>1, <2>2, RegisterAssumption
    <2>4. word' = [i \in 0..3 |-> Unpacked[WindowAddr(adr) + i]]
      BY <1>2, <2>1 DEF WriteCacheCtrl
    <2>5. \A i \in 0..3 : Unpacked[WindowAddr(adr) + i] = Memory!FlashByte(adr, i)
      BY <2>3, WindowByte
    <2>6. word' = [i \in 0..3 |-> Memory!FlashByte(adr, i)] BY <2>4, <2>5
    <2> QED BY <1>1, <1>2, <2>6 DEF Memory!Execute, maps, buffers
  <1>3. CASE cmd = 5
    <2>1. word' = [word EXCEPT ![0] = Fill] BY <1>3 DEF WriteCacheCtrl
    <2> QED BY <1>1, <1>3, <2>1 DEF Memory!Execute, maps, buffers
  <1>4. CASE cmd \notin {5, 187}
    <2>1. word' = word BY <1>4 DEF WriteCacheCtrl
    <2> QED BY <1>1, <1>4, <2>1 DEF Memory!Execute, maps, buffers
  <1> QED BY <1>2, <1>3, <1>4

LEMMA SwitchesCode ==
  ASSUME IInv, NEW n \in 0..Banks, WriteCodeBank(n)
  PROVE  Memory!CodeBank(n)
  <1>1. Common \in Addr /\ rompage' = CodeMap(n) /\ pcx' = n
    BY Sizes DEF WriteCodeBank, Addr
  <1>2. rompage'[Common] = InRom(Common + (n * Size)) BY <1>1, Sizes DEF CodeMap
  <1>3. rompage'[Common] # Unmapped BY <1>2, Cells
  <1> QED BY <1>1, <1>3 DEF Memory!CodeBank, WriteCodeBank, buffers, spis

LEMMA Simulates ==
  ASSUME IInv, [Next]_vars
  PROVE  [Memory!Next]_<<code, databank, topbank, sram, adr, cmd, word>>
  <1>1. CASE UNCHANGED vars
    BY <1>1 DEF vars, maps, buffers, spis, code
  <1>2. ASSUME NEW n \in 0..Banks, WriteDataBank(n) PROVE Memory!DataBank(n)
    BY <1>2 DEF Memory!DataBank, WriteDataBank, buffers, spis
  <1>3. ASSUME NEW a \in Stored, NEW v \in Values, Writex(a, v) PROVE Memory!Store(a, v)
    BY <1>3, StoreKeeps DEF Memory!Store, Writex, maps, spis
  <1>4. ASSUME NEW x \in Addresses, WriteSpisAddr(x) PROVE Memory!SetAddr(x)
    BY <1>4 DEF Memory!SetAddr, WriteSpisAddr, maps, buffers
  <1>5. ASSUME NEW c \in Commands, WriteSpisRcmd(c) PROVE Memory!SetCmd(c)
    BY <1>5 DEF Memory!SetCmd, WriteSpisRcmd, maps, buffers
  <1>6. ASSUME NEW i \in 0..3, NEW v \in Values, WriteSpisData(i, v)
        PROVE  Memory!SetData(i, v)
    BY <1>6 DEF Memory!SetData, WriteSpisData, maps, buffers
  <1>7. Stored \subseteq 0..Memory!Size - 1 BY RegisterAssumption DEF Memory!Size, Size
  <1> QED BY <1>1, <1>2, <1>3, <1>4, <1>5, <1>6, <1>7, SwitchesCode, Executes
       DEF Next, Memory!Next

(* Bank switches, stores and flash reads are those of the banked memory, in    *)
(* which there are no tables; a flash read at any address, aligned or not,    *)
(* brings what it says (rtl8367s.lua:12334-12404, core.c:133-205).     *)
THEOREM MemoryIsBanked == Spec => ActsBanked
  <1>1. IInv /\ [Next]_vars => [Memory!Next]_<<code, databank, topbank, sram, adr, cmd, word>>
    BY Simulates
  <1> QED BY <1>1, StartsAlike, Invariance, PTL DEF Spec, ActsBanked, Memory!Spec, code
=============================================================================
