-------------------------- MODULE Routines_proofs --------------------------
(***************************************************************************)
(* Theorems about two routines, for whatever they are called with.          *)
(*                                                                          *)
(* reg_from_initlist: for every list, wherever it lies in code memory, and  *)
(* for every content of the switch registers, it applies the entries one by *)
(* one and stops at the terminator.  The lists of the runs are those of the *)
(* firmware.                                                                *)
(*                                                                          *)
(* phyocp_reg_addr: for every PHY address, every port and every prefix      *)
(* before the call, the access that follows reaches that PHY register.  The *)
(* runs call it with a few of each.                                         *)
(*                                                                          *)
(* The lemmas at the end are about the text of a dump and the instructions  *)
(* of hexdump; Firmware_proofs has the theorems.                             *)
(***************************************************************************)
EXTENDS Routines, SequenceTheorems, TLAPS

(* Bytes, words and the halves of words, by their bounds. *)
LEMMA ByteRange == \A n : n \in Byte <=> n \in Int /\ 0 <= n /\ n <= 255
  BY SMT DEF Byte
LEMMA WordRange == \A w : w \in Word <=> w \in Int /\ 0 <= w /\ w <= 65535
<1>. DEFINE n == 65535
<1>1. Word = 0..n
  BY SMT DEF Word
<1>2. n \in Int
  BY SMT
<1>2a. n = 65535
  BY SMT
<1>. HIDE DEF n
<1>3. \A w : w \in 0..n <=> w \in Int /\ 0 <= w /\ w <= n
  BY <1>2, SMT
<1>4. \A w : w \in Word <=> w \in Int /\ 0 <= w /\ w <= n
  BY <1>1, <1>3, SMT
<1>. QED
  BY <1>2a, <1>4, SMT
(* A word is its two halves, and a number that is a word does not wrap. *)
LEMMA PairIsWord ==
  ASSUME NEW h \in Byte, NEW l \in Byte
  PROVE Pair(h, l) \in Word /\ Hi(Pair(h, l)) = h /\ Lo(Pair(h, l)) = l
<1>1. h \in Int /\ l \in Int /\ 0 <= h /\ h <= 255 /\ 0 <= l /\ l <= 255
  BY ByteRange, SMT
<1>. QED
  BY <1>1, WordRange, SMT DEF Pair, Hi, Lo
LEMMA HalvesOfWord ==
  ASSUME NEW w \in Word
  PROVE Hi(w) \in Byte /\ Lo(w) \in Byte /\ Pair(Hi(w), Lo(w)) = w
<1>1. w \in Int /\ 0 <= w /\ w <= 65535
  BY WordRange, SMT
<1>. QED
  BY <1>1, ByteRange, SMT DEF Pair, Hi, Lo
LEMMA WrapsNot ==
  ASSUME NEW w \in Word
  PROVE Wrap(w) = w
<1>1. w \in Int /\ 0 <= w /\ w <= 65535
  BY WordRange, SMT
<1>. QED
  BY <1>1, SMT DEF Wrap
-----------------------------------------------------------------------------
(* The core at the instructions of the interpreter *)

(* The device of a list job: an RTL8367S, and what it logs. *)
Switch(d) ==
  /\ DOMAIN d = {"sfr", "regs", "xram", "ssp", "out", "ti", "log", "ocp"}
  /\ d.sfr \in [IndaccFile \cup PedmaFile -> Byte]
  /\ DOMAIN d.regs \subseteq Word /\ d.regs \in [DOMAIN d.regs -> Word]
  /\ d.log \in Seq(Word \X Word)

Machine == Switch(dev) /\ cell \in [Cell -> Byte]

(* The device is an RTL8367S: its hooks are those of Soc, A, B and DPTR are cells. *)
LEMMA NotHooked ==
  ASSUME Switch(dev)
  PROVE /\ ~IsRtl8372(dev) /\ BoardHooked(dev) = Hooked
        /\ \A n \in {"A","B","DPH","DPL"} : n \notin Hooked
        /\ IndaccFile \subseteq Hooked /\ "INDACC_CMD" \in Hooked /\ "INDACC_STATUS" \in Hooked
  BY DEF Switch, IsRtl8372, BoardHooked, Hooked, IndaccFile, PedmaFile

(* One lemma for every form of instruction that the interpreter has: what a   *)
(* step of the core at such an instruction does (genops.py).                *)
LEMMA Dispatch ==
  ASSUME Step
  PROVE /\ Op \in {"movi", "movx"} => Move
        /\ Op = "inc_dptr" => IncDptr
        /\ Op = "movc" => Load
        /\ Op \in {"anlx", "orlx"} => Logic
        /\ Op = "clr_a7" => Unary
        /\ Op \in {"jmp", "jz", "jb"} => Jump
        /\ Op = "cjne" => CompareJump
        /\ Op = "call" => Call
        /\ Op = "ret" => Return
<1>. USE DEF Step, Move, MoveDptr, IncDptr, Load, Store, Exchange, Arith, Logic, Unary, RotateCarry,
         Multiply, SetBit, Jump, CompareJump, DecrementJump, Call, Return, Push, Pop
<1>1. Op \in {"movi", "movx"} => Move
  OBVIOUS
<1>2. Op = "inc_dptr" => IncDptr
  OBVIOUS
<1>3. Op = "movc" => Load
  OBVIOUS
<1>4. Op \in {"anlx", "orlx"} => Logic
  OBVIOUS
<1>5. Op = "clr_a7" => Unary
  OBVIOUS
<1>6. Op \in {"jmp", "jz", "jb"} => Jump
  OBVIOUS
<1>7. Op = "cjne" => CompareJump
  OBVIOUS
<1>8. Op = "call" => Call
  OBVIOUS
<1>9. Op = "ret" => Return
  OBVIOUS
<1>. HIDE DEF Step, Move, MoveDptr, IncDptr, Load, Store, Exchange, Arith, Logic, Unary, RotateCarry,
         Multiply, SetBit, Jump, CompareJump, DecrementJump, Call, Return, Push, Pop
<1>. QED
  BY <1>1, <1>2, <1>3, <1>4, <1>5, <1>6, <1>7, <1>8, <1>9

LEMMA StoreA ==
  ASSUME Machine, Step, NEW n \in IndaccFile, Insn = <<"movx", n, "A">>
  PROVE /\ dev' = [dev EXCEPT !.sfr[n] = A] /\ pc' = After /\ UNCHANGED <<cell, psw, stack, rom>>
<1>1. Move
  BY Dispatch DEF Op
<1>2. Read("A") = A /\ AfterGet(dev, "A") = dev
  BY NotHooked DEF Read, AfterGet, A, Machine
<1>3. BoardPut(dev, n, A) = [dev EXCEPT !.sfr[n] = A]
  BY NotHooked DEF BoardPut, Put, Machine, IndaccFile, PedmaFile
<1>4. n \in BoardHooked(dev)
  BY NotHooked DEF Machine
<1>. QED
  BY <1>1, <1>2, <1>3, <1>4 DEF Move, Op, Write

LEMMA StoreB ==
  ASSUME Machine, Step, Insn = <<"movx", "B", "A">>
  PROVE /\ cell' = [cell EXCEPT !["B"] = A] /\ pc' = After /\ UNCHANGED <<dev, psw, stack, rom>>
<1>1. Move
  BY Dispatch DEF Op
<1>2. Read("A") = A /\ AfterGet(dev, "A") = dev
  BY NotHooked DEF Read, AfterGet, A, Machine
<1>4. "B" \notin BoardHooked(dev)
  BY NotHooked DEF Machine
<1>. QED
  BY <1>1, <1>2, <1>4 DEF Move, Op, Write

(* What a step may leave: the cells a list is read with, and the return point. *)
CellsKept == A' = A /\ (cell["B"])' = cell["B"] /\ Dptr' = Dptr
Onwards == pc' = After /\ UNCHANGED <<stack, rom>>

LEMMA CellKept ==
  ASSUME UNCHANGED cell PROVE CellsKept
  BY DEF CellsKept, A, Dptr

LEMMA DptrIsWord ==
  ASSUME Machine
  PROVE Dptr \in Word /\ Hi(Dptr) = cell["DPH"] /\ Lo(Dptr) = cell["DPL"]
<1>1. cell["DPH"] \in Byte /\ cell["DPL"] \in Byte
  BY CellAssumption DEF Machine
<1>. QED
  BY <1>1, PairIsWord DEF Dptr

LEMMA Stores ==
  ASSUME Machine, Step, NEW n \in IndaccFile, Insn = <<"movx", n, "A">>
  PROVE /\ Machine' /\ Onwards /\ CellsKept
        /\ \A m \in IndaccFile : dev'.sfr[m] = IF m = n THEN A ELSE dev.sfr[m]
        /\ dev'.regs = dev.regs /\ dev'.log = dev.log
<1>1. dev' = [dev EXCEPT !.sfr[n] = A] /\ pc' = After /\ UNCHANGED <<cell, psw, stack, rom>>
  BY StoreA
<1>2. A \in Byte
  BY CellAssumption DEF A, Machine
<1>. QED
  BY <1>1, <1>2, CellKept DEF Machine, Switch, Onwards

LEMMA NewAccumulator ==
  ASSUME Machine, NEW v \in Byte, cell' = [cell EXCEPT !["A"] = v], dev' = dev
  PROVE Machine' /\ A' = v /\ (cell["B"])' = cell["B"] /\ Dptr' = Dptr
  BY CellAssumption DEF Machine, A, Dptr

LEMMA Clears ==
  ASSUME Machine, Step, Insn = Clr
  PROVE /\ Machine' /\ Onwards /\ UNCHANGED dev
        /\ A' = 0 /\ (cell["B"])' = cell["B"] /\ Dptr' = Dptr
<1>1. Move
  BY Dispatch DEF Op, Clr
<1>2. "A" \notin BoardHooked(dev)
  BY NotHooked DEF Machine
<1>3. cell' = [cell EXCEPT !["A"] = 0] /\ dev' = dev /\ Onwards
  BY <1>1, <1>2 DEF Move, Op, Write, Clr, Onwards
<1>4. 0 \in Byte
  BY ByteRange
<1>. QED
  BY <1>3, <1>4, NewAccumulator

LEMMA Fetches ==
  ASSUME Machine, Step, Insn = Movc, A = 0, Dptr \in DOMAIN rom, rom[Dptr] \in Byte
  PROVE /\ Machine' /\ Onwards /\ UNCHANGED dev
        /\ A' = rom[Dptr] /\ (cell["B"])' = cell["B"] /\ Dptr' = Dptr
<1>1. Load
  BY Dispatch DEF Op, Movc
<1>2. Wrap(Dptr + A) = Dptr
  <2>1. Dptr + A = Dptr
    BY DptrIsWord, WordRange, SMT
  <2>. QED
    BY <2>1, DptrIsWord, WrapsNot, SMT
<1>3. ~IsRtl8372(dev)
  BY NotHooked DEF Machine
<1>4. Op = "movc"
  BY DEF Op, Movc
<1>5. cell' = [cell EXCEPT !["A"] = rom[Dptr]] /\ dev' = dev /\ Onwards
  <2>. DEFINE code(a) == IF IsRtl8372(dev) THEN Code72(dev, a) ELSE IF a \in DOMAIN rom THEN rom[a] ELSE 255
  <2>1. /\ cell' = [cell EXCEPT !["A"] = IF Op = "movc" THEN code(Wrap(Dptr + A)) ELSE BoardXram(dev, Dptr)]
        /\ pc' = After /\ stack' = stack /\ rom' = rom /\ dev' = dev
    BY <1>1, Zenon DEF Load
  <2>2. code(Dptr) = rom[Dptr]
    BY <1>3
  <2>. QED
    BY <2>1, <2>2, <1>2, <1>4 DEF Onwards
<1>. QED
  BY <1>5, NewAccumulator

LEMMA Advances ==
  ASSUME Machine, Step, Insn = Inc, Dptr + 1 \in Word
  PROVE /\ Machine' /\ Onwards /\ UNCHANGED dev
        /\ A' = A /\ (cell["B"])' = cell["B"] /\ Dptr' = Dptr + 1
<1>1. IncDptr
  BY Dispatch DEF Op, Inc
<1>. DEFINE next == Dptr + 1
<1>2. next \in Word
  OBVIOUS
<1>3. Wrap(next) = next
  BY <1>2, WrapsNot, SMT
<1>4. cell' = [cell EXCEPT !["DPH"] = Hi(next), !["DPL"] = Lo(next)] /\ dev' = dev /\ Onwards
  <2>1. /\ cell' = [cell EXCEPT !["DPH"] = Hi(Wrap(next)), !["DPL"] = Lo(Wrap(next))]
        /\ pc' = After /\ stack' = stack /\ rom' = rom /\ dev' = dev
    BY <1>1, Zenon DEF IncDptr
  <2>. QED
    BY <2>1, <1>3, Zenon DEF Onwards
<1>. HIDE DEF next
<1>5. Hi(next) \in Byte /\ Lo(next) \in Byte /\ Pair(Hi(next), Lo(next)) = next
  BY <1>2, HalvesOfWord
<1>6. cell'["DPH"] = Hi(next) /\ cell'["DPL"] = Lo(next) /\ cell'["A"] = cell["A"] /\ cell'["B"] = cell["B"]
  BY <1>4, CellAssumption DEF Machine
<1>7. Machine'
  BY <1>4, <1>5, CellAssumption DEF Machine
<1>. QED
  BY <1>4, <1>5, <1>6, <1>7 DEF A, Dptr, next

-----------------------------------------------------------------------------
(* Bits *)

(* What BitAnd and BitOr of two bytes are bounded by: JZ after ORL tests both. *)
LEMMA BitBounds ==
  ASSUME NEW x \in Byte, NEW y \in Byte
  PROVE /\ BitAnd(x, y) \in Byte /\ BitAnd(x, y) <= x /\ BitAnd(x, y) <= y
        /\ BitOr(x, y) \in Byte
        /\ BitOr(x, y) = 0 => x = 0 /\ y = 0
<1>. DEFINE b(p) == IF (x \div p) % 2 = 1 /\ (y \div p) % 2 = 1 THEN p ELSE 0
            c(p) == IF (x \div p) % 2 = 1 THEN p ELSE 0
            d(p) == IF (y \div p) % 2 = 1 THEN p ELSE 0
            Between(p) == /\ b(p) \in Int /\ c(p) \in Int /\ d(p) \in Int
                          /\ 0 <= b(p) /\ b(p) <= c(p) /\ b(p) <= d(p) /\ c(p) + d(p) - b(p) <= p
<1>1. x = c(1) + c(2) + c(4) + c(8) + c(16) + c(32) + c(64) + c(128)
  BY SMTT(30) DEF Byte
<1>2. y = d(1) + d(2) + d(4) + d(8) + d(16) + d(32) + d(64) + d(128)
  BY SMTT(30) DEF Byte
<1>3. BitAnd(x, y) = b(1) + b(2) + b(4) + b(8) + b(16) + b(32) + b(64) + b(128)
  BY SMTT(30) DEF BitAnd, Byte
<1>4. /\ Between(1) /\ Between(2) /\ Between(4) /\ Between(8)
      /\ Between(16) /\ Between(32) /\ Between(64) /\ Between(128)
  OBVIOUS
<1>. HIDE DEF b, c, d
<1>5. BitAnd(x, y) \in Int /\ 0 <= BitAnd(x,y) /\ BitAnd(x,y) <= x /\ BitAnd(x, y) <= y /\ x + y - BitAnd(x, y) <= 255
  BY <1>1, <1>2, <1>3, <1>4, SMTT(30)
<1>6. BitOr(x, y) = x + y - BitAnd(x, y)
  BY DEF BitOr
<1>7. x \in Int /\ y \in Int /\ 0 <= x /\ 0 <= y
  BY ByteRange, SMT
<1>8. BitOr(x, y) = 0 => x = 0 /\ y = 0
  BY <1>5, <1>6, <1>7, SMT
<1>. QED
  BY <1>5, <1>6, <1>7, <1>8, ByteRange, SMT

(* The bits of a word are those of its halves. *)
LEMMA PairBits ==
  ASSUME NEW h \in Byte, NEW l \in Byte, NEW x, x = Pair(h, l)
  PROVE /\ \A p \in {1, 2, 4, 8, 16, 32, 64, 128} : (x \div p) % 2 = (l \div p) % 2
        /\ (x \div 256) % 2 = (h \div 1) % 2 /\ (x \div 512) % 2 = (h \div 2) % 2 /\ (x \div 1024) % 2 = (h \div 4) % 2
        /\ (x \div 2048) % 2 = (h \div 8) % 2 /\ (x \div 4096) % 2 = (h \div 16) % 2 /\ (x \div 8192) % 2 = (h \div 32) % 2
        /\ (x \div 16384) % 2 = (h \div 64) % 2 /\ (x \div 32768) % 2 = (h \div 128) % 2
<1>. x \in Int /\ x = 256 * h + l /\ h \in Int /\ 0 <= h /\ h <= 255 /\ l \in Int /\ 0 <= l /\ l <= 255
  BY DEF Pair, Byte
<1>1. (x \div 1) % 2 = (l \div 1) % 2 /\ (x \div 2) % 2 = (l \div 2) % 2
  BY SMTT(30)
<1>2. (x \div 4) % 2 = (l \div 4) % 2 /\ (x \div 8) % 2 = (l \div 8) % 2
  BY SMTT(30)
<1>3. (x \div 16) % 2 = (l \div 16) % 2 /\ (x \div 32) % 2 = (l \div 32) % 2
  BY SMTT(30)
<1>4. (x \div 64) % 2 = (l \div 64) % 2 /\ (x \div 128) % 2 = (l \div 128) % 2
  BY SMTT(30)
<1>5. x \div 256 = h \div 1 /\ x \div 512 = h \div 2 /\ x \div 1024 = h \div 4
  BY SMTT(30)
<1>6. x \div 2048 = h \div 8 /\ x \div 4096 = h \div 16 /\ x \div 8192 = h \div 32
  BY SMTT(30)
<1>7. x \div 16384 = h \div 64 /\ x \div 32768 = h \div 128
  BY SMTT(30)
<1>. QED
  BY <1>1, <1>2, <1>3, <1>4, <1>5, <1>6, <1>7

LEMMA AndOfBytes ==
  ASSUME NEW x \in Byte, NEW y
  PROVE LET b(p) == IF (x \div p) % 2 = 1 /\ (y \div p) % 2 = 1 THEN p ELSE 0
        IN  BitAnd(x, y) = b(1) + b(2) + b(4) + b(8) + b(16) + b(32) + b(64) + b(128)
<1>. DEFINE b(p) == IF (x \div p) % 2 = 1 /\ (y \div p) % 2 = 1 THEN p ELSE 0
<1>1. b(256) = 0 /\ b(512) = 0 /\ b(1024) = 0 /\ b(2048) = 0 /\ b(4096) = 0 /\ b(8192) = 0 /\ b(16384) = 0 /\ b(32768) = 0
  BY SMTT(30) DEF Byte
<1>. QED
  BY <1>1 DEF BitAnd

(* AND works on the halves of a word one by one, as the firmware does. *)
LEMMA AndHalves ==
  ASSUME NEW h \in Byte, NEW l \in Byte, NEW i \in Byte, NEW m \in Byte
  PROVE BitAnd(Pair(h, l), Pair(i, m)) = Pair(BitAnd(h, i), BitAnd(l, m))
<1>. DEFINE x == Pair(h,l) y == Pair(i,m)
<1>. DEFINE b(u, v, p) == IF (u \div p) % 2 = 1 /\ (v \div p) % 2 = 1 THEN p ELSE 0
            t(u, v, p, q) == IF (u \div p) % 2 = 1 /\ (v \div p) % 2 = 1 THEN q ELSE 0
<1>1. /\ BitAnd(h, i) = b(h,i,1) + b(h,i,2) + b(h,i,4) + b(h,i,8) + b(h,i,16) + b(h,i,32) + b(h,i,64) + b(h,i,128)
      /\ BitAnd(l, m) = b(l,m,1) + b(l,m,2) + b(l,m,4) + b(l,m,8) + b(l,m,16) + b(l,m,32) + b(l,m,64) + b(l,m,128)
  BY AndOfBytes DEF b
<1>. HIDE DEF x, y
<1>2. BitAnd(x, y) = b(l,m,1) + b(l,m,2) + b(l,m,4) + b(l,m,8) + b(l,m,16) + b(l,m,32) + b(l,m,64) + b(l,m,128)
       + t(h,i,1,256) + t(h,i,2,512) + t(h,i,4,1024) + t(h,i,8,2048) + t(h,i,16,4096) + t(h,i,32,8192) + t(h,i,64,16384) + t(h,i,128,32768)
  <2>1. BitAnd(x,y) = b(x,y,1) + b(x,y,2) + b(x,y,4) + b(x,y,8) + b(x,y,16) + b(x,y,32) + b(x,y,64) + b(x,y,128)
     + b(x,y,256) + b(x,y,512) + b(x,y,1024) + b(x,y,2048) + b(x,y,4096) + b(x,y,8192) + b(x,y,16384) + b(x,y,32768)
    BY DEF BitAnd
  <2>2. b(x,y,1) = b(l,m,1) /\ b(x,y,2) = b(l,m,2) /\ b(x,y,4) = b(l,m,4) /\ b(x,y,8) = b(l,m,8)
        /\ b(x,y,16) = b(l,m,16) /\ b(x,y,32) = b(l,m,32) /\ b(x,y,64) = b(l,m,64) /\ b(x,y,128) = b(l,m,128)
    BY PairBits DEF x, y
  <2>3. b(x,y,256) = t(h,i,1,256) /\ b(x,y,512) = t(h,i,2,512) /\ b(x,y,1024) = t(h,i,4,1024) /\ b(x,y,2048) = t(h,i,8,2048)
    BY PairBits DEF x, y
  <2>4. b(x,y,4096) = t(h,i,16,4096) /\ b(x,y,8192) = t(h,i,32,8192) /\ b(x,y,16384) = t(h,i,64,16384) /\ b(x,y,32768) = t(h,i,128,32768)
    BY PairBits DEF x, y
  <2>. HIDE DEF b, t
  <2>. QED BY <2>1, <2>2, <2>3, <2>4
<1>3. \A p \in {1,2,4,8,16,32,64,128} : t(h,i,p,256 * p) = 256 * b(h,i,p) /\ b(l,m,p) \in Int /\ b(h,i,p) \in Int
  OBVIOUS
<1>4.  t(h,i,1,256) = 256 * b(h,i,1) /\ t(h,i,2,512) = 256 * b(h,i,2) /\ t(h,i,4,1024) = 256 * b(h,i,4) /\ t(h,i,8,2048) = 256 * b(h,i,8)
     /\ t(h,i,16,4096) = 256 * b(h,i,16) /\ t(h,i,32,8192) = 256 * b(h,i,32) /\ t(h,i,64,16384) = 256 * b(h,i,64) /\ t(h,i,128,32768) = 256 * b(h,i,128)
  OBVIOUS
<1>. HIDE DEF b, t
<1>7. BitAnd(x, y) = 256 * BitAnd(h, i) + BitAnd(l, m)
  BY <1>1, <1>2, <1>3, <1>4, SMTT(30)
<1>. QED
  BY <1>7 DEF x, y, Pair

LEMMA SavesB ==
  ASSUME Machine, Step, Insn = <<"movx", "B", "A">>
  PROVE /\ Machine' /\ Onwards /\ UNCHANGED dev
        /\ A' = A /\ (cell["B"])' = A /\ Dptr' = Dptr
<1>1. cell' = [cell EXCEPT !["B"] = A] /\ pc' = After /\ UNCHANGED <<dev, psw, stack, rom>>
  BY StoreB
<1>. QED
  BY <1>1, CellAssumption DEF Machine, A, Dptr, Onwards

LEMMA DropsTopBit ==
  ASSUME Machine, Step, Insn = <<"clr_a7">>
  PROVE /\ Machine' /\ Onwards /\ UNCHANGED dev
        /\ A' = A % 128 /\ (cell["B"])' = cell["B"] /\ Dptr' = Dptr
<1>1. Unary
  BY Dispatch DEF Op
<1>2. Op = "clr_a7"
  BY DEF Op
<1>3. cell' = [cell EXCEPT !["A"] = A % 128] /\ dev' = dev /\ Onwards
  BY <1>1, <1>2 DEF Unary, Onwards, A
<1>4. A % 128 \in Byte
  BY CellAssumption, ByteRange, SMT DEF Machine, A
<1>. QED
  BY <1>3, <1>4, NewAccumulator

LEMMA StepLogic ==
  ASSUME Machine, Step, NEW n \in IndaccFile, Op \in {"anlx", "orlx"}, Insn[2] = n
  PROVE /\ cell' = [cell EXCEPT !["A"] = IF Op = "anlx" THEN BitAnd(A, dev.sfr[n]) ELSE BitOr(A, dev.sfr[n])]
        /\ dev' = dev /\ Onwards
<1>1. Logic
  BY Dispatch DEF Op
<1>2. Read(n) = dev.sfr[n]
  <2>1. n \in BoardHooked(dev)
    BY NotHooked DEF Machine
  <2>2. BoardGet(dev, n) = dev.sfr[n]
    BY NotHooked DEF Machine, BoardGet, Get, IndaccFile, PedmaFile
  <2>. QED
    BY <2>1, <2>2 DEF Read
<1>. QED
  BY <1>1, <1>2 DEF Logic, Onwards

LEMMA Ands ==
  ASSUME Machine, Step, NEW n \in IndaccFile, Insn = <<"anlx", n>>
  PROVE /\ Machine' /\ Onwards /\ UNCHANGED dev
        /\ A' = BitAnd(A, dev.sfr[n]) /\ (cell["B"])' = cell["B"] /\ Dptr' = Dptr
<1>1. cell' = [cell EXCEPT !["A"] = BitAnd(A, dev.sfr[n])] /\ dev' = dev /\ Onwards
  BY StepLogic DEF Op
<1>2. A \in Byte /\ dev.sfr[n] \in Byte
  BY CellAssumption DEF Machine, Switch, A
<1>. QED
  BY <1>1, <1>2, BitBounds, NewAccumulator

LEMMA Ors ==
  ASSUME Machine, Step, NEW n \in IndaccFile, Insn = <<"orlx", n>>
  PROVE /\ Machine' /\ Onwards /\ UNCHANGED dev
        /\ A' = BitOr(A, dev.sfr[n]) /\ (cell["B"])' = cell["B"] /\ Dptr' = Dptr
<1>1. cell' = [cell EXCEPT !["A"] = BitOr(A, dev.sfr[n])] /\ dev' = dev /\ Onwards
  BY StepLogic DEF Op
<1>2. A \in Byte /\ dev.sfr[n] \in Byte
  BY CellAssumption DEF Machine, Switch, A
<1>. QED
  BY <1>1, <1>2, BitBounds, NewAccumulator

(* Jumps change the program counter alone (and CJNE the flags). *)
Same == UNCHANGED <<cell, stack, rom, dev>>
LEMMA SameMachine ==
  ASSUME Machine, Same
  PROVE Machine' /\ UNCHANGED <<dev, rom>> /\ CellsKept
  BY CellKept DEF Machine, Same

LEMMA Jumps ==
  ASSUME Machine, Step
  PROVE /\ \A l : Insn = <<"jmp", l>> => Same /\ pc' = To(l)
        /\ \A l : Insn = <<"jz", l>> => Same /\ pc' = IF A = 0 THEN To(l) ELSE After
        /\ \A l : Insn = <<"jb", "B.7", l>> => Same /\ pc' = IF cell["B"] > 127 THEN To(l) ELSE After
<1>1. Op \in {"jmp", "jz", "jb"} => Jump
  BY Dispatch
<1>2. Bit("B.7") = (cell["B"] > 127)
  BY DEF Bit, Flag
<1>3. \A l : Insn = <<"jmp", l>> => Same /\ pc' = To(l)
  BY <1>1 DEF Op, Jump, Data, Same
<1>4. \A l : Insn = <<"jz", l>> => Same /\ pc' = IF A = 0 THEN To(l) ELSE After
  BY <1>1 DEF Op, Jump, Branch, Data, Same
<1>5. ASSUME NEW l, Insn = <<"jb", "B.7", l>>
      PROVE Same /\ pc' = IF cell["B"] > 127 THEN To(l) ELSE After
  <2>1. Op = "jb" /\ Insn[2] = "B.7" /\ Insn[3] = l
    BY <1>5 DEF Op
  <2>2. Same /\ pc' = IF Bit("B.7") THEN To(l) ELSE After
    BY <1>1, <2>1 DEF Jump, Branch, Data, Same
  <2>. QED
    BY <1>2, <2>2
<1>. QED
  BY <1>3, <1>4, <1>5

LEMMA Compares ==
  ASSUME Machine, Step, NEW l, Insn = <<"cjne", "A", 0, l>>
  PROVE Same /\ pc' \in {To(l), After}
<1>1. CompareJump
  BY Dispatch DEF Op
<1>. QED
  BY <1>1 DEF CompareJump, Branch, Same

LEMMA Calling ==
  ASSUME Machine, Step, NEW l, Insn = <<"call", l>>
  PROVE /\ stack' = Append(stack, After) /\ pc' = To(l) /\ UNCHANGED <<cell, rom, dev>>
<1>1. Call
  BY Dispatch DEF Op
<1>. QED
  BY <1>1 DEF Call

LEMMA Returning ==
  ASSUME Machine, Step, Insn = <<"ret">>
  PROVE /\ stack # <<>> /\ stack' = Front(stack) /\ pc' = Last(stack) /\ UNCHANGED <<cell, rom, dev>>
<1>1. Return
  BY Dispatch DEF Op
<1>. QED
  BY <1>1 DEF Return

LEMMA ReadsStatus ==
  ASSUME Machine, Step, Insn = <<"movx", "A", "INDACC_STATUS">>
  PROVE /\ Machine' /\ Onwards /\ UNCHANGED dev
        /\ A' = 0 /\ (cell["B"])' = cell["B"] /\ Dptr' = Dptr
<1>1. Move
  BY Dispatch DEF Op
<1>2. "A" \notin BoardHooked(dev)
  BY NotHooked DEF Machine
<1>3. Read("INDACC_STATUS") = 0 /\ AfterGet(dev, "INDACC_STATUS") = dev
  BY NotHooked DEF Machine, Read, AfterGet, BoardGet, Get, IndaccFile, PedmaFile
<1>4. cell' = [cell EXCEPT !["A"] = 0] /\ dev' = dev /\ Onwards
  BY <1>1, <1>2, <1>3 DEF Move, Op, Write, Onwards
<1>5. 0 \in Byte
  BY ByteRange
<1>. QED
  BY <1>4, <1>5, NewAccumulator

LEMMA Commands ==
  ASSUME Machine, Step, NEW c, Insn = <<"movi", "INDACC_CMD", c>>
  PROVE /\ dev' = IndaccCmd(dev, c) /\ UNCHANGED cell /\ Onwards
<1>1. Move
  BY Dispatch DEF Op
<1>2. "INDACC_CMD" \in BoardHooked(dev)
  BY NotHooked DEF Machine
<1>3. BoardPut(dev, "INDACC_CMD", c) = IndaccCmd(dev, c)
  BY NotHooked DEF Machine, BoardPut, Put, IndaccFile, PedmaFile
<1>. QED
  BY <1>1, <1>2, <1>3 DEF Move, Op, Write, Onwards

LEMMA PortIsWord ==
  ASSUME Switch(dev)
  PROVE IndaccAddr(dev) \in Word /\ IndaccWdata(dev) \in Word
<1>1. /\ dev.sfr["INDACC_ADDR_H"] \in Byte /\ dev.sfr["INDACC_ADDR_L"] \in Byte
      /\ dev.sfr["INDACC_WDATA_H"] \in Byte /\ dev.sfr["INDACC_WDATA_L"] \in Byte
  BY DEF Switch, IndaccFile
<1>. QED
  BY <1>1, PairIsWord DEF IndaccAddr, IndaccWdata

LEMMA WritesRegister ==
  ASSUME Machine, Step, Insn = <<"movi", "INDACC_CMD", 3>>
  PROVE /\ Machine' /\ Onwards /\ CellsKept
        /\ dev'.sfr = dev.sfr /\ Len(dev'.log) = Len(dev.log) + 1
        /\ dev'.regs = Assign(dev.regs, IndaccAddr(dev), IndaccWdata(dev))
<1>. DEFINE a == IndaccAddr(dev)
            v == IndaccWdata(dev)
<1>1. dev' = RegWrite(dev, a, v) /\ UNCHANGED cell /\ Onwards
  BY Commands DEF IndaccCmd
<1>2. a \in Word /\ v \in Word
  BY PortIsWord DEF Machine
<1>. HIDE DEF a, v
<1>3. /\ dev'.sfr = dev.sfr /\ dev'.regs = Assign(dev.regs, a, v)
      /\ dev'.log = Append(dev.log, <<a, v>>) /\ DOMAIN dev' = DOMAIN dev
  BY <1>1 DEF RegWrite, Machine, Switch
<1>4. /\ DOMAIN Assign(dev.regs, a, v) \subseteq Word
      /\ Assign(dev.regs, a, v) \in [DOMAIN Assign(dev.regs, a, v) -> Word]
  BY <1>2 DEF Assign, Machine, Switch
<1>5. Append(dev.log, <<a, v>>) \in Seq(Word \X Word) /\ Len(Append(dev.log, <<a, v>>)) = Len(dev.log) + 1
  BY <1>2 DEF Machine, Switch
<1>6. Machine'
  BY <1>1, <1>3, <1>4, <1>5 DEF Machine, Switch
<1>. QED
  BY <1>1, <1>3, <1>5, <1>6, CellKept DEF a, v

LEMMA ReadsRegister ==
  ASSUME Machine, Step, Insn = <<"movi", "INDACC_CMD", 1>>,
         ~IsPhy(IndaccAddr(dev)), IndaccAddr(dev) # 6660
  PROVE /\ Machine' /\ Onwards /\ CellsKept
        /\ RegValue(dev, IndaccAddr(dev)) \in Word
        /\ dev'.regs = dev.regs /\ dev'.log = dev.log
        /\ dev'.sfr["INDACC_RDATA_H"] = Hi(RegValue(dev, IndaccAddr(dev)))
        /\ dev'.sfr["INDACC_RDATA_L"] = Lo(RegValue(dev, IndaccAddr(dev)))
        /\ dev'.sfr["INDACC_ADDR_H"] = dev.sfr["INDACC_ADDR_H"]
        /\ dev'.sfr["INDACC_ADDR_L"] = dev.sfr["INDACC_ADDR_L"]
<1>. DEFINE a == IndaccAddr(dev)
            v == RegValue(dev, a)
<1>1. dev' = IndaccCmd(dev, 1) /\ UNCHANGED cell /\ Onwards
  BY Commands
<1>2. RegRead(dev, a).val = v /\ RegRead(dev, a).dev = dev
  BY DEF RegRead
<1>3. v \in Word
  <2>1. Absent \in Word
    BY WordRange, SMT DEF Absent
  <2>. QED
    BY <2>1 DEF RegValue, Machine, Switch
<1>4. dev' = [dev EXCEPT !.sfr["INDACC_RDATA_H"] = Hi(v), !.sfr["INDACC_RDATA_L"] = Lo(v)]
  BY <1>1, <1>2 DEF IndaccCmd
<1>5. Hi(v) \in Byte /\ Lo(v) \in Byte
  BY <1>3, HalvesOfWord
<1>. HIDE DEF v
<1>7. /\ dev'.regs = dev.regs /\ dev'.log = dev.log
      /\ dev'.sfr = [dev.sfr EXCEPT !["INDACC_RDATA_H"] = Hi(v), !["INDACC_RDATA_L"] = Lo(v)]
      /\ DOMAIN dev' = DOMAIN dev
  BY <1>4 DEF Machine, Switch
<1>6. Machine'
  <2>1. dev'.sfr \in [IndaccFile \cup PedmaFile -> Byte]
    <3>1. dev.sfr \in [IndaccFile \cup PedmaFile -> Byte]
      BY DEF Machine, Switch
    <3>. {"INDACC_RDATA_H", "INDACC_RDATA_L"} \subseteq IndaccFile
      BY DEF IndaccFile
    <3>2. [dev.sfr EXCEPT !["INDACC_RDATA_H"] = Hi(v)] \in [IndaccFile \cup PedmaFile -> Byte]
      BY <3>1, <1>5
    <3>3. [dev.sfr EXCEPT !["INDACC_RDATA_H"] = Hi(v), !["INDACC_RDATA_L"] = Lo(v)]
            \in [IndaccFile \cup PedmaFile -> Byte]
      BY <3>1, <3>2, <1>5
    <3>. QED
      BY <3>3, <1>7
  <2>. QED
    BY <1>1, <1>7, <2>1 DEF Machine, Switch
<1>8. /\ dev'.sfr["INDACC_RDATA_H"] = Hi(v) /\ dev'.sfr["INDACC_RDATA_L"] = Lo(v)
      /\ dev'.sfr["INDACC_ADDR_H"] = dev.sfr["INDACC_ADDR_H"]
      /\ dev'.sfr["INDACC_ADDR_L"] = dev.sfr["INDACC_ADDR_L"]
  BY <1>7 DEF Machine, Switch, IndaccFile
<1>. QED
  BY <1>1, <1>3, <1>6, <1>7, <1>8, CellKept DEF v

-----------------------------------------------------------------------------
(* Lists *)

(* The sets of a list, by their bounds. *)
LEMMA AddressRange == \A n : n \in Address <=> n \in Int /\ 0 <= n /\ n <= 32767
<1>. DEFINE m == 32767
<1>1. Address = 0..m
  BY SMT DEF Address
<1>2. m \in Int
  BY SMT
<1>3. m = 32767
  BY SMT
<1>. HIDE DEF m
<1>4. \A n : n \in 0..m <=> n \in Int /\ 0 <= n /\ n <= m
  BY <1>2, SMT
<1>5. \A n : n \in Address <=> n \in Int /\ 0 <= n /\ n <= m
  BY <1>1, <1>4, SMT
<1>. QED
  BY <1>3, <1>5, SMT

LEMMA CodePlaceRange == \A n : n \in CodePlace <=> n \in Int /\ 0 <= n /\ n <= 65532
<1>. DEFINE m == 65532
<1>1. CodePlace = 0..m
  BY SMT DEF CodePlace
<1>2. m \in Int
  BY SMT
<1>3. m = 65532
  BY SMT
<1>. HIDE DEF m
<1>4. \A n : n \in 0..m <=> n \in Int /\ 0 <= n /\ n <= m
  BY <1>2, SMT
<1>5. \A n : n \in CodePlace <=> n \in Int /\ 0 <= n /\ n <= m
  BY <1>1, <1>4, SMT
<1>. QED
  BY <1>3, <1>5, SMT

(* An entry writes, or it modifies a register that reads as it was written. *)
LEMMA EntryShape ==
  ASSUME NEW e \in Entry
  PROVE \/ Len(e) = 2 /\ e[1] \in Address /\ e[1] # 0 /\ e[2] \in Word
        \/ /\ Len(e) = 3 /\ e[1] \in Address /\ e[2] \in Word /\ e[3] \in Word
           /\ ~IsPhy(e[1]) /\ e[1] # 6660
  BY SMT DEF Entry, Changeable

-----------------------------------------------------------------------------
(* The invariant *)

(* The entry that is due, its place, its first word, and the value it writes. *)
Due == Len(dev.log) + 1
Entries == Len(job.list)
Here == job.at[Due]
E == job.list[Due]
First == IF Due > Entries THEN 0 ELSE IF Len(E) = 2 THEN E[1] ELSE 32768 + E[1]
New == IF Len(E) = 2 THEN E[2]
       ELSE BitOr(BitAnd(RegValue(dev, E[1]), E[2]), E[3])

(* The list and code memory, and how far it has come. *)
InList ==
  /\ job.list \in Seq(Entry) /\ Assembled(job.list, job.at, job.bytes) /\ rom = job.bytes
  /\ Due \in 1..(Entries + 1)

In(label, i, j) == pc[1] = label /\ pc[2] \in i..j
(* CLR A, MOVC, INC DPTR at points from, from + 1 and from + 2 of a block fetch
   the byte at address a, and DPTR stays just after it until point to. *)
Fetching(label, from, to, a, byte) ==
  /\ In(label, from, from + 2) => Dptr = a
  /\ In(label, from + 1, from + 1) => A = 0
  /\ In(label, from + 2, from + 3) => A = byte
  /\ In(label, from + 3, to) => Dptr = a + 1

(* What holds at each point of the program, label by label. *)
AtEntry ==
  LET l == "reg_from_initlist" IN
  pc[1] = l =>
  /\ pc[2] \in 1..21 /\ stack = <<>>
  /\ Fetching(l, 1, 6, Here, Hi(First)) /\ Fetching(l, 7, 13, Here + 1, Lo(First))
  /\ In(l, 5, 5) => A = Hi(First)
  /\ In(l, 6, 6) => A = Hi(First) % 128
  /\ In(l, 5, 11) => cell["B"] = Hi(First)
  /\ In(l, 7, 21) => dev.sfr["INDACC_ADDR_H"] = Hi(First) % 128
  /\ In(l, 10, 12) => A = Lo(First)
  /\ In(l, 11, 21) => dev.sfr["INDACC_ADDR_L"] = Lo(First)
  /\ In(l, 12, 21) => First < 32768
  /\ In(l, 13, 13) => A = BitOr(Lo(First), Hi(First))
  /\ In(l, 14, 21) =>
       /\ Due <= Entries /\ Len(E) = 2
       /\ Fetching(l, 14, 17, Here + 2, Hi(E[2])) /\ Fetching(l, 18, 21, Here + 3, Lo(E[2]))
       /\ In(l, 18, 21) => dev.sfr["INDACC_WDATA_H"] = Hi(E[2])

AtWrite ==
  LET l == "reg_from_initlist_write" IN
  pc[1] = l =>
  /\ pc[2] \in 1..3 /\ stack = <<>>
  /\ In(l, 1, 1) => /\ Due <= Entries
                    /\ IndaccAddr(dev) = E[1] /\ IndaccWdata(dev) = New
                    /\ Dptr = job.at[Due + 1]
  /\ In(l, 2, 3) => Dptr = Here

(* While an entry modifies: the entry, what the register holds, and the bits of
   it that stay. *)
Modifying == Due <= Entries /\ Len(E) = 3 /\ IndaccAddr(dev) = E[1]
Current == RegValue(dev, E[1])
HasRead == /\ dev.sfr["INDACC_RDATA_H"] = Hi(Current)
           /\ dev.sfr["INDACC_RDATA_L"] = Lo(Current)
KeptHi == BitAnd(Hi(E[2]), Hi(Current))
KeptLo == BitAnd(Lo(E[2]), Lo(Current))
AtModify ==
  LET l == "reg_from_initlist_rmw" IN
  pc[1] = l =>
  /\ pc[2] \in 1..23 /\ stack = <<>> /\ Modifying
  /\ In(l, 1, 2) => Dptr = Here + 2
  /\ In(l, 2, 23) => HasRead
  /\ Fetching(l, 3, 7, Here + 2, Hi(E[2])) /\ Fetching(l, 8, 12, Here + 3, Lo(E[2]))
  /\ Fetching(l, 13, 17, Here + 4, Hi(E[3])) /\ Fetching(l, 18, 23, Here + 5, Lo(E[3]))
  /\ In(l, 7, 7) => A = KeptHi
  /\ In(l, 8, 17) => dev.sfr["INDACC_WDATA_H"] = KeptHi
  /\ In(l, 12, 12) => A = KeptLo
  /\ In(l, 13, 22) => dev.sfr["INDACC_WDATA_L"] = KeptLo
  /\ In(l, 17, 17) => A = BitOr(Hi(E[3]), KeptHi)
  /\ In(l, 18, 23) => dev.sfr["INDACC_WDATA_H"] = BitOr(Hi(E[3]), KeptHi)
  /\ In(l, 22, 22) => A = BitOr(Lo(E[3]), KeptLo)
  /\ In(l, 23, 23) => dev.sfr["INDACC_WDATA_L"] = BitOr(Lo(E[3]), KeptLo)

AtStatus ==
  pc[1] = "reg_status_loop" =>
  /\ pc[2] \in 1..3
  /\ \/ stack = << <<"reg_from_initlist_write", 3>> >> /\ Dptr = Here
     \/ /\ stack = << <<"reg_from_initlist_rmw", 3>> >>
        /\ Modifying /\ HasRead /\ Dptr = Here + 2

AtDone ==
  pc[1] = "reg_from_initlist_done" =>
    pc[2] = 1 /\ stack = <<>> /\ Due = Entries + 1 /\ Dptr = Here + 2

(* The labels of the interpreter and of the loop it calls. *)
Labels == {"reg_from_initlist", "reg_from_initlist_write", "reg_from_initlist_rmw",
           "reg_status_loop", "reg_from_initlist_done"}

ListInv ==
  Listing =>
  /\ Machine /\ InList
  /\ pc[1] \in Labels
  /\ AtEntry /\ AtWrite /\ AtModify /\ AtStatus /\ AtDone

USE DEF Labels

(* MOVC at address a reads byte b, and INC DPTR goes on without a wrap. *)
Ready(a, b) == a \in DOMAIN rom /\ rom[a] = b /\ b \in Byte /\ a + 1 \in Word

(* The entry that is due lies at Here: its words, and the place of the next. *)
LEMMA DueEntry ==
  ASSUME InList, Due <= Entries
  PROVE /\ E \in Entry /\ Here \in CodePlace /\ job.at[Due + 1] \in CodePlace
        /\ job.at[Due + 1] = Here + 2 * Len(E)
        /\ Holds(rom, Here, IF Len(E) = 2 THEN E[1] ELSE 32768 + E[1])
        /\ \A i \in 2..Len(E) : Holds(rom, Here + 2 * (i - 1), E[i])
<1>1. Due \in 1..Entries /\ Due \in 1..(Entries + 1) /\ Due + 1 \in 1..(Entries + 1)
  BY SMT DEF InList, Entries
<1>2. E \in Entry
  BY <1>1, SMT DEF InList, E, Entries
<1>3. job.at \in [1..(Entries + 1) -> CodePlace]
  BY SMT DEF InList, Assembled, Entries
<1>4. \A k \in 1..Entries :
         LET e == job.list[k]
         IN  /\ job.at[k + 1] = job.at[k] + 2 * Len(e)
             /\ Holds(rom, job.at[k], IF Len(e) = 2 THEN e[1] ELSE 32768 + e[1])
             /\ \A i \in 2..Len(e) : Holds(rom, job.at[k] + 2 * (i - 1), e[i])
  BY SMT DEF InList, Assembled, Entries
<1>5. Here \in CodePlace /\ job.at[Due + 1] \in CodePlace
  <2>1. \A k \in 1..(Entries + 1) : job.at[k] \in CodePlace
    BY <1>3
  <2>. QED
    BY <1>1, <2>1, Zenon DEF Here
<1>6. /\ job.at[Due + 1] = Here + 2 * Len(E)
      /\ Holds(rom, Here, IF Len(E) = 2 THEN E[1] ELSE 32768 + E[1])
      /\ \A i \in 2..Len(E) : Holds(rom, Here + 2 * (i - 1), E[i])
  <2>. DEFINE k == Due
  <2>1. k \in 1..Entries
    BY <1>1
  <2>. HIDE DEF k
  <2>2. LET e == job.list[k]
         IN  /\ job.at[k + 1] = job.at[k] + 2 * Len(e)
             /\ Holds(rom, job.at[k], IF Len(e) = 2 THEN e[1] ELSE 32768 + e[1])
             /\ \A i \in 2..Len(e) : Holds(rom, job.at[k] + 2 * (i - 1), e[i])
    BY <1>4, <2>1, SMT
  <2>. QED
    BY <2>2, SMT DEF k, Here, E
<1>. QED
  BY <1>2, <1>5, <1>6, SMT

(* Behind the last entry lies the word 0. *)
LEMMA EndOfList ==
  ASSUME InList, Due = Entries + 1
  PROVE Here \in CodePlace /\ Holds(rom, Here, 0) /\ First = 0
<1>1. Here \in CodePlace /\ Holds(rom, Here, 0)
  BY SMT DEF InList, Assembled, Here, Entries
<1>2. Due > Entries
  BY SMT DEF InList, Entries
<1>. QED
  BY <1>1, <1>2 DEF First

(* The first word tells the end, a write and an entry that modifies apart. *)
LEMMA FirstOfEntry ==
  ASSUME InList
  PROVE /\ First \in Word
        /\ First = 0 <=> Due = Entries + 1
        /\ First < 32768 => Due = Entries + 1 \/ (Due <= Entries /\ Len(E) = 2 /\ First = E[1])
        /\ First >= 32768 => Due <= Entries /\ Len(E) = 3 /\ First = 32768 + E[1] /\ E[1] \in Address
        /\ Here \in CodePlace /\ Holds(rom, Here, First)
<1>1. CASE Due = Entries + 1
  <2>1. ~(Due <= Entries)
    BY <1>1, SMT DEF InList, Entries
  <2>2. 0 \in Word
    BY WordRange, SMT
  <2>. QED
    BY <1>1, <2>1, <2>2, EndOfList, SMT
<1>2. CASE Due <= Entries
  <2>1. /\ ~(Due > Entries) /\ Due # Entries + 1
    BY <1>2, SMT DEF InList, Entries
  <2>2. First = IF Len(E) = 2 THEN E[1] ELSE 32768 + E[1]
    BY <2>1, SMT DEF First
  <2>3. E \in Entry /\ Here \in CodePlace /\ Holds(rom, Here, First)
    BY <1>2, <2>2, DueEntry, SMT
  <2>4. CASE Len(E) = 2
    <3>1. First = E[1] /\ E[1] \in Address /\ E[1] # 0
      BY <2>2, <2>3, <2>4, EntryShape, SMT
    <3>2. First \in Word /\ First # 0 /\ First < 32768 /\ ~(First >= 32768)
      BY <3>1, AddressRange, WordRange, SMT
    <3>. QED
      BY <1>2, <2>1, <2>3, <2>4, <3>1, <3>2, SMT
  <2>5. CASE Len(E) # 2
    <3>1. Len(E) = 3 /\ First = 32768 + E[1] /\ E[1] \in Address
      BY <2>2, <2>3, <2>5, EntryShape, SMT
    <3>2. First \in Word /\ First # 0 /\ ~(First < 32768)
      BY <3>1, AddressRange, WordRange, SMT
    <3>. QED
      BY <1>2, <2>1, <2>3, <3>1, <3>2, SMT
  <2>. QED
    BY <2>4, <2>5
<1>. QED
  BY <1>1, <1>2, SMT DEF InList, Entries

(* The bytes of a word that code memory holds can be read. *)
LEMMA Readable ==
  ASSUME NEW w \in Word, NEW a \in Int, Holds(rom, a, w), 0 <= a, a <= 65532
  PROVE Ready(a, Hi(w)) /\ Ready(a + 1, Lo(w))
<1>1. /\ a \in DOMAIN rom /\ a + 1 \in DOMAIN rom
      /\ rom[a] = Hi(w) /\ rom[a + 1] = Lo(w)
  BY SMT DEF Holds
<1>2. Hi(w) \in Byte /\ Lo(w) \in Byte
  BY HalvesOfWord
<1>3. a + 1 \in Word /\ a + 1 + 1 \in Word
  BY WordRange, SMT
<1>. QED
  BY <1>1, <1>2, <1>3, SMT DEF Ready

LEMMA FirstReadable ==
  ASSUME InList
  PROVE Here \in Int /\ First \in Word /\ Ready(Here, Hi(First)) /\ Ready(Here + 1, Lo(First))
<1>1. Here \in Int /\ 0 <= Here /\ Here <= 65532
  BY FirstOfEntry, CodePlaceRange, SMT
<1>2. First \in Word /\ Holds(rom, Here, First)
  BY FirstOfEntry
<1>. QED
  BY <1>1, <1>2, Readable

(* The words after the first one. *)
LEMMA OtherWords ==
  ASSUME InList, Due <= Entries
  PROVE /\ Len(E) \in {2, 3} /\ E[2] \in Word /\ Ready(Here + 2, Hi(E[2])) /\ Ready(Here + 3, Lo(E[2]))
        /\ Len(E) = 3 => /\ E[3] \in Word /\ Ready(Here + 4, Hi(E[3])) /\ Ready(Here + 5, Lo(E[3]))
                         /\ ~IsPhy(E[1]) /\ E[1] # 6660
        /\ job.at[Due + 1] = Here + 2 * Len(E)
<1>1. /\ Here \in Int /\ 0 <= Here /\ Here <= 65532
      /\ job.at[Due + 1] \in Int /\ 0 <= job.at[Due + 1] /\ job.at[Due + 1] <= 65532
  BY DueEntry, CodePlaceRange, SMT
<1>2. /\ Len(E) \in {2, 3} /\ E[2] \in Word
      /\ Len(E) = 3 => E[3] \in Word /\ ~IsPhy(E[1]) /\ E[1] # 6660
  BY DueEntry, EntryShape, SMT
<1>3. job.at[Due + 1] = Here + 2 * Len(E)
  BY DueEntry
<1>4. Holds(rom, Here + 2, E[2]) /\ (Len(E) = 3 => Holds(rom, Here + 4, E[3]))
  BY DueEntry, <1>2, SMT
<1>5. Here + 2 \in Int /\ 0 <= Here + 2 /\ Here + 2 <= 65532
  BY <1>1, <1>2, <1>3, SMT
<1>6. Len(E) = 3 => Here + 4 \in Int /\ 0 <= Here + 4 /\ Here + 4 <= 65532
  BY <1>1, <1>2, <1>3, SMT
<1>7. Ready(Here + 2, Hi(E[2])) /\ Ready(Here + 2 + 1, Lo(E[2])) /\ Here + 2 + 1 = Here + 3
  BY <1>1, <1>2, <1>4, <1>5, Readable, SMT
<1>8. Len(E) = 3 => Ready(Here + 4, Hi(E[3])) /\ Ready(Here + 4 + 1, Lo(E[3])) /\ Here + 4 + 1 = Here + 5
  BY <1>1, <1>2, <1>4, <1>6, Readable, SMT
<1>. QED
  BY <1>2, <1>3, <1>7, <1>8

(* The instruction at each point of the interpreter and of the loop it calls
   (hello.s:237-303). *)
LEMMA Located ==
  ASSUME NEW l, NEW code, NEW then, Code[l].code = code, Code[l].then = then, pc[1] = l
  PROVE Insn = code[pc[2]] /\ After = IF pc[2] < Len(code) THEN <<l, pc[2] + 1>> ELSE <<then, 1>>
  BY DEF Insn, After

LEMMA EntryCode ==
  ASSUME pc[1] = "reg_from_initlist", pc[2] \in 1..21
  PROVE /\ pc[2] \in {1, 7, 14, 18} => Insn = Clr
        /\ pc[2] \in {2, 8, 15, 19} => Insn = Movc
        /\ pc[2] \in {3, 9, 16, 20} => Insn = Inc
        /\ pc[2] = 4 => Insn = <<"movx", "B", "A">>
        /\ pc[2] = 5 => Insn = <<"clr_a7">>
        /\ pc[2] = 6 => Insn = <<"movx", "INDACC_ADDR_H", "A">>
        /\ pc[2] = 10 => Insn = <<"movx", "INDACC_ADDR_L", "A">>
        /\ pc[2] = 11 => Insn = <<"jb", "B.7", "reg_from_initlist_rmw">>
        /\ pc[2] = 12 => Insn = <<"orlx", "INDACC_ADDR_H">>
        /\ pc[2] = 13 => Insn = <<"jz", "reg_from_initlist_done">>
        /\ pc[2] = 17 => Insn = <<"movx", "INDACC_WDATA_H", "A">>
        /\ pc[2] = 21 => Insn = <<"movx", "INDACC_WDATA_L", "A">>
        /\ After = IF pc[2] < 21 THEN <<"reg_from_initlist", pc[2] + 1>> ELSE <<"reg_from_initlist_write", 1>>
<1>. DEFINE l == "reg_from_initlist"
            code == Code[l].code
<1>1. Code[l] = InitListCode[l]
  BY ProgramAssumption DEF InitListCode
<1>2. code = <<
    Clr, Movc, Inc, <<"movx", "B", "A">>, <<"clr_a7">>, <<"movx", "INDACC_ADDR_H", "A">>,
    Clr, Movc, Inc, <<"movx", "INDACC_ADDR_L", "A">>, <<"jb", "B.7", "reg_from_initlist_rmw">>,
    <<"orlx", "INDACC_ADDR_H">>, <<"jz", "reg_from_initlist_done">>,
    Clr, Movc, Inc, <<"movx", "INDACC_WDATA_H", "A">>,
    Clr, Movc, Inc, <<"movx", "INDACC_WDATA_L", "A">> >>
  BY <1>1 DEF InitListCode, Block
<1>3. Code[l].then = "reg_from_initlist_write"
  BY <1>1 DEF InitListCode, Block
<1>4. Insn = code[pc[2]] /\ After = IF pc[2] < Len(code) THEN <<"reg_from_initlist", pc[2] + 1>> ELSE <<"reg_from_initlist_write", 1>>
  BY <1>3, Located
<1>. HIDE DEF code
<1>. QED
  BY <1>2, <1>4, SMTT(30)

LEMMA WriteCode ==
  ASSUME pc[1] = "reg_from_initlist_write", pc[2] \in 1..3
  PROVE /\ pc[2] = 1 => Insn = <<"movi", "INDACC_CMD", 3>> /\ After = <<"reg_from_initlist_write", 2>>
        /\ pc[2] = 2 => Insn = <<"call", "reg_status_loop">> /\ After = <<"reg_from_initlist_write", 3>>
        /\ pc[2] = 3 => Insn = <<"jmp", "reg_from_initlist">>
<1>. DEFINE l == "reg_from_initlist_write"
            code == Code[l].code
<1>1. Code[l] = InitListCode[l]
  BY ProgramAssumption DEF InitListCode
<1>2. code = <<
    <<"movi", "INDACC_CMD", 3>>, <<"call", "reg_status_loop">>, <<"jmp", "reg_from_initlist">> >>
  BY <1>1 DEF InitListCode, Block, Closed
<1>3. Insn = code[pc[2]] /\ After = IF pc[2] < Len(code) THEN <<l, pc[2] + 1>> ELSE <<Code[l].then, 1>>
  BY Located
<1>. HIDE DEF code
<1>. QED
  BY <1>2, <1>3

LEMMA ModifyCode ==
  ASSUME pc[1] = "reg_from_initlist_rmw", pc[2] \in 1..23
  PROVE /\ pc[2] \in {3, 8, 13, 18} => Insn = Clr
        /\ pc[2] \in {4, 9, 14, 19} => Insn = Movc
        /\ pc[2] \in {5, 10, 15, 20} => Insn = Inc
        /\ pc[2] = 1 => Insn = <<"movi", "INDACC_CMD", 1>>
        /\ pc[2] = 2 => Insn = <<"call", "reg_status_loop">>
        /\ pc[2] = 6 => Insn = <<"anlx", "INDACC_RDATA_H">>
        /\ pc[2] = 11 => Insn = <<"anlx", "INDACC_RDATA_L">>
        /\ pc[2] = 16 => Insn = <<"orlx", "INDACC_WDATA_H">>
        /\ pc[2] = 21 => Insn = <<"orlx", "INDACC_WDATA_L">>
        /\ pc[2] \in {7, 17} => Insn = <<"movx", "INDACC_WDATA_H", "A">>
        /\ pc[2] \in {12, 22} => Insn = <<"movx", "INDACC_WDATA_L", "A">>
        /\ pc[2] = 23 => Insn = <<"jmp", "reg_from_initlist_write">>
        /\ pc[2] < 23 => After = <<"reg_from_initlist_rmw", pc[2] + 1>>
<1>. DEFINE l == "reg_from_initlist_rmw"
            code == Code[l].code
<1>1. Code[l] = InitListCode[l]
  BY ProgramAssumption DEF InitListCode
<1>2. code = <<
    <<"movi", "INDACC_CMD", 1>>, <<"call", "reg_status_loop">>,
    Clr, Movc, Inc, <<"anlx", "INDACC_RDATA_H">>, <<"movx", "INDACC_WDATA_H", "A">>,
    Clr, Movc, Inc, <<"anlx", "INDACC_RDATA_L">>, <<"movx", "INDACC_WDATA_L", "A">>,
    Clr, Movc, Inc, <<"orlx", "INDACC_WDATA_H">>, <<"movx", "INDACC_WDATA_H", "A">>,
    Clr, Movc, Inc, <<"orlx", "INDACC_WDATA_L">>, <<"movx", "INDACC_WDATA_L", "A">>,
    <<"jmp", "reg_from_initlist_write">> >>
  BY <1>1 DEF InitListCode, Block, Closed
<1>3. Insn = code[pc[2]] /\ After = IF pc[2] < Len(code) THEN <<l, pc[2] + 1>> ELSE <<Code[l].then, 1>>
  BY Located
<1>. HIDE DEF code
<1>4. Len(code) = 23 /\ Insn = code[pc[2]]
  BY <1>2, <1>3
<1>5. pc[2] < 23 => After = <<l, pc[2] + 1>>
  BY <1>3, <1>4
<1>6. /\ code[3] = Clr /\ code[8] = Clr /\ code[13] = Clr /\ code[18] = Clr
      /\ code[4] = Movc /\ code[9] = Movc /\ code[14] = Movc /\ code[19] = Movc
      /\ code[5] = Inc /\ code[10] = Inc /\ code[15] = Inc /\ code[20] = Inc
  BY <1>2
<1>7. /\ code[1] = <<"movi", "INDACC_CMD", 1>> /\ code[2] = <<"call", "reg_status_loop">>
      /\ code[6] = <<"anlx", "INDACC_RDATA_H">> /\ code[11] = <<"anlx", "INDACC_RDATA_L">>
      /\ code[16] = <<"orlx", "INDACC_WDATA_H">> /\ code[21] = <<"orlx", "INDACC_WDATA_L">>
      /\ code[7] = <<"movx", "INDACC_WDATA_H", "A">> /\ code[17] = <<"movx", "INDACC_WDATA_H", "A">>
      /\ code[12] = <<"movx", "INDACC_WDATA_L", "A">> /\ code[22] = <<"movx", "INDACC_WDATA_L", "A">>
      /\ code[23] = <<"jmp", "reg_from_initlist_write">>
  BY <1>2
<1>. QED
  BY <1>4, <1>5, <1>6, <1>7

LEMMA StatusCode ==
  ASSUME pc[1] = "reg_status_loop", pc[2] \in 1..3
  PROVE /\ pc[2] = 1 => Insn = <<"movx", "A", "INDACC_STATUS">> /\ After = <<"reg_status_loop", 2>>
        /\ pc[2] = 2 => Insn = <<"cjne", "A", 0, "reg_status_loop">> /\ After = <<"reg_status_loop", 3>>
        /\ pc[2] = 3 => Insn = <<"ret">>
<1>. DEFINE l == "reg_status_loop"
            code == Code[l].code
<1>1. Code[l] = Reg[l]
  BY ProgramAssumption DEF Reg
<1>2. code = << <<"movx", "A", "INDACC_STATUS">>, <<"cjne", "A", 0, "reg_status_loop">>, <<"ret">> >>
  BY <1>1 DEF Reg, Block, Closed
<1>3. Insn = code[pc[2]] /\ After = IF pc[2] < Len(code) THEN <<l, pc[2] + 1>> ELSE <<Code[l].then, 1>>
  BY Located
<1>. HIDE DEF code
<1>. QED
  BY <1>2, <1>3

LEMMA DoneCode ==
  ASSUME pc[1] = "reg_from_initlist_done", pc[2] = 1
  PROVE Insn = <<"ret">>
<1>1. Code["reg_from_initlist_done"] = InitListCode["reg_from_initlist_done"]
  BY ProgramAssumption DEF InitListCode
<1>2. Code["reg_from_initlist_done"].code = << <<"ret">> >>
  BY <1>1 DEF InitListCode, Block, Closed
<1>. QED
  BY <1>2 DEF Insn

(* The entry that is due, its place and the list stay. *)
KeepsList == /\ Due' = Due /\ Here' = Here /\ E' = E /\ First' = First /\ Entries' = Entries
             /\ InList'
(* A step that writes no register leaves the entry that is due. *)
LEMMA ListKept ==
  ASSUME InList, job' = job, rom' = rom, Len(dev'.log) = Len(dev.log)
  PROVE KeepsList
<1>1. Due' = Due /\ Entries' = Entries
  BY DEF Due, Entries
<1>. QED
  BY <1>1 DEF KeepsList, Here, E, First, InList

(* ... and what it writes. *)
LEMMA RegsKept ==
  ASSUME KeepsList, dev'.regs = dev.regs
  PROVE Current' = Current /\ New' = New
<1>1. E' = E
  BY DEF KeepsList
<1>2. \A a : RegValue(dev', a) = RegValue(dev, a)
  BY DEF RegValue
<1>. QED
  BY <1>1, <1>2 DEF Current, New

(* MOVC and INC DPTR at a byte that can be read. *)
LEMMA ReadsByte ==
  ASSUME Machine, Step, Insn = Movc, A = 0, NEW b, Ready(Dptr, b)
  PROVE /\ Machine' /\ Onwards /\ UNCHANGED dev
        /\ A' = b /\ (cell["B"])' = cell["B"] /\ Dptr' = Dptr
  BY Fetches DEF Ready

LEMMA PassesByte ==
  ASSUME Machine, Step, Insn = Inc, NEW b, Ready(Dptr, b)
  PROVE /\ Machine' /\ Onwards /\ UNCHANGED dev
        /\ A' = A /\ (cell["B"])' = cell["B"] /\ Dptr' = Dptr + 1
  BY Advances DEF Ready

(* Bit 15 of the first word, and the address without it. *)
LEMMA FirstHalves ==
  ASSUME NEW w \in Word
  PROVE /\ Hi(w) > 127 <=> w >= 32768
        /\ w >= 32768 => Pair(Hi(w) % 128, Lo(w)) = w - 32768
        /\ w < 32768 => Hi(w) % 128 = Hi(w)
        /\ Hi(w) = 0 /\ Lo(w) = 0 => w = 0
<1>1. w \in Int /\ 0 <= w /\ w <= 65535
  BY WordRange, SMT
<1>2. /\ w \div 256 > 127 <=> w >= 32768
      /\ w < 32768 => (w \div 256) % 128 = w \div 256
      /\ w >= 32768 => (w \div 256) % 128 = w \div 256 - 128
  BY <1>1, SMT
<1>3. /\ Hi(w) > 127 <=> w >= 32768
      /\ w < 32768 => Hi(w) % 128 = Hi(w)
      /\ w >= 32768 => Hi(w) % 128 = Hi(w) - 128
  BY <1>2, SMT DEF Hi
<1>4. Hi(w) \in Int /\ Lo(w) \in Int
  BY HalvesOfWord, ByteRange, SMT
<1>5. w = 256 * Hi(w) + Lo(w)
  BY HalvesOfWord, SMT DEF Pair
<1>6. w >= 32768 => 256 * (Hi(w) % 128) + Lo(w) = w - 32768
  BY <1>3, <1>4, <1>5, SMT
<1>7. Hi(w) = 0 /\ Lo(w) = 0 => w = 0
  BY <1>4, <1>5, SMT
<1>. QED
  BY <1>3, <1>6, <1>7, SMT DEF Pair

-----------------------------------------------------------------------------
(* Reading an entry *)

(* On to the next point of the block. *)
Stays(l) == pc'[1] = l /\ pc'[2] = pc[2] + 1 /\ stack' = <<>> /\ KeepsList

(* reg_from_initlist (hello.s:251-273) fetches the bytes of the first word, and
   of the value of an entry that writes. *)
LEMMA EntryFetch ==
  ASSUME Machine, InList, AtEntry, Step, job' = job, pc[1] = "reg_from_initlist",
         pc[2] \in {1, 2, 3, 7, 8, 9, 14, 15, 16, 18, 19, 20}
  PROVE Machine' /\ InList' /\ AtEntry' /\ pc'[1] = "reg_from_initlist"
<1>. DEFINE l == "reg_from_initlist"
<1>0. pc[1] = l
  OBVIOUS
<1>1. stack = <<>> /\ After = <<l, pc[2] + 1>>
  BY EntryCode, SMTT(30) DEF AtEntry
<1>2. /\ Here \in Int /\ Ready(Here, Hi(First)) /\ Ready(Here + 1, Lo(First))
      /\ Due <= Entries => Ready(Here + 2, Hi(E[2])) /\ Ready(Here + 3, Lo(E[2]))
  BY FirstReadable, OtherWords
<1>3. ASSUME Onwards, UNCHANGED dev
      PROVE Stays(l) /\ InList' /\ pc'[1] = l
  BY <1>1, <1>3, ListKept DEF Onwards, KeepsList, Stays
<1>. HIDE DEF l
<1>4. CASE pc[2] \in {1, 7, 14, 18}
  <2>1. /\ Machine' /\ Onwards /\ UNCHANGED dev
        /\ A' = 0 /\ (cell["B"])' = cell["B"] /\ Dptr' = Dptr
    BY <1>4, EntryCode, Clears
  <2>2. Stays(l)
    BY <1>3, <2>1
  <2>. USE <1>0, <2>1, <2>2 DEF AtEntry, Fetching, In, l, Stays, KeepsList
  <2>3. pc[2] = 1 => AtEntry'
    BY SMT
  <2>4. pc[2] = 7 => AtEntry'
    BY SMT
  <2>5. pc[2] = 14 => AtEntry'
    BY SMT
  <2>6. pc[2] = 18 => AtEntry'
    BY SMT
  <2>. QED
    BY <1>3, <1>4, <2>3, <2>4, <2>5, <2>6
<1>5. CASE pc[2] \in {2, 8, 15, 19}
  <2>1. /\ pc[2] = 2 => A = 0 /\ Dptr = Here
        /\ pc[2] = 8 => A = 0 /\ Dptr = Here + 1
        /\ pc[2] = 15 => A = 0 /\ Dptr = Here + 2 /\ Due <= Entries
        /\ pc[2] = 19 => A = 0 /\ Dptr = Here + 3 /\ Due <= Entries
    BY <1>0, <1>2, <1>5, SMT DEF AtEntry, Fetching, In, l
  <2>2. ASSUME NEW b, Ready(Dptr, b), A = 0
        PROVE  /\ Machine' /\ Onwards /\ UNCHANGED dev
               /\ A' = b /\ (cell["B"])' = cell["B"] /\ Dptr' = Dptr
    BY <1>5, <2>2, EntryCode, ReadsByte
  <2>3. /\ Machine' /\ Onwards /\ UNCHANGED dev
        /\ (cell["B"])' = cell["B"] /\ Dptr' = Dptr
        /\ pc[2] = 2 => A' = Hi(First)
        /\ pc[2] = 8 => A' = Lo(First)
        /\ pc[2] = 15 => A' = Hi(E[2])
        /\ pc[2] = 19 => A' = Lo(E[2])
    BY <1>2, <1>5, <2>1, <2>2
  <2>4. Stays(l)
    BY <1>3, <2>3
  <2>. USE <1>0, <2>3, <2>4 DEF AtEntry, Fetching, In, l, Stays, KeepsList
  <2>5. pc[2] = 2 => AtEntry'
    BY SMT
  <2>6. pc[2] = 8 => AtEntry'
    BY SMT
  <2>7. pc[2] = 15 => AtEntry'
    BY SMT
  <2>8. pc[2] = 19 => AtEntry'
    BY SMT
  <2>. QED
    BY <1>3, <1>5, <2>5, <2>6, <2>7, <2>8
<1>6. CASE pc[2] \in {3, 9, 16, 20}
  <2>1. /\ pc[2] = 3 => Dptr = Here
        /\ pc[2] = 9 => Dptr = Here + 1
        /\ pc[2] = 16 => Dptr = Here + 2 /\ Due <= Entries
        /\ pc[2] = 20 => Dptr = Here + 3 /\ Due <= Entries
    BY <1>0, <1>2, <1>6, SMT DEF AtEntry, Fetching, In, l
  <2>2. \E b : Ready(Dptr, b)
    BY <1>2, <1>6, <2>1
  <2>3. /\ Machine' /\ Onwards /\ UNCHANGED dev
        /\ A' = A /\ (cell["B"])' = cell["B"] /\ Dptr' = Dptr + 1
    BY <1>6, <2>2, EntryCode, PassesByte
  <2>4. Stays(l)
    BY <1>3, <2>3
  <2>. USE <1>0, <1>2, <2>1, <2>3, <2>4 DEF AtEntry, Fetching, In, l, Stays, KeepsList
  <2>5. pc[2] = 3 => AtEntry'
    BY SMT
  <2>6. pc[2] = 9 => AtEntry'
    BY SMT
  <2>7. pc[2] = 16 => AtEntry'
    BY SMT
  <2>8. pc[2] = 20 => AtEntry'
    BY SMT
  <2>. QED
    BY <1>3, <1>6, <2>5, <2>6, <2>7, <2>8
<1>. QED
  BY <1>4, <1>5, <1>6

(* The moves in between: A goes to B, to the address and to the data registers. *)
LEMMA EntryMove ==
  ASSUME Machine, InList, AtEntry, Step, job' = job, pc[1] = "reg_from_initlist",
         pc[2] \in {4, 5, 6, 10, 12, 17}
  PROVE Machine' /\ InList' /\ AtEntry' /\ pc'[1] = "reg_from_initlist"
<1>. DEFINE l == "reg_from_initlist"
<1>0. pc[1] = l
  OBVIOUS
<1>1. stack = <<>> /\ After = <<l, pc[2] + 1>>
  BY EntryCode DEF AtEntry
<1>2. ASSUME Onwards, Len(dev'.log) = Len(dev.log)
      PROVE Stays(l) /\ InList' /\ pc'[1] = l
  BY <1>1, <1>2, ListKept DEF Onwards, KeepsList, Stays
<1>3. {"INDACC_ADDR_H", "INDACC_ADDR_L", "INDACC_WDATA_H"} \subseteq IndaccFile
  BY DEF IndaccFile
<1>. HIDE DEF l
<1>4. CASE pc[2] = 4
  <2>1. /\ Machine' /\ Onwards /\ UNCHANGED dev
        /\ A' = A /\ (cell["B"])' = A /\ Dptr' = Dptr
    BY <1>4, EntryCode, SavesB
  <2>2. Stays(l) /\ InList' /\ pc'[1] = l
    BY <1>2, <2>1
  <2>3. AtEntry'
    BY <1>0, <1>4, <2>1, <2>2, SMT DEF AtEntry, Fetching, In, l, Stays, KeepsList
  <2>. QED
    BY <2>1, <2>2, <2>3 DEF l
<1>5. CASE pc[2] = 5
  <2>1. /\ Machine' /\ Onwards /\ UNCHANGED dev
        /\ A' = A % 128 /\ (cell["B"])' = cell["B"] /\ Dptr' = Dptr
    BY <1>5, EntryCode, DropsTopBit
  <2>2. Stays(l) /\ InList' /\ pc'[1] = l
    BY <1>2, <2>1
  <2>3. AtEntry'
    BY <1>0, <1>5, <2>1, <2>2, SMT DEF AtEntry, Fetching, In, l, Stays, KeepsList
  <2>. QED
    BY <2>1, <2>2, <2>3 DEF l
<1>6. CASE pc[2] = 6
  <2>1. /\ Machine' /\ Onwards /\ CellsKept
        /\ \A m \in IndaccFile : dev'.sfr[m] = IF m = "INDACC_ADDR_H" THEN A ELSE dev.sfr[m]
        /\ dev'.regs = dev.regs /\ dev'.log = dev.log
    BY <1>3, <1>6, EntryCode, Stores
  <2>2. Stays(l) /\ InList' /\ pc'[1] = l
    BY <1>2, <2>1
  <2>3. dev'.sfr["INDACC_ADDR_H"] = A
    BY <1>3, <2>1
  <2>4. AtEntry'
    BY <1>0, <1>6, <2>1, <2>2, <2>3, SMT DEF AtEntry, Fetching, In, l, Stays, KeepsList, CellsKept
  <2>. QED
    BY <2>1, <2>2, <2>4 DEF l
<1>7. CASE pc[2] = 10
  <2>1. /\ Machine' /\ Onwards /\ CellsKept
        /\ \A m \in IndaccFile : dev'.sfr[m] = IF m = "INDACC_ADDR_L" THEN A ELSE dev.sfr[m]
        /\ dev'.regs = dev.regs /\ dev'.log = dev.log
    BY <1>3, <1>7, EntryCode, Stores
  <2>2. Stays(l) /\ InList' /\ pc'[1] = l
    BY <1>2, <2>1
  <2>3. dev'.sfr["INDACC_ADDR_L"] = A /\ dev'.sfr["INDACC_ADDR_H"] = dev.sfr["INDACC_ADDR_H"]
    BY <1>3, <2>1
  <2>4. AtEntry'
    BY <1>0, <1>7, <2>1, <2>2, <2>3, SMT DEF AtEntry, Fetching, In, l, Stays, KeepsList, CellsKept
  <2>. QED
    BY <2>1, <2>2, <2>4 DEF l
<1>8. CASE pc[2] = 17
  <2>1. /\ Machine' /\ Onwards /\ CellsKept
        /\ \A m \in IndaccFile : dev'.sfr[m] = IF m = "INDACC_WDATA_H" THEN A ELSE dev.sfr[m]
        /\ dev'.regs = dev.regs /\ dev'.log = dev.log
    BY <1>3, <1>8, EntryCode, Stores
  <2>2. Stays(l) /\ InList' /\ pc'[1] = l
    BY <1>2, <2>1
  <2>3. /\ dev'.sfr["INDACC_WDATA_H"] = A /\ dev'.sfr["INDACC_ADDR_H"] = dev.sfr["INDACC_ADDR_H"]
        /\ dev'.sfr["INDACC_ADDR_L"] = dev.sfr["INDACC_ADDR_L"]
    BY <1>3, <2>1
  <2>5. Here \in Int
    BY FirstReadable
  <2>4. AtEntry'
    BY <1>0, <1>8, <2>1, <2>2, <2>3, <2>5, SMT DEF AtEntry, Fetching, In, l, Stays, KeepsList, CellsKept
  <2>. QED
    BY <2>1, <2>2, <2>4 DEF l
<1>9. CASE pc[2] = 12
  <2>1. /\ Machine' /\ Onwards /\ UNCHANGED dev
        /\ A' = BitOr(A, dev.sfr["INDACC_ADDR_H"]) /\ (cell["B"])' = cell["B"] /\ Dptr' = Dptr
    BY <1>3, <1>9, EntryCode, Ors
  <2>2. Stays(l) /\ InList' /\ pc'[1] = l
    BY <1>2, <2>1
  <2>3. A = Lo(First) /\ dev.sfr["INDACC_ADDR_H"] = Hi(First) % 128 /\ First < 32768 /\ First \in Word
    BY <1>0, <1>9, FirstOfEntry, SMT DEF AtEntry, In, l
  <2>4. A' = BitOr(Lo(First), Hi(First))
    BY <2>1, <2>3, FirstHalves, SMT
  <2>5. AtEntry'
    BY <1>0, <1>9, <2>1, <2>2, <2>4, SMT DEF AtEntry, Fetching, In, l, Stays, KeepsList
  <2>. QED
    BY <2>1, <2>2, <2>5 DEF l
<1>. QED
  BY <1>4, <1>5, <1>6, <1>7, <1>8, <1>9

(* Bit 15 of the first word: the entry modifies. *)
LEMMA EntryBranches ==
  ASSUME Machine, InList, AtEntry, Step, job' = job, pc[1] = "reg_from_initlist", pc[2] = 11
  PROVE Machine' /\ InList' /\ \/ AtEntry' /\ pc'[1] = "reg_from_initlist"
                               \/ AtModify' /\ pc'[1] = "reg_from_initlist_rmw"
<1>. DEFINE l == "reg_from_initlist"
            m == "reg_from_initlist_rmw"
<1>1. stack = <<>> /\ After = <<l, 12>>
  BY EntryCode DEF AtEntry
<1>2. /\ Machine' /\ UNCHANGED <<dev, rom, stack>> /\ CellsKept
      /\ pc' = IF cell["B"] > 127 THEN <<m, 1>> ELSE <<l, 12>>
  BY <1>1, EntryCode, Jumps, SameMachine DEF Same, To
<1>3. KeepsList
  BY <1>2, ListKept
<1>4. /\ cell["B"] = Hi(First) /\ Dptr = Here + 2 /\ A = Lo(First)
      /\ dev.sfr["INDACC_ADDR_H"] = Hi(First) % 128 /\ dev.sfr["INDACC_ADDR_L"] = Lo(First)
  <2>1. Dptr = Here + 1 + 1 /\ Here \in Int
    BY FirstReadable, SMT DEF AtEntry, Fetching, In
  <2>. QED
    BY <2>1, SMT DEF AtEntry, In
<1>5. First \in Word /\ (cell["B"] > 127 <=> First >= 32768)
  BY <1>4, FirstOfEntry, FirstHalves
<1>6. CASE First >= 32768
  <2>1. pc' = <<m, 1>>
    BY <1>2, <1>5, <1>6
  <2>2. Due <= Entries /\ Len(E) = 3 /\ First = 32768 + E[1] /\ E[1] \in Int
    BY <1>6, FirstOfEntry, AddressRange
  <2>3. IndaccAddr(dev) = E[1]
    BY <1>4, <1>5, <1>6, <2>2, FirstHalves, SMT DEF IndaccAddr
  <2>4. IndaccAddr(dev') = IndaccAddr(dev)
    BY <1>2
  <2>5. Modifying'
    BY <1>3, <2>2, <2>3, <2>4, SMT DEF Modifying, KeepsList
  <2>6. AtModify'
    BY <1>1, <1>2, <1>3, <1>4, <2>1, <2>5, SMT DEF AtModify, Fetching, In, KeepsList, CellsKept
  <2>. QED
    BY <1>2, <1>3, <2>1, <2>6 DEF KeepsList
<1>7. CASE ~(First >= 32768)
  <2>1. pc' = <<l, 12>>
    BY <1>2, <1>5, <1>7
  <2>2. First < 32768 /\ First \in Int
    BY <1>5, <1>7, WordRange, SMT
  <2>3. AtEntry'
    BY <1>1, <1>2, <1>3, <1>4, <2>1, <2>2, SMT DEF AtEntry, Fetching, In, KeepsList, CellsKept
  <2>. QED
    BY <1>2, <1>3, <2>1, <2>3 DEF KeepsList
<1>. QED
  BY <1>6, <1>7

(* The terminator is the word 0. *)
LEMMA EntryStops ==
  ASSUME Machine, InList, AtEntry, Step, job' = job, pc[1] = "reg_from_initlist", pc[2] = 13
  PROVE Machine' /\ InList' /\ \/ AtEntry' /\ pc'[1] = "reg_from_initlist"
                               \/ AtDone' /\ pc'[1] = "reg_from_initlist_done"
<1>. DEFINE l == "reg_from_initlist"
            m == "reg_from_initlist_done"
<1>1. stack = <<>> /\ After = <<l, 14>>
  BY EntryCode DEF AtEntry
<1>2. /\ Machine' /\ UNCHANGED <<dev, rom, stack>> /\ CellsKept
      /\ pc' = IF A = 0 THEN <<m, 1>> ELSE <<l, 14>>
  BY <1>1, EntryCode, Jumps, SameMachine DEF Same, To
<1>3. KeepsList
  BY <1>2, ListKept
<1>4. /\ A = BitOr(Lo(First), Hi(First)) /\ Dptr = Here + 2 /\ First < 32768
      /\ dev.sfr["INDACC_ADDR_H"] = Hi(First) % 128 /\ dev.sfr["INDACC_ADDR_L"] = Lo(First)
  <2>1. Dptr = Here + 1 + 1 /\ Here \in Int
    BY FirstReadable, SMT DEF AtEntry, Fetching, In
  <2>. QED
    BY <2>1, SMT DEF AtEntry, In
<1>5. First \in Word /\ Hi(First) \in Byte /\ Lo(First) \in Byte
  BY FirstOfEntry, HalvesOfWord
<1>6. CASE A = 0
  <2>1. First = 0
    <3>0. BitOr(Lo(First), Hi(First)) = 0
      BY <1>4, <1>6, SMT
    <3>1. Lo(First) = 0 /\ Hi(First) = 0
      BY <1>5, <3>0, BitBounds, Zenon
    <3>. QED
      BY <1>5, <3>1, FirstHalves
  <2>2. Due = Entries + 1
    BY <2>1, FirstOfEntry
  <2>3. AtDone' /\ pc'[1] = m
    BY <1>1, <1>2, <1>3, <1>4, <1>6, <2>2 DEF AtDone, KeepsList, CellsKept
  <2>. QED
    BY <1>2, <1>3, <2>3 DEF KeepsList
<1>7. CASE A # 0
  <2>1. First # 0
    <3>1. Hi(0) = 0 /\ Lo(0) = 0 /\ BitOr(0, 0) = 0
      BY SMT DEF Hi, Lo, BitOr, BitAnd
    <3>. QED
      BY <1>4, <1>7, <3>1
  <2>2. Due <= Entries /\ Len(E) = 2
    BY <1>4, <2>1, FirstOfEntry
  <2>3. pc' = <<l, 14>>
    BY <1>2, <1>7
  <2>4. AtEntry'
    BY <1>1, <1>2, <1>3, <1>4, <2>2, <2>3, SMT DEF AtEntry, Fetching, In, KeepsList, CellsKept
  <2>. QED
    BY <1>2, <1>3, <2>3, <2>4 DEF KeepsList
<1>. QED
  BY <1>6, <1>7

(* The port has the address and the value, and DPTR is behind the entry. *)
LEMMA EntryEnds ==
  ASSUME Machine, InList, AtEntry, Step, job' = job, pc[1] = "reg_from_initlist", pc[2] = 21
  PROVE Machine' /\ InList' /\ AtWrite' /\ pc'[1] = "reg_from_initlist_write"
<1>. DEFINE m == "reg_from_initlist_write"
<1>1. stack = <<>> /\ After = <<m, 1>>
  BY EntryCode DEF AtEntry
<1>2. {"INDACC_ADDR_H", "INDACC_ADDR_L", "INDACC_WDATA_H", "INDACC_WDATA_L"} \subseteq IndaccFile
  BY DEF IndaccFile
<1>3. /\ Machine' /\ Onwards /\ CellsKept
      /\ \A n \in IndaccFile : dev'.sfr[n] = IF n = "INDACC_WDATA_L" THEN A ELSE dev.sfr[n]
      /\ dev'.regs = dev.regs /\ dev'.log = dev.log
  BY <1>2, EntryCode, Stores
<1>4. KeepsList /\ New' = New
  BY <1>3, ListKept, RegsKept DEF Onwards
<1>5. /\ dev'.sfr["INDACC_ADDR_H"] = dev.sfr["INDACC_ADDR_H"]
      /\ dev'.sfr["INDACC_ADDR_L"] = dev.sfr["INDACC_ADDR_L"]
      /\ dev'.sfr["INDACC_WDATA_H"] = dev.sfr["INDACC_WDATA_H"]
      /\ dev'.sfr["INDACC_WDATA_L"] = A
  BY <1>2, <1>3
<1>6. /\ Due <= Entries /\ Len(E) = 2 /\ First < 32768 /\ First \in Word
      /\ dev.sfr["INDACC_ADDR_H"] = Hi(First) % 128 /\ dev.sfr["INDACC_ADDR_L"] = Lo(First)
      /\ dev.sfr["INDACC_WDATA_H"] = Hi(E[2]) /\ A = Lo(E[2]) /\ Dptr = Here + 3 + 1
  BY FirstOfEntry, SMT DEF AtEntry, Fetching, In
<1>7. First = E[1]
  BY <1>6, SMT DEF First, InList, Entries
<1>8. IndaccAddr(dev') = E[1]
  <2>1. Pair(Hi(First), Lo(First)) = First
    BY <1>6, HalvesOfWord
  <2>2. Hi(First) % 128 = Hi(First)
    BY <1>6, FirstHalves
  <2>. QED
    BY <1>5, <1>6, <1>7, <2>1, <2>2 DEF IndaccAddr
<1>9. IndaccWdata(dev') = New
  <2>1. Pair(Hi(E[2]), Lo(E[2])) = E[2]
    BY <1>6, OtherWords, HalvesOfWord
  <2>. QED
    BY <1>5, <1>6, <2>1 DEF IndaccWdata, New
<1>10. Dptr = job.at[Due + 1]
  BY <1>6, OtherWords, FirstReadable, SMT
<1>11. (job.at[Due + 1])' = job.at[Due + 1]
  BY <1>4 DEF KeepsList
<1>12. AtWrite'
  <2>1. pc' = <<m, 1>> /\ stack' = <<>>
    BY <1>1, <1>3 DEF Onwards
  <2>2. Due' <= Entries' /\ E' = E /\ Dptr' = job'.at[Due' + 1]
    BY <1>3, <1>4, <1>6, <1>10, <1>11 DEF KeepsList, CellsKept
  <2>. QED
    BY <1>4, <1>8, <1>9, <2>1, <2>2, SMT DEF AtWrite, In
<1>. QED
  BY <1>1, <1>3, <1>4, <1>12 DEF KeepsList, Onwards

-----------------------------------------------------------------------------
(* Writing a register *)

(* reg_from_initlist_write (hello.s:274-277): the command 3, the wait for it,
   the next entry. *)
LEMMA WriteStep ==
  ASSUME Machine, InList, AtWrite, Step, job' = job, pc[1] = "reg_from_initlist_write"
  PROVE Machine' /\ InList' /\ \/ AtWrite' /\ pc'[1] = "reg_from_initlist_write"
                               \/ AtStatus' /\ pc'[1] = "reg_status_loop"
                               \/ AtEntry' /\ pc'[1] = "reg_from_initlist"
<1>. DEFINE l == "reg_from_initlist_write"
<1>1. pc[2] \in 1..3 /\ stack = <<>>
  BY DEF AtWrite
<1>2. CASE pc[2] = 1
  <2>1. After = <<l, 2>>
    BY <1>1, <1>2, WriteCode
  <2>2. /\ Machine' /\ Onwards /\ CellsKept /\ Len(dev'.log) = Len(dev.log) + 1
    BY <1>1, <1>2, WriteCode, WritesRegister
  <2>3. Due <= Entries /\ Dptr = job.at[Due + 1]
    BY <1>2 DEF AtWrite, In
  <2>4. Due' = Due + 1 /\ Entries' = Entries /\ Due \in Nat
    BY <2>2, SMT DEF Due, Entries, InList
  <2>5. InList'
    BY <2>2, <2>3, <2>4, SMT DEF InList, Entries, Onwards
  <2>6. Dptr' = Here'
    BY <2>2, <2>3, <2>4 DEF Here, CellsKept
  <2>7. pc' = <<l, 2>> /\ stack' = <<>>
    BY <1>1, <2>1, <2>2 DEF Onwards
  <2>8. AtWrite'
    BY <2>6, <2>7, SMT DEF AtWrite, In
  <2>. QED
    BY <2>2, <2>5, <2>7, <2>8
<1>3. CASE pc[2] = 2
  <2>1. After = <<l, 3>> /\ Insn = <<"call", "reg_status_loop">>
    BY <1>1, <1>3, WriteCode
  <2>2. stack' = << <<l, 3>> >> /\ pc' = <<"reg_status_loop", 1>> /\ UNCHANGED <<cell, rom, dev>>
    BY <1>1, <2>1, Calling DEF To
  <2>3. KeepsList /\ Dptr' = Dptr
    BY <2>2, ListKept, CellKept DEF CellsKept
  <2>4. AtStatus'
    BY <1>3, <2>2, <2>3, SMT DEF AtStatus, AtWrite, In, KeepsList
  <2>. QED
    BY <2>2, <2>3, <2>4 DEF Machine, KeepsList
<1>4. CASE pc[2] = 3
  <2>1. Insn = <<"jmp", "reg_from_initlist">>
    BY <1>1, <1>4, WriteCode
  <2>2. Same /\ pc' = <<"reg_from_initlist", 1>>
    BY <2>1, Jumps DEF To
  <2>3. KeepsList /\ Dptr' = Dptr /\ Machine' /\ stack' = <<>>
    BY <1>1, <2>2, ListKept, SameMachine DEF CellsKept, Same
  <2>4. AtEntry'
    BY <1>4, <2>2, <2>3, SMT DEF AtEntry, AtWrite, Fetching, In, KeepsList
  <2>. QED
    BY <2>2, <2>3, <2>4 DEF KeepsList
<1>. QED
  BY <1>1, <1>2, <1>3, <1>4

(* reg_status_loop returns to where it was called from, with the port as it was. *)
LEMMA StatusStep ==
  ASSUME Machine, InList, AtStatus, Step, job' = job, pc[1] = "reg_status_loop"
  PROVE Machine' /\ InList' /\ \/ AtStatus' /\ pc'[1] = "reg_status_loop"
                               \/ AtWrite' /\ pc'[1] = "reg_from_initlist_write"
                               \/ AtModify' /\ pc'[1] = "reg_from_initlist_rmw"
<1>. DEFINE l == "reg_status_loop"
<1>1. pc[2] \in 1..3
  BY DEF AtStatus
<1>2. ASSUME UNCHANGED <<dev, rom>>, Dptr' = Dptr
      PROVE KeepsList /\ InList' /\ (Modifying' = Modifying) /\ (HasRead' = HasRead)
  <2>1. KeepsList
    BY <1>2, ListKept
  <2>2. Current' = Current
    BY <1>2, <2>1, RegsKept
  <2>3. IndaccAddr(dev') = IndaccAddr(dev) /\ dev'.sfr = dev.sfr
    BY <1>2
  <2>. QED
    BY <2>1, <2>2, <2>3 DEF KeepsList, Modifying, HasRead
<1>3. ASSUME UNCHANGED <<dev, rom, stack>>, Dptr' = Dptr, Machine', pc' \in {<<l, 1>>, <<l, 2>>, <<l, 3>>}
      PROVE Machine' /\ InList' /\ AtStatus' /\ pc'[1] = l
  <2>1. KeepsList /\ InList' /\ (Modifying' = Modifying) /\ (HasRead' = HasRead)
    BY <1>2, <1>3
  <2>2. pc'[1] = l /\ pc'[2] \in 1..3
    BY <1>3, SMT
  <2>3. AtStatus'
    BY <1>3, <2>1, <2>2 DEF AtStatus, KeepsList
  <2>. QED
    BY <1>3, <2>1, <2>2, <2>3
<1>4. CASE pc[2] = 1
  <2>1. Insn = <<"movx", "A", "INDACC_STATUS">> /\ After = <<l, 2>>
    BY <1>1, <1>4, StatusCode
  <2>. QED
    BY <1>3, <2>1, ReadsStatus DEF Onwards
<1>5. CASE pc[2] = 2
  <2>1. Insn = <<"cjne", "A", 0, l>> /\ After = <<l, 3>>
    BY <1>1, <1>5, StatusCode
  <2>2. Same /\ pc' \in {<<l, 1>>, <<l, 3>>}
    BY <2>1, Compares DEF To
  <2>. QED
    BY <1>3, <2>2, SameMachine DEF Same, CellsKept
<1>6. CASE pc[2] = 3
  <2>1. Insn = <<"ret">>
    BY <1>1, <1>6, StatusCode
  <2>2. stack' = Front(stack) /\ pc' = Last(stack) /\ UNCHANGED <<cell, rom, dev>>
    BY <2>1, Returning
  <2>3. KeepsList /\ InList' /\ (Modifying' = Modifying) /\ (HasRead' = HasRead) /\ Dptr' = Dptr /\ Machine'
    <3>1. Dptr' = Dptr /\ Machine'
      BY <2>2, CellKept DEF CellsKept, Machine
    <3>. QED
      BY <1>2, <2>2, <3>1
  <2>4. \A x : Front(<<x>>) = <<>> /\ Last(<<x>>) = x
    BY DEF Front, Last
  <2>5. CASE stack = << <<"reg_from_initlist_write", 3>> >> /\ Dptr = Here
    <3>1. pc' = <<"reg_from_initlist_write", 3>> /\ stack' = <<>>
      BY <2>2, <2>4, <2>5
    <3>2. AtWrite'
      BY <2>3, <2>5, <3>1, SMT DEF AtWrite, In, KeepsList
    <3>. QED
      BY <2>3, <3>1, <3>2
  <2>6. CASE stack = << <<"reg_from_initlist_rmw", 3>> >> /\ Modifying /\ HasRead /\ Dptr = Here + 2
    <3>1. pc' = <<"reg_from_initlist_rmw", 3>> /\ stack' = <<>>
      BY <2>2, <2>4, <2>6
    <3>2. AtModify'
      BY <2>3, <2>6, <3>1, SMT DEF AtModify, Fetching, In, KeepsList
    <3>. QED
      BY <2>3, <3>1, <3>2
  <2>. QED
    BY <2>5, <2>6 DEF AtStatus
<1>. QED
  BY <1>1, <1>4, <1>5, <1>6

-----------------------------------------------------------------------------
(* Modifying a register *)

(* AND and OR do not care for the order, and OR works on halves too. *)
LEMMA BitsCommute ==
  ASSUME NEW x \in Int, NEW y \in Int
  PROVE BitAnd(x, y) = BitAnd(y, x) /\ (BitAnd(x, y) \in Int => BitOr(x, y) = BitOr(y, x))
<1>1. BitAnd(x, y) = BitAnd(y, x)
  BY SMT DEF BitAnd
<1>. QED
  BY <1>1, SMT DEF BitOr

LEMMA OrHalves ==
  ASSUME NEW h \in Byte, NEW l \in Byte, NEW i \in Byte, NEW m \in Byte
  PROVE BitOr(Pair(h, l), Pair(i, m)) = Pair(BitOr(h, i), BitOr(l, m))
<1>1. BitAnd(Pair(h, l), Pair(i, m)) = Pair(BitAnd(h, i), BitAnd(l, m))
  BY AndHalves
<1>2. BitAnd(h, i) \in Int /\ BitAnd(l, m) \in Int /\ h \in Int /\ l \in Int /\ i \in Int /\ m \in Int
  BY BitBounds, ByteRange, Zenon
<1>. QED
  BY <1>1, <1>2, SMT DEF BitOr, Pair

(* The bytes that the interpreter computes are those of the word. *)
LEMMA ModifiesWord ==
  ASSUME NEW v \in Word, NEW mask \in Word, NEW bits \in Word
  PROVE Pair(BitOr(Hi(bits), BitAnd(Hi(mask), Hi(v))), BitOr(Lo(bits), BitAnd(Lo(mask), Lo(v))))
          = BitOr(BitAnd(v, mask), bits)
<1>. DEFINE h == BitAnd(Hi(mask), Hi(v))
            l == BitAnd(Lo(mask), Lo(v))
<1>1. /\ Hi(v) \in Byte /\ Lo(v) \in Byte /\ Pair(Hi(v), Lo(v)) = v
      /\ Hi(mask) \in Byte /\ Lo(mask) \in Byte /\ Pair(Hi(mask), Lo(mask)) = mask
      /\ Hi(bits) \in Byte /\ Lo(bits) \in Byte /\ Pair(Hi(bits), Lo(bits)) = bits
  BY HalvesOfWord
<1>2. BitAnd(mask, v) = Pair(h, l)
  BY <1>1, AndHalves
<1>3. h \in Byte /\ l \in Byte
  BY <1>1, BitBounds
<1>4. BitOr(bits, Pair(h, l)) = Pair(BitOr(Hi(bits), h), BitOr(Lo(bits), l))
  BY <1>1, <1>3, OrHalves
<1>. HIDE DEF h, l
<1>5. v \in Int /\ mask \in Int /\ bits \in Int /\ Pair(h, l) \in Word
  BY <1>3, PairIsWord, WordRange, SMT
<1>6. BitAnd(v, mask) = Pair(h, l)
  BY <1>2, <1>5, BitsCommute
<1>7. BitOr(Pair(h, l), bits) = BitOr(bits, Pair(h, l))
  <2>1. Pair(h, l) \in Int /\ bits \in Int
    BY <1>5, WordRange, SMT
  <2>2. BitAnd(Pair(h, l), bits) \in Int
    <3>1. BitAnd(Pair(h, l), Pair(Hi(bits), Lo(bits))) = Pair(BitAnd(h, Hi(bits)), BitAnd(l, Lo(bits)))
      BY <1>1, <1>3, AndHalves
    <3>2. BitAnd(h, Hi(bits)) \in Byte /\ BitAnd(l, Lo(bits)) \in Byte
      BY <1>1, <1>3, BitBounds
    <3>3. Pair(BitAnd(h, Hi(bits)), BitAnd(l, Lo(bits))) \in Word
      BY <3>2, PairIsWord
    <3>. QED
      BY <1>1, <3>1, <3>3, WordRange, SMT
  <2>. QED
    BY <2>1, <2>2, BitsCommute
<1>. QED
  BY <1>4, <1>6, <1>7 DEF h, l

(* ... of the block that modifies, with what it has read so far. *)
ModifyStays == /\ Stays("reg_from_initlist_rmw") /\ InList' /\ Modifying' /\ HasRead'
         /\ KeptHi' = KeptHi /\ KeptLo' = KeptLo

(* What the register that is modified holds is a word. *)
LEMMA CurrentIsWord ==
  ASSUME Machine PROVE Current \in Word
<1>1. Absent \in Word
  BY WordRange, SMT DEF Absent
<1>. QED
  BY <1>1 DEF Current, RegValue, Machine, Switch

(* reg_from_initlist_rmw (hello.s:279-303): what a point that leaves the address and the data
   that was read alone hands on. *)
LEMMA ModifyGoesOn ==
  ASSUME InList, AtModify, job' = job, pc[1] = "reg_from_initlist_rmw", pc[2] \in 2..22,
         Onwards, dev'.regs = dev.regs, dev'.log = dev.log,
         dev'.sfr["INDACC_ADDR_H"] = dev.sfr["INDACC_ADDR_H"],
         dev'.sfr["INDACC_ADDR_L"] = dev.sfr["INDACC_ADDR_L"],
         dev'.sfr["INDACC_RDATA_H"] = dev.sfr["INDACC_RDATA_H"],
         dev'.sfr["INDACC_RDATA_L"] = dev.sfr["INDACC_RDATA_L"]
  PROVE ModifyStays
<1>. DEFINE l == "reg_from_initlist_rmw"
<1>1. stack = <<>> /\ Modifying /\ HasRead /\ pc[2] \in 1..23 /\ pc[2] < 23
  <2>1. pc[2] \in 1..23 /\ pc[2] < 23 /\ pc[2] \in 2..23
    BY SMT
  <2>. QED
    BY <2>1, Zenon DEF AtModify, In
<1>2. After = <<l, pc[2] + 1>>
  BY <1>1, ModifyCode
<1>3. KeepsList
  BY ListKept DEF Onwards
<1>4. Current' = Current
  BY <1>3, RegsKept
<1>5. IndaccAddr(dev') = IndaccAddr(dev) /\ E' = E
  BY <1>3 DEF IndaccAddr, KeepsList
<1>. QED
  BY <1>1, <1>2, <1>3, <1>4, <1>5 DEF ModifyStays, Stays, Onwards, KeepsList, Modifying, HasRead, KeptHi, KeptLo

(* The command 1 reads the register, and reg_status_loop is called. *)
LEMMA ModifyReads ==
  ASSUME Machine, InList, AtModify, Step, job' = job, pc[1] = "reg_from_initlist_rmw", pc[2] = 1
  PROVE Machine' /\ InList' /\ AtModify' /\ pc'[1] = "reg_from_initlist_rmw"
<1>. DEFINE l == "reg_from_initlist_rmw"
<1>1. stack = <<>> /\ Modifying /\ Dptr = Here + 2
  BY DEF AtModify, In
<1>2. Insn = <<"movi", "INDACC_CMD", 1>> /\ After = <<l, 2>>
  BY ModifyCode
<1>3. ~IsPhy(IndaccAddr(dev)) /\ IndaccAddr(dev) # 6660
  BY <1>1, OtherWords DEF Modifying
<1>4. /\ Machine' /\ Onwards /\ CellsKept
      /\ dev'.regs = dev.regs /\ dev'.log = dev.log
      /\ dev'.sfr["INDACC_RDATA_H"] = Hi(RegValue(dev, IndaccAddr(dev)))
      /\ dev'.sfr["INDACC_RDATA_L"] = Lo(RegValue(dev, IndaccAddr(dev)))
      /\ dev'.sfr["INDACC_ADDR_H"] = dev.sfr["INDACC_ADDR_H"]
      /\ dev'.sfr["INDACC_ADDR_L"] = dev.sfr["INDACC_ADDR_L"]
  BY <1>2, <1>3, ReadsRegister
<1>5. KeepsList /\ Current' = Current
  BY <1>4, ListKept, RegsKept DEF Onwards
<1>6. IndaccAddr(dev') = E[1] /\ IndaccAddr(dev) = E[1]
  BY <1>1, <1>4 DEF IndaccAddr, Modifying
<1>7. Modifying' /\ HasRead' /\ Dptr' = Here' + 2 /\ pc' = <<l, 2>> /\ stack' = <<>>
  BY <1>1, <1>2, <1>4, <1>5, <1>6 DEF Modifying, HasRead, Current, KeepsList, CellsKept, Onwards
<1>8. AtModify'
  BY <1>7, SMT DEF AtModify, Fetching, In
<1>. QED
  BY <1>4, <1>5, <1>7, <1>8 DEF KeepsList

LEMMA ModifyCalls ==
  ASSUME Machine, InList, AtModify, Step, job' = job, pc[1] = "reg_from_initlist_rmw", pc[2] = 2
  PROVE Machine' /\ InList' /\ AtStatus' /\ pc'[1] = "reg_status_loop"
<1>. DEFINE l == "reg_from_initlist_rmw"
<1>1. stack = <<>> /\ Modifying /\ HasRead /\ Dptr = Here + 2
  BY DEF AtModify, In
<1>2. Insn = <<"call", "reg_status_loop">> /\ After = <<l, 3>>
  BY ModifyCode
<1>3. stack' = << <<l, 3>> >> /\ pc' = <<"reg_status_loop", 1>> /\ UNCHANGED <<cell, rom, dev>>
  BY <1>1, <1>2, Calling DEF To
<1>4. KeepsList /\ Current' = Current /\ Dptr' = Dptr
  BY <1>3, ListKept, RegsKept, CellKept DEF CellsKept
<1>5. Modifying' /\ HasRead' /\ Dptr' = Here' + 2
  BY <1>1, <1>3, <1>4 DEF Modifying, HasRead, KeepsList, IndaccAddr
<1>. QED
  BY <1>3, <1>4, <1>5 DEF AtStatus, KeepsList, Machine

(* The bytes of the mask and of the bits. *)
LEMMA ModifyFetch ==
  ASSUME Machine, InList, AtModify, Step, job' = job, pc[1] = "reg_from_initlist_rmw",
         pc[2] \in {3, 4, 5, 8, 9, 10, 13, 14, 15, 18, 19, 20}
  PROVE Machine' /\ InList' /\ AtModify' /\ pc'[1] = "reg_from_initlist_rmw"
<1>. DEFINE l == "reg_from_initlist_rmw"
<1>0. pc[1] = l
  OBVIOUS
<1>1. /\ Here \in Int /\ Ready(Here + 2, Hi(E[2])) /\ Ready(Here + 3, Lo(E[2]))
      /\ Ready(Here + 4, Hi(E[3])) /\ Ready(Here + 5, Lo(E[3]))
  BY FirstReadable, OtherWords DEF AtModify, Modifying
<1>2. ASSUME Onwards, UNCHANGED dev
      PROVE ModifyStays /\ InList' /\ pc'[1] = l
  <2>1. ModifyStays
    BY <1>2, ModifyGoesOn
  <2>. QED
    BY <2>1 DEF ModifyStays, Stays
<1>. HIDE DEF l
<1>4. CASE pc[2] \in {3, 8, 13, 18}
  <2>1. /\ Machine' /\ Onwards /\ UNCHANGED dev
        /\ A' = 0 /\ (cell["B"])' = cell["B"] /\ Dptr' = Dptr
    BY <1>4, ModifyCode, Clears
  <2>2. ModifyStays /\ InList' /\ pc'[1] = l
    BY <1>2, <2>1
  <2>. USE <1>0, <1>1, <2>1, <2>2 DEF AtModify, Fetching, In, l, Stays, ModifyStays, KeepsList
  <2>3. pc[2] = 3 => AtModify'
    BY SMT
  <2>4. pc[2] = 8 => AtModify'
    BY SMT
  <2>5. pc[2] = 13 => AtModify'
    BY SMT
  <2>6. pc[2] = 18 => AtModify'
    BY SMT
  <2>. QED
    BY <1>4, <2>1, <2>2, <2>3, <2>4, <2>5, <2>6 DEF l
<1>5. CASE pc[2] \in {4, 9, 14, 19}
  <2>1. /\ pc[2] = 4 => A = 0 /\ Dptr = Here + 2
        /\ pc[2] = 9 => A = 0 /\ Dptr = Here + 3
        /\ pc[2] = 14 => A = 0 /\ Dptr = Here + 4
        /\ pc[2] = 19 => A = 0 /\ Dptr = Here + 5
    BY <1>0, <1>1, <1>5, SMTT(30) DEF AtModify, Fetching, In, l
  <2>2. ASSUME NEW b, Ready(Dptr, b), A = 0
        PROVE  /\ Machine' /\ Onwards /\ UNCHANGED dev
               /\ A' = b /\ (cell["B"])' = cell["B"] /\ Dptr' = Dptr
    BY <1>5, <2>2, ModifyCode, ReadsByte
  <2>3. /\ Machine' /\ Onwards /\ UNCHANGED dev
        /\ (cell["B"])' = cell["B"] /\ Dptr' = Dptr
        /\ pc[2] = 4 => A' = Hi(E[2])
        /\ pc[2] = 9 => A' = Lo(E[2])
        /\ pc[2] = 14 => A' = Hi(E[3])
        /\ pc[2] = 19 => A' = Lo(E[3])
    BY <1>1, <1>5, <2>1, <2>2
  <2>4. ModifyStays /\ InList' /\ pc'[1] = l
    BY <1>2, <2>3
  <2>. USE <1>0, <1>1, <2>3, <2>4 DEF AtModify, Fetching, In, l, Stays, ModifyStays, KeepsList
  <2>5. pc[2] = 4 => AtModify'
    BY SMT
  <2>6. pc[2] = 9 => AtModify'
    BY SMT
  <2>7. pc[2] = 14 => AtModify'
    BY SMT
  <2>8. pc[2] = 19 => AtModify'
    BY SMT
  <2>. QED
    BY <1>5, <2>3, <2>4, <2>5, <2>6, <2>7, <2>8 DEF l
<1>6. CASE pc[2] \in {5, 10, 15, 20}
  <2>1. /\ pc[2] = 5 => Dptr = Here + 2
        /\ pc[2] = 10 => Dptr = Here + 3
        /\ pc[2] = 15 => Dptr = Here + 4
        /\ pc[2] = 20 => Dptr = Here + 5
    BY <1>0, <1>1, <1>6, SMTT(30) DEF AtModify, Fetching, In, l
  <2>2. \E b : Ready(Dptr, b)
    BY <1>1, <1>6, <2>1
  <2>3. /\ Machine' /\ Onwards /\ UNCHANGED dev
        /\ A' = A /\ (cell["B"])' = cell["B"] /\ Dptr' = Dptr + 1
    BY <1>6, <2>2, ModifyCode, PassesByte
  <2>4. ModifyStays /\ InList' /\ pc'[1] = l
    BY <1>2, <2>3
  <2>. USE <1>0, <1>1, <2>1, <2>3, <2>4 DEF AtModify, Fetching, In, l, Stays, ModifyStays, KeepsList
  <2>5. pc[2] = 5 => AtModify'
    BY SMT
  <2>6. pc[2] = 10 => AtModify'
    BY SMT
  <2>7. pc[2] = 15 => AtModify'
    BY SMT
  <2>8. pc[2] = 20 => AtModify'
    BY SMT
  <2>. QED
    BY <1>6, <2>3, <2>4, <2>5, <2>6, <2>7, <2>8 DEF l
<1>. QED
  BY <1>4, <1>5, <1>6

(* They are combined with what was read, byte by byte. *)
LEMMA ModifyMove ==
  ASSUME Machine, InList, AtModify, Step, job' = job, pc[1] = "reg_from_initlist_rmw",
         pc[2] \in {6, 7, 11, 12, 16, 17, 21, 22}
  PROVE Machine' /\ InList' /\ AtModify' /\ pc'[1] = "reg_from_initlist_rmw"
<1>. DEFINE l == "reg_from_initlist_rmw"
<1>0. pc[1] = l
  OBVIOUS
<1>1. ASSUME Onwards, pc[2] \in 2..22, dev'.regs = dev.regs, dev'.log = dev.log,
             dev'.sfr["INDACC_ADDR_H"] = dev.sfr["INDACC_ADDR_H"],
             dev'.sfr["INDACC_ADDR_L"] = dev.sfr["INDACC_ADDR_L"],
             dev'.sfr["INDACC_RDATA_H"] = dev.sfr["INDACC_RDATA_H"],
             dev'.sfr["INDACC_RDATA_L"] = dev.sfr["INDACC_RDATA_L"]
      PROVE ModifyStays /\ InList' /\ pc'[1] = l
  <2>1. ModifyStays
    BY <1>1, ModifyGoesOn
  <2>. QED
    BY <2>1 DEF ModifyStays, Stays
<1>2. IndaccFile = {"INDACC_ADDR_H", "INDACC_ADDR_L", "INDACC_WDATA_H", "INDACC_WDATA_L",
                    "INDACC_RDATA_H", "INDACC_RDATA_L"}
  BY DEF IndaccFile
<1>3. Here \in Int
  BY FirstReadable
<1>. HIDE DEF l
<1>4. CASE pc[2] = 6
  <2>1. /\ Machine' /\ Onwards /\ UNCHANGED dev
        /\ A' = BitAnd(A, dev.sfr["INDACC_RDATA_H"]) /\ (cell["B"])' = cell["B"] /\ Dptr' = Dptr
    BY <1>2, <1>4, ModifyCode, Ands
  <2>2. ModifyStays /\ InList' /\ pc'[1] = l
    BY <1>1, <1>4, <2>1
  <2>3. A = Hi(E[2]) /\ dev.sfr["INDACC_RDATA_H"] = Hi(Current)
    BY <1>0, <1>4, SMT DEF AtModify, Fetching, In, HasRead, l
  <2>4. A' = KeptHi
    BY <2>1, <2>3 DEF KeptHi, KeptLo
  <2>5. AtModify'
    BY <1>0, <1>4, <2>1, <2>2, <2>4, SMT DEF AtModify, Fetching, In, l, Stays, ModifyStays, KeepsList
  <2>. QED
    BY <2>1, <2>2, <2>5 DEF l
<1>5. CASE pc[2] = 11
  <2>1. /\ Machine' /\ Onwards /\ UNCHANGED dev
        /\ A' = BitAnd(A, dev.sfr["INDACC_RDATA_L"]) /\ (cell["B"])' = cell["B"] /\ Dptr' = Dptr
    BY <1>2, <1>5, ModifyCode, Ands
  <2>2. ModifyStays /\ InList' /\ pc'[1] = l
    BY <1>1, <1>5, <2>1
  <2>3. A = Lo(E[2]) /\ dev.sfr["INDACC_RDATA_L"] = Lo(Current)
    BY <1>0, <1>5, SMT DEF AtModify, Fetching, In, HasRead, l
  <2>4. A' = KeptLo
    BY <2>1, <2>3 DEF KeptHi, KeptLo
  <2>5. AtModify'
    BY <1>0, <1>5, <2>1, <2>2, <2>4, SMT DEF AtModify, Fetching, In, l, Stays, ModifyStays, KeepsList
  <2>. QED
    BY <2>1, <2>2, <2>5 DEF l
<1>6. CASE pc[2] = 16
  <2>1. /\ Machine' /\ Onwards /\ UNCHANGED dev
        /\ A' = BitOr(A, dev.sfr["INDACC_WDATA_H"]) /\ (cell["B"])' = cell["B"] /\ Dptr' = Dptr
    BY <1>2, <1>6, ModifyCode, Ors
  <2>2. ModifyStays /\ InList' /\ pc'[1] = l
    BY <1>1, <1>6, <2>1
  <2>3. A = Hi(E[3]) /\ dev.sfr["INDACC_WDATA_H"] = KeptHi
    BY <1>0, <1>6, SMT DEF AtModify, Fetching, In, HasRead, l
  <2>4. A' = BitOr(Hi(E[3]), KeptHi)
    BY <2>1, <2>3 DEF KeptHi, KeptLo
  <2>5. AtModify'
    BY <1>0, <1>6, <2>1, <2>2, <2>4, SMT DEF AtModify, Fetching, In, l, Stays, ModifyStays, KeepsList
  <2>. QED
    BY <2>1, <2>2, <2>5 DEF l
<1>7. CASE pc[2] = 21
  <2>1. /\ Machine' /\ Onwards /\ UNCHANGED dev
        /\ A' = BitOr(A, dev.sfr["INDACC_WDATA_L"]) /\ (cell["B"])' = cell["B"] /\ Dptr' = Dptr
    BY <1>2, <1>7, ModifyCode, Ors
  <2>2. ModifyStays /\ InList' /\ pc'[1] = l
    BY <1>1, <1>7, <2>1
  <2>3. A = Lo(E[3]) /\ dev.sfr["INDACC_WDATA_L"] = KeptLo
    BY <1>0, <1>7, SMT DEF AtModify, Fetching, In, HasRead, l
  <2>4. A' = BitOr(Lo(E[3]), KeptLo)
    BY <2>1, <2>3 DEF KeptHi, KeptLo
  <2>5. AtModify'
    BY <1>0, <1>7, <2>1, <2>2, <2>4, SMT DEF AtModify, Fetching, In, l, Stays, ModifyStays, KeepsList
  <2>. QED
    BY <2>1, <2>2, <2>5 DEF l
<1>8. CASE pc[2] = 7
  <2>1. /\ Machine' /\ Onwards /\ CellsKept
        /\ \A m \in IndaccFile : dev'.sfr[m] = IF m = "INDACC_WDATA_H" THEN A ELSE dev.sfr[m]
        /\ dev'.regs = dev.regs /\ dev'.log = dev.log
    BY <1>2, <1>8, ModifyCode, Stores
  <2>2. /\ dev'.sfr["INDACC_ADDR_H"] = dev.sfr["INDACC_ADDR_H"]
        /\ dev'.sfr["INDACC_ADDR_L"] = dev.sfr["INDACC_ADDR_L"]
        /\ dev'.sfr["INDACC_RDATA_H"] = dev.sfr["INDACC_RDATA_H"]
        /\ dev'.sfr["INDACC_RDATA_L"] = dev.sfr["INDACC_RDATA_L"]
        /\ dev'.sfr["INDACC_WDATA_H"] = A /\ dev'.sfr["INDACC_WDATA_L"] = dev.sfr["INDACC_WDATA_L"]
    BY <1>2, <2>1
  <2>3. ModifyStays /\ InList' /\ pc'[1] = l
    BY <1>1, <1>8, <2>1, <2>2
  <2>4. AtModify'
    BY <1>0, <1>3, <1>8, <2>1, <2>2, <2>3, SMT DEF AtModify, Fetching, In, l, Stays, ModifyStays, KeepsList, CellsKept
  <2>. QED
    BY <2>1, <2>3, <2>4 DEF l
<1>9. CASE pc[2] = 12
  <2>1. /\ Machine' /\ Onwards /\ CellsKept
        /\ \A m \in IndaccFile : dev'.sfr[m] = IF m = "INDACC_WDATA_L" THEN A ELSE dev.sfr[m]
        /\ dev'.regs = dev.regs /\ dev'.log = dev.log
    BY <1>2, <1>9, ModifyCode, Stores
  <2>2. /\ dev'.sfr["INDACC_ADDR_H"] = dev.sfr["INDACC_ADDR_H"]
        /\ dev'.sfr["INDACC_ADDR_L"] = dev.sfr["INDACC_ADDR_L"]
        /\ dev'.sfr["INDACC_RDATA_H"] = dev.sfr["INDACC_RDATA_H"]
        /\ dev'.sfr["INDACC_RDATA_L"] = dev.sfr["INDACC_RDATA_L"]
        /\ dev'.sfr["INDACC_WDATA_L"] = A /\ dev'.sfr["INDACC_WDATA_H"] = dev.sfr["INDACC_WDATA_H"]
    BY <1>2, <2>1
  <2>3. ModifyStays /\ InList' /\ pc'[1] = l
    BY <1>1, <1>9, <2>1, <2>2
  <2>4. AtModify'
    BY <1>0, <1>3, <1>9, <2>1, <2>2, <2>3, SMT DEF AtModify, Fetching, In, l, Stays, ModifyStays, KeepsList, CellsKept
  <2>. QED
    BY <2>1, <2>3, <2>4 DEF l
<1>10. CASE pc[2] = 17
  <2>1. /\ Machine' /\ Onwards /\ CellsKept
        /\ \A m \in IndaccFile : dev'.sfr[m] = IF m = "INDACC_WDATA_H" THEN A ELSE dev.sfr[m]
        /\ dev'.regs = dev.regs /\ dev'.log = dev.log
    BY <1>2, <1>10, ModifyCode, Stores
  <2>2. /\ dev'.sfr["INDACC_ADDR_H"] = dev.sfr["INDACC_ADDR_H"]
        /\ dev'.sfr["INDACC_ADDR_L"] = dev.sfr["INDACC_ADDR_L"]
        /\ dev'.sfr["INDACC_RDATA_H"] = dev.sfr["INDACC_RDATA_H"]
        /\ dev'.sfr["INDACC_RDATA_L"] = dev.sfr["INDACC_RDATA_L"]
        /\ dev'.sfr["INDACC_WDATA_H"] = A /\ dev'.sfr["INDACC_WDATA_L"] = dev.sfr["INDACC_WDATA_L"]
    BY <1>2, <2>1
  <2>3. ModifyStays /\ InList' /\ pc'[1] = l
    BY <1>1, <1>10, <2>1, <2>2
  <2>4. AtModify'
    BY <1>0, <1>3, <1>10, <2>1, <2>2, <2>3, SMT DEF AtModify, Fetching, In, l, Stays, ModifyStays, KeepsList, CellsKept
  <2>. QED
    BY <2>1, <2>3, <2>4 DEF l
<1>11. CASE pc[2] = 22
  <2>1. /\ Machine' /\ Onwards /\ CellsKept
        /\ \A m \in IndaccFile : dev'.sfr[m] = IF m = "INDACC_WDATA_L" THEN A ELSE dev.sfr[m]
        /\ dev'.regs = dev.regs /\ dev'.log = dev.log
    BY <1>2, <1>11, ModifyCode, Stores
  <2>2. /\ dev'.sfr["INDACC_ADDR_H"] = dev.sfr["INDACC_ADDR_H"]
        /\ dev'.sfr["INDACC_ADDR_L"] = dev.sfr["INDACC_ADDR_L"]
        /\ dev'.sfr["INDACC_RDATA_H"] = dev.sfr["INDACC_RDATA_H"]
        /\ dev'.sfr["INDACC_RDATA_L"] = dev.sfr["INDACC_RDATA_L"]
        /\ dev'.sfr["INDACC_WDATA_L"] = A /\ dev'.sfr["INDACC_WDATA_H"] = dev.sfr["INDACC_WDATA_H"]
    BY <1>2, <2>1
  <2>3. ModifyStays /\ InList' /\ pc'[1] = l
    BY <1>1, <1>11, <2>1, <2>2
  <2>4. AtModify'
    BY <1>0, <1>3, <1>11, <2>1, <2>2, <2>3, SMT DEF AtModify, Fetching, In, l, Stays, ModifyStays, KeepsList, CellsKept
  <2>. QED
    BY <2>1, <2>3, <2>4 DEF l
<1>. QED
  BY <1>4, <1>5, <1>6, <1>7, <1>8, <1>9, <1>10, <1>11

(* The word that is written is the current one, masked and with the bits set. *)
LEMMA ModifyEnds ==
  ASSUME Machine, InList, AtModify, Step, job' = job, pc[1] = "reg_from_initlist_rmw", pc[2] = 23
  PROVE Machine' /\ InList' /\ AtWrite' /\ pc'[1] = "reg_from_initlist_write"
<1>1. /\ stack = <<>> /\ Modifying /\ Dptr = Here + 5 + 1
      /\ dev.sfr["INDACC_WDATA_H"] = BitOr(Hi(E[3]), KeptHi)
      /\ dev.sfr["INDACC_WDATA_L"] = BitOr(Lo(E[3]), KeptLo)
  BY SMT DEF AtModify, Fetching, In
<1>2. Same /\ pc' = <<"reg_from_initlist_write", 1>>
  <2>1. Insn = <<"jmp", "reg_from_initlist_write">>
    BY ModifyCode
  <2>. QED
    BY <2>1, Jumps DEF To
<1>3. /\ Machine' /\ CellsKept /\ KeepsList /\ UNCHANGED <<dev, stack>>
  BY <1>2, ListKept, SameMachine DEF Same
<1>4. New' = New
  BY <1>3, RegsKept
<1>5. Due <= Entries /\ Len(E) = 3 /\ IndaccAddr(dev) = E[1]
  BY <1>1 DEF Modifying
<1>6. E[2] \in Word /\ E[3] \in Word /\ job.at[Due + 1] = Here + 2 * 3 /\ Here \in Int
  <2>1. job.at[Due + 1] = Here + 2 * Len(E)
    BY <1>5, OtherWords
  <2>2. E[2] \in Word /\ E[3] \in Word
    BY <1>5, OtherWords
  <2>. QED
    BY <1>5, <2>1, <2>2, FirstReadable, Zenon
<1>7. IndaccWdata(dev) = New
  BY <1>1, <1>5, <1>6, CurrentIsWord, ModifiesWord DEF IndaccWdata, New, Current, KeptHi, KeptLo
<1>8. Dptr' = job'.at[Due' + 1]
  <2>1. Dptr = job.at[Due + 1]
    BY <1>1, <1>6, SMT
  <2>. QED
    BY <1>3, <2>1 DEF KeepsList, CellsKept
<1>9. AtWrite'
  <2>1. Due' <= Entries' /\ E' = E /\ dev' = dev /\ stack' = <<>>
    BY <1>1, <1>3, <1>5 DEF KeepsList
  <2>. QED
    BY <1>2, <1>4, <1>5, <1>7, <1>8, <2>1, SMT DEF AtWrite, In
<1>. QED
  BY <1>2, <1>3, <1>9 DEF KeepsList

-----------------------------------------------------------------------------
(* The interpreter *)

(* The invariant is inductive: a step of the core from each point. *)
LEMMA ListStep ==
  ASSUME Listing, ListInv, Step, job' = job
  PROVE ListInv'
<1>1. /\ Machine /\ InList /\ pc[1] \in Labels
      /\ AtEntry /\ AtWrite /\ AtModify /\ AtStatus /\ AtDone
  BY DEF ListInv
<1>2. ASSUME Machine', InList', pc'[1] \in Labels,
             /\ pc'[1] = "reg_from_initlist" => AtEntry'
             /\ pc'[1] = "reg_from_initlist_write" => AtWrite'
             /\ pc'[1] = "reg_from_initlist_rmw" => AtModify'
             /\ pc'[1] = "reg_status_loop" => AtStatus'
             /\ pc'[1] = "reg_from_initlist_done" => AtDone'
      PROVE ListInv'
  <2>1. AtEntry' /\ AtWrite'
    BY <1>2 DEF AtEntry, AtWrite
  <2>2. AtModify' /\ AtStatus' /\ AtDone'
    BY <1>2 DEF AtModify, AtStatus, AtDone
  <2>. QED
    BY <1>2, <2>1, <2>2 DEF ListInv
<1>3. CASE pc[1] = "reg_from_initlist"
  <2>1. pc[2] \in 1..21
    BY <1>1, <1>3 DEF AtEntry
  <2>2. CASE pc[2] \in {1, 2, 3, 7, 8, 9, 14, 15, 16, 18, 19, 20}
    <3>1. Machine' /\ InList' /\ AtEntry' /\ pc'[1] = "reg_from_initlist"
      BY <1>1, <1>3, <2>2, EntryFetch
    <3>. QED
      BY <1>2, <3>1
  <2>3. CASE pc[2] \in {4, 5, 6, 10, 12, 17}
    <3>1. Machine' /\ InList' /\ AtEntry' /\ pc'[1] = "reg_from_initlist"
      BY <1>1, <1>3, <2>3, EntryMove
    <3>. QED
      BY <1>2, <3>1
  <2>4. CASE pc[2] = 11
    <3>1. Machine' /\ InList' /\ \/ AtEntry' /\ pc'[1] = "reg_from_initlist"
                                 \/ AtModify' /\ pc'[1] = "reg_from_initlist_rmw"
      BY <1>1, <1>3, <2>4, EntryBranches
    <3>. QED
      BY <1>2, <3>1
  <2>5. CASE pc[2] = 13
    <3>1. Machine' /\ InList' /\ \/ AtEntry' /\ pc'[1] = "reg_from_initlist"
                                 \/ AtDone' /\ pc'[1] = "reg_from_initlist_done"
      BY <1>1, <1>3, <2>5, EntryStops
    <3>. QED
      BY <1>2, <3>1
  <2>6. CASE pc[2] = 21
    <3>1. Machine' /\ InList' /\ AtWrite' /\ pc'[1] = "reg_from_initlist_write"
      BY <1>1, <1>3, <2>6, EntryEnds
    <3>. QED
      BY <1>2, <3>1
  <2>. QED
    BY <2>1, <2>2, <2>3, <2>4, <2>5, <2>6
<1>4. CASE pc[1] = "reg_from_initlist_write"
  <2>1. Machine' /\ InList' /\ \/ AtWrite' /\ pc'[1] = "reg_from_initlist_write"
                               \/ AtStatus' /\ pc'[1] = "reg_status_loop"
                               \/ AtEntry' /\ pc'[1] = "reg_from_initlist"
    BY <1>1, <1>4, WriteStep
  <2>. QED
    BY <1>2, <2>1
<1>5. CASE pc[1] = "reg_from_initlist_rmw"
  <2>1. pc[2] \in 1..23
    BY <1>1, <1>5 DEF AtModify
  <2>2. CASE pc[2] = 1
    <3>1. Machine' /\ InList' /\ AtModify' /\ pc'[1] = "reg_from_initlist_rmw"
      BY <1>1, <1>5, <2>2, ModifyReads
    <3>. QED
      BY <1>2, <3>1
  <2>3. CASE pc[2] = 2
    <3>1. Machine' /\ InList' /\ AtStatus' /\ pc'[1] = "reg_status_loop"
      BY <1>1, <1>5, <2>3, ModifyCalls
    <3>. QED
      BY <1>2, <3>1
  <2>4. CASE pc[2] \in {3, 4, 5, 8, 9, 10, 13, 14, 15, 18, 19, 20}
    <3>1. Machine' /\ InList' /\ AtModify' /\ pc'[1] = "reg_from_initlist_rmw"
      BY <1>1, <1>5, <2>4, ModifyFetch
    <3>. QED
      BY <1>2, <3>1
  <2>5. CASE pc[2] \in {6, 7, 11, 12, 16, 17, 21, 22}
    <3>1. Machine' /\ InList' /\ AtModify' /\ pc'[1] = "reg_from_initlist_rmw"
      BY <1>1, <1>5, <2>5, ModifyMove
    <3>. QED
      BY <1>2, <3>1
  <2>6. CASE pc[2] = 23
    <3>1. Machine' /\ InList' /\ AtWrite' /\ pc'[1] = "reg_from_initlist_write"
      BY <1>1, <1>5, <2>6, ModifyEnds
    <3>. QED
      BY <1>2, <3>1
  <2>. QED
    BY <2>1, <2>2, <2>3, <2>4, <2>5, <2>6
<1>6. CASE pc[1] = "reg_status_loop"
  <2>1. Machine' /\ InList' /\ \/ AtStatus' /\ pc'[1] = "reg_status_loop"
                               \/ AtWrite' /\ pc'[1] = "reg_from_initlist_write"
                               \/ AtModify' /\ pc'[1] = "reg_from_initlist_rmw"
    BY <1>1, <1>6, StatusStep
  <2>. QED
    BY <1>2, <2>1
<1>7. CASE pc[1] = "reg_from_initlist_done"
  <2>1. pc[2] = 1 /\ stack = <<>>
    BY <1>1, <1>7 DEF AtDone
  <2>2. stack # <<>>
    BY <1>1, <1>7, <2>1, DoneCode, Returning
  <2>. QED
    BY <2>1, <2>2
<1>. QED
  BY <1>1, <1>3, <1>4, <1>5, <1>6, <1>7

(* The call: DPTR points to the list, and no register is written yet. *)
LEMMA ListInit ==
  ASSUME Init PROVE ListInv
<1>. SUFFICES ASSUME Listing PROVE ListInv
  BY DEF ListInv
<1>1. ListCall
  BY DEF Init, Listing, Calls, PortCall, AddressCall, DumpCall, MainCall, TestCall
<1>2. /\ job.list \in Seq(Entry) /\ Assembled(job.list, job.at, job.bytes) /\ Words(job.regs)
      /\ rom = job.bytes /\ dev = PowerUp(job.regs, <<>>)
      /\ pc = <<"reg_from_initlist", 1>> /\ stack = <<>>
      /\ cell = [n \in Cell |-> IF n \in {"DPH", "DPL"} THEN AtDptr(job.at[1])[n] ELSE 0]
  BY <1>1 DEF ListCall, Enter, To, AtDptr
<1>3. Due = 1 /\ Entries \in Nat
  BY <1>2 DEF Due, Entries, PowerUp
<1>4. InList
  BY <1>2, <1>3, SMT DEF InList, Entries
<1>5. job.at[1] = Here /\ Here \in Word
  <2>1. Here \in CodePlace
    BY <1>4, FirstOfEntry
  <2>2. Here \in Word
    BY <2>1, CodePlaceRange, WordRange, SMT
  <2>. QED
    BY <1>3, <2>2 DEF Here
<1>6. /\ Hi(Here) \in Byte /\ Lo(Here) \in Byte /\ Pair(Hi(Here), Lo(Here)) = Here /\ 0 \in Byte
  <2>1. 0 \in Byte
    BY ByteRange, SMT
  <2>. QED
    BY <1>5, <2>1, HalvesOfWord
<1>7. cell = [n \in Cell |-> IF n = "DPH" THEN Hi(Here) ELSE IF n = "DPL" THEN Lo(Here) ELSE 0]
  BY <1>2, <1>5 DEF AtDptr
<1>8. Dptr = Here /\ cell \in [Cell -> Byte]
  BY <1>6, <1>7, CellAssumption DEF Dptr
<1>9. Switch(dev)
  <2>1. DOMAIN dev = {"sfr", "regs", "xram", "ssp", "out", "ti", "log", "ocp"}
    BY <1>2 DEF PowerUp
  <2>2. dev.sfr = [n \in IndaccFile \cup PedmaFile |-> 0] /\ dev.regs = job.regs /\ dev.log = <<>>
    BY <1>2 DEF PowerUp
  <2>3. DOMAIN job.regs \subseteq Word /\ job.regs \in [DOMAIN job.regs -> Word]
    BY <1>2 DEF Words
  <2>4. [n \in IndaccFile \cup PedmaFile |-> 0] \in [IndaccFile \cup PedmaFile -> Byte]
    BY <1>6
  <2>5. <<>> \in Seq(Word \X Word)
    OBVIOUS
  <2>. QED
    BY <2>1, <2>2, <2>3, <2>4, <2>5 DEF Switch
<1>10. AtEntry
  BY <1>2, <1>8, SMT DEF AtEntry, Fetching, In
<1>. QED
  BY <1>2, <1>4, <1>8, <1>9, <1>10 DEF ListInv, Machine, AtWrite, AtModify, AtStatus, AtDone

(* A routine that is over stays as it is. *)
LEMMA ListUnmoved ==
  ASSUME ListInv, UNCHANGED routineVars
  PROVE ListInv'
<1>. SUFFICES ASSUME Listing PROVE ListInv'
  BY DEF ListInv, Listing, Calls, routineVars
<1>1. UNCHANGED <<pc, cell, stack, rom, dev, job>>
  BY DEF routineVars
<1>2. /\ Machine /\ InList /\ AtEntry /\ AtWrite /\ AtModify /\ AtStatus /\ AtDone
      /\ pc[1] \in Labels
  BY DEF ListInv
<1>3. Machine' /\ CellsKept
  BY <1>1, <1>2, CellKept DEF Machine
<1>4. KeepsList /\ Current' = Current /\ New' = New
  BY <1>1, <1>2, ListKept, RegsKept
<1>5. /\ Modifying' = Modifying /\ HasRead' = HasRead
      /\ KeptHi' = KeptHi /\ KeptLo' = KeptLo
  BY <1>1, <1>4 DEF KeepsList, Modifying, HasRead, KeptHi, KeptLo
<1>6. A' = A /\ (cell["B"])' = cell["B"] /\ Dptr' = Dptr /\ dev'.sfr = dev.sfr
  BY <1>1, <1>3 DEF CellsKept
<1>7. AtEntry'
  BY <1>1, <1>2, <1>4, <1>6, SMTT(60) DEF AtEntry, Fetching, In, KeepsList
<1>8. AtWrite'
  BY <1>1, <1>2, <1>4, <1>6 DEF AtWrite, In, KeepsList
<1>9. AtModify'
  BY <1>1, <1>2, <1>4, <1>5, <1>6, SMTT(60) DEF AtModify, Fetching, In, KeepsList
<1>10. AtStatus' /\ AtDone'
  BY <1>1, <1>2, <1>3, <1>4, <1>5 DEF AtStatus, AtDone, CellsKept, KeepsList
<1>. QED
  BY <1>1, <1>2, <1>3, <1>4, <1>7, <1>8, <1>9, <1>10 DEF ListInv, KeepsList

(* Wherever the interpreter is, the port, DPTR, the accumulator and the     *)
(* return point are what the entry that is due makes them, whatever the      *)
(* list, its place in code memory and the registers before the call.         *)
THEOREM ListInvariant == Spec => []ListInv
<1>1. Init => ListInv
  BY ListInit
<1>2. ListInv /\ [NextInsn \/ Finished]_routineVars => ListInv'
  <2>. SUFFICES ASSUME ListInv, [NextInsn \/ Finished]_routineVars PROVE ListInv'
    OBVIOUS
  <2>1. CASE NextInsn
    <3>1. Listing' <=> Listing
      BY <2>1 DEF NextInsn, Listing, Calls
    <3>2. ~Listing => ListInv'
      BY <3>1 DEF ListInv
    <3>3. Listing => ListInv'
      BY <2>1, ListStep DEF NextInsn
    <3>. QED
      BY <3>2, <3>3
  <2>2. CASE Finished \/ UNCHANGED routineVars
    BY <2>2, ListUnmoved DEF Finished, Halt, vars, routineVars
  <2>. QED
    BY <2>1, <2>2
<1>. QED
  BY <1>1, <1>2, PTL DEF Spec

(* The only RET with an empty stack is that of the terminator. *)
LEMMA ReturnsWhenDone ==
  ASSUME ListInv, Listing, Over
  PROVE pc[1] = "reg_from_initlist_done"
<1>1. /\ AtEntry /\ AtWrite /\ AtModify /\ AtStatus
      /\ pc[1] \in Labels
  BY DEF ListInv
<1>2. Insn[1] = "ret" /\ stack = <<>>
  BY DEF Over, Op
<1>3. Clr[1] # "ret" /\ Movc[1] # "ret" /\ Inc[1] # "ret"
  BY DEF Clr, Movc, Inc
<1>4. pc[1] # "reg_from_initlist"
  <2>. SUFFICES ASSUME pc[1] = "reg_from_initlist" PROVE FALSE
    OBVIOUS
  <2>1. pc[2] \in 1..21
    BY <1>1 DEF AtEntry
  <2>. QED
    BY <1>2, <1>3, <2>1, EntryCode, SMTT(30)
<1>5. pc[1] # "reg_from_initlist_write"
  BY <1>1, <1>2, WriteCode DEF AtWrite
<1>6. pc[1] # "reg_from_initlist_rmw"
  <2>. SUFFICES ASSUME pc[1] = "reg_from_initlist_rmw" PROVE FALSE
    OBVIOUS
  <2>1. pc[2] \in 1..23
    BY <1>1 DEF AtModify
  <2>2. pc[2] \in {3, 4, 5, 8, 9, 10, 13, 14, 15, 18, 19, 20} => Insn \in {Clr, Movc, Inc}
    BY <2>1, ModifyCode
  <2>3. pc[2] \in {1, 2, 23} => Insn[1] # "ret"
    BY <2>1, ModifyCode
  <2>4. pc[2] \in {6, 7, 11, 12, 16, 17, 21, 22} => Insn[1] # "ret"
    BY <2>1, ModifyCode
  <2>. QED
    BY <1>2, <1>3, <2>1, <2>2, <2>3, <2>4
<1>7. pc[1] # "reg_status_loop"
  BY <1>1, <1>2 DEF AtStatus
<1>. QED
  BY <1>1, <1>4, <1>5, <1>6, <1>7

LEMMA ListStops == ListInv => StopsAtEnd
<1>. SUFFICES ASSUME ListInv, Listing, Over
              PROVE Len(dev.log) = Len(job.list) /\ Dptr = job.at[Len(job.list) + 1] + 2
  BY DEF StopsAtEnd
<1>1. Due = Entries + 1 /\ Dptr = Here + 2
  BY ReturnsWhenDone DEF ListInv, AtDone
<1>2. Len(dev.log) \in Nat /\ Entries \in Nat
  BY DEF ListInv, Machine, Switch, InList, Entries
<1>3. Len(dev.log) = Entries
  BY <1>1, <1>2, SMT DEF Due
<1>. QED
  BY <1>1, <1>3 DEF Here, Entries

(* The interpreter returns only at the terminator: every entry has been      *)
(* written once, and DPTR is just behind the zero word (hello.s:248).        *)
THEOREM ListStopsAtEnd == Spec => []StopsAtEnd
  BY ListInvariant, ListStops, PTL

(* MOVC and INC DPTR leave the device alone. *)
LEMMA Quiet ==
  ASSUME Step
  PROVE /\ Insn \in {Movc, Inc} => UNCHANGED dev
<1>1. Insn = Movc => Load
  BY Dispatch DEF Op, Movc
<1>2. Insn = Inc => IncDptr
  BY Dispatch DEF Op, Inc
<1>. QED
  BY <1>1, <1>2 DEF Load, IncDptr

(* Only the command 3 changes the registers or the log. *)
LEMMA OnlyWrites ==
  ASSUME ListInv, Listing, Step, ~(pc[1] = "reg_from_initlist_write" /\ pc[2] = 1)
  PROVE dev'.regs = dev.regs /\ dev'.log = dev.log
<1>1. /\ Machine /\ InList /\ AtEntry /\ AtWrite /\ AtModify /\ AtStatus /\ AtDone
      /\ pc[1] \in Labels
  BY DEF ListInv
<1>2. ASSUME Insn \in {Clr, Movc, Inc} PROVE dev' = dev
  BY <1>1, <1>2, Clears, Quiet
<1>3. ASSUME NEW n \in IndaccFile, Insn = <<"movx", n, "A">>
      PROVE dev'.regs = dev.regs /\ dev'.log = dev.log
  BY <1>1, <1>3, Stores
<1>4. ASSUME NEW n \in IndaccFile, Insn \in {<<"anlx", n>>, <<"orlx", n>>} PROVE dev' = dev
  BY <1>1, <1>4, Ands, Ors
<1>5. ASSUME NEW l, Insn \in {<<"jmp", l>>, <<"jz", l>>, <<"jb", "B.7", l>>, <<"cjne", "A", 0, l>>}
      PROVE dev' = dev
  BY <1>1, <1>5, Jumps, Compares DEF Same
<1>6. ASSUME NEW l, Insn = <<"call", l>> PROVE dev' = dev
  BY <1>1, <1>6, Calling
<1>7. IndaccFile = {"INDACC_ADDR_H", "INDACC_ADDR_L", "INDACC_WDATA_H", "INDACC_WDATA_L",
                    "INDACC_RDATA_H", "INDACC_RDATA_L"}
  BY DEF IndaccFile
<1>8. CASE pc[1] = "reg_from_initlist"
  <2>1. pc[2] \in 1..21
    BY <1>1, <1>8 DEF AtEntry
  <2>2. pc[2] \in {1, 2, 3, 7, 8, 9, 14, 15, 16, 18, 19, 20} => dev' = dev
    BY <1>2, <1>8, <2>1, EntryCode
  <2>3. pc[2] \in {6, 10, 17, 21} => dev'.regs = dev.regs /\ dev'.log = dev.log
    BY <1>3, <1>7, <1>8, <2>1, EntryCode
  <2>4. pc[2] = 4 => dev' = dev
    BY <1>1, <1>8, <2>1, EntryCode, SavesB
  <2>5. pc[2] = 5 => dev' = dev
    BY <1>1, <1>8, <2>1, EntryCode, DropsTopBit
  <2>6. pc[2] \in {11, 13} => dev' = dev
    BY <1>5, <1>8, <2>1, EntryCode
  <2>7. pc[2] = 12 => dev' = dev
    BY <1>4, <1>7, <1>8, <2>1, EntryCode
  <2>. QED
    BY <2>1, <2>2, <2>3, <2>4, <2>5, <2>6, <2>7
<1>9. CASE pc[1] = "reg_from_initlist_write"
  <2>1. pc[2] \in {2, 3}
    BY <1>1, <1>9 DEF AtWrite
  <2>. QED
    BY <1>5, <1>6, <1>9, <2>1, WriteCode
<1>10. CASE pc[1] = "reg_from_initlist_rmw"
  <2>1. pc[2] \in 1..23
    BY <1>1, <1>10 DEF AtModify
  <2>2. pc[2] = 1 => dev'.regs = dev.regs /\ dev'.log = dev.log
    <3>1. ~IsPhy(IndaccAddr(dev)) /\ IndaccAddr(dev) # 6660
      BY <1>1, <1>10, OtherWords DEF AtModify, Modifying
    <3>. QED
      BY <1>1, <1>10, <2>1, <3>1, ModifyCode, ReadsRegister
  <2>3. pc[2] = 2 => dev' = dev
    BY <1>6, <1>10, <2>1, ModifyCode
  <2>4. pc[2] \in {3, 4, 5, 8, 9, 10, 13, 14, 15, 18, 19, 20} => dev' = dev
    BY <1>2, <1>10, <2>1, ModifyCode
  <2>5. pc[2] \in {6, 11, 16, 21} => dev' = dev
    BY <1>4, <1>7, <1>10, <2>1, ModifyCode
  <2>6. pc[2] \in {7, 12, 17, 22} => dev'.regs = dev.regs /\ dev'.log = dev.log
    BY <1>3, <1>7, <1>10, <2>1, ModifyCode
  <2>7. pc[2] = 23 => dev' = dev
    BY <1>5, <1>10, <2>1, ModifyCode
  <2>. QED
    BY <2>1, <2>2, <2>3, <2>4, <2>5, <2>6, <2>7
<1>11. CASE pc[1] = "reg_status_loop"
  <2>1. pc[2] \in 1..3
    BY <1>1, <1>11 DEF AtStatus
  <2>2. pc[2] = 1 => dev' = dev
    BY <1>1, <1>11, <2>1, StatusCode, ReadsStatus
  <2>3. pc[2] = 2 => dev' = dev
    BY <1>5, <1>11, <2>1, StatusCode
  <2>4. pc[2] = 3 => dev' = dev
    BY <1>1, <1>11, <2>1, StatusCode, Returning
  <2>. QED
    BY <2>1, <2>2, <2>3, <2>4
<1>12. CASE pc[1] = "reg_from_initlist_done"
  BY <1>1, <1>12, DoneCode, Returning DEF AtDone
<1>. QED
  BY <1>1, <1>8, <1>9, <1>10, <1>11, <1>12

(* The command 3 applies the entry that is due, and no other. *)
LEMMA WriteApplies ==
  ASSUME ListInv, Listing, Step, job' = job, pc[1] = "reg_from_initlist_write", pc[2] = 1
  PROVE Script!Apply
<1>1. /\ Machine /\ InList /\ Due <= Entries /\ IndaccAddr(dev) = E[1] /\ IndaccWdata(dev) = New
  BY DEF ListInv, AtWrite, In
<1>2. dev'.regs = Assign(dev.regs, E[1], New) /\ Len(dev'.log) = Len(dev.log) + 1
  BY <1>1, WriteCode, WritesRegister
<1>3. Due \in 1..Entries /\ Entries \in Nat /\ job.list \in Seq(Entry) /\ Due' = Due + 1
  BY <1>1, <1>2, SMT DEF InList, Entries, Due
<1>4. Remaining = SubSeq(job.list, Due, Entries)
  BY DEF Remaining, Due, Entries
<1>5. Remaining' = SubSeq(job.list, Due + 1, Entries)
  BY <1>3 DEF Remaining, Due, Entries, Listing, Calls
<1>6. Remaining # <<>> /\ Head(Remaining) = E /\ Tail(Remaining) = Remaining'
  <2>1. Due \in 1..Len(job.list) /\ Entries = Len(job.list)
    BY <1>3 DEF Entries
  <2>2. Entries \in Due..Len(job.list)
    BY <1>3, <2>1, SMT
  <2>3. Head(Remaining) = E /\ Tail(Remaining) = Remaining'
    BY <1>3, <1>4, <1>5, <2>1, <2>2, HeadTailOfSubSeq DEF E
  <2>4. Remaining # <<>>
    <3>1. \A i \in Due..Entries : job.list[i] \in Entry
      BY <1>3, <2>1, SMT
    <3>2. Len(Remaining) = IF Due <= Entries THEN Entries - Due + 1 ELSE 0
      BY <1>3, <1>4, <3>1, SubSeqProperties, SMT
    <3>3. Len(Remaining) > 0
      BY <1>3, <3>2, SMT
    <3>. QED
      BY <3>3
  <2>. QED
    BY <2>3, <2>4
<1>7. Script!Value(E) = New
  <2>1. \A x, y : Script!BitAnd(x, y) = BitAnd(x, y)
    BY DEF Script!BitAnd, BitAnd
  <2>2. \A x, y : Script!BitOr(x, y) = BitOr(x, y)
    BY <2>1 DEF Script!BitOr, BitOr
  <2>3. \A a : Script!Current(a) = RegValue(dev, a)
    BY DEF Script!Current, RegValue
  <2>. QED
    BY <2>1, <2>2, <2>3 DEF Script!Value, New
<1>8. (IF Listing THEN dev.regs ELSE <<>>)' = dev'.regs /\ (IF Listing THEN dev.regs ELSE <<>>) = dev.regs
  BY DEF Listing, Calls
<1>. QED
  BY <1>2, <1>6, <1>7, <1>8 DEF Script!Apply, Assign

(* Every step of a routine is a step of the abstract list or a stutter. *)
LEMMA StepApplies ==
  ASSUME ListInv, [NextInsn \/ Finished]_routineVars
  PROVE [Script!Next]_(Script!vars)
<1>1. CASE UNCHANGED <<dev, job>>
  BY <1>1 DEF Script!vars, Remaining, Listing, Calls
<1>2. CASE NextInsn
  <2>1. Step /\ job' = job
    BY <1>2 DEF NextInsn
  <2>2. CASE ~Listing
    BY <2>1, <2>2 DEF Script!vars, Remaining, Listing, Calls
  <2>3. CASE Listing /\ pc[1] = "reg_from_initlist_write" /\ pc[2] = 1
    BY <2>1, <2>3, WriteApplies DEF Script!Next
  <2>4. CASE Listing /\ ~(pc[1] = "reg_from_initlist_write" /\ pc[2] = 1)
    <3>1. dev'.regs = dev.regs /\ dev'.log = dev.log
      BY <2>1, <2>4, OnlyWrites
    <3>. QED
      BY <2>1, <3>1 DEF Script!vars, Remaining, Listing, Calls
  <2>. QED
    BY <2>2, <2>3, <2>4
<1>. QED
  BY <1>1, <1>2 DEF Finished, Halt, vars, routineVars

(* reg_from_initlist implements the abstract interpreter of a list: every    *)
(* register write is the next entry, with its value (for an entry that       *)
(* modifies, the masked current value with the bits set), and it stops       *)
(* exactly when the list is done.                                          *)
THEOREM ListApplied == Spec => AppliesList
<1>1. Spec => Script!Safety
  <2>1. ListInv /\ [NextInsn \/ Finished]_routineVars => [Script!Next]_(Script!vars)
    BY StepApplies
  <2>. QED
    BY <2>1, ListInvariant, PTL DEF Spec, Script!Safety
<1>. QED
  BY <1>1, ListStopsAtEnd, PTL DEF AppliesList

-----------------------------------------------------------------------------
(* The core at the instructions of phyocp_reg_addr *)

(* The remaining forms of instruction, as in Dispatch. *)
LEMMA DispatchMore ==
  ASSUME Step
  PROVE /\ Op = "mov_dptr" => MoveDptr
        /\ Op \in {"addi", "addx", "addci", "addcx"} => Arith
        /\ Op \in {"anli", "orlx"} => Logic
        /\ Op \in {"rr", "swap"} => Unary
        /\ Op = "rrc" => RotateCarry
        /\ Op = "mul" => Multiply
        /\ Op = "push" => Push
        /\ Op = "pop" => Pop
<1>. USE DEF Step, Move, MoveDptr, IncDptr, Load, Store, Exchange, Arith, Logic, Unary, RotateCarry,
         Multiply, SetBit, Jump, CompareJump, DecrementJump, Call, Return, Push, Pop
<1>1. Op = "mov_dptr" => MoveDptr
  OBVIOUS
<1>2. Op \in {"addi", "addx", "addci", "addcx"} => Arith
  OBVIOUS
<1>3. Op \in {"anli", "orlx"} => Logic
  OBVIOUS
<1>4. Op \in {"rr", "swap"} => Unary
  OBVIOUS
<1>5. Op = "rrc" => RotateCarry
  OBVIOUS
<1>6. Op = "mul" => Multiply
  OBVIOUS
<1>7. Op = "push" => Push
  OBVIOUS
<1>8. Op = "pop" => Pop
  OBVIOUS
<1>. HIDE DEF Step, Move, MoveDptr, IncDptr, Load, Store, Exchange, Arith, Logic, Unary, RotateCarry,
         Multiply, SetBit, Jump, CompareJump, DecrementJump, Call, Return, Push, Pop
<1>. QED
  BY <1>1, <1>2, <1>3, <1>4, <1>5, <1>6, <1>7, <1>8

(* The cells the routine uses; none of them is a register of the port. *)
Used == {"A", "B", "DPH", "DPL", "R5", "R6", "R7"}
LEMMA Plain ==
  ASSUME Machine, NEW n \in Used
  PROVE /\ n \in Cell /\ n \notin BoardHooked(dev) /\ cell[n] \in Byte
        /\ Read(n) = cell[n] /\ AfterGet(dev, n) = dev
<1>1. n \in Cell /\ cell[n] \in Byte
  BY AddressCellAssumption DEF Used, Machine
<1>2. n \notin BoardHooked(dev) /\ AfterGet(dev, n) = dev
  BY NotHooked DEF Machine, Used, Hooked, IndaccFile, PedmaFile, AfterGet
<1>. QED
  BY <1>1, <1>2 DEF Read

LEMMA OfPort ==
  ASSUME Machine, NEW n \in IndaccFile
  PROVE /\ n \in BoardHooked(dev) /\ dev.sfr[n] \in Byte
        /\ Read(n) = dev.sfr[n] /\ AfterGet(dev, n) = dev
<1>1. n \in BoardHooked(dev) /\ dev.sfr[n] \in Byte
  BY NotHooked DEF Machine, Switch
<1>2. BoardGet(dev, n) = dev.sfr[n] /\ AfterGet(dev, n) = dev
  BY NotHooked DEF Machine, BoardGet, Get, IndaccFile, PedmaFile, AfterGet
<1>. QED
  BY <1>1, <1>2 DEF Read

(* A step that gives one cell a value and nothing else but, it may be, flags. *)
Gives(n, v) == /\ Machine' /\ Onwards /\ UNCHANGED dev
               /\ \A k \in Used : (cell[k])' = IF k = n THEN v ELSE cell[k]
LEMMA Giving ==
  ASSUME Machine, NEW n \in Used, NEW v \in Byte, cell' = [cell EXCEPT ![n] = v], dev' = dev, Onwards
  PROVE Gives(n, v)
<1>1. \A k \in Used : k \in Cell
  BY Plain
<1>. QED
  BY <1>1 DEF Gives, Machine

LEMMA Copies ==
  ASSUME Machine, Step, NEW m \in Used, NEW n \in Used, Insn = <<"movx", m, n>>
  PROVE Gives(m, cell[n]) /\ psw' = psw
<1>1. Move
  BY Dispatch DEF Op
<1>2. cell' = [cell EXCEPT ![m] = cell[n]] /\ dev' = dev /\ Onwards /\ psw' = psw
  BY <1>1, Plain DEF Move, Op, Write, Onwards
<1>. QED
  BY <1>2, Plain, Giving DEF Gives

LEMMA FromPort ==
  ASSUME Machine, Step, NEW m \in Used, NEW n \in IndaccFile, Insn = <<"movx", m, n>>
  PROVE Gives(m, dev.sfr[n]) /\ psw' = psw
<1>1. Move
  BY Dispatch DEF Op
<1>2. cell' = [cell EXCEPT ![m] = dev.sfr[n]] /\ dev' = dev /\ Onwards /\ psw' = psw
  BY <1>1, Plain, OfPort DEF Move, Op, Write, Onwards
<1>. QED
  BY <1>2, OfPort, Giving DEF Gives

LEMMA Loads ==
  ASSUME Machine, Step, NEW m \in Used, NEW v \in Byte, Insn = <<"movi", m, v>>
  PROVE Gives(m, v) /\ psw' = psw
<1>1. Move
  BY Dispatch DEF Op
<1>2. cell' = [cell EXCEPT ![m] = v] /\ dev' = dev /\ Onwards /\ psw' = psw
  BY <1>1, Plain DEF Move, Op, Write, Onwards
<1>. QED
  BY <1>2, Giving DEF Gives

LEMMA Masks ==
  ASSUME Machine, Step, NEW v \in Byte, Insn = <<"anli", v>>
  PROVE Gives("A", BitAnd(A, v)) /\ psw' = psw
<1>1. Logic
  BY DispatchMore DEF Op
<1>2. cell' = [cell EXCEPT !["A"] = BitAnd(A, v)] /\ dev' = dev /\ Onwards /\ psw' = psw
  BY <1>1 DEF Logic, Op, Onwards
<1>3. "A" \in Used
  BY DEF Used
<1>4. BitAnd(A, v) \in Byte
  BY <1>3, Plain, BitBounds DEF A
<1>. QED
  BY <1>2, <1>3, <1>4, Giving DEF Gives

LEMMA OrsCell ==
  ASSUME Machine, Step, NEW n \in Used, Insn = <<"orlx", n>>
  PROVE Gives("A", BitOr(A, cell[n])) /\ psw' = psw
<1>1. Logic
  BY DispatchMore DEF Op
<1>2. cell' = [cell EXCEPT !["A"] = BitOr(A, cell[n])] /\ dev' = dev /\ Onwards /\ psw' = psw
  BY <1>1, Plain DEF Logic, Op, Onwards
<1>3. "A" \in Used
  BY DEF Used
<1>4. BitOr(A, cell[n]) \in Byte
  BY <1>3, Plain, BitBounds DEF A
<1>. QED
  BY <1>2, <1>3, <1>4, Giving DEF Gives

LEMMA Turns ==
  ASSUME Machine, Step
  PROVE /\ Insn = <<"rr">> => Gives("A", A \div 2 + 128 * (A % 2)) /\ psw' = psw
        /\ Insn = <<"swap">> => Gives("A", A \div 16 + 16 * (A % 16)) /\ psw' = psw
<1>1. "A" \in Used
  BY DEF Used
<1>2. A \in Byte
  BY <1>1, Plain DEF A
<1>3. A \div 2 + 128 * (A % 2) \in Byte /\ A \div 16 + 16 * (A % 16) \in Byte
  BY <1>2, ByteRange, SMT
<1>4. ASSUME Insn = <<"rr">>
      PROVE Gives("A", A \div 2 + 128 * (A % 2)) /\ psw' = psw
  <2>1. Unary /\ Op = "rr"
    BY <1>4, DispatchMore DEF Op
  <2>2. cell' = [cell EXCEPT !["A"] = RR(A)] /\ dev' = dev /\ Onwards /\ psw' = psw
    BY <2>1 DEF Unary, Onwards, A
  <2>. QED
    BY <1>1, <1>3, <2>2, Giving DEF RR, Gives
<1>5. ASSUME Insn = <<"swap">>
      PROVE Gives("A", A \div 16 + 16 * (A % 16)) /\ psw' = psw
  <2>1. Unary /\ Op = "swap"
    BY <1>5, DispatchMore DEF Op
  <2>2. cell' = [cell EXCEPT !["A"] = Swap(A)] /\ dev' = dev /\ Onwards /\ psw' = psw
    BY <2>1 DEF Unary, Onwards, A
  <2>. QED
    BY <1>1, <1>3, <2>2, Giving DEF Swap, Gives
<1>. QED
  BY <1>4, <1>5

(* RRC A: bit 0 goes to the carry, which comes from the last instruction that
   changed it. *)
LEMMA Shifts ==
  ASSUME Machine, Step, Insn = <<"rrc">>
  PROVE Gives("A", A \div 2 + 128 * Carry(psw)) /\ Carry(psw') = A % 2
<1>1. "A" \in Used
  BY DEF Used
<1>2. A \in Byte
  BY <1>1, Plain DEF A
<1>3. RotateCarry
  BY DispatchMore DEF Op
<1>4. /\ cell' = [cell EXCEPT !["A"] = A \div 2 + 128 * Carry(psw)] /\ dev' = dev /\ Onwards
      /\ psw' = (psw \ {"C"}) \cup When(A % 2 = 1, "C")
  BY <1>3 DEF RotateCarry, RRC, Onwards
<1>5. Carry(psw') = IF A % 2 = 1 THEN 1 ELSE 0
  BY <1>4 DEF Carry, When
<1>6. Carry(psw') = A % 2
  BY <1>2, <1>5, ByteRange, SMT
<1>7. A \div 2 + 128 * Carry(psw) \in Byte
  <2>1. Carry(psw) \in {0, 1}
    BY DEF Carry
  <2>. QED
    BY <1>2, <2>1, ByteRange, SMT
<1>. QED
  BY <1>1, <1>4, <1>6, <1>7, Giving DEF Gives

LEMMA Adds ==
  ASSUME Machine, Step, NEW v \in Byte, NEW c \in {0, 1},
         \/ \E n \in Used : Insn = <<"addx", n>> /\ v = cell[n] /\ c = 0
         \/ \E n \in Used : Insn = <<"addcx", n>> /\ v = cell[n] /\ c = Carry(psw)
         \/ Insn = <<"addci", v>> /\ c = Carry(psw)
  PROVE Gives("A", (A + v + c) % 256) /\ Carry(psw') = IF A + v + c > 255 THEN 1 ELSE 0
<1>1. "A" \in Used
  BY DEF Used
<1>2. A \in Byte
  BY <1>1, Plain DEF A
<1>3. Arith /\ Op \in {"addx", "addcx", "addci"}
  BY DispatchMore DEF Op
<1>4. Operand = v
  BY Plain DEF Operand, Op
<1>. DEFINE Sum(s) == /\ cell' = [cell EXCEPT !["A"] = (A + v + c) % 256]
                      /\ psw' = (s \ {"C", "AC", "OV"})
                                   \cup When(A + v + c > 255, "C")
                                   \cup When((A % 16) + (v % 16) + c > 15, "AC")
                                   \cup When(Overflow(Signed(A) + Signed(v) + c), "OV")
                      /\ dev' = dev /\ Onwards
<1>5. \E s : Sum(s)
  <2>1. CASE Op = "addx"
    <3>1. c = 0 /\ Carry(psw \ {"C"}) = 0
      BY <2>1 DEF Op, Carry
    <3>2. Sum(psw \ {"C"})
      BY <1>3, <1>4, <2>1, <3>1, ZenonT(60) DEF Arith, Add, AddC, Onwards
    <3>. QED
      BY <3>2
  <2>2. CASE Op \in {"addcx", "addci"}
    <3>1. c = Carry(psw)
      BY <2>2 DEF Op
    <3>2. Sum(psw)
      BY <1>3, <1>4, <2>2, <3>1 DEF Arith, AddC, Onwards
    <3>. QED
      BY <3>2
  <2>. QED
    BY <1>3, <2>1, <2>2
<1>6. Carry(psw') = IF A + v + c > 255 THEN 1 ELSE 0
  BY <1>5 DEF Carry, When
<1>7. (A + v + c) % 256 \in Byte
  BY <1>2, ByteRange, SMT
<1>8. cell' = [cell EXCEPT !["A"] = (A + v + c) % 256] /\ dev' = dev /\ Onwards
  BY <1>5
<1>9. Gives("A", (A + v + c) % 256)
  BY <1>1, <1>7, <1>8, Giving DEF Gives
<1>. QED
  BY <1>6, <1>9

LEMMA LoadsDptr ==
  ASSUME Machine, Step, NEW w \in Word, Insn = <<"mov_dptr", w>>
  PROVE /\ Machine' /\ Onwards /\ UNCHANGED <<dev, psw>>
        /\ \A k \in Used : (cell[k])' = IF k = "DPH" THEN Hi(w) ELSE IF k = "DPL" THEN Lo(w) ELSE cell[k]
<1>1. MoveDptr
  BY DispatchMore DEF Op
<1>2. cell' = [cell EXCEPT !["DPH"] = Hi(w), !["DPL"] = Lo(w)] /\ dev' = dev /\ Onwards /\ psw' = psw
  BY <1>1 DEF MoveDptr, Op, Onwards
<1>3. Hi(w) \in Byte /\ Lo(w) \in Byte
  BY HalvesOfWord
<1>4. \A k \in Used : k \in Cell
  BY Plain
<1>. QED
  BY <1>2, <1>3, <1>4 DEF Machine

(* MUL AB of two bytes whose product is a byte leaves it in A and 0 in B. *)
LEMMA Multiplies ==
  ASSUME Machine, Step, Insn = <<"mul">>, A * cell["B"] \in Byte
  PROVE /\ Machine' /\ Onwards /\ UNCHANGED dev
        /\ \A k \in Used : (cell[k])' = IF k = "A" THEN A * cell["B"] ELSE IF k = "B" THEN 0 ELSE cell[k]
<1>. DEFINE p == A * cell["B"]
<1>1. Multiply
  BY DispatchMore DEF Op
<1>2. cell' = [cell EXCEPT !["A"] = p % 256, !["B"] = p \div 256] /\ dev' = dev /\ Onwards
  BY <1>1 DEF Multiply, Mul, Onwards
<1>. p \in Byte
  OBVIOUS
<1>. HIDE DEF p
<1>3. p % 256 = p /\ p \div 256 = 0 /\ 0 \in Byte
  BY ByteRange, SMT
<1>4. \A k \in Used : k \in Cell
  BY Plain
<1>5. Machine' /\ \A k \in Used : (cell[k])' = IF k = "A" THEN p ELSE IF k = "B" THEN 0 ELSE cell[k]
  BY <1>2, <1>3, <1>4, ZenonT(60) DEF Machine
<1>. QED
  BY <1>2, <1>5 DEF p

LEMMA Pushes ==
  ASSUME Machine, Step, NEW n \in Used, Insn = <<"push", n>>
  PROVE pc' = After /\ stack' = Append(stack, cell[n]) /\ UNCHANGED <<cell, psw, rom, dev>>
<1>1. Push
  BY DispatchMore DEF Op
<1>. QED
  BY <1>1, Plain DEF Push, Op

LEMMA Pops ==
  ASSUME Machine, Step, NEW n \in Used, Insn = <<"pop", n>>, Last(stack) \in Byte
  PROVE /\ pc' = After /\ stack' = Front(stack) /\ UNCHANGED <<psw, rom, dev>> /\ Machine'
        /\ \A k \in Used : (cell[k])' = IF k = n THEN Last(stack) ELSE cell[k]
<1>1. Pop
  BY DispatchMore DEF Op
<1>2. cell' = [cell EXCEPT ![n] = Last(stack)] /\ dev' = dev
  BY <1>1, Plain DEF Pop, Op, Write
<1>3. \A k \in Used : k \in Cell
  BY Plain
<1>. QED
  BY <1>1, <1>2, <1>3 DEF Pop, Machine

LEMMA ToPort ==
  ASSUME Machine, Step, NEW n \in IndaccFile, NEW m \in Used, Insn = <<"movx", n, m>>
  PROVE /\ Machine' /\ Onwards /\ UNCHANGED <<cell, psw>>
        /\ dev' = [dev EXCEPT !.sfr[n] = cell[m]]
<1>1. Move
  BY Dispatch DEF Op
<1>2. BoardPut(dev, n, cell[m]) = [dev EXCEPT !.sfr[n] = cell[m]]
  BY NotHooked DEF BoardPut, Put, Machine, IndaccFile, PedmaFile
<1>3. dev' = [dev EXCEPT !.sfr[n] = cell[m]] /\ UNCHANGED <<cell, psw>> /\ Onwards
  BY <1>1, <1>2, Plain, OfPort DEF Move, Op, Write, Onwards
<1>4. cell[m] \in Byte
  BY Plain
<1>. QED
  BY <1>3, <1>4 DEF Machine, Switch

-----------------------------------------------------------------------------
(* The 54 instructions of phyocp_reg_addr, which Hello puts together from pieces. *)

PhyList == <<
  <<"movx", "R6", "DPH">>, <<"movx", "R5", "DPL">>, <<"mov_dptr", 7445>>, <<"call", "reg_read">>,
  <<"movx", "A", "INDACC_RDATA_H">>, <<"movx", "INDACC_WDATA_H", "A">>,
  <<"movx", "A", "INDACC_RDATA_L">>, <<"anli", 192>>, <<"movx", "B", "A">>,
  <<"movx", "A", "R6">>, <<"rr">>, <<"rr">>, <<"anli", 63>>, <<"orlx", "B">>,
  <<"movx", "INDACC_WDATA_L", "A">>, <<"call", "reg_write">>, <<"mov_dptr", 8192>>,
  <<"movx", "A", "R7">>, <<"movi", "B", 32>>, <<"mul">>, <<"push", "B">>,
  <<"movx", "B", "A">>, <<"movx", "A", "DPL">>, <<"addx", "B">>, <<"movx", "DPL", "A">>,
  <<"movx", "A", "DPH">>, <<"pop", "B">>, <<"addcx", "B">>, <<"movx", "DPH", "A">>,
  <<"movx", "B", "DPL">>, <<"movx", "A", "R5">>, <<"rrc">>, <<"anli", 31>>, <<"addx", "B">>,
  <<"movx", "DPL", "A">>, <<"movx", "A", "DPH">>, <<"addci", 0>>, <<"movx", "DPH", "A">>,
  <<"movx", "A", "R6">>, <<"rrc">>, <<"movx", "R6", "A">>,
  <<"movx", "A", "R5">>, <<"rrc">>, <<"movx", "R5", "A">>,
  <<"movx", "A", "R6">>, <<"rrc">>, <<"movx", "R6", "A">>,
  <<"movx", "A", "R5">>, <<"rrc">>, <<"swap">>, <<"anli", 15>>, <<"addx", "DPH">>,
  <<"movx", "DPH", "A">>, <<"ret">> >>

(* A sequence that is a piece of the program, from place m + 1 to n. *)
Listed == {PhyList[i] : i \in 1..54}
Begins(s, n) == s \in Seq(Listed) /\ Len(s) = n /\ \A i \in 1..n : s[i] = PhyList[i]
Follows(t, m, n) == t \in Seq(Listed) /\ Len(t) = n - m /\ \A j \in 1..(n - m) : t[j] = PhyList[m + j]
LEMMA Concat ==
  ASSUME NEW S, NEW s \in Seq(S), NEW t \in Seq(S)
  PROVE /\ s \o t \in Seq(S) /\ Len(s \o t) = Len(s) + Len(t)
        /\ \A i \in 1..(Len(s) + Len(t)) : (s \o t)[i] = IF i <= Len(s) THEN s[i] ELSE t[i - Len(s)]
  OBVIOUS
LEMMA Extends ==
  ASSUME NEW s, NEW t, NEW m \in Nat, NEW n \in Nat, Begins(s, m), Follows(t, m, n)
  PROVE Begins(s \o t, n)
<1>1. s \in Seq(Listed) /\ t \in Seq(Listed) /\ Len(s) = m /\ Len(t) = n - m
  BY DEF Begins, Follows
<1>2. /\ s \o t \in Seq(Listed) /\ Len(s \o t) = m + (n - m)
      /\ \A i \in 1..(m + (n - m)) : (s \o t)[i] = IF i <= m THEN s[i] ELSE t[i - m]
  BY <1>1, Concat, SMT
<1>3. m + (n - m) = n
  BY SMT
<1>4. ASSUME NEW i \in 1..n PROVE (s \o t)[i] = PhyList[i]
  <2>1. CASE i <= m
    BY <1>2, <1>3, <2>1 DEF Begins
  <2>2. CASE ~(i <= m)
    <3>1. i - m \in 1..(n - m) /\ m + (i - m) = i
      BY <2>2, SMT
    <3>. QED
      BY <1>2, <1>3, <2>2, <3>1 DEF Follows
  <2>. QED
    BY <2>1, <2>2
<1>. QED
  BY <1>2, <1>3, <1>4 DEF Begins

LEMMA PhyCode == PhyOcp["phyocp_reg_addr"].then = "none" /\ Begins(PhyOcp["phyocp_reg_addr"].code, 54)
<1>. DEFINE t0 == PrefixRead
            t1 == KeptBits
            t2 == PrefixWrite
            t3 == AddPort
            t4 == << <<"movx", "B", "DPL">> >>
            t5 == Shift("R5")
            t6 == AddLow
            t7 == Shift("R6")
            t8 == << <<"movx", "R6", "A">> >>
            t9 == Shift("R5")
            t10 == << <<"movx", "R5", "A">> >>
            t11 == Shift("R6")
            t12 == << <<"movx", "R6", "A">> >>
            t13 == Shift("R5")
            t14 == AddMiddle
            q1 == t0 \o t1
            q2 == q1 \o t2
            q3 == q2 \o t3
            q4 == q3 \o t4
            q5 == q4 \o t5
            q6 == q5 \o t6
            q7 == q6 \o t7
            q8 == q7 \o t8
            q9 == q8 \o t9
            q10 == q9 \o t10
            q11 == q10 \o t11
            q12 == q11 \o t12
            q13 == q12 \o t13
            q14 == q13 \o t14
<1>0. t0 = <<PhyList[1], PhyList[2], PhyList[3], PhyList[4], PhyList[5], PhyList[6]>>
  BY DEF PhyList, PrefixRead
<1>1. t1 = <<PhyList[7], PhyList[8], PhyList[9]>>
  BY DEF PhyList, KeptBits
<1>2. t2 = <<PhyList[10], PhyList[11], PhyList[12], PhyList[13], PhyList[14], PhyList[15],
      PhyList[16], PhyList[17]>>
  BY DEF PhyList, PrefixWrite
<1>3. t3 = <<PhyList[18], PhyList[19], PhyList[20], PhyList[21], PhyList[22], PhyList[23],
      PhyList[24], PhyList[25], PhyList[26], PhyList[27], PhyList[28], PhyList[29]>>
  BY DEF PhyList, AddPort
<1>4. t4 = <<PhyList[30]>>
  BY DEF PhyList
<1>5. t5 = <<PhyList[31], PhyList[32]>>
  BY DEF PhyList, Shift
<1>6. t6 = <<PhyList[33], PhyList[34], PhyList[35], PhyList[36], PhyList[37], PhyList[38]>>
  BY DEF PhyList, AddLow
<1>7. t7 = <<PhyList[39], PhyList[40]>>
  BY DEF PhyList, Shift
<1>8. t8 = <<PhyList[41]>>
  BY DEF PhyList
<1>9. t9 = <<PhyList[42], PhyList[43]>>
  BY DEF PhyList, Shift
<1>10. t10 = <<PhyList[44]>>
  BY DEF PhyList
<1>11. t11 = <<PhyList[45], PhyList[46]>>
  BY DEF PhyList, Shift
<1>12. t12 = <<PhyList[47]>>
  BY DEF PhyList
<1>13. t13 = <<PhyList[48], PhyList[49]>>
  BY DEF PhyList, Shift
<1>14. t14 = <<PhyList[50], PhyList[51], PhyList[52], PhyList[53], PhyList[54]>>
  BY DEF PhyList, AddMiddle
<1>19. PhyOcp = [phyocp_reg_addr |-> Closed(q14)]
  BY DEF PhyOcp
<1>. HIDE DEF t0, t1, t2, t3, t4, t5, t6, t7, t8, t9, t10, t11, t12, t13, t14, q1, q2, q3, q4, q5,
      q6, q7, q8, q9, q10, q11, q12, q13, q14
<1>20. PhyOcp["phyocp_reg_addr"].code = q14 /\ PhyOcp["phyocp_reg_addr"].then = "none"
  BY <1>19 DEF Closed, Block
<1>21. \A i \in 1..54 : PhyList[i] \in Listed
  BY DEF Listed
<1>30. Begins(t0, 6)
  BY <1>0, <1>21, SMT DEF Begins
<1>31. Begins(q1, 9)
  <2>1. Follows(t1, 6, 9)
    BY <1>1, <1>21, SMT DEF Follows
  <2>. QED
    BY <1>30, <2>1, Extends DEF q1
<1>32. Begins(q2, 17)
  <2>1. Follows(t2, 9, 17)
    BY <1>2, <1>21, SMT DEF Follows
  <2>. QED
    BY <1>31, <2>1, Extends DEF q2
<1>33. Begins(q3, 29)
  <2>1. Follows(t3, 17, 29)
    BY <1>3, <1>21, SMT DEF Follows
  <2>. QED
    BY <1>32, <2>1, Extends DEF q3
<1>34. Begins(q4, 30)
  <2>1. Follows(t4, 29, 30)
    BY <1>4, <1>21, SMT DEF Follows
  <2>. QED
    BY <1>33, <2>1, Extends DEF q4
<1>35. Begins(q5, 32)
  <2>1. Follows(t5, 30, 32)
    BY <1>5, <1>21, SMT DEF Follows
  <2>. QED
    BY <1>34, <2>1, Extends DEF q5
<1>36. Begins(q6, 38)
  <2>1. Follows(t6, 32, 38)
    BY <1>6, <1>21, SMT DEF Follows
  <2>. QED
    BY <1>35, <2>1, Extends DEF q6
<1>37. Begins(q7, 40)
  <2>1. Follows(t7, 38, 40)
    BY <1>7, <1>21, SMT DEF Follows
  <2>. QED
    BY <1>36, <2>1, Extends DEF q7
<1>38. Begins(q8, 41)
  <2>1. Follows(t8, 40, 41)
    BY <1>8, <1>21, SMT DEF Follows
  <2>. QED
    BY <1>37, <2>1, Extends DEF q8
<1>39. Begins(q9, 43)
  <2>1. Follows(t9, 41, 43)
    BY <1>9, <1>21, SMT DEF Follows
  <2>. QED
    BY <1>38, <2>1, Extends DEF q9
<1>40. Begins(q10, 44)
  <2>1. Follows(t10, 43, 44)
    BY <1>10, <1>21, SMT DEF Follows
  <2>. QED
    BY <1>39, <2>1, Extends DEF q10
<1>41. Begins(q11, 46)
  <2>1. Follows(t11, 44, 46)
    BY <1>11, <1>21, SMT DEF Follows
  <2>. QED
    BY <1>40, <2>1, Extends DEF q11
<1>42. Begins(q12, 47)
  <2>1. Follows(t12, 46, 47)
    BY <1>12, <1>21, SMT DEF Follows
  <2>. QED
    BY <1>41, <2>1, Extends DEF q12
<1>43. Begins(q13, 49)
  <2>1. Follows(t13, 47, 49)
    BY <1>13, <1>21, SMT DEF Follows
  <2>. QED
    BY <1>42, <2>1, Extends DEF q13
<1>44. Begins(q14, 54)
  <2>1. Follows(t14, 49, 54)
    BY <1>14, <1>21, SMT DEF Follows
  <2>. QED
    BY <1>43, <2>1, Extends DEF q14
<1>. QED
  BY <1>20, <1>44

-----------------------------------------------------------------------------
(* A call of phyocp_reg_addr: the PHY address and the port, the registers and
   the log before it, and the stack it returns to. *)
Asks(c) ==
  /\ c.addr \in PhyAddress /\ c.port \in 0..7
  /\ DOMAIN c.regs \subseteq Word /\ c.regs \in [DOMAIN c.regs -> Word]
  /\ c.log \in Seq(Word \X Word) /\ \E S : c.back \in Seq(S)

AddrHigh(c) == Hi(c.addr)
AddrLow(c) == Lo(c.addr)
Row(c) == 32 * c.port
Old(c) == IF 7445 \in DOMAIN c.regs THEN c.regs[7445] ELSE Absent
Kept(c) == 64 * (Lo(Old(c)) \div 64)
NewLow(c) == Kept(c) + AddrHigh(c) \div 4
Prefixed(c) == Pair(Hi(Old(c)), NewLow(c))

(* The address in the window: bits 9 to 6 of the PHY address and bits 5 to 1. *)
Middle(c) == (c.addr \div 64) % 16
Bottom(c) == (c.addr \div 2) % 32
(* The address, shifted right by one and by two, as R5 and A hold it. *)
Half(c) == AddrLow(c) \div 2 + 128 * (AddrHigh(c) % 2)
Quarter(c) == Half(c) \div 2 + 128 * ((AddrHigh(c) \div 2) % 2)

(* The halves of the address and of the old prefix are bytes. *)
LEMMA Fields ==
  ASSUME NEW c, Asks(c)
  PROVE /\ AddrHigh(c) \in Byte /\ AddrLow(c) \in Byte /\ c.addr \in Word
        /\ Pair(AddrHigh(c), AddrLow(c)) = c.addr /\ c.addr % 2 = 0
        /\ Old(c) \in Word /\ Hi(Old(c)) \in Byte /\ Lo(Old(c)) \in Byte
        /\ Row(c) \in Byte /\ c.port \in Byte
<1>1. c.addr \in Word /\ c.addr % 2 = 0
  BY DEF Asks, PhyAddress
<1>2. Old(c) \in Word
  <2>1. Absent \in Word
    BY WordRange, SMT DEF Absent
  <2>. QED
    BY <2>1 DEF Old, Asks
<1>3. Row(c) \in Byte /\ c.port \in Byte
  <2>1. c.port \in 0..7
    BY DEF Asks
  <2>. QED
    BY <2>1, ByteRange, SMT DEF Row
<1>. QED
  BY <1>1, <1>2, <1>3, HalvesOfWord DEF AddrHigh, AddrLow

(* ANL with a mask of low or high bits. *)
LEMMA AndMasks ==
  ASSUME NEW x \in Byte
  PROVE /\ BitAnd(x, 192) = 64 * (x \div 64) /\ BitAnd(x, 63) = x % 64
        /\ BitAnd(x, 31) = x % 32 /\ BitAnd(x, 15) = x % 16
<1>. DEFINE b(y, p) == IF (x \div p) % 2 = 1 /\ (y \div p) % 2 = 1 THEN p ELSE 0
            d(p) == IF (x \div p) % 2 = 1 THEN p ELSE 0
<1>1. \A y : BitAnd(x, y) = b(y, 1) + b(y, 2) + b(y, 4) + b(y, 8) + b(y, 16) + b(y, 32) + b(y,
      64) + b(y, 128)
  BY AndOfBytes DEF b
<1>2. BitAnd(x, 192) = 0 + 0 + 0 + 0 + 0 + 0 + d(64) + d(128)
  BY <1>1, SMT
<1>3. BitAnd(x, 63) = d(1) + d(2) + d(4) + d(8) + d(16) + d(32) + 0 + 0
  BY <1>1, SMT
<1>4. BitAnd(x, 31) = d(1) + d(2) + d(4) + d(8) + d(16) + 0 + 0 + 0
  BY <1>1, SMT
<1>5. BitAnd(x, 15) = d(1) + d(2) + d(4) + d(8) + 0 + 0 + 0 + 0
  BY <1>1, SMT
<1>. QED
  BY <1>2, <1>3, <1>4, <1>5, SMTT(60) DEF Byte

(* The prefix goes below bits that stay. *)
LEMMA OrDisjoint ==
  ASSUME NEW x \in Byte, NEW y \in Byte, x < 64, y % 64 = 0
  PROVE BitOr(x, y) = x + y
<1>. DEFINE b(p) == IF (x \div p) % 2 = 1 /\ (y \div p) % 2 = 1 THEN p ELSE 0
<1>1. BitAnd(x, y) = b(1) + b(2) + b(4) + b(8) + b(16) + b(32) + b(64) + b(128)
  BY AndOfBytes DEF b
<1>2. b(1) = 0 /\ b(2) = 0 /\ b(4) = 0 /\ b(8) = 0 /\ b(16) = 0 /\ b(32) = 0
  BY SMTT(60) DEF Byte
<1>3. b(64) = 0 /\ b(128) = 0
  BY SMTT(60) DEF Byte
<1>. QED
  BY <1>1, <1>2, <1>3, SMT DEF BitOr, Byte

(* What the rotations of the halves make of the address. *)
LEMMA Rotated ==
  ASSUME NEW h \in Byte
  PROVE LET r == h \div 2 + 128 * (h % 2)
        IN  r \in Byte /\ (r \div 2 + 128 * (r % 2)) % 64 = h \div 4
  BY SMTT(60) DEF Byte

(* What the sums and shifts of the routine come to; nothing overflows. *)
LEMMA Sums ==
  ASSUME NEW c, Asks(c)
  PROVE /\ Kept(c) \in Byte /\ Kept(c) % 64 = 0 /\ AddrHigh(c) \div 4 \in Byte /\ AddrHigh(c) \div 4 < 64
        /\ NewLow(c) \in Byte
        /\ Bottom(c) \in 0..31 /\ Middle(c) \in 0..15
        /\ Half(c) \in Byte /\ Quarter(c) \in Byte
        /\ Row(c) + Bottom(c) \in Byte
        /\ (Quarter(c) \div 16 + 16 * (Quarter(c) % 16)) % 16 = Middle(c)
        /\ \A k \in {0, 1} : (AddrLow(c) \div 2 + 128 * k) % 32 = Bottom(c)
<1>1. /\ AddrHigh(c) \in Byte /\ AddrLow(c) \in Byte /\ c.addr = Pair(AddrHigh(c),
                AddrLow(c)) /\ Lo(Old(c)) \in Byte
      /\ c.addr \in Word
  BY Fields
<1>2. /\ Half(c) \in Byte /\ Quarter(c) \in Byte
      /\ (Quarter(c) \div 16 + 16 * (Quarter(c) % 16)) % 16 = Middle(c)
      /\ \A k \in {0, 1} : (AddrLow(c) \div 2 + 128 * k) % 32 = Bottom(c)
  <2>. DEFINE h == AddrHigh(c)
              l == AddrLow(c)
              a == c.addr
              x == Half(c)
              y == Quarter(c)
  <2>1. h \in Byte /\ l \in Byte /\ a = Pair(h, l)
    BY <1>1
  <2>2. /\ x = l \div 2 + 128 * (h % 2) /\ y = x \div 2 + 128 * ((h \div 2) % 2)
        /\ Middle(c) = (a \div 64) % 16 /\ Bottom(c) = (a \div 2) % 32
    BY DEF Half, Quarter, Middle, Bottom
  <2>. HIDE DEF h, l, a, x, y
  <2>a. /\ h \in Int /\ 0 <= h /\ h <= 255 /\ l \in Int /\ 0 <= l /\ l <= 255
        /\ a = 256 * h + l
    BY <2>1, ByteRange DEF Pair
  <2>b. \A k \in {0, 1} : (l \div 2 + 128 * k) % 32 = (a \div 2) % 32
    BY <2>a, SMTT(60)
  <2>c. x \in Int /\ 0 <= x /\ x <= 255 /\ x = (a \div 2) % 256
    BY <2>a, <2>2, SMTT(60)
  <2>d. y \in Int /\ 0 <= y /\ y <= 255 /\ y = (a \div 4) % 256
    BY <2>a, <2>2, <2>c, SMTT(60)
  <2>3. x \in Byte /\ y \in Byte /\ (y \div 16 + 16 * (y % 16)) % 16 = (a \div 64) % 16
    <3>1. (y \div 16 + 16 * (y % 16)) % 16 = (a \div 64) % 16
      BY <2>a, <2>d, SMTT(60)
    <3>. QED
      BY <3>1, <2>c, <2>d, ByteRange
  <2>4. /\ x \in Byte /\ y \in Byte /\ (y \div 16 + 16 * (y % 16)) % 16 = Middle(c)
        /\ \A k \in {0, 1} : (l \div 2 + 128 * k) % 32 = Bottom(c)
    BY <2>2, <2>3, <2>b
  <2>. QED
    BY <2>4 DEF l, x, y
<1>3. \A x \in Byte : /\ 64 * (x \div 64) \in Byte /\ (64 * (x \div 64)) % 64 = 0
                      /\ x \div 4 \in Byte /\ x \div 4 < 64
                      /\ \A y \in Byte : 64 * (x \div 64) + y \div 4 \in Byte
  BY ByteRange, SMTT(30)
<1>4. \A w \in Word : (w \div 2) % 32 \in 0..31 /\ (w \div 64) % 16 \in 0..15
  BY WordRange, SMT
<1>5. Row(c) + Bottom(c) \in Byte
  <2>1. c.port \in 0..7 /\ Bottom(c) \in 0..31
    BY <1>1, <1>4 DEF Asks, Bottom
  <2>2. \A p \in 0..7, b \in 0..31 : 32 * p + b \in Int /\ 0 <= 32 * p + b /\ 32 * p + b <= 255
    BY SMT
  <2>. QED
    BY <2>1, <2>2, ByteRange DEF Row
<1>6. Kept(c) \in Byte /\ Kept(c) % 64 = 0 /\ AddrHigh(c) \div 4 \in Byte /\ AddrHigh(c) \div 4 < 64 /\ NewLow(c) \in Byte
  BY <1>1, <1>3 DEF Kept, NewLow
<1>. QED
  BY <1>1, <1>2, <1>4, <1>5, <1>6 DEF Bottom, Middle

(* What the cells, the port and the registers hold at point i of the routine. *)
Values(c, i) ==
  /\ cell["R7"] = c.port
  /\ i <= 16 => dev.regs = c.regs /\ dev.log = c.log
  /\ i > 16 => /\ dev.regs = Assign(c.regs, 7445, Prefixed(c))
               /\ dev.log = Append(c.log, <<7445, Prefixed(c)>>)
  /\ i = 1 => cell["DPH"] = AddrHigh(c)
  /\ i \in 1..2 => cell["DPL"] = AddrLow(c)
  /\ i \in 2..41 => cell["R6"] = AddrHigh(c)
  /\ i \in 3..44 => cell["R5"] = AddrLow(c)
  /\ i \in 4..17 => cell["DPH"] = 29 /\ cell["DPL"] = 21
  /\ i \in 5..7 => dev.sfr["INDACC_RDATA_H"] = Hi(Old(c)) /\ dev.sfr["INDACC_RDATA_L"] = Lo(Old(c))
  /\ i = 6 => cell["A"] = Hi(Old(c))
  /\ i \in 7..16 => dev.sfr["INDACC_WDATA_H"] = Hi(Old(c))
  /\ i = 8 => cell["A"] = Lo(Old(c))
  /\ i = 9 => cell["A"] = Kept(c)
  /\ i \in 10..14 => cell["B"] = Kept(c)
  /\ i = 11 => cell["A"] = AddrHigh(c)
  /\ i = 12 => cell["A"] = AddrHigh(c) \div 2 + 128 * (AddrHigh(c) % 2)
  /\ i = 13 => cell["A"] \in Byte /\ cell["A"] % 64 = AddrHigh(c) \div 4
  /\ i = 14 => cell["A"] = AddrHigh(c) \div 4
  /\ i = 15 => cell["A"] = NewLow(c)
  /\ i = 16 => dev.sfr["INDACC_WDATA_L"] = NewLow(c)
  /\ i \in 18..53 => cell["DPH"] = 32
  /\ i \in 18..25 => cell["DPL"] = 0
  /\ i \in 19..20 => cell["A"] = c.port
  /\ i = 20 => cell["B"] = 32
  /\ i \in 21..22 => cell["A"] = Row(c)
  /\ i = 21 => cell["B"] = 0
  /\ i \in 23..24 => cell["B"] = Row(c)
  /\ i = 24 => cell["A"] = 0
  /\ i = 25 => cell["A"] = Row(c)
  /\ i \in 25..28 => Carry(psw) = 0
  /\ i \in 26..35 => cell["DPL"] = Row(c)
  /\ i \in 27..29 => cell["A"] = 32
  /\ i = 28 => cell["B"] = 0
  /\ i \in 31..34 => cell["B"] = Row(c)
  /\ i = 32 => cell["A"] = AddrLow(c)
  /\ i = 33 => cell["A"] \in Byte /\ cell["A"] % 32 = Bottom(c)
  /\ i = 34 => cell["A"] = Bottom(c)
  /\ i = 35 => cell["A"] = Row(c) + Bottom(c)
  /\ i \in 35..40 => Carry(psw) = 0
  /\ i \in 36..54 => cell["DPL"] = Row(c) + Bottom(c)
  /\ i \in 37..38 => cell["A"] = 32
  /\ i = 40 => cell["A"] = AddrHigh(c)
  /\ i = 41 => cell["A"] = AddrHigh(c) \div 2
  /\ i \in 41..43 => Carry(psw) = AddrHigh(c) % 2
  /\ i \in 42..47 => cell["R6"] = AddrHigh(c) \div 2
  /\ i = 43 => cell["A"] = AddrLow(c)
  /\ i = 44 => cell["A"] = Half(c)
  /\ i \in 45..49 => cell["R5"] = Half(c)
  /\ i = 46 => cell["A"] = AddrHigh(c) \div 2
  /\ i \in 47..49 => Carry(psw) = (AddrHigh(c) \div 2) % 2
  /\ i = 49 => cell["A"] = Half(c)
  /\ i = 50 => cell["A"] = Quarter(c)
  /\ i = 51 => cell["A"] \in Byte /\ cell["A"] % 16 = Middle(c)
  /\ i = 52 => cell["A"] = Middle(c)
  /\ i = 53 => cell["A"] = 32 + Middle(c)
  /\ i = 54 => cell["DPH"] = 32 + Middle(c)

-----------------------------------------------------------------------------
(* Its straight-line stretches, point by point. *)

LEMMA PhyInsn ==
  ASSUME NEW i \in 1..54, pc = <<"phyocp_reg_addr", i>>
  PROVE Insn = PhyList[i] /\ (i < 54 => After = <<"phyocp_reg_addr", i + 1>>)
<1>1. Code["phyocp_reg_addr"] = PhyOcp["phyocp_reg_addr"]
  BY AddressProgramAssumption DEF PhyOcp
<1>2. pc[1] = "phyocp_reg_addr" /\ pc[2] = i
  OBVIOUS
<1>3. Code["phyocp_reg_addr"].code[i] = PhyList[i] /\ Len(Code["phyocp_reg_addr"].code) = 54
  BY <1>1, PhyCode, Zenon DEF Begins
<1>. QED
  BY <1>2, <1>3 DEF Insn, After

(* A step at point i, and what it must lead to. *)
At(c, i) == Asks(c) /\ Machine /\ Step /\ pc = <<"phyocp_reg_addr", i>> /\ Values(c, i)
Moves(c, i) == Machine' /\ pc' = <<"phyocp_reg_addr", i + 1>> /\ UNCHANGED rom /\ Values(c, i + 1)'

(* What a cell step leaves of the device, and of the flags. *)
LEMMA OneCell ==
  ASSUME NEW c, NEW i \in 1..53, At(c, i), Onwards
  PROVE pc' = <<"phyocp_reg_addr", i + 1>> /\ UNCHANGED <<rom, stack>>
  BY PhyInsn DEF At, Onwards

LEMMA Merged ==
  ASSUME NEW c, Asks(c)
  PROVE /\ BitOr(AddrHigh(c) \div 4, Kept(c)) = NewLow(c)
        /\ \A k \in {0, 1} : AddrLow(c) \div 2 + 128 * k \in Byte
        /\ (Bottom(c) + Row(c) + 0) % 256 = Row(c) + Bottom(c) /\ ~(Bottom(c) + Row(c) + 0 > 255)
        /\ Quarter(c) \div 16 + 16 * (Quarter(c) % 16) \in Byte
        /\ (Middle(c) + 32 + 0) % 256 = 32 + Middle(c)
        /\ (0 + Row(c) + 0) % 256 = Row(c) /\ ~(0 + Row(c) + 0 > 255)
        /\ c.port * 32 = Row(c)
<1>1. BitOr(AddrHigh(c) \div 4, Kept(c)) = NewLow(c)
  <2>1. BitOr(AddrHigh(c) \div 4, Kept(c)) = AddrHigh(c) \div 4 + Kept(c)
    BY Sums, OrDisjoint
  <2>. QED
    BY <2>1, Sums, ByteRange, SMT DEF NewLow
<1>2. \A k \in {0, 1} : AddrLow(c) \div 2 + 128 * k \in Byte
  BY Fields, ByteRange, SMT
<1>3. (Bottom(c) + Row(c) + 0) % 256 = Row(c) + Bottom(c) /\ ~(Bottom(c) + Row(c) + 0 > 255)
  BY Sums, Fields, ByteRange, SMT
<1>4. Quarter(c) \div 16 + 16 * (Quarter(c) % 16) \in Byte
  BY Sums, ByteRange, SMT
<1>5. (Middle(c) + 32 + 0) % 256 = 32 + Middle(c)
  BY Sums, SMT
<1>6. (0 + Row(c) + 0) % 256 = Row(c) /\ ~(0 + Row(c) + 0 > 255)
  BY Fields, ByteRange, SMT
<1>7. c.port * 32 = Row(c)
  BY Fields, ByteRange, SMT DEF Row
<1>. QED
  BY <1>1, <1>2, <1>3, <1>4, <1>5, <1>6, <1>7

LEMMA CarryBit == Carry(psw) \in {0, 1}
  BY DEF Carry

(* hello.s:329: the address goes to R6 and R5. *)
LEMMA Saves ==
  ASSUME NEW c, NEW i \in 1..3, At(c, i)
  PROVE Moves(c, i) /\ UNCHANGED stack
<1>1. CASE i = 1
  <2>1. Insn = <<"movx", "R6", "DPH">> /\ Machine /\ Step /\ Asks(c) /\ Values(c, i)
    BY <1>1, PhyInsn DEF At, PhyList
  <2>2. Gives("R6", cell["DPH"]) /\ psw' = psw
    BY <2>1, Copies DEF Gives, Used
  <2>4. Values(c, i + 1)'
    BY <1>1, <2>1, <2>2, Fields, Sums DEF Values, Gives, Used
  <2>. QED
    BY <2>2, <2>4, OneCell DEF Moves, Gives
<1>2. CASE i = 2
  <2>1. Insn = <<"movx", "R5", "DPL">> /\ Machine /\ Step /\ Asks(c) /\ Values(c, i)
    BY <1>2, PhyInsn DEF At, PhyList
  <2>2. Gives("R5", cell["DPL"]) /\ psw' = psw
    BY <2>1, Copies DEF Gives, Used
  <2>4. Values(c, i + 1)'
    BY <1>2, <2>1, <2>2, Fields, Sums DEF Values, Gives, Used
  <2>. QED
    BY <2>2, <2>4, OneCell DEF Moves, Gives
<1>3. CASE i = 3
  <2>1. Insn = <<"mov_dptr", 7445>> /\ Machine /\ Step /\ Asks(c) /\ Values(c, i)
    BY <1>3, PhyInsn DEF At, PhyList
  <2>0. 7445 \in Word /\ Hi(7445) = 29 /\ Lo(7445) = 21
    BY WordRange, SMT DEF Hi, Lo
  <2>2. /\ Machine' /\ Onwards /\ UNCHANGED <<dev, psw>>
          /\ \A k \in Used : (cell[k])' = IF k = "DPH" THEN 29 ELSE IF k = "DPL" THEN 21 ELSE cell[k]
    BY <2>1, <2>0, LoadsDptr
  <2>4. Values(c, i + 1)'
    BY <1>3, <2>1, <2>2 DEF Values, Used
  <2>. QED
    BY <2>2, <2>4, OneCell DEF Moves
<1>. QED
  BY <1>1, <1>2, <1>3
(* hello.s:337: bits 15 to 10 below the two bits of 0x1d15 that stay. *)
LEMMA PrefixBits ==
  ASSUME NEW c, NEW i \in 5..15, At(c, i)
  PROVE Moves(c, i) /\ UNCHANGED stack
<1>5. CASE i = 5
  <2>1. Insn = <<"movx", "A", "INDACC_RDATA_H">> /\ Machine /\ Step /\ Asks(c) /\ Values(c, i)
    BY <1>5, PhyInsn DEF At, PhyList
  <2>2. Gives("A", dev.sfr["INDACC_RDATA_H"]) /\ psw' = psw
    BY <2>1, FromPort DEF Gives, Used, IndaccFile
  <2>4. Values(c, i + 1)'
    BY <1>5, <2>1, <2>2, Fields, Sums DEF Values, Gives, Used
  <2>. QED
    BY <2>2, <2>4, OneCell DEF Moves, Gives
<1>6. CASE i = 6
  <2>1. Insn = <<"movx", "INDACC_WDATA_H", "A">> /\ Machine /\ Step /\ Asks(c) /\ Values(c, i)
    BY <1>6, PhyInsn DEF At, PhyList
  <2>0. "INDACC_WDATA_H" \in IndaccFile /\ "A" \in Used
    BY DEF IndaccFile, Used
  <2>2. Machine' /\ Onwards /\ UNCHANGED <<cell,
        psw>> /\ dev' = [dev EXCEPT !.sfr["INDACC_WDATA_H"] = cell["A"]]
    BY <2>1, <2>0, ToPort
  <2>4. Values(c, i + 1)'
    BY <1>6, <2>1, <2>2 DEF Values, Machine, Switch, IndaccFile
  <2>. QED
    BY <2>2, <2>4, OneCell DEF Moves
<1>7. CASE i = 7
  <2>1. Insn = <<"movx", "A", "INDACC_RDATA_L">> /\ Machine /\ Step /\ Asks(c) /\ Values(c, i)
    BY <1>7, PhyInsn DEF At, PhyList
  <2>2. Gives("A", dev.sfr["INDACC_RDATA_L"]) /\ psw' = psw
    BY <2>1, FromPort DEF Gives, Used, IndaccFile
  <2>4. Values(c, i + 1)'
    BY <1>7, <2>1, <2>2, Fields, Sums DEF Values, Gives, Used
  <2>. QED
    BY <2>2, <2>4, OneCell DEF Moves, Gives
<1>8. CASE i = 8
  <2>1. Insn = <<"anli", 192>> /\ Machine /\ Step /\ Asks(c) /\ Values(c, i)
    BY <1>8, PhyInsn DEF At, PhyList
  <2>2. Gives("A", BitAnd(cell["A"], 192)) /\ psw' = psw
    BY <2>1, Masks, ByteRange DEF Gives, A
  <2>3. BitAnd(cell["A"], 192) = Kept(c)
    BY <1>8, <2>1, AndMasks, Fields DEF Values, Kept
  <2>4. Values(c, i + 1)'
    BY <1>8, <2>1, <2>2, <2>3 DEF Values, Gives, Used
  <2>. QED
    BY <2>2, <2>4, OneCell DEF Moves, Gives
<1>9. CASE i = 9
  <2>1. Insn = <<"movx", "B", "A">> /\ Machine /\ Step /\ Asks(c) /\ Values(c, i)
    BY <1>9, PhyInsn DEF At, PhyList
  <2>2. Gives("B", cell["A"]) /\ psw' = psw
    BY <2>1, Copies DEF Gives, Used
  <2>4. Values(c, i + 1)'
    BY <1>9, <2>1, <2>2, Fields, Sums DEF Values, Gives, Used
  <2>. QED
    BY <2>2, <2>4, OneCell DEF Moves, Gives
<1>10. CASE i = 10
  <2>1. Insn = <<"movx", "A", "R6">> /\ Machine /\ Step /\ Asks(c) /\ Values(c, i)
    BY <1>10, PhyInsn DEF At, PhyList
  <2>2. Gives("A", cell["R6"]) /\ psw' = psw
    BY <2>1, Copies DEF Gives, Used
  <2>4. Values(c, i + 1)'
    BY <1>10, <2>1, <2>2, Fields, Sums DEF Values, Gives, Used
  <2>. QED
    BY <2>2, <2>4, OneCell DEF Moves, Gives
<1>11. CASE i = 11
  <2>1. Insn = <<"rr">> /\ Machine /\ Step /\ Asks(c) /\ Values(c, i)
    BY <1>11, PhyInsn DEF At, PhyList
  <2>2. Gives("A", cell["A"] \div 2 + 128 * (cell["A"] % 2)) /\ psw' = psw
    BY <2>1, Turns DEF Gives, A
  <2>4. Values(c, i + 1)'
    BY <1>11, <2>1, <2>2, Fields, Sums DEF Values, Gives, Used
  <2>. QED
    BY <2>2, <2>4, OneCell DEF Moves, Gives
<1>12. CASE i = 12
  <2>1. Insn = <<"rr">> /\ Machine /\ Step /\ Asks(c) /\ Values(c, i)
    BY <1>12, PhyInsn DEF At, PhyList
  <2>2. Gives("A", cell["A"] \div 2 + 128 * (cell["A"] % 2)) /\ psw' = psw
    BY <2>1, Turns DEF Gives, A
  <2>3. LET v == cell["A"] \div 2 + 128 * (cell["A"] % 2) IN v \in Byte /\ v % 64 = AddrHigh(c) \div 4
    BY <1>12, <2>1, Rotated, Fields DEF Values
  <2>4. Values(c, i + 1)'
    BY <1>12, <2>1, <2>2, <2>3 DEF Values, Gives, Used
  <2>. QED
    BY <2>2, <2>4, OneCell DEF Moves, Gives
<1>13. CASE i = 13
  <2>1. Insn = <<"anli", 63>> /\ Machine /\ Step /\ Asks(c) /\ Values(c, i)
    BY <1>13, PhyInsn DEF At, PhyList
  <2>2. Gives("A", BitAnd(cell["A"], 63)) /\ psw' = psw
    BY <2>1, Masks, ByteRange DEF Gives, A
  <2>3. BitAnd(cell["A"], 63) = AddrHigh(c) \div 4
    BY <1>13, <2>1, AndMasks DEF Values
  <2>4. Values(c, i + 1)'
    BY <1>13, <2>1, <2>2, <2>3 DEF Values, Gives, Used
  <2>. QED
    BY <2>2, <2>4, OneCell DEF Moves, Gives
<1>14. CASE i = 14
  <2>1. Insn = <<"orlx", "B">> /\ Machine /\ Step /\ Asks(c) /\ Values(c, i)
    BY <1>14, PhyInsn DEF At, PhyList
  <2>2. Gives("A", BitOr(cell["A"], cell["B"])) /\ psw' = psw
    BY <2>1, OrsCell DEF Gives, A, Used
  <2>3. BitOr(cell["A"], cell["B"]) = NewLow(c)
    BY <1>14, <2>1, Merged DEF Values
  <2>4. Values(c, i + 1)'
    BY <1>14, <2>1, <2>2, <2>3 DEF Values, Gives, Used
  <2>. QED
    BY <2>2, <2>4, OneCell DEF Moves, Gives
<1>15. CASE i = 15
  <2>1. Insn = <<"movx", "INDACC_WDATA_L", "A">> /\ Machine /\ Step /\ Asks(c) /\ Values(c, i)
    BY <1>15, PhyInsn DEF At, PhyList
  <2>0. "INDACC_WDATA_L" \in IndaccFile /\ "A" \in Used
    BY DEF IndaccFile, Used
  <2>2. Machine' /\ Onwards /\ UNCHANGED <<cell,
        psw>> /\ dev' = [dev EXCEPT !.sfr["INDACC_WDATA_L"] = cell["A"]]
    BY <2>1, <2>0, ToPort
  <2>4. Values(c, i + 1)'
    BY <1>15, <2>1, <2>2 DEF Values, Machine, Switch, IndaccFile
  <2>. QED
    BY <2>2, <2>4, OneCell DEF Moves
<1>. QED
  BY <1>5, <1>6, <1>7, <1>8, <1>9, <1>10, <1>11, <1>12, <1>13, <1>14, <1>15
(* hello.s:350: the window, and 32 times the port. *)
LEMMA Base ==
  ASSUME NEW c, NEW i \in 17..20, At(c, i)
  PROVE Moves(c, i) /\ UNCHANGED stack
<1>17. CASE i = 17
  <2>1. Insn = <<"mov_dptr", 8192>> /\ Machine /\ Step /\ Asks(c) /\ Values(c, i)
    BY <1>17, PhyInsn DEF At, PhyList
  <2>0. 8192 \in Word /\ Hi(8192) = 32 /\ Lo(8192) = 0
    BY WordRange, SMT DEF Hi, Lo
  <2>2. /\ Machine' /\ Onwards /\ UNCHANGED <<dev, psw>>
          /\ \A k \in Used : (cell[k])' = IF k = "DPH" THEN 32 ELSE IF k = "DPL" THEN 0 ELSE cell[k]
    BY <2>1, <2>0, LoadsDptr
  <2>4. Values(c, i + 1)'
    BY <1>17, <2>1, <2>2 DEF Values, Used
  <2>. QED
    BY <2>2, <2>4, OneCell DEF Moves
<1>18. CASE i = 18
  <2>1. Insn = <<"movx", "A", "R7">> /\ Machine /\ Step /\ Asks(c) /\ Values(c, i)
    BY <1>18, PhyInsn DEF At, PhyList
  <2>2. Gives("A", cell["R7"]) /\ psw' = psw
    BY <2>1, Copies DEF Gives, Used
  <2>4. Values(c, i + 1)'
    BY <1>18, <2>1, <2>2, Fields, Sums DEF Values, Gives, Used
  <2>. QED
    BY <2>2, <2>4, OneCell DEF Moves, Gives
<1>19. CASE i = 19
  <2>1. Insn = <<"movi", "B", 32>> /\ Machine /\ Step /\ Asks(c) /\ Values(c, i)
    BY <1>19, PhyInsn DEF At, PhyList
  <2>2. Gives("B", 32) /\ psw' = psw
    BY <2>1, Loads, ByteRange DEF Gives, Used
  <2>4. Values(c, i + 1)'
    BY <1>19, <2>1, <2>2, Fields, Sums DEF Values, Gives, Used
  <2>. QED
    BY <2>2, <2>4, OneCell DEF Moves, Gives
<1>20. CASE i = 20
  <2>1. Insn = <<"mul">> /\ Machine /\ Step /\ Asks(c) /\ Values(c, i)
    BY <1>20, PhyInsn DEF At, PhyList
  <2>0. A * cell["B"] = Row(c) /\ Row(c) \in Byte
    BY <1>20, <2>1, Merged, Fields DEF Values, A
  <2>2. /\ Machine' /\ Onwards /\ UNCHANGED dev
          /\ \A k \in Used : (cell[k])' = IF k = "A" THEN Row(c) ELSE IF k = "B" THEN 0 ELSE cell[k]
    BY <2>1, <2>0, Multiplies
  <2>4. Values(c, i + 1)'
    BY <1>20, <2>1, <2>2 DEF Values, Used
  <2>. QED
    BY <2>2, <2>4, OneCell DEF Moves
<1>. QED
  BY <1>17, <1>18, <1>19, <1>20
LEMMA LowBase ==
  ASSUME NEW c, NEW i \in 22..26, At(c, i)
  PROVE Moves(c, i) /\ UNCHANGED stack
<1>22. CASE i = 22
  <2>1. Insn = <<"movx", "B", "A">> /\ Machine /\ Step /\ Asks(c) /\ Values(c, i)
    BY <1>22, PhyInsn DEF At, PhyList
  <2>2. Gives("B", cell["A"]) /\ psw' = psw
    BY <2>1, Copies DEF Gives, Used
  <2>4. Values(c, i + 1)'
    BY <1>22, <2>1, <2>2, Fields, Sums DEF Values, Gives, Used
  <2>. QED
    BY <2>2, <2>4, OneCell DEF Moves, Gives
<1>23. CASE i = 23
  <2>1. Insn = <<"movx", "A", "DPL">> /\ Machine /\ Step /\ Asks(c) /\ Values(c, i)
    BY <1>23, PhyInsn DEF At, PhyList
  <2>2. Gives("A", cell["DPL"]) /\ psw' = psw
    BY <2>1, Copies DEF Gives, Used
  <2>4. Values(c, i + 1)'
    BY <1>23, <2>1, <2>2, Fields, Sums DEF Values, Gives, Used
  <2>. QED
    BY <2>2, <2>4, OneCell DEF Moves, Gives
<1>24. CASE i = 24
  <2>1. Insn = <<"addx", "B">> /\ Machine /\ Step /\ Asks(c) /\ Values(c, i)
    BY <1>24, PhyInsn DEF At, PhyList
  <2>2. Gives("A", (cell["A"] + cell["B"] + 0) % 256) /\ Carry(psw') = IF cell["A"] + cell["B"] + 0 > 255 THEN 1 ELSE 0
    BY <2>1, Adds, Plain, ByteRange DEF Gives, A, Used, Carry
  <2>3. LET s == cell["A"] + cell["B"] + 0 IN s % 256 = Row(c) /\ ~(s > 255)
    BY <1>24, <2>1, Merged DEF Values
  <2>4. Values(c, i + 1)'
    BY <1>24, <2>1, <2>2, <2>3 DEF Values, Gives, Used
  <2>. QED
    BY <2>2, <2>4, OneCell DEF Moves, Gives
<1>25. CASE i = 25
  <2>1. Insn = <<"movx", "DPL", "A">> /\ Machine /\ Step /\ Asks(c) /\ Values(c, i)
    BY <1>25, PhyInsn DEF At, PhyList
  <2>2. Gives("DPL", cell["A"]) /\ psw' = psw
    BY <2>1, Copies DEF Gives, Used
  <2>4. Values(c, i + 1)'
    BY <1>25, <2>1, <2>2, Fields, Sums DEF Values, Gives, Used
  <2>. QED
    BY <2>2, <2>4, OneCell DEF Moves, Gives
<1>26. CASE i = 26
  <2>1. Insn = <<"movx", "A", "DPH">> /\ Machine /\ Step /\ Asks(c) /\ Values(c, i)
    BY <1>26, PhyInsn DEF At, PhyList
  <2>2. Gives("A", cell["DPH"]) /\ psw' = psw
    BY <2>1, Copies DEF Gives, Used
  <2>4. Values(c, i + 1)'
    BY <1>26, <2>1, <2>2, Fields, Sums DEF Values, Gives, Used
  <2>. QED
    BY <2>2, <2>4, OneCell DEF Moves, Gives
<1>. QED
  BY <1>22, <1>23, <1>24, <1>25, <1>26
LEMMA HighBase ==
  ASSUME NEW c, NEW i \in 28..29, At(c, i)
  PROVE Moves(c, i) /\ UNCHANGED stack
<1>28. CASE i = 28
  <2>1. Insn = <<"addcx", "B">> /\ Machine /\ Step /\ Asks(c) /\ Values(c, i)
    BY <1>28, PhyInsn DEF At, PhyList
  <2>2. Gives("A", (cell["A"] + cell["B"] + Carry(psw)) % 256) /\ Carry(psw') = IF cell["A"] + cell["B"] + Carry(psw) > 255 THEN 1 ELSE 0
    BY <2>1, Adds, Plain, ByteRange DEF Gives, A, Used, Carry
  <2>3. LET s == cell["A"] + cell["B"] + Carry(psw) IN s % 256 = 32
    BY <1>28, <2>1, SMT DEF Values
  <2>4. Values(c, i + 1)'
    BY <1>28, <2>1, <2>2, <2>3 DEF Values, Gives, Used
  <2>. QED
    BY <2>2, <2>4, OneCell DEF Moves, Gives
<1>29. CASE i = 29
  <2>1. Insn = <<"movx", "DPH", "A">> /\ Machine /\ Step /\ Asks(c) /\ Values(c, i)
    BY <1>29, PhyInsn DEF At, PhyList
  <2>2. Gives("DPH", cell["A"]) /\ psw' = psw
    BY <2>1, Copies DEF Gives, Used
  <2>4. Values(c, i + 1)'
    BY <1>29, <2>1, <2>2, Fields, Sums DEF Values, Gives, Used
  <2>. QED
    BY <2>2, <2>4, OneCell DEF Moves, Gives
<1>. QED
  BY <1>28, <1>29
(* hello.s:362: bits 5 to 1, shifted through whatever the carry was. *)
LEMMA RowBits ==
  ASSUME NEW c, NEW i \in 30..38, At(c, i)
  PROVE Moves(c, i) /\ UNCHANGED stack
<1>30. CASE i = 30
  <2>1. Insn = <<"movx", "B", "DPL">> /\ Machine /\ Step /\ Asks(c) /\ Values(c, i)
    BY <1>30, PhyInsn DEF At, PhyList
  <2>2. Gives("B", cell["DPL"]) /\ psw' = psw
    BY <2>1, Copies DEF Gives, Used
  <2>4. Values(c, i + 1)'
    BY <1>30, <2>1, <2>2, Fields, Sums DEF Values, Gives, Used
  <2>. QED
    BY <2>2, <2>4, OneCell DEF Moves, Gives
<1>31. CASE i = 31
  <2>1. Insn = <<"movx", "A", "R5">> /\ Machine /\ Step /\ Asks(c) /\ Values(c, i)
    BY <1>31, PhyInsn DEF At, PhyList
  <2>2. Gives("A", cell["R5"]) /\ psw' = psw
    BY <2>1, Copies DEF Gives, Used
  <2>4. Values(c, i + 1)'
    BY <1>31, <2>1, <2>2, Fields, Sums DEF Values, Gives, Used
  <2>. QED
    BY <2>2, <2>4, OneCell DEF Moves, Gives
<1>32. CASE i = 32
  <2>1. Insn = <<"rrc">> /\ Machine /\ Step /\ Asks(c) /\ Values(c, i)
    BY <1>32, PhyInsn DEF At, PhyList
  <2>2. Gives("A", cell["A"] \div 2 + 128 * Carry(psw)) /\ Carry(psw') = cell["A"] % 2
    BY <2>1, Shifts DEF Gives, A
  <2>3. LET v == cell["A"] \div 2 + 128 * Carry(psw) IN v \in Byte /\ v % 32 = Bottom(c)
    BY <1>32, <2>1, Merged, Sums, CarryBit DEF Values
  <2>4. Values(c, i + 1)'
    BY <1>32, <2>1, <2>2, <2>3 DEF Values, Gives, Used
  <2>. QED
    BY <2>2, <2>4, OneCell DEF Moves, Gives
<1>33. CASE i = 33
  <2>1. Insn = <<"anli", 31>> /\ Machine /\ Step /\ Asks(c) /\ Values(c, i)
    BY <1>33, PhyInsn DEF At, PhyList
  <2>2. Gives("A", BitAnd(cell["A"], 31)) /\ psw' = psw
    BY <2>1, Masks, ByteRange DEF Gives, A
  <2>3. BitAnd(cell["A"], 31) = Bottom(c)
    BY <1>33, <2>1, AndMasks DEF Values
  <2>4. Values(c, i + 1)'
    BY <1>33, <2>1, <2>2, <2>3 DEF Values, Gives, Used
  <2>. QED
    BY <2>2, <2>4, OneCell DEF Moves, Gives
<1>34. CASE i = 34
  <2>1. Insn = <<"addx", "B">> /\ Machine /\ Step /\ Asks(c) /\ Values(c, i)
    BY <1>34, PhyInsn DEF At, PhyList
  <2>2. Gives("A", (cell["A"] + cell["B"] + 0) % 256) /\ Carry(psw') = IF cell["A"] + cell["B"] + 0 > 255 THEN 1 ELSE 0
    BY <2>1, Adds, Plain, ByteRange DEF Gives, A, Used, Carry
  <2>3. LET s == cell["A"] + cell["B"] + 0 IN s % 256 = Row(c) + Bottom(c) /\ ~(s > 255)
    BY <1>34, <2>1, Merged DEF Values
  <2>4. Values(c, i + 1)'
    BY <1>34, <2>1, <2>2, <2>3 DEF Values, Gives, Used
  <2>. QED
    BY <2>2, <2>4, OneCell DEF Moves, Gives
<1>35. CASE i = 35
  <2>1. Insn = <<"movx", "DPL", "A">> /\ Machine /\ Step /\ Asks(c) /\ Values(c, i)
    BY <1>35, PhyInsn DEF At, PhyList
  <2>2. Gives("DPL", cell["A"]) /\ psw' = psw
    BY <2>1, Copies DEF Gives, Used
  <2>4. Values(c, i + 1)'
    BY <1>35, <2>1, <2>2, Fields, Sums DEF Values, Gives, Used
  <2>. QED
    BY <2>2, <2>4, OneCell DEF Moves, Gives
<1>36. CASE i = 36
  <2>1. Insn = <<"movx", "A", "DPH">> /\ Machine /\ Step /\ Asks(c) /\ Values(c, i)
    BY <1>36, PhyInsn DEF At, PhyList
  <2>2. Gives("A", cell["DPH"]) /\ psw' = psw
    BY <2>1, Copies DEF Gives, Used
  <2>4. Values(c, i + 1)'
    BY <1>36, <2>1, <2>2, Fields, Sums DEF Values, Gives, Used
  <2>. QED
    BY <2>2, <2>4, OneCell DEF Moves, Gives
<1>37. CASE i = 37
  <2>1. Insn = <<"addci", 0>> /\ Machine /\ Step /\ Asks(c) /\ Values(c, i)
    BY <1>37, PhyInsn DEF At, PhyList
  <2>2. Gives("A", (cell["A"] + 0 + Carry(psw)) % 256) /\ Carry(psw') = IF cell["A"] + 0 + Carry(psw) > 255 THEN 1 ELSE 0
    BY <2>1, Adds, Plain, ByteRange DEF Gives, A, Used, Carry
  <2>3. LET s == cell["A"] + 0 + Carry(psw) IN s % 256 = 32 /\ ~(s > 255)
    BY <1>37, <2>1, SMT DEF Values
  <2>4. Values(c, i + 1)'
    BY <1>37, <2>1, <2>2, <2>3 DEF Values, Gives, Used
  <2>. QED
    BY <2>2, <2>4, OneCell DEF Moves, Gives
<1>38. CASE i = 38
  <2>1. Insn = <<"movx", "DPH", "A">> /\ Machine /\ Step /\ Asks(c) /\ Values(c, i)
    BY <1>38, PhyInsn DEF At, PhyList
  <2>2. Gives("DPH", cell["A"]) /\ psw' = psw
    BY <2>1, Copies DEF Gives, Used
  <2>4. Values(c, i + 1)'
    BY <1>38, <2>1, <2>2, Fields, Sums DEF Values, Gives, Used
  <2>. QED
    BY <2>2, <2>4, OneCell DEF Moves, Gives
<1>. QED
  BY <1>30, <1>31, <1>32, <1>33, <1>34, <1>35, <1>36, <1>37, <1>38
(* hello.s:374: bits 9 to 6, by two shifts of sixteen bits. *)
LEMMA MiddleBits ==
  ASSUME NEW c, NEW i \in 39..53, At(c, i)
  PROVE Moves(c, i) /\ UNCHANGED stack
<1>39. CASE i = 39
  <2>1. Insn = <<"movx", "A", "R6">> /\ Machine /\ Step /\ Asks(c) /\ Values(c, i)
    BY <1>39, PhyInsn DEF At, PhyList
  <2>2. Gives("A", cell["R6"]) /\ psw' = psw
    BY <2>1, Copies DEF Gives, Used
  <2>4. Values(c, i + 1)'
    BY <1>39, <2>1, <2>2, Fields, Sums DEF Values, Gives, Used
  <2>. QED
    BY <2>2, <2>4, OneCell DEF Moves, Gives
<1>40. CASE i = 40
  <2>1. Insn = <<"rrc">> /\ Machine /\ Step /\ Asks(c) /\ Values(c, i)
    BY <1>40, PhyInsn DEF At, PhyList
  <2>2. Gives("A", cell["A"] \div 2 + 128 * Carry(psw)) /\ Carry(psw') = cell["A"] % 2
    BY <2>1, Shifts DEF Gives, A
  <2>3. cell["A"] \div 2 + 128 * Carry(psw) = AddrHigh(c) \div 2
    BY <1>40, <2>1, Fields, ByteRange, SMT DEF Values
  <2>4. Values(c, i + 1)'
    BY <1>40, <2>1, <2>2, <2>3 DEF Values, Gives, Used
  <2>. QED
    BY <2>2, <2>4, OneCell DEF Moves, Gives
<1>41. CASE i = 41
  <2>1. Insn = <<"movx", "R6", "A">> /\ Machine /\ Step /\ Asks(c) /\ Values(c, i)
    BY <1>41, PhyInsn DEF At, PhyList
  <2>2. Gives("R6", cell["A"]) /\ psw' = psw
    BY <2>1, Copies DEF Gives, Used
  <2>4. Values(c, i + 1)'
    BY <1>41, <2>1, <2>2, Fields, Sums DEF Values, Gives, Used
  <2>. QED
    BY <2>2, <2>4, OneCell DEF Moves, Gives
<1>42. CASE i = 42
  <2>1. Insn = <<"movx", "A", "R5">> /\ Machine /\ Step /\ Asks(c) /\ Values(c, i)
    BY <1>42, PhyInsn DEF At, PhyList
  <2>2. Gives("A", cell["R5"]) /\ psw' = psw
    BY <2>1, Copies DEF Gives, Used
  <2>4. Values(c, i + 1)'
    BY <1>42, <2>1, <2>2, Fields, Sums DEF Values, Gives, Used
  <2>. QED
    BY <2>2, <2>4, OneCell DEF Moves, Gives
<1>43. CASE i = 43
  <2>1. Insn = <<"rrc">> /\ Machine /\ Step /\ Asks(c) /\ Values(c, i)
    BY <1>43, PhyInsn DEF At, PhyList
  <2>2. Gives("A", cell["A"] \div 2 + 128 * Carry(psw)) /\ Carry(psw') = cell["A"] % 2
    BY <2>1, Shifts DEF Gives, A
  <2>3. cell["A"] \div 2 + 128 * Carry(psw) = Half(c)
    BY <1>43, <2>1, SMT DEF Values, Half
  <2>4. Values(c, i + 1)'
    BY <1>43, <2>1, <2>2, <2>3 DEF Values, Gives, Used
  <2>. QED
    BY <2>2, <2>4, OneCell DEF Moves, Gives
<1>44. CASE i = 44
  <2>1. Insn = <<"movx", "R5", "A">> /\ Machine /\ Step /\ Asks(c) /\ Values(c, i)
    BY <1>44, PhyInsn DEF At, PhyList
  <2>2. Gives("R5", cell["A"]) /\ psw' = psw
    BY <2>1, Copies DEF Gives, Used
  <2>4. Values(c, i + 1)'
    BY <1>44, <2>1, <2>2, Fields, Sums DEF Values, Gives, Used
  <2>. QED
    BY <2>2, <2>4, OneCell DEF Moves, Gives
<1>45. CASE i = 45
  <2>1. Insn = <<"movx", "A", "R6">> /\ Machine /\ Step /\ Asks(c) /\ Values(c, i)
    BY <1>45, PhyInsn DEF At, PhyList
  <2>2. Gives("A", cell["R6"]) /\ psw' = psw
    BY <2>1, Copies DEF Gives, Used
  <2>4. Values(c, i + 1)'
    BY <1>45, <2>1, <2>2, Fields, Sums DEF Values, Gives, Used
  <2>. QED
    BY <2>2, <2>4, OneCell DEF Moves, Gives
<1>46. CASE i = 46
  <2>1. Insn = <<"rrc">> /\ Machine /\ Step /\ Asks(c) /\ Values(c, i)
    BY <1>46, PhyInsn DEF At, PhyList
  <2>2. Gives("A", cell["A"] \div 2 + 128 * Carry(psw)) /\ Carry(psw') = cell["A"] % 2
    BY <2>1, Shifts DEF Gives, A
  <2>4. Values(c, i + 1)'
    BY <1>46, <2>1, <2>2, Fields, Sums DEF Values, Gives, Used
  <2>. QED
    BY <2>2, <2>4, OneCell DEF Moves, Gives
<1>47. CASE i = 47
  <2>1. Insn = <<"movx", "R6", "A">> /\ Machine /\ Step /\ Asks(c) /\ Values(c, i)
    BY <1>47, PhyInsn DEF At, PhyList
  <2>2. Gives("R6", cell["A"]) /\ psw' = psw
    BY <2>1, Copies DEF Gives, Used
  <2>4. Values(c, i + 1)'
    BY <1>47, <2>1, <2>2, Fields, Sums DEF Values, Gives, Used
  <2>. QED
    BY <2>2, <2>4, OneCell DEF Moves, Gives
<1>48. CASE i = 48
  <2>1. Insn = <<"movx", "A", "R5">> /\ Machine /\ Step /\ Asks(c) /\ Values(c, i)
    BY <1>48, PhyInsn DEF At, PhyList
  <2>2. Gives("A", cell["R5"]) /\ psw' = psw
    BY <2>1, Copies DEF Gives, Used
  <2>4. Values(c, i + 1)'
    BY <1>48, <2>1, <2>2, Fields, Sums DEF Values, Gives, Used
  <2>. QED
    BY <2>2, <2>4, OneCell DEF Moves, Gives
<1>49. CASE i = 49
  <2>1. Insn = <<"rrc">> /\ Machine /\ Step /\ Asks(c) /\ Values(c, i)
    BY <1>49, PhyInsn DEF At, PhyList
  <2>2. Gives("A", cell["A"] \div 2 + 128 * Carry(psw)) /\ Carry(psw') = cell["A"] % 2
    BY <2>1, Shifts DEF Gives, A
  <2>3. cell["A"] \div 2 + 128 * Carry(psw) = Quarter(c)
    BY <1>49, <2>1, SMT DEF Values, Quarter
  <2>4. Values(c, i + 1)'
    BY <1>49, <2>1, <2>2, <2>3 DEF Values, Gives, Used
  <2>. QED
    BY <2>2, <2>4, OneCell DEF Moves, Gives
<1>50. CASE i = 50
  <2>1. Insn = <<"swap">> /\ Machine /\ Step /\ Asks(c) /\ Values(c, i)
    BY <1>50, PhyInsn DEF At, PhyList
  <2>2. Gives("A", cell["A"] \div 16 + 16 * (cell["A"] % 16)) /\ psw' = psw
    BY <2>1, Turns DEF Gives, A
  <2>3. LET v == cell["A"] \div 16 + 16 * (cell["A"] % 16) IN v \in Byte /\ v % 16 = Middle(c)
    BY <1>50, <2>1, Merged, Sums DEF Values
  <2>4. Values(c, i + 1)'
    BY <1>50, <2>1, <2>2, <2>3 DEF Values, Gives, Used
  <2>. QED
    BY <2>2, <2>4, OneCell DEF Moves, Gives
<1>51. CASE i = 51
  <2>1. Insn = <<"anli", 15>> /\ Machine /\ Step /\ Asks(c) /\ Values(c, i)
    BY <1>51, PhyInsn DEF At, PhyList
  <2>2. Gives("A", BitAnd(cell["A"], 15)) /\ psw' = psw
    BY <2>1, Masks, ByteRange DEF Gives, A
  <2>3. BitAnd(cell["A"], 15) = Middle(c)
    BY <1>51, <2>1, AndMasks DEF Values
  <2>4. Values(c, i + 1)'
    BY <1>51, <2>1, <2>2, <2>3 DEF Values, Gives, Used
  <2>. QED
    BY <2>2, <2>4, OneCell DEF Moves, Gives
<1>52. CASE i = 52
  <2>1. Insn = <<"addx", "DPH">> /\ Machine /\ Step /\ Asks(c) /\ Values(c, i)
    BY <1>52, PhyInsn DEF At, PhyList
  <2>2. Gives("A", (cell["A"] + cell["DPH"] + 0) % 256) /\ Carry(psw') = IF cell["A"] + cell["DPH"] + 0 > 255 THEN 1 ELSE 0
    BY <2>1, Adds, Plain, ByteRange DEF Gives, A, Used, Carry
  <2>3. LET s == cell["A"] + cell["DPH"] + 0 IN s % 256 = 32 + Middle(c)
    BY <1>52, <2>1, Merged DEF Values
  <2>4. Values(c, i + 1)'
    BY <1>52, <2>1, <2>2, <2>3 DEF Values, Gives, Used
  <2>. QED
    BY <2>2, <2>4, OneCell DEF Moves, Gives
<1>53. CASE i = 53
  <2>1. Insn = <<"movx", "DPH", "A">> /\ Machine /\ Step /\ Asks(c) /\ Values(c, i)
    BY <1>53, PhyInsn DEF At, PhyList
  <2>2. Gives("DPH", cell["A"]) /\ psw' = psw
    BY <2>1, Copies DEF Gives, Used
  <2>4. Values(c, i + 1)'
    BY <1>53, <2>1, <2>2, Fields, Sums DEF Values, Gives, Used
  <2>. QED
    BY <2>2, <2>4, OneCell DEF Moves, Gives
<1>. QED
  BY <1>39, <1>40, <1>41, <1>42, <1>43, <1>44, <1>45, <1>46, <1>47, <1>48, <1>49, <1>50, <1>51,
        <1>52, <1>53

-----------------------------------------------------------------------------
(* reg_read and reg_write, as it calls them *)

LEMMA TopOfStack ==
  ASSUME NEW S, NEW s \in Seq(S), NEW x
  PROVE Last(Append(s, x)) = x /\ Front(Append(s, x)) = s /\ Append(s, x) # <<>>
<1>1. Append(s, x) \in Seq(S \cup {x}) /\ Len(Append(s, x)) = Len(s) + 1 /\ Append(s, x)[Len(s) + 1] = x
  OBVIOUS
<1>2. SubSeq(Append(s, x), 1, Len(s)) = s
  OBVIOUS
<1>3. (Len(s) + 1) - 1 = Len(s) /\ Len(s) + 1 # 0
  OBVIOUS
<1>. QED
  BY <1>1, <1>2, <1>3 DEF Last, Front

LEMMA PortCode ==
  ASSUME NEW l \in {"reg_read", "reg_write"}, NEW i \in 1..3, pc = <<l, i>>
  PROVE /\ i = 1 => Insn = <<"movx", "INDACC_ADDR_H", "DPH">> /\ After = <<l, 2>>
        /\ i = 2 => Insn = <<"movx", "INDACC_ADDR_L", "DPL">> /\ After = <<l, 3>>
        /\ i = 3 /\ l = "reg_read" => Insn = <<"movi", "INDACC_CMD",
                        1>> /\ After = <<"reg_status_loop", 1>>
        /\ i = 3 /\ l = "reg_write" => Insn = <<"movi", "INDACC_CMD", 3>> /\ After = <<l, 4>>
<1>1. Code["reg_read"] = Reg["reg_read"] /\ Code["reg_write"] = Reg["reg_write"]
  BY AddressProgramAssumption DEF Reg
<1>2. /\ Code["reg_read"].code = << <<"movx", "INDACC_ADDR_H", "DPH">>, <<"movx", "INDACC_ADDR_L",
                "DPL">>,
                                    <<"movi", "INDACC_CMD", 1>> >>
      /\ Code["reg_read"].then = "reg_status_loop"
      /\ Code["reg_write"].code = << <<"movx", "INDACC_ADDR_H", "DPH">>, <<"movx", "INDACC_ADDR_L",
                      "DPL">>,
                                     <<"movi", "INDACC_CMD", 3>>, <<"jmp", "reg_status_loop">> >>
  BY <1>1 DEF Reg, Block, Closed
<1>3. pc[1] = l /\ pc[2] = i
  OBVIOUS
<1>6. Insn = Code[l].code[i] /\ After = IF i < Len(Code[l].code) THEN <<l,
      i + 1>> ELSE <<Code[l].then, 1>>
  BY <1>3 DEF Insn, After
<1>4. CASE l = "reg_read"
  <2>1. Len(Code[l].code) = 3 /\ Code[l].then = "reg_status_loop"
    BY <1>2, <1>4
  <2>2. /\ Code[l].code[1] = <<"movx", "INDACC_ADDR_H", "DPH">>
        /\ Code[l].code[2] = <<"movx", "INDACC_ADDR_L", "DPL">>
        /\ Code[l].code[3] = <<"movi", "INDACC_CMD", 1>>
    BY <1>2, <1>4
  <2>. QED
    BY <1>4, <1>6, <2>1, <2>2
<1>5. CASE l = "reg_write"
  <2>1. Len(Code[l].code) = 4
    BY <1>2, <1>5
  <2>2. /\ Code[l].code[1] = <<"movx", "INDACC_ADDR_H", "DPH">>
        /\ Code[l].code[2] = <<"movx", "INDACC_ADDR_L", "DPL">>
        /\ Code[l].code[3] = <<"movi", "INDACC_CMD", 3>>
    BY <1>2, <1>5
  <2>. QED
    BY <1>5, <1>6, <2>1, <2>2
<1>. QED
  BY <1>4, <1>5

LEMMA EndOfWrite ==
  ASSUME pc = <<"reg_write", 4>>
  PROVE Insn = <<"jmp", "reg_status_loop">>
<1>1. Code["reg_write"] = Reg["reg_write"]
  BY AddressProgramAssumption DEF Reg
<1>2. Code["reg_write"].code[4] = <<"jmp", "reg_status_loop">>
  BY <1>1 DEF Reg, Closed, Block
<1>. QED
  BY <1>2 DEF Insn

LEMMA ProbeCode ==
  ASSUME NEW i \in 1..3, pc = <<"probe", i>>
  PROVE /\ i = 1 => Insn = <<"call", "phyocp_reg_addr">> /\ After = <<"probe", 2>>
        /\ i = 2 => Insn = <<"call", "reg_read">> /\ After = <<"probe", 3>>
        /\ i = 3 => Insn = <<"ret">>
<1>1. Code["probe"] = Probe["probe"]
  BY AddressProgramAssumption DEF Probe
<1>2. Code["probe"].code = << <<"call", "phyocp_reg_addr">>, <<"call", "reg_read">>, <<"ret">> >>
  BY <1>1 DEF Probe, Closed, Block
<1>3. pc[1] = "probe" /\ pc[2] = i
  OBVIOUS
<1>4. Insn = Code["probe"].code[i] /\ After = IF i < Len(Code["probe"].code) THEN <<"probe",
      i + 1>> ELSE <<Code["probe"].then, 1>>
  BY <1>3 DEF Insn, After
<1>5. Len(Code["probe"].code) = 3
  BY <1>2
<1>. QED
  BY <1>2, <1>4, <1>5

(* What reg_read and reg_write have put into the port by point i. *)
Addressed(i) == /\ i > 1 => dev.sfr["INDACC_ADDR_H"] = cell["DPH"]
                /\ i > 2 => dev.sfr["INDACC_ADDR_L"] = cell["DPL"]
DataFile == {"INDACC_WDATA_H", "INDACC_WDATA_L", "INDACC_RDATA_H", "INDACC_RDATA_L"}
SameData == /\ dev'.regs = dev.regs /\ dev'.log = dev.log /\ dev'.ocp = dev.ocp
            /\ \A n \in DataFile : dev'.sfr[n] = dev.sfr[n]
SameCells == \A k \in Used \ {"A"} : (cell[k])' = cell[k]

LEMMA AddressStep ==
  ASSUME Machine, Step, NEW l \in {"reg_read", "reg_write"}, NEW i \in 1..2, pc = <<l, i>>, Addressed(i)
  PROVE /\ Machine' /\ pc' = <<l, i + 1>> /\ UNCHANGED <<cell, psw, stack, rom>>
        /\ Addressed(i + 1)' /\ SameData
<1>1. dev.sfr \in [IndaccFile \cup PedmaFile -> Byte] /\ DOMAIN dev = {"sfr", "regs", "xram", "ssp",
      "out", "ti", "log", "ocp"}
  BY DEF Machine, Switch
<1>2. {"INDACC_ADDR_H", "INDACC_ADDR_L"} \cup DataFile \subseteq IndaccFile /\ {"DPH",
      "DPL"} \subseteq Used
  BY DEF DataFile, IndaccFile, Used
<1>3. CASE i = 1
  <2>1. Insn = <<"movx", "INDACC_ADDR_H", "DPH">> /\ After = <<l, 2>>
    BY <1>3, PortCode
  <2>2. Machine' /\ Onwards /\ UNCHANGED <<cell,
        psw>> /\ dev' = [dev EXCEPT !.sfr["INDACC_ADDR_H"] = cell["DPH"]]
    BY <1>2, <2>1, ToPort
  <2>3. Addressed(2)' /\ SameData
    BY <1>1, <1>2, <2>2 DEF Addressed, SameData, DataFile
  <2>. QED
    BY <1>3, <2>1, <2>2, <2>3 DEF Onwards
<1>4. CASE i = 2
  <2>1. Insn = <<"movx", "INDACC_ADDR_L", "DPL">> /\ After = <<l, 3>>
    BY <1>4, PortCode
  <2>2. Machine' /\ Onwards /\ UNCHANGED <<cell,
        psw>> /\ dev' = [dev EXCEPT !.sfr["INDACC_ADDR_L"] = cell["DPL"]]
    BY <1>2, <2>1, ToPort
  <2>3. Addressed(3)' /\ SameData
    BY <1>1, <1>2, <1>4, <2>2 DEF Addressed, SameData, DataFile
  <2>. QED
    BY <1>4, <2>1, <2>2, <2>3 DEF Onwards
<1>. QED
  BY <1>3, <1>4

LEMMA PollStep ==
  ASSUME Machine, Step, NEW i \in 1..2, pc = <<"reg_status_loop", i>>
  PROVE /\ Machine' /\ UNCHANGED <<dev, stack, rom>> /\ SameCells
        /\ \E j \in 1..3 : pc' = <<"reg_status_loop", j>>
<1>1. CASE i = 1
  <2>1. Insn = <<"movx", "A", "INDACC_STATUS">> /\ After = <<"reg_status_loop", 2>>
    BY <1>1, StatusCode
  <2>2. Move
    BY <2>1, Dispatch DEF Op
  <2>3. Read("INDACC_STATUS") = 0 /\ AfterGet(dev, "INDACC_STATUS") = dev
    BY NotHooked DEF Machine, Read, AfterGet, BoardGet, Get, IndaccFile, PedmaFile
  <2>4. cell' = [cell EXCEPT !["A"] = 0] /\ dev' = dev /\ Onwards
    BY <2>1, <2>2, <2>3, Plain DEF Used, Move, Op, Write, Onwards
  <2>5. "A" \in Used /\ 0 \in Byte
    BY ByteRange DEF Used
  <2>6. Gives("A", 0)
    BY <2>4, <2>5, Giving DEF Gives
  <2>. QED
    BY <2>1, <2>6 DEF Gives, SameCells, Onwards
<1>2. CASE i = 2
  <2>1. Insn = <<"cjne", "A", 0, "reg_status_loop">> /\ After = <<"reg_status_loop", 3>>
    BY <1>2, StatusCode
  <2>2. Same /\ pc' \in {<<"reg_status_loop", 1>>, <<"reg_status_loop", 3>>}
    BY <2>1, Compares DEF To
  <2>3. Machine' /\ SameCells
    BY <2>2, SameMachine DEF Same, SameCells
  <2>. QED
    BY <2>2, <2>3 DEF Same
<1>. QED
  BY <1>1, <1>2

(* The points before and after a call: only A may change at the subroutine. *)
LEMMA Stay ==
  ASSUME NEW c, NEW j \in {4, 5, 16, 17, 54}, Values(c, j), SameCells,
         dev'.regs = dev.regs, dev'.log = dev.log, \A n \in DataFile : dev'.sfr[n] = dev.sfr[n]
  PROVE Values(c, j)'
<1>1. \A k \in {"DPH", "DPL", "R5", "R6", "R7"} : (cell[k])' = cell[k]
  BY DEF SameCells, Used
<1>2. CASE j = 4
  BY <1>1, <1>2 DEF Values
<1>3. CASE j = 5
  BY <1>1, <1>3 DEF Values, DataFile
<1>4. CASE j = 16
  BY <1>1, <1>4 DEF Values, DataFile
<1>5. CASE j = 17
  BY <1>1, <1>5 DEF Values
<1>6. CASE j = 54
  BY <1>1, <1>6 DEF Values
<1>. QED
  BY <1>2, <1>3, <1>4, <1>5, <1>6

(* reg_read of 0x1d15: the halves of what it held. *)
LEMMA ReadsPrefix ==
  ASSUME NEW c, Asks(c), Machine, Step, pc = <<"reg_read", 3>>, Values(c, 4), Addressed(3)
  PROVE /\ Machine' /\ pc' = <<"reg_status_loop", 1>> /\ UNCHANGED <<stack, rom>> /\ Values(c, 5)'
<1>1. Insn = <<"movi", "INDACC_CMD", 1>> /\ After = <<"reg_status_loop", 1>>
  BY PortCode
<1>2. IndaccAddr(dev) = 7445 /\ ~IsPhy(7445) /\ dev.regs = c.regs
  <2>1. dev.sfr["INDACC_ADDR_H"] = 29 /\ dev.sfr["INDACC_ADDR_L"] = 21 /\ dev.regs = c.regs
    BY DEF Addressed, Values
  <2>2. Pair(29, 21) = 7445 /\ ~IsPhy(7445)
    BY SMT DEF Pair, IsPhy
  <2>. QED
    BY <2>1, <2>2 DEF IndaccAddr
<1>3. /\ Machine' /\ Onwards /\ dev'.regs = dev.regs /\ dev'.log = dev.log
      /\ dev'.sfr["INDACC_RDATA_H"] = Hi(RegValue(dev, 7445))
      /\ dev'.sfr["INDACC_RDATA_L"] = Lo(RegValue(dev, 7445))
  BY <1>1, <1>2, ReadsRegister
<1>4. UNCHANGED cell
  BY <1>1, Commands
<1>5. RegValue(dev, 7445) = Old(c)
  BY <1>2 DEF RegValue, Old
<1>6. Values(c, 5)'
  BY <1>3, <1>4, <1>5 DEF Values
<1>. QED
  BY <1>1, <1>3, <1>6 DEF Onwards

(* reg_write of 0x1d15: the prefix below the bits that stay. *)
LEMMA WritesPrefix ==
  ASSUME NEW c, Asks(c), Machine, Step, pc = <<"reg_write", 3>>, Values(c, 16), Addressed(3)
  PROVE /\ Machine' /\ pc' = <<"reg_write", 4>> /\ UNCHANGED <<stack, rom>> /\ Values(c, 17)'
<1>1. Insn = <<"movi", "INDACC_CMD", 3>> /\ After = <<"reg_write", 4>>
  BY PortCode
<1>2. IndaccAddr(dev) = 7445 /\ IndaccWdata(dev) = Prefixed(c) /\ dev.regs = c.regs /\ dev.log = c.log
  <2>1. /\ dev.sfr["INDACC_ADDR_H"] = 29 /\ dev.sfr["INDACC_ADDR_L"] = 21
        /\ dev.sfr["INDACC_WDATA_H"] = Hi(Old(c)) /\ dev.sfr["INDACC_WDATA_L"] = NewLow(c)
        /\ dev.regs = c.regs /\ dev.log = c.log
    BY DEF Addressed, Values
  <2>2. Pair(29, 21) = 7445
    BY SMT DEF Pair
  <2>. QED
    BY <2>1, <2>2 DEF IndaccAddr, IndaccWdata, Prefixed
<1>3. Machine' /\ Onwards /\ dev'.regs = Assign(c.regs, 7445, Prefixed(c))
  BY <1>1, <1>2, WritesRegister
<1>4. UNCHANGED cell /\ dev'.log = Append(c.log, <<7445, Prefixed(c)>>)
  <2>1. dev' = IndaccCmd(dev, 3) /\ UNCHANGED cell
    BY <1>1, Commands
  <2>2. dev' = RegWrite(dev, 7445, Prefixed(c))
    BY <1>2, <2>1 DEF IndaccCmd
  <2>3. dev'.log = Append(dev.log, <<7445, Prefixed(c)>>)
    BY <2>2 DEF RegWrite, Machine, Switch
  <2>. QED
    BY <1>2, <2>1, <2>3
<1>5. Values(c, 17)'
  BY <1>3, <1>4 DEF Values
<1>. QED
  BY <1>1, <1>3, <1>5 DEF Onwards

-----------------------------------------------------------------------------
(* One step of the routine, or of one it calls *)

(* Where the routine and those it calls can be, and with which return points. *)
Frame(c, i) == IF i \in 22..27 THEN Append(c.back, 0) ELSE c.back
AfterCall(c, j) == Append(c.back, <<"phyocp_reg_addr", j>>)
InRoutine(c) == \E i \in 1..54 : pc = <<"phyocp_reg_addr", i>> /\ Values(c, i) /\ stack = Frame(c, i)
InRead(c) == \E i \in 1..3 : pc = <<"reg_read", i>> /\ Values(c,
      4) /\ Addressed(i) /\ stack = AfterCall(c, 5)
InWrite(c) ==
  /\ stack = AfterCall(c, 17)
  /\ \/ \E i \in 1..3 : pc = <<"reg_write", i>> /\ Values(c, 16) /\ Addressed(i)
     \/ pc = <<"reg_write", 4>> /\ Values(c, 17)
InPoll(c) == \E i \in 1..3, j \in {5, 17} :
               pc = <<"reg_status_loop", i>> /\ Values(c, j) /\ stack = AfterCall(c, j)
Inside(c) == Asks(c) /\ Machine /\ (InRoutine(c) \/ InRead(c) \/ InWrite(c) \/ InPoll(c))

(* The step back to the caller. *)
Leaves(c) == /\ Machine' /\ Values(c, 54)' /\ c.back # <<>>
             /\ pc' = Last(c.back) /\ stack' = Front(c.back)

LEMMA RoutineStep ==
  ASSUME NEW c, Asks(c), Machine, Step, NEW i \in 1..54,
         pc = <<"phyocp_reg_addr", i>>, Values(c, i), stack = Frame(c, i)
  PROVE (Machine' /\ (InRoutine(c)' \/ InRead(c)' \/ InWrite(c)')) \/ Leaves(c)
<1>1. At(c, i)
  BY DEF At
<1>2. ASSUME i < 54, Moves(c, i), stack' = Frame(c, i + 1)
      PROVE Machine' /\ InRoutine(c)'
  <2>1. i + 1 \in 1..54
    BY <1>2, SMT
  <2>2. pc' = <<"phyocp_reg_addr", i + 1>> /\ Values(c, i + 1)' /\ Machine'
    BY <1>2 DEF Moves
  <2>3. stack' = Frame(c, i + 1)
    BY <1>2
  <2>. QED
    BY <2>1, <2>2, <2>3 DEF InRoutine, Frame
<1>3. PICK S : c.back \in Seq(S)
  BY DEF Asks
<1>4. CASE i \notin {4, 16, 21, 27, 54}
  <2>1. Moves(c, i) /\ UNCHANGED stack
    <3>1. CASE i \in 1..3
      BY <1>1, <3>1, Saves
    <3>2. CASE i \in 5..15
      BY <1>1, <3>2, PrefixBits
    <3>3. CASE i \in 17..20
      BY <1>1, <3>3, Base
    <3>4. CASE i \in 22..26
      BY <1>1, <3>4, LowBase
    <3>5. CASE i \in 28..29
      BY <1>1, <3>5, HighBase
    <3>6. CASE i \in 30..38
      BY <1>1, <3>6, RowBits
    <3>7. CASE i \in 39..53
      BY <1>1, <3>7, MiddleBits
    <3>8. \/ i \in 1..3 \/ i \in 5..15 \/ i \in 17..20 \/ i \in 22..26 \/ i \in 28..29 \/ i \in 30..38
          \/ i \in 39..53
      BY <1>4, SMT
    <3>. QED
      BY <3>1, <3>2, <3>3, <3>4, <3>5, <3>6, <3>7, <3>8
  <2>2. i < 54 /\ (i \in 22..27 <=> i + 1 \in 22..27)
    BY <1>4, SMT
  <2>3. stack' = Frame(c, i + 1)
    BY <2>1, <2>2 DEF Frame
  <2>. QED
    BY <1>2, <2>1, <2>2, <2>3
<1>5. CASE i = 4
  <2>1. Insn = <<"call", "reg_read">> /\ After = <<"phyocp_reg_addr", 5>>
    BY <1>5, PhyInsn DEF PhyList
  <2>2. stack' = AfterCall(c, 5) /\ pc' = <<"reg_read", 1>> /\ UNCHANGED <<cell, rom, dev>>
    BY <1>5, <2>1, Calling DEF To, Frame, AfterCall
  <2>3. Machine' /\ Values(c, 4)'
    BY <1>5, <2>2, Stay DEF Machine, SameCells
  <2>4. Addressed(1)'
    BY SMT DEF Addressed
  <2>. QED
    BY <2>2, <2>3, <2>4 DEF InRead, AfterCall
<1>6. CASE i = 16
  <2>1. Insn = <<"call", "reg_write">> /\ After = <<"phyocp_reg_addr", 17>>
    BY <1>6, PhyInsn DEF PhyList
  <2>2. stack' = AfterCall(c, 17) /\ pc' = <<"reg_write", 1>> /\ UNCHANGED <<cell, rom, dev>>
    BY <1>6, <2>1, Calling DEF To, Frame, AfterCall
  <2>3. Machine' /\ Values(c, 16)'
    BY <1>6, <2>2, Stay DEF Machine, SameCells
  <2>4. Addressed(1)'
    BY SMT DEF Addressed
  <2>. QED
    BY <2>2, <2>3, <2>4 DEF InWrite, AfterCall
<1>7. CASE i = 21
  <2>1. Insn = <<"push", "B">> /\ After = <<"phyocp_reg_addr", 22>> /\ cell["B"] = 0
    BY <1>7, PhyInsn DEF PhyList, Values
  <2>2. pc' = <<"phyocp_reg_addr", 22>> /\ stack' = Append(stack, 0) /\ UNCHANGED <<cell, psw, rom,
        dev>>
    BY <2>1, Pushes DEF Used
  <2>3. Machine' /\ Values(c, 22)'
    BY <1>7, <2>2 DEF Machine, Values
  <2>4. stack' = Frame(c, 22)
    BY <1>7, <2>2 DEF Frame
  <2>. QED
    BY <1>2, <1>7, <2>2, <2>3, <2>4 DEF Moves
<1>8. CASE i = 27
  <2>1. Insn = <<"pop", "B">> /\ After = <<"phyocp_reg_addr", 28>>
    BY <1>8, PhyInsn DEF PhyList
  <2>2. stack = Append(c.back, 0)
    BY <1>8 DEF Frame
  <2>3. Last(stack) = 0 /\ Front(stack) = c.back /\ 0 \in Byte
    <3>1. Last(Append(c.back, 0)) = 0 /\ Front(Append(c.back, 0)) = c.back
      BY <1>3, TopOfStack
    <3>2. 0 \in Byte
      BY ByteRange, SMT
    <3>. QED
      BY <2>2, <3>1, <3>2
  <2>4. /\ pc' = <<"phyocp_reg_addr", 28>> /\ stack' = c.back /\ UNCHANGED <<psw, rom, dev>> /\ Machine'
        /\ \A k \in Used : (cell[k])' = IF k = "B" THEN 0 ELSE cell[k]
    BY <2>1, <2>3, Pops DEF Used
  <2>5. Values(c, 28)'
    BY <1>8, <2>4 DEF Values, Used
  <2>6. stack' = Frame(c, 28)
    BY <2>4 DEF Frame
  <2>. QED
    BY <1>2, <1>8, <2>4, <2>5, <2>6 DEF Moves
<1>9. CASE i = 54
  <2>1. Insn = <<"ret">> /\ stack = c.back
    BY <1>9, PhyInsn DEF PhyList, Frame
  <2>2. stack # <<>> /\ stack' = Front(stack) /\ pc' = Last(stack) /\ UNCHANGED <<cell, rom, dev>>
    BY <2>1, Returning
  <2>3. Machine' /\ Values(c, 54)'
    BY <1>9, <2>2, Stay DEF Machine, SameCells
  <2>. QED
    BY <2>1, <2>2, <2>3 DEF Leaves
<1>. QED
  BY <1>4, <1>5, <1>6, <1>7, <1>8, <1>9

LEMMA InsideStep ==
  ASSUME NEW c, Inside(c), Step
  PROVE Inside(c)' \/ Leaves(c)
<1>1. Asks(c) /\ Machine
  BY DEF Inside
<1>2. PICK S : c.back \in Seq(S)
  BY <1>1 DEF Asks
<1>3. CASE InRoutine(c)
  <2>1. PICK i \in 1..54 : pc = <<"phyocp_reg_addr", i>> /\ Values(c, i) /\ stack = Frame(c, i)
    BY <1>3 DEF InRoutine
  <2>2. (Machine' /\ (InRoutine(c)' \/ InRead(c)' \/ InWrite(c)')) \/ Leaves(c)
    BY <1>1, <2>1, RoutineStep
  <2>. QED
    BY <1>1, <2>2 DEF Inside, Asks
<1>4. CASE InRead(c)
  <2>1. PICK i \in 1..3 : pc = <<"reg_read", i>> /\ Values(c, 4) /\ Addressed(i)
    BY <1>4 DEF InRead
  <2>2. stack = AfterCall(c, 5)
    BY <1>4 DEF InRead
  <2>3. CASE i \in 1..2
    <3>1. Machine' /\ pc' = <<"reg_read", i + 1>> /\ UNCHANGED <<cell, psw, stack,
          rom>> /\ Addressed(i + 1)' /\ SameData
      BY <1>1, <2>1, <2>3, AddressStep
    <3>2. Values(c, 4)'
      BY <2>1, <3>1, Stay DEF SameData, SameCells
    <3>3. i + 1 \in 1..3 /\ stack' = AfterCall(c, 5)
      BY <2>2, <2>3, <3>1
    <3>4. InRead(c)'
      BY <3>1, <3>2, <3>3 DEF InRead, AfterCall
    <3>. QED
      BY <1>1, <3>1, <3>4 DEF Inside, Asks
  <2>4. CASE i = 3
    <3>1. Machine' /\ pc' = <<"reg_status_loop", 1>> /\ UNCHANGED <<stack, rom>> /\ Values(c, 5)'
      BY <1>1, <2>1, <2>4, ReadsPrefix
    <3>2. InPoll(c)'
      BY <2>2, <3>1 DEF InPoll, AfterCall
    <3>. QED
      BY <1>1, <3>1, <3>2 DEF Inside, Asks
  <2>. QED
    BY <2>3, <2>4
<1>5. CASE InWrite(c)
  <2>1. stack = AfterCall(c, 17)
    BY <1>5 DEF InWrite
  <2>2. ASSUME NEW i \in 1..2, pc = <<"reg_write", i>>, Values(c, 16), Addressed(i) PROVE Inside(c)'
    <3>1. Machine' /\ pc' = <<"reg_write", i + 1>> /\ UNCHANGED <<cell, psw, stack,
          rom>> /\ Addressed(i + 1)' /\ SameData
      BY <1>1, <2>2, AddressStep
    <3>2. Values(c, 16)'
      BY <2>2, <3>1, Stay DEF SameData, SameCells
    <3>3. i + 1 \in 1..3 /\ stack' = AfterCall(c, 17)
      BY <2>1, <3>1
    <3>4. InWrite(c)'
      BY <3>1, <3>2, <3>3 DEF InWrite, AfterCall
    <3>. QED
      BY <1>1, <3>1, <3>4 DEF Inside, Asks
  <2>3. ASSUME pc = <<"reg_write", 3>>, Values(c, 16), Addressed(3) PROVE Inside(c)'
    <3>1. Machine' /\ pc' = <<"reg_write", 4>> /\ UNCHANGED <<stack, rom>> /\ Values(c, 17)'
      BY <1>1, <2>3, WritesPrefix
    <3>2. InWrite(c)'
      BY <2>1, <3>1 DEF InWrite, AfterCall
    <3>. QED
      BY <1>1, <3>1, <3>2 DEF Inside, Asks
  <2>4. ASSUME pc = <<"reg_write", 4>>, Values(c, 17) PROVE Inside(c)'
    <3>1. Same /\ pc' = <<"reg_status_loop", 1>>
      BY <1>1, <2>4, EndOfWrite, Jumps DEF To
    <3>2. Machine' /\ Values(c, 17)'
      BY <1>1, <2>4, <3>1, Stay, SameMachine DEF Same, SameCells
    <3>3. InPoll(c)'
      BY <2>1, <3>1, <3>2 DEF InPoll, AfterCall, Same
    <3>. QED
      BY <1>1, <3>2, <3>3 DEF Inside, Asks
  <2>. QED
    BY <1>5, <2>2, <2>3, <2>4 DEF InWrite
<1>6. CASE InPoll(c)
  <2>1. PICK i \in 1..3, j \in {5, 17} :
          pc = <<"reg_status_loop", i>> /\ Values(c, j) /\ stack = AfterCall(c, j)
    BY <1>6 DEF InPoll
  <2>2. CASE i \in 1..2
    <3>1. Machine' /\ UNCHANGED <<dev, stack,
          rom>> /\ SameCells /\ \E k \in 1..3 : pc' = <<"reg_status_loop", k>>
      BY <1>1, <2>1, <2>2, PollStep
    <3>2. Values(c, j)'
      BY <2>1, <3>1, Stay
    <3>3. InPoll(c)'
      BY <2>1, <3>1, <3>2 DEF InPoll, AfterCall
    <3>. QED
      BY <1>1, <3>1, <3>3 DEF Inside, Asks
  <2>3. CASE i = 3
    <3>1. stack' = Front(stack) /\ pc' = Last(stack) /\ UNCHANGED <<cell, rom, dev>>
      BY <1>1, <2>1, <2>3, StatusCode, Returning
    <3>2. stack' = c.back /\ pc' = <<"phyocp_reg_addr", j>>
      BY <1>2, <2>1, <3>1, TopOfStack DEF AfterCall
    <3>3. Machine' /\ Values(c, j)'
      BY <1>1, <2>1, <3>1, Stay DEF Machine, SameCells
    <3>4. j \in 1..54 /\ Frame(c, j) = c.back
      BY <2>1 DEF Frame
    <3>5. InRoutine(c)'
      BY <3>2, <3>3, <3>4 DEF InRoutine, Frame
    <3>. QED
      BY <1>1, <3>3, <3>5 DEF Inside, Asks
  <2>. QED
    BY <2>2, <2>3
<1>. QED
  BY <1>3, <1>4, <1>5, <1>6 DEF Inside

-----------------------------------------------------------------------------
(* The caller and its read *)

Addressing == Calls("phyocp_reg_addr")
TheCall == [addr |-> job.addr, port |-> job.port, regs |-> [r \in {7445} |-> job.prefix], log |-> <<>>,
            back |-> << <<"probe", 2>> >>]

(* Where the caller is: before the routine, after it, in its read, and behind. *)
InCaller(c) ==
  /\ Asks(c) /\ Machine
  /\ \/ pc = <<"probe", 1>> /\ stack = <<>> /\ Values(c, 1)
     \/ pc = <<"probe", 2>> /\ stack = <<>> /\ Values(c, 54)
     \/ /\ stack = << <<"probe", 3>> >> /\ Values(c, 54)
        /\ \/ \E i \in 1..3 : pc = <<"reg_read", i>> /\ Addressed(i)
           \/ \E i \in 1..3 : pc = <<"reg_status_loop", i>> /\ dev.ocp = c.addr
     \/ pc = <<"probe", 3>> /\ stack = <<>> /\ Values(c, 54) /\ dev.ocp = c.addr

AddressInv ==
  Addressing => /\ job.addr \in PhyAddress /\ job.port \in 0..7 /\ job.prefix \in Word
                /\ \E c : c = TheCall /\ (InCaller(c) \/ Inside(c))

LEMMA CallAsks ==
  ASSUME job.addr \in PhyAddress, job.port \in 0..7, job.prefix \in Word
  PROVE Asks(TheCall)
<1>1. /\ TheCall.addr = job.addr /\ TheCall.port = job.port /\ TheCall.regs = [x \in {7445} |-> job.prefix]
      /\ TheCall.log = <<>> /\ TheCall.back = << <<"probe", 2>> >>
  BY DEF TheCall
<1>2. 7445 \in Word
  BY WordRange, SMT
<1>4. DOMAIN TheCall.regs \subseteq Word /\ TheCall.regs \in [DOMAIN TheCall.regs -> Word]
  BY <1>1, <1>2
<1>5. TheCall.log \in Seq(Word \X Word)
  BY <1>1
<1>6. \E S : TheCall.back \in Seq(S)
  <2>1. TheCall.back \in Seq({<<"probe", 2>>})
    BY <1>1
  <2>. QED
    BY <2>1
<1>. QED
  BY <1>1, <1>4, <1>5, <1>6 DEF Asks

(* The PHY address that the prefix and the window make is the one asked for. *)
LEMMA Reached ==
  ASSUME NEW c, Asks(c)
  PROVE LET w == Pair(32 + Middle(c), Row(c) + Bottom(c)) IN
        /\ IsPhy(w) /\ OcpAddr(Assign(c.regs, 7445, Prefixed(c)), w) = c.addr
<1>. DEFINE w == Pair(32 + Middle(c), Row(c) + Bottom(c))
            m == Middle(c)
            b == Bottom(c)
            r == Row(c)
            h == AddrHigh(c)
            l == AddrLow(c)
            k == Kept(c)
            p == Prefixed(c)
<1>1. /\ m \in 0..15 /\ b \in 0..31 /\ h \in Byte /\ l \in Byte /\ k \in Byte /\ k % 64 = 0
      /\ Hi(Old(c)) \in Byte /\ c.addr = 256 * h + l /\ c.addr % 2 = 0 /\ r + b \in Byte /\ r = 32 * c.port
      /\ c.port \in 0..7
  BY Fields, Sums, ZenonT(60) DEF Row, Pair, Asks
<1>2. m = (c.addr \div 64) % 16 /\ b = (c.addr \div 2) % 32
  BY DEF Middle, Bottom
<1>3. w = 256 * (32 + m) + (r + b) /\ p = 256 * Hi(Old(c)) + (k + h \div 4)
  BY DEF Pair, Prefixed, NewLow
<1>4. Assign(c.regs, 7445, Prefixed(c))[7445] = p
  BY DEF Assign
<1>. HIDE DEF w, m, b, r, h, l, k, p
<1>5. p % 64 = h \div 4
  <2>. DEFINE q == 4 * Hi(Old(c)) + k \div 64
              e == h \div 4
  <2>0. Hi(Old(c)) \in Int /\ k \in Int /\ k = 64 * (k \div 64) /\ h \in Int /\ 0 <= h /\ h <= 255
    <3>1. k \in Int /\ k % 64 = 0 /\ Hi(Old(c)) \in Int /\ h \in Int /\ 0 <= h /\ h <= 255
      BY <1>1, ByteRange
    <3>. QED
      BY <3>1, SMT
  <2>1. q \in Int /\ e \in Int /\ 0 <= e /\ e <= 63 /\ p = 64 * q + e
    BY <1>3, <2>0, SMT
  <2>. HIDE DEF q, e
  <2>2. p % 64 = e
    BY <2>1, SMT
  <2>. QED
    BY <2>2 DEF e
<1>6. IsPhy(w) /\ (w \div 256) % 16 = m /\ w % 32 = b
  <2>. DEFINE s == r + b
              q == 8 * (32 + m) + c.port
  <2>0. s \in Byte /\ w = 256 * (32 + m) + s
    BY <1>1, <1>3
  <2>4. q \in Int /\ b \in Int /\ 0 <= b /\ b <= 31 /\ w = 32 * q + b
    BY <1>1, <1>3, SMT
  <2>. HIDE DEF s, q
  <2>1. s \in Int /\ 0 <= s /\ s <= 255 /\ m \in Int /\ 0 <= m /\ m <= 15
    <3>1. s \in Int /\ 0 <= s /\ s <= 255
      BY <2>0, ByteRange
    <3>2. m \in 0..15
      BY <1>1
    <3>. QED
      BY <3>1, <3>2, SMT
  <2>2. w \in 8192..12287 /\ w \div 256 = 32 + m
    BY <2>0, <2>1, SMT
  <2>3. w % 32 = b
    BY <2>4, SMT
  <2>. QED
    <3>1. (32 + m) % 16 = m
      BY <2>1, SMT
    <3>. QED
      BY <2>2, <2>3, <3>1 DEF IsPhy
<1>7. 2 * (512 * (h \div 4) + 32 * m + b) = c.addr
  <2>1. h \in Int /\ 0 <= h /\ h <= 255 /\ l \in Int /\ 0 <= l /\ l <= 255
    BY <1>1, ByteRange
  <2>. QED
    BY <1>1, <1>2, <2>1, SMTT(60)
<1>8. OcpAddr(Assign(c.regs, 7445, Prefixed(c)),
      w) = 2 * (512 * (p % 64) + 32 * ((w \div 256) % 16) + (w % 32))
  BY <1>4 DEF OcpAddr
<1>. QED
  BY <1>5, <1>6, <1>7, <1>8 DEF w

(* The read of the caller. *)
LEMMA ReadsPhy ==
  ASSUME NEW c, Asks(c), Machine, Step, pc = <<"reg_read", 3>>, Values(c, 54), Addressed(3)
  PROVE /\ Machine' /\ pc' = <<"reg_status_loop", 1>> /\ UNCHANGED <<stack, rom>> /\ Values(c, 54)'
        /\ dev'.ocp = c.addr
<1>. DEFINE w == Pair(32 + Middle(c), Row(c) + Bottom(c))
            d == [dev EXCEPT !.ocp = OcpAddr(dev.regs, w)]
<1>1. Insn = <<"movi", "INDACC_CMD", 1>> /\ After = <<"reg_status_loop", 1>>
  BY PortCode
<1>2. dev' = IndaccCmd(dev, 1) /\ UNCHANGED cell /\ Onwards
  BY <1>1, Commands
<1>3. IndaccAddr(dev) = w /\ dev.regs = Assign(c.regs, 7445, Prefixed(c))
  BY DEF Addressed, Values, IndaccAddr
<1>4. IsPhy(w) /\ OcpAddr(dev.regs, w) = c.addr
  BY <1>3, Reached
<1>. HIDE DEF w
<1>5. RegRead(dev, w).val = Absent /\ RegRead(dev, w).dev = d
  BY <1>4 DEF RegRead
<1>6. dev' = [d EXCEPT !.sfr["INDACC_RDATA_H"] = Hi(Absent), !.sfr["INDACC_RDATA_L"] = Lo(Absent)]
  BY <1>2, <1>3, <1>5 DEF IndaccCmd
<1>7. Hi(Absent) \in Byte /\ Lo(Absent) \in Byte
  BY ByteRange, SMT DEF Hi, Lo, Absent
<1>8. /\ d.ocp = c.addr /\ d.regs = dev.regs /\ d.log = dev.log /\ d.sfr = dev.sfr /\ DOMAIN d = DOMAIN dev
  BY <1>4 DEF Machine, Switch
<1>. HIDE DEF d
<1>9. /\ dev'.ocp = c.addr /\ dev'.regs = dev.regs /\ dev'.log = dev.log /\ DOMAIN dev' = DOMAIN dev
      /\ dev'.sfr = [dev.sfr EXCEPT !["INDACC_RDATA_H"] = Hi(Absent), !["INDACC_RDATA_L"] = Lo(Absent)]
  BY <1>6, <1>8 DEF Machine, Switch
<1>10. dev'.sfr \in [IndaccFile \cup PedmaFile -> Byte]
  <2>1. dev.sfr \in [IndaccFile \cup PedmaFile -> Byte]
    BY DEF Machine, Switch
  <2>2. [dev.sfr EXCEPT !["INDACC_RDATA_H"] = Hi(Absent)] \in [IndaccFile \cup PedmaFile -> Byte]
    BY <1>7, <2>1
  <2>3. [dev.sfr EXCEPT !["INDACC_RDATA_H"] = Hi(Absent), !["INDACC_RDATA_L"] = Lo(Absent)]
          \in [IndaccFile \cup PedmaFile -> Byte]
    BY <1>7, <2>1, <2>2
  <2>. QED
    BY <1>9, <2>3
<1>11. Machine'
  BY <1>2, <1>9, <1>10 DEF Machine, Switch
<1>12. Values(c, 54)'
  BY <1>2, <1>9 DEF Values
<1>. QED
  BY <1>1, <1>2, <1>9, <1>11, <1>12 DEF Onwards

LEMMA CallerStep ==
  ASSUME NEW c, InCaller(c), c.back = << <<"probe", 2>> >>, Step
  PROVE InCaller(c)' \/ Inside(c)'
<1>1. Asks(c) /\ Machine
  BY DEF InCaller
<1>2. CASE pc = <<"probe", 1>> /\ stack = <<>> /\ Values(c, 1)
  <2>1. Insn = <<"call", "phyocp_reg_addr">> /\ After = <<"probe", 2>>
    BY <1>2, ProbeCode
  <2>2. stack' = << <<"probe", 2>> >> /\ pc' = <<"phyocp_reg_addr", 1>> /\ UNCHANGED <<cell, rom, dev>>
    BY <1>1, <1>2, <2>1, Calling DEF To
  <2>3. Machine' /\ Values(c, 1)'
    BY <1>1, <1>2, <2>2 DEF Machine, Values
  <2>4. stack' = Frame(c, 1) /\ 1 \in 1..54
    BY <2>2 DEF Frame
  <2>5. InRoutine(c)'
    BY <2>2, <2>3, <2>4 DEF InRoutine, Frame
  <2>. QED
    BY <1>1, <2>3, <2>5 DEF Inside, Asks
<1>3. CASE pc = <<"probe", 2>> /\ stack = <<>> /\ Values(c, 54)
  <2>1. Insn = <<"call", "reg_read">> /\ After = <<"probe", 3>>
    BY <1>3, ProbeCode
  <2>2. stack' = << <<"probe", 3>> >> /\ pc' = <<"reg_read", 1>> /\ UNCHANGED <<cell, rom, dev>>
    BY <1>1, <1>3, <2>1, Calling DEF To
  <2>3. Machine' /\ Values(c, 54)'
    BY <1>1, <1>3, <2>2, Stay DEF Machine, SameCells
  <2>4. Addressed(1)'
    BY SMT DEF Addressed
  <2>. QED
    BY <1>1, <2>2, <2>3, <2>4 DEF InCaller, Asks
<1>4. ASSUME NEW i \in 1..3, pc = <<"reg_read", i>>, Addressed(i), stack = << <<"probe", 3>> >>,
      Values(c, 54)
      PROVE InCaller(c)'
  <2>1. CASE i \in 1..2
    <3>1. Machine' /\ pc' = <<"reg_read", i + 1>> /\ UNCHANGED <<cell, psw, stack,
          rom>> /\ Addressed(i + 1)' /\ SameData
      BY <1>1, <1>4, <2>1, AddressStep
    <3>2. Values(c, 54)'
      BY <1>4, <3>1, Stay DEF SameData, SameCells
    <3>3. i + 1 \in 1..3 /\ stack' = << <<"probe", 3>> >>
      BY <1>4, <2>1, <3>1
    <3>. QED
      BY <1>1, <3>1, <3>2, <3>3 DEF InCaller, Asks
  <2>2. CASE i = 3
    <3>1. /\ Machine' /\ pc' = <<"reg_status_loop", 1>> /\ UNCHANGED <<stack, rom>> /\ Values(c, 54)'
          /\ dev'.ocp = c.addr
      BY <1>1, <1>4, <2>2, ReadsPhy
    <3>. QED
      BY <1>1, <1>4, <3>1 DEF InCaller, Asks
  <2>. QED
    BY <2>1, <2>2
<1>5. ASSUME NEW i \in 1..3, pc = <<"reg_status_loop", i>>, dev.ocp = c.addr, stack = << <<"probe",
      3>> >>,
             Values(c, 54)
      PROVE InCaller(c)'
  <2>1. CASE i \in 1..2
    <3>1. Machine' /\ UNCHANGED <<dev, stack,
          rom>> /\ SameCells /\ \E k \in 1..3 : pc' = <<"reg_status_loop", k>>
      BY <1>1, <1>5, <2>1, PollStep
    <3>2. Values(c, 54)'
      BY <1>5, <3>1, Stay
    <3>. QED
      BY <1>1, <1>5, <3>1, <3>2 DEF InCaller, Asks
  <2>2. CASE i = 3
    <3>1. stack' = Front(stack) /\ pc' = Last(stack) /\ UNCHANGED <<cell, rom, dev>>
      BY <1>1, <1>5, <2>2, StatusCode, Returning
    <3>2. stack' = <<>> /\ pc' = <<"probe", 3>>
      <4>1. Front(<< <<"probe", 3>> >>) = <<>> /\ Last(<< <<"probe", 3>> >>) = <<"probe", 3>>
        BY DEF Front, Last
      <4>. QED
        BY <1>5, <3>1, <4>1
    <3>3. Machine' /\ Values(c, 54)'
      BY <1>1, <1>5, <3>1, Stay DEF Machine, SameCells
    <3>. QED
      BY <1>1, <1>5, <3>1, <3>2, <3>3 DEF InCaller, Asks
  <2>. QED
    BY <2>1, <2>2
<1>6. CASE pc = <<"probe", 3>> /\ stack = <<>>
  <2>1. Insn = <<"ret">>
    BY <1>6, ProbeCode
  <2>2. stack # <<>>
    BY <1>1, <2>1, Returning
  <2>. QED
    BY <1>6, <2>2
<1>. QED
  BY <1>2, <1>3, <1>4, <1>5, <1>6 DEF InCaller

LEMMA AddressStepKeeps ==
  ASSUME Addressing, AddressInv, Step, job' = job
  PROVE AddressInv'
<1>1. PICK c : c = TheCall /\ (InCaller(c) \/ Inside(c))
  BY DEF AddressInv
<1>2. c.back = << <<"probe", 2>> >> /\ TheCall' = c
  BY <1>1 DEF TheCall
<1>3. InCaller(c)' \/ Inside(c)'
  <2>1. CASE InCaller(c)
    BY <1>2, <2>1, CallerStep
  <2>2. CASE Inside(c)
    <3>1. Inside(c)' \/ Leaves(c)
      BY <2>2, InsideStep
    <3>2. ASSUME Leaves(c) PROVE InCaller(c)'
      <4>1. Front(<< <<"probe", 2>> >>) = <<>> /\ Last(<< <<"probe", 2>> >>) = <<"probe", 2>>
        BY DEF Front, Last
      <4>2. Machine' /\ Values(c, 54)' /\ pc' = <<"probe", 2>> /\ stack' = <<>>
        BY <1>2, <3>2, <4>1 DEF Leaves
      <4>. QED
        BY <2>2, <4>2 DEF InCaller, Inside, Asks
    <3>. QED
      BY <3>1, <3>2
  <2>. QED
    BY <1>1, <2>1, <2>2
<1>4. \E x : x = TheCall' /\ (InCaller(x)' \/ Inside(x)')
  BY <1>2, <1>3
<1>5. job.addr \in PhyAddress /\ job.port \in 0..7 /\ job.prefix \in Word
  BY DEF AddressInv
<1>. QED
  BY <1>4, <1>5 DEF AddressInv

-----------------------------------------------------------------------------
(* The call, and what holds when it is over *)

(* The call of the caller: the address in DPTR, the port in R7, a prefix. *)
LEMMA AddressInit ==
  ASSUME Init PROVE AddressInv
<1>. SUFFICES ASSUME Addressing PROVE AddressInv
  BY DEF AddressInv
<1>1. AddressCall
  BY DEF Init, Addressing, Calls, PortCall, ListCall, DumpCall, MainCall, TestCall
<1>2. /\ job.addr \in PhyAddress /\ job.port \in 0..7 /\ job.prefix \in Word
      /\ dev = PowerUp([r \in {7445} |-> job.prefix], <<>>)
      /\ pc = <<"probe", 1>> /\ stack = <<>>
  BY <1>1 DEF AddressCall, Enter, To
<1>3. cell = [n \in Cell |-> IF n \in {"DPH", "DPL", "R7"}
                             THEN [DPH |-> Hi(job.addr), DPL |-> Lo(job.addr), R7 |-> job.port][n]
                             ELSE 170]
  BY <1>1 DEF AddressCall, Enter
<1>4. Asks(TheCall)
  BY <1>2, CallAsks
<1>5. PICK c : c = TheCall
  OBVIOUS
<1>6. /\ c.addr = job.addr /\ c.port = job.port /\ c.regs = [r \in {7445} |-> job.prefix] /\ c.log = <<>>
  BY <1>5 DEF TheCall
<1>7. Hi(job.addr) \in Byte /\ Lo(job.addr) \in Byte /\ job.port \in Byte /\ 170 \in Byte /\ 0 \in Byte
  <2>1. job.addr \in Word
    BY <1>2 DEF PhyAddress
  <2>2. job.port \in Byte /\ 170 \in Byte /\ 0 \in Byte
    BY <1>2, ByteRange, SMT
  <2>. QED
    BY <2>1, <2>2, HalvesOfWord
<1>8. cell \in [Cell -> Byte] /\ cell["DPH"] = AddrHigh(c) /\ cell["DPL"] = AddrLow(c) /\ cell["R7"] = c.port
  <2>1. {"DPH", "DPL", "R7"} \subseteq Cell
    BY AddressCellAssumption
  <2>. QED
    BY <1>3, <1>6, <1>7, <2>1 DEF AddrHigh, AddrLow
<1>9. Switch(dev) /\ dev.regs = c.regs /\ dev.log = c.log
  <2>1. DOMAIN dev = {"sfr", "regs", "xram", "ssp", "out", "ti", "log", "ocp"}
    BY <1>2 DEF PowerUp
  <2>2. /\ dev.sfr = [n \in IndaccFile \cup PedmaFile |-> 0] /\ dev.regs = [r \in {7445} |-> job.prefix]
        /\ dev.log = <<>>
    BY <1>2 DEF PowerUp
  <2>3. DOMAIN dev.regs \subseteq Word /\ dev.regs \in [DOMAIN dev.regs -> Word]
    BY <1>4, <1>5, <1>6, <2>2 DEF Asks
  <2>4. dev.sfr \in [IndaccFile \cup PedmaFile -> Byte]
    BY <1>7, <2>2
  <2>5. dev.log \in Seq(Word \X Word)
    BY <2>2
  <2>. QED
    BY <1>6, <2>1, <2>2, <2>3, <2>4, <2>5 DEF Switch
<1>10. Values(c, 1)
  BY <1>8, <1>9 DEF Values
<1>11. InCaller(c)
  BY <1>2, <1>4, <1>5, <1>8, <1>9, <1>10 DEF InCaller, Machine
<1>. QED
  BY <1>2, <1>5, <1>11 DEF AddressInv

(* A routine that is over stays as it is. *)
LEMMA AddressUnmoved ==
  ASSUME AddressInv, UNCHANGED routineVars
  PROVE AddressInv'
<1>. SUFFICES ASSUME Addressing PROVE AddressInv'
  BY DEF AddressInv, Addressing, Calls, routineVars
<1>1. pc' = pc /\ cell' = cell /\ psw' = psw /\ stack' = stack /\ dev' = dev /\ job' = job
  BY DEF routineVars
<1>2. PICK c : c = TheCall /\ (InCaller(c) \/ Inside(c))
  BY DEF AddressInv
<1>3. TheCall' = c
  BY <1>1, <1>2 DEF TheCall
<1>4. Machine' = Machine /\ Asks(c)' = Asks(c)
  BY <1>1 DEF Machine, Asks
<1>5. \A i : Values(c, i)' = Values(c, i)
  BY <1>1 DEF Values
<1>6. \A i : Addressed(i)' = Addressed(i)
  BY <1>1 DEF Addressed
<1>7. InCaller(c)' = InCaller(c)
  BY <1>1, <1>4, <1>5, <1>6 DEF InCaller
<1>8. Inside(c)' = Inside(c)
  BY <1>1, <1>4, <1>5, <1>6 DEF Inside, InRoutine, InRead, InWrite, InPoll, Frame, AfterCall
<1>9. job.addr \in PhyAddress /\ job.port \in 0..7 /\ job.prefix \in Word
  BY DEF AddressInv
<1>. QED
  BY <1>1, <1>2, <1>3, <1>7, <1>8, <1>9 DEF AddressInv

(* Wherever phyocp_reg_addr and its caller are, the cells, the port and the
   return points are what the address, the port and the prefix make them. *)
THEOREM AddressInvariant == Spec => []AddressInv
<1>1. Init => AddressInv
  BY AddressInit
<1>2. AddressInv /\ [NextInsn \/ Finished]_routineVars => AddressInv'
  <2>. SUFFICES ASSUME AddressInv, [NextInsn \/ Finished]_routineVars PROVE AddressInv'
    OBVIOUS
  <2>1. CASE NextInsn
    <3>1. Addressing' <=> Addressing
      BY <2>1 DEF NextInsn, Addressing, Calls
    <3>2. ~Addressing => AddressInv'
      BY <3>1 DEF AddressInv
    <3>3. Addressing => AddressInv'
      BY <2>1, AddressStepKeeps DEF NextInsn
    <3>. QED
      BY <3>2, <3>3
  <2>2. CASE Finished \/ UNCHANGED routineVars
    BY <2>2, AddressUnmoved DEF Finished, Halt, vars, routineVars
  <2>. QED
    BY <2>1, <2>2
<1>. QED
  BY <1>1, <1>2, PTL DEF Spec

(* The bits of 0x1d15 above the prefix stay, and DPTR is in the port's window. *)
LEMMA KeepsUpper ==
  ASSUME NEW c, Asks(c)
  PROVE /\ Prefixed(c) \div 64 = Old(c) \div 64
        /\ Row(c) + Bottom(c) \in (32 * c.port)..(32 * c.port + 31)
        /\ Pair(32 + Middle(c), Row(c) + Bottom(c)) % 256 = Row(c) + Bottom(c)
<1>. DEFINE o == Old(c)
            h == AddrHigh(c)
            p == Prefixed(c)
<1>1. /\ o \in Word /\ Hi(o) \in Byte /\ Lo(o) \in Byte /\ Pair(Hi(o), Lo(o)) = o /\ h \in Byte
      /\ p = Pair(Hi(o), 64 * (Lo(o) \div 64) + h \div 4)
  BY Fields, HalvesOfWord DEF Prefixed, NewLow, Kept
<1>2. p \div 64 = o \div 64
  <2>. DEFINE x == Hi(o)
              y == Lo(o)
              q == 4 * x + y \div 64
              e == h \div 4
              f == y % 64
  <2>0. x \in Int /\ y \in Int /\ 0 <= y /\ y <= 255 /\ h \in Int /\ 0 <= h /\ h <= 255
    BY <1>1, ByteRange
  <2>1. o = 256 * x + y /\ p = 256 * x + (64 * (y \div 64) + e)
    BY <1>1 DEF Pair
  <2>. HIDE DEF x, y, o, p, h
  <2>2. /\ q \in Int /\ e \in Int /\ 0 <= e /\ e <= 63 /\ f \in Int /\ 0 <= f /\ f <= 63
        /\ o = 64 * q + f /\ p = 64 * q + e
    BY <2>0, <2>1, SMT
  <2>. HIDE DEF q, e, f
  <2>3. p \div 64 = q /\ o \div 64 = q
    BY <2>2, SMT
  <2>. QED
    BY <2>3
<1>3. c.port \in 0..7 /\ Bottom(c) \in 0..31 /\ Middle(c) \in 0..15 /\ Row(c) + Bottom(c) \in Byte
  BY Sums DEF Asks
<1>4. Row(c) + Bottom(c) \in (32 * c.port)..(32 * c.port + 31)
  BY <1>3, SMT DEF Row
<1>5. \A m \in 0..15, s \in Byte : (256 * (32 + m) + s) % 256 = s
  BY ByteRange, SMT
<1>. QED
  BY <1>2, <1>3, <1>4, <1>5 DEF Pair

LEMMA ReachesWhenOver == AddressInv => ReachesRegister
<1>. SUFFICES ASSUME AddressInv, Addressing, Over
              PROVE /\ dev.ocp = job.addr
                    /\ Dptr % 256 \in (32 * job.port)..(32 * job.port + 31)
                    /\ Len(dev.log) = 1 /\ dev.regs[7445] \div 64 = job.prefix \div 64
                    /\ cell["R7"] = job.port
  BY DEF ReachesRegister, Addressing
<1>1. PICK c : c = TheCall /\ (InCaller(c) \/ Inside(c))
  BY DEF AddressInv
<1>2. stack = <<>> /\ Insn[1] = "ret"
  BY DEF Over, Op
<1>3. /\ c.addr = job.addr /\ c.port = job.port /\ c.regs = [r \in {7445} |-> job.prefix] /\ c.log = <<>>
      /\ c.back = << <<"probe", 2>> >>
  BY <1>1 DEF TheCall
<1>4. ~Inside(c)
  <2>1. c.back # <<>> /\ c.back \in Seq({<<"probe", 2>>})
    BY <1>3
  <2>2. \A x : Append(c.back, x) # <<>>
    BY <2>1, TopOfStack
  <2>3. \A i : Frame(c, i) # <<>> /\ AfterCall(c, i) # <<>>
    BY <2>1, <2>2 DEF Frame, AfterCall
  <2>. QED
    BY <1>2, <2>3 DEF Inside, InRoutine, InRead, InWrite, InPoll
<1>5. Asks(c) /\ pc = <<"probe", 3>> /\ Values(c, 54) /\ dev.ocp = c.addr
  <2>1. InCaller(c) /\ stack # << <<"probe", 3>> >>
    BY <1>1, <1>2, <1>4
  <2>2. pc # <<"probe", 1>> /\ pc # <<"probe", 2>>
    BY <1>2, ProbeCode
  <2>. QED
    BY <2>1, <2>2 DEF InCaller
<1>6. /\ cell["DPH"] = 32 + Middle(c) /\ cell["DPL"] = Row(c) + Bottom(c) /\ cell["R7"] = c.port
      /\ dev.regs = Assign(c.regs, 7445, Prefixed(c)) /\ dev.log = Append(c.log, <<7445, Prefixed(c)>>)
  BY <1>5 DEF Values
<1>7. Old(c) = job.prefix
  BY <1>3 DEF Old
<1>8. dev.regs[7445] = Prefixed(c) /\ Len(dev.log) = 1
  BY <1>3, <1>6 DEF Assign
<1>. QED
  BY <1>3, <1>5, <1>6, <1>7, <1>8, KeepsUpper DEF Dptr

(* phyocp_reg_addr: for every PHY register, every port and every content of
   register 0x1d15, the access that follows reaches the register asked for, in
   the port's window, and the bits of 0x1d15 above the prefix are kept
   (hello.s:338). *)
THEOREM AddressReached == Spec => []ReachesRegister
  BY AddressInvariant, ReachesWhenOver, PTL

-----------------------------------------------------------------------------
(* Blocks written in parts *)

(* The first n of a list, and those from place m + 1 to n.                    *)
Opens(L, U, s, n) == s \in Seq(U) /\ Len(s) = n /\ \A i \in 1..n : s[i] = L[i]
Goes(L, U, t, m, n) == t \in Seq(U) /\ Len(t) = n - m /\ \A j \in 1..(n - m) : t[j] = L[m + j]

LEMMA Joins ==
  ASSUME NEW L, NEW U, NEW s, NEW t, NEW m \in Nat, NEW n \in Nat, Opens(L, U, s, m), Goes(L, U, t, m, n)
  PROVE Opens(L, U, s \o t, n)
<1>1. s \in Seq(U) /\ t \in Seq(U) /\ Len(s) = m /\ Len(t) = n - m
  BY DEF Opens, Goes
<1>2. /\ s \o t \in Seq(U) /\ Len(s \o t) = m + (n - m)
      /\ \A i \in 1..(m + (n - m)) : (s \o t)[i] = IF i <= m THEN s[i] ELSE t[i - m]
  BY <1>1, Concat, SMT
<1>3. m + (n - m) = n
  BY SMT
<1>4. ASSUME NEW i \in 1..n PROVE (s \o t)[i] = L[i]
  <2>1. CASE i <= m
    BY <1>2, <1>3, <2>1 DEF Opens
  <2>2. CASE ~(i <= m)
    <3>1. i - m \in 1..(n - m) /\ m + (i - m) = i
      BY <2>2, SMT
    <3>. QED
      BY <1>2, <1>3, <2>2, <3>1 DEF Goes
  <2>. QED
    BY <2>1, <2>2
<1>. QED
  BY <1>2, <1>3, <1>4 DEF Opens

-----------------------------------------------------------------------------
(* The text of a dump *)

(* A job of hexdump: where it starts, how many bytes, and from which source.  *)
DumpJob(j) == j.from \in Word /\ j.count - 1 \in Word /\ j.count \in Nat /\ j.source \in 0..2

(* The address of byte i, what is shown for it, and where it is in the text:  *)
(* Body(i) is the place of the blank before it, DumpLength(i) of the address *)
(* before that if it begins a line.                                          *)
Spot(j, i) == Wrap(j.from + i)
Shows(j, i) == ShownFor(j.source, Spot(j, i))
Body(i) == 55 * (i \div 16) + 5 + 3 * (i % 16)
Char(j, k) == LET byte(a) == ShownFor(j.source, a) IN DumpByte(byte, j.from, k)
Sent(j, m) == [k \in 1..m |-> Char(j, k - 1)]

(* The numbers of a job by their bounds.                                     *)
LEMMA JobNumbers ==
  ASSUME NEW j, DumpJob(j)
  PROVE /\ j.from \in Int /\ 0 <= j.from /\ j.from <= 65535
        /\ j.count \in Int /\ 1 <= j.count /\ j.count <= 65536
<1>1. j.from \in Word
  BY SMT DEF DumpJob
<1>2. j.count - 1 \in Word /\ j.count \in Nat
  BY SMT DEF DumpJob
<1>. QED
  BY <1>1, <1>2, WordRange, SMT

(* A place of the text is a line and a column of it.                         *)
LEMMA Columns ==
  ASSUME NEW l \in Nat, NEW c \in Nat, c <= 54
  PROVE (55 * l + c) % 55 = c /\ (55 * l + c) \div 55 = l
  BY SMT

(* Where byte i is in the text, and how the places of byte i and i + 1       *)
(* differ.                                                                   *)
LEMMA Places ==
  ASSUME NEW i \in Nat
  PROVE /\ DumpLength(i) \in Nat /\ Body(i) \in Nat
        /\ i % 16 = 0 => Body(i) = DumpLength(i) + 5
        /\ i % 16 # 0 => Body(i) = DumpLength(i)
        /\ i % 16 # 15 => Body(i) + 3 = DumpLength(i + 1) /\ (i + 1) % 16 = (i % 16) + 1
        /\ i % 16 = 15 => Body(i) + 5 = DumpLength(i + 1) /\ (i + 1) % 16 = 0
<1>. DEFINE l == i \div 16
            c == i % 16
<1>1. l \in Nat /\ c \in 0..15 /\ i = 16 * l + c
  BY SMT
<1>2. DumpLength(i) = 55 * l + (IF c = 0 THEN 0 ELSE 5 + 3 * c) /\ Body(i) = 55 * l + 5 + 3 * c
  BY DEF DumpLength, Body
<1>3. DumpLength(i + 1) = 55 * ((i + 1) \div 16) + (IF (i + 1) % 16 = 0 THEN 0 ELSE 5 + 3 * ((i + 1) % 16))
  BY DEF DumpLength
<1>. HIDE DEF l, c
<1>4. c # 15 => (i + 1) \div 16 = l /\ (i + 1) % 16 = c + 1
  BY <1>1, SMT
<1>5. c = 15 => (i + 1) \div 16 = l + 1 /\ (i + 1) % 16 = 0
  BY <1>1, SMT
<1>6. DumpLength(i) \in Nat /\ Body(i) \in Nat
  BY <1>1, <1>2, SMT
<1>7. c = 0 => Body(i) = DumpLength(i) + 5
  BY <1>1, <1>2, SMT
<1>8. c # 0 => Body(i) = DumpLength(i)
  BY <1>1, <1>2, SMT
<1>9. c # 15 => Body(i) + 3 = DumpLength(i + 1)
  BY <1>1, <1>2, <1>3, <1>4, SMT
<1>10. c = 15 => Body(i) + 5 = DumpLength(i + 1)
  BY <1>1, <1>2, <1>3, <1>5, SMT
<1>. QED
  BY <1>4, <1>5, <1>6, <1>7, <1>8, <1>9, <1>10 DEF c

AddressChar(j, l, c) == (Hex16(Wrap(j.from + 16 * l + 0)) \o <<58>>)[c + 1]
ByteChar(j, l, c) ==
  (Blank \o Hex(ShownFor(j.source, Wrap(j.from + 16 * l + ((c - 5) \div 3)))))[((c - 5) % 3) + 1]

(* The character at a column: of the address, of the end of the line, or of  *)
(* a byte.                                                                   *)
LEMMA CharOf ==
  ASSUME NEW j, NEW l \in Nat, NEW c \in Nat, c <= 54
  PROVE /\ c < 5 => Char(j, 55 * l + c) = AddressChar(j, l, c)
        /\ c > 52 => Char(j, 55 * l + c) = Newline[c - 52]
        /\ ~(c < 5) /\ ~(c > 52) => Char(j, 55 * l + c) = ByteChar(j, l, c)
<1>. DEFINE k == 55 * l + c
<1>1. k % 55 = c /\ k \div 55 = l
  BY Columns
<1>2. Char(j, k) = CASE k % 55 < 5  -> AddressChar(j, k \div 55, k % 55)
                     [] k % 55 > 52 -> Newline[(k % 55) - 52]
                     [] OTHER       -> ByteChar(j, k \div 55, k % 55)
  <2>. HIDE DEF k
  <2>. QED
    BY SMT DEF Char, DumpByte, AddressChar, ByteChar, Wrap
<1>. HIDE DEF k
<1>3. Char(j, k) = CASE c < 5  -> AddressChar(j, l, c)
                     [] c > 52 -> Newline[c - 52]
                     [] OTHER  -> ByteChar(j, l, c)
  BY <1>1, <1>2
<1>4. c < 5 => Char(j, k) = AddressChar(j, l, c)
  BY <1>3, SMT
<1>5. c > 52 => Char(j, k) = Newline[c - 52]
  BY <1>3, SMT
<1>6. ~(c < 5) /\ ~(c > 52) => Char(j, k) = ByteChar(j, l, c)
  BY <1>3, SMT
<1>. QED
  BY <1>4, <1>5, <1>6, Zenon DEF k

(* A byte in the text: a blank and two digits.                               *)
LEMMA HexAt ==
  ASSUME NEW b
  PROVE /\ (Blank \o Hex(b))[0 + 1] = 32 /\ (Blank \o Hex(b))[1 + 1] = Digit(b \div 16)
        /\ (Blank \o Hex(b))[2 + 1] = Digit(b % 16)
<1>. DEFINE S == {32, Digit(b \div 16), Digit(b % 16)}
            t == Blank \o Hex(b)
<1>1. Blank \in Seq(S) /\ Len(Blank) = 1 /\ Blank[1] = 32
  BY DEF Blank
<1>2. Hex(b) \in Seq(S) /\ Len(Hex(b)) = 2 /\ Hex(b)[1] = Digit(b \div 16) /\ Hex(b)[2] = Digit(b % 16)
  BY DEF Hex
<1>. HIDE DEF S
<1>3. \A i \in 1..(1 + 2) : t[i] = IF i <= 1 THEN Blank[i] ELSE Hex(b)[i - 1]
  <2>1. PICK x, y : x = Blank /\ y = Hex(b)
    OBVIOUS
  <2>2. x \in Seq(S) /\ y \in Seq(S) /\ Len(x) = 1 /\ Len(y) = 2
    BY <1>1, <1>2, <2>1
  <2>3. \A i \in 1..(1 + 2) : (x \o y)[i] = IF i <= 1 THEN x[i] ELSE y[i - 1]
    <3>1. \A i \in 1..(Len(x) + Len(y)) : (x \o y)[i] = IF i <= Len(x) THEN x[i] ELSE y[i - Len(x)]
      BY <2>2, Concat, Zenon
    <3>. QED
      BY <2>2, <3>1, Zenon
  <2>. QED
    BY <2>1, <2>3, Zenon
<1>. HIDE DEF t
<1>4. t[1] = Blank[1] /\ t[2] = Hex(b)[1] /\ t[3] = Hex(b)[2]
  BY <1>3, SMT
<1>5. 0 + 1 = 1 /\ 1 + 1 = 2 /\ 2 + 1 = 3
  BY SMT
<1>. QED
  BY <1>1, <1>2, <1>4, <1>5 DEF t

(* An address in the text: four digits and a colon.                          *)
LEMMA AddressAt ==
  ASSUME NEW w
  PROVE LET t == Hex16(w) \o <<58>>
        IN  /\ t[0 + 1] = Digit((w \div 256) \div 16) /\ t[1 + 1] = Digit((w \div 256) % 16)
            /\ t[2 + 1] = Digit((w % 256) \div 16) /\ t[3 + 1] = Digit((w % 256) % 16)
            /\ t[4 + 1] = 58
<1>. DEFINE h == w \div 256
            l == w % 256
            S == {58, Digit(h \div 16), Digit(h % 16), Digit(l \div 16), Digit(l % 16)}
            q == Hex16(w)
            t == q \o <<58>>
<1>1. Hex(h) \in Seq(S) /\ Len(Hex(h)) = 2 /\ Hex(h)[1] = Digit(h \div 16) /\ Hex(h)[2] = Digit(h % 16)
  BY DEF Hex
<1>2. Hex(l) \in Seq(S) /\ Len(Hex(l)) = 2 /\ Hex(l)[1] = Digit(l \div 16) /\ Hex(l)[2] = Digit(l % 16)
  BY DEF Hex
<1>3. q = Hex(h) \o Hex(l)
  BY DEF Hex16
<1>4. <<58>> \in Seq(S) /\ Len(<<58>>) = 1 /\ <<58>>[1] = 58
  OBVIOUS
<1>. HIDE DEF S, h, l, q
<1>5. q \in Seq(S) /\ Len(q) = 2 + 2 /\ \A i \in 1..(2 + 2) : q[i] = IF i <= 2 THEN Hex(h)[i] ELSE Hex(l)[i - 2]
  <2>1. PICK x, y : x = Hex(h) /\ y = Hex(l)
    OBVIOUS
  <2>2. x \in Seq(S) /\ y \in Seq(S) /\ Len(x) = 2 /\ Len(y) = 2
    BY <1>1, <1>2, <2>1
  <2>3. x \o y \in Seq(S) /\ Len(x \o y) = 2 + 2 /\ \A i \in 1..(2 + 2) : (x \o y)[i] = IF i <= 2 THEN x[i] ELSE y[i - 2]
    <3>1. /\ x \o y \in Seq(S) /\ Len(x \o y) = Len(x) + Len(y)
          /\ \A i \in 1..(Len(x) + Len(y)) : (x \o y)[i] = IF i <= Len(x) THEN x[i] ELSE y[i - Len(x)]
      BY <2>2, Concat, Zenon
    <3>. QED
      BY <2>2, <3>1, Zenon
  <2>. QED
    BY <1>3, <2>1, <2>3, Zenon
<1>6. Len(q) = 4 /\ q[1] = Hex(h)[1] /\ q[2] = Hex(h)[2] /\ q[3] = Hex(l)[1] /\ q[4] = Hex(l)[2]
  BY <1>5, SMT
<1>7. \A i \in 1..(4 + 1) : t[i] = IF i <= 4 THEN q[i] ELSE <<58>>[i - 4]
  <2>1. PICK y : y = <<58>>
    OBVIOUS
  <2>2. q \in Seq(S) /\ y \in Seq(S) /\ Len(q) = 4 /\ Len(y) = 1
    BY <1>4, <1>5, <1>6, <2>1
  <2>3. \A i \in 1..(4 + 1) : (q \o y)[i] = IF i <= 4 THEN q[i] ELSE y[i - 4]
    <3>1. \A i \in 1..(Len(q) + Len(y)) : (q \o y)[i] = IF i <= Len(q) THEN q[i] ELSE y[i - Len(q)]
      BY <2>2, Concat, Zenon
    <3>. QED
      BY <2>2, <3>1, Zenon
  <2>. QED
    BY <2>1, <2>3, Zenon
<1>. HIDE DEF t
<1>8. t[1] = q[1] /\ t[2] = q[2] /\ t[3] = q[3] /\ t[4] = q[4] /\ t[5] = <<58>>[1]
  BY <1>7, SMT
<1>9. 0 + 1 = 1 /\ 1 + 1 = 2 /\ 2 + 1 = 3 /\ 3 + 1 = 4 /\ 4 + 1 = 5
  BY SMT
<1>10. /\ t[0 + 1] = Digit(h \div 16) /\ t[1 + 1] = Digit(h % 16) /\ t[2 + 1] = Digit(l \div 16)
       /\ t[3 + 1] = Digit(l % 16) /\ t[4 + 1] = 58
  BY <1>1, <1>2, <1>4, <1>6, <1>8, <1>9
<1>. QED
  BY <1>10 DEF t, h, l, q

(* What the text has for byte i, in these places.                            *)
LEMMA CharsOfByte ==
  ASSUME NEW j, DumpJob(j), NEW i \in Nat
  PROVE /\ Char(j, Body(i)) = 32
        /\ Char(j, Body(i) + 1) = Digit(Shows(j, i) \div 16)
        /\ Char(j, Body(i) + 2) = Digit(Shows(j, i) % 16)
<1>. DEFINE l == i \div 16
            c == i % 16
            t == Blank \o Hex(Shows(j, i))
<1>1. l \in Nat /\ c \in 0..15 /\ i = 16 * l + c
  BY SMT
<1>2. Body(i) = 55 * l + 5 + 3 * c
  BY DEF Body
<1>. HIDE DEF l, c
<1>3. ASSUME NEW e \in 0..2
      PROVE Char(j, Body(i) + e) = t[e + 1]
  <2>1. PICK d : d = 5 + 3 * c + e
    OBVIOUS
  <2>2. d \in Nat /\ d <= 54 /\ ~(d < 5) /\ ~(d > 52) /\ (d - 5) \div 3 = c /\ (d - 5) % 3 = e /\ Body(i) + e = 55 * l + d
    BY <1>1, <1>2, <2>1, SMT
  <2>3. Wrap(j.from + 16 * l + c) = Spot(j, i)
    <3>1. j.from \in Int
      BY JobNumbers
    <3>2. j.from + 16 * l + c = j.from + i
      BY <1>1, <3>1, SMT
    <3>. QED
      BY <3>2, Zenon DEF Spot
  <2>4. Char(j, 55 * l + d) = ByteChar(j, l, d)
    BY <1>1, <2>2, CharOf
  <2>5. ByteChar(j, l, d) = (Blank \o Hex(ShownFor(j.source, Wrap(j.from + 16 * l + c))))[e + 1]
    BY <2>2, Zenon DEF ByteChar
  <2>. QED
    BY <2>2, <2>3, <2>4, <2>5, Zenon DEF Shows
<1>4. t[0 + 1] = 32 /\ t[1 + 1] = Digit(Shows(j, i) \div 16) /\ t[2 + 1] = Digit(Shows(j, i) % 16)
  BY HexAt
<1>. HIDE DEF t
<1>5. Body(i) + 0 = Body(i) /\ 0 \in 0..2 /\ 1 \in 0..2 /\ 2 \in 0..2
  BY <1>1, <1>2, SMT
<1>. QED
  BY <1>3, <1>4, <1>5

(* What the text has at the beginning of a line.                             *)
LEMMA CharsOfAddress ==
  ASSUME NEW j, DumpJob(j), NEW i \in Nat, i % 16 = 0
  PROVE LET m == DumpLength(i)
            w == Spot(j, i)
        IN  /\ Char(j, m) = Digit(Hi(w) \div 16) /\ Char(j, m + 1) = Digit(Hi(w) % 16)
            /\ Char(j, m + 2) = Digit(Lo(w) \div 16) /\ Char(j, m + 3) = Digit(Lo(w) % 16)
            /\ Char(j, m + 4) = 58
<1>. DEFINE l == i \div 16
            m == DumpLength(i)
            w == Spot(j, i)
            t == Hex16(w) \o <<58>>
<1>1. l \in Nat /\ i = 16 * l
  BY SMT
<1>2. m = 55 * l
  <2>1. m = 55 * l + 0
    BY DEF DumpLength
  <2>. HIDE DEF l, m
  <2>. QED
    BY <1>1, <2>1, SMT
<1>3. w = Wrap(j.from + 16 * l + 0)
  <2>1. j.from \in Int
    BY JobNumbers
  <2>. HIDE DEF l
  <2>2. j.from + i = j.from + 16 * l + 0
    BY <1>1, <2>1, SMT
  <2>. QED
    BY <2>2, Zenon DEF Spot
<1>. HIDE DEF l, m, w
<1>4. ASSUME NEW e \in 0..4 PROVE Char(j, m + e) = t[e + 1]
  <2>1. e \in Nat /\ e <= 54 /\ e < 5
    BY SMT
  <2>2. Char(j, 55 * l + e) = AddressChar(j, l, e)
    BY <1>1, <2>1, CharOf
  <2>. QED
    BY <1>2, <1>3, <2>2, Zenon DEF AddressChar
<1>5. /\ t[0 + 1] = Digit((w \div 256) \div 16) /\ t[1 + 1] = Digit((w \div 256) % 16)
      /\ t[2 + 1] = Digit((w % 256) \div 16) /\ t[3 + 1] = Digit((w % 256) % 16) /\ t[4 + 1] = 58
  BY AddressAt
<1>. HIDE DEF t
<1>6. m + 0 = m /\ 0 \in 0..4 /\ 1 \in 0..4 /\ 2 \in 0..4 /\ 3 \in 0..4 /\ 4 \in 0..4
  BY <1>1, <1>2, SMT
<1>7. /\ Char(j, m) = Digit(Hi(w) \div 16) /\ Char(j, m + 1) = Digit(Hi(w) % 16)
      /\ Char(j, m + 2) = Digit(Lo(w) \div 16) /\ Char(j, m + 3) = Digit(Lo(w) % 16)
      /\ Char(j, m + 4) = 58
  BY <1>4, <1>5, <1>6 DEF Hi, Lo
<1>. QED
  BY <1>7 DEF m, w

(* What it has at the end of a full line.                                    *)
LEMMA CharsOfLineEnd ==
  ASSUME NEW j, NEW i \in Nat, i % 16 = 15
  PROVE Char(j, Body(i) + 3) = 13 /\ Char(j, Body(i) + 4) = 10
<1>. DEFINE l == i \div 16
<1>1. l \in Nat
  BY SMT
<1>2. Body(i) = 55 * l + 5 + 3 * 15
  BY DEF Body
<1>. HIDE DEF l
<1>3. Body(i) + 3 = 55 * l + 53 /\ Body(i) + 4 = 55 * l + 54 /\ 53 \in Nat /\ 54 \in Nat /\ 53 <= 54 /\ 54 <= 54 /\ 53 > 52 /\ 54 > 52
      /\ 53 - 52 = 1 /\ 54 - 52 = 2
  BY <1>1, <1>2, SMT
<1>4. Char(j, 55 * l + 53) = Newline[53 - 52] /\ Char(j, 55 * l + 54) = Newline[54 - 52]
  BY <1>1, <1>3, CharOf
<1>5. Newline[1] = 13 /\ Newline[2] = 10
  BY DEF Newline
<1>. QED
  BY <1>3, <1>4, <1>5

(* One more character of it.                                                 *)
LEMMA TextGrows ==
  ASSUME NEW j, NEW m \in Nat, NEW v, v = Char(j, m)
  PROVE Append(Sent(j, m), v) = Sent(j, m + 1)
<1>. DEFINE S == {Char(j, k) : k \in Nat}
            s == Sent(j, m)
            t == Sent(j, m + 1)
<1>1. s \in Seq(S) /\ Len(s) = m /\ \A k \in 1..m : s[k] = Char(j, k - 1)
  <2>1. s \in [1..m -> S] /\ DOMAIN s = 1..m
    <3>1. \A k \in 1..m : k - 1 \in Nat
      BY SMT
    <3>. QED
      BY <3>1 DEF Sent
  <2>2. s \in Seq(S)
    <3>. HIDE DEF s, S
    <3>. QED
      BY <2>1
  <2>3. Len(s) = m
    <3>. HIDE DEF s, S
    <3>. QED
      BY <2>1, <2>2
  <2>. QED
    BY <2>2, <2>3 DEF Sent
<1>2. t \in Seq(S) /\ Len(t) = m + 1 /\ \A k \in 1..(m + 1) : t[k] = Char(j, k - 1)
  <2>1. t \in [1..(m + 1) -> S] /\ DOMAIN t = 1..(m + 1)
    <3>1. \A k \in 1..(m + 1) : k - 1 \in Nat
      BY SMT
    <3>. QED
      BY <3>1 DEF Sent
  <2>2. t \in Seq(S)
    <3>. HIDE DEF t, S
    <3>. QED
      BY <2>1
  <2>3. Len(t) = m + 1
    <3>. HIDE DEF t, S
    <3>. QED
      BY <2>1, <2>2
  <2>. QED
    BY <2>2, <2>3 DEF Sent
<1>3. v \in S
  OBVIOUS
<1>. HIDE DEF S, s, t
<1>4. Append(s, v) \in Seq(S) /\ Len(Append(s, v)) = m + 1
  BY <1>1, <1>3
<1>5. ASSUME NEW k \in 1..(m + 1) PROVE Append(s, v)[k] = t[k]
  <2>1. CASE k = m + 1
    <3>1. k - 1 = m
      BY <2>1, SMT
    <3>2. Append(s, v)[k] = v
      BY <1>1, <2>1
    <3>. QED
      BY <1>2, <3>1, <3>2
  <2>2. CASE k # m + 1
    <3>1. k \in 1..m
      BY <2>2, SMT
    <3>2. Append(s, v)[k] = s[k]
      BY <1>1, <3>1
    <3>. QED
      BY <1>1, <1>2, <3>1, <3>2
  <2>. QED
    BY <2>1, <2>2
<1>6. Append(s, v) = t
  BY <1>2, <1>4, <1>5, SeqEqual
<1>. QED
  BY <1>6 DEF s, t

-----------------------------------------------------------------------------
(* The core at the instructions of a dump *)

(* The forms that Dispatch and DispatchMore have not.                         *)
LEMMA DispatchDump ==
  ASSUME Step
  PROVE /\ Op = "movx_dptr" => Load
        /\ Op = "xch" => Exchange
        /\ Op = "subbi" => Arith
        /\ Op = "dec" => Unary
        /\ Op \in {"jnz", "jc", "jnb"} => Jump
        /\ Op = "djnz" => DecrementJump
        /\ Op \in {"clrb", "setb"} => SetBit
<1>. USE DEF Step, Move, MoveDptr, IncDptr, Load, Store, Exchange, Arith, Logic, Unary, RotateCarry,
         Multiply, SetBit, Jump, CompareJump, DecrementJump, Call, Return, Push, Pop
<1>1. Op = "movx_dptr" => Load
  OBVIOUS
<1>2. Op = "xch" => Exchange
  OBVIOUS
<1>3. Op = "subbi" => Arith
  OBVIOUS
<1>4. Op = "dec" => Unary
  OBVIOUS
<1>5. Op \in {"jnz", "jc", "jnb"} => Jump
  OBVIOUS
<1>6. Op = "djnz" => DecrementJump
  OBVIOUS
<1>7. Op \in {"clrb", "setb"} => SetBit
  OBVIOUS
<1>. HIDE DEF Step, Move, MoveDptr, IncDptr, Load, Store, Exchange, Arith, Logic, Unary, RotateCarry,
         Multiply, SetBit, Jump, CompareJump, DecrementJump, Call, Return, Push, Pop
<1>. QED
  BY <1>1, <1>2, <1>3, <1>4, <1>5, <1>6, <1>7

(* The cells of a dump, and what stays as it is during all of it: a device    *)
(* that is an RTL8367S with the bytes mapped.                                *)
DumpCells == {"A", "B", "DPH", "DPL", "R0", "R1", "R2", "R7"}
Live ==
  /\ DOMAIN dev = {"sfr", "regs", "xram", "ssp", "out", "ti", "log", "ocp"}
  /\ dev.xram = Memory /\ dev.ssp \in Int /\ rom = Memory
  /\ cell \in [Cell -> Byte]

(* No cell that hexdump works on is a register of the board.                 *)
LEMMA DumpHooks ==
  ASSUME Live
  PROVE /\ ~IsRtl8372(dev) /\ BoardHooked(dev) = Hooked
        /\ \A n \in DumpCells : n \notin Hooked
        /\ {"SBUF", "SSPL", "SSPH", "SSIO"} \subseteq Hooked
  BY DEF Live, IsRtl8372, BoardHooked, Hooked, IndaccFile, PedmaFile, DumpCells

(* They are cells, and read as what they hold.                               *)
LEMMA DumpPlain ==
  ASSUME Live, NEW n \in DumpCells
  PROVE /\ n \in Cell /\ n \notin BoardHooked(dev) /\ cell[n] \in Byte
        /\ Read(n) = cell[n] /\ AfterGet(dev, n) = dev
<1>1. n \in Cell
  BY DumpCellAssumption DEF DumpCells
<1>2. cell[n] \in Byte
  BY <1>1 DEF Live
<1>3. n \notin BoardHooked(dev)
  BY DumpHooks
<1>4. AfterGet(dev, n) = dev
  BY DEF AfterGet, DumpCells
<1>. QED
  BY <1>1, <1>2, <1>3, <1>4 DEF Read

(* Byte arithmetic modulo 256 in the form the core has it.                     *)
LEMMA WrapsByte == \A x : x \in Int => x % 256 \in Byte
<1>1. \A x : x \in Int => x % 256 \in Int /\ 0 <= x % 256 /\ x % 256 <= 255
  BY SMT
<1>. QED
  BY <1>1, ByteRange

(* A step that gives one cell a value and changes no other, nor the device.   *)
Makes(n, v) == /\ Live' /\ Onwards /\ UNCHANGED dev
               /\ \A k \in DumpCells : (cell[k])' = IF k = n THEN v ELSE cell[k]

LEMMA Making ==
  ASSUME Live, NEW n \in DumpCells, NEW v \in Byte, cell' = [cell EXCEPT ![n] = v], dev' = dev, Onwards
  PROVE Makes(n, v)
<1>1. \A k \in DumpCells : k \in Cell
  BY DumpPlain
<1>2. rom' = rom
  BY DEF Onwards
<1>3. Live'
  BY <1>2 DEF Live
<1>4. \A k \in DumpCells : (cell[k])' = IF k = n THEN v ELSE cell[k]
  BY <1>1 DEF Live
<1>. QED
  BY <1>3, <1>4 DEF Makes

(* A move from cell to cell.                                                 *)
LEMMA MakesCopy ==
  ASSUME Live, Step, NEW m \in DumpCells, NEW n \in DumpCells, Insn = <<"movx", m, n>>
  PROVE Makes(m, cell[n]) /\ psw' = psw
<1>1. Move
  BY Dispatch DEF Op
<1>2. cell' = [cell EXCEPT ![m] = cell[n]] /\ dev' = dev /\ Onwards /\ psw' = psw
  BY <1>1, DumpPlain DEF Move, Op, Write, Onwards
<1>. QED
  BY <1>2, DumpPlain, Making DEF Makes

(* A move of a constant.                                                     *)
LEMMA MakesByte ==
  ASSUME Live, Step, NEW m \in DumpCells, NEW v \in Byte, Insn = <<"movi", m, v>>
  PROVE Makes(m, v) /\ psw' = psw
<1>1. Move
  BY Dispatch DEF Op
<1>2. cell' = [cell EXCEPT ![m] = v] /\ dev' = dev /\ Onwards /\ psw' = psw
  BY <1>1, DumpPlain DEF Move, Op, Write, Onwards
<1>. QED
  BY <1>2, Making

(* SWAP as arithmetic.                                                       *)
LEMMA Swapped ==
  ASSUME Live, Step, Insn = <<"xch", "B">>
  PROVE /\ Live' /\ Onwards /\ UNCHANGED <<dev, psw>>
        /\ \A k \in DumpCells : (cell[k])' = IF k = "A" THEN cell["B"] ELSE IF k = "B" THEN A ELSE cell[k]
<1>1. Exchange
  BY DispatchDump DEF Op
<1>2. cell' = [cell EXCEPT !["A"] = cell["B"], !["B"] = A] /\ dev' = dev /\ Onwards /\ psw' = psw
  BY <1>1 DEF Exchange, Op, Onwards
<1>3. "A" \in DumpCells /\ "B" \in DumpCells
  BY DEF DumpCells
<1>4. A \in Byte /\ cell["B"] \in Byte /\ \A k \in DumpCells : k \in Cell
  BY <1>3, DumpPlain DEF A
<1>. QED
  BY <1>2, <1>4 DEF Live, Onwards

(* The other instructions that compute into A.                               *)
LEMMA MakesLogic ==
  ASSUME Live, Step
  PROVE /\ Insn = <<"swap">> => Makes("A", (A \div 16) + 16 * (A % 16)) /\ psw' = psw
        /\ Insn = <<"anli", 15>> => Makes("A", BitAnd(A, 15)) /\ psw' = psw
        /\ Insn = <<"orlx", "R1">> => Makes("A", BitOr(A, cell["R1"])) /\ psw' = psw
        /\ Insn = <<"dec", "A">> => Makes("A", (A - 1) % 256) /\ psw' = psw
<1>1. "A" \in DumpCells /\ "R1" \in DumpCells
  BY DEF DumpCells
<1>2. A \in Byte /\ cell["R1"] \in Byte /\ 15 \in Byte
  BY <1>1, DumpPlain, ByteRange, SMT DEF A
<1>3. ASSUME Insn = <<"swap">> PROVE Makes("A", (A \div 16) + 16 * (A % 16)) /\ psw' = psw
  <2>1. Unary /\ Op = "swap"
    BY <1>3, DispatchMore DEF Op
  <2>2. cell' = [cell EXCEPT !["A"] = Swap(A)] /\ dev' = dev /\ Onwards /\ psw' = psw
    BY <2>1 DEF Unary, Onwards, A
  <2>3. (A \div 16) + 16 * (A % 16) \in Byte
    BY <1>2, ByteRange, SMT
  <2>. QED
    BY <1>1, <2>2, <2>3, Making DEF Makes, Swap
<1>4. ASSUME Insn = <<"anli", 15>> PROVE Makes("A", BitAnd(A, 15)) /\ psw' = psw
  <2>1. Logic
    BY <1>4, DispatchMore DEF Op
  <2>2. cell' = [cell EXCEPT !["A"] = BitAnd(A, 15)] /\ dev' = dev /\ Onwards /\ psw' = psw
    BY <1>4, <2>1 DEF Logic, Op, Onwards
  <2>. QED
    BY <1>1, <1>2, <2>2, BitBounds, Making DEF Makes
<1>5. ASSUME Insn = <<"orlx", "R1">> PROVE Makes("A", BitOr(A, cell["R1"])) /\ psw' = psw
  <2>1. Logic
    BY <1>5, DispatchMore DEF Op
  <2>2. cell' = [cell EXCEPT !["A"] = BitOr(A, cell["R1"])] /\ dev' = dev /\ Onwards /\ psw' = psw
    BY <1>1, <1>5, <2>1, DumpPlain DEF Logic, Op, Onwards
  <2>. QED
    BY <1>1, <1>2, <2>2, BitBounds, Making DEF Makes
<1>6. ASSUME Insn = <<"dec", "A">> PROVE Makes("A", (A - 1) % 256) /\ psw' = psw
  <2>1. Unary /\ Op = "dec" /\ Insn[2] = "A"
    BY <1>6, DispatchDump DEF Op
  <2>2. cell' = [cell EXCEPT !["A"] = (A - 1) % 256] /\ dev' = dev /\ Onwards /\ psw' = psw
    BY <2>1 DEF Unary, Onwards, A
  <2>3. (A - 1) % 256 \in Byte
    BY <1>2, ByteRange, WrapsByte, SMT
  <2>. QED
    BY <1>1, <2>2, <2>3, Making DEF Makes
<1>. QED
  BY <1>3, <1>4, <1>5, <1>6

(* Flags: only C and F0 count, and only SETB and CLR change F0.               *)
Asked == "F0" \in psw
AskedSame == Asked' <=> Asked

(* SUBB of a constant: the difference and the borrow.                        *)
LEMMA MakesDifference ==
  ASSUME Live, Step, NEW v \in Byte, Insn = <<"subbi", v>>
  PROVE /\ Makes("A", (A - v - Carry(psw)) % 256) /\ AskedSame
        /\ "C" \in psw' <=> v + Carry(psw) > A
<1>1. "A" \in DumpCells
  BY DEF DumpCells
<1>2. A \in Byte
  BY <1>1, DumpPlain DEF A
<1>3. Arith /\ Op = "subbi" /\ Insn[2] = v
  BY DispatchDump DEF Op
<1>4. Operand = v
  BY <1>3 DEF Operand
<1>5. /\ cell' = [cell EXCEPT !["A"] = SubB(A, v, psw).acc] /\ psw' = SubB(A, v, psw).psw
      /\ dev' = dev /\ Onwards
  BY <1>3, <1>4 DEF Arith, Onwards
<1>6. /\ cell' = [cell EXCEPT !["A"] = (A - v - Carry(psw)) % 256]
      /\ psw' = (psw \ {"C", "AC", "OV"})
                   \cup When(v + Carry(psw) > A, "C")
                   \cup When((v + Carry(psw)) % 16 > A % 16, "AC")
                   \cup When(Overflow(Signed(A) - Signed(v) - Carry(psw)), "OV")
  BY <1>5 DEF SubB
<1>7. AskedSame /\ ("C" \in psw' <=> v + Carry(psw) > A)
  BY <1>6 DEF AskedSame, Asked, When
<1>8. (A - v - Carry(psw)) % 256 \in Byte
  <2>1. Carry(psw) \in {0, 1}
    BY DEF Carry
  <2>2. A - v - Carry(psw) \in Int
    BY <1>2, <2>1, ByteRange, SMT
  <2>. QED
    BY <2>2, WrapsByte
<1>9. cell' = [cell EXCEPT !["A"] = (A - v - Carry(psw)) % 256] /\ dev' = dev /\ Onwards
  BY <1>5, <1>6
<1>10. Makes("A", (A - v - Carry(psw)) % 256)
  BY <1>1, <1>8, <1>9, Making DEF Makes
<1>. QED
  BY <1>7, <1>10

(* ADD and ADDC of a constant: the sum and the carry.                        *)
LEMMA MakesSum ==
  ASSUME Live, Step, NEW v \in Byte, NEW c \in {0, 1},
         \/ Insn = <<"addi", v>> /\ c = 0
         \/ Insn = <<"addci", v>> /\ c = Carry(psw)
  PROVE /\ Makes("A", (A + v + c) % 256) /\ AskedSame
        /\ "C" \in psw' <=> A + v + c > 255
<1>1. "A" \in DumpCells
  BY DEF DumpCells
<1>2. A \in Byte
  BY <1>1, DumpPlain DEF A
<1>3. Arith /\ Op \in {"addi", "addci"} /\ Insn[2] = v
  BY DispatchMore DEF Op
<1>4. Operand = v
  BY <1>3 DEF Operand
<1>5. \E s : /\ cell' = [cell EXCEPT !["A"] = AddC(A, v, s).acc] /\ psw' = AddC(A, v, s).psw
             /\ dev' = dev /\ Onwards /\ Carry(s) = c /\ (("F0" \in s) <=> ("F0" \in psw))
  <2>1. CASE Op = "addi"
    <3>1. c = 0 /\ Carry(psw \ {"C"}) = 0 /\ (("F0" \in psw \ {"C"}) <=> ("F0" \in psw))
      BY <2>1 DEF Op, Carry
    <3>2. /\ cell' = [cell EXCEPT !["A"] = Add(A, v, psw).acc] /\ psw' = Add(A, v, psw).psw
          /\ dev' = dev /\ Onwards
      BY <1>3, <1>4, <2>1 DEF Arith, Onwards
    <3>. QED
      BY <3>1, <3>2, Zenon DEF Add
  <2>2. CASE Op = "addci"
    <3>1. c = Carry(psw)
      BY <2>2 DEF Op
    <3>2. /\ cell' = [cell EXCEPT !["A"] = AddC(A, v, psw).acc] /\ psw' = AddC(A, v, psw).psw
          /\ dev' = dev /\ Onwards
      BY <1>3, <1>4, <2>2 DEF Arith, Onwards
    <3>. QED
      BY <3>1, <3>2, Zenon
  <2>. QED
    BY <1>3, <2>1, <2>2
<1>6. PICK s : /\ cell' = [cell EXCEPT !["A"] = AddC(A, v, s).acc] /\ psw' = AddC(A, v, s).psw
               /\ dev' = dev /\ Onwards /\ Carry(s) = c /\ (("F0" \in s) <=> ("F0" \in psw))
  BY <1>5
<1>7. /\ cell' = [cell EXCEPT !["A"] = (A + v + c) % 256]
      /\ psw' = (s \ {"C", "AC", "OV"})
                   \cup When(A + v + c > 255, "C")
                   \cup When((A % 16) + (v % 16) + c > 15, "AC")
                   \cup When(Overflow(Signed(A) + Signed(v) + c), "OV")
  BY <1>6 DEF AddC
<1>8. AskedSame /\ ("C" \in psw' <=> A + v + c > 255)
  BY <1>6, <1>7 DEF AskedSame, Asked, When
<1>9. (A + v + c) % 256 \in Byte
  <2>2. A + v + c \in Int
    BY <1>2, ByteRange, SMT
  <2>. QED
    BY <2>2, WrapsByte
<1>10. cell' = [cell EXCEPT !["A"] = (A + v + c) % 256] /\ dev' = dev /\ Onwards
  BY <1>6, <1>7
<1>11. Makes("A", (A + v + c) % 256)
  BY <1>1, <1>9, <1>10, Making DEF Makes
<1>. QED
  BY <1>8, <1>11

(* Steps that change a flag, go to a place, or neither.                       *)
Still == Live' /\ UNCHANGED <<cell, dev, rom>>

(* A step that changes no cell, nor the device nor code memory.              *)
LEMMA Stills ==
  ASSUME Live, UNCHANGED <<cell, dev, rom>>
  PROVE Still
  BY DEF Live, Still

(* CLR C changes the carry only.                                             *)
LEMMA ClearsCarry ==
  ASSUME Live, Step, Insn = <<"clrb", "C">>
  PROVE Still /\ Onwards /\ "C" \notin psw' /\ AskedSame
<1>1. SetBit /\ Op = "clrb" /\ Insn[2] = "C" /\ "C" \in Flag
  BY DispatchDump DEF Op, Flag
<1>2. UNCHANGED <<cell, dev, rom>> /\ Onwards /\ psw' = (psw \ {"C"}) \cup When(Op = "setb", "C")
  BY <1>1 DEF SetBit, Onwards
<1>. QED
  BY <1>1, <1>2, Stills DEF When, AskedSame, Asked

(* SETB F0 and CLR F0 say whether a line begins.                             *)
LEMMA SetsAsked ==
  ASSUME Live, Step, NEW o \in {"clrb", "setb"}, Insn = <<o, "F0">>
  PROVE Still /\ Onwards /\ (Asked' <=> o = "setb")
<1>1. SetBit /\ Op = o /\ Insn[2] = "F0" /\ "F0" \in Flag
  BY DispatchDump DEF Op, Flag
<1>2. UNCHANGED <<cell, dev, rom>> /\ Onwards /\ psw' = (psw \ {"F0"}) \cup When(o = "setb", "F0")
  BY <1>1 DEF SetBit, Onwards
<1>. QED
  BY <1>2, Stills DEF When, Asked

(* The branches of hexdump and what each tests.                              *)
LEMMA Branches ==
  ASSUME Live, Step, NEW l
  PROVE /\ Insn = <<"jz", l>> => Still /\ UNCHANGED <<psw, stack>> /\ pc' = IF A = 0 THEN To(l) ELSE After
        /\ Insn = <<"jnz", l>> => Still /\ UNCHANGED <<psw, stack>> /\ pc' = IF A # 0 THEN To(l) ELSE After
        /\ Insn = <<"jc", l>> => Still /\ UNCHANGED <<psw, stack>> /\ pc' = IF "C" \in psw THEN To(l) ELSE After
        /\ Insn = <<"jnb", "F0", l>> => Still /\ UNCHANGED <<psw, stack>> /\ pc' = IF Asked THEN After ELSE To(l)
        /\ Insn = <<"jnb", "TI", l>> => Still /\ UNCHANGED <<psw, stack>> /\ pc' = IF dev.ti THEN After ELSE To(l)
<1>1. Bit("F0") = Asked /\ Bit("TI") = dev.ti
  BY DEF Bit, Flag, Asked
<1>2. Jump => UNCHANGED <<cell, psw, stack, rom, dev>>
  BY DEF Jump, Data
<1>3. Insn = <<"jz", l>> => Jump /\ Op = "jz" /\ Insn[2] = l
  BY Dispatch DEF Op
<1>4. Insn = <<"jnz", l>> => Jump /\ Op = "jnz" /\ Insn[2] = l
  BY DispatchDump DEF Op
<1>5. Insn = <<"jc", l>> => Jump /\ Op = "jc" /\ Insn[2] = l
  BY DispatchDump DEF Op
<1>6. Insn = <<"jnb", "F0", l>> => Jump /\ Op = "jnb" /\ Insn[2] = "F0" /\ Insn[3] = l
  BY DispatchDump DEF Op
<1>7. Insn = <<"jnb", "TI", l>> => Jump /\ Op = "jnb" /\ Insn[2] = "TI" /\ Insn[3] = l
  BY DispatchDump DEF Op
<1>8. Insn = <<"jz", l>> => pc' = IF A = 0 THEN To(l) ELSE After
  BY <1>3 DEF Jump, Branch
<1>9. Insn = <<"jnz", l>> => pc' = IF A # 0 THEN To(l) ELSE After
  BY <1>4 DEF Jump, Branch
<1>10. Insn = <<"jc", l>> => pc' = IF "C" \in psw THEN To(l) ELSE After
  BY <1>5 DEF Jump, Branch
<1>11. Insn = <<"jnb", "F0", l>> => pc' = IF Asked THEN After ELSE To(l)
  <2>1. Insn = <<"jnb", "F0", l>> => pc' = IF ~Bit("F0") THEN To(l) ELSE After
    BY <1>6, Zenon DEF Jump, Branch
  <2>. QED
    BY <1>1, <2>1
<1>12. Insn = <<"jnb", "TI", l>> => pc' = IF dev.ti THEN After ELSE To(l)
  <2>1. Insn = <<"jnb", "TI", l>> => pc' = IF ~Bit("TI") THEN To(l) ELSE After
    BY <1>7, Zenon DEF Jump, Branch
  <2>. QED
    BY <1>1, <2>1
<1>. QED
  BY <1>2, <1>3, <1>4, <1>5, <1>6, <1>7, <1>8, <1>9, <1>10, <1>11, <1>12, Stills

(* A call puts the next instruction on the stack.                            *)
LEMMA DumpCalls ==
  ASSUME Live, Step, NEW l, Insn = <<"call", l>>
  PROVE Still /\ psw' = psw /\ pc' = To(l) /\ stack' = Append(stack, After)
<1>1. Call /\ Insn[2] = l
  BY Dispatch DEF Op
<1>. QED
  BY <1>1, Stills DEF Call

(* A return takes it off.                                                    *)
LEMMA DumpReturns ==
  ASSUME Live, Step, Insn = <<"ret">>
  PROVE Still /\ psw' = psw /\ stack # <<>> /\ pc' = Last(stack) /\ stack' = Front(stack)
<1>1. Return
  BY Dispatch DEF Op
<1>. QED
  BY <1>1, Stills DEF Return

(* DPTR is a word, and so is what INC DPTR leaves in it.                      *)
LEMMA DumpPointer ==
  ASSUME Live
  PROVE Dptr \in Word /\ Hi(Dptr) = cell["DPH"] /\ Lo(Dptr) = cell["DPL"]
<1>1. cell["DPH"] \in Byte /\ cell["DPL"] \in Byte
  BY DumpPlain DEF DumpCells
<1>. QED
  BY <1>1, PairIsWord DEF Dptr

(* An address that wraps is a word.                                          *)
LEMMA WrapIsWord == \A x : x \in Int => Wrap(x) \in Word
<1>1. \A x : x \in Int => x % 65536 \in Int /\ 0 <= x % 65536 /\ x % 65536 <= 65535
  BY SMT
<1>. QED
  BY <1>1, WordRange, SMT DEF Wrap

(* INC DPTR, over both halves.                                               *)
LEMMA NextAddress ==
  ASSUME Live, Step, Insn = <<"inc_dptr">>
  PROVE /\ Live' /\ Onwards /\ UNCHANGED <<dev, psw>> /\ Dptr' = Wrap(Dptr + 1)
        /\ \A k \in DumpCells : k \notin {"DPH", "DPL"} => (cell[k])' = cell[k]
<1>1. IncDptr
  BY Dispatch DEF Op
<1>. DEFINE w == Wrap(Dptr + 1)
<1>2. cell' = [cell EXCEPT !["DPH"] = Hi(w), !["DPL"] = Lo(w)] /\ dev' = dev /\ psw' = psw /\ Onwards
  BY <1>1 DEF IncDptr, Onwards
<1>3. w \in Word
  <2>1. Dptr + 1 \in Int
    BY DumpPointer, WordRange, SMT
  <2>. QED
    BY <2>1, WrapIsWord
<1>. HIDE DEF w
<1>4. Hi(w) \in Byte /\ Lo(w) \in Byte /\ Pair(Hi(w), Lo(w)) = w
  BY <1>3, HalvesOfWord
<1>5. \A k \in DumpCells : k \in Cell
  BY DumpPlain
<1>6. "DPH" \in DumpCells /\ "DPL" \in DumpCells
  BY DEF DumpCells
<1>7. Live'
  BY <1>2, <1>4, <1>5 DEF Live, Onwards
<1>8. (cell["DPH"])' = Hi(w) /\ (cell["DPL"])' = Lo(w)
  BY <1>2, <1>5, <1>6 DEF Live
<1>9. \A k \in DumpCells : k \notin {"DPH", "DPL"} => (cell[k])' = cell[k]
  BY <1>2, <1>5 DEF Live
<1>10. Dptr' = w
  BY <1>4, <1>8 DEF Dptr
<1>. QED
  BY <1>2, <1>7, <1>9, <1>10 DEF w

(* DJNZ R2: one byte less in the line, and a branch unless none is left.     *)
LEMMA CountsLine ==
  ASSUME Live, Step, NEW l, Insn = <<"djnz", "R2", l>>
  PROVE LET n == (cell["R2"] - 1) % 256
        IN  /\ Live' /\ UNCHANGED <<dev, psw, stack>> /\ pc' = IF n # 0 THEN To(l) ELSE After
            /\ \A k \in DumpCells : (cell[k])' = IF k = "R2" THEN n ELSE cell[k]
<1>. DEFINE n == (cell["R2"] - 1) % 256
<1>1. DecrementJump /\ Insn[2] = "R2" /\ Insn[3] = l
  BY DispatchDump DEF Op
<1>2. /\ cell' = [cell EXCEPT !["R2"] = n] /\ pc' = IF n # 0 THEN To(l) ELSE After
      /\ UNCHANGED <<dev, psw, stack, rom>>
  BY <1>1 DEF DecrementJump, Branch
<1>3. n \in Byte
  <2>1. cell["R2"] \in Byte
    BY DumpPlain DEF DumpCells
  <2>2. cell["R2"] - 1 \in Int
    BY <2>1, ByteRange, SMT
  <2>. QED
    BY <2>2, WrapsByte
<1>4. \A k \in DumpCells : k \in Cell
  BY DumpPlain
<1>. HIDE DEF n
<1>5. Live' /\ \A k \in DumpCells : (cell[k])' = IF k = "R2" THEN n ELSE cell[k]
  BY <1>2, <1>3, <1>4 DEF Live
<1>. QED
  BY <1>2, <1>5 DEF n

(* The bytes there are, in code memory and in XRAM.                           *)
LEMMA MappedByte ==
  ASSUME NEW a
  PROVE Mapped(a) \in Byte
<1>1. 255 \in Byte
  BY ByteRange, SMT
<1>2. a \in DOMAIN Memory => Memory[a] \in Byte
  BY MemoryAssumption
<1>. QED
  BY <1>1, <1>2 DEF Mapped

(* MOVC and MOVX read the byte mapped at DPTR.                               *)
LEMMA MakesMapped ==
  ASSUME Live, Step, (Insn = <<"movc">> /\ A = 0) \/ Insn = <<"movx_dptr">>
  PROVE Makes("A", Mapped(Dptr)) /\ psw' = psw
<1>. DEFINE code(a) == IF IsRtl8372(dev) THEN Code72(dev, a) ELSE IF a \in DOMAIN rom THEN rom[a] ELSE 255
<1>1. Load
  BY Dispatch, DispatchDump DEF Op
<1>2. /\ cell' = [cell EXCEPT !["A"] = IF Op = "movc" THEN code(Wrap(Dptr + A)) ELSE BoardXram(dev, Dptr)]
      /\ dev' = dev /\ psw' = psw /\ Onwards
  BY <1>1, Zenon DEF Load, Onwards
<1>3. \A a : code(a) = Mapped(a) /\ BoardXram(dev, a) = Mapped(a)
  BY DumpHooks DEF Live, BoardXram, Xram, Mapped
<1>4. Op = "movc" => Wrap(Dptr + A) = Dptr
  <2>1. Dptr \in Word
    BY DumpPointer
  <2>2. A = 0 => Dptr + A = Dptr
    BY <2>1, WordRange, SMT
  <2>. QED
    BY <2>1, <2>2, WrapsNot DEF Op
<1>4a. Op = "movc" \/ Op = "movx_dptr"
  BY DEF Op
<1>5. cell' = [cell EXCEPT !["A"] = Mapped(Dptr)]
  <2>1. CASE Op = "movc"
    <3>1. cell' = [cell EXCEPT !["A"] = code(Wrap(Dptr + A))]
      BY <1>2, <2>1
    <3>. HIDE DEF code
    <3>. QED
      BY <1>3, <1>4, <2>1, <3>1
  <2>2. CASE Op = "movx_dptr"
    <3>1. cell' = [cell EXCEPT !["A"] = BoardXram(dev, Dptr)]
      BY <1>2, <2>2
    <3>. HIDE DEF code
    <3>. QED
      BY <1>3, <3>1
  <2>. QED
    BY <1>4a, <2>1, <2>2
<1>6. Mapped(Dptr) \in Byte
  BY MappedByte
<1>7. "A" \in DumpCells
  BY DEF DumpCells
<1>. QED
  BY <1>2, <1>5, <1>6, <1>7, Making DEF Makes

(* The serial port: TI is cleared, and a byte is sent, which sets it.         *)
LEMMA ClearsSent ==
  ASSUME Live, Step, Insn = <<"clrb", "TI">>
  PROVE Live' /\ Onwards /\ UNCHANGED <<cell, psw>> /\ (dev.out)' = dev.out
<1>1. SetBit /\ Insn[2] = "TI" /\ "TI" \notin Flag
  BY DispatchDump DEF Op, Flag
<1>2. dev' = [dev EXCEPT !.ti = Op = "setb"] /\ UNCHANGED <<cell, psw>> /\ Onwards
  BY <1>1 DEF SetBit, Onwards
<1>. QED
  BY <1>2 DEF Live, Onwards

(* A write of SBUF sends A.                                                  *)
LEMMA Sends ==
  ASSUME Live, Step, Insn = <<"movx", "SBUF", "A">>
  PROVE Live' /\ Onwards /\ UNCHANGED <<cell, psw>> /\ (dev.out)' = Append(dev.out, A) /\ (dev.ti)' = TRUE
<1>1. Move /\ Op = "movx" /\ Insn[2] = "SBUF" /\ Insn[3] = "A"
  BY Dispatch DEF Op
<1>2. Read("A") = A /\ AfterGet(dev, "A") = dev
  BY DumpPlain DEF DumpCells, A
<1>3. "SBUF" \in BoardHooked(dev) /\ BoardPut(dev, "SBUF", A) = Transmit(dev, A)
  BY DumpHooks DEF BoardPut, Put, IndaccFile, PedmaFile
<1>4. dev' = [dev EXCEPT !.out = Append(@, A), !.ti = TRUE] /\ UNCHANGED <<cell, psw>> /\ Onwards
  BY <1>1, <1>2, <1>3 DEF Move, Write, Onwards, Transmit
<1>. QED
  BY <1>4 DEF Live, Onwards

(* The second stack: its pointer, a byte at a time, and the byte it points to. *)
LEMMA PointsStack ==
  ASSUME Live, Step
  PROVE /\ Insn = <<"movx", "SSPL", "A">> =>
             /\ Live' /\ Onwards /\ UNCHANGED <<cell, psw>> /\ (dev.out)' = dev.out
             /\ (dev.ssp)' = Pair(Hi(dev.ssp), A)
        /\ Insn = <<"movx", "SSPH", "A">> =>
             /\ Live' /\ Onwards /\ UNCHANGED <<cell, psw>> /\ (dev.out)' = dev.out
             /\ (dev.ssp)' = Pair(A, Lo(dev.ssp))
<1>1. Read("A") = A /\ AfterGet(dev, "A") = dev /\ A \in Byte
  BY DumpPlain DEF DumpCells, A
<1>2. "SSPL" \in BoardHooked(dev) /\ BoardPut(dev, "SSPL", A) = SetSspl(dev, A)
  BY DumpHooks DEF BoardPut, Put, IndaccFile, PedmaFile
<1>3. "SSPH" \in BoardHooked(dev) /\ BoardPut(dev, "SSPH", A) = SetSsph(dev, A)
  BY DumpHooks DEF BoardPut, Put, IndaccFile, PedmaFile
<1>4. Pair(Hi(dev.ssp), A) \in Int /\ Pair(A, Lo(dev.ssp)) \in Int
  <2>1. dev.ssp \in Int
    BY DEF Live
  <2>2. PICK x, a : x = dev.ssp /\ a = A
    OBVIOUS
  <2>3. x \in Int /\ a \in Int
    BY <1>1, <2>1, <2>2, ByteRange
  <2>4. Pair(Hi(x), a) \in Int /\ Pair(a, Lo(x)) \in Int
    BY <2>3, SMT DEF Pair, Hi, Lo
  <2>. QED
    BY <2>2, <2>4
<1>5. ASSUME Insn = <<"movx", "SSPL", "A">>
      PROVE /\ Live' /\ Onwards /\ UNCHANGED <<cell, psw>> /\ (dev.out)' = dev.out
            /\ (dev.ssp)' = Pair(Hi(dev.ssp), A)
  <2>1. Move /\ Op = "movx" /\ Insn[2] = "SSPL" /\ Insn[3] = "A"
    BY <1>5, Dispatch DEF Op
  <2>2. dev' = [dev EXCEPT !.ssp = Pair(Hi(@), A)] /\ UNCHANGED <<cell, psw>> /\ Onwards
    BY <1>1, <1>2, <2>1 DEF Move, Write, Onwards, SetSspl
  <2>. QED
    BY <1>4, <2>2 DEF Live, Onwards
<1>6. ASSUME Insn = <<"movx", "SSPH", "A">>
      PROVE /\ Live' /\ Onwards /\ UNCHANGED <<cell, psw>> /\ (dev.out)' = dev.out
            /\ (dev.ssp)' = Pair(A, Lo(dev.ssp))
  <2>1. Move /\ Op = "movx" /\ Insn[2] = "SSPH" /\ Insn[3] = "A"
    BY <1>6, Dispatch DEF Op
  <2>2. dev' = [dev EXCEPT !.ssp = Pair(A, Lo(@))] /\ UNCHANGED <<cell, psw>> /\ Onwards
    BY <1>1, <1>3, <2>1 DEF Move, Write, Onwards, SetSsph
  <2>. QED
    BY <1>4, <2>2 DEF Live, Onwards
<1>. QED
  BY <1>5, <1>6

(* A read of SSIO gives the byte that SSP points to.                         *)
LEMMA PopsStack ==
  ASSUME Live, Step, Insn = <<"movx", "A", "SSIO">>
  PROVE /\ Live' /\ Onwards /\ psw' = psw /\ (dev.out)' = dev.out
        /\ \A k \in DumpCells : (cell[k])' = IF k = "A" THEN Mapped(Wrap(dev.ssp)) ELSE cell[k]
<1>1. Move /\ Op = "movx" /\ Insn[2] = "A" /\ Insn[3] = "SSIO"
  BY Dispatch DEF Op
<1>2. "SSIO" \in BoardHooked(dev) /\ BoardGet(dev, "SSIO") = Xram(dev, Wrap(dev.ssp))
  BY DumpHooks DEF BoardGet, Get, IndaccFile, PedmaFile
<1>3. Read("SSIO") = Mapped(Wrap(dev.ssp))
  BY <1>2 DEF Read, Xram, Mapped, Live
<1>4. PICK d : d = [dev EXCEPT !.ssp = @ + 1]
  OBVIOUS
<1>5. AfterGet(dev, "SSIO") = d
  BY <1>4 DEF AfterGet, SspPop
<1>6. DOMAIN d = DOMAIN dev /\ d.xram = Memory /\ d.ssp \in Int /\ d.out = dev.out
  <2>1. dev.ssp + 1 \in Int
    BY SMT DEF Live
  <2>. QED
    BY <1>4, <2>1 DEF Live
<1>7. "A" \notin BoardHooked(d) /\ "A" \in DumpCells
  <2>1. ~IsRtl8372(d)
    BY <1>6, DumpHooks DEF IsRtl8372
  <2>2. "A" \in DumpCells /\ "A" \notin Hooked
    BY DumpHooks DEF DumpCells
  <2>. QED
    BY <2>1, <2>2 DEF BoardHooked
<1>8. Write(d, "A", Read("SSIO")) /\ psw' = psw /\ Onwards
  BY <1>1, <1>5 DEF Move, Onwards
<1>9. cell' = [cell EXCEPT !["A"] = Mapped(Wrap(dev.ssp))] /\ dev' = d
  BY <1>3, <1>7, <1>8 DEF Write
<1>10. Mapped(Wrap(dev.ssp)) \in Byte
  BY MappedByte
<1>11. \A k \in DumpCells : k \in Cell
  BY DumpPlain
<1>12. PICK v \in Byte : v = Mapped(Wrap(dev.ssp))
  BY <1>10
<1>13. Live' /\ \A k \in DumpCells : (cell[k])' = IF k = "A" THEN v ELSE cell[k]
  BY <1>6, <1>8, <1>9, <1>11, <1>12 DEF Live, Onwards
<1>. QED
  BY <1>6, <1>8, <1>9, <1>12, <1>13

-----------------------------------------------------------------------------
(* The instructions of the routines of a dump, and what follows them.         *)

LEMMA SerialHexCode ==
  ASSUME pc[1] = "serial_hex"
  PROVE /\ pc[2] = 1 => Insn = <<"xch", "B">> /\ After = <<"serial_hex", 2>>
        /\ pc[2] = 2 => Insn = <<"movx", "A", "B">> /\ After = <<"serial_hex", 3>>
        /\ pc[2] = 3 => Insn = <<"swap">> /\ After = <<"serial_hex", 4>>
        /\ pc[2] = 4 => Insn = <<"anli", 15>> /\ After = <<"serial_hex", 5>>
        /\ pc[2] = 5 => Insn = <<"call", "serial_hex_nibble">> /\ After = <<"serial_hex", 6>>
        /\ pc[2] = 6 => Insn = <<"movx", "A", "B">> /\ After = <<"serial_hex", 7>>
        /\ pc[2] = 7 => Insn = <<"anli", 15>> /\ After = <<"serial_hex_nibble", 1>>
<1>1. Code["serial_hex"] = Serial["serial_hex"] /\ pc[1] = "serial_hex"
  BY DumpProgramAssumption DEF Serial
<1>2. Code["serial_hex"].code = Serial["serial_hex"].code /\ Code["serial_hex"].then = Serial["serial_hex"].then
  BY <1>1
<1>3. Serial["serial_hex"].code = << <<"xch", "B">>, <<"movx", "A", "B">>, <<"swap">>, <<"anli", 15>>, <<"call", "serial_hex_nibble">>, <<"movx", "A", "B">>, <<"anli", 15>> >> /\ Serial["serial_hex"].then = "serial_hex_nibble"
  BY DEF Serial, Block, Closed
<1>. QED
  BY <1>1, <1>2, <1>3 DEF Insn, After

LEMMA NibbleCode ==
  ASSUME pc[1] = "serial_hex_nibble"
  PROVE /\ pc[2] = 1 => Insn = <<"clrb", "C">> /\ After = <<"serial_hex_nibble", 2>>
        /\ pc[2] = 2 => Insn = <<"subbi", 10>> /\ After = <<"serial_hex_nibble", 3>>
        /\ pc[2] = 3 => Insn = <<"jc", "serial_hex_digit">> /\ After = <<"serial_hex_nibble", 4>>
        /\ pc[2] = 4 => Insn = <<"addi", 39>> /\ After = <<"serial_hex_digit", 1>>
<1>1. Code["serial_hex_nibble"] = Serial["serial_hex_nibble"] /\ pc[1] = "serial_hex_nibble"
  BY DumpProgramAssumption DEF Serial
<1>2. Code["serial_hex_nibble"].code = Serial["serial_hex_nibble"].code /\ Code["serial_hex_nibble"].then = Serial["serial_hex_nibble"].then
  BY <1>1
<1>3. Serial["serial_hex_nibble"].code = << <<"clrb", "C">>, <<"subbi", 10>>, <<"jc", "serial_hex_digit">>, <<"addi", 39>> >> /\ Serial["serial_hex_nibble"].then = "serial_hex_digit"
  BY DEF Serial, Block, Closed
<1>. QED
  BY <1>1, <1>2, <1>3 DEF Insn, After

LEMMA DigitCode ==
  ASSUME pc[1] = "serial_hex_digit"
  PROVE /\ pc[2] = 1 => Insn = <<"addi", 58>> /\ After = <<"serial_write", 1>>
<1>1. Code["serial_hex_digit"] = Serial["serial_hex_digit"] /\ pc[1] = "serial_hex_digit"
  BY DumpProgramAssumption DEF Serial
<1>2. Code["serial_hex_digit"].code = Serial["serial_hex_digit"].code /\ Code["serial_hex_digit"].then = Serial["serial_hex_digit"].then
  BY <1>1
<1>3. Serial["serial_hex_digit"].code = << <<"addi", 58>> >> /\ Serial["serial_hex_digit"].then = "serial_write"
  BY DEF Serial, Block, Closed
<1>. QED
  BY <1>1, <1>2, <1>3 DEF Insn, After

LEMMA SerialWriteCode ==
  ASSUME pc[1] = "serial_write"
  PROVE /\ pc[2] = 1 => Insn = <<"clrb", "TI">> /\ After = <<"serial_write", 2>>
        /\ pc[2] = 2 => Insn = <<"movx", "SBUF", "A">> /\ After = <<"serial_write_wait", 1>>
<1>1. Code["serial_write"] = Serial["serial_write"] /\ pc[1] = "serial_write"
  BY DumpProgramAssumption DEF Serial
<1>2. Code["serial_write"].code = Serial["serial_write"].code /\ Code["serial_write"].then = Serial["serial_write"].then
  BY <1>1
<1>3. Serial["serial_write"].code = << <<"clrb", "TI">>, <<"movx", "SBUF", "A">> >> /\ Serial["serial_write"].then = "serial_write_wait"
  BY DEF Serial, Block, Closed
<1>. QED
  BY <1>1, <1>2, <1>3 DEF Insn, After

LEMMA WaitCode ==
  ASSUME pc[1] = "serial_write_wait"
  PROVE /\ pc[2] = 1 => Insn = <<"jnb", "TI", "serial_write_wait">> /\ After = <<"serial_write_wait", 2>>
        /\ pc[2] = 2 => Insn = <<"ret">>
<1>1. Code["serial_write_wait"] = Serial["serial_write_wait"] /\ pc[1] = "serial_write_wait"
  BY DumpProgramAssumption DEF Serial
<1>2. Code["serial_write_wait"].code = Serial["serial_write_wait"].code /\ Code["serial_write_wait"].then = Serial["serial_write_wait"].then
  BY <1>1
<1>3. Serial["serial_write_wait"].code = << <<"jnb", "TI", "serial_write_wait">>, <<"ret">> >> /\ Serial["serial_write_wait"].then = "none"
  BY DEF Serial, Block, Closed
<1>. QED
  BY <1>1, <1>2, <1>3 DEF Insn, After

LEMMA NewlineCode ==
  ASSUME pc[1] = "serial_newline"
  PROVE /\ pc[2] = 1 => Insn = <<"movi", "A", 13>> /\ After = <<"serial_newline", 2>>
        /\ pc[2] = 2 => Insn = <<"call", "serial_write">> /\ After = <<"serial_newline", 3>>
        /\ pc[2] = 3 => Insn = <<"movi", "A", 10>> /\ After = <<"serial_newline", 4>>
        /\ pc[2] = 4 => Insn = <<"call", "serial_write">> /\ After = <<"serial_newline", 5>>
        /\ pc[2] = 5 => Insn = <<"ret">>
<1>1. Code["serial_newline"] = Serial["serial_newline"] /\ pc[1] = "serial_newline"
  BY DumpProgramAssumption DEF Serial
<1>2. Code["serial_newline"].code = Serial["serial_newline"].code /\ Code["serial_newline"].then = Serial["serial_newline"].then
  BY <1>1
<1>3. Serial["serial_newline"].code = << <<"movi", "A", 13>>, <<"call", "serial_write">>, <<"movi", "A", 10>>, <<"call", "serial_write">>, <<"ret">> >> /\ Serial["serial_newline"].then = "none"
  BY DEF Serial, Block, Closed
<1>. QED
  BY <1>1, <1>2, <1>3 DEF Insn, After

LEMMA ReadByteCode ==
  ASSUME pc[1] = "read_byte"
  PROVE /\ pc[2] = 1 => Insn = <<"movx", "A", "R7">> /\ After = <<"read_byte", 2>>
        /\ pc[2] = 2 => Insn = <<"jz", "read_code_byte">> /\ After = <<"read_byte", 3>>
        /\ pc[2] = 3 => Insn = <<"dec", "A">> /\ After = <<"read_byte", 4>>
        /\ pc[2] = 4 => Insn = <<"jz", "read_data_byte">> /\ After = <<"read_stack_byte", 1>>
<1>1. Code["read_byte"] = Dump["read_byte"] /\ pc[1] = "read_byte"
  BY DumpProgramAssumption DEF Dump
<1>2. Code["read_byte"].code = Dump["read_byte"].code /\ Code["read_byte"].then = Dump["read_byte"].then
  BY <1>1
<1>3. Dump["read_byte"].code = << <<"movx", "A", "R7">>, <<"jz", "read_code_byte">>, <<"dec", "A">>, <<"jz", "read_data_byte">> >> /\ Dump["read_byte"].then = "read_stack_byte"
  BY DEF Dump, Block, Closed
<1>. QED
  BY <1>1, <1>2, <1>3 DEF Insn, After

LEMMA StackByteCode ==
  ASSUME pc[1] = "read_stack_byte"
  PROVE /\ pc[2] = 1 => Insn = <<"movx", "A", "DPL">> /\ After = <<"read_stack_byte", 2>>
        /\ pc[2] = 2 => Insn = <<"addi", 1>> /\ After = <<"read_stack_byte", 3>>
        /\ pc[2] = 3 => Insn = <<"movx", "SSPL", "A">> /\ After = <<"read_stack_byte", 4>>
        /\ pc[2] = 4 => Insn = <<"movx", "A", "DPH">> /\ After = <<"read_stack_byte", 5>>
        /\ pc[2] = 5 => Insn = <<"addci", 0>> /\ After = <<"read_stack_byte", 6>>
        /\ pc[2] = 6 => Insn = <<"movx", "SSPH", "A">> /\ After = <<"read_stack_byte", 7>>
        /\ pc[2] = 7 => Insn = <<"movx", "A", "SSIO">> /\ After = <<"read_stack_byte", 8>>
        /\ pc[2] = 8 => Insn = <<"ret">>
<1>1. Code["read_stack_byte"] = Dump["read_stack_byte"] /\ pc[1] = "read_stack_byte"
  BY DumpProgramAssumption DEF Dump
<1>2. Code["read_stack_byte"].code = Dump["read_stack_byte"].code /\ Code["read_stack_byte"].then = Dump["read_stack_byte"].then
  BY <1>1
<1>3. Dump["read_stack_byte"].code = << <<"movx", "A", "DPL">>, <<"addi", 1>>, <<"movx", "SSPL", "A">>, <<"movx", "A", "DPH">>, <<"addci", 0>>, <<"movx", "SSPH", "A">>, <<"movx", "A", "SSIO">>, <<"ret">> >> /\ Dump["read_stack_byte"].then = "none"
  BY DEF Dump, Block, Closed
<1>. QED
  BY <1>1, <1>2, <1>3 DEF Insn, After

LEMMA CodeByteCode ==
  ASSUME pc[1] = "read_code_byte"
  PROVE /\ pc[2] = 1 => Insn = <<"movi", "A", 0>> /\ After = <<"read_code_byte", 2>>
        /\ pc[2] = 2 => Insn = <<"movc">> /\ After = <<"read_code_byte", 3>>
        /\ pc[2] = 3 => Insn = <<"ret">>
<1>1. Code["read_code_byte"] = Dump["read_code_byte"] /\ pc[1] = "read_code_byte"
  BY DumpProgramAssumption DEF Dump
<1>2. Code["read_code_byte"].code = Dump["read_code_byte"].code /\ Code["read_code_byte"].then = Dump["read_code_byte"].then
  BY <1>1
<1>3. Dump["read_code_byte"].code = << <<"movi", "A", 0>>, <<"movc">>, <<"ret">> >> /\ Dump["read_code_byte"].then = "none"
  BY DEF Dump, Block, Closed
<1>. QED
  BY <1>1, <1>2, <1>3 DEF Insn, After

LEMMA DataByteCode ==
  ASSUME pc[1] = "read_data_byte"
  PROVE /\ pc[2] = 1 => Insn = <<"movx_dptr">> /\ After = <<"read_data_byte", 2>>
        /\ pc[2] = 2 => Insn = <<"ret">>
<1>1. Code["read_data_byte"] = Dump["read_data_byte"] /\ pc[1] = "read_data_byte"
  BY DumpProgramAssumption DEF Dump
<1>2. Code["read_data_byte"].code = Dump["read_data_byte"].code /\ Code["read_data_byte"].then = Dump["read_data_byte"].then
  BY <1>1
<1>3. Dump["read_data_byte"].code = << <<"movx_dptr">>, <<"ret">> >> /\ Dump["read_data_byte"].then = "none"
  BY DEF Dump, Block, Closed
<1>. QED
  BY <1>1, <1>2, <1>3 DEF Insn, After

LEMMA HexAddrCode ==
  ASSUME pc[1] = "hexaddr"
  PROVE /\ pc[2] = 1 => Insn = <<"movx", "A", "DPH">> /\ After = <<"hexaddr", 2>>
        /\ pc[2] = 2 => Insn = <<"call", "serial_hex">> /\ After = <<"hexaddr", 3>>
        /\ pc[2] = 3 => Insn = <<"movx", "A", "DPL">> /\ After = <<"hexaddr", 4>>
        /\ pc[2] = 4 => Insn = <<"call", "serial_hex">> /\ After = <<"hexaddr", 5>>
        /\ pc[2] = 5 => Insn = <<"movi", "A", 58>> /\ After = <<"hexaddr", 6>>
        /\ pc[2] = 6 => Insn = <<"call", "serial_write">> /\ After = <<"hexaddr", 7>>
        /\ pc[2] = 7 => Insn = <<"ret">>
<1>1. Code["hexaddr"] = Dump["hexaddr"] /\ pc[1] = "hexaddr"
  BY DumpProgramAssumption DEF Dump
<1>2. Code["hexaddr"].code = Dump["hexaddr"].code /\ Code["hexaddr"].then = Dump["hexaddr"].then
  BY <1>1
<1>3. Dump["hexaddr"].code = << <<"movx", "A", "DPH">>, <<"call", "serial_hex">>, <<"movx", "A", "DPL">>, <<"call", "serial_hex">>, <<"movi", "A", 58>>, <<"call", "serial_write">>, <<"ret">> >> /\ Dump["hexaddr"].then = "none"
  BY DEF Dump, Block, Closed
<1>. QED
  BY <1>1, <1>2, <1>3 DEF Insn, After

LEMMA HexDumpCode ==
  ASSUME pc[1] = "hexdump"
  PROVE /\ pc[2] = 1 => Insn = <<"setb", "F0">> /\ After = <<"hexdump", 2>>
        /\ pc[2] = 2 => Insn = <<"movi", "R2", 16>> /\ After = <<"hexdump_loop", 1>>
<1>1. Code["hexdump"] = Dump["hexdump"] /\ pc[1] = "hexdump"
  BY DumpProgramAssumption DEF Dump
<1>2. Code["hexdump"].code = Dump["hexdump"].code /\ Code["hexdump"].then = Dump["hexdump"].then
  BY <1>1
<1>3. Dump["hexdump"].code = << <<"setb", "F0">>, <<"movi", "R2", 16>> >> /\ Dump["hexdump"].then = "hexdump_loop"
  BY DEF Dump, Block, Closed
<1>. QED
  BY <1>1, <1>2, <1>3 DEF Insn, After

LEMMA DumpLoopCode ==
  ASSUME pc[1] = "hexdump_loop"
  PROVE /\ pc[2] = 1 => Insn = <<"jnb", "F0", "hexdump_noaddr">> /\ After = <<"hexdump_loop", 2>>
        /\ pc[2] = 2 => Insn = <<"call", "hexaddr">> /\ After = <<"hexdump_loop", 3>>
        /\ pc[2] = 3 => Insn = <<"clrb", "F0">> /\ After = <<"hexdump_noaddr", 1>>
<1>1. Code["hexdump_loop"] = Dump["hexdump_loop"] /\ pc[1] = "hexdump_loop"
  BY DumpProgramAssumption DEF Dump
<1>2. Code["hexdump_loop"].code = Dump["hexdump_loop"].code /\ Code["hexdump_loop"].then = Dump["hexdump_loop"].then
  BY <1>1
<1>3. Dump["hexdump_loop"].code = << <<"jnb", "F0", "hexdump_noaddr">>, <<"call", "hexaddr">>, <<"clrb", "F0">> >> /\ Dump["hexdump_loop"].then = "hexdump_noaddr"
  BY DEF Dump, Block, Closed
<1>. QED
  BY <1>1, <1>2, <1>3 DEF Insn, After

LEMMA CountDownCode ==
  ASSUME pc[1] = "hexdump_nonewline"
  PROVE /\ pc[2] = 1 => Insn = <<"clrb", "C">> /\ After = <<"hexdump_nonewline", 2>>
        /\ pc[2] = 2 => Insn = <<"movx", "A", "R1">> /\ After = <<"hexdump_nonewline", 3>>
        /\ pc[2] = 3 => Insn = <<"subbi", 1>> /\ After = <<"hexdump_nonewline", 4>>
        /\ pc[2] = 4 => Insn = <<"movx", "R1", "A">> /\ After = <<"hexdump_nonewline", 5>>
        /\ pc[2] = 5 => Insn = <<"movx", "A", "R0">> /\ After = <<"hexdump_nonewline", 6>>
        /\ pc[2] = 6 => Insn = <<"subbi", 0>> /\ After = <<"hexdump_nonewline", 7>>
        /\ pc[2] = 7 => Insn = <<"movx", "R0", "A">> /\ After = <<"hexdump_nonewline", 8>>
        /\ pc[2] = 8 => Insn = <<"orlx", "R1">> /\ After = <<"hexdump_nonewline", 9>>
        /\ pc[2] = 9 => Insn = <<"jnz", "hexdump_loop">> /\ After = <<"hexdump_nonewline", 10>>
        /\ pc[2] = 10 => Insn = <<"ret">>
<1>1. Code["hexdump_nonewline"] = Dump["hexdump_nonewline"] /\ pc[1] = "hexdump_nonewline"
  BY DumpProgramAssumption DEF Dump
<1>2. Code["hexdump_nonewline"].code = Dump["hexdump_nonewline"].code /\ Code["hexdump_nonewline"].then = Dump["hexdump_nonewline"].then
  BY <1>1
<1>3. Dump["hexdump_nonewline"].code = << <<"clrb", "C">>, <<"movx", "A", "R1">>, <<"subbi", 1>>, <<"movx", "R1", "A">>, <<"movx", "A", "R0">>, <<"subbi", 0>>, <<"movx", "R0", "A">>, <<"orlx", "R1">>, <<"jnz", "hexdump_loop">>, <<"ret">> >> /\ Dump["hexdump_nonewline"].then = "none"
  BY DEF Dump, Block, Closed
<1>. QED
  BY <1>1, <1>2, <1>3 DEF Insn, After
NoAddrList == <<
  <<"movi", "A", 32>>, <<"call", "serial_write">>, <<"call", "read_byte">>, <<"call", "serial_hex">>,
  <<"inc_dptr">>, <<"djnz", "R2", "hexdump_nonewline">>, <<"movi", "R2", 16>>,
  <<"call", "serial_newline">>, <<"setb", "F0">> >>

LEMMA NoAddrCode ==
  ASSUME pc[1] = "hexdump_noaddr"
  PROVE /\ pc[2] = 1 => Insn = <<"movi", "A", 32>> /\ After = <<"hexdump_noaddr", 2>>
        /\ pc[2] = 2 => Insn = <<"call", "serial_write">> /\ After = <<"hexdump_noaddr", 3>>
        /\ pc[2] = 3 => Insn = <<"call", "read_byte">> /\ After = <<"hexdump_noaddr", 4>>
        /\ pc[2] = 4 => Insn = <<"call", "serial_hex">> /\ After = <<"hexdump_noaddr", 5>>
        /\ pc[2] = 5 => Insn = <<"inc_dptr">> /\ After = <<"hexdump_noaddr", 6>>
        /\ pc[2] = 6 => Insn = <<"djnz", "R2", "hexdump_nonewline">> /\ After = <<"hexdump_noaddr", 7>>
        /\ pc[2] = 7 => Insn = <<"movi", "R2", 16>> /\ After = <<"hexdump_noaddr", 8>>
        /\ pc[2] = 8 => Insn = <<"call", "serial_newline">> /\ After = <<"hexdump_noaddr", 9>>
        /\ pc[2] = 9 => Insn = <<"setb", "F0">> /\ After = <<"hexdump_nonewline", 1>>
<1>. DEFINE L == NoAddrList
            U == {L[i] : i \in 1..9}
            t0 == << <<"movi", "A", 32>>, <<"call", "serial_write">>, <<"call", "read_byte">>,
                     <<"call", "serial_hex">>, <<"inc_dptr">>, <<"djnz", "R2", "hexdump_nonewline">> >>
            q1 == t0 \o NextLine
<1>0. t0 = <<L[1], L[2], L[3], L[4], L[5], L[6]>>
  BY DEF NoAddrList
<1>1. NextLine = <<L[7], L[8], L[9]>>
  BY DEF NoAddrList, NextLine
<1>2. Dump["hexdump_noaddr"] = Block(q1, "hexdump_nonewline")
  BY DEF Dump
<1>. HIDE DEF t0, q1
<1>3. Dump["hexdump_noaddr"].code = q1 /\ Dump["hexdump_noaddr"].then = "hexdump_nonewline"
  BY <1>2 DEF Block
<1>4. \A i \in 1..9 : L[i] \in U
  OBVIOUS
<1>. HIDE DEF L, U
<1>5. Opens(L, U, t0, 6)
  BY <1>0, <1>4, SMT DEF Opens
<1>6. Opens(L, U, q1, 9)
  <2>1. Goes(L, U, NextLine, 6, 9)
    BY <1>1, <1>4, SMT DEF Goes
  <2>. QED
    BY <1>5, <2>1, Joins DEF q1
<1>7. Len(q1) = 9 /\ \A i \in 1..9 : q1[i] = L[i]
  BY <1>6 DEF Opens
<1>8. Code["hexdump_noaddr"] = Dump["hexdump_noaddr"]
  BY DumpProgramAssumption DEF Dump
<1>9. Code["hexdump_noaddr"].code = q1 /\ Code["hexdump_noaddr"].then = "hexdump_nonewline"
  BY <1>3, <1>8
<1>10. \A i \in 1..9 : pc[2] = i => Insn = L[i] /\ After = IF i < 9 THEN <<"hexdump_noaddr", i + 1>> ELSE <<"hexdump_nonewline", 1>>
  BY <1>7, <1>9 DEF Insn, After
<1>. QED
  BY <1>10, SMT DEF L, NoAddrList
=============================================================================
