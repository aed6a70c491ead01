------------------------- MODULE SecondStack_proofs -------------------------
(***************************************************************************)
(* The emulated second stack implements the 16-bit register, for every set  *)
(* of mapped addresses and every run of pushes and pops, however long.      *)
(***************************************************************************)
EXTENDS SecondStack, TLAPS

(* What arithmetic the refinement rests on: reducing the pointer commutes     *)
(* with stepping it, and with replacing or reading one of its halves.        *)
LEMMA Steps ==
  ASSUME NEW p \in Int
  PROVE  /\ Wrap(p - 1) = Wrap(Wrap(p) - 1)
         /\ Wrap(p + 1) = Wrap(Wrap(p) + 1)
         /\ Wrap(p) \in Word
  <1>1. Wrap(p - 1) = Wrap(Wrap(p) - 1) BY DEF Wrap
  <1>2. Wrap(p + 1) = Wrap(Wrap(p) + 1) BY DEF Wrap
  <1>3. Wrap(p) \in Word BY DEF Wrap, Word
  <1> QED BY <1>1, <1>2, <1>3

LEMMA Halves ==
  ASSUME NEW p \in Int
  PROVE  /\ Lo(p) = Lo(Wrap(p))
         /\ Lo(Hi(p)) = Hi(Wrap(p))
         /\ Lo(p) \in Byte
         /\ Lo(Hi(p)) \in Byte
  <1>1. Lo(p) = Lo(Wrap(p)) BY DEF Wrap, Lo
  <1>2. Lo(Hi(p)) = Hi(Wrap(p)) BY DEF Wrap, Hi, Lo
  <1>3. Lo(p) \in Byte BY DEF Lo, Byte
  <1>4. Hi(p) \in Int BY DEF Hi
  <1>5. Lo(Hi(p)) \in Byte BY <1>4 DEF Lo, Byte
  <1> QED BY <1>1, <1>2, <1>3, <1>5

LEMMA Replaced ==
  ASSUME NEW p \in Int, NEW v \in Byte
  PROVE  /\ Wrap(Pair(v, Lo(p))) = Pair(v, Lo(Wrap(p)))
         /\ Wrap(Pair(Hi(p), v)) = Pair(Hi(Wrap(p)), v)
         /\ Pair(v, Lo(p)) \in Int
         /\ Pair(Hi(p), v) \in Int
  <1>1. v \in Int /\ v >= 0 /\ v <= 255 BY DEF Byte
  <1>2. (256 * v + (p % 256)) % 65536 = 256 * v + (p % 256) BY <1>1
  <1>3. p % 256 = (p % 65536) % 256 OBVIOUS
  <1>4. (256 * (p \div 256) + v) % 65536 = 256 * ((p % 65536) \div 256) + v BY <1>1
  <1>5. 256 * v + (p % 256) \in Int BY <1>1
  <1>6. 256 * (p \div 256) + v \in Int BY <1>1
  <1>7. Wrap(Pair(v, Lo(p))) = Pair(v, Lo(Wrap(p))) BY <1>2, <1>3 DEF Wrap, Pair, Lo
  <1>8. Wrap(Pair(Hi(p), v)) = Pair(Hi(Wrap(p)), v) BY <1>4 DEF Wrap, Pair, Hi
  <1>9. Pair(v, Lo(p)) \in Int BY <1>5 DEF Pair, Lo
  <1>10. Pair(Hi(p), v) \in Int BY <1>6 DEF Pair, Hi
  <1> QED BY <1>7, <1>8, <1>9, <1>10

-----------------------------------------------------------------------------
(* The hooks of the second stack                                            *)
LEMMA Hooks ==
  ASSUME NEW d, NEW v
  PROVE  /\ Put(d, "SSIO", v) = SspPush(d, v)
         /\ Put(d, "SSPH", v) = SetSsph(d, v)
         /\ Put(d, "SSPL", v) = SetSspl(d, v)
         /\ Get(d, "SSIO") = Xram(d, Wrap(d.ssp))
         /\ Get(d, "SSPH") = Lo(Hi(d.ssp))
         /\ Get(d, "SSPL") = Lo(d.ssp)
         /\ AfterGet(d, "SSIO") = SspPop(d)
         /\ AfterGet(d, "SSPH") = d
         /\ AfterGet(d, "SSPL") = d
  BY DEF Put, Get, SsphRead, AfterGet, IndaccFile, PedmaFile

(* The device: what the second stack uses, the rest as it was at power up     *)
Fresh == PowerUp(<<>>, <<>>)
Device == [ssp : Int, xram : [Mapped -> Byte], sfr : {Fresh.sfr}, regs : {Fresh.regs},
           out : {Fresh.out}, ti : {Fresh.ti}, log : {Fresh.log}, ocp : {Fresh.ocp}]
IInv == dev \in Device /\ got \in Byte

(* Xram after a byte has been stored                                        *)
Stored(d, a, v) == [b \in Mapped |-> IF b = a THEN v ELSE d.xram[b]]

LEMMA Fields ==
  ASSUME NEW d \in Device
  PROVE  /\ d.ssp \in Int
         /\ d.xram \in [Mapped -> Byte]
         /\ DOMAIN d.xram = Mapped
  BY DEF Device

LEMMA MovesTo ==
  ASSUME NEW d \in Device, NEW n \in Int
  PROVE  /\ [d EXCEPT !.ssp = n] \in Device
         /\ [d EXCEPT !.ssp = n].ssp = n
         /\ [d EXCEPT !.ssp = n].xram = d.xram
  BY DEF Device

LEMMA Pokes ==
  ASSUME NEW d \in Device, NEW a, NEW v \in Byte
  PROVE  /\ Poke(d, a, v) \in Device
         /\ Poke(d, a, v).ssp = d.ssp
         /\ Poke(d, a, v).xram = Stored(d, a, v)
  <1>1. CASE a \in Mapped
    BY Fields, <1>1 DEF Poke, Device, Stored
  <1>2. CASE a \notin Mapped
    <2>1. Poke(d, a, v) = d BY Fields, <1>2 DEF Poke
    <2>2. d.xram = Stored(d, a, v) BY Fields, <1>2 DEF Stored
    <2> QED BY <2>1, <2>2
  <1> QED BY <1>1, <1>2

LEMMA Pushes ==
  ASSUME NEW d \in Device, NEW v \in Byte
  PROVE  /\ SspPush(d, v) \in Device
         /\ SspPush(d, v).ssp = d.ssp - 1
         /\ SspPush(d, v).xram = Stored(d, Wrap(d.ssp - 1), v)
  <1> DEFINE p == Poke(d, Wrap(d.ssp - 1), v)
  <1>1. p \in Device /\ p.ssp = d.ssp /\ p.xram = Stored(d, Wrap(d.ssp - 1), v)
    BY Pokes
  <1>2. SspPush(d, v) = [p EXCEPT !.ssp = d.ssp - 1]
    BY <1>1 DEF SspPush
  <1>3. d.ssp - 1 \in Int BY Fields
  <1> HIDE DEF p
  <1> QED BY <1>1, <1>2, <1>3, MovesTo

LEMMA Moves ==
  ASSUME NEW d \in Device, NEW v \in Byte
  PROVE  /\ SspPop(d) \in Device
         /\ SspPop(d).ssp = d.ssp + 1 /\ SspPop(d).xram = d.xram
         /\ SetSsph(d, v) \in Device
         /\ SetSsph(d, v).ssp = Pair(v, Lo(d.ssp)) /\ SetSsph(d, v).xram = d.xram
         /\ SetSspl(d, v) \in Device
         /\ SetSspl(d, v).ssp = Pair(Hi(d.ssp), v) /\ SetSspl(d, v).xram = d.xram
  <1>1. d.ssp + 1 \in Int /\ Pair(v, Lo(d.ssp)) \in Int /\ Pair(Hi(d.ssp), v) \in Int
    BY Fields, Replaced
  <1> QED BY <1>1, MovesTo DEF SspPop, SetSsph, SetSspl

LEMMA Read ==
  ASSUME NEW d \in Device
  PROVE  /\ Get(d, "SSIO") \in Byte
         /\ Get(d, "SSPH") \in Byte
         /\ Get(d, "SSPL") \in Byte
  <1>1. Xram(d, Wrap(d.ssp)) \in Byte
    <2>1. 255 \in Byte BY DEF Byte
    <2> QED BY <2>1, Fields DEF Xram
  <1> QED BY <1>1, Fields, Halves, Hooks

-----------------------------------------------------------------------------
LEMMA Start == Init => IInv
  <1>1. 0 \in Byte BY DEF Byte
  <1>2. PowerUp(<<>>, [a \in Mapped |-> 0]) \in Device
    BY <1>1 DEF PowerUp, Device, Fresh
  <1> QED BY <1>1, <1>2 DEF Init, IInv

LEMMA Inductive ==
  ASSUME IInv, [Next]_vars
  PROVE  IInv'
  <1>1. dev \in Device /\ got \in Byte
    BY DEF IInv
  <1>2. CASE UNCHANGED vars
    BY <1>1, <1>2 DEF vars, IInv
  <1>3. ASSUME NEW v \in Written, Push(v) \/ SetHigh(v) \/ SetLow(v)
        PROVE  IInv'
    <2>1. v \in Byte BY SpaceAssumption
    <2>2. dev' \in {SspPush(dev, v), SetSsph(dev, v), SetSspl(dev, v)} /\ got' = got
      BY <1>3, Hooks DEF Push, SetHigh, SetLow, Writing
    <2> QED BY <1>1, <2>1, <2>2, Pushes, Moves DEF IInv
  <1>4. CASE Pop \/ GetHigh \/ GetLow
    <2>1. 0 \in Byte BY DEF Byte
    <2>2. /\ dev' \in {SspPop(dev), dev}
          /\ got' \in {Get(dev, "SSIO"), Get(dev, "SSPH"), Get(dev, "SSPL")}
      BY <1>4, Hooks DEF Pop, GetHigh, GetLow, Reading
    <2> QED BY <1>1, <2>1, <2>2, Moves, Read DEF IInv
  <1> QED BY <1>2, <1>3, <1>4 DEF Next

(* The pointer, the mapped bytes and the byte last read keep their types for  *)
(* every history of accesses (rtl8367s.lua:12463).                           *)
THEOREM SecondStackTypeCorrect == Spec => []TypeOK
  <1>1. IInv => TypeOK BY Fields DEF IInv, TypeOK
  <1> QED BY <1>1, Start, Inductive, PTL DEF Spec

-----------------------------------------------------------------------------
(* The operators on words of the abstract module are the same               *)
LEMMA SameWords ==
  ASSUME NEW n, NEW m
  PROVE  /\ Register!Wrap(n) = Wrap(n)
         /\ Register!Pair(n, m) = Pair(n, m)
         /\ Register!Hi(n) = Hi(n)
         /\ Register!Lo(n) = Lo(n)
  BY DEF Wrap, Pair, Hi, Lo, Register!Wrap, Register!Pair, Register!Hi, Register!Lo

(* One access of the emulated stack is one access of the 16-bit register.     *)
LEMMA Simulates ==
  ASSUME IInv, [Next]_vars
  PROVE  [Register!Next]_<<Wrap(dev.ssp), dev.xram, got>>
  <1>1. /\ dev \in Device
        /\ dev.ssp \in Int
        /\ DOMAIN dev.xram = Mapped
    BY Fields DEF IInv
  <1>2. CASE UNCHANGED vars
    BY <1>2 DEF vars
  <1>b. ASSUME NEW v \in Written PROVE v \in Byte
    BY SpaceAssumption
  <1>3. ASSUME NEW v \in Written, Push(v)
        PROVE  Register!Push(v)
    <2>1. dev' = SspPush(dev, v) /\ got' = got
      BY <1>3, Hooks DEF Push, Writing
    <2>2. dev'.ssp = dev.ssp - 1 /\ dev'.xram = Stored(dev, Wrap(dev.ssp - 1), v)
      BY <1>1, <1>b, <2>1, Pushes
    <2>3. Wrap(dev.ssp - 1) = Wrap(Wrap(dev.ssp) - 1)
      BY <1>1, Steps
    <2> QED BY <2>1, <2>2, <2>3, SameWords DEF Register!Push, Stored
  <1>4. ASSUME NEW v \in Written, SetHigh(v)
        PROVE  Register!SetHigh(v)
    <2>1. dev' = SetSsph(dev, v) /\ got' = got
      BY <1>4, Hooks DEF SetHigh, Writing
    <2>2. dev'.ssp = Pair(v, Lo(dev.ssp)) /\ dev'.xram = dev.xram
      BY <1>1, <1>b, <2>1, Moves
    <2>3. Wrap(Pair(v, Lo(dev.ssp))) = Pair(v, Lo(Wrap(dev.ssp)))
      BY <1>1, <1>b, Replaced
    <2> QED BY <2>1, <2>2, <2>3, SameWords DEF Register!SetHigh
  <1>5. ASSUME NEW v \in Written, SetLow(v)
        PROVE  Register!SetLow(v)
    <2>1. dev' = SetSspl(dev, v) /\ got' = got
      BY <1>5, Hooks DEF SetLow, Writing
    <2>2. dev'.ssp = Pair(Hi(dev.ssp), v) /\ dev'.xram = dev.xram
      BY <1>1, <1>b, <2>1, Moves
    <2>3. Wrap(Pair(Hi(dev.ssp), v)) = Pair(Hi(Wrap(dev.ssp)), v)
      BY <1>1, <1>b, Replaced
    <2> QED BY <2>1, <2>2, <2>3, SameWords DEF Register!SetLow
  <1>6. ASSUME Pop
        PROVE  Register!Pop
    <2>1. dev' = SspPop(dev) /\ got' = Xram(dev, Wrap(dev.ssp))
      BY <1>6, Hooks DEF Pop, Reading
    <2>2. 0 \in Byte BY DEF Byte
    <2>3. dev'.ssp = dev.ssp + 1 /\ dev'.xram = dev.xram
      BY <1>1, <2>1, <2>2, Moves
    <2>4. Wrap(dev.ssp + 1) = Wrap(Wrap(dev.ssp) + 1)
      BY <1>1, Steps
    <2> QED BY <1>1, <2>1, <2>3, <2>4, SameWords DEF Register!Pop, Xram
  <1>7. ASSUME GetHigh
        PROVE  Register!GetHigh
    <2>1. dev' = dev /\ got' = Lo(Hi(dev.ssp))
      BY <1>7, Hooks DEF GetHigh, Reading
    <2>2. Lo(Hi(dev.ssp)) = Hi(Wrap(dev.ssp))
      BY <1>1, Halves
    <2> QED BY <2>1, <2>2, SameWords DEF Register!GetHigh
  <1>8. ASSUME GetLow
        PROVE  Register!GetLow
    <2>1. dev' = dev /\ got' = Lo(dev.ssp)
      BY <1>8, Hooks DEF GetLow, Reading
    <2>2. Lo(dev.ssp) = Lo(Wrap(dev.ssp))
      BY <1>1, Halves
    <2> QED BY <2>1, <2>2, SameWords DEF Register!GetLow
  <1>9. Written \subseteq Register!Byte BY SpaceAssumption DEF Register!Byte, Byte
  <1> QED BY <1>2, <1>3, <1>4, <1>5, <1>6, <1>7, <1>8, <1>9 DEF Next, Register!Next

LEMMA StartsAlike == Init => Register!Init
  <1> SUFFICES ASSUME Init PROVE Register!Init
    OBVIOUS
  <1>1. dev \in Device /\ got \in Byte BY Start DEF IInv
  <1>2. dev.ssp \in Int /\ dev.xram \in [Mapped -> Byte] BY <1>1, Fields
  <1>3. Wrap(dev.ssp) \in Word BY <1>2, Steps
  <1>4. Register!Byte = Byte /\ Register!Word = Word
    BY DEF Byte, Word, Register!Byte, Register!Word
  <1> QED BY <1>1, <1>2, <1>3, <1>4 DEF Register!Init

(* The emulated second stack cannot be told from the 16-bit register by any   *)
(* program, for every set of mapped addresses and without a bound on the      *)
(* pushes and pops (rtl8367s.lua:12483).                                     *)
THEOREM SecondStackIs16Bits == Spec => ActsAs16Bits
  BY Start, Inductive, Simulates, StartsAlike, PTL DEF Spec, ActsAs16Bits, Register!Spec
=============================================================================
