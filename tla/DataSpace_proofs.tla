-------------------------- MODULE DataSpace_proofs --------------------------
(***************************************************************************)
(* Theorems of DataSpace, for every program and every hook: instructions   *)
(* change only what they name, but where the emulator has other places for  *)
(* them; the stack returns what was pushed; DPTR is the pair DPS selects.   *)
(***************************************************************************)
EXTENDS DataSpace, TLAPS, SequenceTheorems

Ram == [Cell -> Byte]
Inv == ram \in Ram /\ reg = 0 /\ dptr \in {0, 1} /\ dptr = ram[DPS]

\* The places the emulator takes an instruction's operands for: those it names,
\* but with R0-R7 in the first bank, and @Ri of arithmetic a direct address.
Taken(i) ==
    CASE i[1] = "mov"     -> {i[2]}
      [] i[1] = "movd"    -> {i[2]} \cup Asked(i[3])
      [] i[1] = "modify"  -> {i[2]}
      [] i[1] = "bit"     -> {BitByte(i[2])}
      [] i[1] = "load"    -> {i[3]} \cup Asked(i[2])
      [] i[1] = "test"    -> Asked(i[2])
      [] i[1] = "xch"     -> {i[2], ACC}
      [] i[1] = "movi"    -> {Indirect(ram[i[2]])}
      [] i[1] = "movid"   -> {Indirect(ram[i[2]])} \cup Asked(i[3])
      [] i[1] = "movdi"   -> {i[2]}
      [] i[1] = "loadi"   -> {ACC}
      [] i[1] = "xchi"    -> {Indirect(ram[i[2]]), ACC}
      [] i[1] \in {"inci", "deci"} -> {ram[i[2]]}
      [] i[1] = "xchdi"   -> {ram[i[2]], ACC}
      [] i[1] = "addi"    -> {ACC} \cup Asked(ram[i[2]])
      [] i[1] = "reg"     -> {i[2]}
      [] i[1] \in {"dptr", "incdptr"} -> Pair0(ram[DPS])
      [] i[1] = "push"    -> {SP, Slot(1)} \cup Asked(i[2])
      [] i[1] = "pop"     -> {SP, i[2]}
      [] i[1] = "call"    -> {SP, Slot(1), Slot(2)}
      [] i[1] = "ret"     -> {SP}

\* What an instruction leaves behind: the invariant, and every cell as it was
\* that its operands are not taken for.
Good == Inv' /\ \A c \in Cell \ Taken(insn') : ram'[c] = ram[c]

USE DEF SP, DPS, PSW, ACC, B

LEMMA Cells ==
  /\ Direct \subseteq Byte /\ Byte \subseteq Cell
  /\ \A v \in Byte : v \in Int /\ v >= 0 /\ v <= 255
  /\ {SP, DPS, ACC} \cup 130..133 \subseteq Cell
BY DEF Cell, Byte, Direct

LEMMA AtCell ==
  ASSUME NEW a \in Byte
  PROVE  At(a) \in Cell /\ At(a) = Indirect(a) /\ At(a) \notin 128..255
BY DEF At, Indirect, Byte, Cell

LEMMA BitByteDirect ==
  ASSUME NEW b \in Byte \ (152..159)
  PROVE  BitByte(b) \in Direct
BY DEF BitByte, Byte, Direct

LEMMA WithBitByte ==
  ASSUME NEW v \in Byte, NEW b \in Byte, NEW x \in {0, 1}
  PROVE  WithBit(v, b, x) \in Byte
<1>1. b % 8 \in 0..7
  BY Cells
<1>2. Mask[(b % 8) + 1] \in {1, 2, 4, 8, 16, 32, 64, 128}
  BY <1>1 DEF Mask
<1>3. ASSUME NEW m \in {1, 2, 4, 8, 16, 32, 64, 128}
      PROVE  v - m * ((v \div m) % 2) + m * x \in Byte
  BY DEF Byte
<1> QED
  BY <1>2, <1>3 DEF WithBit

LEMMA NibblesByte ==
  ASSUME NEW h \in Byte, NEW l \in Byte
  PROVE  Nibbles(h, l) \in Byte
BY DEF Nibbles, Byte

\* readd changes at most the register that is read.
LEMMA Reads ==
  ASSUME Inv, NEW a \in Direct, NEW r \in Readd(ram, a)
  PROVE  /\ r \in Ram
         /\ \A c \in Cell \ Asked(a) : r[c] = ram[c]
         /\ r[SP] = ram[SP] /\ r[DPS] = ram[DPS] /\ r[ACC] = ram[ACC]
<1>1. CASE Trapped(a) /\ a \in Device
  <2>1. PICK v \in Answer : r = [ram EXCEPT ![a] = v]
    BY <1>1 DEF Readd
  <2>2. v \in Byte /\ a \in Cell /\ a \notin {SP, DPS, ACC} /\ a \in Asked(a)
    BY <1>1, DeviceAssumption, Cells DEF Asked
  <2>3. r \in Ram /\ \A c \in Cell : c # a => r[c] = ram[c]
    BY <2>1, <2>2 DEF Inv, Ram
  <2>4. \A c \in Cell \ Asked(a) : r[c] = ram[c]
    BY <2>2, <2>3
  <2>5. r[SP] = ram[SP] /\ r[DPS] = ram[DPS] /\ r[ACC] = ram[ACC]
    BY <2>2, <2>3, Cells
  <2> QED
    BY <2>3, <2>4, <2>5
<1>2. CASE ~(Trapped(a) /\ a \in Device)
  BY <1>2 DEF Inv, Readd
<1> QED
  BY <1>1, <1>2

\* writed changes at most the place it is given, and keeps dpl and dph with DPS.
LEMMA Writes ==
  ASSUME Inv, NEW r \in Ram, r[DPS] = ram[DPS], NEW a \in Direct, NEW v \in Byte, Writed(r, a, v)
  PROVE  /\ Inv'
         /\ \A c \in Cell \ {a} : ram'[c] = r[c]
         /\ a \notin Device \cup {DPS} => ram'[a] = v
<1>1. PICK w \in Kept(a, v) : ram' = [r EXCEPT ![a] = w]
  BY DEF Writed
<1>2. w \in Byte /\ (a = DPS => w = v % 2) /\ (a \notin Device \cup {DPS} => w = v)
  BY <1>1, DeviceAssumption, Cells DEF Kept, Byte
<1>3. reg' = 0 /\ dptr' = IF a = DPS THEN v % 2 ELSE dptr
  BY DEF Writed, Moved, Trapped, NoTrap, Inv
<1>4. a \in Cell /\ DPS \in Cell /\ ram' \in Ram /\ ram'[a] = w
  BY <1>1, <1>2, Cells DEF Ram
<1>5. \A c \in Cell \ {a} : ram'[c] = r[c]
  BY <1>1, <1>2, Cells DEF Ram
<1>6. dptr' \in {0, 1} /\ dptr' = ram'[DPS]
  <2>1. CASE a = DPS
    BY <2>1, <1>2, <1>3, <1>4, Cells
  <2>2. CASE a # DPS
    BY <2>2, <1>3, <1>4, <1>5 DEF Inv
  <2> QED
    BY <2>1, <2>2
<1> QED
  BY <1>2, <1>3, <1>4, <1>5, <1>6 DEF Inv

\* An instruction that stores past the traps keeps the pointers where they are.
LEMMA Pokes ==
  ASSUME Inv, NEW r \in Ram, r[DPS] = ram[DPS], Poke(r)
  PROVE  Inv' /\ ram' = r
BY DEF Inv, Poke, Ram

-----------------------------------------------------------------------------
(***************************************************************************)
(* One lemma per group of instructions: what they leave is Good.           *)
(***************************************************************************)

\* A byte read from ramsfr, by whatever instruction.
LEMMA Value ==
  ASSUME NEW r \in Ram, NEW c \in Cell
  PROVE  r[c] \in Byte
BY DEF Ram

LEMMA Sums ==
  ASSUME NEW v \in Byte, NEW k \in Byte
  PROVE  (v + k) % 256 \in Byte
BY DEF Byte

LEMMA GoodStores ==
  ASSUME Inv, insn' \in Program, MovDirect \/ MovBetween \/ ModifyDirect \/ ModifyBit
  PROVE  Good
<1> USE DEF NamesDirect, X, Y, I
<1>1. CASE MovDirect
  <2>1. X \in Direct /\ Y \in Byte /\ Taken(insn') = {X}
    BY <1>1, ProgramAssumption DEF MovDirect, Taken
  <2> QED
    BY <1>1, <2>1, Writes DEF MovDirect, Inv, Good
<1>2. CASE MovBetween
  <2>1. X \in Direct /\ Y \in Direct /\ Taken(insn') = {X} \cup Asked(Y)
    BY <1>2, ProgramAssumption DEF MovBetween, Taken
  <2>2. PICK r \in Readd(ram, Y) : Writed(r, X, r[Y])
    BY <1>2 DEF MovBetween
  <2>3. r \in Ram /\ r[DPS] = ram[DPS] /\ \A c \in Cell \ Asked(Y) : r[c] = ram[c]
    BY <2>1, Reads
  <2>4. r[Y] \in Byte
    BY <2>1, <2>3, Value, Cells
  <2> QED
    BY <2>1, <2>2, <2>3, <2>4, Writes DEF Good
<1>3. CASE ModifyDirect
  <2>1. X \in Direct /\ Y \in Byte /\ Taken(insn') = {X}
    BY <1>3, ProgramAssumption DEF ModifyDirect, Taken
  <2>2. PICK r \in Readd(ram, X) : Writed(r, X, (r[X] + Y) % 256)
    BY <1>3 DEF ModifyDirect
  <2>3. r \in Ram /\ r[DPS] = ram[DPS] /\ \A c \in Cell \ {X} : r[c] = ram[c]
    BY <2>1, Reads DEF Asked
  <2>4. (r[X] + Y) % 256 \in Byte
    BY <2>1, <2>3, Value, Sums, Cells
  <2> QED
    BY <2>1, <2>2, <2>3, <2>4, Writes DEF Good
<1>4. CASE ModifyBit
  <2> DEFINE a == BitByte(X)
  <2>1. X \in Byte \ (152..159) /\ Y \in {0, 1} /\ Taken(insn') = {a}
    BY <1>4, ProgramAssumption DEF ModifyBit, Taken
  <2>2. PICK r \in Readd(ram, a) : Writed(r, a, WithBit(r[a], X, Y))
    BY <1>4 DEF ModifyBit
  <2>3. a \in Direct
    BY <2>1, BitByteDirect
  <2>4. r \in Ram /\ r[DPS] = ram[DPS] /\ \A c \in Cell \ {a} : r[c] = ram[c]
    BY <2>3, Reads DEF Asked
  <2>5. WithBit(r[a], X, Y) \in Byte
    BY <2>1, <2>3, <2>4, Value, WithBitByte, Cells
  <2> HIDE DEF a
  <2> QED
    BY <2>1, <2>2, <2>3, <2>4, <2>5, Writes DEF Good
<1> QED
  BY <1>1, <1>2, <1>3, <1>4

LEMMA GoodLoads ==
  ASSUME Inv, insn' \in Program, LoadDirect \/ TestDirect \/ XchDirect
  PROVE  Good
<1> USE DEF NamesDirect, X, Y, I
<1>1. CASE LoadDirect
  <2>1. X \in Direct /\ Y \in 0..7 \cup {ACC} /\ Taken(insn') = {Y} \cup Asked(X)
    BY <1>1, ProgramAssumption DEF LoadDirect, Taken
  <2>2. PICK r \in Readd(ram, X) : Poke([r EXCEPT ![ToCell(Y)] = r[X]])
    BY <1>1 DEF LoadDirect
  <2>3. r \in Ram /\ r[DPS] = ram[DPS] /\ \A c \in Cell \ Asked(X) : r[c] = ram[c]
    BY <2>1, Reads
  <2>4. Y \in Cell /\ Y # DPS /\ ToCell(Y) = Y
    BY <2>1 DEF Cell, ToCell, Inv
  <2>7. r[X] \in Byte
    BY <2>1, <2>3, Value, Cells
  <2> DEFINE q == [r EXCEPT ![Y] = r[X]]
  <2>5. q \in Ram /\ q[DPS] = ram[DPS] /\ \A c \in Cell \ Taken(insn') : q[c] = ram[c]
    BY <2>1, <2>3, <2>4, <2>7, Cells DEF Ram
  <2>6. Poke(q)
    BY <2>2, <2>4
  <2> HIDE DEF q
  <2> QED
    BY <2>5, <2>6, Pokes DEF Good
<1>2. CASE TestDirect
  <2>1. X \in Direct /\ Taken(insn') = Asked(X)
    BY <1>2, ProgramAssumption DEF TestDirect, Taken
  <2>2. PICK r \in Readd(ram, X) : Poke(r)
    BY <1>2 DEF TestDirect
  <2>3. r \in Ram /\ r[DPS] = ram[DPS] /\ \A c \in Cell \ Asked(X) : r[c] = ram[c]
    BY <2>1, Reads
  <2> QED
    BY <2>1, <2>2, <2>3, Pokes DEF Good
<1>3. CASE XchDirect
  <2>1. X \in Direct /\ Taken(insn') = {X, ACC}
    BY <1>3, ProgramAssumption DEF XchDirect, Taken
  <2>2. PICK r \in Readd(ram, X) : Writed([r EXCEPT ![ACC] = r[X]], X, ram[ACC])
    BY <1>3 DEF XchDirect
  <2>3. r \in Ram /\ r[DPS] = ram[DPS] /\ \A c \in Cell \ {X} : r[c] = ram[c]
    BY <2>1, Reads DEF Asked
  <2>4. r[X] \in Byte /\ ram[ACC] \in Byte
    BY <2>1, <2>3, Value, Cells DEF Inv
  <2> DEFINE q == [r EXCEPT ![ACC] = r[X]]
  <2>5. q \in Ram /\ q[DPS] = ram[DPS] /\ \A c \in Cell \ {X, ACC} : q[c] = ram[c]
    BY <2>1, <2>3, <2>4, Cells DEF Ram
  <2>6. Writed(q, X, ram[ACC])
    BY <2>2
  <2> HIDE DEF q
  <2> QED
    BY <2>1, <2>4, <2>5, <2>6, Writes DEF Good
<1> QED
  BY <1>1, <1>2, <1>3

\* R0 and R1, and what they name.
LEMMA Registers ==
  ASSUME Inv, NEW n \in 0..7
  PROVE  /\ R(n) = ram[n] /\ R(n) \in Byte
         /\ At(R(n)) = Indirect(ram[n]) /\ At(R(n)) \in Cell /\ At(R(n)) # DPS
<1>1. n \in Cell /\ R(n) = ram[n]
  BY DEF R, Inv, Cell
<1>2. R(n) \in Byte
  BY <1>1, Value DEF Inv
<1> QED
  BY <1>1, <1>2, AtCell

LEMMA GoodIndirect ==
  ASSUME Inv, insn' \in Program,
         MovIndirect \/ MovIndirectDirect \/ MovDirectIndirect \/ LoadIndirect \/ XchIndirect
  PROVE  Good
<1> USE DEF NamesIndirect, NamesDirect, X, Y, I
<1>1. CASE MovIndirect
  <2>1. X \in 0..7 /\ Y \in Byte /\ Taken(insn') = {Indirect(ram[X])}
    BY <1>1, ProgramAssumption DEF MovIndirect, Taken
  <2> DEFINE c0 == At(R(X))
             q == [ram EXCEPT ![c0] = Y]
  <2>2. c0 \in Cell /\ c0 # DPS /\ Taken(insn') = {c0}
    BY <2>1, Registers
  <2>3. Poke(q)
    BY <1>1 DEF MovIndirect
  <2> HIDE DEF c0
  <2>4. q \in Ram /\ q[DPS] = ram[DPS] /\ \A c \in Cell \ Taken(insn') : q[c] = ram[c]
    BY <2>1, <2>2, Cells DEF Ram, Inv
  <2> HIDE DEF q
  <2> QED
    BY <2>3, <2>4, Pokes DEF Good
<1>2. CASE MovIndirectDirect
  <2>1. X \in 0..7 /\ Y \in Direct /\ Taken(insn') = {Indirect(ram[X])} \cup Asked(Y)
    BY <1>2, ProgramAssumption DEF MovIndirectDirect, Taken
  <2>2. PICK r \in Readd(ram, Y) : Poke([r EXCEPT ![At(R(X))] = r[Y]])
    BY <1>2 DEF MovIndirectDirect
  <2>3. r \in Ram /\ r[DPS] = ram[DPS] /\ \A c \in Cell \ Asked(Y) : r[c] = ram[c]
    BY <2>1, Reads
  <2>4. r[Y] \in Byte
    BY <2>1, <2>3, Value, Cells
  <2> DEFINE c0 == At(R(X))
             q == [r EXCEPT ![c0] = r[Y]]
  <2>5. c0 \in Cell /\ c0 # DPS /\ Taken(insn') = {c0} \cup Asked(Y)
    BY <2>1, Registers
  <2>6. Poke(q)
    BY <2>2
  <2> HIDE DEF c0
  <2>7. q \in Ram /\ q[DPS] = ram[DPS] /\ \A c \in Cell \ Taken(insn') : q[c] = ram[c]
    BY <2>3, <2>4, <2>5, Cells DEF Ram
  <2> HIDE DEF q
  <2> QED
    BY <2>6, <2>7, Pokes DEF Good
<1>3. CASE MovDirectIndirect
  <2>1. X \in Direct /\ Y \in 0..7 /\ Taken(insn') = {X}
    BY <1>3, ProgramAssumption DEF MovDirectIndirect, Taken
  <2>2. ram[At(R(Y))] \in Byte
    BY <2>1, Registers, Value DEF Inv
  <2> QED
    BY <1>3, <2>1, <2>2, Writes DEF MovDirectIndirect, Inv, Good
<1>4. CASE LoadIndirect
  <2>1. X \in 0..7 /\ Taken(insn') = {ACC}
    BY <1>4, ProgramAssumption DEF LoadIndirect, Taken
  <2> DEFINE v == ram[At(R(X))]
             q == [ram EXCEPT ![ACC] = v]
  <2>2. v \in Byte
    BY <2>1, Registers, Value DEF Inv
  <2>3. Poke(q)
    BY <1>4 DEF LoadIndirect
  <2> HIDE DEF v
  <2>4. q \in Ram /\ q[DPS] = ram[DPS] /\ \A c \in Cell \ Taken(insn') : q[c] = ram[c]
    BY <2>1, <2>2, Cells DEF Ram, Inv
  <2> HIDE DEF q
  <2> QED
    BY <2>3, <2>4, Pokes DEF Good
<1>5. CASE XchIndirect
  <2>1. X \in 0..7 /\ Taken(insn') = {Indirect(ram[X]), ACC}
    BY <1>5, ProgramAssumption DEF XchIndirect, Taken
  <2> DEFINE c0 == At(R(X))
             q == [ram EXCEPT ![c0] = ram[ACC], ![ACC] = ram[c0]]
  <2>2. c0 \in Cell /\ c0 # DPS /\ Taken(insn') = {c0, ACC} /\ ram[c0] \in Byte /\ ram[ACC] \in Byte
    BY <2>1, Registers, Value, Cells DEF Inv
  <2>3. Poke(q)
    BY <1>5 DEF XchIndirect
  <2> HIDE DEF c0
  <2>4. q \in Ram /\ q[DPS] = ram[DPS] /\ \A c \in Cell \ Taken(insn') : q[c] = ram[c]
    BY <2>1, <2>2, Cells DEF Ram, Inv
  <2> HIDE DEF q
  <2> QED
    BY <2>3, <2>4, Pokes DEF Good
<1> QED
  BY <1>1, <1>2, <1>3, <1>4, <1>5

LEMMA GoodAsDirect ==
  ASSUME Inv, insn' \in Program, IncIndirect \/ DecIndirect \/ XchdIndirect \/ AddIndirect
  PROVE  Good
<1> USE DEF NamesIndirect, X, Y, I, AsDirect
<1> DEFINE a == R(X)
<1>1. X \in 0..7 /\ a \in Direct /\ a = ram[X] /\ insn'[1] \in {"inci", "deci", "xchdi", "addi"}
  BY ProgramAssumption, Registers DEF IncIndirect, DecIndirect, XchdIndirect, AddIndirect
<1>2. CASE IncIndirect \/ DecIndirect
  <2>1. Taken(insn') = {a}
    BY <1>1, <1>2 DEF IncIndirect, DecIndirect, Taken
  <2>2. PICK r \in Readd(ram, a) : Writed(r, a, (r[a] + 1) % 256)
    BY <1>2 DEF IncIndirect, DecIndirect
  <2>3. r \in Ram /\ r[DPS] = ram[DPS] /\ \A c \in Cell \ {a} : r[c] = ram[c]
    BY <1>1, Reads DEF Asked
  <2>4. (r[a] + 1) % 256 \in Byte
    <3>1. 1 \in Byte
      BY DEF Byte
    <3> QED
      BY <1>1, <2>3, <3>1, Value, Sums, Cells
  <2> HIDE DEF a
  <2> QED
    BY <1>1, <2>1, <2>2, <2>3, <2>4, Writes DEF Good
<1>3. CASE AddIndirect
  <2>1. Taken(insn') = {ACC} \cup Asked(a)
    BY <1>1, <1>3 DEF AddIndirect, Taken
  <2>2. PICK r \in Readd(ram, a) : Poke([r EXCEPT ![ACC] = (ram[ACC] + r[a]) % 256])
    BY <1>3 DEF AddIndirect
  <2>3. r \in Ram /\ r[DPS] = ram[DPS] /\ \A c \in Cell \ Asked(a) : r[c] = ram[c]
    BY <1>1, Reads
  <2> DEFINE v == (ram[ACC] + r[a]) % 256
             q == [r EXCEPT ![ACC] = v]
  <2>4. v \in Byte
    BY <1>1, <2>3, Value, Sums, Cells DEF Inv
  <2>5. Poke(q)
    BY <2>2
  <2> HIDE DEF a, v
  <2>6. q \in Ram /\ q[DPS] = ram[DPS] /\ \A c \in Cell \ Taken(insn') : q[c] = ram[c]
    BY <2>1, <2>3, <2>4, Cells DEF Ram
  <2> HIDE DEF q
  <2> QED
    BY <2>5, <2>6, Pokes DEF Good
<1>4. CASE XchdIndirect
  <2>1. Taken(insn') = {a, ACC}
    BY <1>1, <1>4 DEF XchdIndirect, Taken
  <2>2. PICK r \in Readd(ram, a) :
          LET v == Nibbles(r[a], ram[ACC]) IN
          /\ \E w \in Kept(a, v) : ram' = [r EXCEPT ![a] = w, ![ACC] = Nibbles(ram[ACC], r[a])]
          /\ Moved(a, v)
    BY <1>4 DEF XchdIndirect
  <2>3. r \in Ram /\ r[DPS] = ram[DPS] /\ \A c \in Cell \ {a} : r[c] = ram[c]
    BY <1>1, Reads DEF Asked
  <2>4. r[a] \in Byte /\ ram[ACC] \in Byte
    BY <1>1, <2>3, Value, Cells DEF Inv
  <2> DEFINE v == Nibbles(r[a], ram[ACC])
             x == Nibbles(ram[ACC], r[a])
  <2>5. v \in Byte /\ x \in Byte
    BY <2>4, NibblesByte
  <2>6. PICK w \in Kept(a, v) : ram' = [r EXCEPT ![a] = w, ![ACC] = x]
    BY <2>2
  <2>7. Moved(a, v)
    BY <2>2
  <2> HIDE DEF a, v, x
  <2>8. w \in Byte /\ (a = DPS => w = v % 2)
    BY <2>5, DeviceAssumption, Cells DEF Kept, Byte
  <2>9. reg' = 0 /\ dptr' = IF a = DPS THEN v % 2 ELSE dptr
    BY <2>7 DEF Moved, Trapped, NoTrap, Inv
  <2>10. ram' \in Ram /\ \A c \in Cell \ {a, ACC} : ram'[c] = ram[c]
    BY <1>1, <2>3, <2>5, <2>6, <2>8, Cells DEF Ram
  <2>11. DPS \in Cell /\ a \in Cell /\ v % 2 \in {0, 1}
    BY <1>1, <2>5, Cells
  <2>12. a = DPS => ram'[DPS] = w
    BY <2>3, <2>6, <2>11 DEF Ram
  <2>13. dptr' \in {0, 1} /\ dptr' = ram'[DPS]
    BY <2>8, <2>9, <2>10, <2>11, <2>12 DEF Inv
  <2> QED
    BY <2>1, <2>9, <2>10, <2>13 DEF Good, Inv
<1> QED
  BY <1>2, <1>3, <1>4

LEMMA Halves ==
  ASSUME NEW w \in Word
  PROVE  /\ Hi(w) \in Byte /\ Lo(w) \in Byte
         /\ Pair(Hi(w), Lo(w)) = w
BY DEF Hi, Lo, Word, Byte, Pair

LEMMA PairWord ==
  ASSUME NEW h \in Byte, NEW l \in Byte
  PROVE  Pair(h, l) \in Word
<1>1. h \in Int /\ l \in Int /\ 0 <= h /\ h <= 255 /\ 0 <= l /\ l <= 255
  BY DEF Byte
<1>2. Pair(h, l) \in Int /\ Pair(h, l) = Wrap(Pair(h, l))
  BY <1>1 DEF Pair, Wrap
<1>3. \A n \in Int : Wrap(n) \in Word
  BY DEF Wrap, Word
<1> QED
  BY <1>2, <1>3

LEMMA Wraps ==
  ASSUME NEW h \in Byte, NEW l \in Byte
  PROVE  Wrap(Pair(h, l) + 1) \in Word
<1>1. Pair(h, l) + 1 \in Int
  BY DEF Pair, Byte
<1>2. \A n \in Int : Wrap(n) \in Word
  BY SMTT(60) DEF Wrap, Word
<1> QED
  BY <1>1, <1>2

\* Storing DPTR goes to the pair that DPS selects.
LEMMA SetsPointer ==
  ASSUME Inv, NEW w \in Word, SetPointer(w)
  PROVE  /\ Inv' /\ \A c \in Cell \ Pair0(ram[DPS]) : ram'[c] = ram[c]
         /\ Selected' = w
<1> DEFINE h == 131 + 2 * dptr
           l == 130 + 2 * dptr
           q == [ram EXCEPT ![h] = Hi(w), ![l] = Lo(w)]
<1>1. h \in Cell /\ l \in Cell /\ h # DPS /\ l # DPS /\ h # l /\ Pair0(ram[DPS]) = {h, l}
  BY Cells DEF Inv, Pair0
<1>2. Poke(q)
  BY DEF SetPointer
<1> HIDE DEF h, l
<1>3. q \in Ram /\ q[DPS] = ram[DPS] /\ q[h] = Hi(w) /\ q[l] = Lo(w)
      /\ \A c \in Cell \ {h, l} : q[c] = ram[c]
  BY <1>1, Halves, Cells DEF Ram, Inv
<1> HIDE DEF q
<1>4. Inv' /\ ram' = q
  BY <1>2, <1>3, Pokes
<1>5. Selected' = Pair(q[h], q[l])
  BY <1>3, <1>4 DEF Selected, Inv, h, l
<1> QED
  BY <1>1, <1>3, <1>4, <1>5, Halves

LEMMA GoodRegisters ==
  ASSUME Inv, insn' \in Program, SetRegister \/ MovPointer \/ IncPointer
  PROVE  Good
<1> USE DEF X, Y, I
<1>1. CASE SetRegister
  <2>1. X \in 0..7 /\ Y \in Byte /\ Taken(insn') = {X}
    BY <1>1, ProgramAssumption DEF SetRegister, Taken
  <2> DEFINE q == [ram EXCEPT ![X] = Y]
  <2>2. X \in Cell /\ X # DPS /\ reg + X = X
    BY <2>1 DEF Inv, Cell
  <2>3. Poke(q)
    BY <1>1, <2>2 DEF SetRegister
  <2>4. q \in Ram /\ q[DPS] = ram[DPS] /\ \A c \in Cell \ Taken(insn') : q[c] = ram[c]
    BY <2>1, <2>2, Cells DEF Ram, Inv
  <2> HIDE DEF q
  <2> QED
    BY <2>3, <2>4, Pokes DEF Good
<1>2. CASE MovPointer
  <2>1. X \in Word /\ Taken(insn') = Pair0(ram[DPS])
    BY <1>2, ProgramAssumption DEF MovPointer, Taken
  <2> QED
    BY <1>2, <2>1, SetsPointer DEF MovPointer, Good
<1>3. CASE IncPointer
  <2> DEFINE w == Wrap(Pair(ram[131 + 2 * dptr], ram[130 + 2 * dptr]) + 1)
  <2>1. Taken(insn') = Pair0(ram[DPS])
    BY <1>3 DEF IncPointer, Taken
  <2>2. 131 + 2 * dptr \in Cell /\ 130 + 2 * dptr \in Cell
    BY Cells DEF Inv, Cell
  <2>3. w \in Word
    BY <2>2, Wraps, Value DEF Inv
  <2>4. SetPointer(w)
    BY <1>3 DEF IncPointer
  <2> HIDE DEF w
  <2> QED
    BY <2>1, <2>3, <2>4, SetsPointer DEF Good
<1> QED
  BY <1>1, <1>2, <1>3

-----------------------------------------------------------------------------
(***************************************************************************)
(* The stack.                                                              *)
(***************************************************************************)

Up(r, k) == (r[SP] + k) % 256

LEMMA Pushes ==
  ASSUME NEW r \in Ram, NEW v \in Byte
  PROVE  /\ Pushed(r, v) \in Ram
         /\ Pushed(r, v)[SP] = Up(r, 1)
         /\ Pushed(r, v)[Indirect(Up(r, 1))] = v
         /\ \A c \in Cell \ {SP, Indirect(Up(r, 1))} : Pushed(r, v)[c] = r[c]
<1> DEFINE s == Up(r, 1)
           c0 == At(s)
<1>1. r[SP] \in Byte
  BY Value, Cells
<1>2. s \in Byte
  BY <1>1 DEF Byte, Up
<1>3. c0 \in Cell /\ c0 = Indirect(s) /\ c0 # SP
  BY <1>2, AtCell
<1>4. Pushed(r, v) = [r EXCEPT ![SP] = s, ![c0] = v]
  BY DEF Pushed, Up
<1> HIDE DEF s, c0
<1>5. [r EXCEPT ![SP] = s, ![c0] = v] \in [Cell -> Byte]
  BY <1>2, <1>3, Cells DEF Ram
<1>6. /\ [r EXCEPT ![SP] = s, ![c0] = v][SP] = s
      /\ [r EXCEPT ![SP] = s, ![c0] = v][c0] = v
      /\ \A c \in Cell \ {SP, c0} : [r EXCEPT ![SP] = s, ![c0] = v][c] = r[c]
  BY <1>2, <1>3, Cells DEF Ram
<1> QED
  BY <1>3, <1>4, <1>5, <1>6 DEF Ram, s, c0

LEMMA Pops ==
  ASSUME Inv, NEW k \in {1, 2}
  PROVE  /\ Popped(k) \in Ram
         /\ Popped(k)[SP] = (ram[SP] - k) % 256
         /\ Popped(k)[DPS] = ram[DPS]
         /\ \A c \in Cell \ {SP} : Popped(k)[c] = ram[c]
         /\ Top = ram[Indirect(ram[SP])] /\ Top \in Byte
         /\ Below = ram[Indirect((ram[SP] - 1) % 256)] /\ Below \in Byte
<1>1. ram[SP] \in Byte
  BY Value, Cells DEF Inv
<1>2. (ram[SP] - k) % 256 \in Byte /\ (ram[SP] - 1) % 256 \in Byte
  BY <1>1 DEF Byte
<1>3. /\ Popped(k) \in Ram
      /\ Popped(k)[SP] = (ram[SP] - k) % 256
      /\ \A c \in Cell \ {SP} : Popped(k)[c] = ram[c]
  BY <1>2, Cells DEF Popped, Inv, Ram
<1>4. Top = ram[Indirect(ram[SP])] /\ Top \in Byte
  BY <1>1, AtCell, Value DEF Top, Inv
<1>5. Below = ram[Indirect((ram[SP] - 1) % 256)] /\ Below \in Byte
  BY <1>2, AtCell, Value DEF Below, Inv
<1> QED
  BY <1>3, <1>4, <1>5, Cells

LEMMA SlotIsUp ==
  /\ Slot(1) = Indirect(Up(ram, 1)) /\ Slot(2) = Indirect(Up(ram, 2))
BY DEF Slot, Up

LEMMA GoodPush ==
  ASSUME Inv, insn' \in Program, PushDirect
  PROVE  /\ Good
         /\ \E v \in Byte : frames' = Append(frames, v) /\ ram'[Slot(1)] = v
         /\ ram'[SP] = Up(ram, 1)
<1> USE DEF NamesDirect, X, Y, I
<1>1. X \in Direct /\ Taken(insn') = {SP, Slot(1)} \cup Asked(X)
  BY ProgramAssumption DEF PushDirect, Taken
<1>2. PICK r \in Readd(ram, X) :
        \E v \in IF X = SP THEN {r[SP], (r[SP] + 1) % 256} ELSE {r[X]} :
           Poke(Pushed(r, v)) /\ frames' = Append(frames, v)
  BY DEF PushDirect
<1>3. r \in Ram /\ r[DPS] = ram[DPS] /\ r[SP] = ram[SP] /\ \A c \in Cell \ Asked(X) : r[c] = ram[c]
  BY <1>1, Reads
<1>4. r[SP] \in Byte /\ r[X] \in Byte /\ (r[SP] + 1) % 256 \in Byte
  <2>1. r[SP] \in Byte /\ r[X] \in Byte
    BY <1>1, <1>3, Value, Cells
  <2> QED
    BY <2>1 DEF Byte
<1>5. PICK v \in Byte : Poke(Pushed(r, v)) /\ frames' = Append(frames, v)
  BY <1>2, <1>4
<1>6. Up(r, 1) = Up(ram, 1) /\ Slot(1) = Indirect(Up(r, 1)) /\ Slot(1) # DPS /\ Up(r, 1) \in Byte
  <2>1. Up(r, 1) = Up(ram, 1) /\ Up(r, 1) \in Byte
    BY <1>3, <1>4 DEF Up
  <2> QED
    BY <2>1, SlotIsUp, AtCell
<1> DEFINE q == Pushed(r, v)
<1>7. /\ q \in Ram /\ q[SP] = Up(ram, 1) /\ q[Slot(1)] = v
      /\ \A c \in Cell \ {SP, Slot(1)} : q[c] = r[c]
  BY <1>3, <1>6, Pushes
<1>8. Poke(q)
  BY <1>5
<1> HIDE DEF q
<1>9. q[DPS] = ram[DPS] /\ \A c \in Cell \ Taken(insn') : q[c] = ram[c]
  BY <1>1, <1>3, <1>6, <1>7, Cells
<1>10. Inv' /\ ram' = q
  BY <1>7, <1>8, <1>9, Pokes
<1> QED
  BY <1>5, <1>7, <1>9, <1>10 DEF Good

LEMMA GoodPop ==
  ASSUME Inv, insn' \in Program, PopDirect
  PROVE  /\ Good
         /\ X # SP => ram'[SP] = (ram[SP] - 1) % 256
         /\ X \notin Device \cup {DPS} => ram'[X] = ram[Indirect(ram[SP])]
<1> USE DEF NamesDirect, X, Y, I
<1>1. X \in Direct /\ Taken(insn') = {SP, X}
  BY ProgramAssumption DEF PopDirect, Taken
<1>2. Writed(Popped(1), X, Top)
  BY DEF PopDirect
<1>3. /\ Popped(1) \in Ram /\ Popped(1)[DPS] = ram[DPS] /\ Top \in Byte
      /\ Popped(1)[SP] = (ram[SP] - 1) % 256 /\ Top = ram[Indirect(ram[SP])]
      /\ \A c \in Cell \ {SP} : Popped(1)[c] = ram[c]
  BY Pops
<1>4. /\ Inv' /\ \A c \in Cell \ {X} : ram'[c] = Popped(1)[c]
      /\ X \notin Device \cup {DPS} => ram'[X] = Top
  BY <1>1, <1>2, <1>3, Writes
<1> QED
  BY <1>1, <1>3, <1>4, Cells DEF Good

LEMMA GoodCall ==
  ASSUME Inv, insn' \in Program, Call
  PROVE  /\ Good /\ ram'[SP] = Up(ram, 2)
         /\ Slot(1) # Slot(2) /\ Lo(X) \in Byte /\ Hi(X) \in Byte
         /\ ram'[Slot(1)] = Lo(X) /\ ram'[Slot(2)] = Hi(X)
<1> USE DEF X, Y, I
<1>1. X \in Word /\ Taken(insn') = {SP, Slot(1), Slot(2)}
  BY ProgramAssumption DEF Call, Taken
<1>2. Lo(X) \in Byte /\ Hi(X) \in Byte
  BY <1>1, Halves
<1> DEFINE p == Pushed(ram, Lo(X))
           q == Pushed(p, Hi(X))
<1>3. /\ p \in Ram /\ p[SP] = Up(ram, 1) /\ p[Slot(1)] = Lo(X)
      /\ \A c \in Cell \ {SP, Slot(1)} : p[c] = ram[c]
  BY <1>2, Pushes, SlotIsUp DEF Inv
<1>4. ram[SP] \in Byte
  BY Value, Cells DEF Inv
<1>5. Up(p, 1) = Up(ram, 2) /\ Up(ram, 1) \in Byte /\ Up(ram, 2) \in Byte /\ Up(ram, 1) # Up(ram, 2)
  BY <1>3, <1>4 DEF Up, Byte
<1>6. Slot(1) \in Cell /\ Slot(2) \in Cell /\ Slot(1) # Slot(2) /\ Slot(1) # DPS /\ Slot(2) # DPS
      /\ Slot(1) # SP /\ Slot(2) # SP
  BY <1>5, SlotIsUp DEF Indirect, Cell, Byte
<1>7. Poke(q)
  BY DEF Call
<1> HIDE DEF p
<1>8. /\ q \in Ram /\ q[SP] = Up(ram, 2) /\ q[Slot(2)] = Hi(X)
      /\ \A c \in Cell \ {SP, Slot(2)} : q[c] = p[c]
  <2>1. /\ q \in Ram /\ q[SP] = Up(p, 1) /\ q[Indirect(Up(p, 1))] = Hi(X)
        /\ \A c \in Cell \ {SP, Indirect(Up(p, 1))} : q[c] = p[c]
    BY <1>2, <1>3, Pushes
  <2>2. Indirect(Up(p, 1)) = Slot(2)
    BY <1>5, SlotIsUp
  <2> HIDE DEF q
  <2> QED
    BY <1>5, <2>1, <2>2
<1> HIDE DEF q
<1>9. q[DPS] = ram[DPS] /\ q[Slot(1)] = Lo(X) /\ \A c \in Cell \ Taken(insn') : q[c] = ram[c]
  BY <1>1, <1>3, <1>6, <1>8, Cells
<1>10. Inv' /\ ram' = q
  BY <1>7, <1>8, <1>9, Pokes
<1> QED
  BY <1>2, <1>6, <1>8, <1>9, <1>10 DEF Good

LEMMA GoodRet ==
  ASSUME Inv, insn' \in Program, Ret
  PROVE  Good /\ ram'[SP] = (ram[SP] - 2) % 256
<1> USE DEF X, Y, I
<1>1. Taken(insn') = {SP} /\ Poke(Popped(2))
  BY DEF Ret, Taken
<1>2. /\ Popped(2) \in Ram /\ Popped(2)[DPS] = ram[DPS]
      /\ Popped(2)[SP] = (ram[SP] - 2) % 256
      /\ \A c \in Cell \ {SP} : Popped(2)[c] = ram[c]
  BY Pops
<1>3. Inv' /\ ram' = Popped(2)
  BY <1>1, <1>2, Pokes
<1> QED
  BY <1>1, <1>2, <1>3 DEF Good

LEMMA GoodStep ==
  ASSUME Inv, Next
  PROVE  Good
<1>1. insn' \in Program
  BY DEF Next
<1>2. CASE Stack
  BY <1>1, <1>2, GoodPush, GoodPop, GoodCall, GoodRet DEF Stack
<1>3. CASE Plain
  BY <1>1, <1>3, GoodStores, GoodLoads, GoodIndirect, GoodAsDirect, GoodRegisters DEF Plain
<1> QED
  BY <1>2, <1>3 DEF Next

-----------------------------------------------------------------------------
(***************************************************************************)
(* The stack as a list: SP points at its last byte and, while no operand   *)
(* named one of them, the bytes are the ones that were pushed.             *)
(***************************************************************************)

Typed == pc \in Word /\ base \in Byte /\ frames \in Seq(Byte) /\ intact \in BOOLEAN
Full == /\ Inv /\ Typed
        /\ ram[SP] = (base + Len(frames)) % 256
        /\ intact => \A k \in 1..Len(frames) : ram[Frame(k)] = frames[k]

LEMMA FrameCell ==
  ASSUME Typed, NEW k \in Nat
  PROVE  Frame(k) \in Cell
<1>1. (base + k) % 256 \in Byte
  BY DEF Typed, Byte
<1> QED
  BY <1>1, AtCell DEF Frame

LEMMA Kinds ==
  ASSUME Next
  PROVE  insn' \in Program /\ insn'[1] \in NamesDirect \cup NamesIndirect
                                 \cup {"bit", "reg", "dptr", "incdptr", "call", "ret"}
BY DEF Next, Stack, Plain, I, NamesDirect, NamesIndirect,
       MovDirect, MovBetween, ModifyDirect, ModifyBit, LoadDirect, TestDirect, XchDirect,
       MovIndirect, MovIndirectDirect, MovDirectIndirect, LoadIndirect, XchIndirect,
       AsDirect, IncIndirect, DecIndirect, XchdIndirect, AddIndirect,
       SetRegister, MovPointer, IncPointer, PushDirect, PopDirect, Call, Ret

\* Where it does not go elsewhere the emulator takes what an 8052 would.
LEMMA TakenIsNamed ==
  ASSUME Inv, Next, ~Deviates(insn')
  PROVE  Taken(insn') = Names(insn')
<1>1. insn' \in Program /\ insn'[1] \in NamesDirect \cup NamesIndirect
                                \cup {"bit", "reg", "dptr", "incdptr", "call", "ret"}
  BY Kinds
<1>2. CASE insn'[1] \in {"mov", "movd", "modify", "bit", "test", "xch", "movdi", "loadi",
                         "dptr", "incdptr", "push", "pop", "call", "ret"}
  <2>1. CASE insn'[1] \in {"mov", "movd", "modify", "bit", "test", "xch", "movdi"}
    BY <2>1 DEF Taken, Names
  <2>2. CASE insn'[1] \in {"loadi", "dptr", "incdptr", "push", "pop", "call", "ret"}
    BY <2>2 DEF Taken, Names
  <2> QED
    BY <1>2, <2>1, <2>2
<1>3. CASE insn'[1] = "load"
  <2>1. insn'[3] \in 0..7 \cup {ACC}
    BY <1>1, <1>3, ProgramAssumption
  <2>2. CASE insn'[3] = ACC
    BY <1>3, <2>2 DEF Taken, Names
  <2>3. CASE insn'[3] # ACC
    <3>1. Bank = 0
      BY <1>3, <2>3 DEF Deviates, UsesBank
    <3>2. Bank + insn'[3] = insn'[3]
      BY <2>1, <2>3, <3>1
    <3> QED
      BY <1>3, <2>3, <3>2 DEF Taken, Names
  <2> QED
    BY <2>2, <2>3
<1>4. CASE insn'[1] \in {"reg", "movi", "movid", "xchi"} \cup Arithmetic
  <2>1. Bank = 0
    BY <1>4 DEF Deviates, UsesBank
  <2>2. insn'[2] \in 0..7
    BY <1>1, <1>4, ProgramAssumption DEF NamesIndirect, Arithmetic
  <2>3. Bank + insn'[2] = insn'[2] /\ insn'[2] \in Cell /\ ram[insn'[2]] \in Byte
    BY <2>1, <2>2 DEF Inv, Ram, Cell
  <2>4. AtRi(insn'[2]) = Indirect(ram[insn'[2]])
    BY <2>3 DEF AtRi
  <2>5. CASE insn'[1] \in {"reg", "movi", "movid", "xchi"}
    BY <2>3, <2>4, <2>5 DEF Taken, Names
  <2>6. CASE insn'[1] \in Arithmetic
    <3>1. ~(ram[insn'[2]] > 127)
      BY <2>6 DEF Deviates
    <3>2. AtRi(insn'[2]) = ram[insn'[2]]
      BY <2>4, <3>1 DEF Indirect
    <3>3. Asked(ram[insn'[2]]) = {}
      BY <2>3, <3>1, Cells, DeviceAssumption DEF Asked
    <3> QED
      BY <2>6, <3>2, <3>3 DEF Taken, Names, Arithmetic
  <2> QED
    BY <1>4, <2>5, <2>6
<1> QED
  BY <1>1, <1>2, <1>3, <1>4 DEF NamesDirect, NamesIndirect, Arithmetic

\* A byte of the stack that no operand named is still there.
LEMMA StillThere ==
  ASSUME Full, Good, Next, ~Deviates(insn'), frames' # << >>, intact', History,
         NEW k \in 1..Surviving, Surviving <= Len(frames)
  PROVE  ram'[Frame(k)] = frames[k]
<1>1. intact /\ Frame(k) \notin Names(insn')
  BY DEF History
<1>2. Typed /\ \A n \in 1..Len(frames) : ram[Frame(n)] = frames[n]
  BY <1>1 DEF Full
<1>3. Len(frames) \in Nat
  BY <1>2 DEF Typed
<1>4. Surviving \in Int
  BY <1>3 DEF Surviving
<1>5. k \in Nat /\ k \in 1..Len(frames)
  BY <1>3, <1>4
<1>6. Frame(k) \in Cell
  BY <1>2, <1>5, FrameCell
<1>7. ram'[Frame(k)] = ram[Frame(k)]
  <2>1. Frame(k) \notin Taken(insn')
    BY <1>1, TakenIsNamed DEF Full
  <2> QED
    BY <2>1, <1>6 DEF Good
<1> QED
  BY <1>2, <1>5, <1>7

\* A byte pushed behind the stack.
LEMMA SlotIsFrame ==
  ASSUME Full, NEW j \in {1, 2}
  PROVE  Slot(j) = Frame(Len(frames) + j)
         /\ Up(ram, j) = (base + (Len(frames) + j)) % 256
<1>1. Typed /\ ram[SP] = (base + Len(frames)) % 256
  BY DEF Full
<1>2. Len(frames) \in Nat /\ base \in Int
  BY <1>1, Cells DEF Typed
<1>3. \A n \in Nat, b \in Int : (((b + n) % 256) + j) % 256 = (b + (n + j)) % 256
  OBVIOUS
<1>4. Up(ram, j) = (base + (Len(frames) + j)) % 256
  BY <1>1, <1>2, <1>3 DEF Up
<1> QED
  BY <1>4, SlotIsUp DEF Frame

\* Pushed bytes, one or two: what the step leaves is Full again.
LEMMA FullPush ==
  ASSUME Full, Next, PushDirect \/ Call
  PROVE  Full'
<1> USE DEF I
<1>1. /\ Good /\ Inv /\ Typed /\ insn' \in Program /\ History /\ ~SetsSp
      /\ ~Deviates(insn')
  <2>1. Inv /\ Typed
    BY DEF Full
  <2>2. insn'[1] \in {"push", "call"}
    BY DEF PushDirect, Call
  <2>3. ~SetsSp /\ ~Deviates(insn')
    BY <2>2 DEF SetsSp, Deviates, UsesBank, Arithmetic
  <2> QED
    BY <2>1, <2>3, GoodStep DEF Next
<1>2. base' = base /\ Len(frames) \in Nat /\ Inv'
  BY <1>1 DEF History, Good, Typed
<1>3. pc' = pc /\ intact' \in BOOLEAN
  BY <1>1 DEF PushDirect, Call, Next, History, Typed
<1>4. PICK m \in {1, 2} :
        /\ frames' \in Seq(Byte) /\ Len(frames') = Len(frames) + m
        /\ \A k \in 1..Len(frames) : frames'[k] = frames[k]
        /\ ram'[SP] = Up(ram, m)
        /\ \A j \in 1..m : ram'[Slot(j)] = frames'[Len(frames) + j]
  <2>1. CASE PushDirect
    <3>1. PICK v \in Byte : frames' = Append(frames, v) /\ ram'[Slot(1)] = v
      BY <1>1, <2>1, GoodPush
    <3>2. ram'[SP] = Up(ram, 1)
      BY <1>1, <2>1, GoodPush
    <3>3. /\ frames' \in Seq(Byte) /\ Len(frames') = Len(frames) + 1
          /\ \A k \in 1..Len(frames) : frames'[k] = frames[k]
          /\ frames'[Len(frames) + 1] = v
      BY <1>1, <3>1 DEF Typed
    <3> QED
      BY <3>1, <3>2, <3>3
  <2>2. CASE Call
    <3>1. /\ ram'[SP] = Up(ram, 2) /\ Lo(X) \in Byte /\ Hi(X) \in Byte
          /\ ram'[Slot(1)] = Lo(X) /\ ram'[Slot(2)] = Hi(X)
      BY <1>1, <2>2, GoodCall
    <3>2. frames' = frames \o <<Lo(X), Hi(X)>>
      BY <2>2 DEF Call
    <3> HIDE DEF X
    <3>3. /\ frames' \in Seq(Byte) /\ Len(frames') = Len(frames) + 2
          /\ \A k \in 1..Len(frames) : frames'[k] = frames[k]
          /\ frames'[Len(frames) + 1] = Lo(X) /\ frames'[Len(frames) + 2] = Hi(X)
      BY <1>1, <3>1, <3>2 DEF Typed
    <3> QED
      BY <3>1, <3>3
  <2> QED
    BY <2>1, <2>2
<1>5. Surviving = Len(frames) /\ frames' # << >>
  BY <1>2, <1>4 DEF Surviving
<1>6. ram'[SP] = (base + Len(frames')) % 256
  BY <1>4, SlotIsFrame
<1>7. ASSUME intact', NEW k \in 1..Len(frames')
      PROVE  ram'[Frame(k)] = frames'[k]
  <2>1. CASE k \in 1..Len(frames)
    BY <1>1, <1>2, <1>4, <1>5, <1>7, <2>1, StillThere
  <2>2. CASE k \notin 1..Len(frames)
    <3>1. PICK j \in 1..m : k = Len(frames) + j
      BY <1>2, <1>4, <2>2
    <3>2. j \in {1, 2}
      BY <1>4, <3>1
    <3> QED
      BY <1>4, <3>1, <3>2, SlotIsFrame
  <2> QED
    BY <2>1, <2>2
<1> QED
  BY <1>1, <1>2, <1>3, <1>4, <1>6, <1>7 DEF Full, Typed, Frame

\* What is left of the stack when bytes are popped, or nothing was pushed.
LEMMA FullShorter ==
  ASSUME Full, Good, Next, ~Deviates(insn'), History, base' = base, pc' \in Word, intact' \in BOOLEAN,
         NEW n \in 0..Len(frames), frames' = SubSeq(frames, 1, n),
         ram'[SP] = (base + n) % 256
  PROVE  Full'
<1>1. Typed /\ Inv'
  BY DEF Full, Good
<1>2. /\ frames' \in Seq(Byte) /\ Len(frames') = n /\ Len(frames) \in Nat
      /\ \A k \in 1..n : frames'[k] = frames[k]
  BY <1>1 DEF Typed
<1>3. Surviving = n /\ Surviving <= Len(frames)
  BY <1>2 DEF Surviving
<1>4. ASSUME intact', NEW k \in 1..n
      PROVE  ram'[Frame(k)] = frames'[k]
  <2>1. frames' # << >>
    BY <1>2, <1>4
  <2> QED
    BY <1>2, <1>3, <1>4, <2>1, StillThere
<1> QED
  BY <1>1, <1>2, <1>4 DEF Full, Typed, Frame

\* A program that sets SP starts with an empty stack.
LEMMA FullEmpty ==
  ASSUME Inv', base' = ram'[SP], pc' \in Word, intact' \in BOOLEAN, frames' = << >>
  PROVE  Full'
<1>1. \A b \in Byte : b = (b + 0) % 256
  BY DEF Byte
<1>2. base' \in Byte
  BY Cells DEF Inv, Ram
<1>3. Len(frames') = 0 /\ frames' \in Seq(Byte)
  OBVIOUS
<1> QED
  BY <1>1, <1>2, <1>3 DEF Full, Typed

LEMMA Cut ==
  ASSUME Typed, NEW n \in Int
  PROVE  n < 1 => SubSeq(frames, 1, n) = << >>
BY DEF Typed

LEMMA Lowered ==
  ASSUME Full, NEW k \in {1, 2}
  PROVE  (ram[SP] - k) % 256 = (base + (Len(frames) - k)) % 256
<1>1. Typed /\ ram[SP] = (base + Len(frames)) % 256
  BY DEF Full
<1>2. Len(frames) \in Nat /\ base \in Int
  BY <1>1, Cells DEF Typed
<1>3. \A n \in Nat, b \in Int : (((b + n) % 256) - k) % 256 = (b + (n - k)) % 256
  OBVIOUS
<1> QED
  BY <1>1, <1>2, <1>3

LEMMA FullPop ==
  ASSUME Full, Next, PopDirect \/ Ret
  PROVE  Full'
<1> USE DEF I
<1>1. Good /\ Inv /\ Inv' /\ Typed /\ insn' \in Program /\ History /\ intact' \in BOOLEAN /\ Len(frames) \in Nat
  <2>1. Inv /\ Typed
    BY DEF Full
  <2>2. Len(frames) \in Nat
    BY <2>1 DEF Typed
  <2> QED
    BY <2>1, <2>2, GoodStep DEF Next, Good, History, Typed
<1>5. ~Deviates(insn')
  BY DEF PopDirect, Ret, Deviates, UsesBank, Arithmetic
<1>2. pc' \in Word
  <2>1. Pair(Top, Below) \in Word
    <3>1. Top \in Byte /\ Below \in Byte
      BY <1>1, Pops
    <3> QED
      BY <3>1, PairWord
  <2> QED
    BY <1>1, <2>1 DEF Next, Typed
<1>3. CASE SetsSp
  <2>1. base' = ram'[SP]
    BY <1>1, <1>3 DEF History
  <2>2. CASE PopDirect
    <3>1. X = SP \/ frames = << >>
      BY <1>3, <2>2 DEF PopDirect, SetsSp
    <3>2. frames' = SubSeq(frames, 1, Len(frames) - (IF X = SP THEN Len(frames) ELSE 1))
      BY <2>2 DEF PopDirect, Drop
    <3>3. Len(frames) - (IF X = SP THEN Len(frames) ELSE 1) < 1
      BY <1>1, <3>1
    <3>4. frames' = << >>
      BY <1>1, <3>2, <3>3, Cut
    <3> QED
      BY <1>1, <1>2, <2>1, <3>4, FullEmpty
  <2>3. CASE Ret
    <3>1. Len(frames) < 2 /\ frames' = SubSeq(frames, 1, Len(frames) - 2)
      BY <1>3, <2>3 DEF Ret, SetsSp, Drop
    <3>2. frames' = << >>
      BY <1>1, <3>1, Cut
    <3> QED
      BY <1>1, <1>2, <2>1, <3>2, FullEmpty
  <2> QED
    BY <2>2, <2>3
<1>4. CASE ~SetsSp
  <2>1. base' = base
    BY <1>1, <1>4 DEF History
  <2>2. CASE PopDirect
    <3>1. X # SP /\ Len(frames) - 1 \in 0..Len(frames) /\ frames' = SubSeq(frames, 1, Len(frames) - 1)
      BY <1>1, <1>4, <2>2 DEF PopDirect, SetsSp, Drop, Typed
    <3>2. ram'[SP] = (base + (Len(frames) - 1)) % 256
      BY <1>1, <2>2, <3>1, GoodPop, Lowered
    <3> QED
      BY <1>1, <1>2, <1>5, <2>1, <3>1, <3>2, FullShorter
  <2>3. CASE Ret
    <3>1. Len(frames) - 2 \in 0..Len(frames) /\ frames' = SubSeq(frames, 1, Len(frames) - 2)
      BY <1>1, <1>4, <2>3 DEF Ret, SetsSp, Drop
    <3>2. ram'[SP] = (base + (Len(frames) - 2)) % 256
      BY <1>1, <2>3, GoodRet, Lowered
    <3> QED
      BY <1>1, <1>2, <1>5, <2>1, <3>1, <3>2, FullShorter
  <2> QED
    BY <2>2, <2>3
<1> QED
  BY <1>3, <1>4

LEMMA PlainKinds ==
  ASSUME Plain
  PROVE  /\ insn'[1] \notin {"push", "pop", "call", "ret"}
         /\ I("incdptr") => IncPointer
BY DEF Plain, I, MovDirect, MovBetween, ModifyDirect, ModifyBit, LoadDirect, TestDirect, XchDirect,
       MovIndirect, MovIndirectDirect, MovDirectIndirect, LoadIndirect, XchIndirect,
       AsDirect, IncIndirect, DecIndirect, XchdIndirect, AddIndirect,
       SetRegister, MovPointer, IncPointer

LEMMA FullPlain ==
  ASSUME Full, Next, Plain, frames' = IF SetsSp THEN << >> ELSE frames
  PROVE  Full'
<1>1. Good /\ Inv /\ Inv' /\ Typed /\ History /\ intact' \in BOOLEAN /\ Len(frames) \in Nat
  <2>1. Inv /\ Typed
    BY DEF Full
  <2>2. Len(frames) \in Nat
    BY <2>1 DEF Typed
  <2> QED
    BY <2>1, <2>2, GoodStep DEF Next, Good, History, Typed
<1>2. pc' \in Word
  BY <1>1, PlainKinds DEF Next, I, Typed
<1>3. CASE SetsSp
  BY <1>1, <1>2, <1>3, FullEmpty DEF History
<1>4. CASE ~SetsSp
  <2>1. base' = base /\ SP \notin Names(insn') /\ ~Deviates(insn')
    BY <1>1, <1>4, PlainKinds DEF History, SetsSp
  <2>2. ram'[SP] = ram[SP]
    BY <1>1, <2>1, TakenIsNamed, Cells DEF Good
  <2>3. ram'[SP] = (base + Len(frames)) % 256
    BY <2>2 DEF Full
  <2>4. frames' = SubSeq(frames, 1, Len(frames)) /\ Len(frames) \in 0..Len(frames)
    BY <1>1, <1>4 DEF Typed
  <2> QED
    BY <1>1, <1>2, <2>1, <2>3, <2>4, FullShorter
<1> QED
  BY <1>3, <1>4

LEMMA FullStep ==
  ASSUME Full, [Next]_vars
  PROVE  Full'
<1>1. CASE Next
  <2>1. CASE Stack
    BY <1>1, <2>1, FullPush, FullPop DEF Stack
  <2>2. CASE Plain /\ frames' = IF SetsSp THEN << >> ELSE frames
    BY <1>1, <2>2, FullPlain
  <2> QED
    BY <1>1, <2>1, <2>2 DEF Next
<1>2. CASE UNCHANGED vars
  BY <1>2 DEF vars, Full, Inv, Typed, Frame
<1> QED
  BY <1>1, <1>2

LEMMA FullInit ==
  ASSUME Init
  PROVE  Full
<1>1. ram = [c \in Cell |-> IF c = SP THEN 7 ELSE 0]
  BY DEF Init
<1>2. ram \in Ram /\ ram[SP] = 7 /\ ram[DPS] = 0
  BY <1>1, Cells DEF Ram, Byte
<1>3. frames = << >> /\ Len(frames) = 0 /\ frames \in Seq(Byte)
  BY DEF Init
<1>4. base = 7 /\ pc = 0 /\ reg = 0 /\ dptr = 0 /\ intact = TRUE
  BY DEF Init
<1>5. base \in Byte /\ pc \in Word /\ 7 = (7 + 0) % 256
  BY <1>4 DEF Byte, Word
<1> QED
  BY <1>2, <1>3, <1>4, <1>5 DEF Full, Inv, Typed

-----------------------------------------------------------------------------
THEOREM DataSpaceInvariant == Spec => []Full
BY FullInit, FullStep, PTL DEF Spec

\* Every cell keeps a byte, R0-R7 are one of the four banks, and the cached DPTR
\* is the pair that the stored DPS says, whatever stores to it.
THEOREM DataSpaceTyped == Spec => []TypeOK
<1>1. Full => TypeOK
  BY DEF Full, Inv, Typed, Ram, TypeOK
<1> QED
  BY <1>1, DataSpaceInvariant, PTL

\* No instruction of any program changes a place that its operands do not name
\* by the addressing of an 8052, but those that Deviates excepts.
THEOREM SpacesStayApart == Spec => SpacesApart
<1>1. Full /\ [Next]_vars
        => [~Deviates(insn') => \A c \in Cell : ram'[c] # ram[c] => c \in Names(insn')]_vars
  <2> SUFFICES ASSUME Full, Next, ~Deviates(insn')
               PROVE  \A c \in Cell : ram'[c] # ram[c] => c \in Names(insn')
    BY DEF vars
  <2> QED
    BY GoodStep, TakenIsNamed DEF Full, Good
<1> QED
  BY <1>1, DataSpaceInvariant, PTL DEF Spec, SpacesApart

\* The stack of any program returns what it was given, over all of its 256
\* bytes and for any number of calls and pushes.
THEOREM StackIsLifo == Spec => StackLifo
<1> DEFINE A == intact => /\ I("pop") /\ frames # << >> /\ X \notin Device \cup {DPS}
                             => ram'[X] = frames[Len(frames)]
                          /\ I("ret") /\ Len(frames) > 1
                             => pc' = Pair(frames[Len(frames)], frames[Len(frames) - 1])
<1>1. Full /\ [Next]_vars => [A]_vars
  <2> SUFFICES ASSUME Full, Next, intact
               PROVE  A
    BY DEF vars
  <2>1. Inv /\ Typed /\ ram[SP] = (base + Len(frames)) % 256 /\ insn' \in Program
        /\ \A k \in 1..Len(frames) : ram[Frame(k)] = frames[k]
    BY DEF Full, Next
  <2>2. Len(frames) \in Nat
    BY <2>1 DEF Typed
  <2>3. ASSUME I("pop"), frames # << >>, X \notin Device \cup {DPS}
        PROVE  ram'[X] = frames[Len(frames)]
    <3>1. PopDirect
      BY <2>3, PlainKinds DEF Next, Stack, I, PushDirect, Call, Ret
    <3>2. ram'[X] = ram[Frame(Len(frames))]
      BY <2>1, <2>3, <3>1, GoodPop DEF Frame
    <3>3. Len(frames) \in 1..Len(frames)
      BY <2>1, <2>2, <2>3 DEF Typed
    <3> QED
      BY <2>1, <3>2, <3>3
  <2>4. ASSUME I("ret"), Len(frames) > 1
        PROVE  pc' = Pair(frames[Len(frames)], frames[Len(frames) - 1])
    <3>1. pc' = Pair(Top, Below)
      BY <2>4 DEF Next
    <3>2. Top = ram[Frame(Len(frames))] /\ Below = ram[Indirect((ram[SP] - 1) % 256)]
      BY <2>1, Pops DEF Frame
    <3>3. Below = ram[Frame(Len(frames) - 1)]
      BY <3>2, Lowered DEF Frame
    <3>4. Len(frames) \in 1..Len(frames) /\ Len(frames) - 1 \in 1..Len(frames)
      BY <2>2, <2>4
    <3> QED
      BY <2>1, <3>1, <3>2, <3>3, <3>4
  <2> QED
    BY <2>3, <2>4
<1> QED
  BY <1>1, DataSpaceInvariant, PTL DEF Spec, StackLifo

\* INC DPTR counts in the pair that DPS selects, across the carry between its
\* bytes and from 0xffff to 0.
THEOREM PointersCount == Spec => PointerCounts
<1>1. Full /\ [Next]_vars => [I("incdptr") => Selected' = Wrap(Selected + 1)]_vars
  <2> SUFFICES ASSUME Full, Next, I("incdptr")
               PROVE  Selected' = Wrap(Selected + 1)
    BY DEF vars
  <2>1. Inv
    BY DEF Full
  <2>2. IncPointer
    BY PlainKinds DEF Next, Stack, I, PushDirect, PopDirect, Call, Ret
  <2>3. SetPointer(Wrap(Selected + 1))
    BY <2>1, <2>2 DEF IncPointer, Selected, Inv
  <2>4. 131 + 2 * dptr \in Cell /\ 130 + 2 * dptr \in Cell
    BY <2>1, Cells DEF Inv
  <2>5. Wrap(Selected + 1) \in Word
    BY <2>1, <2>4, Wraps, Value DEF Inv, Selected
  <2> QED
    BY <2>1, <2>3, <2>5, SetsPointer
<1> QED
  BY <1>1, DataSpaceInvariant, PTL DEF Spec, PointerCounts
==============================================================================
