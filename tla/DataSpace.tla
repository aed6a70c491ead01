----------------------------- MODULE DataSpace -----------------------------
(***************************************************************************)
(* The data space of 8051emu: one array, ramsfr, that holds lower RAM, the *)
(* special function registers and, behind them, upper RAM; the pointers    *)
(* into it, reg, dpl and dph; the trap bits; and the instructions of       *)
(* ops.txt and genops.py that reach an operand there by an address, a bit  *)
(* address, a register or the stack.  Results that no place depends on are *)
(* any value, and the flags are left out.                                  *)
(*                                                                         *)
(* An instruction is a tuple: how it reaches its operands, and those.  SFRs *)
(* with a hook are external; SCON and SBUF are in Uart.                    *)
(***************************************************************************)
EXTENDS Words, Sequences

CONSTANTS Program,  \* the instructions a program may execute
          Device,   \* registers whose hook decides what is read and kept
          Answer    \* the values it may choose

SP == 129
DPS == 134
PSW == 208
ACC == 224
B == 240

\* The addresses a direct operand names: SCON and SBUF are in Uart.
Direct == Byte \ {152, 153}
NamesDirect == {"mov", "movd", "modify", "load", "test", "xch", "movdi", "push", "pop"}
NamesIndirect == {"movi", "movid", "loadi", "xchi", "inci", "deci", "xchdi", "addi"}

ASSUME ProgramAssumption ==
    \A i \in Program :
        /\ i[1] \in NamesDirect => i[2] \in Direct
        /\ i[1] \in NamesIndirect => i[2] \in {0, 1}
        /\ i[1] \in {"movd", "movid"} => i[3] \in Direct
        /\ i[1] \in {"mov", "modify", "movi", "reg"} => i[3] \in Byte
        /\ i[1] = "movdi" => i[3] \in {0, 1}
        /\ i[1] = "load" => i[3] \in 0..7 \cup {ACC}
        /\ i[1] = "reg" => i[2] \in 0..7
        /\ i[1] = "bit" => i[2] \in Byte \ (152..159) /\ i[3] \in {0, 1}
        /\ i[1] \in {"dptr", "call"} => i[2] \in Word
ASSUME DeviceAssumption ==
    Device \subseteq 128..255 \ {SP, 130, 131, 132, 133, DPS, PSW, ACC, B} /\ Answer \subseteq Byte

VARIABLES ram,      \* ramsfr
          reg,      \* where R0 is
          dptr,     \* which pair of bytes dpl and dph point to
          pc,       \* where the last RET went
          insn,     \* the instruction executed last
          base,     \* history: SP when it was last set
          frames,   \* history: what has been pushed since and not popped
          intact    \* history: no operand named a byte of the frames

vars == <<ram, reg, dptr, pc, insn, base, frames, intact>>

Cell == 0..383

\* sfr_init: every SFR is trapped but these.
NoTrap == {SP, 130, 131, PSW, ACC, B}
Trapped(a) == a > 127 /\ a \notin NoTrap

Init == /\ ram = [c \in Cell |-> IF c = SP THEN 7 ELSE 0]
        /\ reg = 0 /\ dptr = 0 /\ pc = 0 /\ insn = <<"reset">>
        /\ base = 7 /\ frames = << >> /\ intact = TRUE

-----------------------------------------------------------------------------
(* core.c's accesses *)

\* readi and writei skip the registers: addr + (addr & 0x80).
AtNoSkip(a) == a
At(a) == IF a > 127 THEN a + 128 ELSE a

\* readd: ramsfr once the hook of a trapped register has answered; the value
\* is then in cell a.
Readd(r, a) == IF Trapped(a) /\ a \in Device THEN {[r EXCEPT ![a] = v] : v \in Answer} ELSE {r}

\* writed into r: DPS keeps one bit and moves dpl and dph, PSW would move reg
\* if it were trapped.
KeptWhole(a, v) == IF Trapped(a) /\ a \in Device THEN Answer ELSE {v}
Kept(a, v) == CASE a = DPS -> {v % 2}
                [] Trapped(a) /\ a \in Device -> Answer
                [] OTHER -> {v}
Moved(a, v) == /\ dptr' = IF a = DPS THEN v % 2 ELSE dptr
               /\ reg' = IF a = PSW /\ Trapped(PSW) THEN 8 * ((v \div 8) % 4) ELSE reg
Writed(r, a, v) == ram' \in {[r EXCEPT ![a] = w] : w \in Kept(a, v)} /\ Moved(a, v)

Poke(r) == ram' = r /\ UNCHANGED <<reg, dptr>>

\* R0-R7.  An operand that is the accumulator or a register, in ramsfr.
R(n) == ram[reg + n]
ToCell(x) == IF x = ACC THEN ACC ELSE reg + x

\* bitaddr
BitByte(b) == IF b < 128 THEN 32 + b \div 8 ELSE 128 + 8 * ((b - 128) \div 8)
Mask == <<1, 2, 4, 8, 16, 32, 64, 128>>
WithBit(v, b, x) == LET m == Mask[(b % 8) + 1] IN v - m * ((v \div m) % 2) + m * x

Nibbles(h, l) == 16 * (h \div 16) + (l % 16)

-----------------------------------------------------------------------------
(* The instructions *)

I(kind) == insn'[1] = kind
X == insn'[2]
Y == insn'[3]

\* MOV addr, #data | A | Rx
MovDirect == I("mov") /\ Writed(ram, X, Y)
\* MOV addr, addr
MovBetween == I("movd") /\ \E r \in Readd(ram, Y) : Writed(r, X, r[Y])
\* INC, DEC, DJNZ and logic on addr, by what is added to its value
ModifyDirect == I("modify") /\ \E r \in Readd(ram, X) : Writed(r, X, (r[X] + Y) % 256)
\* CLR, SETB, CPL, JBC and MOV bit, C
ModifyBit == /\ I("bit")
             /\ \E r \in Readd(ram, BitByte(X)) :
                   Writed(r, BitByte(X), WithBit(r[BitByte(X)], X, Y))
\* MOV A | Rx, addr, and arithmetic on addr
LoadDirect == I("load") /\ \E r \in Readd(ram, X) : Poke([r EXCEPT ![ToCell(Y)] = r[X]])
\* JB, JNB, a JBC not taken, MOV, ANL and ORL C, bit; CJNE A, addr: only read
TestDirect == I("test") /\ \E r \in Readd(ram, X) : Poke(r)
\* XCH A, addr
XchDirect == I("xch") /\ \E r \in Readd(ram, X) : Writed([r EXCEPT ![ACC] = r[X]], X, ram[ACC])

\* MOV @Ri, #data | A
MovIndirect == I("movi") /\ Poke([ram EXCEPT ![At(R(X))] = Y])
\* MOV @Ri, addr
MovIndirectDirect == I("movid") /\ \E r \in Readd(ram, Y) : Poke([r EXCEPT ![At(R(X))] = r[Y]])
\* MOV addr, @Ri
MovDirectIndirect == I("movdi") /\ Writed(ram, X, ram[At(R(Y))])
\* MOV A, @Ri, and CJNE
LoadIndirect == I("loadi") /\ Poke([ram EXCEPT ![ACC] = ram[At(R(X))]])
\* XCH A, @Ri
XchIndirect == I("xchi") /\ Poke([ram EXCEPT ![At(R(X))] = ram[ACC], ![ACC] = ram[At(R(X))]])

\* INC @Ri, DEC @Ri, which adds too, XCHD and arithmetic: @Ri taken as addr.
AsDirect(kind) == I(kind) /\ R(X) \in Direct
IncIndirect == AsDirect("inci") /\ \E r \in Readd(ram, R(X)) : Writed(r, R(X), (r[R(X)] + 1) % 256)
DecIndirect == AsDirect("deci") /\ \E r \in Readd(ram, R(X)) : Writed(r, R(X), (r[R(X)] + 1) % 256)
XchdIndirect ==
    /\ AsDirect("xchdi")
    /\ \E r \in Readd(ram, R(X)) :
         LET v == Nibbles(r[R(X)], ram[ACC]) IN
         /\ \E w \in Kept(R(X), v) : ram' = [r EXCEPT ![R(X)] = w, ![ACC] = Nibbles(ram[ACC], r[R(X)])]
         /\ Moved(R(X), v)
AddIndirect == /\ AsDirect("addi")
               /\ \E r \in Readd(ram, R(X)) : Poke([r EXCEPT ![ACC] = (ram[ACC] + r[R(X)]) % 256])

\* MOV Rx, #data | A; INC, DEC, DJNZ, XCH on Rx
SetRegister == I("reg") /\ Poke([ram EXCEPT ![reg + X] = Y])

\* MOV DPTR, #data16 and INC DPTR
SetPointer(w) == Poke([ram EXCEPT ![131 + 2 * dptr] = Hi(w), ![130 + 2 * dptr] = Lo(w)])
MovPointer == I("dptr") /\ SetPointer(X)
IncPointerLow == I("incdptr") /\ Poke([ram EXCEPT ![130 + 2 * dptr] = (@ + 1) % 256])
IncPointer == I("incdptr") /\ SetPointer(Wrap(Pair(ram[131 + 2 * dptr], ram[130 + 2 * dptr]) + 1))

\* PUSH: C does not say whether ++SP or the operand is evaluated first.
Pushed(r, v) == LET s == (r[SP] + 1) % 256 IN [r EXCEPT ![SP] = s, ![At(s)] = v]
PushDirect ==
    /\ I("push")
    /\ \E r \in Readd(ram, X) :
         \E v \in IF X = SP THEN {r[SP], (r[SP] + 1) % 256} ELSE {r[X]} :
            Poke(Pushed(r, v)) /\ frames' = Append(frames, v)

Drop(k) == frames' = SubSeq(frames, 1, Len(frames) - k)
Top == ram[At(ram[SP])]
Below == ram[At((ram[SP] - 1) % 256)]
Popped(k) == [ram EXCEPT ![SP] = (@ - k) % 256]
PopDirect == I("pop") /\ Writed(Popped(1), X, Top) /\ Drop(IF X = SP THEN Len(frames) ELSE 1)

\* LCALL, ACALL and an interrupt push pc, the low byte first; RET and RETI.
CallHighFirst == /\ I("call") /\ Poke(Pushed(Pushed(ram, Hi(X)), Lo(X)))
                 /\ frames' = frames \o <<Lo(X), Hi(X)>>
Call == /\ I("call") /\ Poke(Pushed(Pushed(ram, Lo(X)), Hi(X)))
        /\ frames' = frames \o <<Lo(X), Hi(X)>>
Ret == I("ret") /\ Poke(Popped(2)) /\ Drop(2)

-----------------------------------------------------------------------------
(* The places an instruction names, by the addressing of an 8052: a direct  *)
(* address below 128 is lower RAM, above it a register; an indirect one and *)
(* the stack's are RAM; R0-R7 are in the bank PSW selects.  A hook may      *)
(* change the register that is read.                                        *)

Indirect(a) == IF a > 127 THEN a + 128 ELSE a
Bank == 8 * ((ram[PSW] \div 8) % 4)
AtRi(n) == Indirect(ram[Bank + n])
Asked(a) == {a} \cap Device
Pair0(s) == {130 + 2 * s, 131 + 2 * s}
Slot(k) == Indirect((ram[SP] + k) % 256)
Names(i) ==
    CASE i[1] = "mov"     -> {i[2]}
      [] i[1] = "movd"    -> {i[2]} \cup Asked(i[3])
      [] i[1] = "modify"  -> {i[2]}
      [] i[1] = "bit"     -> {BitByte(i[2])}
      [] i[1] = "load"    -> {IF i[3] = ACC THEN ACC ELSE Bank + i[3]} \cup Asked(i[2])
      [] i[1] = "test"    -> Asked(i[2])
      [] i[1] = "xch"     -> {i[2], ACC}
      [] i[1] = "movi"    -> {AtRi(i[2])}
      [] i[1] = "movid"   -> {AtRi(i[2])} \cup Asked(i[3])
      [] i[1] = "movdi"   -> {i[2]}
      [] i[1] \in {"loadi", "addi"} -> {ACC}
      [] i[1] \in {"inci", "deci"} -> {AtRi(i[2])}
      [] i[1] \in {"xchi", "xchdi"} -> {AtRi(i[2]), ACC}
      [] i[1] = "reg"     -> {Bank + i[2]}
      [] i[1] \in {"dptr", "incdptr"} -> Pair0(ram[DPS])
      [] i[1] = "push"    -> {SP, Slot(1)} \cup Asked(i[2])
      [] i[1] = "pop"     -> {SP, i[2]}
      [] i[1] = "call"    -> {SP, Slot(1), Slot(2)}
      [] i[1] = "ret"     -> {SP}

\* Where the emulator goes elsewhere: it has no bank but the first, and takes
\* @Ri for a direct address in INC, DEC, XCHD and arithmetic.
Arithmetic == {"inci", "deci", "xchdi", "addi"}
UsesBank(i) == \/ i[1] \in {"reg", "movi", "movid", "xchi"} \cup Arithmetic
               \/ i[1] = "load" /\ i[3] # ACC
Deviates(i) == \/ UsesBank(i) /\ Bank # 0
               \/ i[1] \in Arithmetic /\ ram[i[2]] > 127

-----------------------------------------------------------------------------
Stack == PushDirect \/ PopDirect \/ Call \/ Ret
Plain == \/ MovDirect \/ MovBetween \/ ModifyDirect \/ ModifyBit \/ LoadDirect \/ TestDirect \/ XchDirect
         \/ MovIndirect \/ MovIndirectDirect \/ MovDirectIndirect \/ LoadIndirect \/ XchIndirect
         \/ IncIndirect \/ DecIndirect \/ XchdIndirect \/ AddIndirect
         \/ SetRegister \/ MovPointer \/ IncPointer

\* A program that sets SP, or pops more than it pushed, starts a new stack, and
\* so does an instruction that goes elsewhere, which may set SP.
SetsSp == \/ /\ insn'[1] \notin {"push", "pop", "call", "ret"}
             /\ SP \in Names(insn') \/ Deviates(insn')
          \/ I("pop") /\ (X = SP \/ frames = << >>)
          \/ I("ret") /\ Len(frames) < 2
Surviving == IF Len(frames) < Len(frames') THEN Len(frames) ELSE Len(frames')
Frame(k) == Indirect((base + k) % 256)
History == /\ base' = IF SetsSp THEN ram'[SP] ELSE base
           /\ intact' = \/ frames' = << >>
                        \/ intact /\ \A k \in 1..Surviving : Frame(k) \notin Names(insn')

Next == /\ insn' \in Program
        /\ \/ Stack
           \/ Plain /\ frames' = IF SetsSp THEN << >> ELSE frames
        /\ pc' = IF I("ret") THEN Pair(Top, Below) ELSE pc
        /\ History

Spec == Init /\ [][Next]_vars

-----------------------------------------------------------------------------
\* Bytes stay bytes, R0-R7 are one of the four banks, and the cached DPTR is
\* the pair that the stored DPS says (core.c:248, main.c:172).
TypeOK == /\ ram \in [Cell -> Byte] /\ reg \in {0, 8, 16, 24} /\ dptr \in {0, 1} /\ dptr = ram[DPS]
          /\ pc \in Word /\ base \in Byte /\ frames \in Seq(Byte) /\ intact \in BOOLEAN

\* An instruction changes no place but those its operands name, in the memory
\* they name it in: upper RAM and the registers have the same addresses and
\* share an array, DPTR is reached through pointers that may be stale
\* (core.c:272, core.c:71, main.c:170).  Said of all instructions but those
\* that go elsewhere, for which see ActsAs8052.
SpacesApart ==
    [][~Deviates(insn') => \A c \in Cell : ram'[c] # ram[c] => c \in Names(insn')]_vars

\* What a POP loads and where a RET goes is what was pushed last, also where
\* the stack runs from lower into upper RAM and round to the registers, as
\* long as no operand named a byte of it and no instruction went elsewhere.
StackLifo ==
    [][intact => /\ I("pop") /\ frames # << >> /\ X \notin Device \cup {DPS}
                    => ram'[X] = frames[Len(frames)]
                 /\ I("ret") /\ Len(frames) > 1
                    => pc' = Pair(frames[Len(frames)], frames[Len(frames) - 1])]_vars

\* INC DPTR counts in 16 bits in the pair that DPS selects.
Selected == Pair(ram[131 + 2 * ram[DPS]], ram[130 + 2 * ram[DPS]])
PointerCounts ==
    [][I("incdptr") => Selected' = Wrap(Selected + 1)]_vars

\* What an 8052 does where the emulator goes elsewhere, or adds instead of
\* subtracting: INC and DEC @Ri count in the RAM that Ri names (ops.txt:115-125;
\* ghidra/8051_main.sinc:599, 810 and 829), and R0-R7 are in the bank PSW
\* selects (core.c:252, "Move register window").
IncAtRi == I("inci") => ram'[AtRi(X)] = (ram[AtRi(X)] + 1) % 256
DecAtRi == I("deci") /\ ram[Bank + X] < 128 => ram'[AtRi(X)] = (ram[AtRi(X)] - 1) % 256
RegistersFollowPsw == I("reg") => ram'[Bank + X] = Y
ActsAs8052 == [][IncAtRi /\ DecAtRi /\ RegistersFollowPsw]_vars
=============================================================================
