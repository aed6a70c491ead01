-------------------------------- MODULE Core --------------------------------
(***************************************************************************)
(* The instruction core of 8051emu (ops.txt, genops.py, core.c) running a   *)
(* firmware that talks to the emulated RTL8367S or RTL8372.                 *)
(*                                                                          *)
(* A program is a function from labels to blocks: the decoded instructions  *)
(* of the block and the label that follows it.  An instruction is a tuple:  *)
(* its mnemonic and its operands.  A mnemonic that ends in "i" takes an     *)
(* immediate operand, one that ends in "x" the name of a cell.              *)
(***************************************************************************)
EXTENDS Alu, Soc72, Bits, SequencesExt

CONSTANTS Code,    \* the program
          Cell     \* the names of the registers and plain internal RAM bytes

VARIABLES pc,      \* <<label, index>> of the next instruction
          cell,    \* the value of each cell
          psw,     \* the flags that are set
          stack,   \* bytes and return points pushed, the top last
          rom,     \* code memory that MOVC reads
          dev      \* the device

vars == <<pc, cell, psw, stack, rom, dev>>

-----------------------------------------------------------------------------
Insn == Code[pc[1]].code[pc[2]]
Op == Insn[1]
After == IF pc[2] < Len(Code[pc[1]].code) THEN <<pc[1], pc[2] + 1>>
         ELSE <<Code[pc[1]].then, 1>>
To(label) == <<label, 1>>
Branch(test, label) == pc' = IF test THEN To(label) ELSE After

A == cell["A"]
Dptr == Pair(cell["DPH"], cell["DPL"])
Read(name) == IF name \in BoardHooked(dev) THEN BoardGet(dev, name) ELSE cell[name]

(* d: the device once the operand has been read *)
Write(d, name, v) ==
  IF name \in BoardHooked(d)
  THEN dev' = BoardPut(d, name, v) /\ UNCHANGED cell
  ELSE cell' = [cell EXCEPT ![name] = v] /\ dev' = d

Bit(b) == CASE b \in Flag -> b \in psw
            [] b = "TI"   -> dev.ti
            [] b = "B.7"  -> cell["B"] > 127

-----------------------------------------------------------------------------
(* Data movement *)

Move ==
  /\ Op \in {"movi", "movx"}
  /\ IF Op = "movi" THEN Write(dev, Insn[2], Insn[3])
     ELSE Write(AfterGet(dev, Insn[3]), Insn[2], Read(Insn[3]))
  /\ pc' = After
  /\ UNCHANGED <<psw, stack, rom>>

MoveDptr ==
  /\ Op = "mov_dptr"
  /\ cell' = [cell EXCEPT !["DPH"] = Hi(Insn[2]), !["DPL"] = Lo(Insn[2])]
  /\ pc' = After
  /\ UNCHANGED <<psw, stack, rom, dev>>

IncDptr ==
  /\ Op = "inc_dptr"
  /\ LET next == Wrap(Dptr + 1)
     IN  cell' = [cell EXCEPT !["DPH"] = Hi(next), !["DPL"] = Lo(next)]
  /\ pc' = After
  /\ UNCHANGED <<psw, stack, rom, dev>>

(* MOVC A, @A+DPTR and MOVX A, @DPTR: an unmapped byte reads as 0xff *)
Load ==
  /\ Op \in {"movc", "movx_dptr"}
  /\ LET address == Wrap(Dptr + A)
         code    == IF IsRtl8372(dev) THEN Code72(dev, address)
                    ELSE IF address \in DOMAIN rom THEN rom[address] ELSE 255
     IN  cell' = [cell EXCEPT !["A"] = IF Op = "movc" THEN code ELSE BoardXram(dev, Dptr)]
  /\ pc' = After
  /\ UNCHANGED <<psw, stack, rom, dev>>

Store ==
  /\ Op = "movx_store"
  /\ dev' = BoardPoke(dev, Dptr, A)
  /\ pc' = After
  /\ UNCHANGED <<cell, psw, stack, rom>>

Exchange ==
  /\ Op = "xch"
  /\ cell' = [cell EXCEPT !["A"] = cell[Insn[2]], ![Insn[2]] = A]
  /\ pc' = After
  /\ UNCHANGED <<psw, stack, rom, dev>>

-----------------------------------------------------------------------------
(* Arithmetic and logic on the accumulator *)

Operand == IF Op \in {"addi", "addci", "subbi"} THEN Insn[2] ELSE Read(Insn[2])

Arith ==
  /\ Op \in {"addi", "addx", "addci", "addcx", "subbi"}
  /\ LET r == CASE Op \in {"addi", "addx"}   -> Add(A, Operand, psw)
                [] Op \in {"addci", "addcx"} -> AddC(A, Operand, psw)
                [] Op = "subbi"              -> SubB(A, Operand, psw)
     IN  cell' = [cell EXCEPT !["A"] = r.acc] /\ psw' = r.psw
  /\ pc' = After
  /\ UNCHANGED <<stack, rom, dev>>

Logic ==
  /\ Op \in {"anli", "anlx", "orli", "orlx"}
  /\ LET v == IF Op \in {"anli", "orli"} THEN Insn[2] ELSE Read(Insn[2])
     IN  cell' = [cell EXCEPT !["A"] =
                    IF Op \in {"anli", "anlx"} THEN BitAnd(A, v) ELSE BitOr(A, v)]
  /\ pc' = After
  /\ UNCHANGED <<psw, stack, rom, dev>>

(* INC and DEC of a cell, RR A, SWAP A, CLR and SETB of a bit of ACC: no flag *)
(* changes *)
Unary ==
  /\ Op \in {"rr", "swap", "clr_a7", "set_a7", "set_a0", "inc", "dec"}
  /\ LET name == IF Op \in {"inc", "dec"} THEN Insn[2] ELSE "A"
     IN  cell' = [cell EXCEPT ![name] =
           CASE Op = "rr"     -> RR(@)
             [] Op = "swap"   -> Swap(@)
             [] Op = "clr_a7" -> @ % 128
             [] Op = "set_a7" -> (@ % 128) + 128
             [] Op = "set_a0" -> @ - (@ % 2) + 1
             [] Op = "inc"    -> (@ + 1) % 256
             [] Op = "dec"    -> (@ - 1) % 256]
  /\ pc' = After
  /\ UNCHANGED <<psw, stack, rom, dev>>

RotateCarry ==
  /\ Op = "rrc"
  /\ cell' = [cell EXCEPT !["A"] = RRC(A, psw).acc]
  /\ psw' = RRC(A, psw).psw
  /\ pc' = After
  /\ UNCHANGED <<stack, rom, dev>>

Multiply ==
  /\ Op = "mul"
  /\ LET r == Mul(A, cell["B"], psw)
     IN  cell' = [cell EXCEPT !["A"] = r.acc, !["B"] = r.b] /\ psw' = r.psw
  /\ pc' = After
  /\ UNCHANGED <<stack, rom, dev>>

(* SETB and CLR of a flag, CLR of TI *)
SetBit ==
  /\ Op \in {"setb", "clrb"}
  /\ IF Insn[2] \in Flag
     THEN /\ psw' = (psw \ {Insn[2]}) \cup When(Op = "setb", Insn[2])
          /\ UNCHANGED dev
     ELSE dev' = [dev EXCEPT !.ti = Op = "setb"] /\ UNCHANGED psw
  /\ pc' = After
  /\ UNCHANGED <<cell, stack, rom>>

-----------------------------------------------------------------------------
(* Control flow *)

Data == <<cell, psw, stack, rom, dev>>

Jump ==
  /\ \/ Op = "jmp" /\ pc' = To(Insn[2])
     \/ Op = "jz"  /\ Branch(A = 0, Insn[2])
     \/ Op = "jnz" /\ Branch(A # 0, Insn[2])
     \/ Op = "jc"  /\ Branch("C" \in psw, Insn[2])
     \/ Op = "jb"  /\ Branch(Bit(Insn[2]), Insn[3])
     \/ Op = "jnb" /\ Branch(~Bit(Insn[2]), Insn[3])
  /\ UNCHANGED Data

(* CJNE compares through the carry flag *)
CompareJump ==
  /\ Op = "cjne"
  /\ LET r == Cmp(cell[Insn[2]], Insn[3], psw)
     IN  psw' = r.psw /\ Branch(r.acc # 0, Insn[4])
  /\ UNCHANGED <<cell, stack, rom, dev>>

DecrementJump ==
  /\ Op = "djnz"
  /\ LET n == (cell[Insn[2]] - 1) % 256
     IN  cell' = [cell EXCEPT ![Insn[2]] = n] /\ Branch(n # 0, Insn[3])
  /\ UNCHANGED <<psw, stack, rom, dev>>

Call ==
  /\ Op = "call"
  /\ stack' = Append(stack, After)
  /\ pc' = To(Insn[2])
  /\ UNCHANGED <<cell, psw, rom, dev>>

Return ==
  /\ Op = "ret" /\ stack # <<>>
  /\ pc' = Last(stack)
  /\ stack' = Front(stack)
  /\ UNCHANGED <<cell, psw, rom, dev>>

Push ==
  /\ Op = "push"
  /\ stack' = Append(stack, Read(Insn[2]))
  /\ pc' = After
  /\ UNCHANGED <<cell, psw, rom, dev>>

Pop ==
  /\ Op = "pop"
  /\ Write(dev, Insn[2], Last(stack))
  /\ stack' = Front(stack)
  /\ pc' = After
  /\ UNCHANGED <<psw, rom>>

-----------------------------------------------------------------------------
(* A routine starts with an empty stack and is over when it returns to it *)
Over == Op = "ret" /\ stack = <<>>

Step == \/ Move \/ MoveDptr \/ IncDptr \/ Load \/ Store \/ Exchange
        \/ Arith \/ Logic \/ Unary \/ RotateCarry \/ Multiply \/ SetBit
        \/ Jump \/ CompareJump \/ DecrementJump
        \/ Call \/ Return \/ Push \/ Pop

Halt == Over /\ UNCHANGED vars

Next == Step \/ Halt
=============================================================================
