--------------------------- MODULE LongArithmetic ---------------------------
(***************************************************************************)
(* Numbers of many bytes on the accumulator of 8051emu, low byte first: sums *)
(* with ADDC, differences with SUBB, decimal sums with ADDC and DA, and      *)
(* products with a byte with MUL.  Between two bytes a program only keeps a  *)
(* carry, so one wrong flag in any instruction makes the number wrong.       *)
(***************************************************************************)
EXTENDS Alu

CONSTANTS Limbs,     \* the bytes the numbers are made of ...
          Factors    \* ... and what they are multiplied with

Byte == 0..255
Digit == 0..9
Packed == {16 * h + l : h, l \in Digit}
ASSUME LimbAssumption == Limbs \subseteq Byte /\ Factors \subseteq Byte

VARIABLES kind,      \* what is computed
          at,        \* the next instruction
          acc, b, psw,
          high,      \* the high byte of the last product
          x, y,      \* history: the operands so far
          r, w       \* history: the result so far and the weight of the next byte

registers == <<acc, b, psw>>
numbers == <<x, y, r, w>>
longVars == <<kind, at, high, registers, numbers>>

Kind == {"sum", "difference", "decimal", "product"}
Value(v) == IF kind = "decimal" THEN 10 * (v \div 16) + (v % 16) ELSE v
Base == IF kind = "decimal" THEN 100 ELSE 256
Operands == IF kind = "decimal" THEN Limbs \cap Packed ELSE Limbs

(* After CLR C, with any other flags                                        *)
Init == /\ kind \in Kind /\ at = "load"
        /\ acc = 0 /\ b = 0 /\ high = 0 /\ psw \in SUBSET (Flag \ {"C"})
        /\ x = 0 /\ y \in (IF kind = "product" THEN Factors ELSE {0}) /\ r = 0 /\ w = 1

-----------------------------------------------------------------------------
Computes(res) == acc' = res.acc /\ psw' = res.psw
Then(before, after) == at = before /\ at' = after

(* MOV A, addr leaves the flags alone                                        *)
Load == /\ Then("load", IF kind = "product" THEN "mul" ELSE "operate")
        /\ \E a \in Operands : acc' = a /\ x' = x + w * Value(a)
        /\ UNCHANGED <<kind, b, psw, high, y, r, w>>
AddLimb == /\ kind \in {"sum", "decimal"} /\ Then("operate", IF kind = "sum" THEN "store" ELSE "adjust")
           /\ \E v \in Operands : Computes(AddC(acc, v, psw)) /\ y' = y + w * Value(v)
           /\ UNCHANGED <<kind, b, high, x, r, w>>
SubLimb == /\ kind = "difference" /\ Then("operate", "store")
           /\ \E v \in Operands : Computes(SubB(acc, v, psw)) /\ y' = y + w * Value(v)
           /\ UNCHANGED <<kind, b, high, x, r, w>>
Adjust == /\ Then("adjust", "store") /\ Computes(Da(acc, psw))
          /\ UNCHANGED <<kind, b, high, numbers>>
Multiply == /\ Then("mul", "add")
            /\ LET m == Mul(acc, y, psw) IN Computes(m) /\ b' = m.b
            /\ UNCHANGED <<kind, high, numbers>>
AddHigh == /\ Then("add", "store") /\ Computes(Add(acc, high, psw))
           /\ UNCHANGED <<kind, b, high, numbers>>
Store == /\ Then("store", IF kind = "product" THEN "carry" ELSE "load")
         /\ r' = r + w * Value(acc) /\ w' = w * Base
         /\ UNCHANGED <<kind, high, registers, x, y>>
(* MOV A, B; ADDC A, #0                                                      *)
CarryHigh == /\ Then("carry", "load") /\ Computes(AddC(b, 0, psw)) /\ high' = AddC(b, 0, psw).acc
             /\ UNCHANGED <<kind, b, numbers>>

Next == Load \/ AddLimb \/ SubLimb \/ Adjust \/ Multiply \/ AddHigh \/ Store \/ CarryHigh
Spec == Init /\ [][Next]_longVars

-----------------------------------------------------------------------------
(* After any number of bytes the result and what is carried are the number    *)
(* asked for: ADDC, SUBB and DA leave the carry the next byte needs, MUL the   *)
(* whole product, and DA decimal digits, whatever flags the program had        *)
(* before (core.c:882-910, ops.txt:345, ops.txt:452).                         *)
LongExact ==
  at = "load" =>
    CASE kind = "difference" -> r - w * Carry(psw) = x - y
      [] kind = "product"    -> r + w * high = x * y
      [] OTHER               -> r + w * Carry(psw) = x + y

=============================================================================
