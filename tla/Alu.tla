-------------------------------- MODULE Alu --------------------------------
(***************************************************************************)
(* The arithmetic of the instruction core (8051emu/core.c, ops.txt) on      *)
(* bytes.  The program status word is the set of the flags that are one.    *)
(* Every operation is a record with the fields it assigns.                  *)
(***************************************************************************)
EXTENDS Integers

Flag == {"C", "AC", "F0", "RS1", "RS0", "OV", "F1", "P"}

When(test, flag) == IF test THEN {flag} ELSE {}
Carry(psw) == IF "C" \in psw THEN 1 ELSE 0
Signed(x) == IF x > 127 THEN x - 256 ELSE x
Overflow(sum) == sum > 127 \/ sum < -128

-----------------------------------------------------------------------------
(* The functions of core.c *)

AddC(op1, op2, psw) ==
  LET c == Carry(psw) IN
  [acc |-> (op1 + op2 + c) % 256,
   psw |-> (psw \ {"C", "AC", "OV"})
             \cup When(op1 + op2 + c > 255, "C")
             \cup When((op1 % 16) + (op2 % 16) + c > 15, "AC")
             \cup When(Overflow(Signed(op1) + Signed(op2) + c), "OV")]

Add(op1, op2, psw) == AddC(op1, op2, psw \ {"C"})

(* The half borrow is taken from (op2 + c) & 0xf: a carry that wraps that   *)
(* nibble is lost.                                                          *)
SubB(op1, op2, psw) ==
  LET c == Carry(psw) IN
  [acc |-> (op1 - op2 - c) % 256,
   psw |-> (psw \ {"C", "AC", "OV"})
             \cup When(op2 + c > op1, "C")
             \cup When((op2 + c) % 16 > op1 % 16, "AC")
             \cup When(Overflow(Signed(op1) - Signed(op2) - c), "OV")]

Cmp(op1, op2, psw) ==
  [acc |-> (op1 - op2) % 256, psw |-> (psw \ {"C"}) \cup When(op1 < op2, "C")]

-----------------------------------------------------------------------------
(* The instructions of ops.txt that compute on A, B and the flags *)

RRC(a, psw) ==
  [acc |-> a \div 2 + 128 * Carry(psw),
   psw |-> (psw \ {"C"}) \cup When(a % 2 = 1, "C")]

RR(a) == a \div 2 + 128 * (a % 2)
Swap(a) == a \div 16 + 16 * (a % 16)

(* MUL AB assigns PSW = (PSW & ~(C | OV)) | B ? OV : 0, which C reads as     *)
(* ((PSW & ~(C | OV)) | B) ? OV : 0: every other flag is lost.               *)
Mul(a, b, psw) ==
  [acc |-> (a * b) % 256, b |-> (a * b) \div 256,
   psw |-> When(psw \ {"C", "OV"} # {} \/ (a * b) \div 256 # 0, "OV")]

(* DA A.  The sum is kept in 16 bits, and a carry that is set stays set.     *)
DaLow(a, psw) == IF a % 16 > 9 \/ "AC" \in psw THEN a + 6 ELSE a
DaHigh(t, psw) == IF t \div 16 > 9 \/ "C" \in psw THEN t + 96 ELSE t
DaClearsCarry(a, psw) ==
  LET t == DaHigh(DaLow(a, psw), psw) IN
  [acc |-> t % 256, psw |-> (psw \ {"C"}) \cup When(t > 153, "C")]

Da(a, psw) ==
  LET t == DaHigh(DaLow(a, psw), psw) IN
  [acc |-> t % 256, psw |-> psw \cup When(t > 153, "C")]
=============================================================================
