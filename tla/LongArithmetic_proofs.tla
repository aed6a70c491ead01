----------------------- MODULE LongArithmetic_proofs -----------------------
(***************************************************************************)
(* Numbers of any length come out right: what every instruction leaves in   *)
(* the accumulator and the carry, and the invariant that carries it from    *)
(* byte to byte.                                                            *)
(***************************************************************************)
EXTENDS LongArithmetic, TLAPS

LEMMA Carries ==
  ASSUME NEW f
  PROVE  Carry(f) \in {0, 1}
BY DEF Carry

LEMMA Reduce ==
  ASSUME NEW n \in -256..511
  PROVE  /\ n % 256 \in Byte
         /\ n > 255 => n % 256 = n - 256
         /\ n < 0 => n % 256 = n + 256
         /\ 0 <= n /\ n <= 255 => n % 256 = n
BY DEF Byte

(* What one weight more makes of a byte, a carry and what came before.       *)
LEMMA Weighed ==
  ASSUME NEW u \in Int, NEW m \in Int, NEW n \in Int, NEW k \in Int
  PROVE  /\ u * (m + n) = u * m + u * n
         /\ u * (m - n) = u * m - u * n
         /\ u * (m + n + k) = u * m + u * n + u * k
         /\ u * (m - n - k) = u * m - u * n - u * k
         /\ u * m \in Int
  OBVIOUS

(* ADDC leaves the sum in the accumulator and the carry.                     *)
LEMMA AddCExact ==
  ASSUME NEW p \in Byte, NEW q \in Byte, NEW f \in SUBSET Flag
  PROVE  /\ AddC(p, q, f).acc \in Byte /\ AddC(p, q, f).psw \in SUBSET Flag
         /\ AddC(p, q, f).acc + 256 * Carry(AddC(p, q, f).psw) = p + q + Carry(f)
<1> DEFINE c == Carry(f)
           s == AddC(p, q, f)
<1>1. c \in {0, 1}
  BY Carries
<1>2. s.acc = (p + q + c) % 256
  BY DEF AddC
<1>3. s.psw = (f \ {"C", "AC", "OV"})
             \cup When(p + q + c > 255, "C")
             \cup When((p % 16) + (q % 16) + c > 15, "AC")
             \cup When(Overflow(Signed(p) + Signed(q) + c), "OV")
  BY DEF AddC
<1>4. s.psw \in SUBSET Flag
  BY <1>3 DEF When, Flag
<1>5. "C" \in s.psw <=> p + q + c > 255
  BY <1>3 DEF When
<1>6. Carry(s.psw) = IF p + q + c > 255 THEN 1 ELSE 0
  BY <1>5 DEF Carry
<1> HIDE DEF s, c
<1>7. s.acc \in Byte /\ s.acc + 256 * Carry(s.psw) = p + q + c
  <2>1. p + q + c \in -256..511
    BY <1>1 DEF Byte
  <2> QED
    BY <1>2, <1>6, <2>1, Reduce
<1> QED
  BY <1>4, <1>7 DEF s, c

(* SUBB leaves the difference in the accumulator and the borrow.             *)
LEMMA SubBExact ==
  ASSUME NEW p \in Byte, NEW q \in Byte, NEW f \in SUBSET Flag
  PROVE  /\ SubB(p, q, f).acc \in Byte /\ SubB(p, q, f).psw \in SUBSET Flag
         /\ SubB(p, q, f).acc - 256 * Carry(SubB(p, q, f).psw) = p - q - Carry(f)
<1> DEFINE c == Carry(f)
           s == SubB(p, q, f)
<1>1. c \in {0, 1}
  BY Carries
<1>2. s.acc = (p - q - c) % 256
  BY DEF SubB
<1>3. s.psw = (f \ {"C", "AC", "OV"})
             \cup When(q + c > p, "C")
             \cup When((q + c) % 16 > p % 16, "AC")
             \cup When(Overflow(Signed(p) - Signed(q) - c), "OV")
  BY DEF SubB
<1>4. s.psw \in SUBSET Flag
  BY <1>3 DEF When, Flag
<1>5. "C" \in s.psw <=> q + c > p
  BY <1>3 DEF When
<1>6. Carry(s.psw) = IF q + c > p THEN 1 ELSE 0
  BY <1>5 DEF Carry
<1> HIDE DEF s, c
<1>7. s.acc \in Byte /\ s.acc - 256 * Carry(s.psw) = p - q - c
  <2>1. p - q - c \in -256..511 /\ (q + c > p <=> p - q - c < 0) /\ ~(p - q - c > 255)
    BY <1>1 DEF Byte
  <2> QED
    BY <1>2, <1>6, <2>1, Reduce
<1> QED
  BY <1>4, <1>7 DEF s, c

(* ADD is ADDC after CLR C.                                                  *)
LEMMA AddExact ==
  ASSUME NEW p \in Byte, NEW q \in Byte, NEW f \in SUBSET Flag
  PROVE  /\ Add(p, q, f).acc \in Byte /\ Add(p, q, f).psw \in SUBSET Flag
         /\ Add(p, q, f).acc + 256 * Carry(Add(p, q, f).psw) = p + q
<1> DEFINE g == f \ {"C"}
<1>1. g \in SUBSET Flag /\ Carry(g) = 0
  BY DEF Carry
<1> HIDE DEF g
<1>2. /\ AddC(p, q, g).acc \in Byte /\ AddC(p, q, g).psw \in SUBSET Flag
      /\ AddC(p, q, g).acc + 256 * Carry(AddC(p, q, g).psw) = p + q + Carry(g)
  BY <1>1, AddCExact
<1>3. p + q + Carry(g) = p + q
  BY <1>1 DEF Byte
<1> QED
  BY <1>2, <1>3 DEF Add, g

(* A packed byte and its digits.                                             *)
LEMMA Digits ==
  ASSUME NEW v \in Packed
  PROVE  \E h, l \in Digit : v = 16 * h + l /\ v \div 16 = h /\ v % 16 = l /\ v \in Byte
<1>1. PICK h, l \in Digit : v = 16 * h + l
  BY DEF Packed
<1>2. v \div 16 = h /\ v % 16 = l /\ v \in Byte
  BY <1>1 DEF Digit, Byte
<1> QED
  BY <1>1, <1>2

(* DA after ADDC of packed bytes leaves the decimal sum.                     *)
LEMMA DaExact ==
  ASSUME NEW p \in Packed, NEW q \in Packed, NEW f \in SUBSET Flag,
         NEW s, s = AddC(p, q, f)
  PROVE  LET d == Da(s.acc, s.psw)
         IN  /\ d.acc \in Packed /\ d.psw \in SUBSET Flag
             /\ 10 * (d.acc \div 16) + (d.acc % 16) + 100 * Carry(d.psw)
                  = 10 * (p \div 16) + (p % 16) + 10 * (q \div 16) + (q % 16) + Carry(f)
<1>1. PICK h1, l1 \in Digit : p = 16 * h1 + l1 /\ p \div 16 = h1 /\ p % 16 = l1 /\ p \in Byte
  BY Digits
<1>2. PICK h2, l2 \in Digit : q = 16 * h2 + l2 /\ q \div 16 = h2 /\ q % 16 = l2 /\ q \in Byte
  BY Digits
<1> DEFINE c == Carry(f)
           low == l1 + l2 + c
           d == Da(s.acc, s.psw)
           t == DaLow(s.acc, s.psw)
           u == DaHigh(t, s.psw)
<1>3. c \in {0, 1}
  BY Carries
<1>4. /\ s.acc = (p + q + c) % 256 /\ s.psw \in SUBSET Flag
      /\ "AC" \in s.psw <=> low > 15
      /\ "C" \in s.psw <=> p + q + c > 255
  <2>1. s.acc = (p + q + c) % 256
    BY DEF AddC
  <2>2. s.psw = (f \ {"C", "AC", "OV"})
               \cup When(p + q + c > 255, "C")
               \cup When(low > 15, "AC")
               \cup When(Overflow(Signed(p) + Signed(q) + c), "OV")
    BY <1>1, <1>2 DEF AddC
  <2>3. s.psw \in SUBSET Flag
    BY <2>2 DEF When, Flag
  <2> QED
    BY <2>1, <2>2, <2>3 DEF When
<1>5. d.acc = u % 256 /\ d.psw = s.psw \cup When(u > 153, "C")
  BY DEF Da
<1>6. d.psw \in SUBSET Flag /\ ("C" \in d.psw <=> p + q + c > 255 \/ u > 153)
  BY <1>4, <1>5 DEF When, Flag
<1>7. t = IF s.acc % 16 > 9 \/ low > 15 THEN s.acc + 6 ELSE s.acc
  BY <1>4 DEF DaLow
<1>8. u = IF t \div 16 > 9 \/ p + q + c > 255 THEN t + 96 ELSE t
  BY <1>4 DEF DaHigh
<1> HIDE DEF c, t, u, d
<1>9. h1 \in 0..9 /\ h2 \in 0..9 /\ l1 \in 0..9 /\ l2 \in 0..9
  BY DEF Digit
<1>10. s.acc = (16 * (h1 + h2) + low) % 256 /\ (p + q + c > 255 <=> 16 * (h1 + h2) + low > 255)
  BY <1>1, <1>2, <1>3, <1>4, <1>9
<1> DEFINE k == IF low > 9 THEN 1 ELSE 0
           m == IF h1 + h2 + k > 9 THEN 1 ELSE 0
<1>11. low \in 0..19 /\ k \in {0, 1} /\ m \in {0, 1}
      /\ h1 + h2 + k - 10 * m \in 0..9 /\ low - 10 * k \in 0..9
  BY <1>3, <1>9
<1> DEFINE n == 16 * (h1 + h2) + low
<1>12. /\ s.acc = IF n > 255 THEN n - 256 ELSE n
       /\ n \in 0..307
  <2>1. n \in 0..307
    BY <1>9, <1>11
  <2>2. n \in -256..511
    BY <2>1
  <2> QED
    BY <1>10, <2>1, <2>2, Reduce
<1> HIDE DEF low
<1>13. s.acc % 16 = low % 16
  BY <1>9, <1>11, <1>12
<1>14. t = s.acc + 6 * k
  BY <1>7, <1>11, <1>12, <1>13
<1>15. t = 16 * (h1 + h2 + k) + (low - 10 * k) - (IF n > 255 THEN 256 ELSE 0)
  BY <1>9, <1>11, <1>12, <1>14
<1> DEFINE hi == h1 + h2 + k
           lo == low - 10 * k
<1>16. hi - 10 * m \in 0..9 /\ hi \in 0..19 /\ lo \in 0..9 /\ (m = 1 <=> hi > 9) /\ (n > 255 => m = 1)
       /\ (n > 255 => hi >= 16) /\ (n <= 255 => hi <= 16)
  BY <1>9, <1>11, <1>12
<1>17. t = 16 * hi + lo - (IF n > 255 THEN 256 ELSE 0)
  BY <1>15
<1>18. n <=255 => t \div 16 = hi
  <2>1. \A h \in 0..19, l \in 0..9 : (16 * h + l) \div 16 = h
    OBVIOUS
  <2> HIDE DEF hi, lo, n
  <2> QED
    BY <1>12, <1>16, <1>17, <2>1
<1>19. p + q + c > 255 <=> n > 255
  BY <1>10
<1> HIDE DEF hi, lo, n, m, k
<1>20. u = 16 * (hi + 6 * m) + lo - (IF n > 255 THEN 256 ELSE 0)
  <2>1. CASE n > 255
    BY <1>8, <1>11, <1>16, <1>17, <1>19, <2>1
  <2>2. CASE ~(n > 255)
    <3>1. n <= 255
      BY <1>12, <2>2
    <3>2. u = IF hi > 9 THEN t + 96 ELSE t
      BY <1>8, <1>18, <1>19, <2>2, <3>1
    <3> QED
      BY <1>11, <1>16, <1>17, <2>2, <3>2
  <2> QED
    BY <2>1, <2>2
<1>21. d.acc = 16 * (hi - 10 * m) + lo
  BY <1>5, <1>11, <1>16, <1>20
<1>22. "C" \in d.psw <=> m = 1
  BY <1>6, <1>11, <1>16, <1>19, <1>20
<1>23. hi - 10 * m \in 0..9 /\ Carry(d.psw) = m
  <2>1. hi - 10 * m \in 0..9
    BY <1>16
  <2>2. Carry(d.psw) = m
    BY <1>11, <1>22 DEF Carry
  <2> QED
    BY <2>1, <2>2
<1>24. d.acc \in Packed /\ d.acc \div 16 = hi - 10 * m /\ d.acc % 16 = lo
  <2>1. ASSUME NEW h \in Digit, NEW l \in Digit
        PROVE  16 * h + l \in Packed /\ (16 * h + l) \div 16 = h /\ (16 * h + l) % 16 = l
    BY DEF Packed, Digit
  <2>2. hi - 10 * m \in Digit /\ lo \in Digit
    BY <1>16, <1>23 DEF Digit
  <2> QED
    BY <1>21, <2>1, <2>2
<1>25. 10 * hi + lo = 10 * (h1 + h2) + l1 + l2 + c
  BY <1>3, <1>9, <1>11 DEF hi, lo, low
<1>26. 10 * (hi - 10 * m) + lo + 100 * m = 10 * h1 + l1 + 10 * h2 + l2 + c
  BY <1>3, <1>9, <1>11, <1>16, <1>25
<1> QED
  BY <1>1, <1>2, <1>6, <1>23, <1>24, <1>26 DEF c, d

(* MUL leaves the product in two bytes, the high one below 255.              *)
LEMMA MulExact ==
  ASSUME NEW p \in Byte, NEW q \in Byte, NEW f \in SUBSET Flag
  PROVE  /\ Mul(p, q, f).acc \in Byte /\ Mul(p, q, f).psw \in SUBSET Flag
         /\ Mul(p, q, f).b \in 0..254
         /\ Mul(p, q, f).acc + 256 * Mul(p, q, f).b = p * q
<1>1. p * q \in Int /\ 0 <= p * q /\ p * q <= 65025
  <2>1. p \in Int /\ q \in Int /\ 0 <= p /\ 0 <= q /\ p <= 255 /\ q <= 255
    BY DEF Byte
  <2>2. 0 <= p * q /\ p * q <= 255 * q
    BY <2>1
  <2> QED
    BY <2>1, <2>2
<1>2. \A n \in Int : 0 <= n /\ n <= 65025 =>
        n % 256 \in Byte /\ n \div 256 \in 0..254 /\ (n % 256) + 256 * (n \div 256) = n
  BY DEF Byte
<1>3. Mul(p, q, f).psw \in SUBSET Flag
  BY DEF Mul, When, Flag
<1>4. Mul(p, q, f).acc = (p * q) % 256 /\ Mul(p, q, f).b = (p * q) \div 256
  BY DEF Mul
<1> DEFINE n == p * q
<1>5. n \in Int /\ 0 <= n /\ n <= 65025
  BY <1>1
<1> HIDE DEF n
<1>6. n % 256 \in Byte /\ n \div 256 \in 0..254 /\ (n % 256) + 256 * (n \div 256) = n
  BY <1>2, <1>5
<1> QED
  BY <1>3, <1>4, <1>6 DEF n

-----------------------------------------------------------------------------
Decimal(v) == 10 * (v \div 16) + (v % 16)

Typed == /\ kind \in Kind /\ psw \in SUBSET Flag
         /\ acc \in Byte /\ b \in Byte /\ high \in Byte
         /\ x \in Int /\ y \in Int /\ r \in Int /\ w \in Int
         /\ kind = "product" => y \in Byte

(* What is known of the number between two instructions                     *)
Summing == r + w * Carry(psw) + w * Value(acc) = x + y
Subtracting == r - w * Carry(psw) + w * acc = x - y
Summed == r + w * Value(acc) + w * (Base * Carry(psw)) = x + y
Subtracted == r + w * acc - w * (256 * Carry(psw)) = x - y
AsAdded == \E p, q \in Packed, f \in SUBSET Flag :
             /\ acc = AddC(p, q, f).acc /\ psw = AddC(p, q, f).psw
             /\ r + w * (Decimal(p) + Decimal(q) + Carry(f)) = x + y

Inv ==
  /\ Typed
  /\ at \in {"load", "operate", "adjust", "mul", "add", "store", "carry"}
  /\ LongExact
  /\ at = "operate" => kind # "product" /\ acc \in Operands /\ IF kind = "difference" THEN Subtracting ELSE Summing
  /\ at = "adjust" => kind = "decimal" /\ AsAdded
  /\ at = "mul" => kind = "product" /\ r + w * high + w * (acc * y) = x * y
  /\ at = "add" => kind = "product" /\ b <= 254 /\ r + w * high + w * (acc + 256 * b) = x * y
  /\ at = "store" => CASE kind = "difference" -> Subtracted
                       [] kind = "product" -> b <= 254 /\ r + w * acc + w * (256 * (b + Carry(psw))) = x * y
                       [] OTHER -> Summed
  /\ at = "carry" => kind = "product" /\ b <= 254 /\ r + w * (b + Carry(psw)) = x * y

LEMMA OperandTyped ==
  ASSUME NEW v \in Operands
  PROVE  v \in Byte /\ Value(v) \in Int /\ (kind = "decimal" => v \in Packed /\ Value(v) = Decimal(v))
         /\ (kind # "decimal" => Value(v) = v)
<1>1. v \in Byte /\ (kind = "decimal" => v \in Packed)
  BY LimbAssumption DEF Operands
<1>2. v \in Int
  BY <1>1 DEF Byte
<1> QED
  BY <1>1, <1>2 DEF Value, Decimal

LEMMA LoadStep ==
  ASSUME Inv, Load
  PROVE  Inv'
<1>1. PICK a \in Operands : acc' = a /\ x' = x + w * Value(a)
  BY DEF Load
<1>2. a \in Byte /\ Value(a) \in Int /\ (kind # "decimal" => Value(a) = a)
  BY OperandTyped
<1>3. at = "load" /\ at' = IF kind = "product" THEN "mul" ELSE "operate"
  BY DEF Load, Then
<1>4. UNCHANGED <<kind, b, psw, high, y, r, w>>
  BY DEF Load
<1>5. Typed /\ LongExact /\ kind \in Kind /\ x \in Int /\ y \in Int /\ r \in Int /\ w \in Int /\ high \in Byte
  BY DEF Inv, Typed
<1>6. Typed'
  BY <1>1, <1>2, <1>4, <1>5 DEF Typed
<1>7. CASE kind = "product"
  <2>1. r + w * high = x * y /\ Value(a) = a
    BY <1>2, <1>3, <1>5, <1>7 DEF LongExact
  <2>2. r + w * high + w * (a * y) = (x + w * a) * y
    BY <1>2, <1>5, <2>1 DEF Byte
  <2> QED
    BY <1>1, <1>3, <1>4, <1>6, <1>7, <2>1, <2>2 DEF Inv, LongExact
<1>8. CASE kind = "difference"
  <2>1. r - w * Carry(psw) = x - y /\ Value(a) = a
    BY <1>2, <1>3, <1>5, <1>8 DEF LongExact
  <2>2. r - w * Carry(psw) + w * a = (x + w * a) - y
    BY <1>2, <1>5, <2>1, Carries DEF Byte
  <2>3. Subtracting'
    BY <1>1, <1>4, <2>1, <2>2 DEF Subtracting
  <2> QED
    BY <1>1, <1>3, <1>4, <1>6, <1>8, <2>3 DEF Inv, LongExact, Operands
<1>9. CASE kind \in {"sum", "decimal"}
  <2>1. r + w * Carry(psw) = x + y
    BY <1>3, <1>5, <1>9 DEF LongExact
  <2>2. r + w * Carry(psw) + w * Value(a) = (x + w * Value(a)) + y
    BY <1>2, <1>5, <2>1, Carries
  <2>3. Summing'
    BY <1>1, <1>4, <2>2 DEF Summing, Value
  <2> QED
    BY <1>1, <1>3, <1>4, <1>6, <1>9, <2>3 DEF Inv, LongExact, Operands
<1> QED
  BY <1>5, <1>7, <1>8, <1>9 DEF Kind

LEMMA AddStep ==
  ASSUME Inv, AddLimb
  PROVE  Inv'
<1>1. PICK v \in Operands : Computes(AddC(acc, v, psw)) /\ y' = y + w * Value(v)
  BY DEF AddLimb
<1>2. v \in Byte /\ Value(v) \in Int /\ (kind # "decimal" => Value(v) = v)
      /\ (kind = "decimal" => v \in Packed /\ Value(v) = Decimal(v))
  BY OperandTyped
<1>3. /\ kind \in {"sum", "decimal"} /\ at = "operate"
      /\ at' = IF kind = "sum" THEN "store" ELSE "adjust"
      /\ UNCHANGED <<kind, b, high, x, r, w>>
  BY DEF AddLimb, Then
<1>4. Typed /\ Summing /\ acc \in Operands
  BY <1>3 DEF Inv
<1>5. acc \in Byte /\ psw \in SUBSET Flag /\ x \in Int /\ y \in Int /\ r \in Int /\ w \in Int
  BY <1>4 DEF Typed
<1>6. /\ acc' \in Byte /\ psw' \in SUBSET Flag
      /\ acc' + 256 * Carry(psw') = acc + v + Carry(psw)
      /\ acc' = AddC(acc, v, psw).acc /\ psw' = AddC(acc, v, psw).psw
  BY <1>1, <1>2, <1>5, AddCExact DEF Computes
<1>7. Typed'
  BY <1>1, <1>2, <1>3, <1>4, <1>5, <1>6 DEF Typed
<1>8. CASE kind = "sum"
  <2>1. r + w * Carry(psw) + w * acc = x + y /\ Value(v) = v
    BY <1>2, <1>4, <1>8, OperandTyped DEF Summing
  <2>2. w * (acc' + 256 * Carry(psw')) = w * (acc + v + Carry(psw))
    BY <1>6
  <2>3. r + w * acc' + w * (256 * Carry(psw')) = x + (y + w * v)
    <3>1. /\ acc \in Int /\ v \in Int /\ acc' \in Int /\ Carry(psw) \in Int
          /\ 256 * Carry(psw') \in Int /\ x \in Int /\ y \in Int /\ r \in Int /\ w \in Int
      BY <1>2, <1>5, <1>6, Carries DEF Byte
    <3>2. w * (acc' + 256 * Carry(psw')) = w * acc' + w * (256 * Carry(psw'))
      BY <3>1, Weighed
    <3>3. w * (acc + v + Carry(psw)) = w * acc + w * v + w * Carry(psw)
      BY <3>1, Weighed
    <3>4. w * acc' \in Int /\ w * (256 * Carry(psw')) \in Int /\ w * acc \in Int /\ w * v \in Int /\ w * Carry(psw) \in Int
      BY <3>1, Weighed
    <3> DEFINE A == w * acc'  C == w * (256 * Carry(psw'))
               D == w * acc   E == w * v  F == w * Carry(psw)
    <3>5. A + C = D + E + F /\ r + F + D = x + y
      BY <2>1, <2>2, <3>2, <3>3
    <3>6. A \in Int /\ C \in Int /\ D \in Int /\ E \in Int /\ F \in Int
      BY <3>4
    <3> HIDE DEF A, C, D, E, F
    <3>7. r + A + C = x + (y + E)
      BY <3>1, <3>5, <3>6
    <3> QED
      BY <3>7 DEF A, C, E
  <2>4. Summed'
    BY <1>1, <1>3, <1>8, <2>1, <2>3 DEF Summed, Value, Base
  <2> QED
    BY <1>3, <1>7, <1>8, <2>4 DEF Inv, LongExact
<1>9. CASE kind = "decimal"
  <2>1. acc \in Packed /\ v \in Packed /\ Value(acc) = Decimal(acc) /\ Value(v) = Decimal(v)
        /\ Decimal(acc) \in Int /\ Decimal(v) \in Int
    BY <1>2, <1>4, <1>9, OperandTyped
  <2>2. r + w * Carry(psw) + w * Decimal(acc) = x + y
    BY <1>4, <2>1 DEF Summing
  <2>3. r + w * (Decimal(acc) + Decimal(v) + Carry(psw)) = x + (y + w * Decimal(v))
    <3>1. Carry(psw) \in Int /\ w * Carry(psw) \in Int /\ w * Decimal(acc) \in Int /\ w * Decimal(v) \in Int
      BY <1>5, <2>1, Carries, Weighed
    <3>2. w * (Decimal(acc) + Decimal(v) + Carry(psw)) = w * Decimal(acc) + w * Decimal(v) + w * Carry(psw)
      BY <1>5, <2>1, <3>1, Weighed
    <3> QED
      BY <1>5, <2>2, <3>1, <3>2
  <2>4. AsAdded'
    <3>1. r' + w' * (Decimal(acc) + Decimal(v) + Carry(psw)) = x' + y'
      BY <1>1, <1>3, <2>1, <2>3
    <3> QED
      BY <1>5, <1>6, <2>1, <3>1 DEF AsAdded
  <2> QED
    BY <1>3, <1>7, <1>9, <2>4 DEF Inv, LongExact
<1> QED
  BY <1>3, <1>8, <1>9

LEMMA SubStep ==
  ASSUME Inv, SubLimb
  PROVE  Inv'
<1>1. PICK v \in Operands : Computes(SubB(acc, v, psw)) /\ y' = y + w * Value(v)
  BY DEF SubLimb
<1>3. /\ kind = "difference" /\ at = "operate" /\ at' = "store"
      /\ UNCHANGED <<kind, b, high, x, r, w>>
  BY DEF SubLimb, Then
<1>2. v \in Byte /\ Value(v) = v
  BY <1>3, OperandTyped
<1>4. Typed /\ Subtracting
  BY <1>3 DEF Inv
<1>5. acc \in Byte /\ psw \in SUBSET Flag /\ x \in Int /\ y \in Int /\ r \in Int /\ w \in Int
  BY <1>4 DEF Typed
<1>6. /\ acc' \in Byte /\ psw' \in SUBSET Flag
      /\ acc' - 256 * Carry(psw') = acc - v - Carry(psw)
  BY <1>1, <1>2, <1>5, SubBExact DEF Computes
<1>7. Typed'
  BY <1>1, <1>2, <1>3, <1>4, <1>5, <1>6 DEF Typed, Byte
<1>8. w * (acc' - 256 * Carry(psw')) = w * (acc - v - Carry(psw))
  BY <1>6
<1>9. r - w * Carry(psw) + w * acc = x - y
  BY <1>4 DEF Subtracting
<1>10. r + w * acc' - w * (256 * Carry(psw')) = x - (y + w * v)
  <2>1. /\ acc \in Int /\ v \in Int /\ acc' \in Int /\ Carry(psw) \in Int
        /\ 256 * Carry(psw') \in Int /\ x \in Int /\ y \in Int /\ r \in Int /\ w \in Int
    BY <1>2, <1>5, <1>6, Carries DEF Byte
  <2>2. w * (acc' - 256 * Carry(psw')) = w * acc' - w * (256 * Carry(psw'))
    BY <2>1, Weighed
  <2>3. w * (acc - v - Carry(psw)) = w * acc - w * v - w * Carry(psw)
    BY <2>1, Weighed
  <2>4. w * acc' \in Int /\ w * (256 * Carry(psw')) \in Int /\ w * acc \in Int /\ w * v \in Int /\ w * Carry(psw) \in Int
    BY <2>1, Weighed
  <2> QED
    BY <1>8, <1>9, <2>1, <2>2, <2>3, <2>4
<1>11. Subtracted'
  BY <1>1, <1>2, <1>3, <1>10 DEF Subtracted
<1> QED
  BY <1>3, <1>7, <1>11 DEF Inv, LongExact

LEMMA AdjustStep ==
  ASSUME Inv, Adjust
  PROVE  Inv'
<1>1. /\ at = "adjust" /\ at' = "store" /\ UNCHANGED <<kind, b, high, x, y, r, w>>
      /\ acc' = Da(acc, psw).acc /\ psw' = Da(acc, psw).psw
  BY DEF Adjust, Then, Computes, numbers
<1>2. kind = "decimal" /\ AsAdded /\ Typed
  BY <1>1 DEF Inv
<1>3. PICK p, q \in Packed, f \in SUBSET Flag :
        /\ acc = AddC(p, q, f).acc /\ psw = AddC(p, q, f).psw
        /\ r + w * (Decimal(p) + Decimal(q) + Carry(f)) = x + y
  BY <1>2 DEF AsAdded
<1>4. /\ acc' \in Packed /\ psw' \in SUBSET Flag
      /\ Decimal(acc') + 100 * Carry(psw') = Decimal(p) + Decimal(q) + Carry(f)
  <2>1. LET d == Da(AddC(p, q, f).acc, AddC(p, q, f).psw)
        IN  /\ d.acc \in Packed /\ d.psw \in SUBSET Flag
            /\ 10 * (d.acc \div 16) + (d.acc % 16) + 100 * Carry(d.psw)
                 = 10 * (p \div 16) + (p % 16) + 10 * (q \div 16) + (q % 16) + Carry(f)
    BY DaExact
  <2>2. \A v \in Packed : v \div 16 \in Int /\ v % 16 \in Int
    <3>1. \A v \in Int : v \div 16 \in Int /\ v % 16 \in Int
      OBVIOUS
    <3> QED
      BY <3>1, Digits DEF Byte
  <2>3. Decimal(p) + Decimal(q) + Carry(f) = 10 * (p \div 16) + (p % 16) + 10 * (q \div 16) + (q % 16) + Carry(f)
    BY <2>2, Carries DEF Decimal
  <2> QED
    BY <1>1, <1>3, <2>1, <2>3 DEF Decimal
<1>5. Typed' /\ Decimal(acc') \in Int /\ w \in Int /\ r \in Int
  <2>1. acc' \in Byte /\ acc' \in Int
    BY <1>4, Digits DEF Byte
  <2> QED
    BY <1>1, <1>2, <1>4, <2>1 DEF Typed, Decimal
<1>6. w * (Decimal(acc') + 100 * Carry(psw')) = w * (Decimal(p) + Decimal(q) + Carry(f))
  BY <1>4
<1>7. r + w * Decimal(acc') + w * (100 * Carry(psw')) = x + y
  BY <1>3, <1>5, <1>6, Carries
<1>8. Summed'
  BY <1>1, <1>2, <1>7 DEF Summed, Value, Base, Decimal
<1> QED
  BY <1>1, <1>2, <1>5, <1>8 DEF Inv, LongExact

LEMMA MultiplyStep ==
  ASSUME Inv, Multiply
  PROVE  Inv'
<1>1. /\ at = "mul" /\ at' = "add" /\ UNCHANGED <<kind, high, x, y, r, w>>
      /\ acc' = Mul(acc, y, psw).acc /\ psw' = Mul(acc, y, psw).psw /\ b' = Mul(acc, y, psw).b
  BY DEF Multiply, Then, Computes, numbers
<1>2. kind = "product" /\ Typed /\ r + w * high + w * (acc * y) = x * y
  BY <1>1 DEF Inv
<1>3. acc \in Byte /\ y \in Byte /\ psw \in SUBSET Flag
  BY <1>2 DEF Typed
<1>4. acc' \in Byte /\ psw' \in SUBSET Flag /\ b' \in 0..254 /\ acc' + 256 * b' = acc * y
  BY <1>1, <1>3, MulExact
<1>5. b' \in Byte /\ b' <= 254
  BY <1>4 DEF Byte
<1>6. Typed'
  BY <1>1, <1>2, <1>4, <1>5 DEF Typed
<1>7. r' + w' * high' + w' * (acc' + 256 * b') = x' * y'
  BY <1>1, <1>2, <1>4
<1> QED
  BY <1>1, <1>2, <1>5, <1>6, <1>7 DEF Inv, LongExact

LEMMA AddHighStep ==
  ASSUME Inv, AddHigh
  PROVE  Inv'
<1>1. /\ at = "add" /\ at' = "store" /\ UNCHANGED <<kind, b, high, x, y, r, w>>
      /\ acc' = Add(acc, high, psw).acc /\ psw' = Add(acc, high, psw).psw
  BY DEF AddHigh, Then, Computes, numbers
<1>2. kind = "product" /\ Typed /\ b <= 254 /\ r + w * high + w * (acc + 256 * b) = x * y
  BY <1>1 DEF Inv
<1>3. acc \in Byte /\ high \in Byte /\ b \in Byte /\ psw \in SUBSET Flag /\ w \in Int /\ r \in Int
  BY <1>2 DEF Typed
<1>4. acc' \in Byte /\ psw' \in SUBSET Flag /\ acc' + 256 * Carry(psw') = acc + high
  BY <1>1, <1>3, AddExact
<1>5. Typed'
  BY <1>1, <1>2, <1>4 DEF Typed
<1>6. w * (acc' + 256 * Carry(psw')) = w * (acc + high)
  BY <1>4
<1>7. r + w * acc' + w * (256 * (b + Carry(psw'))) = x * y
  <2>1. /\ acc \in Int /\ high \in Int /\ b \in Int /\ acc' \in Int /\ 256 * Carry(psw') \in Int /\ 256 * b \in Int
        /\ w \in Int /\ r \in Int /\ 256 * (b + Carry(psw')) = 256 * b + 256 * Carry(psw')
    <3>1. acc \in Int /\ high \in Int /\ b \in Int /\ acc' \in Int
      BY <1>3, <1>4 DEF Byte
    <3>2. Carry(psw') \in Int
      BY Carries
    <3> QED
      BY <1>3, <3>1, <3>2
  <2>2. w * (acc' + 256 * Carry(psw')) = w * acc' + w * (256 * Carry(psw'))
    BY <2>1, Weighed
  <2>3. w * (acc + high) = w * acc + w * high /\ w * (acc + 256 * b) = w * acc + w * (256 * b)
    BY <2>1, Weighed
  <2>4. w * (256 * (b + Carry(psw'))) = w * (256 * b) + w * (256 * Carry(psw'))
    BY <2>1, Weighed
  <2>5. w * acc' \in Int /\ w * (256 * Carry(psw')) \in Int /\ w * acc \in Int /\ w * high \in Int /\ w * (256 * b) \in Int
    BY <2>1, Weighed
  <2> DEFINE A == w * acc'  C == w * (256 * Carry(psw'))
             D == w * acc   E == w * high  F == w * (256 * b)  P == x * y
  <2>6. A + C = D + E /\ r + E + (D + F) = P
    BY <1>2, <1>6, <2>2, <2>3
  <2>7. A \in Int /\ C \in Int /\ D \in Int /\ E \in Int /\ F \in Int
    BY <2>5
  <2> HIDE DEF A, C, D, E, F, P
  <2>8. r + A + (F + C) = P
    <3>1. r \in Int
      BY <2>1
    <3>2. r + A + (F + C) = r + E + (D + F)
      BY <2>6, <2>7, <3>1
    <3> QED
      BY <2>6, <3>2
  <2> QED
    BY <2>4, <2>8 DEF A, C, F, P
<1> QED
  BY <1>1, <1>2, <1>5, <1>7 DEF Inv, LongExact

LEMMA StoreStep ==
  ASSUME Inv, Store
  PROVE  Inv'
<1>1. /\ at = "store" /\ at' = IF kind = "product" THEN "carry" ELSE "load"
      /\ UNCHANGED <<kind, high, acc, b, psw, x, y>>
      /\ r' = r + w * Value(acc) /\ w' = w * Base
  BY DEF Store, Then, registers
<1>2. Typed /\ kind \in Kind /\ w \in Int /\ r \in Int /\ acc \in Byte /\ b \in Byte
  BY DEF Inv, Typed
<1>3. Value(acc) \in Int /\ Base \in Int /\ (kind # "decimal" => Value(acc) = acc /\ Base = 256)
  BY <1>2 DEF Value, Base, Byte
<1>4. Typed'
  BY <1>1, <1>2, <1>3 DEF Typed
<1>5. CASE kind = "product"
  <2>1. b <= 254 /\ r + w * acc + w * (256 * (b + Carry(psw))) = x * y
    BY <1>1, <1>5 DEF Inv
  <2>2. r + w * acc + (w * 256) * (b + Carry(psw)) = x * y
    BY <1>2, <2>1, Carries DEF Byte
  <2>3. r' + w' * (b' + Carry(psw')) = x' * y'
    BY <1>1, <1>3, <1>5, <2>2
  <2> QED
    BY <1>1, <1>4, <1>5, <2>1, <2>3 DEF Inv, LongExact
<1>6. CASE kind = "difference"
  <2>1. r + w * acc - w * (256 * Carry(psw)) = x - y
    BY <1>1, <1>6 DEF Inv, Subtracted
  <2>2. (r + w * acc) - (w * 256) * Carry(psw) = x - y
    BY <1>2, <2>1, Carries DEF Byte
  <2>3. r' - w' * Carry(psw') = x' - y'
    BY <1>1, <1>3, <1>6, <2>2
  <2> QED
    BY <1>1, <1>4, <1>6, <2>3 DEF Inv, LongExact
<1>7. CASE kind \in {"sum", "decimal"}
  <2>1. r + w * Value(acc) + w * (Base * Carry(psw)) = x + y
    BY <1>1, <1>7 DEF Inv, Summed
  <2>2. (r + w * Value(acc)) + (w * Base) * Carry(psw) = x + y
    BY <1>2, <1>3, <2>1, Carries
  <2>3. r' + w' * Carry(psw') = x' + y'
    BY <1>1, <2>2
  <2> QED
    BY <1>1, <1>4, <1>7, <2>3 DEF Inv, LongExact
<1> QED
  BY <1>2, <1>5, <1>6, <1>7 DEF Kind

LEMMA CarryStep ==
  ASSUME Inv, CarryHigh
  PROVE  Inv'
<1>1. /\ at = "carry" /\ at' = "load" /\ UNCHANGED <<kind, b, x, y, r, w>>
      /\ acc' = AddC(b, 0, psw).acc /\ psw' = AddC(b, 0, psw).psw /\ high' = AddC(b, 0, psw).acc
  BY DEF CarryHigh, Then, Computes, numbers
<1>2. kind = "product" /\ Typed /\ b <= 254 /\ r + w * (b + Carry(psw)) = x * y
  BY <1>1 DEF Inv
<1>3. b \in Byte /\ psw \in SUBSET Flag /\ 0 \in Byte
  BY <1>2 DEF Typed, Byte
<1>4. high' \in Byte /\ psw' \in SUBSET Flag /\ high' + 256 * Carry(psw') = b + 0 + Carry(psw)
  BY <1>1, <1>3, AddCExact
<1>5. high' = b + Carry(psw)
  BY <1>2, <1>3, <1>4, Carries DEF Byte
<1>6. Typed'
  BY <1>1, <1>2, <1>4 DEF Typed
<1>7. r' + w' * high' = x' * y'
  BY <1>1, <1>2, <1>5
<1> QED
  BY <1>1, <1>2, <1>6, <1>7 DEF Inv, LongExact

THEOREM LongInvariant == Spec => []Inv
<1>1. Init => Inv
  <2> SUFFICES ASSUME Init
               PROVE  Inv
    OBVIOUS
  <2>1. 0 \in Byte /\ Factors \subseteq Byte /\ \A v \in Byte : v \in Int
    BY LimbAssumption DEF Byte
  <2>2. Typed
    BY <2>1 DEF Init, Typed
  <2>3. Carry(psw) = 0
    BY DEF Init, Carry
  <2>4. LongExact
    <3>1. r = 0 /\ w = 1 /\ x = 0 /\ high = 0 /\ y \in Int /\ (kind # "product" => y = 0)
      BY <2>1 DEF Init
    <3> QED
      BY <2>3, <3>1 DEF LongExact
  <2> QED
    BY <2>2, <2>4 DEF Init, Inv
<1>2. Inv /\ [Next]_longVars => Inv'
  <2> SUFFICES ASSUME Inv, [Next]_longVars
               PROVE  Inv'
    OBVIOUS
  <2>1. CASE Next
    BY <2>1, LoadStep, AddStep, SubStep, AdjustStep, MultiplyStep, AddHighStep, StoreStep, CarryStep DEF Next
  <2>2. CASE UNCHANGED longVars
    BY <2>2 DEF longVars, registers, numbers, Inv, Typed, LongExact, Operands, Subtracting, Summing, Value,
                AsAdded, Subtracted, Summed, Base
  <2> QED
    BY <2>1, <2>2
<1> QED
  BY <1>1, <1>2, PTL DEF Spec

(* Sums, differences, decimal sums and products of any length are exact.     *)
THEOREM LongIsExact == Spec => []LongExact
<1>1. Inv => LongExact
  BY DEF Inv
<1> QED
  BY <1>1, LongInvariant, PTL
=============================================================================
