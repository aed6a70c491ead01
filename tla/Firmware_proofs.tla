-------------------------- MODULE Firmware_proofs --------------------------
(***************************************************************************)
(* Theorems about two routines of rtl8367/asm/hello.s, for every call.      *)
(* port_init1: whatever the registers of the switch and the working cells   *)
(* have before, the registers that it writes, the PHY registers behind the  *)
(* window among them, are those of its plan, in order, and none is missing   *)
(* when it returns.  hexdump: whatever memory, source, address and number    *)
(* of bytes it is called with, it sends the text of the dump, character by   *)
(* character.  The runs call each with a few arguments.                      *)
(***************************************************************************)
EXTENDS Routines_proofs, FiniteSetTheorems, WellFoundedInduction

(* The writes done so far, as the log has them *)

(* The first n writes of the plan are in log l, and nothing but the prefix.   *)
Matches(r0, n, l) ==
  /\ \A i \in 1..Len(l) :
       l[i][1] # 7445 => Shown(l, i) \in 1..n /\ Meaning(r0, l, i) = Plan(r0)[Shown(l, i)]
  /\ Shown(l, Len(l)) = n

(* What the routine still needs is in registers r as it was in r0: the        *)
(* registers of the ports from the given one on, the version of the chip, and *)
(* the bits above the prefix.                                                *)
Untouched(r0, from, r) ==
  /\ \A q \in from..4 : Holding(r, 24 + 32 * q) = Holding(r0, 24 + 32 * q)
  /\ Holding(r, 4865) = Holding(r0, 4865)
  /\ Holding(r, 7445) \div 64 = Holding(r0, 7445) \div 64

Sane(r0, n, from, r, l) == Matches(r0, n, l) /\ Untouched(r0, from, r)

(* The writes that count. *)
Counted(l, i) == {j \in 1..i : l[j][1] # 7445}

(* A set of numbers that are not above n has a largest one.                   *)
LEMMA LargestOfSet ==
  ASSUME NEW n \in Nat, NEW S \in SUBSET (1..n), S # {}
  PROVE Max(S) \in S /\ \A x \in S : Max(S) >= x
<1>. DEFINE R == {ss \in Nat \X Nat : ss[1] < ss[2]}
            T == {n - x : x \in S}
<1>1. IsWellFoundedOn(R, Nat)
  BY NatLessThanWellFounded DEF OpToRel
<1>2. T \subseteq Nat /\ T # {}
  <2>1. \A x \in S : n - x \in Nat
    BY SMT
  <2>. QED
    BY <2>1
<1>3. PICK d \in T : \A y \in T : ~(<<y, d>> \in R)
  <2>. HIDE DEF R, T
  <2>. QED
    BY <1>1, <1>2, WFMin
<1>4. PICK m \in S : d = n - m
  OBVIOUS
<1>5. ASSUME NEW x \in S PROVE m >= x
  <2>1. n - x \in T /\ n - x \in Nat /\ d \in Nat
    BY <1>2
  <2>2. ~(n - x < d)
    BY <1>3, <2>1
  <2>. QED
    BY <1>4, <2>2, SMT
<1>. QED
  BY <1>5 DEF Max

LEMMA OnlyLargest ==
  ASSUME NEW k \in Nat, NEW S \in SUBSET (1..(k + 1)), k \in S, k + 1 \notin S
  PROVE Max(S) = k
<1>0. k + 1 \in Nat
  BY SMT
<1>1. Max(S) \in S /\ \A x \in S : Max(S) >= x
  BY <1>0, LargestOfSet
<1>2. Max(S) \in 1..(k + 1) /\ Max(S) # k + 1 /\ Max(S) >= k
  BY <1>1
<1>. QED
  BY <1>2, SMT

(* What an entry means depends on the entries up to it.                      *)
LEMMA SameBegin ==
  ASSUME NEW r0, NEW l, NEW m, NEW i \in Nat, i # 0, \A j \in 1..i : m[j] = l[j]
  PROVE /\ Counted(m, i) = Counted(l, i) /\ Shown(m, i) = Shown(l, i)
        /\ Prefix(r0, m, i) = Prefix(r0, l, i) /\ Meaning(r0, m, i) = Meaning(r0, l, i)
<1>. DEFINE P(x) == {j \in 1..i : x[j][1] = 7445}
<1>1. Counted(m, i) = Counted(l, i) /\ P(m) = P(l)
  BY DEF Counted
<1>2. P(l) \in SUBSET (1..i)
  OBVIOUS
<1>3. Prefix(r0, m, i) = Prefix(r0, l, i)
  <2>1. \A x : Prefix(r0, x, i) = IF P(x) = {} THEN Holding(r0, 7445) ELSE x[Max(P(x))][2]
    BY DEF Prefix
  <2>. HIDE DEF P
  <2>2. P(l) # {} => Max(P(l)) \in 1..i
    BY <1>2, LargestOfSet
  <2>3. Prefix(r0, m, i) = IF P(l) = {} THEN Holding(r0, 7445) ELSE m[Max(P(l))][2]
    BY <1>1, <2>1
  <2>. QED
    BY <2>1, <2>2, <2>3
<1>4. m[i] = l[i]
  BY SMT
<1>5. Counted(m, i) = Counted(l, i) /\ Shown(m, i) = Shown(l, i)
  <2>1. \A x : Shown(x, i) = Cardinality(Counted(x, i))
    BY DEF Shown, Counted
  <2>. QED
    BY <1>1, <2>1
<1>6. Meaning(r0, m, i) = Meaning(r0, l, i)
  BY <1>3, <1>4 DEF Meaning
<1>. QED
  BY <1>3, <1>5, <1>6

(* How many entries count, with one more.                                     *)
LEMMA CountsOneMore ==
  ASSUME NEW l, NEW n \in Nat
  PROVE /\ Shown(l, n) \in Nat /\ Shown(l, n) = Cardinality(Counted(l, n))
        /\ l[n + 1][1] = 7445 => Shown(l, n + 1) = Shown(l, n)
        /\ l[n + 1][1] # 7445 => Shown(l, n + 1) = Shown(l, n) + 1
<1>. DEFINE S == Counted(l, n)
<1>1. IsFiniteSet(S) /\ Cardinality(S) \in Nat
  <2>1. IsFiniteSet(1..n)
    BY FS_Interval
  <2>2. S \in SUBSET (1..n)
    BY DEF Counted
  <2>3. IsFiniteSet(S)
    BY <2>1, <2>2, FS_Subset, Zenon
  <2>. QED
    BY <2>3, FS_CardinalityType
<1>2. Shown(l, n) = Cardinality(S) /\ Shown(l, n + 1) = Cardinality(Counted(l, n + 1))
  BY DEF Shown, Counted
<1>3. 1..(n + 1) = (1..n) \cup {n + 1} /\ n + 1 \notin 1..n
  BY SMT
<1>4. CASE l[n + 1][1] = 7445
  <2>1. Counted(l, n + 1) = S
    BY <1>3, <1>4 DEF Counted
  <2>. QED
    BY <1>1, <1>2, <1>4, <2>1
<1>5. CASE l[n + 1][1] # 7445
  <2>1. Counted(l, n + 1) = S \cup {n + 1} /\ n + 1 \notin S
    BY <1>3, <1>5 DEF Counted
  <2>. HIDE DEF S
  <2>2. Cardinality(S \cup {n + 1}) = Cardinality(S) + 1
    BY <1>1, <2>1, FS_AddElement
  <2>. QED
    BY <1>1, <1>2, <1>5, <2>1, <2>2 DEF S
<1>. QED
  BY <1>1, <1>2, <1>4, <1>5

(* One more entry: what the earlier ones mean stays.                          *)
Continues(r0, n, l, e) ==
  /\ l \in Seq(Word \X Word) /\ e \in Word \X Word /\ n \in Nat /\ Matches(r0, n, l)
  /\ e[1] # 7445 => Meaning(r0, Append(l, e), Len(l) + 1) = Plan(r0)[n + 1]

LEMMA LogGrows ==
  ASSUME NEW r0, NEW l, NEW e, NEW n, Continues(r0, n, l, e)
  PROVE /\ e[1] = 7445 => Matches(r0, n, Append(l, e))
        /\ e[1] # 7445 => Matches(r0, n + 1, Append(l, e))
<1>. DEFINE m == Append(l, e)
            k == Len(l)
            c == IF e[1] = 7445 THEN n ELSE n + 1
<1>0. n \in Nat /\ Matches(r0, n, l)
  BY DEF Continues
<1>1. k \in Nat /\ Len(m) = k + 1 /\ m[k + 1] = e /\ \A i \in 1..k : m[i] = l[i]
  BY DEF Continues
<1>2. e[1] # 7445 => Meaning(r0, m, k + 1) = Plan(r0)[n + 1]
  BY DEF Continues
<1>3. /\ \A i \in 1..k : l[i][1] # 7445 => Shown(l, i) \in 1..n /\ Meaning(r0, l, i) = Plan(r0)[Shown(l, i)]
      /\ Shown(l, k) = n
  BY <1>0 DEF Matches
<1>. HIDE DEF m, k
<1>4. ASSUME NEW i \in 1..k
      PROVE m[i] = l[i] /\ Shown(m, i) = Shown(l, i) /\ Meaning(r0, m, i) = Meaning(r0, l, i)
  <2>1. i \in Nat /\ i # 0 /\ \A j \in 1..i : m[j] = l[j]
    BY <1>1, SMT
  <2>. QED
    BY <1>1, <2>1, SameBegin
<1>5. Shown(m, k) = Shown(l, k)
  <2>1. CASE k = 0
    <3>1. Counted(m, 0) = {} /\ Counted(l, 0) = {}
      BY SMT DEF Counted
    <3>2. \A x : Shown(x, 0) = Cardinality(Counted(x, 0))
      BY CountsOneMore, SMT
    <3>. QED
      BY <2>1, <3>1, <3>2
  <2>2. CASE k # 0
    <3>1. k \in 1..k
      BY <1>1, <2>2, SMT
    <3>. QED
      BY <1>4, <3>1
  <2>. QED
    BY <2>1, <2>2
<1>6. Shown(m, k + 1) = c
  <2>1. /\ e[1] = 7445 => Shown(m, k + 1) = Shown(m, k)
        /\ e[1] # 7445 => Shown(m, k + 1) = Shown(m, k) + 1
    BY <1>1, CountsOneMore
  <2>. QED
    BY <1>1, <1>3, <1>5, <2>1
<1>7. ASSUME NEW i \in 1..(k + 1), m[i][1] # 7445
      PROVE Shown(m, i) \in 1..c /\ Meaning(r0, m, i) = Plan(r0)[Shown(m, i)]
  <2>1. CASE i = k + 1
    <3>1. e[1] # 7445 /\ Shown(m, i) = n + 1 /\ c = n + 1
      BY <1>1, <1>6, <1>7, <2>1
    <3>2. Meaning(r0, m, i) = Plan(r0)[n + 1]
      BY <1>2, <2>1, <3>1
    <3>3. n + 1 \in 1..(n + 1)
      BY <1>0, SMT
    <3>. QED
      BY <3>1, <3>2, <3>3
  <2>2. CASE i # k + 1
    <3>1. i \in 1..k
      BY <1>1, <2>2, SMT
    <3>2. Shown(m, i) \in 1..n /\ Meaning(r0, m, i) = Plan(r0)[Shown(m, i)]
      BY <1>3, <1>4, <1>7, <3>1
    <3>3. c \in {n, n + 1}
      OBVIOUS
    <3>4. \A x \in 1..n : x \in 1..c
      <4>. HIDE DEF c
      <4>. QED
        BY <1>0, <3>3, SMT
    <3>. QED
      BY <3>2, <3>4
  <2>. QED
    BY <2>1, <2>2
<1>8. Matches(r0, c, m)
  BY <1>1, <1>6, <1>7 DEF Matches
<1>. QED
  BY <1>8 DEF m

LEMMA PrefixRegister == 7445 \in Word
  BY WordRange, SMT

LEMMA LastPrefix ==
  ASSUME NEW r0, NEW l, NEW a, NEW v, l \in Seq(Word \X Word), l # <<>>, l[Len(l)][1] = 7445, a # 7445
  PROVE Prefix(r0, Append(l, <<a, v>>), Len(l) + 1) = l[Len(l)][2]
<1>. DEFINE m == Append(l, <<a, v>>)
            k == Len(l)
            i == k + 1
            S == {j \in 1..i : m[j][1] = 7445}
<1>1. k \in Nat /\ m[i][1] = a /\ k # 0 /\ m[k] = l[k]
  OBVIOUS
<1>2. Prefix(r0, m, i) = IF S = {} THEN Holding(r0, 7445) ELSE m[Max(S)][2]
  BY DEF Prefix
<1>. HIDE DEF m, k
<1>3. k \in 1..i /\ i \in Nat
  BY <1>1, SMT
<1>4. S \subseteq 1..i /\ k \in S /\ i \notin S
  BY <1>1, <1>3 DEF k
<1>5. S \in SUBSET (1..(k + 1)) /\ k \in S /\ k + 1 \notin S /\ k \in Nat
  BY <1>1, <1>4
<1>. HIDE DEF S, i
<1>6. Max(S) = k
  BY <1>5, OnlyLargest
<1>. QED
  BY <1>1, <1>2, <1>4, <1>6 DEF m, i, k

(* A register that is written and the others.                                 *)
LEMMA HoldingAssigned ==
  ASSUME NEW r, NEW a, NEW v, NEW b
  PROVE Holding(Assign(r, a, v), b) = IF b = a THEN v ELSE Holding(r, b)
<1>1. DOMAIN Assign(r, a, v) = DOMAIN r \cup {a}
  BY DEF Assign
<1>2. b \in DOMAIN r \cup {a} => Assign(r, a, v)[b] = IF b = a THEN v ELSE r[b]
  BY DEF Assign
<1>. QED
  BY <1>1, <1>2 DEF Holding

(* A new prefix: nothing of the plan is done by it.                           *)
NewPrefix(r0, n, from, r, l, v) ==
  /\ n \in Nat /\ from \in Nat /\ l \in Seq(Word \X Word) /\ v \in Word
  /\ Sane(r0, n, from, r, l) /\ v \div 64 = Holding(r, 7445) \div 64

LEMMA PrefixKeepsPlace ==
  ASSUME NEW r0, NEW n, NEW from, NEW r, NEW l, NEW v, NewPrefix(r0, n, from, r, l, v)
  PROVE Sane(r0, n, from, Assign(r, 7445, v), Append(l, <<7445, v>>))
<1>. DEFINE e == <<7445, v>>
<1>1. e[1] = 7445
  OBVIOUS
<1>2. Continues(r0, n, l, e)
  BY PrefixRegister DEF NewPrefix, Sane, Continues
<1>3. Matches(r0, n, Append(l, e))
  <2>. HIDE DEF e
  <2>. QED
    BY <1>1, <1>2, LogGrows
<1>4. 4865 # 7445 /\ from \in Nat
  BY DEF NewPrefix
<1>5. \A q \in from..4 : 24 + 32 * q # 7445
  BY <1>4, SMT
<1>6. Untouched(r0, from, r) /\ v \div 64 = Holding(r, 7445) \div 64
  BY DEF NewPrefix, Sane
<1>7. Untouched(r0, from, Assign(r, 7445, v))
  BY <1>4, <1>5, <1>6, HoldingAssigned DEF Untouched
<1>. QED
  BY <1>3, <1>7 DEF Sane

(* The next write of the plan is done on a register of the switch.            *)
NextWrite(r0, n, from, to, r, l, a, v) ==
  /\ n \in Nat /\ from \in Nat /\ to \in Nat /\ from <= to
  /\ l \in Seq(Word \X Word) /\ a \in Word /\ v \in Word
  /\ Sane(r0, n, from, r, l)
  /\ ~IsPhy(a) /\ a # 7445 /\ a # 4865 /\ \A q \in to..4 : a # 24 + 32 * q
  /\ Plan(r0)[n + 1] = <<a, v>>

LEMMA WriteAdvances ==
  ASSUME NEW r0, NEW n, NEW from, NEW to, NEW r, NEW l, NEW a, NEW v,
         NextWrite(r0, n, from, to, r, l, a, v)
  PROVE Sane(r0, n + 1, to, Assign(r, a, v), Append(l, <<a, v>>))
<1>. DEFINE e == <<a, v>>
            m == Append(l, e)
<1>1. e[1] = a /\ e[1] # 7445
  BY DEF NextWrite
<1>2. Meaning(r0, m, Len(l) + 1) = e
  <2>1. m[Len(l) + 1] = e
    BY DEF NextWrite
  <2>2. ~IsPhy(a)
    BY DEF NextWrite
  <2>. HIDE DEF m
  <2>. QED
    BY <2>1, <2>2 DEF Meaning
<1>3. Continues(r0, n, l, e)
  <2>1. Plan(r0)[n + 1] = e
    BY DEF NextWrite
  <2>2. l \in Seq(Word \X Word) /\ e \in Word \X Word /\ n \in Nat /\ Matches(r0, n, l)
    BY DEF NextWrite, Sane
  <2>. HIDE DEF e
  <2>. QED
    BY <1>2, <2>1, <2>2 DEF Continues
<1>4. Matches(r0, n + 1, m)
  <2>. HIDE DEF e
  <2>. QED
    BY <1>1, <1>3, LogGrows
<1>5. Untouched(r0, to, Assign(r, a, v))
  <2>1. \A q \in to..4 : q \in from..4
    BY SMT DEF NextWrite
  <2>2. Untouched(r0, from, r) /\ a # 7445 /\ a # 4865 /\ \A q \in to..4 : a # 24 + 32 * q
    BY DEF NextWrite, Sane
  <2>. QED
    BY <2>1, <2>2, HoldingAssigned DEF Untouched
<1>. QED
  BY <1>4, <1>5 DEF Sane

(* ... or, right after its prefix has been set, on a PHY register.            *)
NextPhyWrite(r0, n, from, r, l, a, v) ==
  /\ n \in Nat /\ from \in Nat /\ l \in Seq(Word \X Word) /\ a \in Word /\ v \in Word
  /\ Sane(r0, n, from, r, l) /\ IsPhy(a)
  /\ l # <<>> /\ l[Len(l)] = <<7445, r[7445]>>
  /\ Plan(r0)[n + 1] = <<(a % 256) \div 32, OcpAddr(r, a), v>>

LEMMA PhyWriteAdvances ==
  ASSUME NEW r0, NEW n, NEW from, NEW r, NEW l, NEW a, NEW v,
         NextPhyWrite(r0, n, from, r, l, a, v)
  PROVE Sane(r0, n + 1, from, Assign(r, a, v), Append(l, <<a, v>>))
<1>. DEFINE e == <<a, v>>
            m == Append(l, e)
            i == Len(l) + 1
<1>0. a \in Int /\ 8192 <= a
  BY SMT DEF NextPhyWrite, IsPhy
<1>1. e[1] = a /\ e[2] = v /\ a # 7445 /\ a # 4865
  BY <1>0, SMT
<1>2. Prefix(r0, m, i) = r[7445]
  <2>1. l \in Seq(Word \X Word) /\ l # <<>> /\ l[Len(l)][1] = 7445 /\ l[Len(l)][2] = r[7445]
    BY DEF NextPhyWrite
  <2>. QED
    BY <1>1, <2>1, LastPrefix
<1>3. Meaning(r0, m, i) = Plan(r0)[n + 1]
  <2>1. m[i] = e /\ IsPhy(a)
    BY DEF NextPhyWrite
  <2>2. Meaning(r0, m, i) = <<(a % 256) \div 32, OcpAddr([x \in {7445} |-> r[7445]], a), v>>
    <3>. HIDE DEF m, i, e
    <3>. QED
      BY <1>1, <1>2, <2>1 DEF Meaning
  <2>3. OcpAddr([x \in {7445} |-> r[7445]], a) = OcpAddr(r, a)
    BY DEF OcpAddr
  <2>. QED
    BY <2>2, <2>3 DEF NextPhyWrite
<1>4. Continues(r0, n, l, e)
  <2>1. l \in Seq(Word \X Word) /\ e \in Word \X Word /\ n \in Nat /\ Matches(r0, n, l)
    BY DEF NextPhyWrite, Sane
  <2>. HIDE DEF e
  <2>. QED
    BY <1>3, <2>1 DEF Continues
<1>5. Matches(r0, n + 1, m)
  <2>. HIDE DEF e
  <2>. QED
    BY <1>1, <1>4, LogGrows
<1>6. Untouched(r0, from, Assign(r, a, v))
  <2>1. from \in Nat /\ Untouched(r0, from, r)
    BY DEF NextPhyWrite, Sane
  <2>2. \A q \in from..4 : a # 24 + 32 * q
    BY <1>0, <2>1, SMT
  <2>. QED
    BY <1>1, <2>1, <2>2, HoldingAssigned DEF Untouched
<1>. QED
  BY <1>5, <1>6 DEF Sane

(* The writes of a port stand together in the plan.                           *)
LEMMA PlanOfPort ==
  ASSUME NEW r0, NEW p \in 0..4, NEW m \in 1..PerPort(r0)
  PROVE Plan(r0)[PerPort(r0) * p + m] = Wanted(r0, p)[m]
<1>. DEFINE k == PerPort(r0)
            i == k * p + m
<1>1. k \in {3, 5}
  BY DEF PerPort
<1>2. i \in 1..(5 * k) /\ (i - 1) \div k = p /\ ((i - 1) % k) + 1 = m
  <2>1. CASE k = 3
    <3>1. m \in 1..3
      BY <2>1
    <3>2. i = 3 * p + m
      BY <2>1
    <3>. HIDE DEF i, k
    <3>3. p \in Int /\ 0 <= p /\ p <= 4 /\ m \in Int /\ 1 <= m /\ m <= 3
      BY <3>1, SMT
    <3>4. i \in 1..15 /\ (i - 1) \div 3 = p /\ ((i - 1) % 3) + 1 = m
      BY <3>2, <3>3, SMT
    <3>. QED
      BY <2>1, <3>4, SMT
  <2>2. CASE k = 5
    <3>1. m \in 1..5
      BY <2>2
    <3>2. i = 5 * p + m
      BY <2>2
    <3>. HIDE DEF i, k
    <3>3. p \in Int /\ 0 <= p /\ p <= 4 /\ m \in Int /\ 1 <= m /\ m <= 5
      BY <3>1, SMT
    <3>4. i \in 1..25 /\ (i - 1) \div 5 = p /\ ((i - 1) % 5) + 1 = m
      BY <3>2, <3>3, SMT
    <3>. QED
      BY <2>2, <3>4, SMT
  <2>. QED
    BY <1>1, <2>1, <2>2
<1>. HIDE DEF i
<1>3. Plan(r0)[i] = Wanted(r0, (i - 1) \div k)[((i - 1) % k) + 1]
  BY <1>2 DEF Plan
<1>. QED
  BY <1>2, <1>3 DEF i

-----------------------------------------------------------------------------
(* The core at the instructions of port_init1 *)

(* The forms that it has and phyocp_reg_addr has not, as in Dispatch.         *)
LEMMA DispatchRest ==
  ASSUME Step
  PROVE (Op = "orli" => Logic) /\ (Op = "inc" => Unary)
<1>. USE DEF Step, Move, MoveDptr, IncDptr, Load, Store, Exchange, Arith, Logic, Unary, RotateCarry,
         Multiply, SetBit, Jump, CompareJump, DecrementJump, Call, Return, Push, Pop
<1>1. Op = "orli" => Logic
  OBVIOUS
<1>2. Op = "inc" => Unary
  OBVIOUS
<1>. HIDE DEF Step, Move, MoveDptr, IncDptr, Load, Store, Exchange, Arith, Logic, Unary, RotateCarry,
         Multiply, SetBit, Jump, CompareJump, DecrementJump, Call, Return, Push, Pop
<1>. QED
  BY <1>1, <1>2

LEMMA OrsByte ==
  ASSUME Machine, Step, NEW v \in Byte, Insn = <<"orli", v>>
  PROVE Gives("A", BitOr(A, v)) /\ psw' = psw
<1>1. Logic
  BY DispatchRest DEF Op
<1>2. cell' = [cell EXCEPT !["A"] = BitOr(A, v)] /\ dev' = dev /\ Onwards /\ psw' = psw
  BY <1>1 DEF Logic, Op, Onwards
<1>3. "A" \in Used
  BY DEF Used
<1>4. BitOr(A, v) \in Byte
  BY <1>3, Plain, BitBounds DEF A
<1>. QED
  BY <1>2, <1>3, <1>4, Giving DEF Gives

LEMMA Increments ==
  ASSUME Machine, Step, Insn = <<"inc", "R7">>, cell["R7"] + 1 \in Byte
  PROVE Gives("R7", cell["R7"] + 1)
<1>. DEFINE w == cell["R7"] + 1
<1>1. Unary /\ Op = "inc" /\ Insn[2] = "R7"
  BY DispatchRest DEF Op
<1>2. cell' = [cell EXCEPT !["R7"] = w % 256] /\ dev' = dev /\ Onwards
  BY <1>1 DEF Unary, Onwards
<1>. w \in Byte
  OBVIOUS
<1>. HIDE DEF w
<1>3. w % 256 = w
  BY ByteRange, SMT
<1>4. "R7" \in Used
  BY DEF Used
<1>5. cell' = [cell EXCEPT !["R7"] = cell["R7"] + 1] /\ dev' = dev /\ Onwards
  BY <1>2, <1>3 DEF w
<1>. QED
  BY <1>4, <1>5, Giving DEF Gives

(* CJNE of a cell with a byte. *)
LEMMA ComparesCell ==
  ASSUME Machine, Step, NEW n \in Used, NEW v \in Byte, NEW l, Insn = <<"cjne", n, v, l>>
  PROVE Same /\ pc' = IF cell[n] = v THEN After ELSE To(l)
<1>1. CompareJump
  BY Dispatch DEF Op
<1>2. Same /\ pc' = IF (cell[n] - v) % 256 # 0 THEN To(l) ELSE After
  BY <1>1 DEF CompareJump, Branch, Same, Cmp
<1>. DEFINE x == cell[n]
<1>3. x \in Int /\ 0 <= x /\ x <= 255 /\ v \in Int /\ 0 <= v /\ v <= 255
  BY Plain, ByteRange
<1>. HIDE DEF x
<1>4. (x - v) % 256 = 0 <=> x = v
  BY <1>3, SMT
<1>. QED
  BY <1>2, <1>4 DEF x

LEMMA PutsByte ==
  ASSUME Machine, Step, NEW n \in IndaccFile, NEW v \in Byte, Insn = <<"movi", n, v>>
  PROVE /\ Machine' /\ Onwards /\ UNCHANGED <<cell, psw>>
        /\ dev' = [dev EXCEPT !.sfr[n] = v]
<1>1. Move
  BY Dispatch DEF Op
<1>2. BoardPut(dev, n, v) = [dev EXCEPT !.sfr[n] = v]
  BY NotHooked DEF BoardPut, Put, Machine, IndaccFile, PedmaFile
<1>3. dev' = [dev EXCEPT !.sfr[n] = v] /\ UNCHANGED <<cell, psw>> /\ Onwards
  BY <1>1, <1>2, OfPort DEF Move, Op, Write, Onwards
<1>. QED
  BY <1>3 DEF Machine, Switch

-----------------------------------------------------------------------------
(* The instructions of port_init_eee and port_init_phyocp, which Hello puts   *)
(* together from pieces.                                                     *)

EeeList == <<
  <<"mov_dptr", 24>>, <<"movx", "A", "R7">>, <<"movi", "B", 32>>, <<"mul">>, <<"push", "B">>,
  <<"movx", "B", "A">>, <<"movx", "A", "DPL">>, <<"addx", "B">>, <<"movx", "DPL", "A">>,
  <<"movx", "A", "DPH">>, <<"pop", "B">>, <<"addcx", "B">>, <<"movx", "DPH", "A">>,
  <<"call", "reg_read">>, <<"movx", "A", "INDACC_RDATA_H">>, <<"orli", 15>>,
  <<"movx", "INDACC_WDATA_H", "A">>, <<"movx", "A", "INDACC_RDATA_L">>,
  <<"movx", "INDACC_WDATA_L", "A">>, <<"call", "reg_write">>, <<"ret">> >>

OcpList == <<
  <<"mov_dptr", 42024>>, <<"call", "phyocp_reg_addr">>, <<"call", "reg_read">>,
  <<"movx", "A", "INDACC_RDATA_H">>, <<"anli", 253>>, <<"movx", "INDACC_WDATA_H", "A">>,
  <<"movx", "A", "INDACC_RDATA_L">>, <<"movx", "INDACC_WDATA_L", "A">>, <<"call", "reg_write">>,
  <<"mov_dptr", 5058>>, <<"movi", "INDACC_WDATA_H", 2>>, <<"movi", "INDACC_WDATA_L", 73>>,
  <<"call", "reg_write">>, <<"mov_dptr", 4865>>, <<"call", "reg_read">>,
  <<"movx", "A", "INDACC_RDATA_L">>, <<"anli", 240>>, <<"cjne", "A", 160, "port_init_phyocp_exit">>,
  <<"mov_dptr", 42448>>, <<"call", "phyocp_reg_addr">>, <<"call", "reg_read">>,
  <<"movx", "A", "INDACC_RDATA_H">>, <<"movx", "INDACC_WDATA_H", "A">>,
  <<"movx", "A", "INDACC_RDATA_L">>, <<"orli", 6>>, <<"movx", "INDACC_WDATA_L", "A">>,
  <<"call", "reg_write">>, <<"mov_dptr", 41984>>, <<"call", "phyocp_reg_addr">>,
  <<"call", "reg_read">>, <<"movx", "A", "INDACC_RDATA_H">>, <<"anli", 247>>, <<"orli", 2>>,
  <<"movx", "INDACC_WDATA_H", "A">>, <<"movx", "A", "INDACC_RDATA_L">>,
  <<"movx", "INDACC_WDATA_L", "A">>, <<"call", "reg_write">> >>

LEMMA EeeCode ==
  Len(PortInitCode["port_init_eee"].code) = 21
    /\ \A i \in 1..21 : PortInitCode["port_init_eee"].code[i] = EeeList[i]
<1>. DEFINE L == EeeList
            U == {L[i] : i \in 1..21}
            t0 == << <<"mov_dptr", 24>> >>
            t1 == AddPort
            t2 == ChangeHigh(<<"orli", 15>>)
            t3 == << <<"ret">> >>
            q1 == t0 \o t1
            q2 == q1 \o t2
            q3 == q2 \o t3
<1>0. t0 = <<L[1]>>
  BY DEF EeeList
<1>1. t1 = <<L[2], L[3], L[4], L[5], L[6], L[7], L[8], L[9], L[10], L[11], L[12], L[13]>>
  BY DEF EeeList, AddPort
<1>2. t2 = <<L[14], L[15], L[16], L[17], L[18], L[19], L[20]>>
  BY DEF EeeList, ChangeHigh
<1>3. t3 = <<L[21]>>
  BY DEF EeeList
<1>4. PortInitCode["port_init_eee"] = Closed(q3)
  BY DEF PortInitCode
<1>. HIDE DEF t0, t1, t2, t3, q1, q2, q3
<1>5. PortInitCode["port_init_eee"].code = q3
  BY <1>4 DEF Closed, Block
<1>6. \A i \in 1..21 : L[i] \in U
  OBVIOUS
<1>. HIDE DEF L, U
<1>7. Opens(L, U, t0, 1)
  BY <1>0, <1>6, SMT DEF Opens
<1>8. Opens(L, U, q1, 13)
  <2>1. Goes(L, U, t1, 1, 13)
    BY <1>1, <1>6, SMT DEF Goes
  <2>. QED
    BY <1>7, <2>1, Joins DEF q1
<1>9. Opens(L, U, q2, 20)
  <2>1. Goes(L, U, t2, 13, 20)
    BY <1>2, <1>6, SMT DEF Goes
  <2>. QED
    BY <1>8, <2>1, Joins DEF q2
<1>10. Opens(L, U, q3, 21)
  <2>1. Goes(L, U, t3, 20, 21)
    BY <1>3, <1>6, SMT DEF Goes
  <2>. QED
    BY <1>9, <2>1, Joins DEF q3
<1>. QED
  BY <1>5, <1>10 DEF Opens, L

LEMMA OcpCode ==
  Len(PortInitCode["port_init_phyocp"].code) = 37
    /\ PortInitCode["port_init_phyocp"].then = "port_init_phyocp_exit"
    /\ \A i \in 1..37 : PortInitCode["port_init_phyocp"].code[i] = OcpList[i]
<1>. DEFINE L == OcpList
            U == {L[i] : i \in 1..37}
            t0 == AtPhy(42024)
            t1 == ChangeHigh(<<"anli", 253>>)
            t2 == IfSupported
            t3 == AtPhy(42448)
            t4 == ChangeLow(<<"orli", 6>>)
            t5 == AtPhy(41984)
            t6 == ChangeHighTwice(<<"anli", 247>>, <<"orli", 2>>)
            q1 == t0 \o t1
            q2 == q1 \o t2
            q3 == q2 \o t3
            q4 == q3 \o t4
            q5 == q4 \o t5
            q6 == q5 \o t6
<1>0. t0 = <<L[1], L[2]>>
  BY DEF OcpList, AtPhy
<1>1. t1 = <<L[3], L[4], L[5], L[6], L[7], L[8], L[9]>>
  BY DEF OcpList, ChangeHigh
<1>2. t2 = <<L[10], L[11], L[12], L[13], L[14], L[15], L[16], L[17], L[18]>>
  BY DEF OcpList, IfSupported
<1>3. t3 = <<L[19], L[20]>>
  BY DEF OcpList, AtPhy
<1>4. t4 = <<L[21], L[22], L[23], L[24], L[25], L[26], L[27]>>
  BY DEF OcpList, ChangeLow
<1>5. t5 = <<L[28], L[29]>>
  BY DEF OcpList, AtPhy
<1>6. t6 = <<L[30], L[31], L[32], L[33], L[34], L[35], L[36], L[37]>>
  BY DEF OcpList, ChangeHighTwice
<1>7. PortInitCode["port_init_phyocp"] = Block(q6, "port_init_phyocp_exit")
  BY DEF PortInitCode
<1>. HIDE DEF t0, t1, t2, t3, t4, t5, t6, q1, q2, q3, q4, q5, q6
<1>8. /\ PortInitCode["port_init_phyocp"].code = q6
      /\ PortInitCode["port_init_phyocp"].then = "port_init_phyocp_exit"
  BY <1>7 DEF Block
<1>9. \A i \in 1..37 : L[i] \in U
  OBVIOUS
<1>. HIDE DEF L, U
<1>10. Opens(L, U, t0, 2)
  BY <1>0, <1>9, SMT DEF Opens
<1>11. Opens(L, U, q1, 9)
  <2>1. Goes(L, U, t1, 2, 9)
    BY <1>1, <1>9, SMT DEF Goes
  <2>. QED
    BY <1>10, <2>1, Joins DEF q1
<1>12. Opens(L, U, q2, 18)
  <2>1. Goes(L, U, t2, 9, 18)
    BY <1>2, <1>9, SMT DEF Goes
  <2>. QED
    BY <1>11, <2>1, Joins DEF q2
<1>13. Opens(L, U, q3, 20)
  <2>1. Goes(L, U, t3, 18, 20)
    BY <1>3, <1>9, SMT DEF Goes
  <2>. QED
    BY <1>12, <2>1, Joins DEF q3
<1>14. Opens(L, U, q4, 27)
  <2>1. Goes(L, U, t4, 20, 27)
    BY <1>4, <1>9, SMT DEF Goes
  <2>. QED
    BY <1>13, <2>1, Joins DEF q4
<1>15. Opens(L, U, q5, 29)
  <2>1. Goes(L, U, t5, 27, 29)
    BY <1>5, <1>9, SMT DEF Goes
  <2>. QED
    BY <1>14, <2>1, Joins DEF q5
<1>16. Opens(L, U, q6, 37)
  <2>1. Goes(L, U, t6, 29, 37)
    BY <1>6, <1>9, SMT DEF Goes
  <2>. QED
    BY <1>15, <2>1, Joins DEF q6
<1>. QED
  BY <1>8, <1>16 DEF Opens, L

(* The points of the two routines: 1 to 21 of port_init_eee, 101 to 137 those *)
(* of port_init_phyocp, and its exit.                                        *)
Where(i) == IF i < 100 THEN <<"port_init_eee", i>>
            ELSE IF i < 138 THEN <<"port_init_phyocp", i - 100>>
            ELSE <<"port_init_phyocp_exit", 1>>
Points == (1..21) \cup (101..138)
InsnAt(i) == IF i < 100 THEN EeeList[i] ELSE IF i < 138 THEN OcpList[i - 100] ELSE <<"ret">>

LEMMA PointInsn ==
  ASSUME NEW i \in Points, pc = Where(i)
  PROVE Insn = InsnAt(i) /\ (i \notin {21, 138} => After = Where(i + 1))
<1>0. /\ Code["port_init_eee"] = PortInitCode["port_init_eee"]
      /\ Code["port_init_phyocp"] = PortInitCode["port_init_phyocp"]
      /\ Code["port_init_phyocp_exit"] = PortInitCode["port_init_phyocp_exit"]
  BY PortProgramAssumption DEF PortInitCode
<1>1. CASE i \in 1..21
  <2>1. i < 100 /\ Where(i) = <<"port_init_eee", i>> /\ InsnAt(i) = EeeList[i]
    BY <1>1, SMT DEF Where, InsnAt
  <2>2. pc[1] = "port_init_eee" /\ pc[2] = i
    BY <2>1
  <2>3. Insn = EeeList[i]
    BY <1>0, <1>1, <2>2, EeeCode, Zenon DEF Insn
  <2>4. Len(Code["port_init_eee"].code) = 21
    BY <1>0, EeeCode, Zenon
  <2>5. ASSUME i # 21 PROVE After = Where(i + 1)
    <3>1. i < 21 /\ Where(i + 1) = <<"port_init_eee", i + 1>>
      BY <1>1, <2>5, SMT DEF Where
    <3>. QED
      BY <2>2, <2>4, <3>1 DEF After
  <2>. QED
    BY <2>1, <2>3, <2>5
<1>2. CASE i \in 101..137
  <2>1. ~(i < 100) /\ i < 138 /\ i - 100 \in 1..37
    BY <1>2, SMT
  <2>1a. Where(i) = <<"port_init_phyocp", i - 100>> /\ InsnAt(i) = OcpList[i - 100]
    BY <2>1 DEF Where, InsnAt
  <2>2. pc[1] = "port_init_phyocp" /\ pc[2] = i - 100
    BY <2>1a
  <2>3. Insn = OcpList[i - 100]
    <3>1. \A j \in 1..37 : PortInitCode["port_init_phyocp"].code[j] = OcpList[j]
      BY OcpCode, Zenon
    <3>2. Code["port_init_phyocp"].code[i - 100] = OcpList[i - 100]
      BY <1>0, <2>1, <3>1
    <3>. QED
      BY <2>2, <3>2 DEF Insn
  <2>4. /\ Len(Code["port_init_phyocp"].code) = 37
        /\ Code["port_init_phyocp"].then = "port_init_phyocp_exit"
    BY <1>0, OcpCode, Zenon
  <2>5. After = Where(i + 1)
    <3>1. CASE i = 137
      <4>1. Where(i + 1) = <<"port_init_phyocp_exit", 1>> /\ i - 100 = 37
        BY <3>1, SMT DEF Where
      <4>. QED
        BY <2>2, <2>4, <4>1 DEF After
    <3>2. CASE i # 137
      <4>1. i - 100 < 37 /\ Where(i + 1) = <<"port_init_phyocp", (i - 100) + 1>>
        BY <1>2, <3>2, SMT DEF Where
      <4>. QED
        BY <2>2, <2>4, <4>1 DEF After
    <3>. QED
      BY <3>1, <3>2
  <2>. QED
    BY <2>1a, <2>3, <2>5
<1>3. CASE i = 138
  <2>1. Where(i) = <<"port_init_phyocp_exit", 1>> /\ InsnAt(i) = <<"ret">>
    BY <1>3, SMT DEF Where, InsnAt
  <2>2. Code["port_init_phyocp_exit"].code = << <<"ret">> >>
    BY <1>0 DEF PortInitCode, Closed, Block
  <2>. QED
    BY <1>3, <2>1, <2>2 DEF Insn
<1>. QED
  BY <1>1, <1>2, <1>3 DEF Points

LEMMA LoopCode ==
  /\ pc = <<"port_init1", 1>> => Insn = <<"movi", "R7", 0>> /\ After = <<"port_init1_loop", 1>>
  /\ pc = <<"port_init1_loop", 1>> => Insn = <<"call", "port_init_eee">> /\ After = <<"port_init1_loop", 2>>
  /\ pc = <<"port_init1_loop", 2>> => Insn = <<"call", "port_init_phyocp">> /\ After = <<"port_init1_loop", 3>>
  /\ pc = <<"port_init1_loop", 3>> => Insn = <<"inc", "R7">> /\ After = <<"port_init1_loop", 4>>
  /\ pc = <<"port_init1_loop", 4>> => /\ Insn = <<"cjne", "R7", 5, "port_init1_loop">>
                                      /\ After = <<"port_init1_loop", 5>>
  /\ pc = <<"port_init1_loop", 5>> => Insn = <<"ret">>
<1>0. Code["port_init1"] = PortInitCode["port_init1"] /\ Code["port_init1_loop"] = PortInitCode["port_init1_loop"]
  BY PortProgramAssumption DEF PortInitCode
<1>1. /\ Code["port_init1"].code = << <<"movi", "R7", 0>> >> /\ Code["port_init1"].then = "port_init1_loop"
      /\ Code["port_init1_loop"].code = <<
           <<"call", "port_init_eee">>, <<"call", "port_init_phyocp">>,
           <<"inc", "R7">>, <<"cjne", "R7", 5, "port_init1_loop">>, <<"ret">> >>
  BY <1>0 DEF PortInitCode, Closed, Block
<1>2. pc = <<"port_init1", 1>> => Insn = <<"movi", "R7", 0>> /\ After = <<"port_init1_loop", 1>>
  BY <1>1 DEF Insn, After
<1>3. ASSUME NEW i \in 1..5, pc = <<"port_init1_loop", i>>
      PROVE /\ Insn = Code["port_init1_loop"].code[i]
            /\ i < 5 => After = <<"port_init1_loop", i + 1>>
  <2>1. pc[1] = "port_init1_loop" /\ pc[2] = i /\ Len(Code["port_init1_loop"].code) = 5
    BY <1>1, <1>3
  <2>. QED
    BY <2>1 DEF Insn, After
<1>. QED
  BY <1>1, <1>2, <1>3

-----------------------------------------------------------------------------
(* What holds at the points of the two routines for port p, when r0 are the   *)
(* registers before the call.                                               *)

EeeReg(p) == 24 + 32 * p
Mine(r0, p) == Holding(r0, EeeReg(p))
Version(r0) == Holding(r0, 4865)

(* The number of writes once k of port p are done. *)
Nth(r0, p, k) == PerPort(r0) * p + k

Progress(r0, p, i, r, l) ==
  /\ i \in 1..20 => Sane(r0, Nth(r0, p, 0), p, r, l)
  /\ i = 21 \/ i \in 101..109 => Sane(r0, Nth(r0, p, 1), p + 1, r, l)
  /\ i \in 110..113 => Sane(r0, Nth(r0, p, 2), p + 1, r, l)
  /\ i \in 114..127 => Sane(r0, Nth(r0, p, 3), p + 1, r, l)
  /\ i \in 128..137 => Sane(r0, Nth(r0, p, 4), p + 1, r, l)
  /\ i = 138 => Sane(r0, Nth(r0, p + 1, 0), p + 1, r, l)
  /\ i \in 119..137 => Supported(r0)

(* An access to w reaches the register a of port p behind the window, by a   *)
(* prefix that has just been set.                                           *)
Aim(p, a, r, l, w) ==
  /\ IsPhy(w) /\ (w % 256) \div 32 = p /\ OcpAddr(r, w) = a
  /\ l # <<>> /\ l[Len(l)] = <<7445, r[7445]>>

(* What survives the routines they call ... *)
Lasting(r0, p, i) ==
  /\ cell["R7"] = p
  /\ Progress(r0, p, i, dev.regs, dev.log)
  /\ i \in 2..20 => cell["DPH"] = 0
  /\ i \in 2..9 => cell["DPL"] = 24
  /\ i \in 10..20 => cell["DPL"] = EeeReg(p)
  /\ i = 4 => cell["B"] = 32
  /\ i \in 5..6 => cell["B"] = 0
  /\ i \in 7..8 => cell["B"] = 32 * p
  /\ i = 12 => cell["B"] = 0
  /\ i \in 15..18 => /\ dev.sfr["INDACC_RDATA_H"] = Hi(Mine(r0, p))
                     /\ dev.sfr["INDACC_RDATA_L"] = Lo(Mine(r0, p))
  /\ i \in 18..20 => dev.sfr["INDACC_WDATA_H"] = BitOr(Hi(Mine(r0, p)), 15)
  /\ i = 20 => dev.sfr["INDACC_WDATA_L"] = Lo(Mine(r0, p))
  /\ i = 102 => cell["DPH"] = Hi(42024) /\ cell["DPL"] = Lo(42024)
  /\ i \in 103..109 => Aim(p, 42024, dev.regs, dev.log, Pair(cell["DPH"], cell["DPL"]))
  /\ i \in (104..107) \cup (122..124) \cup (131..135) =>
       dev.sfr["INDACC_RDATA_H"] = Hi(Absent) /\ dev.sfr["INDACC_RDATA_L"] = Lo(Absent)
  /\ i \in 107..109 => dev.sfr["INDACC_WDATA_H"] = BitAnd(Hi(Absent), 253)
  /\ i \in {109, 137} => dev.sfr["INDACC_WDATA_L"] = Lo(Absent)
  /\ i \in 111..113 => cell["DPH"] = Hi(5058) /\ cell["DPL"] = Lo(5058)
  /\ i \in 112..113 => dev.sfr["INDACC_WDATA_H"] = 2
  /\ i = 113 => dev.sfr["INDACC_WDATA_L"] = 73
  /\ i = 115 => cell["DPH"] = Hi(4865) /\ cell["DPL"] = Lo(4865)
  /\ i = 116 => dev.sfr["INDACC_RDATA_L"] = Lo(Version(r0))
  /\ i = 120 => cell["DPH"] = Hi(42448) /\ cell["DPL"] = Lo(42448)
  /\ i \in 121..127 => Aim(p, 42448, dev.regs, dev.log, Pair(cell["DPH"], cell["DPL"]))
  /\ i \in 124..127 => dev.sfr["INDACC_WDATA_H"] = Hi(Absent)
  /\ i = 127 => dev.sfr["INDACC_WDATA_L"] = BitOr(Lo(Absent), 6)
  /\ i = 129 => cell["DPH"] = Hi(41984) /\ cell["DPL"] = Lo(41984)
  /\ i \in 130..137 => Aim(p, 41984, dev.regs, dev.log, Pair(cell["DPH"], cell["DPL"]))
  /\ i \in 135..137 => dev.sfr["INDACC_WDATA_H"] = BitOr(BitAnd(Hi(Absent), 247), 2)

(* ... and what is used before they are called. *)
Passing(r0, p, i) ==
  /\ i \in 3..4 => cell["A"] = p
  /\ i \in 5..6 => cell["A"] = 32 * p
  /\ i = 8 => cell["A"] = 24
  /\ i = 9 => cell["A"] = EeeReg(p)
  /\ i \in 9..12 => Carry(psw) = 0
  /\ i \in 11..13 => cell["A"] = 0
  /\ i = 16 => cell["A"] = Hi(Mine(r0, p))
  /\ i = 17 => cell["A"] = BitOr(Hi(Mine(r0, p)), 15)
  /\ i = 19 => cell["A"] = Lo(Mine(r0, p))
  /\ i \in {105, 123, 132} => cell["A"] = Hi(Absent)
  /\ i = 106 => cell["A"] = BitAnd(Hi(Absent), 253)
  /\ i \in {108, 125, 136} => cell["A"] = Lo(Absent)
  /\ i = 117 => cell["A"] = Lo(Version(r0))
  /\ i = 118 => cell["A"] = BitAnd(Lo(Version(r0)), 240)
  /\ i = 126 => cell["A"] = BitOr(Lo(Absent), 6)
  /\ i = 133 => cell["A"] = BitAnd(Hi(Absent), 247)
  /\ i = 134 => cell["A"] = BitOr(BitAnd(Hi(Absent), 247), 2)

(* A step that leaves the registers, the data of the port and all cells but A. *)
SamePort == /\ dev'.regs = dev.regs /\ dev'.log = dev.log
            /\ \A n \in DataFile : dev'.sfr[n] = dev.sfr[n]

LEMMA LastingStays ==
  ASSUME NEW r0, NEW p, NEW i, Lasting(r0, p, i), SameCells, SamePort
  PROVE Lasting(r0, p, i)'
<1>1. \A k \in {"B", "DPH", "DPL", "R7"} : (cell[k])' = cell[k]
  BY DEF SameCells, Used
<1>2. \A n \in {"INDACC_WDATA_H", "INDACC_WDATA_L", "INDACC_RDATA_H", "INDACC_RDATA_L"} : (dev.sfr[n])' = dev.sfr[n]
  BY DEF SamePort, DataFile
<1>3. (dev.regs)' = dev.regs /\ (dev.log)' = dev.log
  BY DEF SamePort
<1>. QED
  BY <1>1, <1>2, <1>3 DEF Lasting

(* Where the calls return to: the loop, or the point behind them. *)
Back(i) == IF i < 100 THEN << <<"port_init1_loop", 2>> >> ELSE << <<"port_init1_loop", 3>> >>
Stacked(i) == IF i \in 6..11 THEN Append(Back(i), 0) ELSE Back(i)

(* A step at point i, and what it must lead to. *)
Stands(r0, p, i) ==
  p \in 0..4 /\ i \in Points /\ Machine /\ Step /\ pc = Where(i) /\ Lasting(r0, p, i) /\ Passing(r0, p, i)
Walks(r0, p, i) ==
  Machine' /\ pc' = Where(i + 1) /\ UNCHANGED <<stack, rom>> /\ Lasting(r0, p, i + 1)' /\ Passing(r0, p, i + 1)'

LEMMA Stood ==
  ASSUME NEW r0, NEW p, NEW i, Stands(r0, p, i)
  PROVE /\ i \in Points /\ p \in 0..4 /\ Machine /\ Step /\ Lasting(r0, p, i) /\ Passing(r0, p, i)
        /\ i \in 1..21 => Insn = EeeList[i]
        /\ i \in 101..137 => Insn = OcpList[i - 100]
        /\ i \notin {21, 138} /\ Onwards => pc' = Where(i + 1) /\ UNCHANGED <<stack, rom>>
<1>1. i \in Points /\ p \in 0..4 /\ Machine /\ Step /\ Lasting(r0, p, i) /\ Passing(r0, p, i) /\ pc = Where(i)
  BY DEF Stands
<1>2. Insn = InsnAt(i) /\ (i \notin {21, 138} => After = Where(i + 1))
  BY <1>1, PointInsn
<1>3. /\ i \in 1..21 => InsnAt(i) = EeeList[i]
      /\ i \in 101..137 => InsnAt(i) = OcpList[i - 100]
  BY SMT DEF InsnAt
<1>. QED
  BY <1>1, <1>2, <1>3 DEF Onwards

LEMMA PortBytes ==
  ASSUME NEW p \in 0..4
  PROVE /\ p \in Byte /\ p + 1 \in Byte /\ 32 \in Byte /\ 24 \in Byte /\ 0 \in Byte
        /\ p * 32 = 32 * p /\ 32 * p \in Byte
        /\ (24 + 32 * p + 0) % 256 = EeeReg(p) /\ ~(24 + 32 * p + 0 > 255)
        /\ EeeReg(p) \in Byte /\ EeeReg(p) \in Word
  BY ByteRange, WordRange, SMT DEF EeeReg

LEMMA Constants ==
  /\ {24, 42024, 5058, 4865, 42448, 41984, 7445} \subseteq Word
  /\ {0, 2, 6, 15, 24, 32, 73, 160, 240, 247, 253} \subseteq Byte
  /\ Hi(24) = 0 /\ Lo(24) = 24
<1>1. \A w \in {24, 42024, 5058, 4865, 42448, 41984, 7445} : w \in Int /\ 0 <= w /\ w <= 65535
  BY SMT
<1>2. \A w \in {0, 2, 6, 15, 24, 32, 73, 160, 240, 247, 253} : w \in Int /\ 0 <= w /\ w <= 255
  BY SMT
<1>. QED
  BY <1>1, <1>2, WordRange, ByteRange, SMT DEF Hi, Lo

-----------------------------------------------------------------------------
(* The straight-line stretches of the two routines, point by point. *)

(* What putting a byte into a register of the port leaves.                    *)
LEMMA PortData ==
  ASSUME Machine, NEW n \in DataFile, NEW v, dev' = [dev EXCEPT !.sfr[n] = v]
  PROVE /\ dev'.regs = dev.regs /\ dev'.log = dev.log
        /\ \A m \in DataFile : dev'.sfr[m] = IF m = n THEN v ELSE dev.sfr[m]
<1>1. DataFile \subseteq IndaccFile
  BY DEF DataFile, IndaccFile
<1>. QED
  BY <1>1 DEF Machine, Switch

(* hello.s:306 to :317: the register of the port. *)
LEMMA EeeAddress ==
  ASSUME NEW r0, NEW p, NEW i \in {1, 2, 3, 4, 6, 7, 8, 9, 10, 12, 13}, Stands(r0, p, i)
  PROVE Walks(r0, p, i)
<1>0. /\ i \in Points /\ p \in 0..4 /\ Machine /\ Step /\ Lasting(r0, p, i) /\ Passing(r0, p, i)
      /\ i \in 1..21 => Insn = EeeList[i]
      /\ i \in 101..137 => Insn = OcpList[i - 100]
  BY Stood
<1>1. CASE i = 1
  <2>1. Insn = <<"mov_dptr", 24>>
    BY <1>1, <1>0 DEF EeeList
  <2>2. /\ Machine' /\ Onwards /\ UNCHANGED <<dev, psw>>
        /\ \A k \in Used : (cell[k])' = IF k = "DPH" THEN Hi(24) ELSE IF k = "DPL" THEN Lo(24) ELSE cell[k]
    BY <1>0, <2>1, Constants, LoadsDptr
  <2>3. Lasting(r0, p, i + 1)' /\ Passing(r0, p, i + 1)'
    BY <1>1, <1>0, <2>2, Constants DEF Lasting, Passing, Progress, Used
  <2>. QED
    BY <1>1, <1>0, <2>2, <2>3, Stood DEF Walks
<1>2. CASE i = 2
  <2>1. Insn = <<"movx", "A", "R7">>
    BY <1>2, <1>0 DEF EeeList
  <2>2. Gives("A", cell["R7"]) /\ psw' = psw
    BY <1>0, <2>1, Copies DEF Gives, Used
  <2>3. Lasting(r0, p, i + 1)' /\ Passing(r0, p, i + 1)'
    BY <1>2, <1>0, <2>2 DEF Lasting, Passing, Progress, Gives, Used
  <2>. QED
    BY <1>2, <1>0, <2>2, <2>3, Stood DEF Walks, Gives
<1>3. CASE i = 3
  <2>1. Insn = <<"movi", "B", 32>>
    BY <1>3, <1>0 DEF EeeList
  <2>2. Gives("B", 32) /\ psw' = psw
    BY <1>0, <2>1, Constants, Loads DEF Gives, Used
  <2>3. Lasting(r0, p, i + 1)' /\ Passing(r0, p, i + 1)'
    BY <1>3, <1>0, <2>2 DEF Lasting, Passing, Progress, Gives, Used
  <2>. QED
    BY <1>3, <1>0, <2>2, <2>3, Stood DEF Walks, Gives
<1>4. CASE i = 4
  <2>1. Insn = <<"mul">>
    BY <1>4, <1>0 DEF EeeList
  <2>2a. A = p /\ cell["B"] = 32 /\ A * cell["B"] = 32 * p
    BY <1>4, <1>0, PortBytes DEF Lasting, Passing, A
  <2>2. /\ Machine' /\ Onwards /\ UNCHANGED dev
        /\ \A k \in Used : (cell[k])' = IF k = "A" THEN 32 * p ELSE IF k = "B" THEN 0 ELSE cell[k]
    BY <1>0, <2>1, <2>2a, PortBytes, Multiplies
  <2>3. Lasting(r0, p, i + 1)' /\ Passing(r0, p, i + 1)'
    BY <1>4, <1>0, <2>2 DEF Lasting, Passing, Progress, Used
  <2>. QED
    BY <1>4, <1>0, <2>2, <2>3, Stood DEF Walks
<1>6. CASE i = 6
  <2>1. Insn = <<"movx", "B", "A">>
    BY <1>6, <1>0 DEF EeeList
  <2>2. Gives("B", cell["A"]) /\ psw' = psw
    BY <1>0, <2>1, Copies DEF Gives, Used
  <2>3. Lasting(r0, p, i + 1)' /\ Passing(r0, p, i + 1)'
    BY <1>6, <1>0, <2>2 DEF Lasting, Passing, Progress, Gives, Used
  <2>. QED
    BY <1>6, <1>0, <2>2, <2>3, Stood DEF Walks, Gives
<1>7. CASE i = 7
  <2>1. Insn = <<"movx", "A", "DPL">>
    BY <1>7, <1>0 DEF EeeList
  <2>2. Gives("A", cell["DPL"]) /\ psw' = psw
    BY <1>0, <2>1, Copies DEF Gives, Used
  <2>3. Lasting(r0, p, i + 1)' /\ Passing(r0, p, i + 1)'
    BY <1>7, <1>0, <2>2 DEF Lasting, Passing, Progress, Gives, Used
  <2>. QED
    BY <1>7, <1>0, <2>2, <2>3, Stood DEF Walks, Gives
<1>8. CASE i = 8
  <2>1. Insn = <<"addx", "B">>
    BY <1>8, <1>0 DEF EeeList
  <2>2a. Gives("A", (cell["A"] + cell["B"] + 0) % 256) /\ Carry(psw') = IF cell["A"] + cell["B"] + 0 > 255 THEN 1 ELSE 0
    BY <1>0, <2>1, Adds, Plain, ByteRange DEF Gives, A, Used, Carry
  <2>2b. cell["A"] = 24 /\ cell["B"] = 32 * p
    BY <1>8, <1>0 DEF Lasting, Passing
  <2>2. Gives("A", EeeReg(p)) /\ Carry(psw') = 0
    BY <1>0, <2>2a, <2>2b, PortBytes DEF Gives
  <2>3. Lasting(r0, p, i + 1)' /\ Passing(r0, p, i + 1)'
    BY <1>8, <1>0, <2>2 DEF Lasting, Passing, Progress, Gives, Used
  <2>. QED
    BY <1>8, <1>0, <2>2, <2>3, Stood DEF Walks, Gives
<1>9. CASE i = 9
  <2>1. Insn = <<"movx", "DPL", "A">>
    BY <1>9, <1>0 DEF EeeList
  <2>2. Gives("DPL", cell["A"]) /\ psw' = psw
    BY <1>0, <2>1, Copies DEF Gives, Used
  <2>3. Lasting(r0, p, i + 1)' /\ Passing(r0, p, i + 1)'
    BY <1>9, <1>0, <2>2 DEF Lasting, Passing, Progress, Gives, Used
  <2>. QED
    BY <1>9, <1>0, <2>2, <2>3, Stood DEF Walks, Gives
<1>10. CASE i = 10
  <2>1. Insn = <<"movx", "A", "DPH">>
    BY <1>10, <1>0 DEF EeeList
  <2>2. Gives("A", cell["DPH"]) /\ psw' = psw
    BY <1>0, <2>1, Copies DEF Gives, Used
  <2>3. Lasting(r0, p, i + 1)' /\ Passing(r0, p, i + 1)'
    BY <1>10, <1>0, <2>2 DEF Lasting, Passing, Progress, Gives, Used
  <2>. QED
    BY <1>10, <1>0, <2>2, <2>3, Stood DEF Walks, Gives
<1>12. CASE i = 12
  <2>1. Insn = <<"addcx", "B">>
    BY <1>12, <1>0 DEF EeeList
  <2>2a. Gives("A", (cell["A"] + cell["B"] + Carry(psw)) % 256)
    BY <1>0, <2>1, Adds, Plain, ByteRange DEF Gives, A, Used, Carry
  <2>2b. cell["A"] = 0 /\ cell["B"] = 0 /\ Carry(psw) = 0
    BY <1>12, <1>0 DEF Lasting, Passing
  <2>2c. (cell["A"] + cell["B"] + Carry(psw)) % 256 = 0
    BY <2>2b, SMT
  <2>2. Gives("A", 0)
    BY <2>2a, <2>2c DEF Gives
  <2>3. Lasting(r0, p, i + 1)' /\ Passing(r0, p, i + 1)'
    BY <1>12, <1>0, <2>2 DEF Lasting, Passing, Progress, Gives, Used
  <2>. QED
    BY <1>12, <1>0, <2>2, <2>3, Stood DEF Walks, Gives
<1>13. CASE i = 13
  <2>1. Insn = <<"movx", "DPH", "A">>
    BY <1>13, <1>0 DEF EeeList
  <2>2. Gives("DPH", cell["A"]) /\ psw' = psw
    BY <1>0, <2>1, Copies DEF Gives, Used
  <2>3. Lasting(r0, p, i + 1)' /\ Passing(r0, p, i + 1)'
    BY <1>13, <1>0, <2>2 DEF Lasting, Passing, Progress, Gives, Used
  <2>. QED
    BY <1>13, <1>0, <2>2, <2>3, Stood DEF Walks, Gives
<1>. QED
  BY <1>1, <1>2, <1>3, <1>4, <1>6, <1>7, <1>8, <1>9, <1>10, <1>12, <1>13

(* hello.s:319: its four upper bits are set. *)
LEMMA EeeChange ==
  ASSUME NEW r0, NEW p, NEW i \in 15..19, Stands(r0, p, i)
  PROVE Walks(r0, p, i)
<1>0. /\ i \in Points /\ p \in 0..4 /\ Machine /\ Step /\ Lasting(r0, p, i) /\ Passing(r0, p, i)
      /\ i \in 1..21 => Insn = EeeList[i]
      /\ i \in 101..137 => Insn = OcpList[i - 100]
  BY Stood
<1>15. CASE i = 15
  <2>1. Insn = <<"movx", "A", "INDACC_RDATA_H">>
    BY <1>15, <1>0 DEF EeeList
  <2>2. Gives("A", dev.sfr["INDACC_RDATA_H"]) /\ psw' = psw
    BY <1>0, <2>1, FromPort DEF Gives, Used, IndaccFile
  <2>3. Lasting(r0, p, i + 1)' /\ Passing(r0, p, i + 1)'
    BY <1>15, <1>0, <2>2 DEF Lasting, Passing, Progress, Gives, Used
  <2>. QED
    BY <1>15, <1>0, <2>2, <2>3, Stood DEF Walks, Gives
<1>16. CASE i = 16
  <2>1. Insn = <<"orli", 15>>
    BY <1>16, <1>0 DEF EeeList
  <2>2. Gives("A", BitOr(cell["A"], 15)) /\ psw' = psw
    BY <1>0, <2>1, Constants, OrsByte DEF Gives, A
  <2>3. Lasting(r0, p, i + 1)' /\ Passing(r0, p, i + 1)'
    BY <1>16, <1>0, <2>2 DEF Lasting, Passing, Progress, Gives, Used
  <2>. QED
    BY <1>16, <1>0, <2>2, <2>3, Stood DEF Walks, Gives
<1>17. CASE i = 17
  <2>1. Insn = <<"movx", "INDACC_WDATA_H", "A">>
    BY <1>17, <1>0 DEF EeeList
  <2>2. /\ Machine' /\ Onwards /\ UNCHANGED <<cell, psw>>
        /\ dev'.regs = dev.regs /\ dev'.log = dev.log
        /\ \A m \in DataFile : dev'.sfr[m] = IF m = "INDACC_WDATA_H" THEN cell["A"] ELSE dev.sfr[m]
    BY <1>0, <2>1, ToPort, PortData DEF Used, IndaccFile, DataFile
  <2>3. Lasting(r0, p, i + 1)' /\ Passing(r0, p, i + 1)'
    BY <1>17, <1>0, <2>2 DEF Lasting, Passing, Progress, DataFile
  <2>. QED
    BY <1>17, <1>0, <2>2, <2>3, Stood DEF Walks
<1>18. CASE i = 18
  <2>1. Insn = <<"movx", "A", "INDACC_RDATA_L">>
    BY <1>18, <1>0 DEF EeeList
  <2>2. Gives("A", dev.sfr["INDACC_RDATA_L"]) /\ psw' = psw
    BY <1>0, <2>1, FromPort DEF Gives, Used, IndaccFile
  <2>3. Lasting(r0, p, i + 1)' /\ Passing(r0, p, i + 1)'
    BY <1>18, <1>0, <2>2 DEF Lasting, Passing, Progress, Gives, Used
  <2>. QED
    BY <1>18, <1>0, <2>2, <2>3, Stood DEF Walks, Gives
<1>19. CASE i = 19
  <2>1. Insn = <<"movx", "INDACC_WDATA_L", "A">>
    BY <1>19, <1>0 DEF EeeList
  <2>2. /\ Machine' /\ Onwards /\ UNCHANGED <<cell, psw>>
        /\ dev'.regs = dev.regs /\ dev'.log = dev.log
        /\ \A m \in DataFile : dev'.sfr[m] = IF m = "INDACC_WDATA_L" THEN cell["A"] ELSE dev.sfr[m]
    BY <1>0, <2>1, ToPort, PortData DEF Used, IndaccFile, DataFile
  <2>3. Lasting(r0, p, i + 1)' /\ Passing(r0, p, i + 1)'
    BY <1>19, <1>0, <2>2 DEF Lasting, Passing, Progress, DataFile
  <2>. QED
    BY <1>19, <1>0, <2>2, <2>3, Stood DEF Walks
<1>. QED
  BY <1>15, <1>16, <1>17, <1>18, <1>19

(* hello.s:393 to :405: the first PHY register of the port, and the magic number. *)
LEMMA OcpFirst ==
  ASSUME NEW r0, NEW p, NEW i \in {101, 104, 105, 106, 107, 108, 110, 111, 112}, Stands(r0, p, i)
  PROVE Walks(r0, p, i)
<1>0. /\ i \in Points /\ p \in 0..4 /\ Machine /\ Step /\ Lasting(r0, p, i) /\ Passing(r0, p, i)
      /\ i \in 1..21 => Insn = EeeList[i]
      /\ i \in 101..137 => Insn = OcpList[i - 100]
  BY Stood
<1>101. CASE i = 101
  <2>1. Insn = <<"mov_dptr", 42024>>
    <3>1. i - 100 = 1
      BY <1>101, SMT
    <3>. QED
      BY <1>101, <1>0, <3>1 DEF OcpList
  <2>2. /\ Machine' /\ Onwards /\ UNCHANGED <<dev, psw>>
        /\ \A k \in Used : (cell[k])' = IF k = "DPH" THEN Hi(42024) ELSE IF k = "DPL" THEN Lo(42024) ELSE cell[k]
    BY <1>0, <2>1, Constants, LoadsDptr
  <2>3. Lasting(r0, p, i + 1)' /\ Passing(r0, p, i + 1)'
    BY <1>101, <1>0, <2>2 DEF Lasting, Passing, Progress, Used
  <2>. QED
    BY <1>101, <1>0, <2>2, <2>3, Stood DEF Walks
<1>104. CASE i = 104
  <2>1. Insn = <<"movx", "A", "INDACC_RDATA_H">>
    <3>1. i - 100 = 4
      BY <1>104, SMT
    <3>. QED
      BY <1>104, <1>0, <3>1 DEF OcpList
  <2>2. Gives("A", dev.sfr["INDACC_RDATA_H"]) /\ psw' = psw
    BY <1>0, <2>1, FromPort DEF Gives, Used, IndaccFile
  <2>3. Lasting(r0, p, i + 1)' /\ Passing(r0, p, i + 1)'
    BY <1>104, <1>0, <2>2 DEF Lasting, Passing, Progress, Gives, Used
  <2>. QED
    BY <1>104, <1>0, <2>2, <2>3, Stood DEF Walks, Gives
<1>105. CASE i = 105
  <2>1. Insn = <<"anli", 253>>
    <3>1. i - 100 = 5
      BY <1>105, SMT
    <3>. QED
      BY <1>105, <1>0, <3>1 DEF OcpList
  <2>2. Gives("A", BitAnd(cell["A"], 253)) /\ psw' = psw
    BY <1>0, <2>1, Constants, Masks DEF Gives, A
  <2>3. Lasting(r0, p, i + 1)' /\ Passing(r0, p, i + 1)'
    BY <1>105, <1>0, <2>2 DEF Lasting, Passing, Progress, Gives, Used
  <2>. QED
    BY <1>105, <1>0, <2>2, <2>3, Stood DEF Walks, Gives
<1>106. CASE i = 106
  <2>1. Insn = <<"movx", "INDACC_WDATA_H", "A">>
    <3>1. i - 100 = 6
      BY <1>106, SMT
    <3>. QED
      BY <1>106, <1>0, <3>1 DEF OcpList
  <2>2. /\ Machine' /\ Onwards /\ UNCHANGED <<cell, psw>>
        /\ dev'.regs = dev.regs /\ dev'.log = dev.log
        /\ \A m \in DataFile : dev'.sfr[m] = IF m = "INDACC_WDATA_H" THEN cell["A"] ELSE dev.sfr[m]
    BY <1>0, <2>1, ToPort, PortData DEF Used, IndaccFile, DataFile
  <2>3. Lasting(r0, p, i + 1)' /\ Passing(r0, p, i + 1)'
    BY <1>106, <1>0, <2>2 DEF Lasting, Passing, Progress, DataFile
  <2>. QED
    BY <1>106, <1>0, <2>2, <2>3, Stood DEF Walks
<1>107. CASE i = 107
  <2>1. Insn = <<"movx", "A", "INDACC_RDATA_L">>
    <3>1. i - 100 = 7
      BY <1>107, SMT
    <3>. QED
      BY <1>107, <1>0, <3>1 DEF OcpList
  <2>2. Gives("A", dev.sfr["INDACC_RDATA_L"]) /\ psw' = psw
    BY <1>0, <2>1, FromPort DEF Gives, Used, IndaccFile
  <2>3. Lasting(r0, p, i + 1)' /\ Passing(r0, p, i + 1)'
    BY <1>107, <1>0, <2>2 DEF Lasting, Passing, Progress, Gives, Used
  <2>. QED
    BY <1>107, <1>0, <2>2, <2>3, Stood DEF Walks, Gives
<1>108. CASE i = 108
  <2>1. Insn = <<"movx", "INDACC_WDATA_L", "A">>
    <3>1. i - 100 = 8
      BY <1>108, SMT
    <3>. QED
      BY <1>108, <1>0, <3>1 DEF OcpList
  <2>2. /\ Machine' /\ Onwards /\ UNCHANGED <<cell, psw>>
        /\ dev'.regs = dev.regs /\ dev'.log = dev.log
        /\ \A m \in DataFile : dev'.sfr[m] = IF m = "INDACC_WDATA_L" THEN cell["A"] ELSE dev.sfr[m]
    BY <1>0, <2>1, ToPort, PortData DEF Used, IndaccFile, DataFile
  <2>3. Lasting(r0, p, i + 1)' /\ Passing(r0, p, i + 1)'
    BY <1>108, <1>0, <2>2 DEF Lasting, Passing, Progress, DataFile
  <2>. QED
    BY <1>108, <1>0, <2>2, <2>3, Stood DEF Walks
<1>110. CASE i = 110
  <2>1. Insn = <<"mov_dptr", 5058>>
    <3>1. i - 100 = 10
      BY <1>110, SMT
    <3>. QED
      BY <1>110, <1>0, <3>1 DEF OcpList
  <2>2. /\ Machine' /\ Onwards /\ UNCHANGED <<dev, psw>>
        /\ \A k \in Used : (cell[k])' = IF k = "DPH" THEN Hi(5058) ELSE IF k = "DPL" THEN Lo(5058) ELSE cell[k]
    BY <1>0, <2>1, Constants, LoadsDptr
  <2>3. Lasting(r0, p, i + 1)' /\ Passing(r0, p, i + 1)'
    BY <1>110, <1>0, <2>2 DEF Lasting, Passing, Progress, Used
  <2>. QED
    BY <1>110, <1>0, <2>2, <2>3, Stood DEF Walks
<1>111. CASE i = 111
  <2>1. Insn = <<"movi", "INDACC_WDATA_H", 2>>
    <3>1. i - 100 = 11
      BY <1>111, SMT
    <3>. QED
      BY <1>111, <1>0, <3>1 DEF OcpList
  <2>2. /\ Machine' /\ Onwards /\ UNCHANGED <<cell, psw>>
        /\ dev'.regs = dev.regs /\ dev'.log = dev.log
        /\ \A m \in DataFile : dev'.sfr[m] = IF m = "INDACC_WDATA_H" THEN 2 ELSE dev.sfr[m]
    BY <1>0, <2>1, Constants, PutsByte, PortData DEF IndaccFile, DataFile
  <2>3. Lasting(r0, p, i + 1)' /\ Passing(r0, p, i + 1)'
    BY <1>111, <1>0, <2>2 DEF Lasting, Passing, Progress, DataFile
  <2>. QED
    BY <1>111, <1>0, <2>2, <2>3, Stood DEF Walks
<1>112. CASE i = 112
  <2>1. Insn = <<"movi", "INDACC_WDATA_L", 73>>
    <3>1. i - 100 = 12
      BY <1>112, SMT
    <3>. QED
      BY <1>112, <1>0, <3>1 DEF OcpList
  <2>2. /\ Machine' /\ Onwards /\ UNCHANGED <<cell, psw>>
        /\ dev'.regs = dev.regs /\ dev'.log = dev.log
        /\ \A m \in DataFile : dev'.sfr[m] = IF m = "INDACC_WDATA_L" THEN 73 ELSE dev.sfr[m]
    BY <1>0, <2>1, Constants, PutsByte, PortData DEF IndaccFile, DataFile
  <2>3. Lasting(r0, p, i + 1)' /\ Passing(r0, p, i + 1)'
    BY <1>112, <1>0, <2>2 DEF Lasting, Passing, Progress, DataFile
  <2>. QED
    BY <1>112, <1>0, <2>2, <2>3, Stood DEF Walks
<1>. QED
  BY <1>101, <1>104, <1>105, <1>106, <1>107, <1>108, <1>110, <1>111, <1>112

(* hello.s:408 to :423: the version of the chip, and the second PHY register. *)
LEMMA OcpVersion ==
  ASSUME NEW r0, NEW p, NEW i \in {114, 116, 117, 119, 122, 123, 124, 125, 126}, Stands(r0, p, i)
  PROVE Walks(r0, p, i)
<1>0. /\ i \in Points /\ p \in 0..4 /\ Machine /\ Step /\ Lasting(r0, p, i) /\ Passing(r0, p, i)
      /\ i \in 1..21 => Insn = EeeList[i]
      /\ i \in 101..137 => Insn = OcpList[i - 100]
  BY Stood
<1>114. CASE i = 114
  <2>1. Insn = <<"mov_dptr", 4865>>
    <3>1. i - 100 = 14
      BY <1>114, SMT
    <3>. QED
      BY <1>114, <1>0, <3>1 DEF OcpList
  <2>2. /\ Machine' /\ Onwards /\ UNCHANGED <<dev, psw>>
        /\ \A k \in Used : (cell[k])' = IF k = "DPH" THEN Hi(4865) ELSE IF k = "DPL" THEN Lo(4865) ELSE cell[k]
    BY <1>0, <2>1, Constants, LoadsDptr
  <2>3. Lasting(r0, p, i + 1)' /\ Passing(r0, p, i + 1)'
    BY <1>114, <1>0, <2>2 DEF Lasting, Passing, Progress, Used
  <2>. QED
    BY <1>114, <1>0, <2>2, <2>3, Stood DEF Walks
<1>116. CASE i = 116
  <2>1. Insn = <<"movx", "A", "INDACC_RDATA_L">>
    <3>1. i - 100 = 16
      BY <1>116, SMT
    <3>. QED
      BY <1>116, <1>0, <3>1 DEF OcpList
  <2>2. Gives("A", dev.sfr["INDACC_RDATA_L"]) /\ psw' = psw
    BY <1>0, <2>1, FromPort DEF Gives, Used, IndaccFile
  <2>3. Lasting(r0, p, i + 1)' /\ Passing(r0, p, i + 1)'
    BY <1>116, <1>0, <2>2 DEF Lasting, Passing, Progress, Gives, Used
  <2>. QED
    BY <1>116, <1>0, <2>2, <2>3, Stood DEF Walks, Gives
<1>117. CASE i = 117
  <2>1. Insn = <<"anli", 240>>
    <3>1. i - 100 = 17
      BY <1>117, SMT
    <3>. QED
      BY <1>117, <1>0, <3>1 DEF OcpList
  <2>2. Gives("A", BitAnd(cell["A"], 240)) /\ psw' = psw
    BY <1>0, <2>1, Constants, Masks DEF Gives, A
  <2>3. Lasting(r0, p, i + 1)' /\ Passing(r0, p, i + 1)'
    BY <1>117, <1>0, <2>2 DEF Lasting, Passing, Progress, Gives, Used
  <2>. QED
    BY <1>117, <1>0, <2>2, <2>3, Stood DEF Walks, Gives
<1>119. CASE i = 119
  <2>1. Insn = <<"mov_dptr", 42448>>
    <3>1. i - 100 = 19
      BY <1>119, SMT
    <3>. QED
      BY <1>119, <1>0, <3>1 DEF OcpList
  <2>2. /\ Machine' /\ Onwards /\ UNCHANGED <<dev, psw>>
        /\ \A k \in Used : (cell[k])' = IF k = "DPH" THEN Hi(42448) ELSE IF k = "DPL" THEN Lo(42448) ELSE cell[k]
    BY <1>0, <2>1, Constants, LoadsDptr
  <2>3. Lasting(r0, p, i + 1)' /\ Passing(r0, p, i + 1)'
    BY <1>119, <1>0, <2>2 DEF Lasting, Passing, Progress, Used
  <2>. QED
    BY <1>119, <1>0, <2>2, <2>3, Stood DEF Walks
<1>122. CASE i = 122
  <2>1. Insn = <<"movx", "A", "INDACC_RDATA_H">>
    <3>1. i - 100 = 22
      BY <1>122, SMT
    <3>. QED
      BY <1>122, <1>0, <3>1 DEF OcpList
  <2>2. Gives("A", dev.sfr["INDACC_RDATA_H"]) /\ psw' = psw
    BY <1>0, <2>1, FromPort DEF Gives, Used, IndaccFile
  <2>3. Lasting(r0, p, i + 1)' /\ Passing(r0, p, i + 1)'
    BY <1>122, <1>0, <2>2 DEF Lasting, Passing, Progress, Gives, Used
  <2>. QED
    BY <1>122, <1>0, <2>2, <2>3, Stood DEF Walks, Gives
<1>123. CASE i = 123
  <2>1. Insn = <<"movx", "INDACC_WDATA_H", "A">>
    <3>1. i - 100 = 23
      BY <1>123, SMT
    <3>. QED
      BY <1>123, <1>0, <3>1 DEF OcpList
  <2>2. /\ Machine' /\ Onwards /\ UNCHANGED <<cell, psw>>
        /\ dev'.regs = dev.regs /\ dev'.log = dev.log
        /\ \A m \in DataFile : dev'.sfr[m] = IF m = "INDACC_WDATA_H" THEN cell["A"] ELSE dev.sfr[m]
    BY <1>0, <2>1, ToPort, PortData DEF Used, IndaccFile, DataFile
  <2>3. Lasting(r0, p, i + 1)' /\ Passing(r0, p, i + 1)'
    BY <1>123, <1>0, <2>2 DEF Lasting, Passing, Progress, DataFile
  <2>. QED
    BY <1>123, <1>0, <2>2, <2>3, Stood DEF Walks
<1>124. CASE i = 124
  <2>1. Insn = <<"movx", "A", "INDACC_RDATA_L">>
    <3>1. i - 100 = 24
      BY <1>124, SMT
    <3>. QED
      BY <1>124, <1>0, <3>1 DEF OcpList
  <2>2. Gives("A", dev.sfr["INDACC_RDATA_L"]) /\ psw' = psw
    BY <1>0, <2>1, FromPort DEF Gives, Used, IndaccFile
  <2>3. Lasting(r0, p, i + 1)' /\ Passing(r0, p, i + 1)'
    BY <1>124, <1>0, <2>2 DEF Lasting, Passing, Progress, Gives, Used
  <2>. QED
    BY <1>124, <1>0, <2>2, <2>3, Stood DEF Walks, Gives
<1>125. CASE i = 125
  <2>1. Insn = <<"orli", 6>>
    <3>1. i - 100 = 25
      BY <1>125, SMT
    <3>. QED
      BY <1>125, <1>0, <3>1 DEF OcpList
  <2>2. Gives("A", BitOr(cell["A"], 6)) /\ psw' = psw
    BY <1>0, <2>1, Constants, OrsByte DEF Gives, A
  <2>3. Lasting(r0, p, i + 1)' /\ Passing(r0, p, i + 1)'
    BY <1>125, <1>0, <2>2 DEF Lasting, Passing, Progress, Gives, Used
  <2>. QED
    BY <1>125, <1>0, <2>2, <2>3, Stood DEF Walks, Gives
<1>126. CASE i = 126
  <2>1. Insn = <<"movx", "INDACC_WDATA_L", "A">>
    <3>1. i - 100 = 26
      BY <1>126, SMT
    <3>. QED
      BY <1>126, <1>0, <3>1 DEF OcpList
  <2>2. /\ Machine' /\ Onwards /\ UNCHANGED <<cell, psw>>
        /\ dev'.regs = dev.regs /\ dev'.log = dev.log
        /\ \A m \in DataFile : dev'.sfr[m] = IF m = "INDACC_WDATA_L" THEN cell["A"] ELSE dev.sfr[m]
    BY <1>0, <2>1, ToPort, PortData DEF Used, IndaccFile, DataFile
  <2>3. Lasting(r0, p, i + 1)' /\ Passing(r0, p, i + 1)'
    BY <1>126, <1>0, <2>2 DEF Lasting, Passing, Progress, DataFile
  <2>. QED
    BY <1>126, <1>0, <2>2, <2>3, Stood DEF Walks
<1>. QED
  BY <1>114, <1>116, <1>117, <1>119, <1>122, <1>123, <1>124, <1>125, <1>126

(* hello.s:426: the third PHY register. *)
LEMMA OcpLast ==
  ASSUME NEW r0, NEW p, NEW i \in {128, 131, 132, 133, 134, 135, 136}, Stands(r0, p, i)
  PROVE Walks(r0, p, i)
<1>0. /\ i \in Points /\ p \in 0..4 /\ Machine /\ Step /\ Lasting(r0, p, i) /\ Passing(r0, p, i)
      /\ i \in 1..21 => Insn = EeeList[i]
      /\ i \in 101..137 => Insn = OcpList[i - 100]
  BY Stood
<1>128. CASE i = 128
  <2>1. Insn = <<"mov_dptr", 41984>>
    <3>1. i - 100 = 28
      BY <1>128, SMT
    <3>. QED
      BY <1>128, <1>0, <3>1 DEF OcpList
  <2>2. /\ Machine' /\ Onwards /\ UNCHANGED <<dev, psw>>
        /\ \A k \in Used : (cell[k])' = IF k = "DPH" THEN Hi(41984) ELSE IF k = "DPL" THEN Lo(41984) ELSE cell[k]
    BY <1>0, <2>1, Constants, LoadsDptr
  <2>3. Lasting(r0, p, i + 1)' /\ Passing(r0, p, i + 1)'
    BY <1>128, <1>0, <2>2 DEF Lasting, Passing, Progress, Used
  <2>. QED
    BY <1>128, <1>0, <2>2, <2>3, Stood DEF Walks
<1>131. CASE i = 131
  <2>1. Insn = <<"movx", "A", "INDACC_RDATA_H">>
    <3>1. i - 100 = 31
      BY <1>131, SMT
    <3>. QED
      BY <1>131, <1>0, <3>1 DEF OcpList
  <2>2. Gives("A", dev.sfr["INDACC_RDATA_H"]) /\ psw' = psw
    BY <1>0, <2>1, FromPort DEF Gives, Used, IndaccFile
  <2>3. Lasting(r0, p, i + 1)' /\ Passing(r0, p, i + 1)'
    BY <1>131, <1>0, <2>2 DEF Lasting, Passing, Progress, Gives, Used
  <2>. QED
    BY <1>131, <1>0, <2>2, <2>3, Stood DEF Walks, Gives
<1>132. CASE i = 132
  <2>1. Insn = <<"anli", 247>>
    <3>1. i - 100 = 32
      BY <1>132, SMT
    <3>. QED
      BY <1>132, <1>0, <3>1 DEF OcpList
  <2>2. Gives("A", BitAnd(cell["A"], 247)) /\ psw' = psw
    BY <1>0, <2>1, Constants, Masks DEF Gives, A
  <2>3. Lasting(r0, p, i + 1)' /\ Passing(r0, p, i + 1)'
    BY <1>132, <1>0, <2>2 DEF Lasting, Passing, Progress, Gives, Used
  <2>. QED
    BY <1>132, <1>0, <2>2, <2>3, Stood DEF Walks, Gives
<1>133. CASE i = 133
  <2>1. Insn = <<"orli", 2>>
    <3>1. i - 100 = 33
      BY <1>133, SMT
    <3>. QED
      BY <1>133, <1>0, <3>1 DEF OcpList
  <2>2. Gives("A", BitOr(cell["A"], 2)) /\ psw' = psw
    BY <1>0, <2>1, Constants, OrsByte DEF Gives, A
  <2>3. Lasting(r0, p, i + 1)' /\ Passing(r0, p, i + 1)'
    BY <1>133, <1>0, <2>2 DEF Lasting, Passing, Progress, Gives, Used
  <2>. QED
    BY <1>133, <1>0, <2>2, <2>3, Stood DEF Walks, Gives
<1>134. CASE i = 134
  <2>1. Insn = <<"movx", "INDACC_WDATA_H", "A">>
    <3>1. i - 100 = 34
      BY <1>134, SMT
    <3>. QED
      BY <1>134, <1>0, <3>1 DEF OcpList
  <2>2. /\ Machine' /\ Onwards /\ UNCHANGED <<cell, psw>>
        /\ dev'.regs = dev.regs /\ dev'.log = dev.log
        /\ \A m \in DataFile : dev'.sfr[m] = IF m = "INDACC_WDATA_H" THEN cell["A"] ELSE dev.sfr[m]
    BY <1>0, <2>1, ToPort, PortData DEF Used, IndaccFile, DataFile
  <2>3. Lasting(r0, p, i + 1)' /\ Passing(r0, p, i + 1)'
    BY <1>134, <1>0, <2>2 DEF Lasting, Passing, Progress, DataFile
  <2>. QED
    BY <1>134, <1>0, <2>2, <2>3, Stood DEF Walks
<1>135. CASE i = 135
  <2>1. Insn = <<"movx", "A", "INDACC_RDATA_L">>
    <3>1. i - 100 = 35
      BY <1>135, SMT
    <3>. QED
      BY <1>135, <1>0, <3>1 DEF OcpList
  <2>2. Gives("A", dev.sfr["INDACC_RDATA_L"]) /\ psw' = psw
    BY <1>0, <2>1, FromPort DEF Gives, Used, IndaccFile
  <2>3. Lasting(r0, p, i + 1)' /\ Passing(r0, p, i + 1)'
    BY <1>135, <1>0, <2>2 DEF Lasting, Passing, Progress, Gives, Used
  <2>. QED
    BY <1>135, <1>0, <2>2, <2>3, Stood DEF Walks, Gives
<1>136. CASE i = 136
  <2>1. Insn = <<"movx", "INDACC_WDATA_L", "A">>
    <3>1. i - 100 = 36
      BY <1>136, SMT
    <3>. QED
      BY <1>136, <1>0, <3>1 DEF OcpList
  <2>2. /\ Machine' /\ Onwards /\ UNCHANGED <<cell, psw>>
        /\ dev'.regs = dev.regs /\ dev'.log = dev.log
        /\ \A m \in DataFile : dev'.sfr[m] = IF m = "INDACC_WDATA_L" THEN cell["A"] ELSE dev.sfr[m]
    BY <1>0, <2>1, ToPort, PortData DEF Used, IndaccFile, DataFile
  <2>3. Lasting(r0, p, i + 1)' /\ Passing(r0, p, i + 1)'
    BY <1>136, <1>0, <2>2 DEF Lasting, Passing, Progress, DataFile
  <2>. QED
    BY <1>136, <1>0, <2>2, <2>3, Stood DEF Walks
<1>. QED
  BY <1>128, <1>131, <1>132, <1>133, <1>134, <1>135, <1>136

-----------------------------------------------------------------------------
(* Numbers *)

LEMMA FullMasks ==
  ASSUME NEW x \in Byte
  PROVE /\ BitOr(x, 0) = x /\ BitAnd(x, 255) = x
        /\ BitAnd(x, 240) = 160 <=> x \div 16 = 10
<1>. DEFINE b(y, p) == IF (x \div p) % 2 = 1 /\ (y \div p) % 2 = 1 THEN p ELSE 0
            d(p) == IF (x \div p) % 2 = 1 THEN p ELSE 0
<1>1. \A y : BitAnd(x, y) = b(y, 1) + b(y, 2) + b(y, 4) + b(y, 8) + b(y, 16) + b(y, 32) + b(y, 64) + b(y, 128)
  BY AndOfBytes DEF b
<1>2. BitAnd(x, 0) = 0
  BY <1>1, SMT
<1>3. BitAnd(x, 255) = d(1) + d(2) + d(4) + d(8) + d(16) + d(32) + d(64) + d(128)
  BY <1>1, SMT
<1>4. BitAnd(x, 240) = 0 + 0 + 0 + 0 + d(16) + d(32) + d(64) + d(128)
  BY <1>1, SMT
<1>5. BitAnd(x, 255) = x
  BY <1>3, SMTT(60) DEF Byte
<1>6. BitAnd(x, 240) = 16 * (x \div 16)
  BY <1>4, SMTT(60) DEF Byte
<1>7. 16 * (x \div 16) = 160 <=> x \div 16 = 10
  BY SMT DEF Byte
<1>8. BitOr(x, 0) = x
  BY <1>2, ByteRange, SMT DEF BitOr
<1>. QED
  BY <1>5, <1>6, <1>7, <1>8

(* What the masks of the routine make of the two bytes is what the plan has.  *)
LEMMA SetsUpper ==
  ASSUME NEW w \in Word
  PROVE BitOr(w, 3840) = Pair(BitOr(Hi(w), 15), Lo(w))
<1>1. Hi(w) \in Byte /\ Lo(w) \in Byte /\ Pair(Hi(w), Lo(w)) = w
  BY HalvesOfWord
<1>2. Pair(15, 0) = 3840 /\ 15 \in Byte /\ 0 \in Byte
  BY ByteRange, SMT DEF Pair
<1>3. BitOr(Pair(Hi(w), Lo(w)), Pair(15, 0)) = Pair(BitOr(Hi(w), 15), BitOr(Lo(w), 0))
  BY <1>1, <1>2, OrHalves
<1>. QED
  BY <1>1, <1>2, <1>3, FullMasks

LEMMA SetsPhy ==
  /\ BitOr(BitAnd(Absent, 65023), 0) = Pair(BitAnd(Hi(Absent), 253), Lo(Absent))
  /\ BitOr(BitAnd(Absent, 65535), 6) = Pair(Hi(Absent), BitOr(Lo(Absent), 6))
  /\ BitOr(BitAnd(Absent, 63487), 512) = Pair(BitOr(BitAnd(Hi(Absent), 247), 2), Lo(Absent))
<1>. DEFINE h == Hi(Absent)
            l == Lo(Absent)
<1>1. h \in Byte /\ l \in Byte /\ Pair(h, l) = Absent
  <2>1. Absent \in Word
    BY WordRange, SMT DEF Absent
  <2>. QED
    BY <2>1, HalvesOfWord
<1>. HIDE DEF h, l
<1>2. /\ Pair(253, 255) = 65023 /\ Pair(255, 255) = 65535 /\ Pair(247, 255) = 63487
      /\ Pair(0, 0) = 0 /\ Pair(0, 6) = 6 /\ Pair(2, 0) = 512
  BY SMT DEF Pair
<1>3. /\ 253 \in Byte /\ 255 \in Byte /\ 247 \in Byte /\ 0 \in Byte /\ 6 \in Byte /\ 2 \in Byte
  BY ByteRange, SMT
<1>4. \A m \in Byte : BitAnd(Pair(h, l), Pair(m, 255)) = Pair(BitAnd(h, m), l) /\ BitAnd(h, m) \in Byte
  <2>. TAKE m \in Byte
  <2>1. BitAnd(Pair(h, l), Pair(m, 255)) = Pair(BitAnd(h, m), BitAnd(l, 255))
    BY <1>1, <1>3, AndHalves
  <2>2. BitAnd(l, 255) = l /\ BitAnd(h, m) \in Byte
    BY <1>1, FullMasks, BitBounds
  <2>. QED
    BY <2>1, <2>2
<1>5. \A x \in Byte : BitOr(Pair(x, l), Pair(0, 0)) = Pair(x, l)
  BY <1>1, <1>3, OrHalves, FullMasks
<1>6. BitOr(Pair(h, l), Pair(0, 6)) = Pair(h, BitOr(l, 6))
  BY <1>1, <1>3, OrHalves, FullMasks
<1>7. \A x \in Byte : BitOr(Pair(x, l), Pair(2, 0)) = Pair(BitOr(x, 2), l)
  BY <1>1, <1>3, OrHalves, FullMasks
<1>8. BitOr(BitAnd(Absent, 65023), 0) = Pair(BitAnd(h, 253), l)
  BY <1>1, <1>2, <1>3, <1>4, <1>5
<1>9. BitOr(BitAnd(Absent, 65535), 6) = Pair(h, BitOr(l, 6))
  <2>1. BitAnd(Pair(h, l), Pair(255, 255)) = Pair(h, l)
    BY <1>1, <1>3, <1>4, FullMasks
  <2>. QED
    BY <1>1, <1>2, <1>6, <2>1
<1>10. BitOr(BitAnd(Absent, 63487), 512) = Pair(BitOr(BitAnd(h, 247), 2), l)
  BY <1>1, <1>2, <1>3, <1>4, <1>7
<1>. QED
  BY <1>8, <1>9, <1>10 DEF h, l

(* Registers whose contents are words, and how many writes a port has.        *)
Contents(r) == DOMAIN r \subseteq Word /\ r \in [DOMAIN r -> Word]

LEMMA HoldsWord ==
  ASSUME NEW r, Contents(r), NEW a
  PROVE Holding(r, a) \in Word
<1>1. Absent \in Word
  BY WordRange, SMT DEF Absent
<1>. QED
  BY <1>1 DEF Holding, Contents

LEMMA VersionBits ==
  ASSUME NEW r, Contents(r)
  PROVE BitAnd(Lo(Version(r)), 240) = 160 <=> Supported(r)
<1>1. Version(r) \in Word
  BY HoldsWord DEF Version
<1>2. Lo(Version(r)) \in Byte
  BY <1>1, HalvesOfWord
<1>3. BitAnd(Lo(Version(r)), 240) = 160 <=> Lo(Version(r)) \div 16 = 10
  BY <1>2, FullMasks
<1>. QED
  BY <1>3 DEF Supported, Version, Lo

LEMMA NthWrite ==
  ASSUME NEW r0, NEW p \in 0..4
  PROVE /\ \A k \in 0..4 : Nth(r0, p, k) \in Nat /\ Nth(r0, p, k) + 1 = Nth(r0, p, k + 1)
        /\ Supported(r0) => PerPort(r0) = 5 /\ Nth(r0, p, 5) = Nth(r0, p + 1, 0)
        /\ ~Supported(r0) => PerPort(r0) = 3 /\ Nth(r0, p, 3) = Nth(r0, p + 1, 0)
        /\ Nth(r0, 0, 0) = 0
        /\ \A m \in 1..PerPort(r0) : Plan(r0)[Nth(r0, p, m - 1) + 1] = Wanted(r0, p)[m]
<1>. DEFINE k0 == PerPort(r0)
<1>1. k0 \in {3, 5} /\ (Supported(r0) => k0 = 5) /\ (~Supported(r0) => k0 = 3)
  BY DEF PerPort
<1>2. \A m \in 1..k0 : Plan(r0)[k0 * p + m] = Wanted(r0, p)[m]
  BY PlanOfPort
<1>. HIDE DEF k0
<1>3. \A k : Nth(r0, p, k) = k0 * p + k /\ Nth(r0, p + 1, k) = k0 * (p + 1) + k /\ Nth(r0, 0, k) = k0 * 0 + k
  BY DEF Nth, k0
<1>4a. p \in Int /\ 0 <= p
  BY SMT
<1>4. \A x \in {3, 5} : /\ \A k \in 0..4 : x * p + k \in Nat /\ (x * p + k) + 1 = x * p + (k + 1)
                        /\ x * p + x = x * (p + 1) + 0 /\ x * 0 + 0 = 0
                        /\ \A m \in 1..x : (x * p + (m - 1)) + 1 = x * p + m
  <2>1. \A k \in 0..4 : 3 * p + k \in Nat /\ (3 * p + k) + 1 = 3 * p + (k + 1)
    BY SMT
  <2>2. \A k \in 0..4 : 5 * p + k \in Nat /\ (5 * p + k) + 1 = 5 * p + (k + 1)
    BY SMT
  <2>3. 3 * p + 3 = 3 * (p + 1) + 0 /\ 3 * 0 + 0 = 0 /\ 5 * p + 5 = 5 * (p + 1) + 0 /\ 5 * 0 + 0 = 0
    BY <1>4a, SMT
  <2>4. \A m \in 1..3 : (3 * p + (m - 1)) + 1 = 3 * p + m
    BY <1>4a, SMT
  <2>5. \A m \in 1..5 : (5 * p + (m - 1)) + 1 = 5 * p + m
    BY <1>4a, SMT
  <2>. QED
    BY <2>1, <2>2, <2>3, <2>4, <2>5
<1>5. \A m \in 1..k0 : Nth(r0, p, m - 1) + 1 = k0 * p + m
  BY <1>1, <1>3, <1>4
<1>6. \A m \in 1..k0 : Plan(r0)[Nth(r0, p, m - 1) + 1] = Wanted(r0, p)[m]
  BY <1>2, <1>5
<1>7. \A k \in 0..4 : Nth(r0, p, k) \in Nat /\ Nth(r0, p, k) + 1 = Nth(r0, p, k + 1)
  BY <1>1, <1>3, <1>4
<1>8. Nth(r0, 0, 0) = 0 /\ Nth(r0, p, k0) = Nth(r0, p + 1, 0)
  BY <1>1, <1>3, <1>4
<1>. QED
  BY <1>1, <1>6, <1>7, <1>8 DEF k0

-----------------------------------------------------------------------------
(* The writes, one after the other, are those of the plan. *)

IsLog(l) == l \in Seq(Word \X Word)
EeeWrites(r0, p, r, l) == Contents(r0) /\ p \in 0..4 /\ IsLog(l) /\ Progress(r0, p, 20, r, l)

LEMMA EeeWritten ==
  ASSUME NEW r0, NEW p, NEW r, NEW l, EeeWrites(r0, p, r, l)
  PROVE Progress(r0, p, 21, Assign(r, EeeReg(p), BitOr(Mine(r0, p), 3840)),
                 Append(l, <<EeeReg(p), BitOr(Mine(r0, p), 3840)>>))
<1>. Contents(r0) /\ p \in 0..4 /\ IsLog(l) /\ Progress(r0, p, 20, r, l)
  BY DEF EeeWrites
<1>. DEFINE a == EeeReg(p)
            v == BitOr(Mine(r0, p), 3840)
            n == Nth(r0, p, 0)
<1>1. Sane(r0, n, p, r, l)
  BY SMT DEF Progress
<1>2. n \in Nat /\ n + 1 = Nth(r0, p, 1) /\ Plan(r0)[n + 1] = Wanted(r0, p)[1]
  <2>1. \A k \in 0..4 : Nth(r0, p, k) \in Nat /\ Nth(r0, p, k) + 1 = Nth(r0, p, k + 1)
    BY NthWrite
  <2>2. \A m \in 1..PerPort(r0) : Plan(r0)[Nth(r0, p, m - 1) + 1] = Wanted(r0, p)[m]
    BY NthWrite
  <2>3. 1 \in 1..PerPort(r0)
    BY SMT DEF PerPort
  <2>4. 1 - 1 = 0 /\ 0 + 1 = 1 /\ 0 \in 0..4
    BY SMT
  <2>5. Plan(r0)[Nth(r0, p, 1 - 1) + 1] = Wanted(r0, p)[1]
    BY <2>2, <2>3
  <2>6. n \in Nat /\ n + 1 = Nth(r0, p, 0 + 1)
    BY <2>1, <2>4
  <2>. QED
    BY <2>4, <2>5, <2>6
<1>3. Wanted(r0, p)[1] = <<a, v>>
  BY DEF Wanted, Eee, Mine, EeeReg
<1>4. a \in Word /\ a \in Int /\ ~IsPhy(a) /\ a # 7445 /\ a # 4865 /\ \A q \in (p + 1)..4 : a # 24 + 32 * q
  BY PortBytes, SMT DEF EeeReg, IsPhy
<1>5. v \in Word
  <2>1. Mine(r0, p) \in Word
    BY HoldsWord DEF Mine
  <2>2. v = Pair(BitOr(Hi(Mine(r0, p)), 15), Lo(Mine(r0, p)))
    BY <2>1, SetsUpper
  <2>3. Hi(Mine(r0, p)) \in Byte /\ Lo(Mine(r0, p)) \in Byte /\ 15 \in Byte
    BY <2>1, HalvesOfWord, Constants
  <2>4. BitOr(Hi(Mine(r0, p)), 15) \in Byte
    BY <2>3, BitBounds
  <2>. QED
    BY <2>2, <2>3, <2>4, PairIsWord
<1>6. p \in Nat /\ p + 1 \in Nat /\ p <= p + 1
  BY SMT
<1>. HIDE DEF a, v, n
<1>7. NextWrite(r0, n, p, p + 1, r, l, a, v)
  <2>1. l \in Seq(Word \X Word) /\ Plan(r0)[n + 1] = <<a, v>>
    BY <1>2, <1>3 DEF IsLog
  <2>2. p <= p + 1 /\ p \in Nat /\ p + 1 \in Nat /\ n \in Nat
    BY <1>2, <1>6
  <2>. QED
    BY <1>1, <1>4, <1>5, <2>1, <2>2 DEF NextWrite
<1>8. Sane(r0, n + 1, p + 1, Assign(r, a, v), Append(l, <<a, v>>))
  BY <1>7, WriteAdvances
<1>9. Sane(r0, Nth(r0, p, 1), p + 1, Assign(r, a, v), Append(l, <<a, v>>))
  BY <1>2, <1>8
<1>10. Progress(r0, p, 21, Assign(r, a, v), Append(l, <<a, v>>))
  BY <1>9, SMT DEF Progress
<1>. QED
  BY <1>10 DEF a, v

LEMMA MagicWritten ==
  ASSUME NEW r0, NEW p \in 0..4, NEW r, NEW l, IsLog(l), Progress(r0, p, 113, r, l)
  PROVE Progress(r0, p, 114, Assign(r, 5058, 585), Append(l, <<5058, 585>>))
<1>. DEFINE n == Nth(r0, p, 2)
<1>1. Sane(r0, n, p + 1, r, l)
  BY SMT DEF Progress
<1>2. n \in Nat /\ n + 1 = Nth(r0, p, 3) /\ Plan(r0)[n + 1] = Wanted(r0, p)[3]
  <2>1. \A k \in 0..4 : Nth(r0, p, k) \in Nat /\ Nth(r0, p, k) + 1 = Nth(r0, p, k + 1)
    BY NthWrite
  <2>2. \A m \in 1..PerPort(r0) : Plan(r0)[Nth(r0, p, m - 1) + 1] = Wanted(r0, p)[m]
    BY NthWrite
  <2>3. 3 \in 1..PerPort(r0)
    BY SMT DEF PerPort
  <2>4. 3 - 1 = 2 /\ 2 + 1 = 3 /\ 2 \in 0..4
    BY SMT
  <2>5. Plan(r0)[Nth(r0, p, 3 - 1) + 1] = Wanted(r0, p)[3]
    BY <2>2, <2>3
  <2>6. n \in Nat /\ n + 1 = Nth(r0, p, 2 + 1)
    BY <2>1, <2>4
  <2>. QED
    BY <2>4, <2>5, <2>6
<1>3. Wanted(r0, p)[3] = <<5058, 585>>
  BY DEF Wanted
<1>4. /\ 5058 \in Word /\ 585 \in Word /\ ~IsPhy(5058) /\ 5058 # 7445 /\ 5058 # 4865
      /\ \A q \in (p + 1)..4 : 5058 # 24 + 32 * q
  <2>1. 5058 \in Word /\ 585 \in Word
    BY WordRange, SMT
  <2>. QED
    BY <2>1, SMT DEF IsPhy
<1>6. p + 1 \in Nat /\ p + 1 <= p + 1
  BY SMT
<1>. HIDE DEF n
<1>7. NextWrite(r0, n, p + 1, p + 1, r, l, 5058, 585)
  BY <1>1, <1>2, <1>3, <1>4, <1>6 DEF NextWrite, IsLog
<1>8. Sane(r0, n + 1, p + 1, Assign(r, 5058, 585), Append(l, <<5058, 585>>))
  BY <1>7, WriteAdvances
<1>9. Sane(r0, Nth(r0, p, 3), p + 1, Assign(r, 5058, 585), Append(l, <<5058, 585>>))
  BY <1>2, <1>8
<1>. QED
  BY <1>9, SMT DEF Progress

LEMMA NthOfPlan ==
  ASSUME NEW r0, NEW p \in 0..4, NEW k \in 1..PerPort(r0)
  PROVE Plan(r0)[Nth(r0, p, k - 1) + 1] = Wanted(r0, p)[k]
<1>1. \A m \in 1..PerPort(r0) : Plan(r0)[Nth(r0, p, m - 1) + 1] = Wanted(r0, p)[m]
  BY NthWrite
<1>. QED
  BY <1>1

(* The PHY registers: the place in the plan of the one written at point i.    *)
PhyPlace(i) == IF i = 109 THEN 2 ELSE IF i = 127 THEN 4 ELSE 5
PhyOf(i) == IF i = 109 THEN 42024 ELSE IF i = 127 THEN 42448 ELSE 41984
PhyValue(i) == IF i = 109 THEN Pair(BitAnd(Hi(Absent), 253), Lo(Absent))
               ELSE IF i = 127 THEN Pair(Hi(Absent), BitOr(Lo(Absent), 6))
               ELSE Pair(BitOr(BitAnd(Hi(Absent), 247), 2), Lo(Absent))
PhyWrites(r0, p, i, r, l, w) ==
  /\ i \in {109, 127, 137} /\ w \in Word /\ PhyValue(i) \in Word /\ IsLog(l)
  /\ Progress(r0, p, i, r, l) /\ Aim(p, PhyOf(i), r, l, w)

LEMMA PhyWritten ==
  ASSUME NEW r0, NEW p \in 0..4, NEW r, NEW l, NEW w, NEW i, PhyWrites(r0, p, i, r, l, w)
  PROVE Progress(r0, p, i + 1, Assign(r, w, PhyValue(i)), Append(l, <<w, PhyValue(i)>>))
<1>. /\ i \in {109, 127, 137} /\ w \in Word /\ PhyValue(i) \in Word /\ IsLog(l)
     /\ Progress(r0, p, i, r, l) /\ Aim(p, PhyOf(i), r, l, w)
  BY DEF PhyWrites
<1>. DEFINE v == PhyValue(i)
            a == PhyOf(i)
            m == PhyPlace(i)
            n == Nth(r0, p, m - 1)
<1>0. m \in {2, 4, 5} /\ m - 1 \in 0..4 /\ (m - 1) + 1 = m
  BY SMT DEF PhyPlace
<1>1. Sane(r0, n, p + 1, r, l)
  <2>1. CASE i = 109
    <3>1. m - 1 = 1 /\ Sane(r0, Nth(r0, p, 1), p + 1, r, l)
      BY <2>1, SMT DEF Progress, PhyPlace
    <3>. QED
      BY <3>1
  <2>2. CASE i = 127
    <3>1. m - 1 = 3 /\ Sane(r0, Nth(r0, p, 3), p + 1, r, l)
      BY <2>2, SMT DEF Progress, PhyPlace
    <3>. QED
      BY <3>1
  <2>3. CASE i = 137
    <3>1. m - 1 = 4 /\ Sane(r0, Nth(r0, p, 4), p + 1, r, l)
      BY <2>3, SMT DEF Progress, PhyPlace
    <3>. QED
      BY <3>1
  <2>. QED
    BY <2>1, <2>2, <2>3
<1>2. m \in 1..PerPort(r0) /\ (i # 109 => Supported(r0))
  <2>1. i # 109 => Supported(r0)
    BY SMT DEF Progress
  <2>. QED
    BY <2>1, SMT DEF PerPort, PhyPlace
<1>3. n \in Nat /\ n + 1 = Nth(r0, p, m) /\ Plan(r0)[n + 1] = Wanted(r0, p)[m]
  <2>1. \A k \in 0..4 : Nth(r0, p, k) \in Nat /\ Nth(r0, p, k) + 1 = Nth(r0, p, k + 1)
    BY NthWrite
  <2>3. Plan(r0)[n + 1] = Wanted(r0, p)[m]
    BY <1>2, NthOfPlan
  <2>4. n \in Nat /\ n + 1 = Nth(r0, p, (m - 1) + 1)
    BY <1>0, <2>1
  <2>. QED
    BY <1>0, <2>3, <2>4
<1>4. Wanted(r0, p)[m] = <<p, a, v>>
  <2>1. CASE i = 109
    <3>1. m = 2 /\ a = 42024 /\ v = BitOr(BitAnd(Absent, 65023), 0)
      BY <2>1, SetsPhy DEF PhyPlace, PhyOf, PhyValue
    <3>. QED
      BY <3>1 DEF Wanted, Phy
  <2>2. CASE i = 127
    <3>1. m = 4 /\ a = 42448 /\ v = BitOr(BitAnd(Absent, 65535), 6)
      BY <2>2, SetsPhy DEF PhyPlace, PhyOf, PhyValue
    <3>. QED
      BY <3>1 DEF Wanted, Phy
  <2>3. CASE i = 137
    <3>1. m = 5 /\ a = 41984 /\ v = BitOr(BitAnd(Absent, 63487), 512)
      BY <2>3, SetsPhy DEF PhyPlace, PhyOf, PhyValue
    <3>. QED
      BY <3>1 DEF Wanted, Phy
  <2>. QED
    BY <2>1, <2>2, <2>3
<1>5. p + 1 \in Nat
  BY SMT
<1>. HIDE DEF v, a, m, n
<1>6. IsPhy(w) /\ (w % 256) \div 32 = p /\ OcpAddr(r, w) = a /\ l # <<>> /\ l[Len(l)] = <<7445, r[7445]>>
  BY DEF Aim, a
<1>7. v \in Word
  BY DEF v
<1>8. NextPhyWrite(r0, n, p + 1, r, l, w, v)
  BY <1>1, <1>3, <1>4, <1>5, <1>6, <1>7 DEF NextPhyWrite, IsLog
<1>9. Sane(r0, n + 1, p + 1, Assign(r, w, v), Append(l, <<w, v>>))
  BY <1>8, PhyWriteAdvances
<1>10. Sane(r0, Nth(r0, p, m), p + 1, Assign(r, w, v), Append(l, <<w, v>>))
  BY <1>3, <1>9
<1>11. Progress(r0, p, i + 1, Assign(r, w, v), Append(l, <<w, v>>))
  <2>. DEFINE rr == Assign(r, w, v)
              ll == Append(l, <<w, v>>)
  <2>. HIDE DEF rr, ll
  <2>0. Sane(r0, Nth(r0, p, m), p + 1, rr, ll)
    BY <1>10 DEF rr, ll
  <2>1. CASE i = 109
    <3>1. m = 2
      BY <2>1 DEF PhyPlace, m
    <3>2. Sane(r0, Nth(r0, p, 2), p + 1, rr, ll)
      BY <2>0, <3>1
    <3>3. Progress(r0, p, 110, rr, ll)
      BY <3>2, SMT DEF Progress
    <3>4. i + 1 = 110
      BY <2>1, SMT
    <3>. QED
      BY <3>3, <3>4 DEF rr, ll
  <2>2. CASE i = 127
    <3>1. m = 4
      BY <2>2, SMT DEF PhyPlace, m
    <3>2. Sane(r0, Nth(r0, p, 4), p + 1, rr, ll)
      BY <2>0, <3>1
    <3>3. Progress(r0, p, 128, rr, ll)
      BY <1>2, <2>2, <3>2, SMT DEF Progress
    <3>4. i + 1 = 128
      BY <2>2, SMT
    <3>. QED
      BY <3>3, <3>4 DEF rr, ll
  <2>3. CASE i = 137
    <3>1. m = 5 /\ Nth(r0, p, 5) = Nth(r0, p + 1, 0)
      <4>1. m = 5 /\ Supported(r0)
        BY <1>2, <2>3, SMT DEF PhyPlace, m
      <4>. QED
        BY <4>1, NthWrite
    <3>2. Sane(r0, Nth(r0, p + 1, 0), p + 1, rr, ll)
      BY <2>0, <3>1
    <3>3. Progress(r0, p, 138, rr, ll)
      BY <3>2, SMT DEF Progress
    <3>4. i + 1 = 138
      BY <2>3, SMT
    <3>. QED
      BY <3>3, <3>4 DEF rr, ll
  <2>. QED
    BY <2>1, <2>2, <2>3
<1>. QED
  BY <1>11 DEF v

-----------------------------------------------------------------------------
(* reg_write and reg_read at their commands, as the points call them. *)

LEMMA WritesWord ==
  ASSUME Machine, Step, pc = <<"reg_write", 3>>, Addressed(3)
  PROVE LET w == Pair(cell["DPH"], cell["DPL"])
            v == Pair(dev.sfr["INDACC_WDATA_H"], dev.sfr["INDACC_WDATA_L"]) IN
        /\ Machine' /\ pc' = <<"reg_write", 4>> /\ UNCHANGED <<cell, stack, rom>> /\ w \in Word /\ v \in Word
        /\ dev'.regs = Assign(dev.regs, w, v) /\ dev'.log = Append(dev.log, <<w, v>>)
<1>. DEFINE w == Pair(cell["DPH"], cell["DPL"])
            v == Pair(dev.sfr["INDACC_WDATA_H"], dev.sfr["INDACC_WDATA_L"])
<1>1. Insn = <<"movi", "INDACC_CMD", 3>> /\ After = <<"reg_write", 4>>
  BY PortCode
<1>2. IndaccAddr(dev) = w /\ IndaccWdata(dev) = v
  BY DEF Addressed, IndaccAddr, IndaccWdata
<1>3. w \in Word /\ v \in Word
  BY <1>2, PortIsWord DEF Machine
<1>. HIDE DEF w, v
<1>4. Machine' /\ Onwards /\ dev'.regs = Assign(dev.regs, w, v)
  BY <1>1, <1>2, WritesRegister
<1>5. UNCHANGED cell /\ dev'.log = Append(dev.log, <<w, v>>)
  <2>1. dev' = IndaccCmd(dev, 3) /\ UNCHANGED cell
    BY <1>1, Commands
  <2>2. dev' = RegWrite(dev, w, v)
    BY <1>2, <2>1 DEF IndaccCmd
  <2>3. dev'.log = Append(dev.log, <<w, v>>)
    BY <2>2 DEF RegWrite, Machine, Switch
  <2>. QED
    BY <2>1, <2>3
<1>. QED
  BY <1>1, <1>3, <1>4, <1>5 DEF Onwards, w, v

(* What a read leaves; a PHY register reads as Absent. *)
Answers(v) == /\ Machine' /\ pc' = <<"reg_status_loop", 1>> /\ UNCHANGED <<cell, stack, rom>>
              /\ dev'.regs = dev.regs /\ dev'.log = dev.log
              /\ dev'.sfr["INDACC_RDATA_H"] = Hi(v) /\ dev'.sfr["INDACC_RDATA_L"] = Lo(v)

LEMMA ReadsWord ==
  ASSUME Machine, Step, pc = <<"reg_read", 3>>, Addressed(3)
  PROVE LET w == Pair(cell["DPH"], cell["DPL"]) IN
        /\ ~IsPhy(w) /\ w # 6660 => Answers(Holding(dev.regs, w))
        /\ IsPhy(w) => Answers(Absent)
<1>. DEFINE w == Pair(cell["DPH"], cell["DPL"])
            d == [dev EXCEPT !.ocp = OcpAddr(dev.regs, w)]
<1>1. Insn = <<"movi", "INDACC_CMD", 1>> /\ After = <<"reg_status_loop", 1>>
  BY PortCode
<1>2. IndaccAddr(dev) = w
  BY DEF Addressed, IndaccAddr
<1>3. dev' = IndaccCmd(dev, 1) /\ UNCHANGED cell /\ Onwards
  BY <1>1, Commands
<1>. HIDE DEF w
<1>4. ASSUME ~IsPhy(w), w # 6660 PROVE Answers(Holding(dev.regs, w))
  <2>1. /\ Machine' /\ dev'.regs = dev.regs /\ dev'.log = dev.log
        /\ dev'.sfr["INDACC_RDATA_H"] = Hi(RegValue(dev, w))
        /\ dev'.sfr["INDACC_RDATA_L"] = Lo(RegValue(dev, w))
    BY <1>1, <1>2, <1>4, ReadsRegister
  <2>2. RegValue(dev, w) = Holding(dev.regs, w)
    BY DEF RegValue, Holding
  <2>. QED
    BY <1>1, <1>3, <2>1, <2>2 DEF Answers, Onwards
<1>5. ASSUME IsPhy(w) PROVE Answers(Absent)
  <2>1. RegRead(dev, w).val = Absent /\ RegRead(dev, w).dev = d
    BY <1>5 DEF RegRead
  <2>2. dev' = [d EXCEPT !.sfr["INDACC_RDATA_H"] = Hi(Absent), !.sfr["INDACC_RDATA_L"] = Lo(Absent)]
    BY <1>2, <1>3, <2>1 DEF IndaccCmd
  <2>3. Hi(Absent) \in Byte /\ Lo(Absent) \in Byte
    BY ByteRange, SMT DEF Hi, Lo, Absent
  <2>4. /\ d.regs = dev.regs /\ d.log = dev.log /\ d.sfr = dev.sfr /\ DOMAIN d = DOMAIN dev
        /\ d.sfr \in [IndaccFile \cup PedmaFile -> Byte]
    BY DEF Machine, Switch
  <2>. HIDE DEF d
  <2>5. /\ dev'.regs = dev.regs /\ dev'.log = dev.log /\ DOMAIN dev' = DOMAIN dev
        /\ dev'.sfr = [dev.sfr EXCEPT !["INDACC_RDATA_H"] = Hi(Absent), !["INDACC_RDATA_L"] = Lo(Absent)]
    BY <2>2, <2>4 DEF Machine, Switch
  <2>6. dev.sfr \in [IndaccFile \cup PedmaFile -> Byte]
    BY DEF Machine, Switch
  <2>7. [dev.sfr EXCEPT !["INDACC_RDATA_H"] = Hi(Absent)] \in [IndaccFile \cup PedmaFile -> Byte]
    BY <2>3, <2>6
  <2>8. dev'.sfr \in [IndaccFile \cup PedmaFile -> Byte]
    BY <2>3, <2>5, <2>6, <2>7
  <2>9. Machine'
    BY <1>3, <2>5, <2>8 DEF Machine, Switch
  <2>10. dev'.sfr["INDACC_RDATA_H"] = Hi(Absent) /\ dev'.sfr["INDACC_RDATA_L"] = Lo(Absent)
    BY <2>5, <2>6 DEF IndaccFile
  <2>. QED
    BY <1>1, <1>3, <2>5, <2>9, <2>10 DEF Answers, Onwards
<1>. QED
  BY <1>4, <1>5 DEF w

ReadPoints == {14, 103, 115, 121, 130}
WritePoints == {20, 109, 113, 127, 137}

(* A write of the plan is done at each of the points that call reg_write. *)
LEMMA WritesPoint ==
  ASSUME NEW r0, NEW p \in 0..4, NEW i \in WritePoints, Contents(r0), Machine, Step,
         pc = <<"reg_write", 3>>, Addressed(3), Lasting(r0, p, i)
  PROVE Machine' /\ pc' = <<"reg_write", 4>> /\ UNCHANGED <<stack, rom>> /\ Lasting(r0, p, i + 1)'
<1>0. PICK r, l, w, v : /\ r = dev.regs /\ l = dev.log /\ w = Pair(cell["DPH"], cell["DPL"])
                        /\ v = Pair(dev.sfr["INDACC_WDATA_H"], dev.sfr["INDACC_WDATA_L"])
  OBVIOUS
<1>1. /\ Machine' /\ pc' = <<"reg_write", 4>> /\ UNCHANGED <<cell, stack, rom>> /\ w \in Word /\ v \in Word
      /\ dev'.regs = Assign(r, w, v) /\ dev'.log = Append(l, <<w, v>>)
  BY <1>0, WritesWord
<1>2. Progress(r0, p, i, r, l) /\ cell["R7"] = p /\ IsLog(l)
  BY <1>0 DEF Lasting, Machine, Switch, IsLog
<1>3. Progress(r0, p, i + 1, Assign(r, w, v), Append(l, <<w, v>>))
  <2>1. CASE i = 20
    <3>1. /\ cell["DPH"] = 0 /\ cell["DPL"] = EeeReg(p)
          /\ dev.sfr["INDACC_WDATA_H"] = BitOr(Hi(Mine(r0, p)), 15) /\ dev.sfr["INDACC_WDATA_L"] = Lo(Mine(r0, p))
      BY <2>1 DEF Lasting
    <3>2. Pair(0, EeeReg(p)) = EeeReg(p)
      BY SMT DEF Pair, EeeReg
    <3>3. v = BitOr(Mine(r0, p), 3840)
      BY <1>0, <3>1, HoldsWord, SetsUpper DEF Mine
    <3>4. w = EeeReg(p)
      BY <1>0, <3>1, <3>2
    <3>5. Progress(r0, p, 21, Assign(r, EeeReg(p), BitOr(Mine(r0, p), 3840)),
                   Append(l, <<EeeReg(p), BitOr(Mine(r0, p), 3840)>>))
      BY <1>2, <2>1, EeeWritten DEF EeeWrites
    <3>. QED
      BY <2>1, <3>3, <3>4, <3>5
  <2>2. CASE i = 113
    <3>1. /\ cell["DPH"] = Hi(5058) /\ cell["DPL"] = Lo(5058)
          /\ dev.sfr["INDACC_WDATA_H"] = 2 /\ dev.sfr["INDACC_WDATA_L"] = 73
      BY <2>2 DEF Lasting
    <3>2. Pair(Hi(5058), Lo(5058)) = 5058 /\ Pair(2, 73) = 585
      BY SMT DEF Pair, Hi, Lo
    <3>3. w = 5058 /\ v = 585
      BY <1>0, <3>1, <3>2
    <3>4. Progress(r0, p, 114, Assign(r, 5058, 585), Append(l, <<5058, 585>>))
      BY <1>2, <2>2, MagicWritten
    <3>. QED
      BY <2>2, <3>3, <3>4
  <2>3. CASE i \in {109, 127, 137}
    <3>1. v = PhyValue(i)
      BY <1>0, <2>3 DEF Lasting, PhyValue
    <3>2. Aim(p, PhyOf(i), r, l, w)
      BY <1>0, <2>3 DEF Lasting, PhyOf
    <3>3. PhyWrites(r0, p, i, r, l, w)
      BY <1>1, <1>2, <2>3, <3>1, <3>2 DEF PhyWrites
    <3>. QED
      BY <3>1, <3>3, PhyWritten
  <2>. QED
    BY <2>1, <2>2, <2>3 DEF WritePoints
<1>4. (cell["R7"])' = p /\ Progress(r0, p, i + 1, dev.regs, dev.log)'
  <2>1. PICK r1, l1 : r1 = Assign(r, w, v) /\ l1 = Append(l, <<w, v>>)
    OBVIOUS
  <2>2. Progress(r0, p, i + 1, r1, l1) /\ dev'.regs = r1 /\ dev'.log = l1
    BY <1>1, <1>3, <2>1
  <2>. QED
    BY <1>1, <1>2, <2>2 DEF Progress
<1>5. Lasting(r0, p, i + 1)'
  <2>1. i + 1 \in {21, 110, 114, 128, 138}
    BY DEF WritePoints
  <2>. QED
    BY <1>4, <2>1, SMT DEF Lasting
<1>. QED
  BY <1>1, <1>5

(* What is read at each of the points that call reg_read. *)
LEMMA ReadsPoint ==
  ASSUME NEW r0, NEW p \in 0..4, NEW i \in ReadPoints, Machine, Step,
         pc = <<"reg_read", 3>>, Addressed(3), Lasting(r0, p, i)
  PROVE Machine' /\ pc' = <<"reg_status_loop", 1>> /\ UNCHANGED <<stack, rom>> /\ Lasting(r0, p, i + 1)'
<1>. DEFINE w == Pair(cell["DPH"], cell["DPL"])
            v == IF i = 14 THEN Mine(r0, p) ELSE IF i = 115 THEN Version(r0) ELSE Absent
<1>1. /\ ~IsPhy(w) /\ w # 6660 => Answers(Holding(dev.regs, w))
      /\ IsPhy(w) => Answers(Absent)
  BY ReadsWord
<1>2. Answers(v)
  <2>1. CASE i = 14
    <3>1. cell["DPH"] = 0 /\ cell["DPL"] = EeeReg(p) /\ Progress(r0, p, 14, dev.regs, dev.log)
      BY <2>1 DEF Lasting
    <3>2. Pair(0, EeeReg(p)) = EeeReg(p) /\ ~IsPhy(EeeReg(p)) /\ EeeReg(p) # 6660
      BY SMT DEF Pair, EeeReg, IsPhy
    <3>3. Untouched(r0, p, dev.regs)
      BY <3>1, SMT DEF Progress, Sane
    <3>4. p \in p..4
      BY SMT
    <3>5. Holding(dev.regs, EeeReg(p)) = Mine(r0, p)
      BY <3>3, <3>4 DEF Untouched, Mine, EeeReg
    <3>. QED
      BY <1>1, <2>1, <3>1, <3>2, <3>5
  <2>2. CASE i = 115
    <3>1. cell["DPH"] = Hi(4865) /\ cell["DPL"] = Lo(4865) /\ Progress(r0, p, 115, dev.regs, dev.log)
      BY <2>2 DEF Lasting
    <3>2. Pair(Hi(4865), Lo(4865)) = 4865 /\ ~IsPhy(4865) /\ 4865 # 6660
      BY SMT DEF Pair, Hi, Lo, IsPhy
    <3>3. Untouched(r0, p + 1, dev.regs)
      BY <3>1, SMT DEF Progress, Sane
    <3>4. Holding(dev.regs, 4865) = Version(r0)
      BY <3>3 DEF Untouched, Version
    <3>. QED
      BY <1>1, <2>2, <3>1, <3>2, <3>4
  <2>3. CASE i \in {103, 121, 130}
    <3>1. IsPhy(w)
      BY <2>3 DEF Lasting, Aim
    <3>2. v = Absent
      BY <2>3
    <3>. QED
      BY <1>1, <3>1, <3>2
  <2>. QED
    BY <2>1, <2>2, <2>3 DEF ReadPoints
<1>. HIDE DEF v
<1>3. /\ cell' = cell /\ (dev.regs)' = dev.regs /\ (dev.log)' = dev.log
      /\ (dev.sfr["INDACC_RDATA_H"])' = Hi(v) /\ (dev.sfr["INDACC_RDATA_L"])' = Lo(v)
  BY <1>2 DEF Answers
<1>4. Lasting(r0, p, i + 1)'
  <2>1. CASE i = 14
    BY <1>3, <2>1 DEF Lasting, Progress, v
  <2>2. CASE i = 103
    BY <1>3, <2>2 DEF Lasting, Progress, v
  <2>3. CASE i = 115
    BY <1>3, <2>3 DEF Lasting, Progress, v
  <2>4. CASE i = 121
    BY <1>3, <2>4 DEF Lasting, Progress, v
  <2>5. CASE i = 130
    BY <1>3, <2>5 DEF Lasting, Progress, v
  <2>. QED
    BY <2>1, <2>2, <2>3, <2>4, <2>5 DEF ReadPoints
<1>. QED
  BY <1>2, <1>4 DEF Answers

-----------------------------------------------------------------------------
(* Where the two routines can be for port p, and a step from each point. *)

Stops(r0, p, i) == pc = Where(i) /\ Lasting(r0, p, i) /\ Passing(r0, p, i) /\ stack = Stacked(i)
AtPoint(r0, p) == \E i \in Points : Stops(r0, p, i)

(* In reg_read or reg_write, which point s has called. *)
InAccess(r0, p) ==
  \E s \in ReadPoints \cup WritePoints :
    /\ stack = Append(Back(s), Where(s + 1))
    /\ \/ s \in ReadPoints /\ Lasting(r0, p, s) /\ \E i \in 1..3 : pc = <<"reg_read", i>> /\ Addressed(i)
       \/ s \in WritePoints /\ Lasting(r0, p, s) /\ \E i \in 1..3 : pc = <<"reg_write", i>> /\ Addressed(i)
       \/ s \in WritePoints /\ Lasting(r0, p, s + 1) /\ pc = <<"reg_write", 4>>
       \/ Lasting(r0, p, s + 1) /\ \E i \in 1..3 : pc = <<"reg_status_loop", i>>

(* In phyocp_reg_addr, which point j has called. *)
PhyPoints == {102, 120, 129}
PhyAt(j) == IF j = 102 THEN 42024 ELSE IF j = 120 THEN 42448 ELSE 41984
CallsPhy(r0, p, j, c) == /\ c.back = Append(Back(j), Where(j + 1)) /\ c.port = p /\ c.addr = PhyAt(j)
                         /\ Progress(r0, p, j, c.regs, c.log)
InPhy(r0, p) == \E j \in PhyPoints : \E c : Inside(c) /\ CallsPhy(r0, p, j, c)

(* In the loop over the ports. *)
InLoop(r0, p) ==
  /\ stack = <<>>
  /\ \/ pc = <<"port_init1", 1>> /\ p = 0 /\ Sane(r0, 0, 0, dev.regs, dev.log)
     \/ pc = <<"port_init1_loop", 1>> /\ cell["R7"] = p /\ Sane(r0, Nth(r0, p, 0), p, dev.regs, dev.log)
     \/ pc = <<"port_init1_loop", 2>> /\ cell["R7"] = p /\ Sane(r0, Nth(r0, p, 1), p + 1, dev.regs, dev.log)
     \/ /\ pc = <<"port_init1_loop", 3>> /\ cell["R7"] = p
        /\ Sane(r0, Nth(r0, p + 1, 0), p + 1, dev.regs, dev.log)
     \/ /\ pc = <<"port_init1_loop", 4>> /\ cell["R7"] = p + 1
        /\ Sane(r0, Nth(r0, p + 1, 0), p + 1, dev.regs, dev.log)
     \/ /\ pc = <<"port_init1_loop", 5>> /\ p = 4
        /\ Sane(r0, Nth(r0, p + 1, 0), p + 1, dev.regs, dev.log)

(* Nothing that is passed on survives a call. *)
LEMMA NothingPassed ==
  ASSUME NEW r0, NEW p, NEW i \in {15, 21, 101, 103, 104, 110, 114, 116, 121, 122, 128, 130, 131, 138}
  PROVE Passing(r0, p, i)'
  BY SMT DEF Passing

(* What stays when neither a cell nor the device changes. *)
LEMMA LastingIdle ==
  ASSUME NEW r0, NEW p, NEW i, Lasting(r0, p, i), Machine, UNCHANGED <<cell, dev>>
  PROVE Machine' /\ Lasting(r0, p, i)'
<1>1. SameCells /\ SamePort
  BY DEF SameCells, SamePort
<1>. QED
  BY <1>1, LastingStays DEF Machine

LEMMA StackedPoints ==
  /\ \A i \in 1..21 : Back(i) = << <<"port_init1_loop", 2>> >>
  /\ \A i \in 101..138 : Back(i) = << <<"port_init1_loop", 3>> >>
  /\ \A i \in Points \ (6..11) : Stacked(i) = Back(i)
  /\ \A i \in 6..11 : Stacked(i) = Append(Back(i), 0)
  /\ Stacked(5) = Back(6) /\ Stacked(12) = Back(11)
  /\ \A i \in Points : Back(i) \in Seq({<<"port_init1_loop", 2>>, <<"port_init1_loop", 3>>})
<1>1. \A i \in 1..21 : Back(i) = << <<"port_init1_loop", 2>> >>
  BY SMT DEF Back
<1>2. \A i \in 101..138 : Back(i) = << <<"port_init1_loop", 3>> >>
  BY SMT DEF Back
<1>3. \A i \in Points \ (6..11) : Stacked(i) = Back(i)
  BY DEF Stacked
<1>4. \A i \in 6..11 : Stacked(i) = Append(Back(i), 0)
  BY DEF Stacked
<1>6. Stacked(5) = Back(6) /\ Stacked(12) = Back(11)
  BY SMT DEF Stacked, Back
<1>5. \A i \in Points : Back(i) \in Seq({<<"port_init1_loop", 2>>, <<"port_init1_loop", 3>>})
  <2>1. /\ << <<"port_init1_loop", 2>> >> \in Seq({<<"port_init1_loop", 2>>, <<"port_init1_loop", 3>>})
        /\ << <<"port_init1_loop", 3>> >> \in Seq({<<"port_init1_loop", 2>>, <<"port_init1_loop", 3>>})
    OBVIOUS
  <2>. QED
    BY <1>1, <1>2, <2>1 DEF Points
<1>. QED
  BY <1>1, <1>2, <1>3, <1>4, <1>5, <1>6

(* The straight-line points. *)
Straight == {1, 2, 3, 4, 6, 7, 8, 9, 10, 12, 13, 15, 16, 17, 18, 19, 101, 104, 105, 106, 107, 108, 110, 111,
             112, 114, 116, 117, 119, 122, 123, 124, 125, 126, 128, 131, 132, 133, 134, 135, 136}

LEMMA WalkStep ==
  ASSUME NEW r0, NEW p \in 0..4, NEW i \in Straight, Stops(r0, p, i), Machine, Step
  PROVE Machine' /\ Stops(r0, p, i + 1)'
<1>1. Stands(r0, p, i)
  BY SMT DEF Stands, Stops, Points, Straight
<1>2. Walks(r0, p, i)
  BY <1>1, EeeAddress, EeeChange, OcpFirst, OcpVersion, OcpLast DEF Straight
<1>3. Stacked(i + 1) = Stacked(i)
  <2>1. Back(i + 1) = Back(i) /\ (i + 1 \in 6..11 <=> i \in 6..11)
    BY SMT DEF Back, Straight
  <2>. QED
    BY <2>1 DEF Stacked
<1>4. stack' = Stacked(i + 1)
  BY <1>2, <1>3 DEF Walks, Stops
<1>. QED
  BY <1>2, <1>4 DEF Walks, Stops, Stacked, Back, Where

(* hello.s:310 and :315: B is saved over the sum of the low bytes. *)
LEMMA PushStep ==
  ASSUME NEW r0, NEW p \in 0..4, Stops(r0, p, 5), Machine, Step
  PROVE Machine' /\ Stops(r0, p, 6)'
<1>1. Stands(r0, p, 5)
  BY SMT DEF Stands, Stops, Points
<1>2. Insn = <<"push", "B">> /\ After = Where(6)
  <2>1. 5 \in Points
    BY SMT DEF Points
  <2>2. Insn = InsnAt(5) /\ After = Where(5 + 1)
    BY <2>1, PointInsn DEF Stops
  <2>. QED
    BY <2>2 DEF InsnAt, EeeList
<1>3. pc' = Where(6) /\ stack' = Append(stack, cell["B"]) /\ UNCHANGED <<cell, psw, rom, dev>>
  BY <1>2, Pushes DEF Used
<1>4. cell["B"] = 0
  BY SMT DEF Stops, Lasting
<1>5. stack' = Stacked(6)
  <2>1. stack = Back(6)
    BY StackedPoints DEF Stops
  <2>2. Stacked(6) = Append(Back(6), 0)
    BY StackedPoints
  <2>. QED
    BY <1>3, <1>4, <2>1, <2>2
<1>6. Machine' /\ Lasting(r0, p, 6)'
  BY <1>3 DEF Stops, Lasting, Progress, Machine
<1>7. Passing(r0, p, 6)'
  BY <1>3 DEF Stops, Passing
<1>. QED
  BY <1>3, <1>5, <1>6, <1>7 DEF Stops, Stacked, Back, Where

LEMMA PopStep ==
  ASSUME NEW r0, NEW p \in 0..4, Stops(r0, p, 11), Machine, Step
  PROVE Machine' /\ Stops(r0, p, 12)'
<1>2. Insn = <<"pop", "B">> /\ After = Where(12)
  <2>1. 11 \in Points
    BY SMT DEF Points
  <2>2. Insn = InsnAt(11) /\ After = Where(11 + 1)
    BY <2>1, PointInsn DEF Stops
  <2>. QED
    BY <2>2 DEF InsnAt, EeeList
<1>3. Last(stack) = 0 /\ Front(stack) = Stacked(12)
  <2>1. stack = Append(Back(11), 0)
    BY StackedPoints DEF Stops
  <2>2. 11 \in Points
    BY DEF Points
  <2>3. PICK S : Back(11) \in Seq(S)
    BY <2>2, StackedPoints
  <2>4. Stacked(12) = Back(11)
    BY StackedPoints
  <2>. QED
    BY <2>1, <2>3, <2>4, TopOfStack
<1>4. 0 \in Byte
  BY ByteRange, SMT
<1>5. /\ pc' = Where(12) /\ stack' = Stacked(12) /\ UNCHANGED <<psw, rom, dev>> /\ Machine'
      /\ \A k \in Used : (cell[k])' = IF k = "B" THEN 0 ELSE cell[k]
  BY <1>2, <1>3, <1>4, Pops DEF Used
<1>6. Lasting(r0, p, 12)'
  BY <1>5 DEF Stops, Lasting, Progress, Used
<1>7. Passing(r0, p, 12)'
  BY <1>5 DEF Stops, Passing, Used
<1>. QED
  BY <1>5, <1>6, <1>7 DEF Stops, Stacked, Back, Where

(* hello.s:412: the last two PHY registers only on a chip of that version. *)
LEMMA BranchStep ==
  ASSUME NEW r0, NEW p \in 0..4, Contents(r0), Stops(r0, p, 118), Machine, Step
  PROVE Machine' /\ AtPoint(r0, p)'
<1>1. Insn = <<"cjne", "A", 160, "port_init_phyocp_exit">> /\ After = Where(119)
  <2>1. 118 \in Points
    BY DEF Points
  <2>2. Insn = InsnAt(118) /\ After = Where(118 + 1)
    BY <2>1, PointInsn DEF Stops
  <2>3. InsnAt(118) = OcpList[18]
    BY SMT DEF InsnAt
  <2>. QED
    BY <2>2, <2>3 DEF OcpList
<1>2. Same /\ pc' = IF cell["A"] = 160 THEN Where(119) ELSE To("port_init_phyocp_exit")
  BY <1>1, Constants, ComparesCell DEF Used
<1>3. To("port_init_phyocp_exit") = Where(138)
  BY SMT DEF To, Where
<1>4. cell["A"] = BitAnd(Lo(Version(r0)), 240)
  BY SMT DEF Stops, Passing
<1>5. cell["A"] = 160 <=> Supported(r0)
  BY <1>4, VersionBits
<1>6. Machine' /\ UNCHANGED <<cell, dev, stack>>
  BY <1>2, SameMachine DEF Same
<1>7. Stacked(118) = Stacked(119) /\ Stacked(118) = Stacked(138)
  BY SMT DEF Stacked, Back
<1>8. Progress(r0, p, 118, dev.regs, dev.log) /\ cell["R7"] = p
  BY DEF Stops, Lasting
<1>9. CASE Supported(r0)
  <2>1. Lasting(r0, p, 119)'
    BY <1>6, <1>8, <1>9 DEF Lasting, Progress
  <2>2. Passing(r0, p, 119)' /\ 119 \in Points
    BY SMT DEF Passing, Points
  <2>3. pc' = Where(119) /\ stack' = Stacked(119)
    BY <1>2, <1>5, <1>6, <1>7, <1>9 DEF Stops
  <2>4. Stops(r0, p, 119)'
    BY <2>1, <2>2, <2>3 DEF Stops, Stacked, Back, Where
  <2>. QED
    BY <1>6, <2>2, <2>4 DEF AtPoint
<1>10. CASE ~Supported(r0)
  <2>1. Nth(r0, p, 3) = Nth(r0, p + 1, 0)
    BY <1>10, NthWrite
  <2>2. Sane(r0, Nth(r0, p, 3), p + 1, dev.regs, dev.log)
    BY <1>8, SMT DEF Progress
  <2>3. Progress(r0, p, 138, dev.regs, dev.log)'
    BY <1>6, <2>1, <2>2 DEF Progress
  <2>4. Lasting(r0, p, 138)'
    BY <1>6, <1>8, <2>3, SMT DEF Lasting
  <2>5. Passing(r0, p, 138)' /\ 138 \in Points
    BY SMT DEF Passing, Points
  <2>6. pc' = Where(138) /\ stack' = Stacked(138)
    BY <1>2, <1>3, <1>5, <1>6, <1>7, <1>10 DEF Stops
  <2>7. Stops(r0, p, 138)'
    BY <2>4, <2>5, <2>6 DEF Stops, Stacked, Back, Where
  <2>. QED
    BY <1>6, <2>5, <2>7 DEF AtPoint
<1>. QED
  BY <1>9, <1>10

(* The points that call something. *)
LEMMA CallPoints ==
  ASSUME NEW i \in ReadPoints \cup WritePoints \cup PhyPoints, pc = Where(i)
  PROVE /\ i \in ReadPoints => Insn = <<"call", "reg_read">>
        /\ i \in WritePoints => Insn = <<"call", "reg_write">>
        /\ i \in PhyPoints => Insn = <<"call", "phyocp_reg_addr">>
        /\ After = Where(i + 1) /\ Stacked(i) = Back(i)
<1>1. i \in Points \ (6..11) /\ i \notin {21, 138}
  BY SMT DEF Points, ReadPoints, WritePoints, PhyPoints
<1>2. Insn = InsnAt(i) /\ After = Where(i + 1) /\ Stacked(i) = Back(i)
  BY <1>1, PointInsn, StackedPoints
<1>3. /\ i = 14 => InsnAt(i) = EeeList[14]
      /\ i = 20 => InsnAt(i) = EeeList[20]
      /\ i = 102 => InsnAt(i) = OcpList[2]
      /\ i = 103 => InsnAt(i) = OcpList[3]
      /\ i = 109 => InsnAt(i) = OcpList[9]
      /\ i = 113 => InsnAt(i) = OcpList[13]
      /\ i = 115 => InsnAt(i) = OcpList[15]
      /\ i = 120 => InsnAt(i) = OcpList[20]
      /\ i = 121 => InsnAt(i) = OcpList[21]
      /\ i = 127 => InsnAt(i) = OcpList[27]
      /\ i = 129 => InsnAt(i) = OcpList[29]
      /\ i = 130 => InsnAt(i) = OcpList[30]
      /\ i = 137 => InsnAt(i) = OcpList[37]
  BY SMT DEF InsnAt
<1>4. i \in ReadPoints => Insn = <<"call", "reg_read">>
  BY <1>2, <1>3 DEF ReadPoints, EeeList, OcpList
<1>5. i \in WritePoints => Insn = <<"call", "reg_write">>
  BY <1>2, <1>3 DEF WritePoints, EeeList, OcpList
<1>6. i \in PhyPoints => Insn = <<"call", "phyocp_reg_addr">>
  BY <1>2, <1>3 DEF PhyPoints, OcpList
<1>. QED
  BY <1>2, <1>4, <1>5, <1>6

LEMMA AccessCall ==
  ASSUME NEW r0, NEW p \in 0..4, NEW i \in ReadPoints \cup WritePoints, Stops(r0, p, i), Machine, Step
  PROVE Machine' /\ InAccess(r0, p)'
<1>1. /\ i \in ReadPoints => Insn = <<"call", "reg_read">>
      /\ i \in WritePoints => Insn = <<"call", "reg_write">>
      /\ After = Where(i + 1) /\ stack = Back(i)
  BY CallPoints DEF Stops
<1>2. /\ i \in ReadPoints => pc' = <<"reg_read", 1>>
      /\ i \in WritePoints => pc' = <<"reg_write", 1>>
      /\ stack' = Append(Back(i), Where(i + 1)) /\ UNCHANGED <<cell, rom, dev>>
  BY <1>1, Calling DEF To
<1>3. Machine' /\ Lasting(r0, p, i)'
  BY <1>2, LastingIdle DEF Stops
<1>4. Addressed(1)' /\ 1 \in 1..3
  BY SMT DEF Addressed
<1>5. stack' = (Append(Back(i), Where(i + 1)))'
  BY <1>2 DEF Back, Where
<1>6. \/ i \in ReadPoints /\ \E k \in 1..3 : pc' = <<"reg_read", k>> /\ Addressed(k)'
      \/ i \in WritePoints /\ \E k \in 1..3 : pc' = <<"reg_write", k>> /\ Addressed(k)'
  BY <1>2, <1>4
<1>. QED
  BY <1>3, <1>5, <1>6 DEF InAccess

(* A step of reg_read or reg_write, or back to the point behind the call. *)
LEMMA AccessStep ==
  ASSUME NEW r0, NEW p \in 0..4, Contents(r0), InAccess(r0, p), Machine, Step
  PROVE Machine' /\ (InAccess(r0, p)' \/ AtPoint(r0, p)')
<1>1. PICK s \in ReadPoints \cup WritePoints :
        /\ stack = Append(Back(s), Where(s + 1))
        /\ \/ s \in ReadPoints /\ Lasting(r0, p, s) /\ \E i \in 1..3 : pc = <<"reg_read", i>> /\ Addressed(i)
           \/ s \in WritePoints /\ Lasting(r0, p, s) /\ \E i \in 1..3 : pc = <<"reg_write", i>> /\ Addressed(i)
           \/ s \in WritePoints /\ Lasting(r0, p, s + 1) /\ pc = <<"reg_write", 4>>
           \/ Lasting(r0, p, s + 1) /\ \E i \in 1..3 : pc = <<"reg_status_loop", i>>
  BY DEF InAccess
<1>2. (Append(Back(s), Where(s + 1)))' = Append(Back(s), Where(s + 1))
  BY DEF Back, Where
<1>3. ASSUME NEW l \in {"reg_read", "reg_write"}, NEW i \in 1..2, pc = <<l, i>>, Addressed(i), Lasting(r0, p, s)
      PROVE /\ Machine' /\ pc' = <<l, i + 1>> /\ i + 1 \in 1..3 /\ Addressed(i + 1)' /\ Lasting(r0, p, s)'
            /\ stack' = stack
  <2>1. /\ Machine' /\ pc' = <<l, i + 1>> /\ UNCHANGED <<cell, psw, stack, rom>>
        /\ Addressed(i + 1)' /\ SameData
    BY <1>3, AddressStep
  <2>2. SameCells /\ SamePort
    BY <2>1 DEF SameCells, SamePort, SameData
  <2>3. Lasting(r0, p, s)'
    BY <1>3, <2>2, LastingStays
  <2>4. i + 1 \in 1..3
    BY SMT
  <2>. QED
    BY <2>1, <2>3, <2>4
<1>4. ASSUME NEW i \in 1..3, s \in ReadPoints, Lasting(r0, p, s), pc = <<"reg_read", i>>, Addressed(i)
      PROVE Machine' /\ InAccess(r0, p)'
  <2>1. CASE i \in 1..2
    <3>1. /\ Machine' /\ pc' = <<"reg_read", i + 1>> /\ i + 1 \in 1..3 /\ Addressed(i + 1)' /\ Lasting(r0, p, s)'
          /\ stack' = stack
      BY <1>3, <1>4, <2>1
    <3>2. \E k \in 1..3 : pc' = <<"reg_read", k>> /\ Addressed(k)'
      BY <3>1
    <3>. QED
      BY <1>1, <1>2, <1>4, <3>1, <3>2 DEF InAccess
  <2>2. CASE i = 3
    <3>1. Machine' /\ pc' = <<"reg_status_loop", 1>> /\ UNCHANGED <<stack, rom>> /\ Lasting(r0, p, s + 1)'
      BY <1>4, <2>2, ReadsPoint
    <3>2. \E k \in 1..3 : pc' = <<"reg_status_loop", k>>
      BY <3>1
    <3>. QED
      BY <1>1, <1>2, <3>1, <3>2 DEF InAccess
  <2>. QED
    BY <2>1, <2>2
<1>5. ASSUME NEW i \in 1..3, s \in WritePoints, Lasting(r0, p, s), pc = <<"reg_write", i>>, Addressed(i)
      PROVE Machine' /\ InAccess(r0, p)'
  <2>1. CASE i \in 1..2
    <3>1. /\ Machine' /\ pc' = <<"reg_write", i + 1>> /\ i + 1 \in 1..3 /\ Addressed(i + 1)' /\ Lasting(r0, p, s)'
          /\ stack' = stack
      BY <1>3, <1>5, <2>1
    <3>2. \E k \in 1..3 : pc' = <<"reg_write", k>> /\ Addressed(k)'
      BY <3>1
    <3>. QED
      BY <1>1, <1>2, <1>5, <3>1, <3>2 DEF InAccess
  <2>2. CASE i = 3
    <3>1. Machine' /\ pc' = <<"reg_write", 4>> /\ UNCHANGED <<stack, rom>> /\ Lasting(r0, p, s + 1)'
      BY <1>5, <2>2, WritesPoint
    <3>. QED
      BY <1>1, <1>2, <1>5, <3>1 DEF InAccess
  <2>. QED
    BY <2>1, <2>2
<1>6. ASSUME s \in WritePoints, Lasting(r0, p, s + 1), pc = <<"reg_write", 4>>
      PROVE Machine' /\ InAccess(r0, p)'
  <2>1. Same /\ pc' = <<"reg_status_loop", 1>>
    BY <1>6, EndOfWrite, Jumps DEF To
  <2>2. Machine' /\ Lasting(r0, p, s + 1)'
    BY <1>6, <2>1, LastingIdle DEF Same
  <2>3. (\E k \in 1..3 : pc' = <<"reg_status_loop", k>>) /\ stack' = stack
    BY <2>1 DEF Same
  <2>. QED
    BY <1>1, <1>2, <2>2, <2>3 DEF InAccess
<1>7. ASSUME NEW i \in 1..3, Lasting(r0, p, s + 1), pc = <<"reg_status_loop", i>>
      PROVE Machine' /\ (InAccess(r0, p)' \/ AtPoint(r0, p)')
  <2>1. CASE i \in 1..2
    <3>1. /\ Machine' /\ UNCHANGED <<dev, stack, rom>> /\ SameCells
          /\ \E k \in 1..3 : pc' = <<"reg_status_loop", k>>
      BY <1>7, <2>1, PollStep
    <3>2. Lasting(r0, p, s + 1)'
      BY <1>7, <3>1, LastingStays DEF SamePort
    <3>. QED
      BY <1>1, <1>2, <3>1, <3>2 DEF InAccess
  <2>2. CASE i = 3
    <3>1. stack' = Front(stack) /\ pc' = Last(stack) /\ UNCHANGED <<cell, rom, dev>>
      BY <1>7, <2>2, StatusCode, Returning
    <3>2. /\ s \in Points /\ s + 1 \in Points \ (6..11)
          /\ s + 1 \in {15, 21, 101, 103, 104, 110, 114, 116, 121, 122, 128, 130, 131, 138}
          /\ Back(s + 1) = Back(s)
      BY SMT DEF ReadPoints, WritePoints, Points, Back
    <3>3. PICK S : Back(s) \in Seq(S)
      BY <3>2, StackedPoints
    <3>4. stack' = Back(s) /\ pc' = Where(s + 1)
      BY <1>1, <3>1, <3>3, TopOfStack
    <3>5. Stacked(s + 1) = Back(s)
      BY <3>2, StackedPoints
    <3>6. Machine' /\ Lasting(r0, p, s + 1)'
      BY <1>7, <3>1, LastingIdle
    <3>7. Passing(r0, p, s + 1)'
      BY <3>2, NothingPassed
    <3>8. Stops(r0, p, s + 1)'
      BY <3>4, <3>5, <3>6, <3>7 DEF Stops, Stacked, Back, Where
    <3>. QED
      BY <3>2, <3>6, <3>8 DEF AtPoint
  <2>. QED
    BY <2>1, <2>2
<1>. QED
  BY <1>1, <1>4, <1>5, <1>6, <1>7

LEMMA PhyCall ==
  ASSUME NEW r0, NEW p \in 0..4, NEW j \in PhyPoints, Stops(r0, p, j), Machine, Step
  PROVE Machine' /\ InPhy(r0, p)'
<1>1. Insn = <<"call", "phyocp_reg_addr">> /\ After = Where(j + 1) /\ stack = Back(j)
  BY CallPoints DEF Stops
<1>2. pc' = <<"phyocp_reg_addr", 1>> /\ stack' = Append(Back(j), Where(j + 1)) /\ UNCHANGED <<cell, rom, dev>>
  BY <1>1, Calling DEF To
<1>3. PICK c : c = [addr |-> PhyAt(j), port |-> p, regs |-> dev.regs, log |-> dev.log,
                    back |-> Append(Back(j), Where(j + 1))]
  OBVIOUS
<1>4. /\ c.addr = PhyAt(j) /\ c.port = p /\ c.regs = dev.regs /\ c.log = dev.log
      /\ c.back = Append(Back(j), Where(j + 1))
  BY <1>3
<1>5. Asks(c)
  <2>1. c.addr \in PhyAddress
    <3>1. PhyAt(j) \in {42024, 42448, 41984}
      BY DEF PhyAt
    <3>2. \A a \in {42024, 42448, 41984} : a \in Word /\ a % 2 = 0
      BY Constants, SMT
    <3>. QED
      BY <1>4, <3>1, <3>2 DEF PhyAddress
  <2>2. c.port \in 0..7
    BY <1>4, SMT
  <2>3. DOMAIN c.regs \subseteq Word /\ c.regs \in [DOMAIN c.regs -> Word] /\ c.log \in Seq(Word \X Word)
    BY <1>4 DEF Machine, Switch
  <2>4. \E S : c.back \in Seq(S)
    <3>1. j \in Points
      BY SMT DEF PhyPoints, Points
    <3>2. PICK S : Back(j) \in Seq(S)
      BY <3>1, StackedPoints
    <3>3. Append(Back(j), Where(j + 1)) \in Seq(S \cup {Where(j + 1)})
      BY <3>2
    <3>. QED
      BY <1>4, <3>3
  <2>. QED
    BY <2>1, <2>2, <2>3, <2>4 DEF Asks
<1>6. /\ cell["DPH"] = AddrHigh(c) /\ cell["DPL"] = AddrLow(c) /\ cell["R7"] = c.port
      /\ Progress(r0, p, j, dev.regs, dev.log)
  BY <1>4 DEF Stops, Lasting, AddrHigh, AddrLow, PhyAt, PhyPoints
<1>7. Machine' /\ Values(c, 1)'
  BY <1>2, <1>4, <1>6 DEF Machine, Values
<1>8. Frame(c, 1) = c.back /\ 1 \in 1..54
  BY SMT DEF Frame
<1>9. InRoutine(c)'
  <2>1. stack' = Frame(c, 1)'
    BY <1>2, <1>4, <1>8 DEF Frame
  <2>. QED
    BY <1>2, <1>7, <1>8, <2>1 DEF InRoutine
<1>10. Inside(c)'
  BY <1>5, <1>7, <1>9 DEF Inside, Asks
<1>11. CallsPhy(r0, p, j, c)
  BY <1>4, <1>6 DEF CallsPhy
<1>12. CallsPhy(r0, p, j, c)'
  BY <1>11 DEF CallsPhy
<1>. QED
  BY <1>7, <1>10, <1>12 DEF InPhy

(* A step of phyocp_reg_addr, or back to the point behind the call: the        *)
(* prefix is set, and DPTR reaches the register.                              *)
LEMMA PhyReturns ==
  ASSUME NEW r0, NEW p \in 0..4, NEW j \in PhyPoints, NEW c, Asks(c), CallsPhy(r0, p, j, c), Leaves(c)
  PROVE Machine' /\ Stops(r0, p, j + 1)'
<1>1. /\ c.back = Append(Back(j), Where(j + 1)) /\ c.port = p /\ c.addr = PhyAt(j)
      /\ Progress(r0, p, j, c.regs, c.log)
  BY DEF CallsPhy
<1>2. Machine' /\ Values(c, 54)' /\ pc' = Last(c.back) /\ stack' = Front(c.back)
  BY DEF Leaves
<1>3. j \in Points /\ j + 1 \in Points \ (6..11) /\ Back(j + 1) = Back(j) /\ j + 1 \in {103, 121, 130}
  BY SMT DEF PhyPoints, Points, Back
<1>4. PICK S : Back(j) \in Seq(S)
  BY <1>3, StackedPoints
<1>5. pc' = Where(j + 1) /\ stack' = Stacked(j + 1)
  <2>1. Last(c.back) = Where(j + 1) /\ Front(c.back) = Back(j)
    BY <1>1, <1>4, TopOfStack
  <2>2. Stacked(j + 1) = Back(j + 1)
    BY <1>3, StackedPoints
  <2>. QED
    BY <1>2, <1>3, <2>1, <2>2
<1>6a. PICK r : r = Assign(c.regs, 7445, Prefixed(c))
  OBVIOUS
<1>6b. PICK l : l = Append(c.log, <<7445, Prefixed(c)>>)
  <2>. DEFINE m == Append(c.log, <<7445, Prefixed(c)>>)
  <2>. HIDE DEF m
  <2>1. \E l : l = m
    OBVIOUS
  <2>. QED
    BY <2>1 DEF m
<1>6c. PICK h : h = 32 + Middle(c)
  OBVIOUS
<1>6d. PICK d : d = Row(c) + Bottom(c)
  OBVIOUS
<1>6. /\ r = Assign(c.regs, 7445, Prefixed(c)) /\ l = Append(c.log, <<7445, Prefixed(c)>>)
      /\ h = 32 + Middle(c) /\ d = Row(c) + Bottom(c)
  BY <1>6a, <1>6b, <1>6c, <1>6d
<1>7. dev'.regs = r /\ dev'.log = l /\ (cell["DPH"])' = h /\ (cell["DPL"])' = d /\ (cell["R7"])' = p
  BY <1>1, <1>2, <1>6 DEF Values
<1>8. Progress(r0, p, j + 1, r, l)
  <2>. DEFINE k == IF j = 102 THEN 1 ELSE IF j = 120 THEN 3 ELSE 4
              n == Nth(r0, p, k)
              v == Prefixed(c)
  <2>1. Sane(r0, n, p + 1, c.regs, c.log) /\ (j # 102 => Supported(r0))
    BY <1>1, SMT DEF Progress, PhyPoints
  <2>2. n \in Nat /\ p + 1 \in Nat
    <3>1. k \in 0..4
      OBVIOUS
    <3>. HIDE DEF k
    <3>. QED
      BY <3>1, NthWrite, SMT
  <2>3. c.log \in Seq(Word \X Word)
    BY DEF Asks
  <2>4. v \in Word /\ v \div 64 = Holding(c.regs, 7445) \div 64
    <3>1. v \div 64 = Old(c) \div 64
      BY KeepsUpper
    <3>2. Old(c) = Holding(c.regs, 7445)
      BY DEF Old, Holding
    <3>3. Hi(Old(c)) \in Byte /\ NewLow(c) \in Byte
      <4>1. Hi(Old(c)) \in Byte
        BY Fields
      <4>2. NewLow(c) \in Byte
        BY Sums
      <4>. QED
        BY <4>1, <4>2
    <3>4. v \in Word
      BY <3>3, PairIsWord DEF Prefixed
    <3>. HIDE DEF v
    <3>. QED
      BY <3>1, <3>2, <3>4
  <2>. HIDE DEF n, v
  <2>5. NewPrefix(r0, n, p + 1, c.regs, c.log, v)
    BY <2>1, <2>2, <2>3, <2>4 DEF NewPrefix
  <2>6. Sane(r0, n, p + 1, Assign(c.regs, 7445, v), Append(c.log, <<7445, v>>))
    BY <2>5, PrefixKeepsPlace
  <2>7. Sane(r0, Nth(r0, p, k), p + 1, r, l)
    BY <1>6, <2>6 DEF n, v
  <2>. QED
    BY <2>1, <2>7, SMT DEF Progress, PhyPoints
<1>9. Aim(p, PhyAt(j), r, l, Pair(h, d))
  <2>1. IsPhy(Pair(h, d)) /\ OcpAddr(r, Pair(h, d)) = PhyAt(j)
    BY <1>1, <1>6, Reached
  <2>2. (Pair(h, d) % 256) \div 32 = p
    <3>1. Pair(h, d) % 256 = d /\ d \in (32 * p)..(32 * p + 31)
      BY <1>1, <1>6, KeepsUpper
    <3>2. d \div 32 = p
      BY <3>1, SMT
    <3>. QED
      BY <3>1, <3>2
  <2>3. l # <<>> /\ l[Len(l)] = <<7445, r[7445]>>
    <3>1. r[7445] = Prefixed(c)
      BY <1>6 DEF Assign
    <3>2. c.log \in Seq(Word \X Word)
      BY DEF Asks
    <3>. DEFINE e == <<7445, Prefixed(c)>>
    <3>3. l = Append(c.log, e)
      BY <1>6
    <3>. HIDE DEF e
    <3>4. Len(l) = Len(c.log) + 1 /\ l[Len(c.log) + 1] = e /\ l # <<>>
      BY <3>2, <3>3
    <3>. QED
      BY <3>1, <3>4 DEF e
  <2>. QED
    BY <2>1, <2>2, <2>3 DEF Aim
<1>10. Lasting(r0, p, j + 1)'
  <2>1. Progress(r0, p, j + 1, dev.regs, dev.log)'
    BY <1>7, <1>8 DEF Progress
  <2>2. (Aim(p, PhyAt(j), dev.regs, dev.log, Pair(cell["DPH"], cell["DPL"])))'
    BY <1>7, <1>9 DEF Aim, PhyAt, Pair
  <2>3. CASE j = 102
    BY <1>7, <2>1, <2>2, <2>3 DEF Lasting, PhyAt
  <2>4. CASE j = 120
    BY <1>7, <2>1, <2>2, <2>4 DEF Lasting, PhyAt
  <2>5. CASE j = 129
    BY <1>7, <2>1, <2>2, <2>5 DEF Lasting, PhyAt
  <2>. QED
    BY <2>3, <2>4, <2>5 DEF PhyPoints
<1>11. Passing(r0, p, j + 1)'
  BY <1>3, NothingPassed
<1>. QED
  BY <1>2, <1>5, <1>10, <1>11 DEF Stops, Stacked, Back, Where

LEMMA PhyStep ==
  ASSUME NEW r0, NEW p \in 0..4, InPhy(r0, p), Step
  PROVE Machine' /\ (InPhy(r0, p)' \/ AtPoint(r0, p)')
<1>0. PICK j \in PhyPoints : \E c : Inside(c) /\ CallsPhy(r0, p, j, c)
  BY DEF InPhy
<1>1. PICK c : Inside(c) /\ CallsPhy(r0, p, j, c)
  BY <1>0
<1>2. CASE Inside(c)'
  <2>1. Machine'
    BY <1>2 DEF Inside
  <2>2. CallsPhy(r0, p, j, c)'
    BY <1>1 DEF CallsPhy
  <2>. QED
    BY <1>2, <2>1, <2>2 DEF InPhy
<1>3. CASE Leaves(c)
  <2>1. Asks(c)
    BY <1>1 DEF Inside
  <2>2. Machine' /\ Stops(r0, p, j + 1)'
    BY <1>1, <1>3, <2>1, PhyReturns
  <2>3. j + 1 \in Points
    BY SMT DEF PhyPoints, Points
  <2>. QED
    BY <2>2, <2>3 DEF AtPoint
<1>. QED
  BY <1>1, <1>2, <1>3, InsideStep

(* The end of a routine, back to the loop. *)
LEMMA EndOfRoutine ==
  ASSUME NEW r0, NEW p \in 0..4, NEW i \in {21, 138}, Stops(r0, p, i), Machine, Step
  PROVE Machine' /\ InLoop(r0, p)'
<1>1. Insn = <<"ret">>
  <2>1. i \in Points
    BY SMT DEF Points
  <2>2. Insn = InsnAt(i)
    BY <2>1, PointInsn DEF Stops
  <2>. QED
    BY <2>2, SMT DEF InsnAt, EeeList
<1>2. stack = Back(i)
  <2>1. i \in Points \ (6..11)
    BY SMT DEF Points
  <2>. QED
    BY <2>1, StackedPoints DEF Stops
<1>3. stack' = Front(stack) /\ pc' = Last(stack) /\ UNCHANGED <<cell, rom, dev>>
  BY <1>1, Returning
<1>4. /\ i = 21 => stack' = <<>> /\ pc' = <<"port_init1_loop", 2>>
      /\ i = 138 => stack' = <<>> /\ pc' = <<"port_init1_loop", 3>>
  <2>1. /\ Front(<< <<"port_init1_loop", 2>> >>) = <<>> /\ Last(<< <<"port_init1_loop", 2>> >>) = <<"port_init1_loop", 2>>
        /\ Front(<< <<"port_init1_loop", 3>> >>) = <<>> /\ Last(<< <<"port_init1_loop", 3>> >>) = <<"port_init1_loop", 3>>
    BY DEF Front, Last
  <2>2. /\ i = 21 => stack = << <<"port_init1_loop", 2>> >>
        /\ i = 138 => stack = << <<"port_init1_loop", 3>> >>
    BY <1>2, SMT DEF Back
  <2>. QED
    BY <1>3, <2>1, <2>2
<1>5. Machine'
  BY <1>3 DEF Machine
<1>6. cell["R7"] = p /\ Progress(r0, p, i, dev.regs, dev.log)
  BY DEF Stops, Lasting
<1>7. CASE i = 21
  <2>1. Sane(r0, Nth(r0, p, 1), p + 1, dev.regs, dev.log)
    BY <1>6, <1>7, SMT DEF Progress
  <2>. QED
    BY <1>3, <1>4, <1>5, <1>6, <1>7, <2>1 DEF InLoop
<1>8. CASE i = 138
  <2>1. Sane(r0, Nth(r0, p + 1, 0), p + 1, dev.regs, dev.log)
    BY <1>6, <1>8, SMT DEF Progress
  <2>. QED
    BY <1>3, <1>4, <1>5, <1>6, <1>8, <2>1 DEF InLoop
<1>. QED
  BY <1>7, <1>8

LEMMA PointStep ==
  ASSUME NEW r0, NEW p \in 0..4, Contents(r0), AtPoint(r0, p), Machine, Step
  PROVE Machine' /\ (InLoop(r0, p)' \/ AtPoint(r0, p)' \/ InAccess(r0, p)' \/ InPhy(r0, p)')
<1>1. PICK i \in Points : Stops(r0, p, i)
  BY DEF AtPoint
<1>2. /\ i \in Straight \cup {5, 11, 118, 21, 138} \cup ReadPoints \cup WritePoints \cup PhyPoints
      /\ i \in Straight => i + 1 \in Points
      /\ 6 \in Points /\ 12 \in Points
  BY SMT DEF Points, Straight, ReadPoints, WritePoints, PhyPoints
<1>3. CASE i \in Straight
  <2>1. Machine' /\ Stops(r0, p, i + 1)'
    BY <1>1, <1>3, WalkStep
  <2>. QED
    BY <1>2, <1>3, <2>1 DEF AtPoint
<1>4. CASE i = 5
  <2>1. Machine' /\ Stops(r0, p, 6)'
    BY <1>1, <1>4, PushStep
  <2>. QED
    BY <1>2, <2>1 DEF AtPoint
<1>5. CASE i = 11
  <2>1. Machine' /\ Stops(r0, p, 12)'
    BY <1>1, <1>5, PopStep
  <2>. QED
    BY <1>2, <2>1 DEF AtPoint
<1>6. CASE i = 118
  BY <1>1, <1>6, BranchStep
<1>7. CASE i \in {21, 138}
  BY <1>1, <1>7, EndOfRoutine
<1>8. CASE i \in ReadPoints \cup WritePoints
  BY <1>1, <1>8, AccessCall
<1>9. CASE i \in PhyPoints
  BY <1>1, <1>9, PhyCall
<1>. QED
  BY <1>2, <1>3, <1>4, <1>5, <1>6, <1>7, <1>8, <1>9

(* The loop over the ports, hello.s:441: a call, or the next port. *)
LEMMA LoopCall ==
  ASSUME NEW r0, NEW p \in 0..4, NEW i \in {1, 101}, NEW k \in {1, 2}, Machine, Step, stack = <<>>,
         pc = <<"port_init1_loop", k>>, k = (IF i = 1 THEN 1 ELSE 2),
         cell["R7"] = p, Progress(r0, p, i, dev.regs, dev.log)
  PROVE Machine' /\ AtPoint(r0, p)'
<1>1. /\ i = 1 => Insn = <<"call", "port_init_eee">> /\ After = <<"port_init1_loop", 2>>
      /\ i = 101 => Insn = <<"call", "port_init_phyocp">> /\ After = <<"port_init1_loop", 3>>
  BY LoopCode, SMT
<1>2. /\ i = 1 => To("port_init_eee") = Where(1)
      /\ i = 101 => To("port_init_phyocp") = Where(101)
  BY SMT DEF To, Where
<1>3. pc' = Where(i) /\ stack' = Append(stack, After) /\ UNCHANGED <<cell, rom, dev>>
  BY <1>1, <1>2, Calling
<1>4. stack' = Stacked(i)
  <2>1. \A x : Append(<<>>, x) = <<x>>
    OBVIOUS
  <2>2. stack' = <<After>>
    BY <1>3, <2>1
  <2>3. /\ i = 1 => Stacked(i) = << <<"port_init1_loop", 2>> >>
        /\ i = 101 => Stacked(i) = << <<"port_init1_loop", 3>> >>
    BY SMT DEF Stacked, Back
  <2>. QED
    BY <1>1, <2>2, <2>3
<1>5. Machine'
  BY <1>3 DEF Machine
<1>6. Lasting(r0, p, i)
  BY DEF Lasting
<1>7. Lasting(r0, p, i)'
  BY <1>3, <1>6, LastingIdle
<1>8. Passing(r0, p, i)' /\ i \in Points
  BY SMT DEF Passing, Points
<1>9. Stops(r0, p, i)'
  BY <1>3, <1>4, <1>7, <1>8 DEF Stops, Stacked, Back, Where
<1>. QED
  BY <1>5, <1>8, <1>9 DEF AtPoint

LEMMA LoopStep ==
  ASSUME NEW r0, NEW p \in 0..4, InLoop(r0, p), Machine, Step
  PROVE Machine' /\ (AtPoint(r0, p)' \/ \E q \in 0..4 : InLoop(r0, q)')
<1>0. stack = <<>>
  BY DEF InLoop
<1>1. CASE pc = <<"port_init1", 1>> /\ p = 0 /\ Sane(r0, 0, 0, dev.regs, dev.log)
  <2>1. Insn = <<"movi", "R7", 0>> /\ After = <<"port_init1_loop", 1>>
    BY <1>1, LoopCode
  <2>2. Gives("R7", 0)
    BY <2>1, Constants, Loads DEF Used
  <2>3. /\ Machine' /\ pc' = <<"port_init1_loop", 1>> /\ stack' = <<>> /\ dev' = dev /\ (cell["R7"])' = 0
    BY <1>0, <2>1, <2>2 DEF Gives, Onwards, Used
  <2>4. Sane(r0, Nth(r0, 0, 0), 0, dev.regs, dev.log) /\ 0 \in 0..4
    BY <1>1, NthWrite
  <2>5. InLoop(r0, 0)'
    BY <2>3, <2>4 DEF InLoop
  <2>. QED
    BY <2>3, <2>4, <2>5
<1>2. CASE /\ pc = <<"port_init1_loop", 1>> /\ cell["R7"] = p
           /\ Sane(r0, Nth(r0, p, 0), p, dev.regs, dev.log)
  <2>1. Progress(r0, p, 1, dev.regs, dev.log)
    BY <1>2, SMT DEF Progress
  <2>. QED
    BY <1>0, <1>2, <2>1, LoopCall
<1>3. CASE /\ pc = <<"port_init1_loop", 2>> /\ cell["R7"] = p
           /\ Sane(r0, Nth(r0, p, 1), p + 1, dev.regs, dev.log)
  <2>1. Progress(r0, p, 101, dev.regs, dev.log)
    BY <1>3, SMT DEF Progress
  <2>. QED
    BY <1>0, <1>3, <2>1, LoopCall
<1>4. CASE /\ pc = <<"port_init1_loop", 3>> /\ cell["R7"] = p
           /\ Sane(r0, Nth(r0, p + 1, 0), p + 1, dev.regs, dev.log)
  <2>1. Insn = <<"inc", "R7">> /\ After = <<"port_init1_loop", 4>>
    BY <1>4, LoopCode
  <2>2. Gives("R7", p + 1)
    <3>1. cell["R7"] + 1 = p + 1 /\ p + 1 \in Byte
      BY <1>4, PortBytes
    <3>2. cell["R7"] + 1 \in Byte
      BY <3>1
    <3>3. Gives("R7", cell["R7"] + 1)
      BY <2>1, <3>2, Increments
    <3>. QED
      BY <3>1, <3>3 DEF Gives
  <2>3. /\ Machine' /\ pc' = <<"port_init1_loop", 4>> /\ stack' = <<>> /\ dev' = dev /\ (cell["R7"])' = p + 1
    BY <1>0, <2>1, <2>2 DEF Gives, Onwards, Used
  <2>4. InLoop(r0, p)'
    BY <1>4, <2>3 DEF InLoop
  <2>. QED
    BY <2>3, <2>4
<1>5. CASE /\ pc = <<"port_init1_loop", 4>> /\ cell["R7"] = p + 1
           /\ Sane(r0, Nth(r0, p + 1, 0), p + 1, dev.regs, dev.log)
  <2>1. Insn = <<"cjne", "R7", 5, "port_init1_loop">> /\ After = <<"port_init1_loop", 5>>
    BY <1>5, LoopCode
  <2>2. 5 \in Byte /\ "R7" \in Used
    BY ByteRange, SMT DEF Used
  <2>3. Same /\ pc' = IF cell["R7"] = 5 THEN After ELSE To("port_init1_loop")
    BY <2>1, <2>2, ComparesCell
  <2>4. Machine' /\ stack' = <<>> /\ UNCHANGED <<cell, dev>>
    BY <1>0, <2>3, SameMachine DEF Same
  <2>5. CASE p = 4
    <3>1. pc' = <<"port_init1_loop", 5>>
      BY <1>5, <2>1, <2>3, <2>5
    <3>2. InLoop(r0, p)'
      BY <1>5, <2>4, <2>5, <3>1 DEF InLoop
    <3>. QED
      BY <2>4, <3>2
  <2>6. CASE p # 4
    <3>1. p + 1 # 5 /\ p + 1 \in 0..4
      BY <2>6, SMT
    <3>2. pc' = <<"port_init1_loop", 1>>
      BY <1>5, <2>3, <3>1 DEF To
    <3>3. InLoop(r0, p + 1)'
      BY <1>5, <2>4, <3>2 DEF InLoop
    <3>. QED
      BY <2>4, <3>1, <3>3
  <2>. QED
    BY <2>5, <2>6
<1>6. CASE pc = <<"port_init1_loop", 5>>
  <2>1. stack # <<>>
    BY <1>6, LoopCode, Returning
  <2>. QED
    BY <1>0, <2>1
<1>. QED
  BY <1>1, <1>2, <1>3, <1>4, <1>5, <1>6 DEF InLoop

-----------------------------------------------------------------------------
(* The inductive invariant of port_init1 *)

Initializing == Calls("port_init1")
InPort(r0, p) == /\ InLoop(r0, p) \/ AtPoint(r0, p) \/ InAccess(r0, p) \/ InPhy(r0, p)
                 /\ Machine

(* Wherever the routines are, for a port, what they have done and what the    *)
(* working cells hold is what the registers before the call make them.       *)
PortInv == Initializing =>
  /\ Contents(job.regs) /\ want = Plan(job.regs)
  /\ \E p \in 0..4 : InPort(job.regs, p)

LEMMA PortStepKeeps ==
  ASSUME Initializing, PortInv, Step, UNCHANGED <<job, want>>
  PROVE PortInv'
<1>1. PICK r0 : r0 = job.regs
  OBVIOUS
<1>2. Contents(r0) /\ want = Plan(r0)
  BY <1>1 DEF PortInv
<1>3. PICK p \in 0..4 : InPort(r0, p)
  BY <1>1 DEF PortInv
<1>4. Machine
  BY <1>3 DEF InPort
<1>5. \E q \in 0..4 : InPort(r0, q)'
  <2>1. CASE InLoop(r0, p)
    BY <1>4, <2>1, LoopStep DEF InPort
  <2>2. CASE AtPoint(r0, p)
    BY <1>2, <1>4, <2>2, PointStep DEF InPort
  <2>3. CASE InAccess(r0, p)
    BY <1>2, <1>4, <2>3, AccessStep DEF InPort
  <2>4. CASE InPhy(r0, p)
    BY <2>4, PhyStep DEF InPort
  <2>. QED
    BY <1>3, <2>1, <2>2, <2>3, <2>4 DEF InPort
<1>6. (job.regs)' = r0 /\ want' = want
  BY <1>1
<1>7. \E q \in 0..4 : InPort(job.regs, q)'
  BY <1>5, <1>6
<1>8. Contents(job.regs)' /\ want' = Plan(job.regs)'
  BY <1>2, <1>6
<1>. QED
  BY <1>7, <1>8 DEF PortInv

(* A log without an entry has done nothing. *)
LEMMA NothingDone ==
  ASSUME NEW r0
  PROVE Sane(r0, 0, 0, r0, <<>>)
<1>1. Len(<<>>) = 0 /\ 1..0 = {}
  BY SMT
<1>2. Shown(<<>>, 0) = 0
  <2>1. {j \in 1..0 : <<>>[j][1] # 7445} = {}
    BY <1>1
  <2>. QED
    BY <2>1, FS_EmptySet DEF Shown
<1>. QED
  BY <1>1, <1>2 DEF Sane, Matches, Untouched

LEMMA PortInitial ==
  ASSUME Init PROVE PortInv
<1>. SUFFICES ASSUME Initializing PROVE PortInv
  BY DEF PortInv
<1>1. PortCall
  BY DEF Init, Initializing, Calls, AddressCall, ListCall, DumpCall, MainCall, TestCall
<1>2. /\ Contents(job.regs) /\ want = Plan(job.regs) /\ job.left \in Byte
      /\ dev = PowerUp(job.regs, <<>>)
      /\ pc = <<"port_init1", 1>> /\ stack = <<>>
  BY <1>1 DEF PortCall, Enter, To, Contents
<1>3. cell = [n \in Cell |-> IF n \in DOMAIN <<>> THEN <<>>[n] ELSE job.left]
  BY <1>1 DEF PortCall, Enter
<1>4. cell \in [Cell -> Byte]
  <2>1. DOMAIN <<>> = {}
    OBVIOUS
  <2>. QED
    BY <1>2, <1>3, <2>1
<1>5. Switch(dev) /\ dev.regs = job.regs /\ dev.log = <<>>
  <2>1. DOMAIN dev = {"sfr", "regs", "xram", "ssp", "out", "ti", "log", "ocp"}
    BY <1>2 DEF PowerUp
  <2>2. /\ dev.sfr = [n \in IndaccFile \cup PedmaFile |-> 0] /\ dev.regs = job.regs
        /\ dev.log = <<>>
    BY <1>2 DEF PowerUp
  <2>3. 0 \in Byte
    BY ByteRange, SMT
  <2>4. dev.sfr \in [IndaccFile \cup PedmaFile -> Byte]
    BY <2>2, <2>3
  <2>5. dev.log \in Seq(Word \X Word)
    BY <2>2
  <2>. QED
    BY <1>2, <2>1, <2>2, <2>4, <2>5 DEF Switch, Contents
<1>6. Sane(job.regs, 0, 0, dev.regs, dev.log)
  BY <1>5, NothingDone
<1>7. InPort(job.regs, 0) /\ 0 \in 0..4
  BY <1>2, <1>4, <1>5, <1>6 DEF InPort, InLoop, Machine
<1>. QED
  BY <1>2, <1>7 DEF PortInv

LEMMA PortUnmoved ==
  ASSUME PortInv, UNCHANGED routineVars
  PROVE PortInv'
<1>. SUFFICES ASSUME Initializing PROVE PortInv'
  BY DEF PortInv, Initializing, Calls, routineVars
<1>1. pc' = pc /\ cell' = cell /\ psw' = psw /\ stack' = stack /\ dev' = dev /\ job' = job /\ want' = want
  BY DEF routineVars
<1>2. Machine' = Machine
  BY <1>1 DEF Machine
<1>3. \A i : Addressed(i)' = Addressed(i)
  BY <1>1 DEF Addressed
<1>4. \A r0, p, i : Lasting(r0, p, i)' = Lasting(r0, p, i) /\ Passing(r0, p, i)' = Passing(r0, p, i)
  BY <1>1 DEF Lasting, Passing
<1>5. \A c, i : Values(c, i)' = Values(c, i)
  BY <1>1 DEF Values
<1>6. \A c : Inside(c)' = Inside(c)
  BY <1>1, <1>2, <1>3, <1>5 DEF Inside, InRoutine, InRead, InWrite, InPoll, Frame, AfterCall, Asks
<1>7. \A r0, p : AtPoint(r0, p)' = AtPoint(r0, p)
  BY <1>1, <1>4 DEF AtPoint, Stops, Stacked, Back, Where
<1>8. \A r0, p : InAccess(r0, p)' = InAccess(r0, p)
  BY <1>1, <1>3, <1>4 DEF InAccess, Back, Where
<1>9. \A r0, p : InPhy(r0, p)' = InPhy(r0, p)
  BY <1>6 DEF InPhy, CallsPhy
<1>10. \A r0, p : InLoop(r0, p)' = InLoop(r0, p)
  BY <1>1 DEF InLoop
<1>11. \A r0, p : InPort(r0, p)' = InPort(r0, p)
  BY <1>2, <1>7, <1>8, <1>9, <1>10 DEF InPort
<1>12. PICK r0 : r0 = job.regs
  OBVIOUS
<1>13. Contents(r0) /\ want = Plan(r0) /\ \E p \in 0..4 : InPort(r0, p)
  BY <1>12 DEF PortInv
<1>14. (job.regs)' = r0
  BY <1>1, <1>12
<1>15. \E p \in 0..4 : InPort(r0, p)'
  BY <1>11, <1>13
<1>16. \E p \in 0..4 : InPort(job.regs, p)'
  BY <1>14, <1>15
<1>. QED
  BY <1>1, <1>13, <1>14, <1>16 DEF PortInv

(* Wherever port_init1 and the routines that it calls are, the registers      *)
(* written so far are the first of the plan, in order, and the working cells, *)
(* the port of the switch and the return points are those of the port at hand *)
(* (hello.s:305 to :448).                                                   *)
THEOREM PortInvariant == Spec => []PortInv
<1>1. Init => PortInv
  BY PortInitial
<1>2. PortInv /\ [NextInsn \/ Finished]_routineVars => PortInv'
  <2>. SUFFICES ASSUME PortInv, [NextInsn \/ Finished]_routineVars PROVE PortInv'
    OBVIOUS
  <2>1. CASE NextInsn
    <3>1. Initializing' <=> Initializing
      BY <2>1 DEF NextInsn, Initializing, Calls
    <3>2. ~Initializing => PortInv'
      BY <3>1 DEF PortInv
    <3>3. Initializing => PortInv'
      BY <2>1, PortStepKeeps DEF NextInsn
    <3>. QED
      BY <3>2, <3>3
  <2>2. CASE Finished \/ UNCHANGED routineVars
    BY <2>2, PortUnmoved DEF Finished, Halt, vars, routineVars
  <2>. QED
    BY <2>1, <2>2
<1>. QED
  BY <1>1, <1>2, PTL DEF Spec

-----------------------------------------------------------------------------
(* What the invariant says of the log *)

(* How far the plan is done, at every point. *)
Placed(r0, r, l) == \E n \in 0..(5 * PerPort(r0)), from \in 0..5 : Sane(r0, n, from, r, l)

LEMMA NthInPlan ==
  ASSUME NEW r0, NEW p \in 0..4
  PROVE /\ \A k \in 0..3 : Nth(r0, p, k) \in 0..(5 * PerPort(r0))
        /\ Supported(r0) => Nth(r0, p, 4) \in 0..(5 * PerPort(r0))
        /\ Nth(r0, p + 1, 0) \in 0..(5 * PerPort(r0))
        /\ p = 4 => Nth(r0, p + 1, 0) = 5 * PerPort(r0)
<1>1. CASE Supported(r0)
  <2>1. PerPort(r0) = 5
    BY <1>1 DEF PerPort
  <2>2. \A k : Nth(r0, p, k) = 5 * p + k /\ Nth(r0, p + 1, k) = 5 * (p + 1) + k
    BY <2>1 DEF Nth
  <2>3. \A k \in 0..4 : 5 * p + k \in 0..(5 * 5)
    BY SMT
  <2>4. 5 * (p + 1) + 0 \in 0..(5 * 5) /\ (p = 4 => 5 * (p + 1) + 0 = 5 * 5)
    BY SMT
  <2>. QED
    BY <2>1, <2>2, <2>3, <2>4
<1>2. CASE ~Supported(r0)
  <2>1. PerPort(r0) = 3
    BY <1>2 DEF PerPort
  <2>2. \A k : Nth(r0, p, k) = 3 * p + k /\ Nth(r0, p + 1, k) = 3 * (p + 1) + k
    BY <2>1 DEF Nth
  <2>3. \A k \in 0..3 : 3 * p + k \in 0..(5 * 3)
    BY SMT
  <2>4. 3 * (p + 1) + 0 \in 0..(5 * 3) /\ (p = 4 => 3 * (p + 1) + 0 = 5 * 3)
    BY SMT
  <2>. QED
    BY <1>2, <2>1, <2>2, <2>3, <2>4
<1>. QED
  BY <1>1, <1>2

LEMMA ProgressPlaced ==
  ASSUME NEW r0, NEW p \in 0..4, NEW i \in Points, NEW r, NEW l, Progress(r0, p, i, r, l)
  PROVE Placed(r0, r, l)
<1>1. p \in 0..5 /\ p + 1 \in 0..5
  BY SMT
<1>2. CASE i \in 1..20
  <2>1. Sane(r0, Nth(r0, p, 0), p, r, l)
    BY <1>2 DEF Progress
  <2>. QED
    BY <1>1, <2>1, NthInPlan DEF Placed
<1>3. CASE i = 21 \/ i \in 101..109
  <2>1. Sane(r0, Nth(r0, p, 1), p + 1, r, l)
    BY <1>3 DEF Progress
  <2>. QED
    BY <1>1, <2>1, NthInPlan DEF Placed
<1>4. CASE i \in 110..113
  <2>1. Sane(r0, Nth(r0, p, 2), p + 1, r, l)
    BY <1>4 DEF Progress
  <2>. QED
    BY <1>1, <2>1, NthInPlan DEF Placed
<1>5. CASE i \in 114..127
  <2>1. Sane(r0, Nth(r0, p, 3), p + 1, r, l)
    BY <1>5 DEF Progress
  <2>. QED
    BY <1>1, <2>1, NthInPlan DEF Placed
<1>6. CASE i \in 128..137
  <2>1. Sane(r0, Nth(r0, p, 4), p + 1, r, l) /\ Supported(r0)
    BY <1>6, SMT DEF Progress
  <2>. QED
    BY <1>1, <2>1, NthInPlan DEF Placed
<1>7. CASE i = 138
  <2>1. Sane(r0, Nth(r0, p + 1, 0), p + 1, r, l)
    BY <1>7 DEF Progress
  <2>. QED
    BY <1>1, <2>1, NthInPlan DEF Placed
<1>. QED
  BY <1>2, <1>3, <1>4, <1>5, <1>6, <1>7, SMT DEF Points

LEMMA PrefixPlaced ==
  ASSUME NEW r0, NEW c, Asks(c), Placed(r0, c.regs, c.log)
  PROVE Placed(r0, Assign(c.regs, 7445, Prefixed(c)), Append(c.log, <<7445, Prefixed(c)>>))
<1>1. PICK n \in 0..(5 * PerPort(r0)), from \in 0..5 : Sane(r0, n, from, c.regs, c.log)
  BY DEF Placed
<1>2. n \in Nat /\ from \in Nat
  BY SMT
<1>3. c.log \in Seq(Word \X Word)
  BY DEF Asks
<1>4. Prefixed(c) \in Word /\ Prefixed(c) \div 64 = Holding(c.regs, 7445) \div 64
  <2>1. Prefixed(c) \div 64 = Old(c) \div 64
    BY KeepsUpper
  <2>2. Old(c) = Holding(c.regs, 7445)
    BY DEF Old, Holding
  <2>3. Hi(Old(c)) \in Byte
    BY Fields
  <2>4. NewLow(c) \in Byte
    BY Sums
  <2>5. Prefixed(c) \in Word
    BY <2>3, <2>4, PairIsWord DEF Prefixed
  <2>. QED
    BY <2>1, <2>2, <2>5
<1>5. NewPrefix(r0, n, from, c.regs, c.log, Prefixed(c))
  BY <1>1, <1>2, <1>3, <1>4 DEF NewPrefix
<1>. QED
  BY <1>5, PrefixKeepsPlace DEF Placed

LEMMA PhyPlaced ==
  ASSUME NEW r0, NEW p \in 0..4, InPhy(r0, p)
  PROVE Placed(r0, dev.regs, dev.log)
<1>0. PICK j \in PhyPoints : \E c : Inside(c) /\ CallsPhy(r0, p, j, c)
  BY DEF InPhy
<1>1. PICK c : Inside(c) /\ CallsPhy(r0, p, j, c)
  BY <1>0
<1>2. Asks(c) /\ Progress(r0, p, j, c.regs, c.log) /\ j \in Points
  BY <1>1, SMT DEF Inside, CallsPhy, PhyPoints, Points
<1>3. Placed(r0, c.regs, c.log)
  BY <1>2, ProgressPlaced
<1>4. PICK i \in 1..54 : Values(c, i)
  <2>1. InRoutine(c) \/ InRead(c) \/ InWrite(c) \/ InPoll(c)
    BY <1>1 DEF Inside
  <2>2. 4 \in 1..54 /\ 5 \in 1..54 /\ 16 \in 1..54 /\ 17 \in 1..54
    BY SMT
  <2>. QED
    BY <2>1, <2>2 DEF InRoutine, InRead, InWrite, InPoll
<1>5. \/ dev.regs = c.regs /\ dev.log = c.log
      \/ dev.regs = Assign(c.regs, 7445, Prefixed(c)) /\ dev.log = Append(c.log, <<7445, Prefixed(c)>>)
  <2>1. CASE i <= 16
    BY <1>4, <2>1 DEF Values
  <2>2. CASE i > 16
    BY <1>4, <2>2 DEF Values
  <2>. QED
    BY <2>1, <2>2, SMT
<1>6. Placed(r0, Assign(c.regs, 7445, Prefixed(c)), Append(c.log, <<7445, Prefixed(c)>>))
  BY <1>2, <1>3, PrefixPlaced
<1>7. CASE dev.regs = c.regs /\ dev.log = c.log
  BY <1>3, <1>7
<1>8. CASE dev.regs = Assign(c.regs, 7445, Prefixed(c)) /\ dev.log = Append(c.log, <<7445, Prefixed(c)>>)
  BY <1>6, <1>8
<1>. QED
  BY <1>5, <1>7, <1>8

LEMMA LoopPlaced ==
  ASSUME NEW r0, NEW p \in 0..4, InLoop(r0, p)
  PROVE Placed(r0, dev.regs, dev.log)
<1>1. p \in 0..5 /\ p + 1 \in 0..5
  BY SMT
<1>2. \/ p = 0 /\ Sane(r0, 0, 0, dev.regs, dev.log)
      \/ Sane(r0, Nth(r0, p, 0), p, dev.regs, dev.log)
      \/ Sane(r0, Nth(r0, p, 1), p + 1, dev.regs, dev.log)
      \/ Sane(r0, Nth(r0, p + 1, 0), p + 1, dev.regs, dev.log)
  BY DEF InLoop
<1>3. CASE p = 0 /\ Sane(r0, 0, 0, dev.regs, dev.log)
  <2>1. 0 \in 0..(5 * PerPort(r0))
    BY SMT DEF PerPort
  <2>. QED
    BY <1>1, <1>3, <2>1 DEF Placed
<1>4. CASE Sane(r0, Nth(r0, p, 0), p, dev.regs, dev.log)
  BY <1>1, <1>4, NthInPlan DEF Placed
<1>5. CASE Sane(r0, Nth(r0, p, 1), p + 1, dev.regs, dev.log)
  BY <1>1, <1>5, NthInPlan DEF Placed
<1>6. CASE Sane(r0, Nth(r0, p + 1, 0), p + 1, dev.regs, dev.log)
  BY <1>1, <1>6, NthInPlan DEF Placed
<1>. QED
  BY <1>2, <1>3, <1>4, <1>5, <1>6

LEMMA PortPlaced ==
  ASSUME NEW r0, NEW p \in 0..4, InPort(r0, p)
  PROVE Placed(r0, dev.regs, dev.log)
<1>1. CASE InLoop(r0, p)
  BY <1>1, LoopPlaced
<1>2. CASE AtPoint(r0, p)
  <2>1. PICK i \in Points : Progress(r0, p, i, dev.regs, dev.log)
    BY <1>2 DEF AtPoint, Stops, Lasting
  <2>2. PICK r, l : r = dev.regs /\ l = dev.log
    OBVIOUS
  <2>3. Placed(r0, r, l)
    BY <2>1, <2>2, ProgressPlaced
  <2>. QED
    BY <2>2, <2>3
<1>3. CASE InAccess(r0, p)
  <2>1. PICK s \in ReadPoints \cup WritePoints : Lasting(r0, p, s) \/ Lasting(r0, p, s + 1)
    BY <1>3 DEF InAccess
  <2>2. s \in Points /\ s + 1 \in Points
    BY SMT DEF ReadPoints, WritePoints, Points
  <2>3. PICK i \in Points : Progress(r0, p, i, dev.regs, dev.log)
    BY <2>1, <2>2 DEF Lasting
  <2>4. PICK r, l : r = dev.regs /\ l = dev.log
    OBVIOUS
  <2>5. Placed(r0, r, l)
    BY <2>3, <2>4, ProgressPlaced
  <2>. QED
    BY <2>4, <2>5
<1>4. CASE InPhy(r0, p)
  BY <1>4, PhyPlaced
<1>. QED
  BY <1>1, <1>2, <1>3, <1>4 DEF InPort

(* The routine returns from its loop only. *)
LEMMA OverInLoop ==
  ASSUME NEW r0, NEW p \in 0..4, InPort(r0, p), Over
  PROVE Sane(r0, 5 * PerPort(r0), 5, dev.regs, dev.log)
<1>1. stack = <<>> /\ Insn[1] = "ret"
  BY DEF Over, Op
<1>2. \A S, s, x : s \in Seq(S) => Append(s, x) # <<>>
  BY TopOfStack
<1>3. ~AtPoint(r0, p)
  <2>1. ASSUME NEW i \in Points PROVE Stacked(i) # <<>>
    <3>1. Back(i) # <<>>
      BY DEF Back
    <3>2. PICK S : Back(i) \in Seq(S)
      BY StackedPoints
    <3>. QED
      BY <1>2, <3>1, <3>2 DEF Stacked
  <2>. QED
    BY <1>1, <2>1 DEF AtPoint, Stops
<1>4. ~InAccess(r0, p)
  <2>1. ASSUME NEW s \in ReadPoints \cup WritePoints PROVE Append(Back(s), Where(s + 1)) # <<>>
    <3>1. s \in Points
      BY SMT DEF ReadPoints, WritePoints, Points
    <3>2. PICK S : Back(s) \in Seq(S)
      BY <3>1, StackedPoints
    <3>. QED
      BY <1>2, <3>2
  <2>. QED
    BY <1>1, <2>1 DEF InAccess
<1>5. ~InPhy(r0, p)
  <2>1. ASSUME NEW j \in PhyPoints, NEW c, Inside(c), CallsPhy(r0, p, j, c) PROVE FALSE
    <3>1. j \in Points
      BY SMT DEF PhyPoints, Points
    <3>2. PICK S : Back(j) \in Seq(S)
      BY <3>1, StackedPoints
    <3>3. c.back # <<>>
      BY <1>2, <2>1, <3>2 DEF CallsPhy
    <3>4. PICK T : c.back \in Seq(T)
      BY <2>1 DEF Inside, Asks
    <3>5. \A i : Frame(c, i) # <<>> /\ AfterCall(c, i) # <<>>
      BY <1>2, <3>3, <3>4 DEF Frame, AfterCall
    <3>. QED
      BY <1>1, <2>1, <3>5 DEF Inside, InRoutine, InRead, InWrite, InPoll
  <2>. QED
    BY <2>1 DEF InPhy
<1>6. InLoop(r0, p)
  BY <1>3, <1>4, <1>5 DEF InPort
<1>7. p = 4 /\ Sane(r0, Nth(r0, p + 1, 0), p + 1, dev.regs, dev.log)
  BY <1>1, <1>6, LoopCode DEF InLoop
<1>8. p + 1 = 5 /\ Nth(r0, p + 1, 0) = 5 * PerPort(r0)
  BY <1>7, NthInPlan
<1>. QED
  BY <1>7, <1>8

LEMMA LengthOfPlan ==
  ASSUME NEW r0
  PROVE DOMAIN Plan(r0) = 1..(5 * PerPort(r0)) /\ Len(Plan(r0)) = 5 * PerPort(r0)
<1>. DEFINE w == Plan(r0)
            n == 5 * PerPort(r0)
            S == {w[k] : k \in 1..n}
<1>1. n \in Nat
  BY SMT DEF PerPort
<1>2. DOMAIN w = 1..n /\ w = [k \in 1..n |-> w[k]]
  BY DEF Plan
<1>. HIDE DEF w, n
<1>3. w \in [1..n -> S]
  BY <1>2
<1>4. w \in Seq(S)
  BY <1>1, <1>3
<1>5. Len(w) = n
  BY <1>1, <1>2, <1>4
<1>. QED
  BY <1>2, <1>5 DEF w, n

LEMMA FollowsWhenPlaced == PortInv => FollowsPlan
<1>. SUFFICES ASSUME PortInv, Initializing
              PROVE /\ \A i \in 1..Len(dev.log) :
                         dev.log[i][1] # 7445 => /\ Shown(dev.log, i) \in DOMAIN want
                                                 /\ Meaning(job.regs, dev.log, i) = want[Shown(dev.log, i)]
                    /\ Over => Shown(dev.log, Len(dev.log)) = Len(want)
                    /\ Holding(dev.regs, 7445) \div 64 = Holding(job.regs, 7445) \div 64
  BY DEF FollowsPlan, Initializing
<1>1. PICK r0 : r0 = job.regs
  OBVIOUS
<1>2. want = Plan(r0)
  BY <1>1 DEF PortInv
<1>3. PICK p \in 0..4 : InPort(r0, p)
  BY <1>1 DEF PortInv
<1>4. DOMAIN want = 1..(5 * PerPort(r0)) /\ Len(want) = 5 * PerPort(r0)
  BY <1>2, LengthOfPlan
<1>5. PICK n \in 0..(5 * PerPort(r0)), from \in 0..5 : Sane(r0, n, from, dev.regs, dev.log)
  BY <1>3, PortPlaced DEF Placed
<1>6. 1..n \subseteq 1..(5 * PerPort(r0))
  BY SMT DEF PerPort
<1>7. \A i \in 1..Len(dev.log) :
        dev.log[i][1] # 7445 => Shown(dev.log, i) \in 1..n /\ Meaning(r0, dev.log, i) = Plan(r0)[Shown(dev.log, i)]
  BY <1>5 DEF Sane, Matches
<1>8. Holding(dev.regs, 7445) \div 64 = Holding(r0, 7445) \div 64
  BY <1>5 DEF Sane, Untouched
<1>9. Over => Shown(dev.log, Len(dev.log)) = 5 * PerPort(r0)
  BY <1>3, OverInLoop DEF Sane, Matches
<1>10. \A i \in 1..Len(dev.log) :
         dev.log[i][1] # 7445 => /\ Shown(dev.log, i) \in DOMAIN want
                                 /\ Meaning(job.regs, dev.log, i) = want[Shown(dev.log, i)]
  BY <1>1, <1>2, <1>4, <1>6, <1>7
<1>. QED
  BY <1>1, <1>4, <1>8, <1>9, <1>10

(* port_init1: for every content of the switch registers and of the working    *)
(* cells before the call, every write is the next one of the plan, a write     *)
(* behind the window reaches its PHY register in its port's window, and none   *)
(* is missing when the routine returns (hello.s:441); the bits of 0x1d15       *)
(* above the prefix are kept (hello.s:338).                                  *)
THEOREM PlanFollowed == Spec => []FollowsPlan
  BY PortInvariant, FollowsWhenPlaced, PTL

-----------------------------------------------------------------------------
(* The routines a dump calls.  Each is called with m characters of job j     *)
(* sent and s on the stack, sends some more, and returns with s as it was.   *)

Sits(j, m, s, l, i) == pc = <<l, i>> /\ stack = s /\ dev.out = Sent(j, m)
Home(j, m, s) == pc' = Last(s) /\ stack' = Front(s) /\ (dev.out)' = Sent(j, m)

(* What such a routine leaves alone: all cells but A, or but A and B.         *)
Steady == Live' /\ AskedSame /\ \A k \in DumpCells \ {"A"} : (cell[k])' = cell[k]
Calm == Live' /\ AskedSame /\ \A k \in DumpCells \ {"A", "B"} : (cell[k])' = cell[k]

(* Leaving all but A alone is leaving all but A and B alone.                 *)
LEMMA SteadyIsCalm == Steady => Calm
  BY DEF Steady, Calm

(* Such a routine keeps every cell but A.                                    *)
LEMMA SteadyByte ==
  ASSUME Steady, NEW k \in DumpCells \ {"A"}
  PROVE (cell[k])' = cell[k]
  BY DEF Steady

(* An instruction that changes no cell is one ...                            *)
LEMMA StillIsSteady ==
  ASSUME Still, psw' = psw \/ AskedSame
  PROVE Steady /\ A' = A /\ (dev.out)' = dev.out
  BY DEF Still, Steady, A, AskedSame, Asked

(* ... and so is one that computes into A.                                   *)
LEMMA MakesIsSteady ==
  ASSUME NEW v, Makes("A", v), psw' = psw \/ AskedSame
  PROVE Steady /\ A' = v /\ Onwards /\ (dev.out)' = dev.out
<1>1. "A" \in DumpCells
  BY DEF DumpCells
<1>. QED
  BY <1>1 DEF Makes, Steady, A, AskedSame, Asked

(* From one instruction to the next, or to a label.                           *)
LEMMA Follow ==
  ASSUME NEW j, NEW m, NEW s, NEW l, NEW i, Sits(j, m, s, l, i),
         NEW k, NEW e, After = <<k, e>>, Onwards, (dev.out)' = dev.out
  PROVE Sits(j, m, s, k, e)'
  BY DEF Sits, Onwards

(* RET leads home, with what has been sent.                                  *)
LEMMA Returns ==
  ASSUME NEW j, NEW m, NEW s, NEW l, NEW i, Sits(j, m, s, l, i), Live, Step, Insn = <<"ret">>
  PROVE Steady /\ A' = A /\ Home(j, m, s)
<1>1. Still /\ psw' = psw /\ pc' = Last(stack) /\ stack' = Front(stack)
  BY DumpReturns
<1>. QED
  BY <1>1, StillIsSteady DEF Sits, Home

(* A call leads into the routine, with the return point on the stack.        *)
LEMMA Invokes ==
  ASSUME NEW j, NEW m, NEW s, NEW l, NEW i, Sits(j, m, s, l, i), Live, Step,
         NEW c, Insn = <<"call", c>>, NEW e, After = <<l, e>>
  PROVE Steady /\ A' = A /\ Sits(j, m, Append(s, <<l, e>>), c, 1)'
<1>1. Still /\ psw' = psw /\ pc' = To(c) /\ stack' = Append(stack, After)
  BY DumpCalls
<1>. QED
  BY <1>1, StillIsSteady DEF Sits, To

(* Home from a call is the instruction after it.                             *)
LEMMA HomeSits ==
  ASSUME NEW j, NEW m, NEW S, NEW s \in Seq(S), NEW l, NEW i, Home(j, m, Append(s, <<l, i>>))
  PROVE Sits(j, m, s, l, i)'
  BY TopOfStack DEF Home, Sits

(* serial_write                                                              *)
Sending(j, m, s) ==
  \/ \E i \in {1, 2} : Sits(j, m, s, "serial_write", i) /\ A = Char(j, m)
  \/ \E i \in {1, 2} : Sits(j, m + 1, s, "serial_write_wait", i)

(* serial_write sends its character, and waits until it is sent.             *)
LEMMA SendingKeeps ==
  ASSUME Live, Step, NEW j, NEW m \in Nat, NEW s, Sending(j, m, s)
  PROVE Steady /\ (Sending(j, m, s)' \/ Home(j, m + 1, s))
<1>1. CASE Sits(j, m, s, "serial_write", 1) /\ A = Char(j, m)
  <2>1. Insn = <<"clrb", "TI">> /\ After = <<"serial_write", 2>>
    BY <1>1, SerialWriteCode DEF Sits
  <2>2. Live' /\ Onwards /\ UNCHANGED <<cell, psw>> /\ (dev.out)' = dev.out
    BY <2>1, ClearsSent
  <2>3. Sits(j, m, s, "serial_write", 2)'
    BY <1>1, <2>1, <2>2, Follow
  <2>4. A' = A /\ Steady
    BY <2>2 DEF A, Steady, AskedSame, Asked
  <2>. QED
    BY <1>1, <2>3, <2>4 DEF Sending
<1>2. CASE Sits(j, m, s, "serial_write", 2) /\ A = Char(j, m)
  <2>1. Insn = <<"movx", "SBUF", "A">> /\ After = <<"serial_write_wait", 1>>
    BY <1>2, SerialWriteCode DEF Sits
  <2>2. Live' /\ Onwards /\ UNCHANGED <<cell, psw>> /\ (dev.out)' = Append(dev.out, A)
    BY <2>1, Sends
  <2>3. (dev.out)' = Sent(j, m + 1)
    BY <1>2, <2>2, TextGrows DEF Sits
  <2>4. Sits(j, m + 1, s, "serial_write_wait", 1)'
    BY <1>2, <2>1, <2>2, <2>3 DEF Sits, Onwards
  <2>5. Steady
    BY <2>2 DEF Steady, AskedSame, Asked
  <2>. QED
    BY <2>4, <2>5 DEF Sending
<1>3. CASE Sits(j, m + 1, s, "serial_write_wait", 1)
  <2>1. Insn = <<"jnb", "TI", "serial_write_wait">> /\ After = <<"serial_write_wait", 2>>
    BY <1>3, WaitCode DEF Sits
  <2>2. Still /\ UNCHANGED <<psw, stack>> /\ pc' = IF dev.ti THEN After ELSE To("serial_write_wait")
    BY <2>1, Branches
  <2>3. Steady /\ (dev.out)' = dev.out
    BY <2>2, StillIsSteady
  <2>4. pc' = <<"serial_write_wait", 1>> \/ pc' = <<"serial_write_wait", 2>>
    BY <2>1, <2>2 DEF To
  <2>5. Sits(j, m + 1, s, "serial_write_wait", 1)' \/ Sits(j, m + 1, s, "serial_write_wait", 2)'
    BY <1>3, <2>2, <2>3, <2>4 DEF Sits
  <2>. QED
    BY <2>3, <2>5 DEF Sending
<1>4. CASE Sits(j, m + 1, s, "serial_write_wait", 2)
  <2>1. Insn = <<"ret">>
    BY <1>4, WaitCode DEF Sits
  <2>. QED
    BY <1>4, <2>1, Returns
<1>. QED
  BY <1>1, <1>2, <1>3, <1>4 DEF Sending

(* The low nibble, and the high one of swapped nibbles.                      *)
LEMMA LowNibble ==
  ASSUME NEW x \in Byte
  PROVE /\ BitAnd(x, 15) = x % 16
        /\ (x \div 16) + 16 * (x % 16) \in Byte
        /\ ((x \div 16) + 16 * (x % 16)) % 16 = x \div 16
        /\ x \div 16 \in 0..15 /\ x % 16 \in 0..15
<1>0. x \in Int /\ 0 <= x /\ x <= 255
  BY ByteRange
<1>. DEFINE b(p) == IF (x \div p) % 2 = 1 /\ (15 \div p) % 2 = 1 THEN p ELSE 0
<1>1. BitAnd(x, 15) = b(1) + b(2) + b(4) + b(8) + b(16) + b(32) + b(64) + b(128)
  BY AndOfBytes
<1>2. (15 \div 1) % 2 = 1 /\ (15 \div 2) % 2 = 1 /\ (15 \div 4) % 2 = 1 /\ (15 \div 8) % 2 = 1
  BY SMT
<1>3. (15 \div 16) % 2 = 0 /\ (15 \div 32) % 2 = 0 /\ (15 \div 64) % 2 = 0 /\ (15 \div 128) % 2 = 0
  BY SMT
<1>4. x % 16 = (IF (x \div 1) % 2 = 1 THEN 1 ELSE 0) + (IF (x \div 2) % 2 = 1 THEN 2 ELSE 0)
               + (IF (x \div 4) % 2 = 1 THEN 4 ELSE 0) + (IF (x \div 8) % 2 = 1 THEN 8 ELSE 0)
  BY <1>0, SMT
<1>5. b(16) = 0 /\ b(32) = 0 /\ b(64) = 0 /\ b(128) = 0
  BY <1>3, SMT
<1>6. /\ b(1) = IF (x \div 1) % 2 = 1 THEN 1 ELSE 0
      /\ b(2) = IF (x \div 2) % 2 = 1 THEN 2 ELSE 0
      /\ b(4) = IF (x \div 4) % 2 = 1 THEN 4 ELSE 0
      /\ b(8) = IF (x \div 8) % 2 = 1 THEN 8 ELSE 0
  BY <1>2
<1>7. BitAnd(x, 15) = x % 16
  <2>. HIDE DEF b
  <2>1. b(1) \in Int /\ b(2) \in Int /\ b(4) \in Int /\ b(8) \in Int
    BY <1>6, SMT
  <2>2. BitAnd(x, 15) = b(1) + b(2) + b(4) + b(8)
    BY <1>1, <1>5, <2>1, SMT
  <2>. QED
    BY <1>4, <1>6, <2>2
<1>8. x \div 16 \in 0..15 /\ x % 16 \in 0..15
  BY <1>0, SMT
<1>9. ((x \div 16) + 16 * (x % 16)) % 16 = x \div 16
  BY <1>8, SMT
<1>10. (x \div 16) + 16 * (x % 16) \in Byte
  <2>1. \A n : n \in Int /\ 0 <= n /\ n <= 255 => n \in Byte
    BY ByteRange
  <2>2. PICK u \in 0..15, v \in 0..15 : u = x \div 16 /\ v = x % 16
    BY <1>8
  <2>3. u + 16 * v \in Int /\ 0 <= u + 16 * v /\ u + 16 * v <= 255
    BY SMT
  <2>. QED
    BY <2>1, <2>2, <2>3
<1>. QED
  BY <1>7, <1>8, <1>9, <1>10

(* serial_hex_nibble and serial_hex_digit: the digit of h by two additions,  *)
(* of which a digit up to 9 has only the second (hello.s, serial_hex_nibble).*)
Folded(h) == (h - 10) % 256
Nibbling(j, m, h, s) ==
  \/ Sits(j, m, s, "serial_hex_nibble", 1) /\ A = h
  \/ Sits(j, m, s, "serial_hex_nibble", 2) /\ A = h /\ "C" \notin psw
  \/ Sits(j, m, s, "serial_hex_nibble", 3) /\ A = Folded(h) /\ ("C" \in psw <=> h < 10)
  \/ Sits(j, m, s, "serial_hex_nibble", 4) /\ A = Folded(h) /\ ~(h < 10)
  \/ Sits(j, m, s, "serial_hex_digit", 1) /\ A = IF h < 10 THEN Folded(h) ELSE h + 29
  \/ Sending(j, m, s)

(* The two additions turn a number below 16 into its digit, without a carry  *)
(* to be missed.                                                             *)
LEMMA FoldedDigit ==
  ASSUME NEW h \in 0..15
  PROVE /\ h \in Byte /\ 10 \in Byte /\ 39 \in Byte /\ 58 \in Byte
        /\ ~(h < 10) => (Folded(h) + 39) % 256 = h + 29
        /\ ((IF h < 10 THEN Folded(h) ELSE h + 29) + 58) % 256 = Digit(h)
<1>1. h \in Byte /\ 10 \in Byte /\ 39 \in Byte /\ 58 \in Byte
  BY ByteRange, SMT
<1>2. h < 10 => Folded(h) = h + 246
  BY SMT DEF Folded
<1>3. ~(h < 10) => Folded(h) = h - 10
  BY SMT DEF Folded
<1>4. ~(h < 10) => (Folded(h) + 39) % 256 = h + 29
  BY <1>3, SMT
<1>5. ((IF h < 10 THEN Folded(h) ELSE h + 29) + 58) % 256 = Digit(h)
  BY <1>2, <1>3, SMT DEF Digit
<1>. QED
  BY <1>1, <1>4, <1>5

(* serial_hex_nibble sends the digit of A.                                   *)
LEMMA NibblingKeeps ==
  ASSUME Live, Step, NEW j, NEW m \in Nat, NEW h \in 0..15, Char(j, m) = Digit(h), NEW s, Nibbling(j, m, h, s)
  PROVE Steady /\ (Nibbling(j, m, h, s)' \/ Home(j, m + 1, s))
<1>0. h \in Int /\ h \in Byte /\ 10 \in Byte /\ 39 \in Byte /\ 58 \in Byte /\ 0 \in {0, 1}
  BY FoldedDigit, SMT
<1>1. CASE Sits(j, m, s, "serial_hex_nibble", 1) /\ A = h
  <2>1. Insn = <<"clrb", "C">> /\ After = <<"serial_hex_nibble", 2>>
    BY <1>1, NibbleCode DEF Sits
  <2>2. Still /\ Onwards /\ "C" \notin psw' /\ AskedSame
    BY <2>1, ClearsCarry
  <2>3. Steady /\ A' = A /\ (dev.out)' = dev.out
    BY <2>2, StillIsSteady
  <2>4. Sits(j, m, s, "serial_hex_nibble", 2)'
    BY <1>1, <2>1, <2>2, <2>3, Follow
  <2>. QED
    BY <1>1, <2>2, <2>3, <2>4 DEF Nibbling
<1>2. CASE Sits(j, m, s, "serial_hex_nibble", 2) /\ A = h /\ "C" \notin psw
  <2>1. Insn = <<"subbi", 10>> /\ After = <<"serial_hex_nibble", 3>>
    BY <1>2, NibbleCode DEF Sits
  <2>2. Carry(psw) = 0
    BY <1>2 DEF Carry
  <2>3. h - 10 - 0 = h - 10 /\ (10 + 0 > h <=> h < 10)
    BY <1>0, SMT
  <2>4. Makes("A", (A - 10 - Carry(psw)) % 256) /\ AskedSame /\ ("C" \in psw' <=> 10 + Carry(psw) > A)
    BY <1>0, <2>1, MakesDifference DEF Makes
  <2>5. Makes("A", Folded(h)) /\ ("C" \in psw' <=> h < 10)
    <3>1. (A - 10 - Carry(psw)) % 256 = Folded(h) /\ (10 + Carry(psw) > A <=> h < 10)
      BY <1>2, <2>2, <2>3 DEF Folded
    <3>. QED
      BY <2>4, <3>1 DEF Makes
  <2>6. Steady /\ A' = Folded(h) /\ Onwards /\ (dev.out)' = dev.out
    BY <2>4, <2>5, MakesIsSteady
  <2>7. Sits(j, m, s, "serial_hex_nibble", 3)'
    BY <1>2, <2>1, <2>6, Follow
  <2>. QED
    BY <2>5, <2>6, <2>7 DEF Nibbling
<1>3. CASE Sits(j, m, s, "serial_hex_nibble", 3) /\ A = Folded(h) /\ ("C" \in psw <=> h < 10)
  <2>1. Insn = <<"jc", "serial_hex_digit">> /\ After = <<"serial_hex_nibble", 4>>
    BY <1>3, NibbleCode DEF Sits
  <2>2. Still /\ UNCHANGED <<psw, stack>> /\ pc' = IF "C" \in psw THEN To("serial_hex_digit") ELSE After
    BY <2>1, Branches
  <2>3. Steady /\ A' = A /\ (dev.out)' = dev.out
    BY <2>2, StillIsSteady
  <2>4. CASE h < 10
    <3>1. Sits(j, m, s, "serial_hex_digit", 1)'
      BY <1>3, <2>2, <2>3, <2>4 DEF Sits, To
    <3>. QED
      BY <1>3, <2>3, <2>4, <3>1 DEF Nibbling
  <2>5. CASE ~(h < 10)
    <3>1. Sits(j, m, s, "serial_hex_nibble", 4)'
      BY <1>3, <2>1, <2>2, <2>3, <2>5 DEF Sits
    <3>. QED
      BY <1>3, <2>3, <2>5, <3>1 DEF Nibbling
  <2>. QED
    BY <2>4, <2>5
<1>4. CASE Sits(j, m, s, "serial_hex_nibble", 4) /\ A = Folded(h) /\ ~(h < 10)
  <2>1. Insn = <<"addi", 39>> /\ After = <<"serial_hex_digit", 1>>
    BY <1>4, NibbleCode DEF Sits
  <2>2. Makes("A", (A + 39 + 0) % 256) /\ AskedSame
    BY <1>0, <2>1, MakesSum DEF Makes
  <2>3. A + 39 + 0 = Folded(h) + 39
    BY <1>0, <1>4, SMT DEF Folded
  <2>4. Makes("A", h + 29)
    BY <1>4, <2>2, <2>3, FoldedDigit DEF Makes
  <2>5. Steady /\ A' = h + 29 /\ Onwards /\ (dev.out)' = dev.out
    BY <2>2, <2>4, MakesIsSteady
  <2>6. Sits(j, m, s, "serial_hex_digit", 1)'
    BY <1>4, <2>1, <2>5, Follow
  <2>. QED
    BY <1>4, <2>5, <2>6 DEF Nibbling
<1>5. CASE Sits(j, m, s, "serial_hex_digit", 1) /\ A = IF h < 10 THEN Folded(h) ELSE h + 29
  <2>1. Insn = <<"addi", 58>> /\ After = <<"serial_write", 1>>
    BY <1>5, DigitCode DEF Sits
  <2>2. Makes("A", (A + 58 + 0) % 256) /\ AskedSame
    BY <1>0, <2>1, MakesSum DEF Makes
  <2>3. A + 58 + 0 = (IF h < 10 THEN Folded(h) ELSE h + 29) + 58
    BY <1>0, <1>5, SMT DEF Folded
  <2>4. Makes("A", Char(j, m))
    BY <2>2, <2>3, FoldedDigit DEF Makes
  <2>5. Steady /\ A' = Char(j, m) /\ Onwards /\ (dev.out)' = dev.out
    BY <2>2, <2>4, MakesIsSteady
  <2>6. Sits(j, m, s, "serial_write", 1)'
    BY <1>5, <2>1, <2>5, Follow
  <2>7. Sending(j, m, s)'
    BY <2>5, <2>6 DEF Sending
  <2>. QED
    BY <2>5, <2>7 DEF Nibbling
<1>6. CASE Sending(j, m, s)
  BY <1>6, SendingKeeps DEF Nibbling
<1>. QED
  BY <1>1, <1>2, <1>3, <1>4, <1>5, <1>6 DEF Nibbling

(* A move into A.                                                            *)
LEMMA Takes ==
  ASSUME Live, Step, NEW n \in DumpCells, Insn = <<"movx", "A", n>>
  PROVE Steady /\ A' = cell[n] /\ Onwards /\ (dev.out)' = dev.out
<1>1. "A" \in DumpCells
  BY DEF DumpCells
<1>2. PICK v : v = cell[n]
  OBVIOUS
<1>3. Makes("A", v) /\ psw' = psw
  BY <1>1, <1>2, MakesCopy DEF Makes
<1>. QED
  BY <1>2, <1>3, MakesIsSteady

(* ANL A, #15 has the low digit.                                             *)
LEMMA DropsHigh ==
  ASSUME Live, Step, Insn = <<"anli", 15>>
  PROVE Steady /\ A' = A % 16 /\ Onwards /\ (dev.out)' = dev.out
<1>1. PICK a : a = A
  OBVIOUS
<1>2. a \in Byte
  BY <1>1, DumpPlain DEF DumpCells, A
<1>3. Makes("A", a % 16) /\ psw' = psw
  BY <1>1, <1>2, MakesLogic, LowNibble DEF Makes
<1>. QED
  BY <1>1, <1>3, MakesIsSteady

(* SWAP has the high digit below.                                            *)
LEMMA Swaps ==
  ASSUME Live, Step, Insn = <<"swap">>
  PROVE Steady /\ A' = (A \div 16) + 16 * (A % 16) /\ Onwards /\ (dev.out)' = dev.out
<1>1. PICK v : v = (A \div 16) + 16 * (A % 16)
  OBVIOUS
<1>2. Makes("A", v) /\ psw' = psw
  BY <1>1, MakesLogic DEF Makes
<1>. QED
  BY <1>1, <1>2, MakesIsSteady

(* serial_hex: the two digits of v, the second from the copy in B.            *)
Hexing(j, m, v, s) ==
  \/ Sits(j, m, s, "serial_hex", 1) /\ A = v
  \/ cell["B"] = v /\ \/ Sits(j, m, s, "serial_hex", 2)
                      \/ Sits(j, m, s, "serial_hex", 3) /\ A = v
                      \/ Sits(j, m, s, "serial_hex", 4) /\ A % 16 = v \div 16
                      \/ Sits(j, m, s, "serial_hex", 5) /\ A = v \div 16
                      \/ Nibbling(j, m, v \div 16, Append(s, <<"serial_hex", 6>>))
                      \/ Sits(j, m + 1, s, "serial_hex", 6)
  \/ Sits(j, m + 1, s, "serial_hex", 7) /\ A = v
  \/ Nibbling(j, m + 1, v % 16, s)

(* serial_hex sends the two digits of A; B has the byte while the first is   *)
(* sent.                                                                     *)
LEMMA HexingKeeps ==
  ASSUME Live, Step, NEW j, NEW m \in Nat, NEW v \in Byte,
         Char(j, m) = Digit(v \div 16), Char(j, m + 1) = Digit(v % 16),
         NEW S, NEW s \in Seq(S), Hexing(j, m, v, s)
  PROVE Calm /\ (Hexing(j, m, v, s)' \/ Home(j, m + 2, s))
<1>0. /\ "A" \in DumpCells /\ "B" \in DumpCells \ {"A"} /\ v \div 16 \in 0..15 /\ v % 16 \in 0..15
      /\ m + 1 \in Nat /\ m + 1 + 1 = m + 2
  BY LowNibble, SMT DEF DumpCells
<1>1. CASE Sits(j, m, s, "serial_hex", 1) /\ A = v
  <2>1. Insn = <<"xch", "B">> /\ After = <<"serial_hex", 2>>
    BY <1>1, SerialHexCode DEF Sits
  <2>2. /\ Live' /\ Onwards /\ UNCHANGED <<dev, psw>>
        /\ \A k \in DumpCells : (cell[k])' = IF k = "A" THEN cell["B"] ELSE IF k = "B" THEN A ELSE cell[k]
    BY <2>1, Swapped
  <2>3. Calm /\ (cell["B"])' = v
    BY <1>0, <1>1, <2>2 DEF Calm, AskedSame, Asked
  <2>4. Sits(j, m, s, "serial_hex", 2)'
    BY <1>1, <2>1, <2>2, Follow
  <2>. QED
    BY <2>3, <2>4 DEF Hexing
<1>2. CASE cell["B"] = v /\ Sits(j, m, s, "serial_hex", 2)
  <2>1. Insn = <<"movx", "A", "B">> /\ After = <<"serial_hex", 3>>
    BY <1>2, SerialHexCode DEF Sits
  <2>2. Steady /\ A' = cell["B"] /\ Onwards /\ (dev.out)' = dev.out
    BY <1>0, <2>1, Takes
  <2>3. Sits(j, m, s, "serial_hex", 3)' /\ (cell["B"])' = v
    BY <1>0, <1>2, <2>1, <2>2, Follow, SteadyByte
  <2>. QED
    BY <1>2, <2>2, <2>3, SteadyIsCalm DEF Hexing
<1>3. CASE cell["B"] = v /\ Sits(j, m, s, "serial_hex", 3) /\ A = v
  <2>1. Insn = <<"swap">> /\ After = <<"serial_hex", 4>>
    BY <1>3, SerialHexCode DEF Sits
  <2>2. Steady /\ A' = (v \div 16) + 16 * (v % 16) /\ Onwards /\ (dev.out)' = dev.out
    BY <1>3, <2>1, Swaps
  <2>3. Sits(j, m, s, "serial_hex", 4)' /\ (cell["B"])' = v
    BY <1>0, <1>3, <2>1, <2>2, Follow, SteadyByte
  <2>4. (A % 16)' = v \div 16
    BY <2>2, LowNibble
  <2>. QED
    BY <2>2, <2>3, <2>4, SteadyIsCalm DEF Hexing
<1>4. CASE cell["B"] = v /\ Sits(j, m, s, "serial_hex", 4) /\ A % 16 = v \div 16
  <2>1. Insn = <<"anli", 15>> /\ After = <<"serial_hex", 5>>
    BY <1>4, SerialHexCode DEF Sits
  <2>2. Steady /\ A' = v \div 16 /\ Onwards /\ (dev.out)' = dev.out
    BY <1>4, <2>1, DropsHigh
  <2>3. Sits(j, m, s, "serial_hex", 5)' /\ (cell["B"])' = v
    BY <1>0, <1>4, <2>1, <2>2, Follow, SteadyByte
  <2>. QED
    BY <2>2, <2>3, SteadyIsCalm DEF Hexing
<1>5. CASE cell["B"] = v /\ Sits(j, m, s, "serial_hex", 5) /\ A = v \div 16
  <2>1. Insn = <<"call", "serial_hex_nibble">> /\ After = <<"serial_hex", 6>>
    BY <1>5, SerialHexCode DEF Sits
  <2>2. Steady /\ A' = A /\ Sits(j, m, Append(s, <<"serial_hex", 6>>), "serial_hex_nibble", 1)'
    BY <1>5, <2>1, Invokes
  <2>3. (cell["B"])' = v
    BY <1>0, <1>5, <2>2, SteadyByte
  <2>4. Nibbling(j, m, v \div 16, Append(s, <<"serial_hex", 6>>))'
    BY <1>5, <2>2 DEF Nibbling
  <2>. QED
    BY <2>2, <2>3, <2>4, SteadyIsCalm DEF Hexing
<1>6. CASE cell["B"] = v /\ Nibbling(j, m, v \div 16, Append(s, <<"serial_hex", 6>>))
  <2>. DEFINE t == Append(s, <<"serial_hex", 6>>)
              h == v \div 16
  <2>1. Steady /\ (Nibbling(j, m, h, t)' \/ Home(j, m + 1, t))
    <3>. HIDE DEF t, h
    <3>1. h \in 0..15 /\ Char(j, m) = Digit(h)
      BY <1>0 DEF h
    <3>2. Nibbling(j, m, h, t)
      BY <1>6 DEF t, h
    <3>. QED
      BY <3>1, <3>2, NibblingKeeps
  <2>2. (cell["B"])' = v
    BY <1>0, <1>6, <2>1, SteadyByte
  <2>3. CASE Nibbling(j, m, h, t)'
    BY <2>1, <2>2, <2>3, SteadyIsCalm DEF Hexing
  <2>4. CASE Home(j, m + 1, t)
    <3>1. Sits(j, m + 1, s, "serial_hex", 6)'
      BY <2>4, HomeSits
    <3>. QED
      BY <2>1, <2>2, <3>1, SteadyIsCalm DEF Hexing
  <2>. QED
    BY <2>1, <2>3, <2>4
<1>7. CASE cell["B"] = v /\ Sits(j, m + 1, s, "serial_hex", 6)
  <2>1. Insn = <<"movx", "A", "B">> /\ After = <<"serial_hex", 7>>
    BY <1>7, SerialHexCode DEF Sits
  <2>2. Steady /\ A' = cell["B"] /\ Onwards /\ (dev.out)' = dev.out
    BY <1>0, <2>1, Takes
  <2>3. Sits(j, m + 1, s, "serial_hex", 7)'
    BY <1>7, <2>1, <2>2, Follow
  <2>. QED
    BY <1>7, <2>2, <2>3, SteadyIsCalm DEF Hexing
<1>8. CASE Sits(j, m + 1, s, "serial_hex", 7) /\ A = v
  <2>1. Insn = <<"anli", 15>> /\ After = <<"serial_hex_nibble", 1>>
    BY <1>8, SerialHexCode DEF Sits
  <2>2. Steady /\ A' = v % 16 /\ Onwards /\ (dev.out)' = dev.out
    BY <1>8, <2>1, DropsHigh
  <2>3. Sits(j, m + 1, s, "serial_hex_nibble", 1)'
    BY <1>8, <2>1, <2>2, Follow
  <2>4. Nibbling(j, m + 1, v % 16, s)'
    BY <2>2, <2>3 DEF Nibbling
  <2>. QED
    BY <2>2, <2>4, SteadyIsCalm DEF Hexing
<1>9. CASE Nibbling(j, m + 1, v % 16, s)
  <2>. DEFINE h == v % 16
              n == m + 1
  <2>1. Steady /\ (Nibbling(j, n, h, s)' \/ Home(j, n + 1, s))
    <3>. HIDE DEF h, n
    <3>1. n \in Nat /\ h \in 0..15 /\ Char(j, n) = Digit(h)
      BY <1>0 DEF h, n
    <3>2. Nibbling(j, n, h, s)
      BY <1>9 DEF h, n
    <3>. QED
      BY <3>1, <3>2, NibblingKeeps
  <2>. QED
    BY <1>0, <2>1, SteadyIsCalm DEF Hexing
<1>. QED
  BY <1>1, <1>2, <1>3, <1>4, <1>5, <1>6, <1>7, <1>8, <1>9 DEF Hexing

(* DPTR is not in A or B.                                                    *)
LEMMA CalmPointer ==
  ASSUME Calm
  PROVE Dptr' = Dptr
  BY DEF Calm, Dptr, DumpCells

(* A move of a constant into A.                                              *)
LEMMA TakesByte ==
  ASSUME Live, Step, NEW v \in Byte, Insn = <<"movi", "A", v>>
  PROVE Steady /\ A' = v /\ Onwards /\ (dev.out)' = dev.out
<1>1. "A" \in DumpCells
  BY DEF DumpCells
<1>2. Makes("A", v) /\ psw' = psw
  BY <1>1, MakesByte
<1>. QED
  BY <1>2, MakesIsSteady

(* hexaddr: the address w that DPTR has, and a colon.                         *)
Heading(j, m, w, s) ==
  /\ Dptr = w
  /\ \/ Sits(j, m, s, "hexaddr", 1)
     \/ Sits(j, m, s, "hexaddr", 2) /\ A = Hi(w)
     \/ Hexing(j, m, Hi(w), Append(s, <<"hexaddr", 3>>))
     \/ Sits(j, m + 2, s, "hexaddr", 3)
     \/ Sits(j, m + 2, s, "hexaddr", 4) /\ A = Lo(w)
     \/ Hexing(j, m + 2, Lo(w), Append(s, <<"hexaddr", 5>>))
     \/ Sits(j, m + 4, s, "hexaddr", 5)
     \/ Sits(j, m + 4, s, "hexaddr", 6) /\ A = 58
     \/ Sending(j, m + 4, Append(s, <<"hexaddr", 7>>))
     \/ Sits(j, m + 5, s, "hexaddr", 7)

(* hexaddr sends the four digits of DPTR and the colon.                      *)
LEMMA HeadingKeeps ==
  ASSUME Live, Step, NEW j, NEW m \in Nat, NEW w \in Word,
         Char(j, m) = Digit(Hi(w) \div 16), Char(j, m + 1) = Digit(Hi(w) % 16),
         Char(j, m + 2) = Digit(Lo(w) \div 16), Char(j, m + 3) = Digit(Lo(w) % 16),
         Char(j, m + 4) = 58,
         NEW S, NEW s \in Seq(S), Heading(j, m, w, s)
  PROVE Calm /\ (Heading(j, m, w, s)' \/ Home(j, m + 5, s))
<1>0. /\ m + 2 \in Nat /\ m + 4 \in Nat /\ m + 2 + 1 = m + 3 /\ m + 2 + 2 = m + 4 /\ m + 4 + 1 = m + 5
      /\ 58 \in Byte
  BY ByteRange, SMT
<1>00. "DPH" \in DumpCells /\ "DPL" \in DumpCells
  BY DEF DumpCells
<1>01. Hi(w) \in Byte /\ Lo(w) \in Byte /\ cell["DPH"] = Hi(w) /\ cell["DPL"] = Lo(w)
  BY HalvesOfWord, DumpPointer DEF Heading
<1>. DEFINE T == S \cup {<<"hexaddr", 3>>, <<"hexaddr", 5>>, <<"hexaddr", 7>>}
<1>02. Dptr = w /\ (Calm => Dptr' = w)
  BY CalmPointer DEF Heading
<1>03. s \in Seq(T) /\ \A i \in {3, 5, 7} : Append(s, <<"hexaddr", i>>) \in Seq(T)
  <2>1. s \in Seq(T)
    OBVIOUS
  <2>2. \A i \in {3, 5, 7} : <<"hexaddr", i>> \in T
    OBVIOUS
  <2>. HIDE DEF T
  <2>. QED
    BY <2>1, <2>2
<1>. HIDE DEF T
<1>1. CASE Sits(j, m, s, "hexaddr", 1)
  <2>1. Insn = <<"movx", "A", "DPH">> /\ After = <<"hexaddr", 2>>
    BY <1>1, HexAddrCode DEF Sits
  <2>2. Steady /\ A' = cell["DPH"] /\ Onwards /\ (dev.out)' = dev.out
    BY <1>00, <2>1, Takes
  <2>3. Sits(j, m, s, "hexaddr", 2)' /\ A' = Hi(w)
    BY <1>01, <1>1, <2>1, <2>2, Follow
  <2>. QED
    BY <1>02, <2>2, <2>3, SteadyIsCalm DEF Heading
<1>2. CASE Sits(j, m, s, "hexaddr", 2) /\ A = Hi(w)
  <2>1. Insn = <<"call", "serial_hex">> /\ After = <<"hexaddr", 3>>
    BY <1>2, HexAddrCode DEF Sits
  <2>2. Steady /\ A' = A /\ Sits(j, m, Append(s, <<"hexaddr", 3>>), "serial_hex", 1)'
    BY <1>2, <2>1, Invokes
  <2>3. Hexing(j, m, Hi(w), Append(s, <<"hexaddr", 3>>))'
    BY <1>2, <2>2 DEF Hexing
  <2>. QED
    BY <1>02, <2>2, <2>3, SteadyIsCalm DEF Heading
<1>3. CASE Hexing(j, m, Hi(w), Append(s, <<"hexaddr", 3>>))
  <2>1. PICK t, v : t = Append(s, <<"hexaddr", 3>>) /\ v = Hi(w)
    OBVIOUS
  <2>2. t \in Seq(T) /\ v \in Byte /\ Hexing(j, m, v, t) /\ Char(j, m) = Digit(v \div 16) /\ Char(j, m + 1) = Digit(v % 16)
    BY <1>01, <1>03, <1>3, <2>1
  <2>3. Calm /\ (Hexing(j, m, v, t)' \/ Home(j, m + 2, t))
    BY <2>2, HexingKeeps
  <2>4. Home(j, m + 2, t) => Sits(j, m + 2, s, "hexaddr", 3)'
    BY <2>1, HomeSits
  <2>5. Hexing(j, m, v, t)' => Hexing(j, m, Hi(w), Append(s, <<"hexaddr", 3>>))'
    BY <2>1
  <2>. QED
    BY <1>02, <2>3, <2>4, <2>5 DEF Heading
<1>4. CASE Sits(j, m + 2, s, "hexaddr", 3)
  <2>1. Insn = <<"movx", "A", "DPL">> /\ After = <<"hexaddr", 4>>
    BY <1>4, HexAddrCode DEF Sits
  <2>2. Steady /\ A' = cell["DPL"] /\ Onwards /\ (dev.out)' = dev.out
    BY <1>00, <2>1, Takes
  <2>3. Sits(j, m + 2, s, "hexaddr", 4)' /\ A' = Lo(w)
    BY <1>01, <1>4, <2>1, <2>2, Follow
  <2>. QED
    BY <1>02, <2>2, <2>3, SteadyIsCalm DEF Heading
<1>5. CASE Sits(j, m + 2, s, "hexaddr", 4) /\ A = Lo(w)
  <2>1. Insn = <<"call", "serial_hex">> /\ After = <<"hexaddr", 5>>
    BY <1>5, HexAddrCode DEF Sits
  <2>2. Steady /\ A' = A /\ Sits(j, m + 2, Append(s, <<"hexaddr", 5>>), "serial_hex", 1)'
    BY <1>5, <2>1, Invokes
  <2>3. Hexing(j, m + 2, Lo(w), Append(s, <<"hexaddr", 5>>))'
    BY <1>5, <2>2 DEF Hexing
  <2>. QED
    BY <1>02, <2>2, <2>3, SteadyIsCalm DEF Heading
<1>6. CASE Hexing(j, m + 2, Lo(w), Append(s, <<"hexaddr", 5>>))
  <2>1. PICK t, v, n : t = Append(s, <<"hexaddr", 5>>) /\ v = Lo(w) /\ n = m + 2
    OBVIOUS
  <2>2. /\ t \in Seq(T) /\ v \in Byte /\ n \in Nat /\ Hexing(j, n, v, t)
        /\ Char(j, n) = Digit(v \div 16) /\ Char(j, n + 1) = Digit(v % 16)
    BY <1>0, <1>01, <1>03, <1>6, <2>1
  <2>3. Calm /\ (Hexing(j, n, v, t)' \/ Home(j, n + 2, t))
    BY <2>2, HexingKeeps
  <2>4. Home(j, n + 2, t) => Sits(j, m + 4, s, "hexaddr", 5)'
    BY <1>0, <2>1, HomeSits
  <2>5. Hexing(j, n, v, t)' => Hexing(j, m + 2, Lo(w), Append(s, <<"hexaddr", 5>>))'
    BY <2>1
  <2>. QED
    BY <1>02, <2>3, <2>4, <2>5 DEF Heading
<1>7. CASE Sits(j, m + 4, s, "hexaddr", 5)
  <2>1. Insn = <<"movi", "A", 58>> /\ After = <<"hexaddr", 6>>
    BY <1>7, HexAddrCode DEF Sits
  <2>2. Steady /\ A' = 58 /\ Onwards /\ (dev.out)' = dev.out
    BY <1>0, <2>1, TakesByte
  <2>3. Sits(j, m + 4, s, "hexaddr", 6)'
    BY <1>7, <2>1, <2>2, Follow
  <2>. QED
    BY <1>02, <2>2, <2>3, SteadyIsCalm DEF Heading
<1>8. CASE Sits(j, m + 4, s, "hexaddr", 6) /\ A = 58
  <2>1. Insn = <<"call", "serial_write">> /\ After = <<"hexaddr", 7>>
    BY <1>8, HexAddrCode DEF Sits
  <2>2. Steady /\ A' = A /\ Sits(j, m + 4, Append(s, <<"hexaddr", 7>>), "serial_write", 1)'
    BY <1>8, <2>1, Invokes
  <2>3. Sending(j, m + 4, Append(s, <<"hexaddr", 7>>))'
    BY <1>8, <2>2 DEF Sending
  <2>. QED
    BY <1>02, <2>2, <2>3, SteadyIsCalm DEF Heading
<1>9. CASE Sending(j, m + 4, Append(s, <<"hexaddr", 7>>))
  <2>1. PICK t, n : t = Append(s, <<"hexaddr", 7>>) /\ n = m + 4
    OBVIOUS
  <2>2. n \in Nat /\ Sending(j, n, t)
    BY <1>0, <1>9, <2>1
  <2>3. Steady /\ (Sending(j, n, t)' \/ Home(j, n + 1, t))
    BY <2>2, SendingKeeps
  <2>4. Home(j, n + 1, t) => Sits(j, m + 5, s, "hexaddr", 7)'
    BY <1>0, <2>1, HomeSits
  <2>5. Sending(j, n, t)' => Sending(j, m + 4, Append(s, <<"hexaddr", 7>>))'
    BY <2>1
  <2>. QED
    BY <1>02, <2>3, <2>4, <2>5, SteadyIsCalm DEF Heading
<1>10. CASE Sits(j, m + 5, s, "hexaddr", 7)
  <2>1. Insn = <<"ret">>
    BY <1>10, HexAddrCode DEF Sits
  <2>. QED
    BY <1>10, <2>1, Returns, SteadyIsCalm
<1>. QED
  BY <1>1, <1>2, <1>3, <1>4, <1>5, <1>6, <1>7, <1>8, <1>9, <1>10 DEF Heading

(* serial_newline.                                                            *)
Ending(j, m, s) ==
  \/ Sits(j, m, s, "serial_newline", 1)
  \/ Sits(j, m, s, "serial_newline", 2) /\ A = 13
  \/ Sending(j, m, Append(s, <<"serial_newline", 3>>))
  \/ Sits(j, m + 1, s, "serial_newline", 3)
  \/ Sits(j, m + 1, s, "serial_newline", 4) /\ A = 10
  \/ Sending(j, m + 1, Append(s, <<"serial_newline", 5>>))
  \/ Sits(j, m + 2, s, "serial_newline", 5)

(* serial_newline sends the two characters of a line end.                    *)
LEMMA EndingKeeps ==
  ASSUME Live, Step, NEW j, NEW m \in Nat, Char(j, m) = 13, Char(j, m + 1) = 10,
         NEW S, NEW s \in Seq(S), Ending(j, m, s)
  PROVE Steady /\ (Ending(j, m, s)' \/ Home(j, m + 2, s))
<1>0. m + 1 \in Nat /\ m + 1 + 1 = m + 2 /\ 13 \in Byte /\ 10 \in Byte
  BY ByteRange, SMT
<1>1. CASE Sits(j, m, s, "serial_newline", 1)
  <2>1. Insn = <<"movi", "A", 13>> /\ After = <<"serial_newline", 2>>
    BY <1>1, NewlineCode DEF Sits
  <2>2. Steady /\ A' = 13 /\ Onwards /\ (dev.out)' = dev.out
    BY <1>0, <2>1, TakesByte
  <2>3. Sits(j, m, s, "serial_newline", 2)'
    BY <1>1, <2>1, <2>2, Follow
  <2>. QED
    BY <2>2, <2>3 DEF Ending
<1>2. CASE Sits(j, m, s, "serial_newline", 2) /\ A = 13
  <2>1. Insn = <<"call", "serial_write">> /\ After = <<"serial_newline", 3>>
    BY <1>2, NewlineCode DEF Sits
  <2>2. Steady /\ A' = A /\ Sits(j, m, Append(s, <<"serial_newline", 3>>), "serial_write", 1)'
    BY <1>2, <2>1, Invokes
  <2>3. Sending(j, m, Append(s, <<"serial_newline", 3>>))'
    BY <1>2, <2>2 DEF Sending
  <2>. QED
    BY <2>2, <2>3 DEF Ending
<1>3. CASE Sending(j, m, Append(s, <<"serial_newline", 3>>))
  <2>1. PICK t : t = Append(s, <<"serial_newline", 3>>)
    OBVIOUS
  <2>2. Steady /\ (Sending(j, m, t)' \/ Home(j, m + 1, t))
    BY <1>3, <2>1, SendingKeeps
  <2>3. Home(j, m + 1, t) => Sits(j, m + 1, s, "serial_newline", 3)'
    BY <2>1, HomeSits
  <2>4. Sending(j, m, t)' => Sending(j, m, Append(s, <<"serial_newline", 3>>))'
    BY <2>1
  <2>. QED
    BY <2>2, <2>3, <2>4 DEF Ending
<1>4. CASE Sits(j, m + 1, s, "serial_newline", 3)
  <2>1. Insn = <<"movi", "A", 10>> /\ After = <<"serial_newline", 4>>
    BY <1>4, NewlineCode DEF Sits
  <2>2. Steady /\ A' = 10 /\ Onwards /\ (dev.out)' = dev.out
    BY <1>0, <2>1, TakesByte
  <2>3. Sits(j, m + 1, s, "serial_newline", 4)'
    BY <1>4, <2>1, <2>2, Follow
  <2>. QED
    BY <2>2, <2>3 DEF Ending
<1>5. CASE Sits(j, m + 1, s, "serial_newline", 4) /\ A = 10
  <2>1. Insn = <<"call", "serial_write">> /\ After = <<"serial_newline", 5>>
    BY <1>5, NewlineCode DEF Sits
  <2>2. Steady /\ A' = A /\ Sits(j, m + 1, Append(s, <<"serial_newline", 5>>), "serial_write", 1)'
    BY <1>5, <2>1, Invokes
  <2>3. Sending(j, m + 1, Append(s, <<"serial_newline", 5>>))'
    BY <1>5, <2>2 DEF Sending
  <2>. QED
    BY <2>2, <2>3 DEF Ending
<1>6. CASE Sending(j, m + 1, Append(s, <<"serial_newline", 5>>))
  <2>1. PICK t, n : t = Append(s, <<"serial_newline", 5>>) /\ n = m + 1
    OBVIOUS
  <2>2. n \in Nat /\ Sending(j, n, t)
    BY <1>0, <1>6, <2>1
  <2>3. Steady /\ (Sending(j, n, t)' \/ Home(j, n + 1, t))
    BY <2>2, SendingKeeps
  <2>4. Home(j, n + 1, t) => Sits(j, m + 2, s, "serial_newline", 5)'
    BY <1>0, <2>1, HomeSits
  <2>5. Sending(j, n, t)' => Sending(j, m + 1, Append(s, <<"serial_newline", 5>>))'
    BY <2>1
  <2>. QED
    BY <2>3, <2>4, <2>5 DEF Ending
<1>7. CASE Sits(j, m + 2, s, "serial_newline", 5)
  <2>1. Insn = <<"ret">>
    BY <1>7, NewlineCode DEF Sits
  <2>. QED
    BY <1>7, <2>1, Returns
<1>. QED
  BY <1>1, <1>2, <1>3, <1>4, <1>5, <1>6, <1>7 DEF Ending

(* read_byte: the byte shown for the address a that DPTR has.  The pointer of *)
(* the second stack gets a + 1 in two halves, the carry between them in C.    *)
Loading(j, m, a, r, s) ==
  LET next == Wrap(a + 1)
  IN  /\ Dptr = a /\ cell["R7"] = r
      /\ \/ Sits(j, m, s, "read_byte", 1)
         \/ Sits(j, m, s, "read_byte", 2) /\ A = r
         \/ Sits(j, m, s, "read_byte", 3) /\ A = r /\ r # 0
         \/ Sits(j, m, s, "read_byte", 4) /\ A = r - 1 /\ r # 0
         \/ r = 0 /\ \/ Sits(j, m, s, "read_code_byte", 1)
                     \/ Sits(j, m, s, "read_code_byte", 2) /\ A = 0
                     \/ Sits(j, m, s, "read_code_byte", 3) /\ A = ShownFor(r, a)
         \/ r = 1 /\ \/ Sits(j, m, s, "read_data_byte", 1)
                     \/ Sits(j, m, s, "read_data_byte", 2) /\ A = ShownFor(r, a)
         \/ r = 2 /\ \/ Sits(j, m, s, "read_stack_byte", 1)
                     \/ Sits(j, m, s, "read_stack_byte", 2) /\ A = Lo(a)
                     \/ Sits(j, m, s, "read_stack_byte", 3) /\ A = Lo(next) /\ Carry(psw) = IF Lo(a) = 255 THEN 1 ELSE 0
                     \/ /\ \/ Sits(j, m, s, "read_stack_byte", 4)
                           \/ Sits(j, m, s, "read_stack_byte", 5) /\ A = Hi(a)
                        /\ Lo(dev.ssp) = Lo(next) /\ Carry(psw) = IF Lo(a) = 255 THEN 1 ELSE 0
                     \/ Sits(j, m, s, "read_stack_byte", 6) /\ A = Hi(next) /\ Lo(dev.ssp) = Lo(next)
                     \/ Sits(j, m, s, "read_stack_byte", 7) /\ dev.ssp = next
                     \/ Sits(j, m, s, "read_stack_byte", 8) /\ A = ShownFor(r, a)

(* The next address by halves, with a carry from the low one, as             *)
(* read_stack_byte sets SSP.                                                 *)
LEMMA NextHalves ==
  ASSUME NEW a \in Word
  PROVE /\ Lo(a) \in Byte /\ Hi(a) \in Byte /\ Wrap(a + 1) \in Word
        /\ Lo(Wrap(a + 1)) = (Lo(a) + 1 + 0) % 256
        /\ Lo(a) + 1 + 0 > 255 <=> Lo(a) = 255
        /\ \A c : c = (IF Lo(a) = 255 THEN 1 ELSE 0) => Hi(Wrap(a + 1)) = (Hi(a) + 0 + c) % 256
        /\ Pair(Hi(Wrap(a + 1)), Lo(Wrap(a + 1))) = Wrap(a + 1)
<1>1. a \in Int /\ 0 <= a /\ a <= 65535 /\ Lo(a) \in Byte /\ Hi(a) \in Byte
  BY WordRange, HalvesOfWord
<1>2. Wrap(a + 1) \in Word
  <2>1. a + 1 \in Int
    BY <1>1, SMT
  <2>. QED
    BY <2>1, WrapIsWord
<1>3. PICK h, l : h = Hi(a) /\ l = Lo(a)
  OBVIOUS
<1>4. h \in Int /\ 0 <= h /\ h <= 255 /\ l \in Int /\ 0 <= l /\ l <= 255
  BY <1>1, <1>3, ByteRange
<1>5. a = 256 * h + l
  BY <1>3, HalvesOfWord DEF Pair
<1>6. Wrap(a + 1) = IF h = 255 /\ l = 255 THEN 0 ELSE a + 1
  BY <1>4, <1>5, SMT DEF Wrap
<1>7. Lo(Wrap(a + 1)) = (l + 1 + 0) % 256
  BY <1>4, <1>5, <1>6, SMT DEF Lo
<1>8. l + 1 + 0 > 255 <=> l = 255
  BY <1>4, SMT
<1>9. \A c : c = (IF l = 255 THEN 1 ELSE 0) => Hi(Wrap(a + 1)) = (h + 0 + c) % 256
  BY <1>4, <1>5, <1>6, SMT DEF Hi
<1>10. Pair(Hi(Wrap(a + 1)), Lo(Wrap(a + 1))) = Wrap(a + 1)
  BY <1>2, HalvesOfWord
<1>. QED
  BY <1>1, <1>2, <1>3, <1>7, <1>8, <1>9, <1>10

(* read_byte has in A what is shown for DPTR, whatever the source.           *)
LEMMA LoadingKeeps ==
  ASSUME Live, Step, NEW j, NEW m, NEW a \in Word, NEW r \in 0..2, NEW s, Loading(j, m, a, r, s)
  PROVE Steady /\ (Loading(j, m, a, r, s)' \/ (Home(j, m, s) /\ A' = ShownFor(r, a)))
<1>. DEFINE next == Wrap(a + 1)
            carry == IF Lo(a) = 255 THEN 1 ELSE 0
<1>0. /\ "R7" \in DumpCells /\ "DPH" \in DumpCells /\ "DPL" \in DumpCells /\ "R7" \in DumpCells \ {"A"}
      /\ 0 \in Byte /\ 1 \in Byte /\ 0 \in {0, 1}
  BY ByteRange, SMT DEF DumpCells
<1>01. /\ Dptr = a /\ cell["R7"] = r /\ cell["DPL"] = Lo(a) /\ cell["DPH"] = Hi(a)
       /\ Steady => Dptr' = a /\ (cell["R7"])' = r
  BY <1>0, DumpPointer, SteadyIsCalm, CalmPointer, SteadyByte DEF Loading
<1>02. /\ Lo(next) = (Lo(a) + 1 + 0) % 256 /\ (Lo(a) + 1 + 0 > 255 <=> Lo(a) = 255)
       /\ Hi(next) = (Hi(a) + 0 + carry) % 256 /\ Pair(Hi(next), Lo(next)) = next /\ next \in Word
       /\ carry \in {0, 1}
  BY NextHalves
<1>03. /\ r = 0 => ShownFor(r, a) = Mapped(a)
       /\ r = 1 => ShownFor(r, a) = Mapped(a)
       /\ r = 2 => ShownFor(r, a) = Mapped(Wrap(a + 1))
  BY DEF ShownFor, Wrap
<1>04. Wrap(next) = next
  BY <1>02, WrapsNot
<1>. HIDE DEF next, carry
<1>1. CASE Sits(j, m, s, "read_byte", 1)
  <2>1. Insn = <<"movx", "A", "R7">> /\ After = <<"read_byte", 2>>
    BY <1>1, ReadByteCode DEF Sits
  <2>2. Steady /\ A' = cell["R7"] /\ Onwards /\ (dev.out)' = dev.out
    BY <1>0, <2>1, Takes
  <2>3. Sits(j, m, s, "read_byte", 2)'
    BY <1>1, <2>1, <2>2, Follow
  <2>. QED
    BY <1>01, <1>1, <2>2, <2>3 DEF Loading
<1>2. CASE Sits(j, m, s, "read_byte", 2) /\ A = r
  <2>1. Insn = <<"jz", "read_code_byte">> /\ After = <<"read_byte", 3>>
    BY <1>2, ReadByteCode DEF Sits
  <2>2. Still /\ UNCHANGED <<psw, stack>> /\ pc' = IF A = 0 THEN To("read_code_byte") ELSE After
    BY <2>1, Branches
  <2>3. Steady /\ A' = A /\ (dev.out)' = dev.out
    BY <2>2, StillIsSteady
  <2>4. CASE A = 0
    <3>1. Sits(j, m, s, "read_code_byte", 1)'
      BY <1>2, <2>2, <2>3, <2>4 DEF Sits, To
    <3>2. r = 0
      BY <1>2, <2>4, SMT
    <3>. QED
      BY <1>01, <1>2, <2>3, <3>1, <3>2 DEF Loading
  <2>5. CASE ~(A = 0)
    <3>1. Sits(j, m, s, "read_byte", 3)'
      BY <1>2, <2>1, <2>2, <2>3, <2>5 DEF Sits
    <3>2. r # 0
      BY <1>2, <2>5, SMT
    <3>. QED
      BY <1>01, <1>2, <2>3, <3>1, <3>2 DEF Loading
  <2>. QED
    BY <2>4, <2>5
<1>3. CASE Sits(j, m, s, "read_byte", 3) /\ A = r /\ r # 0
  <2>1. Insn = <<"dec", "A">> /\ After = <<"read_byte", 4>>
    BY <1>3, ReadByteCode DEF Sits
  <2>2. (r - 1) % 256 = r - 1
    BY <1>3, SMT
  <2>3. Makes("A", r - 1) /\ psw' = psw
    BY <1>3, <2>1, <2>2, MakesLogic DEF Makes
  <2>4. Steady /\ A' = r - 1 /\ Onwards /\ (dev.out)' = dev.out
    BY <2>3, MakesIsSteady
  <2>5. Sits(j, m, s, "read_byte", 4)'
    BY <1>3, <2>1, <2>4, Follow
  <2>. QED
    BY <1>01, <1>3, <2>4, <2>5 DEF Loading
<1>4. CASE Sits(j, m, s, "read_byte", 4) /\ A = r - 1 /\ r # 0
  <2>1. Insn = <<"jz", "read_data_byte">> /\ After = <<"read_stack_byte", 1>>
    BY <1>4, ReadByteCode DEF Sits
  <2>2. Still /\ UNCHANGED <<psw, stack>> /\ pc' = IF A = 0 THEN To("read_data_byte") ELSE After
    BY <2>1, Branches
  <2>3. Steady /\ A' = A /\ (dev.out)' = dev.out
    BY <2>2, StillIsSteady
  <2>4. CASE A = 0
    <3>1. Sits(j, m, s, "read_data_byte", 1)'
      BY <1>4, <2>2, <2>3, <2>4 DEF Sits, To
    <3>2. r = 1
      BY <1>4, <2>4, SMT
    <3>. QED
      BY <1>01, <1>4, <2>3, <3>1, <3>2 DEF Loading
  <2>5. CASE ~(A = 0)
    <3>1. Sits(j, m, s, "read_stack_byte", 1)'
      BY <1>4, <2>1, <2>2, <2>3, <2>5 DEF Sits
    <3>2. r = 2
      BY <1>4, <2>5, SMT
    <3>. QED
      BY <1>01, <1>4, <2>3, <3>1, <3>2 DEF Loading
  <2>. QED
    BY <2>4, <2>5
<1>5. CASE r = 0 /\ Sits(j, m, s, "read_code_byte", 1)
  <2>1. Insn = <<"movi", "A", 0>> /\ After = <<"read_code_byte", 2>>
    BY <1>5, CodeByteCode DEF Sits
  <2>2. Steady /\ A' = 0 /\ Onwards /\ (dev.out)' = dev.out
    BY <1>0, <2>1, TakesByte
  <2>3. Sits(j, m, s, "read_code_byte", 2)'
    BY <1>5, <2>1, <2>2, Follow
  <2>. QED
    BY <1>01, <1>5, <2>2, <2>3 DEF Loading
<1>6. CASE r = 0 /\ Sits(j, m, s, "read_code_byte", 2) /\ A = 0
  <2>1. Insn = <<"movc">> /\ After = <<"read_code_byte", 3>>
    BY <1>6, CodeByteCode DEF Sits
  <2>2. Makes("A", ShownFor(r, a)) /\ psw' = psw
    BY <1>01, <1>03, <1>6, <2>1, MakesMapped DEF Makes
  <2>3. Steady /\ A' = ShownFor(r, a) /\ Onwards /\ (dev.out)' = dev.out
    BY <2>2, MakesIsSteady
  <2>4. Sits(j, m, s, "read_code_byte", 3)'
    BY <1>6, <2>1, <2>3, Follow
  <2>. QED
    BY <1>01, <1>6, <2>3, <2>4 DEF Loading
<1>7. CASE r = 0 /\ Sits(j, m, s, "read_code_byte", 3) /\ A = ShownFor(r, a)
  <2>1. Insn = <<"ret">>
    BY <1>7, CodeByteCode DEF Sits
  <2>. QED
    BY <1>7, <2>1, Returns
<1>8. CASE r = 1 /\ Sits(j, m, s, "read_data_byte", 1)
  <2>1. Insn = <<"movx_dptr">> /\ After = <<"read_data_byte", 2>>
    BY <1>8, DataByteCode DEF Sits
  <2>2. Makes("A", ShownFor(r, a)) /\ psw' = psw
    BY <1>01, <1>03, <1>8, <2>1, MakesMapped DEF Makes
  <2>3. Steady /\ A' = ShownFor(r, a) /\ Onwards /\ (dev.out)' = dev.out
    BY <2>2, MakesIsSteady
  <2>4. Sits(j, m, s, "read_data_byte", 2)'
    BY <1>8, <2>1, <2>3, Follow
  <2>. QED
    BY <1>01, <1>8, <2>3, <2>4 DEF Loading
<1>9. CASE r = 1 /\ Sits(j, m, s, "read_data_byte", 2) /\ A = ShownFor(r, a)
  <2>1. Insn = <<"ret">>
    BY <1>9, DataByteCode DEF Sits
  <2>. QED
    BY <1>9, <2>1, Returns
<1>10. CASE r = 2 /\ Sits(j, m, s, "read_stack_byte", 1)
  <2>1. Insn = <<"movx", "A", "DPL">> /\ After = <<"read_stack_byte", 2>>
    BY <1>10, StackByteCode DEF Sits
  <2>2. Steady /\ A' = cell["DPL"] /\ Onwards /\ (dev.out)' = dev.out
    BY <1>0, <2>1, Takes
  <2>3. Sits(j, m, s, "read_stack_byte", 2)'
    BY <1>10, <2>1, <2>2, Follow
  <2>. QED
    BY <1>01, <1>10, <2>2, <2>3 DEF Loading
<1>11. CASE r = 2 /\ Sits(j, m, s, "read_stack_byte", 2) /\ A = Lo(a)
  <2>1. Insn = <<"addi", 1>> /\ After = <<"read_stack_byte", 3>>
    BY <1>11, StackByteCode DEF Sits
  <2>2. Makes("A", (A + 1 + 0) % 256) /\ AskedSame /\ ("C" \in psw' <=> A + 1 + 0 > 255)
    BY <1>0, <2>1, MakesSum DEF Makes
  <2>3. Makes("A", Lo(next)) /\ ("C" \in psw' <=> Lo(a) = 255)
    BY <1>02, <1>11, <2>2 DEF Makes
  <2>4. Steady /\ A' = Lo(next) /\ Onwards /\ (dev.out)' = dev.out
    BY <2>2, <2>3, MakesIsSteady
  <2>5. Sits(j, m, s, "read_stack_byte", 3)' /\ Carry(psw') = carry
    BY <1>11, <2>1, <2>3, <2>4, Follow DEF Carry, carry
  <2>. QED
    BY <1>01, <1>11, <2>4, <2>5 DEF Loading, next, carry
<1>12. CASE r = 2 /\ Sits(j, m, s, "read_stack_byte", 3) /\ A = Lo(next) /\ Carry(psw) = carry
  <2>1. Insn = <<"movx", "SSPL", "A">> /\ After = <<"read_stack_byte", 4>>
    BY <1>12, StackByteCode DEF Sits
  <2>2. /\ Live' /\ Onwards /\ UNCHANGED <<cell, psw>> /\ (dev.out)' = dev.out
        /\ (dev.ssp)' = Pair(Hi(dev.ssp), A)
    BY <2>1, PointsStack
  <2>3. Steady
    BY <2>2 DEF Steady, AskedSame, Asked
  <2>4. Sits(j, m, s, "read_stack_byte", 4)'
    BY <1>12, <2>1, <2>2, Follow
  <2>5. (Lo(dev.ssp))' = Lo(next)
    <3>1. PICK x, l : x = dev.ssp /\ l = Lo(next)
      OBVIOUS
    <3>2. x \in Int /\ l \in Int /\ 0 <= l /\ l <= 255
      BY <1>02, <3>1, HalvesOfWord, ByteRange DEF Live
    <3>3. Lo(Pair(Hi(x), l)) = l
      BY <3>2, SMT DEF Lo, Hi, Pair
    <3>. QED
      BY <1>12, <2>2, <3>1, <3>3
  <2>6. Carry(psw') = carry
    BY <1>12, <2>2
  <2>. QED
    BY <1>01, <1>12, <2>3, <2>4, <2>5, <2>6 DEF Loading, next, carry
<1>13. CASE r = 2 /\ Sits(j, m, s, "read_stack_byte", 4) /\ Lo(dev.ssp) = Lo(next) /\ Carry(psw) = carry
  <2>1. Insn = <<"movx", "A", "DPH">> /\ After = <<"read_stack_byte", 5>>
    BY <1>13, StackByteCode DEF Sits
  <2>2. Makes("A", Hi(a)) /\ psw' = psw
    BY <1>0, <1>01, <2>1, MakesCopy DEF Makes, DumpCells
  <2>3. Steady /\ A' = Hi(a) /\ Onwards /\ (dev.out)' = dev.out
    BY <2>2, MakesIsSteady
  <2>4. Sits(j, m, s, "read_stack_byte", 5)'
    BY <1>13, <2>1, <2>3, Follow
  <2>5. (Lo(dev.ssp))' = Lo(next) /\ Carry(psw') = carry
    BY <1>13, <2>2 DEF Makes
  <2>. QED
    BY <1>01, <1>13, <2>3, <2>4, <2>5 DEF Loading, next, carry
<1>14. CASE r = 2 /\ Sits(j, m, s, "read_stack_byte", 5) /\ A = Hi(a) /\ Lo(dev.ssp) = Lo(next) /\ Carry(psw) = carry
  <2>1. Insn = <<"addci", 0>> /\ After = <<"read_stack_byte", 6>>
    BY <1>14, StackByteCode DEF Sits
  <2>2. Makes("A", (A + 0 + carry) % 256) /\ AskedSame
    BY <1>0, <1>02, <1>14, <2>1, MakesSum DEF Makes
  <2>3. Makes("A", Hi(next))
    BY <1>02, <1>14, <2>2 DEF Makes
  <2>4. Steady /\ A' = Hi(next) /\ Onwards /\ (dev.out)' = dev.out
    BY <2>2, <2>3, MakesIsSteady
  <2>5. Sits(j, m, s, "read_stack_byte", 6)'
    BY <1>14, <2>1, <2>4, Follow
  <2>6. (Lo(dev.ssp))' = Lo(next)
    BY <1>14, <2>2 DEF Makes
  <2>. QED
    BY <1>01, <1>14, <2>4, <2>5, <2>6 DEF Loading, next
<1>15. CASE r = 2 /\ Sits(j, m, s, "read_stack_byte", 6) /\ A = Hi(next) /\ Lo(dev.ssp) = Lo(next)
  <2>1. Insn = <<"movx", "SSPH", "A">> /\ After = <<"read_stack_byte", 7>>
    BY <1>15, StackByteCode DEF Sits
  <2>2. /\ Live' /\ Onwards /\ UNCHANGED <<cell, psw>> /\ (dev.out)' = dev.out
        /\ (dev.ssp)' = Pair(A, Lo(dev.ssp))
    BY <2>1, PointsStack
  <2>3. Steady
    BY <2>2 DEF Steady, AskedSame, Asked
  <2>4. Sits(j, m, s, "read_stack_byte", 7)'
    BY <1>15, <2>1, <2>2, Follow
  <2>5. (dev.ssp)' = next
    BY <1>02, <1>15, <2>2
  <2>. QED
    BY <1>01, <1>15, <2>3, <2>4, <2>5 DEF Loading, next
<1>16. CASE r = 2 /\ Sits(j, m, s, "read_stack_byte", 7) /\ dev.ssp = next
  <2>1. Insn = <<"movx", "A", "SSIO">> /\ After = <<"read_stack_byte", 8>>
    BY <1>16, StackByteCode DEF Sits
  <2>2. /\ Live' /\ Onwards /\ psw' = psw /\ (dev.out)' = dev.out
        /\ \A k \in DumpCells : (cell[k])' = IF k = "A" THEN Mapped(Wrap(dev.ssp)) ELSE cell[k]
    BY <2>1, PopsStack
  <2>3. Mapped(Wrap(dev.ssp)) = ShownFor(r, a)
    BY <1>03, <1>04, <1>16 DEF next
  <2>4. Steady /\ A' = ShownFor(r, a)
    BY <2>2, <2>3 DEF Steady, AskedSame, Asked, A, DumpCells
  <2>5. Sits(j, m, s, "read_stack_byte", 8)'
    BY <1>16, <2>1, <2>2, Follow
  <2>. QED
    BY <1>01, <1>16, <2>4, <2>5 DEF Loading
<1>17. CASE r = 2 /\ Sits(j, m, s, "read_stack_byte", 8) /\ A = ShownFor(r, a)
  <2>1. Insn = <<"ret">>
    BY <1>17, StackByteCode DEF Sits
  <2>. QED
    BY <1>17, <2>1, Returns
<1>. QED
  BY <1>1, <1>2, <1>3, <1>4, <1>5, <1>6, <1>7, <1>8, <1>9, <1>10, <1>11, <1>12, <1>13, <1>14, <1>15, <1>16, <1>17, Zenon DEF Loading, next, carry

-----------------------------------------------------------------------------
(* A dump, byte by byte *)

(* DPTR is at byte d, R2 has n, R7 the source, and F0 is set if f; R0:R1 has  *)
(* the number of bytes from byte r on.                                       *)
Keep(j, d, n, f) ==
  Live /\ Dptr = Spot(j, d) /\ cell["R2"] = n /\ cell["R7"] = j.source /\ (Asked <=> f)
Remains(j, r) == Wrap(j.count - r)
Left(j, r) == cell["R0"] = Hi(Remains(j, r)) /\ cell["R1"] = Lo(Remains(j, r))

(* Byte i begins a line, or has room for so many with it in its line.         *)
Opening(i) == i % 16 = 0
Room(i) == 16 - (i % 16)

(* Where a dump is that comes to byte i.  It has just been called; it is      *)
(* about to print the address of a line; it prints the byte; it ends a line; *)
(* and it counts the byte.                                                   *)
OnLoop == Append(<<>>, <<"hexdump_loop", 3>>)
On(e) == Append(<<>>, <<"hexdump_noaddr", e>>)
Starting(j) ==
  /\ Live /\ Dptr = Spot(j, 0) /\ cell["R7"] = j.source /\ Left(j, 0)
  /\ \/ Sits(j, 0, <<>>, "hexdump", 1)
     \/ Sits(j, 0, <<>>, "hexdump", 2) /\ Asked
AtLine(j, i) ==
  /\ Left(j, i) /\ Keep(j, i, Room(i), Opening(i))
  /\ \/ Sits(j, DumpLength(i), <<>>, "hexdump_loop", 1)
     \/ /\ Opening(i)
        /\ \/ Sits(j, DumpLength(i), <<>>, "hexdump_loop", 2)
           \/ Heading(j, DumpLength(i), Spot(j, i), OnLoop)
           \/ Sits(j, Body(i), <<>>, "hexdump_loop", 3)
AtByte(j, i) ==
  /\ Left(j, i) /\ Keep(j, i, Room(i), FALSE)
  /\ \/ Sits(j, Body(i), <<>>, "hexdump_noaddr", 1)
     \/ Sits(j, Body(i), <<>>, "hexdump_noaddr", 2) /\ A = 32
     \/ Sending(j, Body(i), On(3))
     \/ Sits(j, Body(i) + 1, <<>>, "hexdump_noaddr", 3)
     \/ Loading(j, Body(i) + 1, Spot(j, i), j.source, On(4))
     \/ Sits(j, Body(i) + 1, <<>>, "hexdump_noaddr", 4) /\ A = Shows(j, i)
     \/ Hexing(j, Body(i) + 1, Shows(j, i), On(5))
     \/ Sits(j, Body(i) + 3, <<>>, "hexdump_noaddr", 5)
AtEnd(j, i) ==
  /\ Left(j, i)
  /\ \/ Keep(j, i + 1, Room(i), FALSE) /\ Sits(j, Body(i) + 3, <<>>, "hexdump_noaddr", 6)
     \/ /\ Opening(i + 1)
        /\ \/ Keep(j, i + 1, 0, FALSE) /\ Sits(j, Body(i) + 3, <<>>, "hexdump_noaddr", 7)
           \/ /\ Keep(j, i + 1, 16, FALSE)
              /\ \/ Sits(j, Body(i) + 3, <<>>, "hexdump_noaddr", 8)
                 \/ Ending(j, Body(i) + 3, On(9))
                 \/ Sits(j, Body(i) + 5, <<>>, "hexdump_noaddr", 9)
Counts(j, i, k) == Sits(j, DumpLength(i + 1), <<>>, "hexdump_nonewline", k)
AtCount(j, i) ==
  LET was == Remains(j, i)
      now == Remains(j, i + 1)
      borrow == ("C" \in psw <=> Lo(was) = 0)
  IN  /\ Keep(j, i + 1, Room(i + 1), Opening(i + 1))
      /\ \/ /\ cell["R0"] = Hi(was) /\ cell["R1"] = Lo(was)
            /\ \/ Counts(j, i, 1)
               \/ Counts(j, i, 2) /\ "C" \notin psw
               \/ Counts(j, i, 3) /\ A = Lo(was) /\ "C" \notin psw
               \/ Counts(j, i, 4) /\ A = Lo(now) /\ borrow
         \/ /\ cell["R0"] = Hi(was) /\ cell["R1"] = Lo(now)
            /\ \/ Counts(j, i, 5) /\ borrow
               \/ Counts(j, i, 6) /\ A = Hi(was) /\ borrow
               \/ Counts(j, i, 7) /\ A = Hi(now)
         \/ /\ cell["R0"] = Hi(now) /\ cell["R1"] = Lo(now)
            /\ \/ Counts(j, i, 8) /\ A = Hi(now)
               \/ Counts(j, i, 9) /\ A = BitOr(Hi(now), Lo(now))
               \/ Counts(j, i, 10) /\ now = 0
AtPlace(j, i) == AtLine(j, i) \/ AtByte(j, i) \/ AtEnd(j, i) \/ AtCount(j, i)

(* A routine that leaves all but A and B alone keeps what belongs to the     *)
(* byte.                                                                     *)
LEMMA CalmKeeps ==
  ASSUME Calm, NEW j, NEW r, NEW d, NEW n, NEW f
  PROVE /\ Keep(j, d, n, f) => Keep(j, d, n, f)'
        /\ Left(j, r) => Left(j, r)'
<1>1. Dptr' = Dptr /\ Live' /\ AskedSame
  BY CalmPointer DEF Calm
<1>2. \A k \in {"R0", "R1", "R2", "R7"} : (cell[k])' = cell[k]
  BY DEF Calm, DumpCells
<1>. QED
  BY <1>1, <1>2 DEF Keep, Left, AskedSame

(* The address of a byte is a word, and its source is one of three.           *)
LEMMA PlaceOfByte ==
  ASSUME NEW j, DumpJob(j), NEW i \in Nat
  PROVE /\ Spot(j, i) \in Word /\ Shows(j, i) \in Byte /\ j.source \in 0..2
        /\ Wrap(Spot(j, i) + 1) = Spot(j, i + 1)
<1>1. j.from \in Int /\ j.source \in 0..2
  BY JobNumbers DEF DumpJob
<1>2. j.from + i \in Int /\ j.from + (i + 1) = j.from + i + 1
  BY <1>1, SMT
<1>3. Spot(j, i) \in Word
  BY <1>2, WrapIsWord DEF Spot
<1>4. Shows(j, i) \in Byte
  BY MappedByte DEF Shows, ShownFor
<1>5. \A x \in Int : Wrap(Wrap(x) + 1) = Wrap(x + 1)
  BY SMT DEF Wrap
<1>. QED
  BY <1>1, <1>2, <1>3, <1>4, <1>5 DEF Spot

(* Home from a call of hexdump itself, nothing is on the stack.              *)
LEMMA EmptyStack ==
  ASSUME NEW j, NEW m, NEW l, NEW e, Home(j, m, Append(<<>>, <<l, e>>))
  PROVE Sits(j, m, <<>>, l, e)'
<1>1. <<>> \in Seq({})
  OBVIOUS
<1>. QED
  BY <1>1, HomeSits

(* The first two instructions lead to the first line.                        *)
LEMMA StartingKeeps ==
  ASSUME Step, NEW j, DumpJob(j), Starting(j)
  PROVE Starting(j)' \/ AtLine(j, 0)'
<1>0. Live /\ Dptr = Spot(j, 0) /\ cell["R7"] = j.source /\ Left(j, 0)
  BY DEF Starting
<1>1. CASE Sits(j, 0, <<>>, "hexdump", 1)
  <2>1. Insn = <<"setb", "F0">> /\ After = <<"hexdump", 2>>
    BY <1>1, HexDumpCode DEF Sits
  <2>2. Still /\ Onwards /\ Asked'
    BY <1>0, <2>1, SetsAsked
  <2>3. Live' /\ Dptr' = Spot(j, 0) /\ (cell["R7"])' = j.source /\ Left(j, 0)' /\ (dev.out)' = dev.out
    BY <1>0, <2>2 DEF Still, Dptr, Left
  <2>4. Sits(j, 0, <<>>, "hexdump", 2)'
    BY <1>1, <2>1, <2>2, <2>3, Follow
  <2>. QED
    BY <2>2, <2>3, <2>4 DEF Starting
<1>2. CASE Sits(j, 0, <<>>, "hexdump", 2) /\ Asked
  <2>1. Insn = <<"movi", "R2", 16>> /\ After = <<"hexdump_loop", 1>>
    BY <1>2, HexDumpCode DEF Sits
  <2>2. "R2" \in DumpCells /\ 16 \in Byte
    BY ByteRange, SMT DEF DumpCells
  <2>3. Makes("R2", 16) /\ psw' = psw
    BY <1>0, <2>1, <2>2, MakesByte
  <2>4. Live' /\ Onwards /\ dev' = dev /\ \A k \in DumpCells : (cell[k])' = IF k = "R2" THEN 16 ELSE cell[k]
    BY <2>3 DEF Makes
  <2>5. (cell["R2"])' = 16 /\ \A k \in DumpCells \ {"R2"} : (cell[k])' = cell[k]
    BY <2>2, <2>4
  <2>6. Dptr' = Dptr /\ (cell["R7"])' = cell["R7"] /\ Left(j, 0)'
    BY <1>0, <2>5 DEF Dptr, DumpCells, Left
  <2>7. DumpLength(0) = 0 /\ Room(0) = 16 /\ Opening(0)
    BY SMT DEF DumpLength, Room, Opening
  <2>8. Sits(j, DumpLength(0), <<>>, "hexdump_loop", 1)'
    BY <1>2, <2>1, <2>4, <2>7, Follow
  <2>9. Keep(j, 0, Room(0), Opening(0))'
    BY <1>0, <1>2, <2>3, <2>4, <2>5, <2>6, <2>7 DEF Keep, Asked
  <2>. QED
    BY <2>6, <2>8, <2>9 DEF AtLine
<1>. QED
  BY <1>1, <1>2 DEF Starting

(* The address is sent if a line begins, and only then.                      *)
LEMMA LineKeeps ==
  ASSUME Step, NEW j, DumpJob(j), NEW i \in Nat, AtLine(j, i)
  PROVE AtLine(j, i)' \/ AtByte(j, i)'
<1>0. Live /\ Left(j, i) /\ Keep(j, i, Room(i), Opening(i)) /\ Dptr = Spot(j, i)
  BY DEF AtLine, Keep
<1>1. CASE Sits(j, DumpLength(i), <<>>, "hexdump_loop", 1)
  <2>1. Insn = <<"jnb", "F0", "hexdump_noaddr">> /\ After = <<"hexdump_loop", 2>>
    BY <1>1, DumpLoopCode DEF Sits
  <2>2. Still /\ UNCHANGED <<psw, stack>> /\ pc' = IF Asked THEN After ELSE To("hexdump_noaddr")
    BY <1>0, <2>1, Branches
  <2>3. Steady /\ (dev.out)' = dev.out
    BY <2>2, StillIsSteady
  <2>4. Left(j, i)' /\ Keep(j, i, Room(i), Opening(i))'
    BY <1>0, <2>3, SteadyIsCalm, CalmKeeps
  <2>5. CASE Asked
    <3>1. Opening(i)
      BY <1>0, <2>5 DEF Keep
    <3>2. Sits(j, DumpLength(i), <<>>, "hexdump_loop", 2)'
      BY <1>1, <2>1, <2>2, <2>3, <2>5 DEF Sits
    <3>. QED
      BY <2>4, <3>1, <3>2 DEF AtLine
  <2>6. CASE ~Asked
    <3>1. ~Opening(i)
      BY <1>0, <2>6 DEF Keep
    <3>2. DumpLength(i) = Body(i)
      BY <3>1, Places DEF Opening
    <3>3. Sits(j, Body(i), <<>>, "hexdump_noaddr", 1)'
      BY <1>1, <2>2, <2>3, <2>6, <3>2 DEF Sits, To
    <3>4. Keep(j, i, Room(i), FALSE)'
      BY <2>4, <3>1 DEF Keep
    <3>. QED
      BY <2>4, <3>3, <3>4 DEF AtByte
  <2>. QED
    BY <2>5, <2>6
<1>2. CASE Opening(i) /\ Sits(j, DumpLength(i), <<>>, "hexdump_loop", 2)
  <2>1. Insn = <<"call", "hexaddr">> /\ After = <<"hexdump_loop", 3>>
    BY <1>2, DumpLoopCode DEF Sits
  <2>2. Steady /\ Sits(j, DumpLength(i), OnLoop, "hexaddr", 1)'
    BY <1>0, <1>2, <2>1, Invokes DEF OnLoop
  <2>3. Left(j, i)' /\ Keep(j, i, Room(i), Opening(i))'
    BY <1>0, <2>2, SteadyIsCalm, CalmKeeps
  <2>4. Heading(j, DumpLength(i), Spot(j, i), OnLoop)'
    BY <2>2, <2>3 DEF Heading, Keep
  <2>. QED
    BY <1>2, <2>3, <2>4 DEF AtLine
<1>3. CASE Opening(i) /\ Heading(j, DumpLength(i), Spot(j, i), OnLoop)
  <2>1. PICK m, w : m = DumpLength(i) /\ w = Spot(j, i)
    OBVIOUS
  <2>2. m \in Nat /\ w \in Word /\ m + 5 = Body(i)
    BY <1>3, <2>1, Places, PlaceOfByte DEF Opening
  <2>3. /\ Char(j, m) = Digit(Hi(w) \div 16) /\ Char(j, m + 1) = Digit(Hi(w) % 16)
        /\ Char(j, m + 2) = Digit(Lo(w) \div 16) /\ Char(j, m + 3) = Digit(Lo(w) % 16)
        /\ Char(j, m + 4) = 58
    BY <1>3, <2>1, CharsOfAddress DEF Opening
  <2>4. <<>> \in Seq({<<"hexdump_loop", 3>>}) /\ OnLoop \in Seq({<<"hexdump_loop", 3>>})
    BY DEF OnLoop
  <2>5. Calm /\ (Heading(j, m, w, OnLoop)' \/ Home(j, m + 5, OnLoop))
    BY <1>0, <1>3, <2>1, <2>2, <2>3, <2>4, HeadingKeeps
  <2>6. Left(j, i)' /\ Keep(j, i, Room(i), Opening(i))'
    BY <1>0, <2>5, CalmKeeps
  <2>7. Home(j, m + 5, OnLoop) => Sits(j, Body(i), <<>>, "hexdump_loop", 3)'
    BY <2>2, EmptyStack DEF OnLoop
  <2>8. Heading(j, m, w, OnLoop)' => Heading(j, DumpLength(i), Spot(j, i), OnLoop)'
    BY <2>1
  <2>. QED
    BY <1>3, <2>5, <2>6, <2>7, <2>8 DEF AtLine
<1>4. CASE Opening(i) /\ Sits(j, Body(i), <<>>, "hexdump_loop", 3)
  <2>1. Insn = <<"clrb", "F0">> /\ After = <<"hexdump_noaddr", 1>>
    BY <1>4, DumpLoopCode DEF Sits
  <2>2. Still /\ Onwards /\ ~Asked'
    BY <1>0, <2>1, SetsAsked
  <2>3. (dev.out)' = dev.out /\ Left(j, i)' /\ Keep(j, i, Room(i), FALSE)'
    BY <1>0, <2>2 DEF Still, Keep, Left, Dptr
  <2>4. Sits(j, Body(i), <<>>, "hexdump_noaddr", 1)'
    BY <1>4, <2>1, <2>2, <2>3, Follow
  <2>. QED
    BY <2>3, <2>4 DEF AtByte
<1>. QED
  BY <1>1, <1>2, <1>3, <1>4 DEF AtLine

(* The blank, the byte that is loaded and its two digits are sent.           *)
LEMMA ByteKeeps ==
  ASSUME Step, NEW j, DumpJob(j), NEW i \in Nat, AtByte(j, i)
  PROVE AtByte(j, i)' \/ AtEnd(j, i)'
<1>. DEFINE b == Body(i)
            v == Shows(j, i)
<1>0. Live /\ Left(j, i) /\ Keep(j, i, Room(i), FALSE) /\ Dptr = Spot(j, i)
  BY DEF AtByte, Keep
<1>01. Calm => Left(j, i)' /\ Keep(j, i, Room(i), FALSE)'
  BY <1>0, CalmKeeps
<1>02. b \in Nat /\ b + 1 \in Nat /\ b + 1 + 1 = b + 2 /\ b + 1 + 2 = b + 3
  BY Places, SMT
<1>03. v \in Byte /\ Char(j, b) = 32 /\ Char(j, b + 1) = Digit(v \div 16) /\ Char(j, b + 2) = Digit(v % 16)
  BY PlaceOfByte, CharsOfByte
<1>04. \A e \in {3, 4, 5} : On(e) \in Seq({<<"hexdump_noaddr", k>> : k \in {3, 4, 5}})
  BY DEF On
<1>05. \A m, e : Home(j, m, On(e)) => Sits(j, m, <<>>, "hexdump_noaddr", e)'
  BY EmptyStack DEF On
<1>. HIDE DEF b, v
<1>1. CASE Sits(j, b, <<>>, "hexdump_noaddr", 1)
  <2>1. Insn = <<"movi", "A", 32>> /\ After = <<"hexdump_noaddr", 2>> /\ 32 \in Byte
    BY <1>1, NoAddrCode, ByteRange, SMT DEF Sits
  <2>2. Steady /\ A' = 32 /\ Onwards /\ (dev.out)' = dev.out
    BY <1>0, <2>1, TakesByte
  <2>3. Sits(j, b, <<>>, "hexdump_noaddr", 2)'
    BY <1>1, <2>1, <2>2, Follow
  <2>. QED
    BY <1>01, <2>2, <2>3, SteadyIsCalm DEF AtByte, b
<1>2. CASE Sits(j, b, <<>>, "hexdump_noaddr", 2) /\ A = 32
  <2>1. Insn = <<"call", "serial_write">> /\ After = <<"hexdump_noaddr", 3>>
    BY <1>2, NoAddrCode DEF Sits
  <2>2. Steady /\ A' = A /\ Sits(j, b, On(3), "serial_write", 1)'
    BY <1>0, <1>2, <2>1, Invokes DEF On
  <2>3. Sending(j, b, On(3))'
    BY <1>2, <1>03, <2>2 DEF Sending
  <2>. QED
    BY <1>01, <2>2, <2>3, SteadyIsCalm DEF AtByte, b
<1>3. CASE Sending(j, b, On(3))
  <2>1. Steady /\ (Sending(j, b, On(3))' \/ Home(j, b + 1, On(3)))
    <3>1. PICK s : s = On(3)
      OBVIOUS
    <3>2. Steady /\ (Sending(j, b, s)' \/ Home(j, b + 1, s))
      BY <1>0, <1>02, <1>3, <3>1, SendingKeeps
    <3>. QED
      BY <3>1, <3>2
  <2>2. Sending(j, b, On(3))' \/ Sits(j, b + 1, <<>>, "hexdump_noaddr", 3)'
    BY <1>05, <2>1
  <2>. QED
    BY <1>01, <2>1, <2>2, SteadyIsCalm DEF AtByte, b
<1>4. CASE Sits(j, b + 1, <<>>, "hexdump_noaddr", 3)
  <2>1. Insn = <<"call", "read_byte">> /\ After = <<"hexdump_noaddr", 4>>
    BY <1>4, NoAddrCode DEF Sits
  <2>2. Steady /\ Sits(j, b + 1, On(4), "read_byte", 1)'
    BY <1>0, <1>4, <2>1, Invokes DEF On
  <2>3. Loading(j, b + 1, Spot(j, i), j.source, On(4))'
    BY <1>01, <2>2, SteadyIsCalm DEF Loading, Keep
  <2>. QED
    BY <1>01, <2>2, <2>3, SteadyIsCalm DEF AtByte, b
<1>5. CASE Loading(j, b + 1, Spot(j, i), j.source, On(4))
  <2>1. PICK s, a, r : s = On(4) /\ a = Spot(j, i) /\ r = j.source
    OBVIOUS
  <2>2. a \in Word /\ r \in 0..2 /\ ShownFor(r, a) = v
    BY <2>1, PlaceOfByte DEF Shows, v
  <2>3. Steady /\ (Loading(j, b + 1, a, r, s)' \/ (Home(j, b + 1, s) /\ A' = ShownFor(r, a)))
    BY <1>0, <1>5, <2>1, <2>2, LoadingKeeps
  <2>4. CASE Loading(j, b + 1, a, r, s)'
    <3>1. Loading(j, b + 1, Spot(j, i), j.source, On(4))'
      BY <2>1, <2>4
    <3>. QED
      BY <1>01, <2>3, <3>1, SteadyIsCalm DEF AtByte, b
  <2>5. CASE Home(j, b + 1, s) /\ A' = ShownFor(r, a)
    <3>1. Sits(j, b + 1, <<>>, "hexdump_noaddr", 4)' /\ A' = Shows(j, i)
      BY <1>05, <2>1, <2>2, <2>5 DEF v
    <3>. QED
      BY <1>01, <2>3, <3>1, SteadyIsCalm DEF AtByte, b
  <2>. QED
    BY <2>3, <2>4, <2>5
<1>6. CASE Sits(j, b + 1, <<>>, "hexdump_noaddr", 4) /\ A = v
  <2>1. Insn = <<"call", "serial_hex">> /\ After = <<"hexdump_noaddr", 5>>
    BY <1>6, NoAddrCode DEF Sits
  <2>2. Steady /\ A' = A /\ Sits(j, b + 1, On(5), "serial_hex", 1)'
    BY <1>0, <1>6, <2>1, Invokes DEF On
  <2>3. Hexing(j, b + 1, v, On(5))'
    BY <1>6, <2>2 DEF Hexing
  <2>. QED
    BY <1>01, <2>2, <2>3, SteadyIsCalm DEF AtByte, b, v
<1>7. CASE Hexing(j, b + 1, v, On(5))
  <2>1. PICK s, m : s = On(5) /\ m = b + 1
    OBVIOUS
  <2>2. s \in Seq({<<"hexdump_noaddr", k>> : k \in {3, 4, 5}}) /\ m \in Nat /\ v \in Byte
        /\ Char(j, m) = Digit(v \div 16) /\ Char(j, m + 1) = Digit(v % 16)
    BY <1>02, <1>03, <1>04, <2>1
  <2>3. Calm /\ (Hexing(j, m, v, s)' \/ Home(j, m + 2, s))
    BY <1>0, <1>7, <2>1, <2>2, HexingKeeps
  <2>4. Hexing(j, m, v, s)' => Hexing(j, b + 1, v, On(5))'
    BY <2>1
  <2>5. Home(j, m + 2, s) => Sits(j, b + 3, <<>>, "hexdump_noaddr", 5)'
    BY <1>02, <1>05, <2>1
  <2>. QED
    BY <1>01, <2>3, <2>4, <2>5 DEF AtByte, b, v
<1>8. CASE Sits(j, b + 3, <<>>, "hexdump_noaddr", 5)
  <2>1. Insn = <<"inc_dptr">> /\ After = <<"hexdump_noaddr", 6>>
    BY <1>8, NoAddrCode DEF Sits
  <2>2. /\ Live' /\ Onwards /\ UNCHANGED <<dev, psw>> /\ Dptr' = Wrap(Dptr + 1)
        /\ \A k \in DumpCells : k \notin {"DPH", "DPL"} => (cell[k])' = cell[k]
    BY <1>0, <2>1, NextAddress
  <2>3. Dptr' = Spot(j, i + 1)
    BY <1>0, <2>2, PlaceOfByte
  <2>4. \A k \in {"R0", "R1", "R2", "R7"} : (cell[k])' = cell[k]
    BY <2>2 DEF DumpCells
  <2>5. Left(j, i)' /\ Keep(j, i + 1, Room(i), FALSE)'
    BY <1>0, <2>2, <2>3, <2>4 DEF Left, Keep, Asked
  <2>6. Sits(j, b + 3, <<>>, "hexdump_noaddr", 6)'
    BY <1>8, <2>1, <2>2, Follow
  <2>. QED
    BY <2>5, <2>6 DEF AtEnd, b
<1>. QED
  BY <1>1, <1>2, <1>3, <1>4, <1>5, <1>6, <1>7, <1>8 DEF AtByte, b, v

(* DPTR moves on, and a full line is ended, with F0 set for the next.        *)
LEMMA EndKeeps ==
  ASSUME Step, NEW j, DumpJob(j), NEW i \in Nat, AtEnd(j, i)
  PROVE AtEnd(j, i)' \/ AtCount(j, i)'
<1>. DEFINE b == Body(i)
<1>0. Live /\ Left(j, i)
  BY DEF AtEnd, Keep
<1>01. \A n, f : Calm => Left(j, i)' /\ (Keep(j, i + 1, n, f) => Keep(j, i + 1, n, f)')
  BY <1>0, CalmKeeps
<1>02. /\ b \in Nat /\ b + 3 \in Nat /\ b + 3 + 1 = b + 4 /\ b + 3 + 2 = b + 5 /\ i % 16 \in 0..15
       /\ Opening(i + 1) <=> i % 16 = 15
       /\ ~Opening(i + 1) => b + 3 = DumpLength(i + 1) /\ Room(i + 1) = Room(i) - 1 /\ Room(i) - 1 \in 1..15
       /\ Opening(i + 1) => b + 5 = DumpLength(i + 1) /\ Room(i + 1) = 16 /\ Room(i) - 1 = 0
  <2>1. b \in Nat /\ i % 16 \in 0..15
    BY Places, SMT
  <2>2. /\ i % 16 # 15 => b + 3 = DumpLength(i + 1) /\ (i + 1) % 16 = (i % 16) + 1
        /\ i % 16 = 15 => b + 5 = DumpLength(i + 1) /\ (i + 1) % 16 = 0
    BY Places
  <2>. HIDE DEF b
  <2>3. b + 3 \in Nat /\ b + 3 + 1 = b + 4 /\ b + 3 + 2 = b + 5
    BY <2>1, SMT
  <2>4. CASE i % 16 = 15
    <3>1. (i + 1) % 16 = 0 /\ b + 5 = DumpLength(i + 1)
      BY <2>2, <2>4
    <3>2. Opening(i + 1) /\ Room(i + 1) = 16 /\ Room(i) - 1 = 0
      BY <2>4, <3>1, SMT DEF Opening, Room
    <3>. QED
      BY <2>1, <2>3, <2>4, <3>1, <3>2
  <2>5. CASE i % 16 # 15
    <3>1. (i + 1) % 16 = (i % 16) + 1 /\ b + 3 = DumpLength(i + 1)
      BY <2>2, <2>5
    <3>2. ~Opening(i + 1) /\ Room(i + 1) = Room(i) - 1 /\ Room(i) - 1 \in 1..15
      BY <2>1, <2>5, <3>1, SMT DEF Opening, Room
    <3>. QED
      BY <2>1, <2>3, <2>5, <3>1, <3>2
  <2>. QED
    BY <2>4, <2>5
<1>. HIDE DEF b
<1>1. CASE Keep(j, i + 1, Room(i), FALSE) /\ Sits(j, b + 3, <<>>, "hexdump_noaddr", 6)
  <2>1. Insn = <<"djnz", "R2", "hexdump_nonewline">> /\ After = <<"hexdump_noaddr", 7>>
    BY <1>1, NoAddrCode DEF Sits
  <2>2. PICK n : n = (cell["R2"] - 1) % 256
    OBVIOUS
  <2>3. /\ Live' /\ UNCHANGED <<dev, psw, stack>> /\ pc' = IF n # 0 THEN To("hexdump_nonewline") ELSE After
        /\ \A k \in DumpCells : (cell[k])' = IF k = "R2" THEN n ELSE cell[k]
    BY <1>0, <2>1, <2>2, CountsLine
  <2>4. n = Room(i) - 1
    <3>1. cell["R2"] = Room(i)
      BY <1>1 DEF Keep
    <3>2. Room(i) \in 1..16
      BY <1>02, SMT DEF Room
    <3>. QED
      BY <2>2, <3>1, <3>2, SMT
  <2>5. /\ (cell["R2"])' = n /\ Dptr' = Dptr /\ (cell["R7"])' = cell["R7"]
        /\ (cell["R0"])' = cell["R0"] /\ (cell["R1"])' = cell["R1"]
    BY <2>3 DEF DumpCells, Dptr
  <2>6. Left(j, i)' /\ Keep(j, i + 1, n, FALSE)'
    BY <1>0, <1>1, <2>3, <2>5 DEF Left, Keep, Asked
  <2>7. CASE Opening(i + 1)
    <3>1. n = 0
      BY <1>02, <2>4, <2>7
    <3>2. Sits(j, b + 3, <<>>, "hexdump_noaddr", 7)'
      BY <1>1, <2>1, <2>3, <3>1 DEF Sits
    <3>. QED
      BY <2>6, <2>7, <3>1, <3>2 DEF AtEnd, b
  <2>8. CASE ~Opening(i + 1)
    <3>1. n # 0 /\ n = Room(i + 1) /\ b + 3 = DumpLength(i + 1)
      BY <1>02, <2>4, <2>8, SMT
    <3>2. Counts(j, i, 1)'
      BY <1>1, <2>1, <2>3, <3>1 DEF Sits, Counts, To
    <3>3. Keep(j, i + 1, Room(i + 1), Opening(i + 1))'
      BY <2>6, <2>8, <3>1 DEF Keep
    <3>. QED
      BY <2>6, <3>2, <3>3 DEF AtCount, Left
  <2>. QED
    BY <2>7, <2>8
<1>2. CASE Opening(i + 1) /\ Keep(j, i + 1, 0, FALSE) /\ Sits(j, b + 3, <<>>, "hexdump_noaddr", 7)
  <2>1. Insn = <<"movi", "R2", 16>> /\ After = <<"hexdump_noaddr", 8>>
    BY <1>2, NoAddrCode DEF Sits
  <2>2. "R2" \in DumpCells /\ 16 \in Byte
    BY ByteRange, SMT DEF DumpCells
  <2>3. Makes("R2", 16) /\ psw' = psw
    BY <1>0, <2>1, <2>2, MakesByte
  <2>4. Live' /\ Onwards /\ dev' = dev /\ \A k \in DumpCells : (cell[k])' = IF k = "R2" THEN 16 ELSE cell[k]
    BY <2>3 DEF Makes
  <2>5. /\ (cell["R2"])' = 16 /\ Dptr' = Dptr /\ (cell["R7"])' = cell["R7"]
        /\ (cell["R0"])' = cell["R0"] /\ (cell["R1"])' = cell["R1"]
    BY <2>4 DEF DumpCells, Dptr
  <2>6. Left(j, i)' /\ Keep(j, i + 1, 16, FALSE)'
    BY <1>0, <1>2, <2>3, <2>4, <2>5 DEF Left, Keep, Asked
  <2>7. Sits(j, b + 3, <<>>, "hexdump_noaddr", 8)'
    BY <1>2, <2>1, <2>4, Follow
  <2>. QED
    BY <1>2, <2>6, <2>7 DEF AtEnd, b
<1>3. CASE Opening(i + 1) /\ Keep(j, i + 1, 16, FALSE) /\ Sits(j, b + 3, <<>>, "hexdump_noaddr", 8)
  <2>1. Insn = <<"call", "serial_newline">> /\ After = <<"hexdump_noaddr", 9>>
    BY <1>3, NoAddrCode DEF Sits
  <2>2. Steady /\ Sits(j, b + 3, On(9), "serial_newline", 1)'
    BY <1>0, <1>3, <2>1, Invokes DEF On
  <2>3. Ending(j, b + 3, On(9))'
    BY <2>2 DEF Ending
  <2>. QED
    BY <1>01, <1>3, <2>2, <2>3, SteadyIsCalm DEF AtEnd, b
<1>4. CASE Opening(i + 1) /\ Keep(j, i + 1, 16, FALSE) /\ Ending(j, b + 3, On(9))
  <2>1. PICK s, m : s = On(9) /\ m = b + 3
    OBVIOUS
  <2>2. <<>> \in Seq({<<"hexdump_noaddr", 9>>}) /\ s \in Seq({<<"hexdump_noaddr", 9>>}) /\ m \in Nat
    BY <1>02, <2>1 DEF On
  <2>3. Char(j, m) = 13 /\ Char(j, m + 1) = 10
    BY <1>02, <1>4, <2>1, CharsOfLineEnd DEF b
  <2>4. Steady /\ (Ending(j, m, s)' \/ Home(j, m + 2, s))
    BY <1>0, <1>4, <2>1, <2>2, <2>3, EndingKeeps
  <2>5. Ending(j, m, s)' => Ending(j, b + 3, On(9))'
    BY <2>1
  <2>6. Home(j, m + 2, s) => Sits(j, b + 5, <<>>, "hexdump_noaddr", 9)'
    BY <1>02, <2>1, EmptyStack DEF On
  <2>. QED
    BY <1>01, <1>4, <2>4, <2>5, <2>6, SteadyIsCalm DEF AtEnd, b
<1>5. CASE Opening(i + 1) /\ Keep(j, i + 1, 16, FALSE) /\ Sits(j, b + 5, <<>>, "hexdump_noaddr", 9)
  <2>1. Insn = <<"setb", "F0">> /\ After = <<"hexdump_nonewline", 1>>
    BY <1>5, NoAddrCode DEF Sits
  <2>2. Still /\ Onwards /\ Asked'
    BY <1>0, <2>1, SetsAsked
  <2>3. (dev.out)' = dev.out /\ Left(j, i)' /\ Keep(j, i + 1, Room(i + 1), Opening(i + 1))'
    BY <1>0, <1>02, <1>5, <2>2 DEF Still, Keep, Left, Dptr
  <2>4. Counts(j, i, 1)'
    BY <1>02, <1>5, <2>1, <2>2, <2>3, Follow DEF Counts
  <2>. QED
    BY <2>3, <2>4 DEF AtCount, Left
<1>. QED
  BY <1>1, <1>2, <1>3, <1>4, <1>5 DEF AtEnd, b

(* R0:R1 counts down: the low byte borrows from the high one.                 *)
LEMMA CountingDown ==
  ASSUME NEW j, DumpJob(j), NEW i \in Nat, i < j.count
  PROVE LET was == Remains(j, i)
            now == Remains(j, i + 1)
        IN  /\ Hi(was) \in Byte /\ Lo(was) \in Byte /\ Hi(now) \in Byte /\ Lo(now) \in Byte
            /\ Lo(now) = (Lo(was) - 1 - 0) % 256 /\ (1 + 0 > Lo(was) <=> Lo(was) = 0)
            /\ \A c : c = (IF Lo(was) = 0 THEN 1 ELSE 0) => Hi(now) = (Hi(was) - 0 - c) % 256
            /\ now = 0 <=> i + 1 = j.count
            /\ BitOr(Hi(now), Lo(now)) = 0 <=> now = 0
<1>. DEFINE was == Remains(j, i)
            now == Remains(j, i + 1)
<1>1. PICK x : x = j.count - i
  OBVIOUS
<1>2. x \in Int /\ 1 <= x /\ x <= 65536 /\ j.count - (i + 1) = x - 1 /\ (x - 1 = 0 <=> i + 1 = j.count)
  BY <1>1, JobNumbers, SMT
<1>3. was = Wrap(x) /\ now = Wrap(x - 1)
  BY <1>1, <1>2 DEF Remains
<1>. HIDE DEF was, now
<1>4. now = x - 1 /\ was = IF x = 65536 THEN 0 ELSE x
  BY <1>2, <1>3, SMT DEF Wrap
<1>5. was \in Word /\ now \in Word
  BY <1>2, <1>4, WordRange, SMT
<1>6. Hi(was) \in Byte /\ Lo(was) \in Byte /\ Hi(now) \in Byte /\ Lo(now) \in Byte
  BY <1>5, HalvesOfWord
<1>7. PICK h, l : h = Hi(was) /\ l = Lo(was)
  OBVIOUS
<1>8. h \in Int /\ 0 <= h /\ h <= 255 /\ l \in Int /\ 0 <= l /\ l <= 255 /\ was = 256 * h + l
  BY <1>5, <1>6, <1>7, ByteRange, HalvesOfWord DEF Pair
<1>9. now = IF h = 0 /\ l = 0 THEN 65535 ELSE 256 * h + l - 1
  BY <1>2, <1>4, <1>8, SMT
<1>10. Lo(now) = (l - 1 - 0) % 256 /\ (1 + 0 > l <=> l = 0)
  BY <1>8, <1>9, SMT DEF Lo
<1>11. \A c : c = (IF l = 0 THEN 1 ELSE 0) => Hi(now) = (h - 0 - c) % 256
  BY <1>8, <1>9, SMT DEF Hi
<1>12. now = 0 <=> i + 1 = j.count
  BY <1>2, <1>4
<1>13. BitOr(Hi(now), Lo(now)) = 0 <=> now = 0
  <2>1. BitOr(Hi(now), Lo(now)) = 0 => Hi(now) = 0 /\ Lo(now) = 0
    BY <1>6, BitBounds
  <2>2. Hi(now) = 0 /\ Lo(now) = 0 => now = 0
    <3>1. Pair(0, 0) = 0
      BY SMT DEF Pair
    <3>. QED
      BY <1>5, <3>1, HalvesOfWord
  <2>3. now = 0 => BitOr(Hi(now), Lo(now)) = 0
    <3>1. Hi(0) = 0 /\ Lo(0) = 0
      BY SMT DEF Hi, Lo
    <3>2. 0 \in Byte
      BY ByteRange, SMT
    <3>3. BitAnd(0, 0) \in Byte /\ BitAnd(0, 0) <= 0
      BY <3>2, BitBounds
    <3>4. BitAnd(0, 0) = 0
      BY <3>3, ByteRange, SMT
    <3>5. BitOr(0, 0) = 0
      BY <3>4, SMT DEF BitOr
    <3>. QED
      BY <3>1, <3>5
  <2>. QED
    BY <2>1, <2>2, <2>3
<1>. QED
  BY <1>6, <1>7, <1>10, <1>11, <1>12, <1>13 DEF was, now

(* The byte is counted, and hexdump goes on to the next one unless it was    *)
(* the last.                                                                 *)
LEMMA CountKeeps ==
  ASSUME Step, NEW j, DumpJob(j), NEW i \in Nat, i < j.count, AtCount(j, i)
  PROVE AtCount(j, i)' \/ (i + 1 < j.count /\ AtLine(j, i + 1)')
<1>1. PICK was, now : was = Remains(j, i) /\ now = Remains(j, i + 1)
  OBVIOUS
<1>2. Live /\ Keep(j, i + 1, Room(i + 1), Opening(i + 1))
  BY DEF AtCount, Keep
<1>3. /\ Calm => Keep(j, i + 1, Room(i + 1), Opening(i + 1))'
      /\ Calm => (cell["R0"])' = cell["R0"] /\ (cell["R1"])' = cell["R1"]
  <2>1. Calm => (cell["R0"])' = cell["R0"] /\ (cell["R1"])' = cell["R1"]
    BY DEF Calm, DumpCells
  <2>. QED
    BY <1>2, <2>1, CalmKeeps
<1>4. /\ Hi(was) \in Byte /\ Lo(was) \in Byte /\ Hi(now) \in Byte /\ Lo(now) \in Byte
      /\ Lo(now) = (Lo(was) - 1 - 0) % 256 /\ (1 + 0 > Lo(was) <=> Lo(was) = 0)
      /\ \A c : c = (IF Lo(was) = 0 THEN 1 ELSE 0) => Hi(now) = (Hi(was) - 0 - c) % 256
      /\ now = 0 <=> i + 1 = j.count
      /\ BitOr(Hi(now), Lo(now)) = 0 <=> now = 0
  BY <1>1, CountingDown
<1>5. "A" \in DumpCells /\ "R0" \in DumpCells /\ "R1" \in DumpCells /\ 0 \in Byte /\ 1 \in Byte
  BY ByteRange, SMT DEF DumpCells
<1>6. ("C" \in psw <=> Lo(was) = 0) => Carry(psw) = IF Lo(was) = 0 THEN 1 ELSE 0
  BY DEF Carry
<1>7. i + 1 # j.count => i + 1 < j.count
  BY JobNumbers, SMT
<1>8. CASE cell["R0"] = Hi(was) /\ cell["R1"] = Lo(was) /\ Counts(j, i, 1)
  <2>1. Insn = <<"clrb", "C">> /\ After = <<"hexdump_nonewline", 2>>
    BY <1>8, CountDownCode DEF Counts, Sits
  <2>2. Still /\ Onwards /\ "C" \notin psw' /\ AskedSame
    BY <1>2, <2>1, ClearsCarry
  <2>3. Steady /\ (dev.out)' = dev.out
    BY <2>2, StillIsSteady
  <2>4. Counts(j, i, 2)'
    BY <1>8, <2>1, <2>2, <2>3, Follow DEF Counts
  <2>. QED
    BY <1>1, <1>3, <1>8, <2>2, <2>3, <2>4, SteadyIsCalm DEF AtCount
<1>9. CASE cell["R0"] = Hi(was) /\ cell["R1"] = Lo(was) /\ Counts(j, i, 2) /\ "C" \notin psw
  <2>1. Insn = <<"movx", "A", "R1">> /\ After = <<"hexdump_nonewline", 3>>
    BY <1>9, CountDownCode DEF Counts, Sits
  <2>2. Makes("A", cell["R1"]) /\ psw' = psw
    BY <1>2, <1>5, <2>1, MakesCopy DEF Makes
  <2>3. Steady /\ A' = cell["R1"] /\ Onwards /\ (dev.out)' = dev.out
    BY <1>2, <1>5, <2>1, Takes
  <2>4. Counts(j, i, 3)'
    BY <1>9, <2>1, <2>3, Follow DEF Counts
  <2>. QED
    BY <1>1, <1>3, <1>9, <2>2, <2>3, <2>4, SteadyIsCalm DEF AtCount
<1>10. CASE cell["R0"] = Hi(was) /\ cell["R1"] = Lo(was) /\ Counts(j, i, 3) /\ A = Lo(was) /\ "C" \notin psw
  <2>1. Insn = <<"subbi", 1>> /\ After = <<"hexdump_nonewline", 4>>
    BY <1>10, CountDownCode DEF Counts, Sits
  <2>2. Carry(psw) = 0
    BY <1>10 DEF Carry
  <2>3. Makes("A", (A - 1 - Carry(psw)) % 256) /\ AskedSame /\ ("C" \in psw' <=> 1 + Carry(psw) > A)
    BY <1>2, <1>5, <2>1, MakesDifference DEF Makes
  <2>4. Makes("A", Lo(now)) /\ ("C" \in psw' <=> Lo(was) = 0)
    <3>1. (A - 1 - Carry(psw)) % 256 = Lo(now) /\ (1 + Carry(psw) > A <=> Lo(was) = 0)
      BY <1>4, <1>10, <2>2
    <3>. QED
      BY <2>3, <3>1 DEF Makes
  <2>5. Steady /\ A' = Lo(now) /\ Onwards /\ (dev.out)' = dev.out
    BY <2>3, <2>4, MakesIsSteady
  <2>6. Counts(j, i, 4)'
    BY <1>10, <2>1, <2>5, Follow DEF Counts
  <2>. QED
    BY <1>1, <1>3, <1>10, <2>4, <2>5, <2>6, SteadyIsCalm DEF AtCount
<1>11. CASE cell["R0"] = Hi(was) /\ cell["R1"] = Lo(was) /\ Counts(j, i, 4) /\ A = Lo(now) /\ ("C" \in psw <=> Lo(was) = 0)
  <2>1. Insn = <<"movx", "R1", "A">> /\ After = <<"hexdump_nonewline", 5>>
    BY <1>11, CountDownCode DEF Counts, Sits
  <2>2. Makes("R1", A) /\ psw' = psw
    BY <1>2, <1>5, <2>1, MakesCopy DEF Makes, A
  <2>3. Live' /\ Onwards /\ dev' = dev /\ \A k \in DumpCells : (cell[k])' = IF k = "R1" THEN Lo(now) ELSE cell[k]
    BY <1>11, <2>2 DEF Makes
  <2>4. /\ (cell["R1"])' = Lo(now) /\ (cell["R0"])' = Hi(was) /\ (cell["R2"])' = cell["R2"]
        /\ (cell["R7"])' = cell["R7"] /\ A' = A /\ Dptr' = Dptr
    BY <1>11, <2>3 DEF DumpCells, A, Dptr
  <2>5. Keep(j, i + 1, Room(i + 1), Opening(i + 1))'
    BY <1>2, <2>2, <2>3, <2>4 DEF Keep, Asked
  <2>6. Counts(j, i, 5)'
    BY <1>11, <2>1, <2>3, Follow DEF Counts
  <2>. QED
    BY <1>1, <1>11, <2>2, <2>4, <2>5, <2>6 DEF AtCount
<1>12. CASE cell["R0"] = Hi(was) /\ cell["R1"] = Lo(now) /\ Counts(j, i, 5) /\ ("C" \in psw <=> Lo(was) = 0)
  <2>1. Insn = <<"movx", "A", "R0">> /\ After = <<"hexdump_nonewline", 6>>
    BY <1>12, CountDownCode DEF Counts, Sits
  <2>2. Makes("A", cell["R0"]) /\ psw' = psw
    BY <1>2, <1>5, <2>1, MakesCopy DEF Makes
  <2>3. Steady /\ A' = cell["R0"] /\ Onwards /\ (dev.out)' = dev.out
    BY <1>2, <1>5, <2>1, Takes
  <2>4. Counts(j, i, 6)'
    BY <1>12, <2>1, <2>3, Follow DEF Counts
  <2>. QED
    BY <1>1, <1>3, <1>12, <2>2, <2>3, <2>4, SteadyIsCalm DEF AtCount
<1>13. CASE cell["R0"] = Hi(was) /\ cell["R1"] = Lo(now) /\ Counts(j, i, 6) /\ A = Hi(was) /\ ("C" \in psw <=> Lo(was) = 0)
  <2>1. Insn = <<"subbi", 0>> /\ After = <<"hexdump_nonewline", 7>>
    BY <1>13, CountDownCode DEF Counts, Sits
  <2>2. Carry(psw) = IF Lo(was) = 0 THEN 1 ELSE 0
    BY <1>6, <1>13
  <2>3. Makes("A", (A - 0 - Carry(psw)) % 256) /\ AskedSame /\ ("C" \in psw' <=> 0 + Carry(psw) > A)
    BY <1>2, <1>5, <2>1, MakesDifference DEF Makes
  <2>4. Makes("A", Hi(now))
    <3>1. (A - 0 - Carry(psw)) % 256 = Hi(now)
      BY <1>4, <1>13, <2>2
    <3>. QED
      BY <2>3, <3>1 DEF Makes
  <2>5. Steady /\ A' = Hi(now) /\ Onwards /\ (dev.out)' = dev.out
    BY <2>3, <2>4, MakesIsSteady
  <2>6. Counts(j, i, 7)'
    BY <1>13, <2>1, <2>5, Follow DEF Counts
  <2>. QED
    BY <1>1, <1>3, <1>13, <2>4, <2>5, <2>6, SteadyIsCalm DEF AtCount
<1>14. CASE cell["R0"] = Hi(was) /\ cell["R1"] = Lo(now) /\ Counts(j, i, 7) /\ A = Hi(now)
  <2>1. Insn = <<"movx", "R0", "A">> /\ After = <<"hexdump_nonewline", 8>>
    BY <1>14, CountDownCode DEF Counts, Sits
  <2>2. Makes("R0", A) /\ psw' = psw
    BY <1>2, <1>5, <2>1, MakesCopy DEF Makes, A
  <2>3. Live' /\ Onwards /\ dev' = dev /\ \A k \in DumpCells : (cell[k])' = IF k = "R0" THEN Hi(now) ELSE cell[k]
    BY <1>14, <2>2 DEF Makes
  <2>4. /\ (cell["R0"])' = Hi(now) /\ (cell["R1"])' = Lo(now) /\ (cell["R2"])' = cell["R2"]
        /\ (cell["R7"])' = cell["R7"] /\ A' = A /\ Dptr' = Dptr
    BY <1>14, <2>3 DEF DumpCells, A, Dptr
  <2>5. Keep(j, i + 1, Room(i + 1), Opening(i + 1))'
    BY <1>2, <2>2, <2>3, <2>4 DEF Keep, Asked
  <2>6. Counts(j, i, 8)'
    BY <1>14, <2>1, <2>3, Follow DEF Counts
  <2>. QED
    BY <1>1, <1>14, <2>2, <2>4, <2>5, <2>6 DEF AtCount
<1>15. CASE cell["R0"] = Hi(now) /\ cell["R1"] = Lo(now) /\ Counts(j, i, 8) /\ A = Hi(now)
  <2>1. Insn = <<"orlx", "R1">> /\ After = <<"hexdump_nonewline", 9>>
    BY <1>15, CountDownCode DEF Counts, Sits
  <2>2. Makes("A", BitOr(Hi(now), Lo(now))) /\ psw' = psw
    BY <1>2, <1>15, <2>1, MakesLogic DEF Makes
  <2>3. Steady /\ A' = BitOr(Hi(now), Lo(now)) /\ Onwards /\ (dev.out)' = dev.out
    BY <2>2, MakesIsSteady
  <2>4. Counts(j, i, 9)'
    BY <1>15, <2>1, <2>3, Follow DEF Counts
  <2>. QED
    BY <1>1, <1>3, <1>15, <2>3, <2>4, SteadyIsCalm DEF AtCount
<1>16. CASE cell["R0"] = Hi(now) /\ cell["R1"] = Lo(now) /\ Counts(j, i, 9) /\ A = BitOr(Hi(now), Lo(now))
  <2>1. Insn = <<"jnz", "hexdump_loop">> /\ After = <<"hexdump_nonewline", 10>>
    BY <1>16, CountDownCode DEF Counts, Sits
  <2>2. Still /\ UNCHANGED <<psw, stack>> /\ pc' = IF A # 0 THEN To("hexdump_loop") ELSE After
    BY <1>2, <2>1, Branches
  <2>3. Steady /\ (dev.out)' = dev.out
    BY <2>2, StillIsSteady
  <2>4. CASE now = 0
    <3>1. Counts(j, i, 10)'
      BY <1>4, <1>16, <2>1, <2>2, <2>3, <2>4 DEF Counts, Sits
    <3>. QED
      BY <1>1, <1>3, <1>16, <2>3, <2>4, <3>1, SteadyIsCalm DEF AtCount
  <2>5. CASE now # 0
    <3>1. Sits(j, DumpLength(i + 1), <<>>, "hexdump_loop", 1)'
      BY <1>4, <1>16, <2>2, <2>3, <2>5 DEF Counts, Sits, To
    <3>2. Left(j, i + 1)'
      BY <1>1, <1>3, <1>16, <2>3, SteadyIsCalm DEF Left
    <3>3. i + 1 < j.count
      BY <1>4, <1>7, <2>5
    <3>. QED
      BY <1>3, <2>3, <3>1, <3>2, <3>3, SteadyIsCalm DEF AtLine
  <2>. QED
    BY <2>4, <2>5
<1>17. CASE cell["R0"] = Hi(now) /\ cell["R1"] = Lo(now) /\ Counts(j, i, 10) /\ now = 0
  <2>1. Insn = <<"ret">>
    BY <1>17, CountDownCode DEF Counts, Sits
  <2>2. stack # <<>>
    BY <1>2, <2>1, DumpReturns
  <2>. QED
    BY <1>17, <2>2 DEF Counts, Sits
<1>. QED
  BY <1>1, <1>8, <1>9, <1>10, <1>11, <1>12, <1>13, <1>14, <1>15, <1>16, <1>17 DEF AtCount

-----------------------------------------------------------------------------
(* The invariant: a dump is at some place of its text *)

Dumping(j) ==
  /\ DumpJob(j) /\ want = Sent(j, DumpLength(j.count))
  /\ Starting(j) \/ \E i \in Nat : i < j.count /\ AtPlace(j, i)
DumpInv == \A j : j = job /\ Calls("hexdump") => Dumping(j)

(* The number of bytes as R0:R1 has it.                                      *)
LEMMA CountsOfJobs ==
  ASSUME NEW n \in Amount
  PROVE n \in Nat /\ n - 1 \in Word /\ Lo(Wrap(n)) = Lo(n) /\ Hi(Wrap(n)) \in Byte /\ Lo(n) \in Byte
<1>. DEFINE m == 65536
<1>1. Amount = 1..m
  BY SMT DEF Amount
<1>2. m \in Int
  BY SMT
<1>2a. m = 65536
  BY SMT
<1>. HIDE DEF m
<1>3. \A k : k \in 1..m <=> k \in Int /\ 1 <= k /\ k <= m
  BY <1>2, SMT
<1>3a. n \in Int /\ 1 <= n /\ n <= m
  BY <1>1, <1>3
<1>4. n \in Int /\ 1 <= n /\ n <= 65536
  BY <1>2a, <1>3a, SMT
<1>5. n \in Nat /\ n - 1 \in Word
  BY <1>4, WordRange, SMT
<1>6. Lo(Wrap(n)) = Lo(n)
  BY <1>4, SMT DEF Lo, Wrap
<1>7. Wrap(n) \in Word
  BY <1>4, WrapIsWord
<1>8. Hi(Wrap(n)) \in Byte /\ Lo(Wrap(n)) \in Byte
  BY <1>7, HalvesOfWord
<1>. QED
  BY <1>5, <1>6, <1>8

(* A text of no characters is empty.                                         *)
LEMMA NothingSent ==
  ASSUME NEW j
  PROVE Sent(j, 0) = <<>>
<1>1. 1..0 = {}
  BY SMT
<1>2. Sent(j, 0) = [k \in {} |-> Char(j, k - 1)]
  BY <1>1, Zenon DEF Sent
<1>. QED
  BY <1>2

(* A call of hexdump starts its dump.                                        *)
LEMMA DumpInitial ==
  ASSUME Init PROVE DumpInv
<1>. SUFFICES ASSUME NEW j, j = job, Calls("hexdump") PROVE Dumping(j)
  BY DEF DumpInv
<1>1. DumpCall
  BY DEF Init, Calls, ListCall, PortCall, AddressCall, MainCall, TestCall
<1>2. j.from \in Word /\ j.count \in Amount /\ j.source \in 0..2 /\ j.left \in Byte
  BY <1>1, Zenon DEF DumpCall
<1>. DEFINE given == [DPH |-> Hi(j.from), DPL |-> Lo(j.from), R0 |-> Hi(Wrap(j.count)),
                      R1 |-> Lo(j.count), R7 |-> j.source]
<1>3. /\ pc = <<"hexdump", 1>> /\ stack = <<>>
      /\ cell = [n \in Cell |-> IF n \in DOMAIN given THEN given[n] ELSE j.left]
  BY <1>1, Zenon DEF DumpCall, Enter, To
<1>4. rom = Memory /\ dev = PowerUp(<<>>, Memory)
  BY <1>1, Zenon DEF DumpCall
<1>5. j.count \in Nat /\ j.count - 1 \in Word /\ Lo(Wrap(j.count)) = Lo(j.count) /\ Hi(Wrap(j.count)) \in Byte /\ Lo(j.count) \in Byte
  BY <1>2, CountsOfJobs
<1>6. DumpJob(j)
  BY <1>2, <1>5, Zenon DEF DumpJob
<1>7. want = Sent(j, DumpLength(j.count))
  <2>1. want = Sent(job, DumpLength(job.count))
    BY <1>1, Zenon DEF DumpCall, HexDump, Sent, Char
  <2>. QED
    BY <2>1, Zenon
<1>8. Hi(j.from) \in Byte /\ Lo(j.from) \in Byte /\ Pair(Hi(j.from), Lo(j.from)) = j.from /\ Wrap(j.from) = j.from
  BY <1>2, HalvesOfWord, WrapsNot, Zenon
<1>9. j.source \in Byte
  <2>1. \A r \in 0..2 : r \in Byte
    BY ByteRange, SMT
  <2>. QED
    BY <1>2, <2>1, Zenon
<1>10. PICK h, l, p, q, r : h = Hi(j.from) /\ l = Lo(j.from) /\ p = Hi(Wrap(j.count)) /\ q = Lo(j.count) /\ r = j.source
  OBVIOUS
<1>11. h \in Byte /\ l \in Byte /\ p \in Byte /\ q \in Byte /\ r \in Byte
  BY <1>5, <1>8, <1>9, <1>10, Zenon
<1>12. given = [DPH |-> h, DPL |-> l, R0 |-> p, R1 |-> q, R7 |-> r]
  BY <1>10, Zenon
<1>. HIDE DEF given
<1>13. /\ DOMAIN given = {"DPH", "DPL", "R0", "R1", "R7"}
       /\ given["DPH"] = h /\ given["DPL"] = l /\ given["R0"] = p /\ given["R1"] = q /\ given["R7"] = r
  BY <1>12, Zenon
<1>14. cell \in [Cell -> Byte]
  BY <1>2, <1>3, <1>11, <1>13
<1>15. cell["DPH"] = h /\ cell["DPL"] = l /\ cell["R0"] = p /\ cell["R1"] = q /\ cell["R7"] = r
  BY <1>3, <1>13, DumpCellAssumption
<1>16. Live
  <2>1. /\ DOMAIN dev = {"sfr", "regs", "xram", "ssp", "out", "ti", "log", "ocp"}
        /\ dev.xram = Memory /\ dev.ssp = 0
    BY <1>4 DEF PowerUp
  <2>. QED
    BY <1>4, <1>14, <2>1 DEF Live
<1>17. dev.out = Sent(j, 0)
  BY <1>4, NothingSent DEF PowerUp
<1>18. Dptr = Spot(j, 0)
  <2>1. j.from + 0 = j.from
    BY <1>6, JobNumbers, SMT
  <2>. QED
    BY <1>8, <1>10, <1>15, <2>1, Zenon DEF Dptr, Spot
<1>19. Left(j, 0)
  <2>1. j.count - 0 = j.count
    BY <1>6, JobNumbers, SMT
  <2>. QED
    BY <1>5, <1>10, <1>15, <2>1, Zenon DEF Left, Remains
<1>20. Sits(j, 0, <<>>, "hexdump", 1)
  BY <1>3, <1>17, Zenon DEF Sits
<1>21. Starting(j)
  BY <1>10, <1>15, <1>16, <1>18, <1>19, <1>20, Zenon DEF Starting
<1>. QED
  BY <1>6, <1>7, <1>21, Zenon DEF Dumping

(* One instruction: the dump stays at byte i or comes to the next.           *)
LEMMA DumpStep ==
  ASSUME DumpInv, NextInsn PROVE DumpInv'
<1>0. Step /\ job' = job /\ want' = want
  BY DEF NextInsn
<1>. SUFFICES ASSUME NEW j, j = job, Calls("hexdump") PROVE Dumping(j)'
  BY <1>0 DEF DumpInv, Calls
<1>1. DumpJob(j) /\ want = Sent(j, DumpLength(j.count)) /\ (Starting(j) \/ \E i \in Nat : i < j.count /\ AtPlace(j, i))
  BY DEF DumpInv, Dumping
<1>2. (Starting(j) \/ \E i \in Nat : i < j.count /\ AtPlace(j, i))'
  <2>1. CASE Starting(j)
    <3>1. Starting(j)' \/ AtLine(j, 0)'
      BY <1>0, <1>1, <2>1, StartingKeeps
    <3>2. 0 \in Nat /\ 0 < j.count
      BY <1>1, JobNumbers, SMT
    <3>. QED
      BY <3>1, <3>2 DEF AtPlace
  <2>2. CASE \E i \in Nat : i < j.count /\ AtPlace(j, i)
    <3>1. PICK i \in Nat : i < j.count /\ AtPlace(j, i)
      BY <2>2
    <3>2. AtLine(j, i) => AtLine(j, i)' \/ AtByte(j, i)'
      BY <1>0, <1>1, LineKeeps
    <3>3. AtByte(j, i) => AtByte(j, i)' \/ AtEnd(j, i)'
      BY <1>0, <1>1, ByteKeeps
    <3>4. AtEnd(j, i) => AtEnd(j, i)' \/ AtCount(j, i)'
      BY <1>0, <1>1, EndKeeps
    <3>5. AtCount(j, i) => AtCount(j, i)' \/ (i + 1 < j.count /\ AtLine(j, i + 1)')
      BY <1>0, <1>1, <3>1, CountKeeps
    <3>6. AtPlace(j, i)' \/ (i + 1 < j.count /\ AtPlace(j, i + 1)')
      BY <3>1, <3>2, <3>3, <3>4, <3>5 DEF AtPlace
    <3>7. i + 1 \in Nat
      BY SMT
    <3>. QED
      BY <3>1, <3>6, <3>7
  <2>. QED
    BY <1>1, <2>1, <2>2
<1>. QED
  BY <1>0, <1>1, <1>2 DEF Dumping

(* A step that changes nothing changes nothing of it.                        *)
LEMMA DumpUnmoved ==
  ASSUME DumpInv, UNCHANGED routineVars
  PROVE DumpInv'
<1>1. /\ pc' = pc /\ cell' = cell /\ psw' = psw /\ stack' = stack /\ rom' = rom /\ dev' = dev
      /\ job' = job /\ want' = want
  BY DEF routineVars
<1>. SUFFICES ASSUME NEW j, j = job, Calls("hexdump") PROVE Dumping(j)'
  BY <1>1 DEF DumpInv, Calls
<1>2. Dumping(j)
  BY DEF DumpInv
<1>3. \A m, s, l, i : Sits(j, m, s, l, i) => Sits(j, m, s, l, i)'
  BY <1>1 DEF Sits
<1>4. Live => Live'
  BY <1>1 DEF Live
<1>5. /\ \A d, n, f : Keep(j, d, n, f) => Keep(j, d, n, f)'
      /\ \A r : Left(j, r) => Left(j, r)'
  BY <1>1, <1>4 DEF Keep, Left, Dptr, Asked
<1>6. \A m, s : Sending(j, m, s) => Sending(j, m, s)'
  BY <1>1, <1>3 DEF Sending, A
<1>7. \A m, h, s : Nibbling(j, m, h, s) => Nibbling(j, m, h, s)'
  BY <1>1, <1>3, <1>6 DEF Nibbling, A
<1>8. \A m, v, s : Hexing(j, m, v, s) => Hexing(j, m, v, s)'
  BY <1>1, <1>3, <1>7 DEF Hexing, A
<1>9. \A m, w, s : Heading(j, m, w, s) => Heading(j, m, w, s)'
  BY <1>1, <1>3, <1>6, <1>8 DEF Heading, A, Dptr
<1>10. \A m, s : Ending(j, m, s) => Ending(j, m, s)'
  BY <1>1, <1>3, <1>6 DEF Ending, A
<1>11. \A m, a, r, s : Loading(j, m, a, r, s) => Loading(j, m, a, r, s)'
  BY <1>1, <1>3 DEF Loading, A, Dptr
<1>12. Starting(j) => Starting(j)'
  BY <1>1, <1>3, <1>4, <1>5 DEF Starting, Dptr, Asked
<1>13. \A i : AtLine(j, i) => AtLine(j, i)'
  BY <1>3, <1>5, <1>9 DEF AtLine
<1>14. \A i : AtByte(j, i) => AtByte(j, i)'
  BY <1>1, <1>3, <1>5, <1>6, <1>8, <1>11 DEF AtByte, A
<1>15. \A i : AtEnd(j, i) => AtEnd(j, i)'
  BY <1>3, <1>5, <1>10 DEF AtEnd
<1>16. \A i : AtCount(j, i) => AtCount(j, i)'
  BY <1>1, <1>3, <1>5 DEF AtCount, Counts, A
<1>17. \A i : AtPlace(j, i) => AtPlace(j, i)'
  BY <1>13, <1>14, <1>15, <1>16 DEF AtPlace
<1>. QED
  BY <1>1, <1>2, <1>12, <1>17 DEF Dumping

(* Wherever hexdump and the routines that it calls are, DPTR, R0:R1, R2 and   *)
(* F0 are those of the byte at hand, and what has been sent is the text up to *)
(* that place: the blank, the digits, the address or the end of a line that   *)
(* comes next is the one that the text has there (hello.s:112 to :213).       *)
THEOREM DumpInvariant == Spec => []DumpInv
<1>1. Init => DumpInv
  BY DumpInitial
<1>2. DumpInv /\ [NextInsn \/ Finished]_routineVars => DumpInv'
  <2>. SUFFICES ASSUME DumpInv, [NextInsn \/ Finished]_routineVars PROVE DumpInv'
    OBVIOUS
  <2>1. CASE NextInsn
    BY <2>1, DumpStep
  <2>2. CASE Finished \/ UNCHANGED routineVars
    BY <2>2, DumpUnmoved DEF Finished, Halt, vars, routineVars
  <2>. QED
    BY <2>1, <2>2
<1>. QED
  BY <1>1, <1>2, PTL DEF Spec

-----------------------------------------------------------------------------
(* What the invariant says of what has been sent *)

LEMMA SentOf ==
  ASSUME NEW j, NEW m \in Nat
  PROVE LET S == {Char(j, k) : k \in Nat}
        IN  Sent(j, m) \in Seq(S) /\ Len(Sent(j, m)) = m /\ \A k \in 1..m : Sent(j, m)[k] = Char(j, k - 1)
<1>. DEFINE S == {Char(j, k) : k \in Nat}
            s == Sent(j, m)
<1>1. s \in [1..m -> S] /\ DOMAIN s = 1..m
  <2>1. \A k \in 1..m : k - 1 \in Nat
    BY SMT
  <2>. QED
    BY <2>1 DEF Sent
<1>2. \A k \in 1..m : s[k] = Char(j, k - 1)
  BY DEF Sent
<1>. HIDE DEF s, S
<1>3. s \in Seq(S)
  BY <1>1
<1>4. Len(s) = m
  BY <1>1, <1>3
<1>. QED
  BY <1>2, <1>3, <1>4 DEF s, S

(* Of two texts of a job the shorter is the beginning of the longer.         *)
LEMMA SentPrefix ==
  ASSUME NEW j, NEW m \in Nat, NEW n \in Nat, m <= n
  PROVE IsPrefix(Sent(j, m), Sent(j, n))
<1>. DEFINE S == {Char(j, k) : k \in Nat}
            s == Sent(j, m)
            t == Sent(j, n)
<1>1. s \in Seq(S) /\ Len(s) = m /\ \A k \in 1..m : s[k] = Char(j, k - 1)
  BY SentOf
<1>2. t \in Seq(S) /\ Len(t) = n /\ \A k \in 1..n : t[k] = Char(j, k - 1)
  BY SentOf
<1>. HIDE DEF S, s, t
<1>3. /\ SubSeq(s, 1, m) \in Seq(S) /\ Len(SubSeq(s, 1, m)) = m
      /\ \A k \in 1..m : SubSeq(s, 1, m)[k] = s[k]
  BY <1>1
<1>4. /\ SubSeq(t, 1, m) \in Seq(S) /\ Len(SubSeq(t, 1, m)) = m
      /\ \A k \in 1..m : SubSeq(t, 1, m)[k] = t[k]
  BY <1>2
<1>5. \A k \in 1..m : SubSeq(s, 1, m)[k] = SubSeq(t, 1, m)[k]
  <2>1. \A k \in 1..m : k \in 1..n
    BY SMT
  <2>. QED
    BY <1>1, <1>2, <1>3, <1>4, <2>1
<1>6. SubSeq(s, 1, m) = SubSeq(t, 1, m)
  BY <1>3, <1>4, <1>5, SeqEqual
<1>. QED
  BY <1>1, <1>2, <1>6 DEF IsPrefix, s, t

(* How much has been sent at most; inside a routine there is a return.        *)
UpTo(j, n) == \E q \in Nat : q <= n /\ dev.out = Sent(j, q)

(* How much has been sent at an instruction; the lemmas after it: in each    *)
(* routine, and in hexdump.                                                  *)
LEMMA SitsReaches ==
  ASSUME NEW j, NEW m \in Nat, NEW n \in Nat, m <= n, NEW s, NEW l, NEW i, Sits(j, m, s, l, i)
  PROVE UpTo(j, n) /\ stack = s
BY DEF Sits, UpTo

LEMMA SendingReaches ==
  ASSUME NEW j, NEW m \in Nat, NEW n \in Nat, m + 1 <= n, NEW s, Sending(j, m, s)
  PROVE UpTo(j, n) /\ stack = s
<1>1. m <= n /\ m + 1 \in Nat
  BY SMT
<1>2. \A l, i : Sits(j, m, s, l, i) \/ Sits(j, m + 1, s, l, i) => UpTo(j, n) /\ stack = s
  BY <1>1, SitsReaches
<1>. QED
  BY <1>2, Zenon DEF Sending

LEMMA NibblingReaches ==
  ASSUME NEW j, NEW m \in Nat, NEW n \in Nat, m + 1 <= n, NEW h, NEW s, Nibbling(j, m, h, s)
  PROVE UpTo(j, n) /\ stack = s
<1>1. m <= n
  BY SMT
<1>2. \A l, i : Sits(j, m, s, l, i) => UpTo(j, n) /\ stack = s
  BY <1>1, SitsReaches
<1>3. Sending(j, m, s) => UpTo(j, n) /\ stack = s
  BY SendingReaches
<1>. QED
  BY <1>2, <1>3, Zenon DEF Nibbling

LEMMA HexingReaches ==
  ASSUME NEW j, NEW m \in Nat, NEW n \in Nat, m + 2 <= n, NEW v, NEW S, NEW s \in Seq(S), s # <<>>, Hexing(j, m, v, s)
  PROVE UpTo(j, n) /\ stack # <<>>
<1>1. m <= n /\ m + 1 \in Nat /\ m + 1 <= n /\ m + 1 + 1 <= n
  BY SMT
<1>2. Append(s, <<"serial_hex", 6>>) # <<>>
  BY TopOfStack
<1>3. \A l, i : Sits(j, m, s, l, i) \/ Sits(j, m + 1, s, l, i) => UpTo(j, n) /\ stack # <<>>
  BY <1>1, SitsReaches
<1>4. \A h : Nibbling(j, m, h, Append(s, <<"serial_hex", 6>>)) => UpTo(j, n) /\ stack # <<>>
  BY <1>1, <1>2, NibblingReaches
<1>5. \A h : Nibbling(j, m + 1, h, s) => UpTo(j, n) /\ stack # <<>>
  BY <1>1, NibblingReaches
<1>. QED
  BY <1>3, <1>4, <1>5, Zenon DEF Hexing

LEMMA HeadingReaches ==
  ASSUME NEW j, NEW m \in Nat, NEW n \in Nat, m + 5 <= n, NEW w, NEW S, NEW s \in Seq(S), s # <<>>, Heading(j, m, w, s)
  PROVE UpTo(j, n) /\ stack # <<>>
<1>1. /\ m <= n /\ m + 2 \in Nat /\ m + 2 <= n /\ m + 4 \in Nat /\ m + 4 <= n /\ m + 5 \in Nat
      /\ m + 2 + 2 <= n /\ m + 4 + 1 <= n
  BY SMT
<1>2. \A x : Append(s, x) # <<>> /\ Append(s, x) \in Seq(S \cup {x})
  BY TopOfStack
<1>3. \A l, i : Sits(j, m, s, l, i) \/ Sits(j, m + 2, s, l, i) \/ Sits(j, m + 4, s, l, i) \/ Sits(j, m + 5, s, l, i)
                => UpTo(j, n) /\ stack # <<>>
  BY <1>1, SitsReaches
<1>4. \A v, x : Hexing(j, m, v, Append(s, x)) \/ Hexing(j, m + 2, v, Append(s, x)) => UpTo(j, n) /\ stack # <<>>
  BY <1>1, <1>2, HexingReaches
<1>5. \A x : Sending(j, m + 4, Append(s, x)) => UpTo(j, n) /\ stack # <<>>
  BY <1>1, <1>2, SendingReaches
<1>. QED
  BY <1>3, <1>4, <1>5, Zenon DEF Heading

LEMMA EndingReaches ==
  ASSUME NEW j, NEW m \in Nat, NEW n \in Nat, m + 2 <= n, NEW S, NEW s \in Seq(S), s # <<>>, Ending(j, m, s)
  PROVE UpTo(j, n) /\ stack # <<>>
<1>1. m <= n /\ m + 1 \in Nat /\ m + 1 <= n /\ m + 2 \in Nat /\ m + 1 + 1 <= n
  BY SMT
<1>2. \A x : Append(s, x) # <<>>
  BY TopOfStack
<1>3. \A l, i : Sits(j, m, s, l, i) \/ Sits(j, m + 1, s, l, i) \/ Sits(j, m + 2, s, l, i) => UpTo(j, n) /\ stack # <<>>
  BY <1>1, SitsReaches
<1>4. \A x : Sending(j, m, Append(s, x)) \/ Sending(j, m + 1, Append(s, x)) => UpTo(j, n) /\ stack # <<>>
  BY <1>1, <1>2, SendingReaches
<1>. QED
  BY <1>3, <1>4, Zenon DEF Ending

LEMMA LoadingReaches ==
  ASSUME NEW j, NEW m \in Nat, NEW n \in Nat, m <= n, NEW a, NEW r, NEW s, s # <<>>, Loading(j, m, a, r, s)
  PROVE UpTo(j, n) /\ stack # <<>>
<1>1. \A l, i : Sits(j, m, s, l, i) => UpTo(j, n) /\ stack # <<>>
  BY SitsReaches
<1>. QED
  BY <1>1, Zenon DEF Loading

(* More bytes are more text.                                                 *)
LEMMA LengthGrows ==
  ASSUME NEW m \in Nat, NEW n \in Nat, m <= n
  PROVE DumpLength(m) \in Nat /\ DumpLength(n) \in Nat /\ DumpLength(m) <= DumpLength(n)
<1>. DEFINE k == m \div 16
            c == m % 16
            l == n \div 16
            d == n % 16
<1>1. k \in Nat /\ c \in 0..15 /\ m = 16 * k + c /\ l \in Nat /\ d \in 0..15 /\ n = 16 * l + d
  BY SMT
<1>2. /\ DumpLength(m) = 55 * k + (IF c = 0 THEN 0 ELSE 5 + 3 * c)
      /\ DumpLength(n) = 55 * l + (IF d = 0 THEN 0 ELSE 5 + 3 * d)
  BY DEF DumpLength
<1>. HIDE DEF k, c, l, d
<1>3. k < l \/ (k = l /\ c <= d)
  BY <1>1, SMT
<1>. QED
  BY <1>1, <1>2, <1>3, SMT

(* Before and in a byte no more than its part of the text is sent, and       *)
(* hexdump is not over.                                                      *)
LEMMA LineReaches ==
  ASSUME NEW j, NEW i \in Nat, AtLine(j, i)
  PROVE UpTo(j, DumpLength(i + 1)) /\ ~Over
<1>. DEFINE n == DumpLength(i + 1)
<1>1. /\ DumpLength(i) \in Nat /\ Body(i) \in Nat /\ n \in Nat /\ DumpLength(i) <= n /\ Body(i) <= n
      /\ Opening(i) => DumpLength(i) + 5 <= n
  <2>1. DumpLength(i) \in Nat /\ n \in Nat /\ DumpLength(i) <= n
    <3>1. i + 1 \in Nat /\ i <= i + 1
      BY SMT
    <3>. QED
      BY <3>1, LengthGrows
  <2>. HIDE DEF n
  <2>2. Body(i) \in Nat /\ Body(i) <= n
    BY <2>1, Places, SMT DEF n
  <2>3. Opening(i) => DumpLength(i) + 5 <= n
    BY <2>2, Places, SMT DEF Opening
  <2>. QED
    BY <2>1, <2>2, <2>3
<1>. HIDE DEF n
<1>2. \A e : Sits(j, DumpLength(i), <<>>, "hexdump_loop", e) \/ Sits(j, Body(i), <<>>, "hexdump_loop", e) => UpTo(j, n)
  BY <1>1, SitsReaches
<1>3. \A m : (\E e \in {1, 2, 3} : Sits(j, m, <<>>, "hexdump_loop", e)) => ~Over
  BY DumpLoopCode DEF Sits, Over, Op
<1>4. Opening(i) /\ Heading(j, DumpLength(i), Spot(j, i), OnLoop) => UpTo(j, n) /\ ~Over
  <2>1. PICK w : w = Spot(j, i)
    OBVIOUS
  <2>2. <<>> \in Seq({})
    OBVIOUS
  <2>3. OnLoop \in Seq({} \cup {<<"hexdump_loop", 3>>}) /\ OnLoop # <<>>
    BY <2>2, TopOfStack DEF OnLoop
  <2>. QED
    BY <1>1, <2>1, <2>3, HeadingReaches DEF Over
<1>5. UpTo(j, n) /\ ~Over
  BY <1>2, <1>3, <1>4, Zenon DEF AtLine
<1>. QED
  BY <1>5 DEF n

(* In a call something is on the stack.                                      *)
LEMMA OnIsDeep ==
  ASSUME NEW e
  PROVE On(e) \in Seq({} \cup {<<"hexdump_noaddr", e>>}) /\ On(e) # <<>>
<1>1. <<>> \in Seq({})
  OBVIOUS
<1>. QED
  BY <1>1, TopOfStack DEF On

LEMMA ByteReaches ==
  ASSUME NEW j, NEW i \in Nat, AtByte(j, i)
  PROVE UpTo(j, DumpLength(i + 1)) /\ ~Over
<1>. DEFINE n == DumpLength(i + 1)
            b == Body(i)
<1>1. b \in Nat /\ b + 1 \in Nat /\ b + 3 \in Nat /\ n \in Nat /\ b <= n /\ b + 1 <= n /\ b + 3 <= n /\ b + 1 + 2 <= n
  <2>1. DumpLength(i) \in Nat /\ n \in Nat
    <3>1. i + 1 \in Nat /\ i <= i + 1
      BY SMT
    <3>. QED
      BY <3>1, LengthGrows
  <2>. HIDE DEF n, b
  <2>2. b \in Nat /\ b + 3 <= n
    BY <2>1, Places, SMT DEF n, b
  <2>. QED
    BY <2>1, <2>2, SMT
<1>. HIDE DEF n, b
<1>2. \A e : Sits(j, b, <<>>, "hexdump_noaddr", e) \/ Sits(j, b + 1, <<>>, "hexdump_noaddr", e)
             \/ Sits(j, b + 3, <<>>, "hexdump_noaddr", e) => UpTo(j, n)
  BY <1>1, SitsReaches
<1>3. \A m : (\E e \in {1, 2, 3, 4, 5} : Sits(j, m, <<>>, "hexdump_noaddr", e)) => ~Over
  BY NoAddrCode DEF Sits, Over, Op
<1>4. Sending(j, b, On(3)) => UpTo(j, n) /\ ~Over
  BY <1>1, OnIsDeep, SendingReaches DEF Over
<1>5. Loading(j, b + 1, Spot(j, i), j.source, On(4)) => UpTo(j, n) /\ ~Over
  <2>1. PICK a, r : a = Spot(j, i) /\ r = j.source
    OBVIOUS
  <2>. QED
    BY <1>1, <2>1, OnIsDeep, LoadingReaches DEF Over
<1>6. Hexing(j, b + 1, Shows(j, i), On(5)) => UpTo(j, n) /\ ~Over
  <2>1. PICK v : v = Shows(j, i)
    OBVIOUS
  <2>. QED
    BY <1>1, <2>1, OnIsDeep, HexingReaches DEF Over
<1>7. UpTo(j, n) /\ ~Over
  BY <1>2, <1>3, <1>4, <1>5, <1>6, Zenon DEF AtByte, b
<1>. QED
  BY <1>7 DEF n

LEMMA EndReaches ==
  ASSUME NEW j, NEW i \in Nat, AtEnd(j, i)
  PROVE UpTo(j, DumpLength(i + 1)) /\ ~Over
<1>. DEFINE n == DumpLength(i + 1)
            b == Body(i)
<1>1. /\ b \in Nat /\ b + 3 \in Nat /\ b + 5 \in Nat /\ n \in Nat /\ b + 3 <= n
      /\ Opening(i + 1) => b + 3 + 2 <= n /\ b + 5 <= n
  <2>1. DumpLength(i) \in Nat /\ n \in Nat
    <3>1. i + 1 \in Nat /\ i <= i + 1
      BY SMT
    <3>. QED
      BY <3>1, LengthGrows
  <2>. HIDE DEF n, b
  <2>2. b \in Nat /\ b + 3 <= n
    BY <2>1, Places, SMT DEF n, b
  <2>3. Opening(i + 1) => b + 5 = n
    BY <2>1, Places, SMT DEF n, b, Opening
  <2>. QED
    BY <2>1, <2>2, <2>3, SMT
<1>. HIDE DEF n, b
<1>2. \A e : Sits(j, b + 3, <<>>, "hexdump_noaddr", e) => UpTo(j, n)
  BY <1>1, SitsReaches
<1>3. Opening(i + 1) => \A e : Sits(j, b + 5, <<>>, "hexdump_noaddr", e) => UpTo(j, n)
  BY <1>1, SitsReaches
<1>4. \A m : (\E e \in {6, 7, 8, 9} : Sits(j, m, <<>>, "hexdump_noaddr", e)) => ~Over
  BY NoAddrCode DEF Sits, Over, Op
<1>5. Opening(i + 1) /\ Ending(j, b + 3, On(9)) => UpTo(j, n) /\ ~Over
  BY <1>1, OnIsDeep, EndingReaches DEF Over
<1>6. UpTo(j, n) /\ ~Over
  BY <1>2, <1>3, <1>4, <1>5, Zenon DEF AtEnd, b
<1>. QED
  BY <1>6 DEF n

(* Only after the last byte is it over, and then all of the text is sent.    *)
LEMMA CountReaches ==
  ASSUME NEW j, DumpJob(j), NEW i \in Nat, i < j.count, AtCount(j, i)
  PROVE /\ UpTo(j, DumpLength(i + 1))
        /\ Over => i + 1 = j.count /\ dev.out = Sent(j, DumpLength(i + 1)) /\ Dptr = Spot(j, i + 1)
<1>. DEFINE n == DumpLength(i + 1)
            now == Remains(j, i + 1)
<1>1. n \in Nat
  <2>1. i + 1 \in Nat /\ i + 1 <= i + 1
    BY SMT
  <2>. QED
    BY <2>1, LengthGrows
<1>2. now = 0 <=> i + 1 = j.count
  BY CountingDown
<1>. HIDE DEF n, now
<1>3. Dptr = Spot(j, i + 1)
  BY DEF AtCount, Keep
<1>4. \A k : Counts(j, i, k) => UpTo(j, n) /\ dev.out = Sent(j, n)
  BY <1>1 DEF Counts, Sits, UpTo, n
<1>5. (\E k \in {1, 2, 3, 4, 5, 6, 7, 8, 9} : Counts(j, i, k)) => ~Over
  BY CountDownCode DEF Counts, Sits, Over, Op
<1>6. \/ \E k \in {1, 2, 3, 4, 5, 6, 7, 8, 9} : Counts(j, i, k)
      \/ Counts(j, i, 10) /\ now = 0
  BY Zenon DEF AtCount, now
<1>7. UpTo(j, n) /\ (Over => now = 0 /\ dev.out = Sent(j, n))
  BY <1>4, <1>5, <1>6
<1>. QED
  BY <1>2, <1>3, <1>7 DEF n

(* PrintsDump, at every place of a dump.                                     *)
LEMMA DumpingPrints ==
  ASSUME NEW j, Dumping(j)
  PROVE /\ IsPrefix(dev.out, want) /\ dev.xram = Memory
        /\ Over => dev.out = want /\ Dptr = Spot(j, j.count)
<1>1. DumpJob(j) /\ want = Sent(j, DumpLength(j.count)) /\ j.count \in Nat
  BY DEF Dumping, DumpJob
<1>. DEFINE n == DumpLength(j.count)
<1>2. n \in Nat /\ 0 <= n
  <2>1. j.count <= j.count
    BY <1>1, SMT
  <2>2. n \in Nat
    BY <1>1, <2>1, LengthGrows
  <2>. HIDE DEF n
  <2>. QED
    BY <2>2, SMT
<1>3. want = Sent(j, n)
  BY <1>1
<1>. HIDE DEF n
<1>4. ASSUME UpTo(j, n) PROVE IsPrefix(dev.out, want)
  BY <1>2, <1>3, <1>4, SentPrefix DEF UpTo
<1>5. CASE Starting(j)
  <2>1. dev.out = Sent(j, 0) /\ 0 \in Nat
    BY <1>5 DEF Starting, Sits
  <2>2. UpTo(j, n)
    BY <1>2, <2>1 DEF UpTo
  <2>3. ~Over
    BY <1>5, HexDumpCode DEF Starting, Sits, Over, Op
  <2>. QED
    BY <1>4, <1>5, <2>2, <2>3 DEF Starting, Live
<1>6. ASSUME NEW i \in Nat, i < j.count, AtPlace(j, i)
      PROVE /\ IsPrefix(dev.out, want) /\ dev.xram = Memory
            /\ Over => dev.out = want /\ Dptr = Spot(j, j.count)
  <2>1. dev.xram = Memory
    BY <1>6 DEF AtPlace, AtLine, AtByte, AtEnd, AtCount, Keep, Live
  <2>2. UpTo(j, DumpLength(i + 1))
    BY <1>1, <1>6, LineReaches, ByteReaches, EndReaches, CountReaches DEF AtPlace
  <2>3. Over => i + 1 = j.count /\ dev.out = Sent(j, DumpLength(i + 1)) /\ Dptr = Spot(j, i + 1)
    BY <1>1, <1>6, LineReaches, ByteReaches, EndReaches, CountReaches DEF AtPlace
  <2>4. DumpLength(i + 1) \in Nat /\ DumpLength(i + 1) <= n
    <3>1. i + 1 \in Nat /\ i + 1 <= j.count
      BY <1>1, <1>6, SMT
    <3>. QED
      BY <1>1, <3>1, LengthGrows DEF n
  <2>5. UpTo(j, n)
    <3>1. PICK k : k = DumpLength(i + 1)
      OBVIOUS
    <3>2. UpTo(j, k) /\ k \in Nat /\ k <= n
      BY <2>2, <2>4, <3>1
    <3>. QED
      BY <1>2, <3>2, SMT DEF UpTo
  <2>6. Over => dev.out = want /\ Dptr = Spot(j, j.count)
    BY <1>1, <2>3
  <2>. QED
    BY <1>4, <2>1, <2>5, <2>6
<1>. QED
  BY <1>5, <1>6 DEF Dumping

(* What hexdump has sent is at every moment a beginning of the dump asked for, *)
(* and all of it when it returns, with DPTR after the last byte and XRAM as   *)
(* it was: for every memory, source, address and number of bytes.             *)
THEOREM DumpPrinted == Spec => []PrintsDump
<1>1. DumpInv => PrintsDump
  <2>. SUFFICES ASSUME DumpInv, Calls("hexdump") PROVE PrintsDump
    BY DEF PrintsDump
  <2>1. PICK j : j = job
    OBVIOUS
  <2>2. Dumping(j)
    BY <2>1 DEF DumpInv
  <2>3. /\ IsPrefix(dev.out, want) /\ dev.xram = Memory
        /\ Over => dev.out = want /\ Dptr = Spot(j, j.count)
    BY <2>2, DumpingPrints
  <2>4. Spot(job, job.count) = (job.from + job.count) % 65536
    BY SMT DEF Spot, Wrap
  <2>. QED
    BY <2>1, <2>3, <2>4, SMT DEF PrintsDump
<1>. QED
  BY <1>1, DumpInvariant, PTL
=============================================================================
