---------------------------- MODULE IrqCtl_proofs ----------------------------
(***************************************************************************)
(* Theorems of IrqCtl, for every set of interrupts, every choice of the    *)
(* asynchronous ones, of the IP values and of the nesting bound.           *)
(***************************************************************************)
EXTENDS IrqCtl, TLAPS, SequenceTheorems, WellFoundedInduction

USE DEF regs, pend, vars

(***************************************************************************)
(* Data lemmas.                                                            *)
(***************************************************************************)

\* irq_vec's 31 - clz is defined: a non-empty mask has a highest bit, and it
\* is a bit of the mask.
LEMMA TopBitInMask ==
  ASSUME NEW mask \in SUBSET Irq, mask # {}
  PROVE  TopBit(mask) \in mask
<1> DEFINE Below == {31 - i : i \in mask}
<1>1. \A i \in mask : i \in 0..31
  BY IrqAssumption
<1>2. Below \subseteq Nat /\ Below # {}
  <2>1. \A i \in mask : 31 - i \in Nat
    BY <1>1
  <2> QED
    BY <2>1
<1>3. PICK x \in Below : \A y \in Below : x <= y
  <2>1. PICK x \in Below : \A y \in Below : ~ (<<y, x>> \in OpToRel(<, Nat))
    <3> HIDE DEF Below
    <3> QED
      BY <1>2, NatLessThanWellFounded, WFMin
  <2>2. ASSUME NEW y \in Below PROVE x <= y
    <3>1. x \in Nat /\ y \in Nat /\ <<y, x>> \in Nat \X Nat
      BY <1>2
    <3>2. ~ (y < x)
      BY <2>1, <3>1, Zenon DEF OpToRel
    <3> QED
      BY <3>1, <3>2
  <2> QED
    BY <2>2
<1>4. PICK i \in mask : x = 31 - i
  OBVIOUS
<1>5. \A j \in mask : j <= i
  <2> SUFFICES ASSUME NEW j \in mask PROVE j <= i
    OBVIOUS
  <2>1. 31 - j \in Below
    OBVIOUS
  <2>2. x <= 31 - j
    BY <1>3, <2>1
  <2> QED
    BY <1>1, <1>4, <2>2
<1> QED
  BY <1>4, <1>5 DEF TopBit

\* Returning from a routine removes the innermost frame and keeps the others.
LEMMA PopFrame ==
  ASSUME frames \in Seq(Frame), frames # << >>
  PROVE  LET rest == SubSeq(frames, 1, Len(frames) - 1) IN
         /\ rest \in Seq(Frame)
         /\ Len(rest) = Len(frames) - 1
         /\ \A k \in 1..Len(rest) : rest[k] = frames[k]
<1> DEFINE n == Len(frames) - 1
           rest == SubSeq(frames, 1, n)
<1>1. Len(frames) \in Nat \ {0}
  BY EmptySeq
<1>2. n \in Nat /\ 1 \in Int /\ n \in Int
  BY <1>1
<1>3. \A k \in 1..n : frames[k] \in Frame
  BY <1>1, ElementOfSeq
<1> HIDE DEF n
<1>4. /\ rest \in Seq(Frame)
      /\ Len(rest) = IF 1 <= n THEN n - 1 + 1 ELSE 0
      /\ \A k \in 1..(n - 1 + 1) : rest[k] = frames[1 + k - 1]
  BY <1>2, <1>3, SubSeqProperties
<1>5. Len(rest) = n /\ \A k \in 1..n : rest[k] = frames[k]
  BY <1>2, <1>4
<1> QED
  BY <1>4, <1>5 DEF n

\* Entering a routine adds one frame and keeps the others.
LEMMA PushFrame ==
  ASSUME frames \in Seq(Frame), NEW f \in Frame
  PROVE  /\ Append(frames, f) \in Seq(Frame)
         /\ Len(Append(frames, f)) = Len(frames) + 1
         /\ \A k \in 1..Len(frames) : Append(frames, f)[k] = frames[k]
         /\ Append(frames, f)[Len(frames) + 1] = f
  BY AppendProperties

\* What Enter appends is a frame for a pending interrupt on the level looked at.
LEMMA EnteredFrame ==
  ASSUME TypeOK, RequestMask # {}
  PROVE  /\ TopBit(RequestMask) \in RequestMask
         /\ [irq |-> TopBit(RequestMask), level |-> RequestLevel] \in Frame
<1>1. RequestMask \in SUBSET Irq
  BY DEF TypeOK, RequestMask
<1>2. TopBit(RequestMask) \in RequestMask
  BY <1>1, TopBitInMask
<1> QED
  BY <1>1, <1>2 DEF RequestLevel, Frame

-----------------------------------------------------------------------------
(***************************************************************************)
(* Type correctness: in particular irqlevel never leaves its two bits, so  *)
(* irq_vec's |= never sets a bit twice.                                    *)
(***************************************************************************)

\* irqlevel stays a mask of two bits and every mask a set of mapped
\* interrupts (core.c: irq_vec, irqlevel_reti, sfr_notify_irq).
THEOREM TypeCorrect == Spec => []TypeOK
<1>1. Init => TypeOK
  <2>1. << >> \in Seq(Frame)
    BY EmptySeq
  <2>2. ASSUME Init PROVE irqlevel \in 0..3
    BY <2>2 DEF Init
  <2>3. ASSUME Init PROVE ea \in BOOLEAN
    BY <2>3, Zenon DEF Init
  <2> QED
    BY <2>1, <2>2, <2>3 DEF Init, TypeOK
<1>2. TypeOK /\ [Next]_vars => TypeOK'
  <2> SUFFICES ASSUME TypeOK, [Next]_vars PROVE TypeOK'
    OBVIOUS
  <2>1. CASE Fetch
    <3>1. CASE Accepting /\ Len(frames) < MaxNest
      <4>1. irqlevel' \in 0..3
        BY <2>1, <3>1 DEF Fetch, Enter, Accepting, Blocked, LevelMask, RequestLevel, TypeOK
      <4>2. frames' \in Seq(Frame)
        <5>1. frames' = Append(frames, [irq |-> TopBit(RequestMask), level |-> RequestLevel])
          BY <2>1, <3>1 DEF Fetch, Enter
        <5>2. [irq |-> TopBit(RequestMask), level |-> RequestLevel] \in Frame
          BY <3>1, EnteredFrame DEF Accepting
        <5> QED
          BY <5>1, <5>2, PushFrame DEF TypeOK
      <4> QED
        BY <2>1, <4>1, <4>2 DEF Fetch, TypeOK
    <3>2. CASE ~(Accepting /\ Len(frames) < MaxNest)
      BY <2>1, <3>2 DEF Fetch, TypeOK
    <3> QED
      BY <3>1, <3>2
  <2>2. CASE WriteIE
    BY <2>2 DEF WriteIE, Call, TypeOK
  <2>3. CASE WriteIP
    BY <2>3, IpAssumption DEF WriteIP, Call, TypeOK
  <2>4. CASE \E i \in Irq : WriteSource(i)
    BY <2>4 DEF WriteSource, Call, TypeOK
  <2>5. CASE \E i \in Irq : Notify(i)
    BY <2>5 DEF Notify, Recomputed, TypeOK
  <2>6. CASE EndInsn
    BY <2>6 DEF EndInsn, TypeOK
  <2>7. CASE Reti
    BY <2>7, PopFrame DEF Reti, LevelAfterReti, TypeOK
  <2>8. CASE \E i \in Async : Raise(i)
    BY <2>8, AsyncAssumption DEF Raise, TypeOK
  <2>9. CASE UNCHANGED vars
    BY <2>9 DEF TypeOK
  <2> QED
    BY <2>1, <2>2, <2>3, <2>4, <2>5, <2>6, <2>7, <2>8, <2>9 DEF Next, Cpu
<1> QED
  BY <1>1, <1>2, PTL DEF Spec

-----------------------------------------------------------------------------
(***************************************************************************)
(* The pending masks.  The inductive invariant adds that notifiers are     *)
(* owed only inside sfr_notify.                                            *)
(***************************************************************************)

Settled == stage # "notify" => todo = {}
PendInv == Settled /\ PendingSound /\ PendingComplete

LEMMA PendInvInit == Init => PendInv
  BY DEF Init, PendInv, Settled, PendingSound, PendingComplete

LEMMA PendInvStep == TypeOK /\ PendInv /\ [Next]_vars => PendInv'
<1> SUFFICES ASSUME TypeOK, PendInv, [Next]_vars PROVE PendInv'
  OBVIOUS
<1> USE DEF PendInv, Settled, PendingSound, PendingComplete
<1>1. CASE Fetch
  BY <1>1 DEF Fetch
<1>2. CASE WriteIE
  BY <1>2 DEF WriteIE, Call
<1>3. CASE WriteIP
  BY <1>3 DEF WriteIP, Call
<1>4. ASSUME NEW i \in Irq, WriteSource(i) PROVE PendInv'
  <2>1. todo = {} /\ todo' = {i} /\ stage' = "notify"
    BY <1>4 DEF WriteSource, Call
  <2>2. \A j \in Irq \ {i} : j \in src' <=> j \in src
    BY <1>4 DEF WriteSource
  <2>3. UNCHANGED <<regs, pend>>
    BY <1>4 DEF WriteSource
  <2> QED
    BY <2>1, <2>2, <2>3
<1>5. ASSUME NEW i \in Irq, Notify(i) PROVE PendInv'
  <2>1. /\ ie' = ie /\ ip' = ip /\ src' = src
        /\ todo' = todo \ {i}
    BY <1>5 DEF Notify
  <2>2. /\ i \in irqpendl0' <=> i \in ie \cap src /\ i \notin ip
        /\ i \in irqpendl1' <=> i \in ie \cap src /\ i \in ip
    BY <1>5 DEF Notify, Recomputed
  <2>3. \A j \in Irq \ {i} :
          /\ j \in irqpendl0' <=> j \in irqpendl0
          /\ j \in irqpendl1' <=> j \in irqpendl1
    BY <1>5 DEF Notify, Recomputed
  <2>4. Settled'
    BY <1>5 DEF Notify
  <2>5. ASSUME NEW j \in Irq \ todo'
        PROVE  /\ j \in irqpendl0' => j \in ie' \cap src' /\ j \notin ip'
               /\ j \in irqpendl1' => j \in ie' \cap src' /\ j \in ip'
    <3>1. CASE j = i
      BY <3>1, <2>1, <2>2
    <3>2. CASE j # i
      <4>1. j \in Irq \ todo /\ j \in Irq \ {i}
        BY <3>2, <2>1
      <4>2. /\ j \in irqpendl0 => j \in ie \cap src /\ j \notin ip
            /\ j \in irqpendl1 => j \in ie \cap src /\ j \in ip
        BY <4>1
      <4> QED
        BY <4>1, <4>2, <2>1, <2>3
    <3> QED
      BY <3>1, <3>2
  <2>6. ASSUME NEW j \in Irq \ (todo' \cup Async), j \in ie' \cap src'
        PROVE  j \in irqpendl0' \cup irqpendl1'
    <3>1. CASE j = i
      BY <3>1, <2>1, <2>2, <2>6
    <3>2. CASE j # i
      <4>1. j \in Irq \ (todo \cup Async) /\ j \in Irq \ {i}
        BY <3>2, <2>1
      <4>2. j \in irqpendl0 \cup irqpendl1
        BY <4>1, <2>1, <2>6
      <4> QED
        BY <4>1, <4>2, <2>3
    <3> QED
      BY <3>1, <3>2
  <2> QED
    BY <2>4, <2>5, <2>6
<1>6. CASE EndInsn
  BY <1>6 DEF EndInsn
<1>7. CASE Reti
  BY <1>7 DEF Reti
<1>8. ASSUME NEW i \in Async, Raise(i) PROVE PendInv'
  BY <1>8 DEF Raise
<1>9. CASE UNCHANGED vars
  BY <1>9
<1> QED
  BY <1>1, <1>2, <1>3, <1>4, <1>5, <1>6, <1>7, <1>8, <1>9 DEF Next, Cpu

LEMMA PendInvariant == Spec => []PendInv
  BY PendInvInit, PendInvStep, TypeCorrect, PTL DEF Spec

\* A pending bit never outlives what it stands for: enable, source and level
\* agree with it once the notifiers have run (sfr_notify_irq).
THEOREM PendingIsSound == Spec => []PendingSound
<1>1. PendInv => PendingSound
  BY DEF PendInv
<1> QED
  BY <1>1, PendInvariant, PTL

\* No request of a source only the CPU asserts is lost, in whatever order the
\* firmware writes the registers (map_irq's three watchers).
THEOREM PendingIsComplete == Spec => []PendingComplete
<1>1. PendInv => PendingComplete
  BY DEF PendInv
<1> QED
  BY <1>1, PendInvariant, PTL

\* Every routine is entered for a source enabled, asserted and on the level
\* it is entered at, at that fetch (nextop, handle_irq, irq_vec).
THEOREM AcceptIsJustified == Spec => AcceptJustified
<1> DEFINE Justified ==
      Len(frames') > Len(frames) =>
         LET f == frames'[Len(frames')] IN
         /\ ea /\ f.irq \in ie \cap src
         /\ f.level = 1 <=> f.irq \in ip
<1>1. TypeOK /\ PendInv /\ [Next]_vars => [Justified]_vars
  <2> SUFFICES ASSUME TypeOK, PendInv, Next, Len(frames') > Len(frames)
               PROVE  Justified
    BY DEF TypeOK
  <2>1. frames' # frames
    BY DEF TypeOK
  <2>2. CASE Fetch
    <3>1. Accepting /\ Enter /\ stage = "fetch"
      BY <2>1, <2>2 DEF Fetch
    <3> DEFINE f == [irq |-> TopBit(RequestMask), level |-> RequestLevel]
    <3>2. f \in Frame /\ f.irq \in RequestMask
      BY <3>1, EnteredFrame DEF Accepting
    <3>3. frames' = Append(frames, f)
      BY <3>1 DEF Enter
    <3>4. frames'[Len(frames')] = f
      BY <3>2, <3>3, PushFrame DEF TypeOK
    <3>5. todo = {} /\ PendingSound
      BY <3>1 DEF PendInv, Settled
    <3>6. ea /\ f.irq \in ie \cap src /\ (f.level = 1 <=> f.irq \in ip)
      BY <3>1, <3>2, <3>5 DEF Accepting, RequestMask, RequestLevel, PendingSound, TypeOK
    <3> HIDE DEF f
    <3> QED
      BY <3>4, <3>6
  <2>3. CASE Reti
    BY <2>3, PopFrame DEF Reti, TypeOK
  <2>4. CASE ~Fetch /\ ~Reti
    BY <2>1, <2>4
       DEF Next, Cpu, WriteIE, WriteIP, WriteSource, Notify, EndInsn, Raise
  <2> QED
    BY <2>2, <2>3, <2>4
<1>2. Spec => [][Justified]_vars
  BY <1>1, TypeCorrect, PendInvariant, PTL DEF Spec
<1> QED
  BY <1>2 DEF AcceptJustified

-----------------------------------------------------------------------------
(***************************************************************************)
(* The service stack.  HighInnermost is inductive as it stands.            *)
(***************************************************************************)

LEMMA HighInnermostStep == TypeOK /\ HighInnermost /\ [Next]_vars => HighInnermost'
<1> SUFFICES ASSUME TypeOK, HighInnermost, [Next]_vars PROVE HighInnermost'
  OBVIOUS
<1>0. frames \in Seq(Frame) /\ Len(frames) \in Nat /\ DOMAIN frames = 1..Len(frames)
  BY LenProperties DEF TypeOK
<1>1. CASE Fetch /\ Accepting /\ Len(frames) < MaxNest
  <2> DEFINE f == [irq |-> TopBit(RequestMask), level |-> RequestLevel]
  <2>1. f \in Frame /\ frames' = Append(frames, f)
    BY <1>1, EnteredFrame DEF Fetch, Enter, Accepting
  <2>2. \A k \in 1..Len(frames) : frames[k].level # 1
    BY <1>0, <1>1 DEF HighInnermost, Accepting, Blocked, LevelMask, TypeOK
  <2>3. f.level = 1 => irqlevel' >= 2
    BY <1>1 DEF Fetch, Enter, LevelMask, TypeOK
  <2> HIDE DEF f
  <2>4. /\ frames' \in Seq(Frame)
        /\ Len(frames') = Len(frames) + 1
        /\ \A k \in 1..Len(frames) : frames'[k] = frames[k]
        /\ frames'[Len(frames) + 1] = f
    BY <1>0, <2>1, PushFrame
  <2>5. DOMAIN frames' = 1..(Len(frames) + 1)
    BY <2>4, LenProperties
  <2> QED
    BY <1>0, <2>2, <2>3, <2>4, <2>5 DEF HighInnermost
<1>2. CASE Reti
  <2>1. /\ DOMAIN frames' = 1..(Len(frames) - 1)
        /\ \A k \in 1..(Len(frames) - 1) : frames'[k] = frames[k]
    BY <1>0, <1>2, PopFrame, LenProperties DEF Reti
  <2>2. \A k \in 1..(Len(frames) - 1) : frames'[k].level # 1
    BY <1>0, <2>1 DEF HighInnermost
  <2> QED
    BY <2>1, <2>2 DEF HighInnermost
<1>3. CASE UNCHANGED <<irqlevel, frames>>
  BY <1>3 DEF HighInnermost
<1> QED
  BY <1>1, <1>2, <1>3
     DEF Next, Cpu, Fetch, WriteIE, WriteIP, WriteSource, Notify, EndInsn, Raise

\* A high routine is always the innermost one, and irq_vec can see it in
\* irqlevel, although irqlevel_reti clears the whole mask.
THEOREM HighIsInnermost == Spec => []HighInnermost
<1>1. Init => HighInnermost
  BY DEF Init, HighInnermost
<1> QED
  BY <1>1, HighInnermostStep, TypeCorrect, PTL DEF Spec

\* Hence nothing ever interrupts a high routine.
THEOREM HighIsNotPreempted == Spec => HighNotPreempted
<1>1. /\ TypeOK /\ HighInnermost /\ [Next]_vars
      => [frames # << >> /\ Top.level = 1 => Len(frames') <= Len(frames)]_vars
  <2> SUFFICES ASSUME TypeOK, HighInnermost, Next, frames # << >>, Top.level = 1
               PROVE  Len(frames') <= Len(frames)
    OBVIOUS
  <2>0. Len(frames) \in Nat \ {0} /\ DOMAIN frames = 1..Len(frames)
    BY LenProperties, EmptySeq DEF TypeOK
  <2>1. irqlevel >= 2
    BY <2>0 DEF HighInnermost, Top
  <2>2. ~Accepting
    BY <2>1 DEF Accepting, Blocked, LevelMask, TypeOK
  <2>3. CASE Reti
    BY <2>0, <2>3, PopFrame DEF Reti, TypeOK
  <2>4. CASE ~Reti
    <3>1. frames' = frames
      BY <2>2, <2>4
         DEF Next, Cpu, Fetch, WriteIE, WriteIP, WriteSource, Notify, EndInsn, Raise
    <3> QED
      BY <2>0, <3>1
  <2> QED
    BY <2>3, <2>4
<1> QED
  BY <1>1, TypeCorrect, HighIsInnermost, PTL DEF Spec, HighNotPreempted

-----------------------------------------------------------------------------
(***************************************************************************)
(* One level.  When the firmware leaves IP at zero the controller          *)
(* implements IrqService.                                                  *)
(***************************************************************************)

OneLevelOnly == ip = {} /\ irqpendl1 = {}
FlatInv == OneLevelOnly /\ NoNesting

LEMMA FlatStep ==
  ASSUME IpValues \subseteq {{}}
  PROVE  TypeOK /\ FlatInv /\ [Next]_vars => FlatInv'
<1> SUFFICES ASSUME TypeOK, FlatInv, [Next]_vars PROVE FlatInv'
  OBVIOUS
<1>0. frames \in Seq(Frame) /\ Len(frames) \in Nat /\ irqlevel \in 0..3
  BY LenProperties DEF TypeOK
<1>1. CASE Fetch /\ Accepting /\ Len(frames) < MaxNest
  <2> DEFINE f == [irq |-> TopBit(RequestMask), level |-> RequestLevel]
  <2>1. f \in Frame /\ frames' = Append(frames, f)
    BY <1>1, EnteredFrame DEF Fetch, Enter, Accepting
  <2>2. RequestLevel = 0 /\ irqlevel = 0
    BY <1>0, <1>1 DEF FlatInv, OneLevelOnly, RequestLevel, Accepting, Blocked, LevelMask
  <2>3. frames = << >> /\ Len(frames) = 0 /\ irqlevel' = 1
    BY <1>1, <2>2, EmptySeq DEF FlatInv, NoNesting, Fetch, Enter, LevelMask
  <2> HIDE DEF f
  <2>4. Len(frames') = 1 /\ frames' # << >>
    BY <1>0, <2>1, <2>3, PushFrame, EmptySeq
  <2>5. UNCHANGED <<ip, irqpendl1>>
    BY <1>1 DEF Fetch
  <2> QED
    BY <2>3, <2>4, <2>5 DEF FlatInv, OneLevelOnly, NoNesting
<1>2. CASE Reti
  <2>1. Len(frames) = 1
    <3>1. frames # << >> /\ Len(frames) <= 1
      BY <1>2 DEF FlatInv, NoNesting, Reti
    <3>2. Len(frames) \in Nat /\ Len(frames) # 0
      BY <1>0, <3>1, EmptySeq
    <3> DEFINE n == Len(frames)
    <3>3. n \in Nat /\ n # 0 /\ n <= 1
      BY <3>1, <3>2
    <3> HIDE DEF n
    <3>4. n = 1
      BY <3>3
    <3> QED
      BY <3>4 DEF n
  <2>2. frames' \in Seq(Frame) /\ Len(frames') = 0
    BY <1>0, <1>2, <2>1, PopFrame DEF Reti
  <2>3. frames' = << >>
    BY <2>2, EmptySeq
  <2> QED
    BY <1>2, <2>2, <2>3 DEF FlatInv, OneLevelOnly, NoNesting, Reti, LevelAfterReti
<1>3. CASE /\ UNCHANGED <<irqlevel, frames>>
           /\ ip' = {} /\ irqpendl1' = {}
  BY <1>3 DEF FlatInv, OneLevelOnly, NoNesting
<1>4. ASSUME NEW i \in Irq, Notify(i) PROVE FlatInv'
  <2>1. irqpendl1' = {} /\ ip' = {}
    BY <1>4 DEF FlatInv, OneLevelOnly, Notify, Recomputed
  <2> QED
    BY <1>3, <1>4, <2>1 DEF Notify
<1>5. CASE WriteIP
  BY <1>3, <1>5 DEF WriteIP, FlatInv, OneLevelOnly
<1> QED
  BY <1>1, <1>2, <1>3, <1>4, <1>5
     DEF Next, Cpu, Fetch, WriteIE, WriteSource, EndInsn, Raise, FlatInv, OneLevelOnly

\* With one level irqlevel_reti clears exactly what irq_vec set: routines do
\* not nest and irqlevel is nonzero exactly while one is in service.
THEOREM FlatDoesNotNest ==
  ASSUME IpValues \subseteq {{}}
  PROVE  Spec => [](OneLevelOnly /\ NoNesting)
<1>1. Init => FlatInv
  BY EmptySeq DEF Init, FlatInv, OneLevelOnly, NoNesting
<1>2. TypeOK /\ FlatInv /\ [Next]_vars => FlatInv'
  BY FlatStep
<1> QED
  BY <1>1, <1>2, TypeCorrect, PTL DEF Spec, FlatInv

\* With one level the controller implements the two level controller it
\* stands for: every step of the code is a step of IrqService or changes
\* nothing the firmware can tell.
THEOREM FlatImplementsService ==
  ASSUME IpValues \subseteq {{}}
  PROVE  Spec => ServiceSpec
<1>1. Init => Service!Init
  BY DEF Init, Service!Init, Asking
<1>2. TypeOK /\ TypeOK' /\ PendInv /\ FlatInv /\ [Next]_vars => [Service!Next]_(Service!vars)
  <2> SUFFICES ASSUME TypeOK, TypeOK', PendInv, FlatInv, [Next]_vars
               PROVE  [Service!Next]_(Service!vars)
    OBVIOUS
  <2>1. CASE Fetch /\ Accepting /\ Len(frames) < MaxNest
    <3> DEFINE i == TopBit(RequestMask)
    <3>1. RequestLevel = 0 /\ irqlevel = 0 /\ ea /\ RequestMask # {} /\ stage = "fetch"
      BY <2>1 DEF FlatInv, OneLevelOnly, RequestLevel, Accepting, Blocked, LevelMask, TypeOK, Fetch
    <3>2. i \in irqpendl0
      BY <3>1, EnteredFrame DEF RequestMask
    <3>3. i \in Irq /\ i \in Asking /\ i \notin ip
      BY <3>1, <3>2 DEF PendInv, Settled, PendingSound, Asking, TypeOK
    <3>4. frames = << >>
      BY <3>1 DEF FlatInv, NoNesting
    <3>5. frames' = Append(frames, [irq |-> i, level |-> Service!Level(i)])
      BY <2>1, <3>1, <3>3 DEF Fetch, Enter, Service!Level
    <3>6. UNCHANGED <<Asking, ip>>
      BY <2>1 DEF Fetch, Asking
    <3> HIDE DEF i
    <3>7. Service!Accept(i)
      BY <3>3, <3>4, <3>5, <3>6 DEF Service!Accept
    <3> QED
      BY <3>3, <3>7 DEF Service!Next
  <2>2. CASE Reti
    <3>1. Service!Complete
      BY <2>2 DEF Reti, Service!Complete, Asking
    <3> QED
      BY <3>1 DEF Service!Next
  <2>3. CASE UNCHANGED frames
    <3>1. Asking' \in SUBSET Irq /\ ip' \in SUBSET Irq
      BY DEF TypeOK, Asking
    <3>2. Service!Reconfigure
      BY <2>3, <3>1 DEF Service!Reconfigure
    <3> QED
      BY <3>2 DEF Service!Next
  <2> QED
    BY <2>1, <2>2, <2>3
       DEF Next, Cpu, Fetch, WriteIE, WriteIP, WriteSource, Notify, EndInsn, Raise
<1>3. Spec => [](TypeOK /\ PendInv /\ FlatInv)
  BY TypeCorrect, PendInvariant, FlatDoesNotNest, PTL DEF FlatInv
<1> QED
  BY <1>1, <1>2, <1>3, PTL DEF Spec, ServiceSpec, Service!Spec
=============================================================================
