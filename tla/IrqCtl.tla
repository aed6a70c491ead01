------------------------------- MODULE IrqCtl -------------------------------
(***************************************************************************)
(* The interrupt controller of the emulator: core.c, sfr_notify_irq to     *)
(* nextop.  The CPU loop fetches (and there may enter an interrupt         *)
(* routine), executes one instruction, and every write of a watched        *)
(* special function register runs the notifiers that recompute the pending *)
(* bit masks.  Another thread may assert a source behind the notifiers'    *)
(* back: the UART listener stores RI straight into SFR memory.             *)
(*                                                                         *)
(* Bit masks over the interrupt numbers are sets of numbers.  `frames' is  *)
(* a history variable: the code keeps only return addresses on the stack.  *)
(***************************************************************************)
EXTENDS Naturals, Sequences, FiniteSets

CONSTANTS
    Irq,        \* numbers given to map_irq
    Async,      \* those whose source another thread asserts
    IpValues,   \* values the firmware writes to IP, as sets of numbers
    MaxNest     \* bound: nested routines explored

ASSUME IrqAssumption == Irq \subseteq 0..31
ASSUME AsyncAssumption == Async \subseteq Irq
ASSUME IpAssumption == IpValues \subseteq SUBSET Irq
ASSUME NestAssumption == MaxNest \in Nat \ {0}

VARIABLES
    stage,      \* where the CPU loop is: "fetch", "exec" or "notify"
    todo,       \* notifiers sfr_notify still has to call for this write
    ie, ea,     \* enable bits of IE, and its global bit EA
    ip,         \* priority bits
    src,        \* asserted sources
    irqpendl0,  \* level 0 pending mask
    irqpendl1,  \* level 1 pending mask
    irqlevel,   \* bit mask of levels
    frames      \* history: routines entered and not yet left, outermost first

regs == <<ie, ea, ip>>
pend == <<irqpendl0, irqpendl1>>
vars == <<stage, todo, ie, ea, ip, src, irqpendl0, irqpendl1, irqlevel, frames>>

Frame == [irq : Irq, level : {0, 1}]
Top == frames[Len(frames)]

TypeOK == /\ stage \in {"fetch", "exec", "notify"}
          /\ todo \subseteq Irq
          /\ ie \subseteq Irq /\ ea \in BOOLEAN
          /\ ip \subseteq Irq
          /\ src \subseteq Irq
          /\ irqpendl0 \subseteq Irq /\ irqpendl1 \subseteq Irq
          /\ irqlevel \in 0..3
          /\ frames \in Seq(Frame)

Init == /\ stage = "fetch" /\ todo = {}
        /\ ie = {} /\ ea = FALSE /\ ip = {} /\ src = {}
        /\ irqpendl0 = {} /\ irqpendl1 = {} /\ irqlevel = 0
        /\ frames = << >>

-----------------------------------------------------------------------------
(* nextop and handle_irq *)

\* 31 - clz: the highest numbered bit of a mask.
TopBitLowest(mask) == CHOOSE i \in mask : \A j \in mask : i <= j
TopBit(mask) == CHOOSE i \in mask : \A j \in mask : j <= i

LevelMask(l) == IF l = 1 THEN 2 ELSE 1

\* irq_vec's early return: the level or a higher one is in service.
BlockedOnlyAbove(l) == irqlevel > LevelMask(l)
Blocked(l) == irqlevel >= LevelMask(l)

\* The request handle_irq looks at: the low mask only if the high one is empty.
LevelLowFirst == IF irqpendl0 # {} THEN 0 ELSE 1
RequestLevel == IF irqpendl1 # {} THEN 1 ELSE 0
RequestMask == IF RequestLevel = 1 THEN irqpendl1 ELSE irqpendl0

\* nextop enters a routine in this fetch.
AcceptingIgnoresEA == RequestMask # {} /\ ~Blocked(RequestLevel)
Accepting == ea /\ RequestMask # {} /\ ~Blocked(RequestLevel)

EnterForgetsLevel ==
    /\ frames' = Append(frames, [irq |-> TopBit(RequestMask), level |-> RequestLevel])
    /\ UNCHANGED irqlevel
Enter ==
    /\ irqlevel' = irqlevel + LevelMask(RequestLevel)
    /\ frames' = Append(frames, [irq |-> TopBit(RequestMask), level |-> RequestLevel])

\* Bound: a routine that would nest deeper than MaxNest is not entered.
Fetch == /\ stage = "fetch"
         /\ stage' = "exec"
         /\ IF Accepting /\ Len(frames) < MaxNest
            THEN Enter
            ELSE UNCHANGED <<irqlevel, frames>>
         /\ UNCHANGED <<todo, regs, src, pend>>

-----------------------------------------------------------------------------
(* One instruction: register writes, each followed by its notifiers, then  *)
(* the end of the instruction; or a return from the innermost routine.     *)

\* sfr_notify: the notifiers registered on the register that was written.
CallNone(watchers) == stage' = "exec" /\ todo' = {}
Call(watchers) == stage' = "notify" /\ todo' = watchers

WriteIE == /\ stage = "exec"
           /\ ie' \in SUBSET Irq /\ ea' \in BOOLEAN
           /\ Call(Irq)
           /\ UNCHANGED <<ip, src, pend, irqlevel, frames>>

WriteIP == /\ stage = "exec"
           /\ ip' \in IpValues
           /\ Call(Irq)
           /\ UNCHANGED <<ie, ea, src, pend, irqlevel, frames>>

\* A write of the register that holds the source bits of one interrupt.
WriteSource(i) == /\ stage = "exec"
                  /\ src' \in {src \cup {i}, src \ {i}}
                  /\ Call({i})
                  /\ UNCHANGED <<regs, pend, irqlevel, frames>>

\* sfr_notify_irq: recompute the pending bit of one interrupt.
Recomputed(i, mask, level) ==
    IF i \in ie /\ i \in src /\ (level = 1 <=> i \in ip)
    THEN mask \cup {i} ELSE mask \ {i}
RecomputedSticky(i, mask, level) ==
    IF i \in ie /\ i \in src /\ (level = 1 <=> i \in ip)
    THEN mask \cup {i} ELSE mask

NotifySticky(i) ==
    /\ stage = "notify"
    /\ i \in todo /\ \A j \in todo : i <= j
    /\ irqpendl0' = RecomputedSticky(i, irqpendl0, 0)
    /\ irqpendl1' = RecomputedSticky(i, irqpendl1, 1)
    /\ todo' = todo \ {i}
    /\ stage' = IF todo' = {} THEN "exec" ELSE "notify"
    /\ UNCHANGED <<regs, src, irqlevel, frames>>
Notify(i) ==
    /\ stage = "notify"
    /\ i \in todo /\ \A j \in todo : i <= j
    /\ irqpendl0' = Recomputed(i, irqpendl0, 0)
    /\ irqpendl1' = Recomputed(i, irqpendl1, 1)
    /\ todo' = todo \ {i}
    /\ stage' = IF todo' = {} THEN "exec" ELSE "notify"
    /\ UNCHANGED <<regs, src, irqlevel, frames>>

EndInsn == /\ stage = "exec" /\ stage' = "fetch"
           /\ UNCHANGED <<todo, regs, src, pend, irqlevel, frames>>

\* irqlevel_reti: no case has a break, so every entry falls through to
\* "case 0: irqlevel = 0".
LevelAfterRetiKept(l) == l
LevelAfterReti(l) == 0

\* Firmware leaves a routine with RETI and uses RETI nowhere else.
Reti == /\ stage = "exec" /\ frames # << >>
        /\ irqlevel' = LevelAfterReti(irqlevel)
        /\ frames' = SubSeq(frames, 1, Len(frames) - 1)
        /\ stage' = "fetch"
        /\ UNCHANGED <<todo, regs, src, pend>>

-----------------------------------------------------------------------------
\* Another thread asserts a source and runs no notifier.
Raise(i) == /\ src' = src \cup {i}
            /\ UNCHANGED <<stage, todo, regs, pend, irqlevel, frames>>

Cpu == \/ Fetch
       \/ WriteIE \/ WriteIP
       \/ \E i \in Irq : WriteSource(i)
       \/ \E i \in Irq : Notify(i)
       \/ EndInsn \/ Reti

Next == Cpu \/ \E i \in Async : Raise(i)

Spec == Init /\ [][Next]_vars

(* The CPU loop never stops; an instruction makes finitely many writes     *)
(* (SF on EndInsn); the firmware's routines end (SF on Reti).              *)
FairSpec == /\ Spec
            /\ WF_vars(Fetch)
            /\ \A i \in Irq : WF_vars(Notify(i))
            /\ SF_vars(EndInsn)
            /\ SF_vars(Reti)

-----------------------------------------------------------------------------
(* Properties *)

\* Once its notifier has run, an interrupt is pending on a level only if it
\* is enabled, asserted and on that level (sfr_notify_irq, called for every
\* write of IE, IP or the source register).
PendingSound ==
    \A i \in Irq \ todo :
        /\ i \in irqpendl0 => i \in ie \cap src /\ i \notin ip
        /\ i \in irqpendl1 => i \in ie \cap src /\ i \in ip

\* No request of a source that only the CPU asserts is forgotten: whatever
\* order IE, IP and the source were written in, it is pending once the
\* notifiers have run.
PendingComplete ==
    \A i \in Irq \ (todo \cup Async) :
        i \in ie \cap src => i \in irqpendl0 \cup irqpendl1

\* A routine on the high level is innermost and irqlevel says so, in spite
\* of irqlevel_reti clearing more than the level that ends.
HighInnermost ==
    \A k \in DOMAIN frames :
        frames[k].level = 1 => k = Len(frames) /\ irqlevel >= 2

\* Nothing interrupts a routine of the high level (irq_vec's early return).
HighNotPreempted ==
    [][frames # << >> /\ Top.level = 1 => Len(frames') <= Len(frames)]_vars

\* A routine is entered only for a source that is, at that fetch, enabled by
\* EA and IE, asserted, and on the level it is entered at: no interrupt is
\* taken on the strength of a mask computed before the last write.
AcceptJustified ==
    [][Len(frames') > Len(frames) =>
         LET f == frames'[Len(frames')] IN
         /\ ea /\ f.irq \in ie \cap src
         /\ f.level = 1 <=> f.irq \in ip]_vars

\* With every source on one level, irqlevel_reti is exact: one routine at a
\* time, and irqlevel tells whether there is one.
NoNesting == Len(frames) <= 1 /\ (irqlevel = 0 <=> frames = << >>)

\* core.c calls irqlevel the "IRQ priority level bitmask": its bit for a
\* level is set exactly while a routine of that level is in service.
InService(l) == \E k \in DOMAIN frames : frames[k].level = l
IrqlevelIsBitmask ==
    irqlevel = (IF InService(0) THEN 1 ELSE 0) + (IF InService(1) THEN 2 ELSE 0)

\* The request nextop would look at is served, unless it is withdrawn,
\* masked or overtaken by a higher one: no leftover of irqlevel blocks the
\* controller for ever.
Claims(i) == /\ ea /\ RequestMask # {} /\ i = TopBit(RequestMask)
Serves(i) == frames # << >> /\ Top.irq = i
ClaimServed == \A i \in Irq : Claims(i) ~> Serves(i) \/ ~Claims(i)

\* With one level the controller is the two level controller of IrqService.
Asking == IF ea THEN ie \cap src ELSE {}
Service == INSTANCE IrqService WITH asking <- Asking, high <- ip, serving <- frames
ServiceSpec == Service!Spec
=============================================================================
