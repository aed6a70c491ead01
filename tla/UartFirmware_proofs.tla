------------------------ MODULE UartFirmware_proofs ------------------------
(***************************************************************************)
(* Theorems of Uart: what the two threads can do to SCON and SBUF, for     *)
(* every sequence of instructions and any number of bytes and resets.      *)
(* Then theorems about the UART driven by a firmware, whose programs are   *)
(* fixed; what the peer sends, and when, is not.                           *)
(***************************************************************************)
EXTENDS UartFirmware, TLAPS, SequenceTheorems

USE DEF vars, net, tx, cpuvars, lisvars, Unshared, Scon, CpuStays, Meets, Moves, Clear

(***************************************************************************)
(* Type correctness.                                                       *)
(***************************************************************************)

LEMMA StoredType ==
  ASSUME NEW o, NEW s \in Scon
  PROVE  Stored(o, s) \in Scon
BY DEF Stored

\* What a write does: it returns, ends the process, or sleeps.
LEMMA WriteOutcome ==
  ASSUME TypeOK, Write
  PROVE  /\ cpu = "write"
         /\ \/ cpu' = "lockSb" /\ fate' \in {"terminal", "peer", "nowhere"}
            \/ cpu' = "dead" /\ UNCHANGED <<conn, wfd, tx>> /\ (wfd = "broken" \/ conn = "broken")
            \/ cpu' = "write" /\ wfd' = "held" /\ UNCHANGED <<conn, tx>>
         /\ wfd' \in {wfd, "socket", "held"}
         /\ \/ conn' = conn
            \/ conn = "open" /\ conn' = "stalled"
            \/ conn = "reset" /\ conn' = "broken" /\ spent'
         /\ spent' \in {spent, TRUE}
         /\ \/ missed' = missed
            \/ missed' /\ cpu' = "lockSb" /\ Serving /\ wfd \in {"stdin", "socket"} /\ ~Addressed
<1> USE DEF Write, Returns
<1>1. CASE Asleep /\ Wake
  BY <1>1 DEF Wake, WrittenOpen, WrittenLate, WrittenGone, Sigpipe
<1>2. CASE Addressed /\ (WrittenOpen \/ WrittenLate \/ Sleep \/ (conn = "broken" /\ Sigpipe))
  BY <1>2 DEF WrittenOpen, WrittenLate, Sleep, Sigpipe
<1>3. CASE ~Asleep /\ ~Addressed /\ Unwritten
  <2>1. missed' = missed \/ (missed' /\ Serving)
    BY <1>3 DEF Unwritten, TypeOK
  <2> QED
    BY <1>3, <2>1 DEF Unwritten, Asleep
<1> QED
  BY <1>1, <1>2, <1>3

LEMMA TypeCpu ==
  ASSUME TypeOK, CpuLock \/ CpuStep \/ \E o \in Ops : Issue(o)
  PROVE  TypeOK'
<1>1. ASSUME NEW o \in Ops, Issue(o) PROVE TypeOK'
  <2>1. cpu' \in {"lockWr", "send", "lockGet", "lockRd"} /\ op' \in Ops
    BY <1>1 DEF Issue, Entry
  <2>2. snap' \in Scon /\ late' \in BOOLEAN
    BY <1>1 DEF Issue
  <2> QED
    BY <1>1, <2>1, <2>2 DEF TypeOK, Issue
<1>2. CASE CpuLock
  BY <1>2 DEF TypeOK, CpuLock, Held
<1>3. CASE ReadScon
  <2>1. snap' \in Scon /\ scon' \in Scon /\ scon.ri \in BOOLEAN /\ scon.ti \in BOOLEAN
    BY <1>3 DEF TypeOK, ReadScon
  <2>2. late' \in BOOLEAN
    BY <1>3, <2>1 DEF TypeOK, ReadScon
  <2>3. op' \in Ops
    BY <1>3 DEF TypeOK, ReadScon, Ops
  <2> QED
    BY <1>3, <2>1, <2>2, <2>3 DEF TypeOK, ReadScon
<1>4. CASE WriteScon
  <2>1. scon' \in Scon
    BY <1>4, StoredType DEF TypeOK, WriteScon
  <2> QED
    BY <1>4, <2>1 DEF TypeOK, WriteScon
<1>5. CASE NotifyIrq
  <2>1. irqsrc' \in BOOLEAN
    BY <1>5 DEF TypeOK, NotifyIrq
  <2> QED
    BY <1>5, <2>1 DEF TypeOK, NotifyIrq
<1>6. CASE Write
  <2>1. /\ conn' \in {"none", "open", "stalled", "fin", "reset", "broken"}
        /\ fate' \in {"none", "terminal", "peer", "nowhere"}
        /\ wfd' \in {"stdin", "socket", "held", "reset", "broken", "gone"}
        /\ cpu' \in {"write", "lockSb", "dead"}
    BY <1>6, WriteOutcome DEF TypeOK
  <2>2. spent' \in BOOLEAN /\ missed' \in BOOLEAN
    <3>1. spent' = spent \/ spent' = TRUE
      BY <1>6, WriteOutcome
    <3>2. missed' = missed \/ missed' = TRUE
      BY <1>6 DEF Write, Wake, Unwritten, WrittenOpen, WrittenLate, WrittenGone, Sigpipe, Sleep, TypeOK
    <3> QED
      BY <3>1, <3>2 DEF TypeOK
  <2> QED
    BY <1>6, <2>1, <2>2 DEF TypeOK, Write
<1>7. CASE WriteSbuf
  BY <1>7, MaxRxAssumption DEF TypeOK, WriteSbuf, Byte, Tx
<1>8. CASE PeekScon
  <2>1. late' \in BOOLEAN
    BY <1>8 DEF TypeOK, PeekScon
  <2> QED
    BY <1>8, <2>1 DEF TypeOK, PeekScon
<1>9. CASE ReadSbuf
  BY <1>9 DEF TypeOK, ReadSbuf
<1>10. CASE LoadFd
  BY <1>10 DEF TypeOK, LoadFd
<1> QED
  BY <1>1, <1>2, <1>3, <1>4, <1>5, <1>6, <1>7, <1>8, <1>9, <1>10 DEF CpuStep

LEMMA TypeListener ==
  ASSUME TypeOK, ListenerLock \/ ListenerStep
  PROVE  TypeOK'
<1>1. CASE ListenerLock
  BY <1>1 DEF TypeOK, ListenerLock
<1>2. CASE Accept
  BY <1>2 DEF TypeOK, Accept
<1>3. CASE SetFd
  BY <1>3 DEF TypeOK, SetFd
<1>4. CASE RecvByte
  <2>1. d' \in Byte /\ wire' \in Seq(Byte)
    BY <1>4, HeadTailProperties DEF TypeOK, RecvByte
  <2> QED
    BY <1>4, <2>1 DEF TypeOK, RecvByte
<1>5. CASE RecvClosed
  BY <1>5 DEF TypeOK, RecvClosed
<1>6. CASE RecvError
  BY <1>6, MaxRxAssumption DEF TypeOK, RecvError, Byte, Junk
<1>7. CASE Test
  BY <1>7 DEF TypeOK, Test
<1>8. CASE Fill
  BY <1>8 DEF TypeOK, Fill
<1>9. CASE RaiseRI
  <2>1. late' \in BOOLEAN /\ scon' \in Scon
    BY <1>9 DEF TypeOK, RaiseRI
  <2> QED
    BY <1>9, <2>1 DEF TypeOK, RaiseRI
<1> QED
  BY <1>1, <1>2, <1>3, <1>4, <1>5, <1>6, <1>7, <1>8, <1>9 DEF ListenerStep

\* What a reset leaves of the bytes in flight is a sequence of bytes.
LEMMA PrefixType ==
  ASSUME NEW S, NEW s \in Seq(S), NEW k \in 0..Len(s)
  PROVE  SubSeq(s, 1, k) \in Seq(S)
<1>1. \A i \in 1..k : s[i] \in S
  BY ElementOfSeq
<1> QED
  BY <1>1, SubSeqProperties

LEMMA TypePeer ==
  ASSUME TypeOK, Peer
  PROVE  TypeOK'
<1>1. CASE Connect
  <2>1. spent' \in BOOLEAN
    BY <1>1 DEF Connect
  <2> QED
    BY <1>1, <2>1 DEF TypeOK, Connect
<1>2. CASE PeerSend
  <2>1. sent' \in 0..MaxRx /\ sent + 1 \in Byte
    BY <1>2, MaxRxAssumption DEF TypeOK, PeerSend, Byte
  <2>2. wire' \in Seq(Byte)
    BY <1>2, <2>1, AppendProperties DEF TypeOK, PeerSend
  <2> QED
    BY <1>2, <2>1, <2>2 DEF TypeOK, PeerSend
<1>3. CASE Close
  BY <1>3 DEF TypeOK, Close
<1>4. CASE Reset
  <2>1. resets' \in 0..MaxReset
    BY <1>4, MaxResetAssumption DEF TypeOK, Reset
  <2>2. wire' \in Seq(Byte)
    <3>1. PICK k \in 0..Len(wire) : wire' = SubSeq(wire, 1, k)
      BY <1>4 DEF Reset
    <3> QED
      BY <3>1, PrefixType DEF TypeOK
  <2> QED
    BY <1>4, <2>1, <2>2 DEF TypeOK, Reset
<1>5. CASE Drain \/ Refuse
  BY <1>5 DEF TypeOK, Drain, Refuse
<1> QED
  BY <1>1, <1>2, <1>3, <1>4, <1>5 DEF Peer

LEMMA TypeInit == Init => TypeOK
<1> SUFFICES ASSUME Init PROVE TypeOK
  OBVIOUS
<1>1. scon \in Scon /\ snap \in Scon /\ lsnap \in Scon
  BY DEF Init
<1>2. sbuf \in Byte /\ d \in Byte
  BY MaxRxAssumption DEF Init, Byte, Tx, Junk
<1>3. irqsrc \in BOOLEAN /\ late \in BOOLEAN
  BY Zenon DEF Init
<1>4. wire \in Seq(Byte) /\ sent \in 0..MaxRx /\ resets \in 0..MaxReset
  BY MaxRxAssumption, MaxResetAssumption, EmptySeq DEF Init
<1>5. op \in Ops /\ spent \in BOOLEAN /\ missed \in BOOLEAN
  BY DEF Init, Ops, Tests
<1> QED
  BY <1>1, <1>2, <1>3, <1>4, <1>5 DEF Init, TypeOK

LEMMA TypeStep == TypeOK /\ [Next]_vars => TypeOK'
<1>1. TypeOK /\ UNCHANGED vars => TypeOK'
  BY DEF TypeOK
<1> QED
  BY <1>1, TypeCpu, TypeListener, TypePeer DEF Next, Machine, Ended

\* Every variable keeps its type under every instruction sequence: in
\* particular each thread is always at a point of its code.
THEOREM UartTypeCorrect == Spec => []TypeOK
  BY TypeInit, TypeStep, PTL DEF Spec

-----------------------------------------------------------------------------
(***************************************************************************)
(* The inductive invariant.  SnapFresh says what the CPU's copy of SCON is *)
(* worth when it is about to be stored; LoadFresh the same for the         *)
(* listener's; Known what the interrupt controller has been told.          *)
(***************************************************************************)

SnapFresh == cpu \in {"lockWr", "wr"} /\ op \notin Moves =>
                /\ late => scon.ri
                /\ ~late => snap = scon
LoadFresh == /\ lis \in {"fill", "raise"} => ~scon.ri
             /\ lis = "raise" => lsnap = scon /\ sbuf = d
Known == cpu # "notify" => /\ irqsrc => scon.ri \/ scon.ti
                           /\ scon.ti => irqsrc
UInv == LockDiscipline /\ SnapFresh /\ LoadFresh /\ Known

LEMMA UInvInit == Init => UInv
  BY DEF Init, UInv, LockDiscipline, CpuHolds, ListenerHolds, SnapFresh, LoadFresh, Known

LEMMA UInvCpu ==
  ASSUME TypeOK, UInv, CpuLock \/ CpuStep \/ \E o \in Ops : Issue(o)
  PROVE  UInv'
<1> USE DEF UInv, LockDiscipline, CpuHolds, ListenerHolds, SnapFresh, LoadFresh, Known
<1>1. ASSUME NEW o \in Ops, Issue(o) PROVE UInv'
  BY <1>1 DEF Issue, Entry
<1>2. CASE CpuLock
  BY <1>2 DEF CpuLock, Held
<1>3. CASE ReadScon
  BY <1>3 DEF ReadScon, Tests
<1>4. CASE WriteScon
  BY <1>4 DEF WriteScon
<1>5. CASE NotifyIrq
  BY <1>5 DEF NotifyIrq
<1>6. CASE LoadFd \/ Write
  <2>1. /\ UNCHANGED <<scon, sbuf, mutex, irqsrc, op, snap, lisvars, late>>
        /\ cpu \in {"send", "write"} /\ cpu' \in {"write", "lockSb", "dead"}
    BY <1>6, WriteOutcome DEF LoadFd, Write
  <2> QED
    BY <2>1
<1>7. CASE WriteSbuf
  BY <1>7 DEF WriteSbuf
<1>8. CASE PeekScon
  BY <1>8 DEF PeekScon
<1>9. CASE ReadSbuf
  BY <1>9 DEF ReadSbuf
<1> QED
  BY <1>1, <1>2, <1>3, <1>4, <1>5, <1>6, <1>7, <1>8, <1>9 DEF CpuStep

LEMMA UInvListener ==
  ASSUME TypeOK, UInv, ListenerLock \/ ListenerStep
  PROVE  UInv'
<1> USE DEF UInv, LockDiscipline, CpuHolds, ListenerHolds, SnapFresh, LoadFresh, Known
<1>1. CASE ListenerLock
  BY <1>1 DEF ListenerLock
<1>2. CASE Accept
  BY <1>2 DEF Accept
<1>3. CASE SetFd
  BY <1>3 DEF SetFd
<1>4. CASE RecvByte
  BY <1>4 DEF RecvByte
<1>5. CASE RecvClosed
  BY <1>5 DEF RecvClosed
<1>6. CASE RecvError
  BY <1>6 DEF RecvError
<1>7. CASE Test
  BY <1>7 DEF Test
<1>8. CASE Fill
  BY <1>8 DEF Fill
<1>9. CASE RaiseRI
  BY <1>9 DEF RaiseRI, TypeOK
<1> QED
  BY <1>1, <1>2, <1>3, <1>4, <1>5, <1>6, <1>7, <1>8, <1>9 DEF ListenerStep

LEMMA UInvPeer ==
  ASSUME TypeOK, UInv, Peer
  PROVE  UInv'
  BY DEF Peer, Connect, PeerSend, Drain, Close, Reset, Refuse,
         UInv, LockDiscipline, CpuHolds, ListenerHolds, SnapFresh, LoadFresh, Known

LEMMA UInvStep == TypeOK /\ UInv /\ [Next]_vars => UInv'
<1>1. UInv /\ UNCHANGED vars => UInv'
  BY DEF UInv, LockDiscipline, CpuHolds, ListenerHolds, SnapFresh, LoadFresh, Known
<1> QED
  BY <1>1, UInvCpu, UInvListener, UInvPeer DEF Next, Machine, Ended

LEMMA UInvariant == Spec => []UInv
  BY UInvInit, UInvStep, UartTypeCorrect, PTL DEF Spec

\* uart_mutex is held exactly by the thread inside a lock section: no path of
\* ramd_get, ramd_put or the listener locks it twice or leaves with it held.
THEOREM LockIsDisciplined == Spec => []LockDiscipline
<1>1. UInv => LockDiscipline
  BY DEF UInv
<1> QED
  BY <1>1, UInvariant, PTL

\* At a fetch the interrupt controller is wrong about the UART only by not
\* knowing of a byte that arrived since the last write of SCON.
THEOREM StaleIsArrival == Spec => []StaleOnlyAfterArrival
<1>1. TypeOK /\ UInv => StaleOnlyAfterArrival
  BY DEF UInv, Known, StaleOnlyAfterArrival, SourceStale, TypeOK
<1> QED
  BY <1>1, UInvariant, UartTypeCorrect, PTL

\* TI changes only where the CPU stores SCON: the listener's |= keeps it.
THEOREM TiIsTheCpus == Spec => TiOnlyByCpu
<1>1. TypeOK /\ UInv /\ [Next]_vars => [scon'.ti # scon.ti => cpu = "wr" /\ cpu' = "notify"]_vars
  <2> SUFFICES ASSUME TypeOK, UInv, Next, scon'.ti # scon.ti
               PROVE  cpu = "wr" /\ cpu' = "notify"
    OBVIOUS
  <2>1. CASE RaiseRI
    BY <2>1 DEF RaiseRI, UInv, LoadFresh, TypeOK
  <2>2. CASE ~RaiseRI
    BY <2>2 DEF Next, Machine, CpuLock, CpuStep, ListenerLock, ListenerStep, Peer, Issue,
      ReadScon, WriteScon, NotifyIrq, LoadFd, Write, WriteSbuf, PeekScon, ReadSbuf,
      Accept, SetFd, RecvByte, RecvClosed, RecvError, Test, Fill,
      Connect, PeerSend, Drain, Close, Reset, Refuse, Ended
  <2> QED
    BY <2>1, <2>2
<1> QED
  BY <1>1, UInvariant, UartTypeCorrect, PTL DEF Spec, TiOnlyByCpu

\* The only losses of a received byte's RI: an instruction that clears it, or
\* one that stores an SCON it read before the byte arrived.
THEOREM RiLossIsLate == Spec => RiLossWindow
<1>1. /\ TypeOK /\ UInv /\ [Next]_vars
      => [scon.ri /\ ~scon'.ri => cpu = "wr" /\ (Intends(op) \/ late)]_vars
  <2> SUFFICES ASSUME TypeOK, UInv, Next, scon.ri, ~scon'.ri
               PROVE  cpu = "wr" /\ (Intends(op) \/ late)
    OBVIOUS
  <2>1. CASE RaiseRI
    BY <2>1 DEF RaiseRI, TypeOK
  <2>2. CASE WriteScon
    BY <2>2 DEF WriteScon, Stored, Intends, UInv, SnapFresh, TypeOK
  <2>3. CASE ~RaiseRI /\ ~WriteScon
    BY <2>3 DEF Next, Machine, CpuLock, CpuStep, ListenerLock, ListenerStep, Peer, Issue,
      ReadScon, NotifyIrq, LoadFd, Write, WriteSbuf, PeekScon, ReadSbuf,
      Accept, SetFd, RecvByte, RecvClosed, RecvError, Test, Fill,
      Connect, PeerSend, Drain, Close, Reset, Refuse, Ended
  <2> QED
    BY <2>1, <2>2, <2>3
<1> QED
  BY <1>1, UInvariant, UartTypeCorrect, PTL DEF Spec, RiLossWindow

\* The listener overwrites SBUF only while RI is clear, and RI rises only
\* together with the byte it stands for.
THEOREM NoOverrunHolds == Spec => NoOverrun
<1>1. /\ TypeOK /\ UInv /\ [Next]_vars
      => [/\ sbuf' # sbuf /\ lis = "fill" => ~scon.ri
          /\ ~scon.ri /\ scon'.ri => lis = "raise" /\ sbuf = d]_vars
  <2> SUFFICES ASSUME TypeOK, UInv, Next
               PROVE  /\ lis = "fill" => ~scon.ri
                      /\ ~scon.ri /\ scon'.ri => lis = "raise" /\ sbuf = d
    OBVIOUS
  <2>1. lis = "fill" => ~scon.ri
    BY DEF UInv, LoadFresh
  <2>2. CASE RaiseRI
    BY <2>1, <2>2 DEF RaiseRI, UInv, LoadFresh
  <2>3. CASE WriteScon
    BY <2>1, <2>3 DEF WriteScon, Stored, UInv, SnapFresh, TypeOK
  <2>4. CASE ~RaiseRI /\ ~WriteScon
    <3>1. scon' = scon
      BY <2>4 DEF Next, Machine, CpuLock, CpuStep, ListenerLock, ListenerStep, Peer, Issue,
        ReadScon, NotifyIrq, LoadFd, Write, WriteSbuf, PeekScon, ReadSbuf,
        Accept, SetFd, RecvByte, RecvClosed, RecvError, Test, Fill,
        Connect, PeerSend, Drain, Close, Reset, Refuse, Ended
    <3> QED
      BY <2>1, <3>1
  <2> QED
    BY <2>2, <2>3, <2>4
<1> QED
  BY <1>1, UInvariant, UartTypeCorrect, PTL DEF Spec, NoOverrun

-----------------------------------------------------------------------------
(***************************************************************************)
(* The connection.  A listener that serves has stored its descriptor; a    *)
(* connection is broken only if it was written late or reset; a byte that  *)
(* nobody sent is in hand only after a reset.                              *)
(***************************************************************************)
Carries == lis \in {"lock", "test", "fill", "raise"}
CInv == /\ Serving => fd = "socket"
        /\ missed => fd = "socket" /\ (cpu = "write" => wfd # "stdin")
        /\ conn = "broken" => spent \/ resets > 0
        /\ wfd = "broken" => resets > 0
        /\ Dead => spent \/ resets > 0
        /\ conn = "reset" => resets > 0
        /\ wfd = "reset" => resets > 0
        /\ sbuf = Junk => resets > 0
        /\ Carries /\ d = Junk => resets > 0
        /\ wire \in Seq(1..MaxRx)

LEMMA CInvInit == Init => CInv
<1>1. <<>> \in Seq(1..MaxRx)
  BY EmptySeq
<1> QED
  BY <1>1, MaxRxAssumption DEF Init, CInv, Serving, Dead, Carries, Tx, Junk

LEMMA CInvCpu ==
  ASSUME TypeOK, CInv, CpuLock \/ CpuStep \/ \E o \in Ops : Issue(o)
  PROVE  CInv'
<1> USE DEF CInv, Serving, Dead, Carries
<1>1. ASSUME NEW o \in Ops, Issue(o) PROVE CInv'
  BY <1>1 DEF Issue, Entry
<1>2. CASE CpuLock
  BY <1>2 DEF CpuLock, Held
<1>3. CASE ReadScon
  BY <1>3 DEF ReadScon
<1>4. CASE LoadFd
  BY <1>4 DEF LoadFd, TypeOK
<1>4a. CASE Write
  <2>1. /\ UNCHANGED <<sbuf, lis, d, fd, wire, resets>> /\ cpu' \in {"write", "lockSb", "dead"}
    BY <1>4a, WriteOutcome DEF Write
  <2>2. missed' => fd = "socket" /\ (cpu' = "write" => wfd' # "stdin")
    BY <1>4a, WriteOutcome
  <2>3. /\ wfd' \in {"broken", "reset"} => wfd' = wfd
        /\ conn' = "reset" => conn = "reset"
    BY <1>4a, WriteOutcome
  <2>4. conn' = "broken" => spent' \/ resets > 0
    BY <1>4a, WriteOutcome
  <2>5. cpu' = "dead" => spent' \/ resets > 0
    BY <1>4a, WriteOutcome
  <2> QED
    BY <2>1, <2>2, <2>3, <2>4, <2>5
<1>5. CASE WriteSbuf
  BY <1>5, MaxRxAssumption DEF WriteSbuf, Tx, Junk
<1>6. CASE WriteScon \/ NotifyIrq \/ PeekScon \/ ReadSbuf
  BY <1>6 DEF WriteScon, NotifyIrq, PeekScon, ReadSbuf
<1> QED
  BY <1>1, <1>2, <1>3, <1>4, <1>4a, <1>5, <1>6 DEF CpuStep

LEMMA CInvListener ==
  ASSUME TypeOK, CInv, ListenerLock \/ ListenerStep
  PROVE  CInv'
<1> USE DEF CInv, Serving, Dead, Carries
<1>1. CASE RecvByte
  <2>1. d' \in 1..MaxRx /\ wire' \in Seq(1..MaxRx)
    BY <1>1, HeadTailProperties DEF RecvByte
  <2>2. d' # Junk
    BY <2>1, MaxRxAssumption DEF Junk
  <2> QED
    BY <1>1, <2>1, <2>2 DEF RecvByte
<1>2. CASE RecvError
  BY <1>2 DEF RecvError
<1>3. CASE Fill
  BY <1>3 DEF Fill
<1>4. CASE ListenerLock \/ Accept \/ SetFd \/ RecvClosed \/ Test \/ RaiseRI
  BY <1>4 DEF ListenerLock, Accept, SetFd, RecvClosed, Test, RaiseRI
<1> QED
  BY <1>1, <1>2, <1>3, <1>4 DEF ListenerStep

LEMMA CInvPeer ==
  ASSUME TypeOK, CInv, Peer
  PROVE  CInv'
<1> USE DEF CInv, Serving, Dead, Carries
<1>1. CASE Connect
  BY <1>1 DEF Peer, Connect
<1>2. CASE PeerSend
  <2>1. sent + 1 \in 1..MaxRx
    BY <1>2, MaxRxAssumption DEF TypeOK, PeerSend
  <2>2. wire' \in Seq(1..MaxRx)
    BY <1>2, <2>1, AppendProperties DEF PeerSend
  <2> QED
    BY <1>2, <2>2 DEF PeerSend
<1>3. CASE Drain \/ Close \/ Refuse
  BY <1>3 DEF Drain, Close, Refuse
<1>4. CASE Reset
  <2>1. PICK k \in 0..Len(wire) : wire' = SubSeq(wire, 1, k)
    BY <1>4 DEF Reset
  <2>2. wire' \in Seq(1..MaxRx)
    BY <2>1, PrefixType
  <2>3. resets' > 0
    BY <1>4 DEF TypeOK, Reset
  <2> QED
    BY <1>4, <2>2, <2>3 DEF Reset
<1> QED
  BY <1>1, <1>2, <1>3, <1>4 DEF Peer

LEMMA CInvStep == TypeOK /\ CInv /\ [Next]_vars => CInv'
<1>1. CInv /\ UNCHANGED vars => CInv'
  BY DEF CInv, Serving, Dead, Carries
<1> QED
  BY <1>1, CInvCpu, CInvListener, CInvPeer DEF Next, Machine, Ended

LEMMA CInvariant == Spec => []CInv
  BY CInvInit, CInvStep, UartTypeCorrect, PTL DEF Spec

\* SIGPIPE ends the emulator only at a connection that was reset, or written
\* a second time since its peer closed it.
THEOREM FirstWriteIsForgiven == Spec => []FirstWriteForgiven
<1>1. CInv => FirstWriteForgiven
  BY DEF CInv, FirstWriteForgiven
<1> QED
  BY <1>1, CInvariant, PTL

\* The byte nobody sent reaches SBUF only after a reset, for any number of
\* bytes and connections.
THEOREM JunkIsAfterReset == Spec => []JunkOnlyAfterReset
<1>1. CInv => JunkOnlyAfterReset
  BY DEF CInv, JunkOnlyAfterReset
<1> QED
  BY <1>1, CInvariant, PTL

\* A byte whose write returns while an open connection is served has reached
\* its peer: the CPU thread reads uart_fd without the mutex, but can miss the
\* connection only once in the life of the process, or to sleep in one before.
THEOREM ServedAreHeard == Spec => ServedIsHeard
<1>1. /\ CInv /\ [Next]_vars
      => [cpu = "write" /\ cpu' = "lockSb" /\ Serving /\ conn = "open" =>
            fate' = "peer" \/ (wfd = "stdin" /\ ~missed) \/ wfd = "gone"]_vars
  <2> SUFFICES ASSUME CInv, Next, cpu = "write", cpu' = "lockSb", Serving, conn = "open"
               PROVE  fate' = "peer" \/ (wfd = "stdin" /\ ~missed) \/ wfd = "gone"
    OBVIOUS
  <2>1. Write
    BY DEF Next, Machine, CpuLock, CpuStep, ListenerLock, ListenerStep, Peer, Issue,
      ReadScon, WriteScon, NotifyIrq, LoadFd, WriteSbuf, PeekScon, ReadSbuf,
      Accept, SetFd, RecvByte, RecvClosed, RecvError, Test, Fill, RaiseRI,
      Connect, PeerSend, Drain, Close, Reset, Refuse, Ended
  <2>2. CASE Asleep
    BY <2>1, <2>2 DEF Write, Wake, Returns, WrittenOpen, WrittenLate, WrittenGone, Sigpipe,
                      Asleep, Addressed
  <2>3. CASE ~Asleep /\ Addressed
    BY <2>1, <2>3 DEF Write, Returns, WrittenOpen, WrittenLate, Sigpipe, Sleep
  <2>4. CASE ~Asleep /\ ~Addressed
    BY <2>4 DEF Asleep, Addressed, Serving, CInv
  <2> QED
    BY <2>2, <2>3, <2>4
<1> QED
  BY <1>1, CInvariant, PTL DEF Spec, ServedIsHeard

-----------------------------------------------------------------------------
(* The UART driven by a firmware *)

USE DEF fvars

(* The firmware is at an instruction of its program, and the CPU thread on *)
(* the path of that instruction.                                           *)
Here == prog[pc].op
Points(o) == CASE o \in Tests -> {"lockRd", "rd"}
               [] o = "getSBUF" -> {"lockGet", "get"}
               [] o = "putSBUF" -> {"send", "write", "lockSb", "sb", "peek", "lockWr",
                                    "wr", "notify", "dead"}
               [] OTHER -> {"lockRd", "rd", "lockWr", "wr", "notify"}
FTypeOK == /\ prog \in Programs /\ pc \in 1..Len(prog)
           /\ got \in Seq(Byte)
           /\ cpu # "fetch" => op = Here /\ cpu \in Points(Here)

FirmwareOps == Tests \cup {"getSBUF", "putSBUF", "clrRI", "clrTI", "pokePCON"}

(* What the provers need of the programs: a read of SBUF comes after a     *)
(* successful test of RI and before CLR RI, and there is no other CLR RI.  *)
LEMMA Flow ==
  ASSUME NEW p \in Programs, NEW k \in 1..Len(p)
  PROVE  /\ p[k].op \in FirmwareOps
         /\ \A n \in {p[k].yes, p[k].no} :
              /\ n \in 1..Len(p)
              /\ p[k].op = "getSBUF" => p[n].op = "clrRI"
              /\ p[n].op = "clrRI" => p[k].op = "getSBUF"
              /\ p[n].op = "getSBUF" => /\ p[k].op = "testRI" /\ p[k].on = "flag"
                                        /\ n # p[k].no
<1> USE DEF Then, Branch, FirmwareOps, Tests
<1>1. CASE p = Receiver
  <2>1. Len(p) = 3
    BY <1>1 DEF Receiver
  <2>2. k \in {1, 2, 3}
    BY <2>1
  <2> QED
    BY <1>1, <2>1, <2>2 DEF Receiver
<1>2. CASE p = Echo
  <2>1. Len(p) = 6
    BY <1>2 DEF Echo
  <2>2. k \in {1, 2, 3, 4, 5, 6}
    BY <2>1
  <2> QED
    BY <1>2, <2>1, <2>2 DEF Echo
<1>3. CASE p = Idle
  <2>1. Len(p) = 4
    BY <1>3 DEF Idle
  <2>2. k \in {1, 2, 3, 4}
    BY <2>1
  <2> QED
    BY <1>3, <2>1, <2>2 DEF Idle
<1> QED
  BY <1>1, <1>2, <1>3 DEF Programs

LEMMA FTypeInit == FInit => FTypeOK
<1> SUFFICES ASSUME FInit PROVE FTypeOK
  OBVIOUS
<1>1. prog \in Programs /\ pc \in 1..Len(prog)
  <2>1. Len(Receiver) = 3 /\ Len(Echo) = 6 /\ Len(Idle) = 4
    BY DEF Receiver, Echo, Idle
  <2>2. \A p \in Programs : 1 \in 1..Len(p)
    BY <2>1 DEF Programs
  <2> QED
    BY <2>2 DEF FInit
<1>2. got \in Seq(Byte)
  BY EmptySeq DEF FInit
<1> QED
  BY <1>1, <1>2 DEF FInit, Init, FTypeOK

LEMMA FTypeIssue ==
  ASSUME FTypeOK, IssueNext
  PROVE  FTypeOK'
<1>1. Here \in FirmwareOps
  BY Flow DEF FTypeOK, Here
<1>2. Issue(Here) /\ UNCHANGED <<prog, pc, got>>
  BY DEF IssueNext, Here
<1>3. Here' = Here
  BY <1>2 DEF Here
<1>4. op' = Here /\ cpu' = Entry(Here)
  BY <1>2 DEF Issue
<1>5. Entry(Here) \in Points(Here)
  BY <1>1 DEF Entry, Points, FirmwareOps, Tests
<1> QED
  BY <1>2, <1>3, <1>4, <1>5 DEF FTypeOK, Points

\* An instruction that goes on keeps its place; one that ends goes to one of
\* the two places it names.
LEMMA Goes ==
  ASSUME FTypeOK, Progress
  PROVE  /\ prog' = prog /\ pc' \in 1..Len(prog)
         /\ cpu' # "fetch" => pc' = pc
         /\ cpu = "fetch" => pc' = pc
         /\ cpu # "fetch" /\ cpu' = "fetch" => pc' \in {prog[pc].yes, prog[pc].no}
  BY Flow DEF FTypeOK, Progress

LEMMA FTypeCpu ==
  ASSUME TypeOK, FTypeOK, CpuLock \/ CpuStep, Progress
  PROVE  FTypeOK'
<1>1. Here \in FirmwareOps
  BY Flow DEF FTypeOK, Here
<1>2. prog' \in Programs /\ pc' \in 1..Len(prog')
  BY Goes DEF FTypeOK
<1>3. cpu # "fetch"
  BY DEF CpuLock, CpuStep, ReadScon, WriteScon, NotifyIrq, LoadFd, Write, WriteSbuf, PeekScon, ReadSbuf
<1>4. op = Here /\ cpu \in Points(Here)
  BY <1>3 DEF FTypeOK
<1>5. got' \in Seq(Byte)
  <2>1. CASE cpu = "get" /\ cpu' = "fetch"
    <3>1. sbuf \in Byte
      BY DEF TypeOK
    <3> QED
      BY <2>1, <3>1, AppendProperties DEF FTypeOK, Progress
  <2> QED
    BY <2>1 DEF FTypeOK, Progress
<1>6. cpu' # "fetch" => op' = op /\ cpu' \in Points(Here)
  <2> USE <1>1, <1>4 DEF FirmwareOps, Tests, Points
  <2>1. CASE CpuLock
    BY <2>1 DEF CpuLock, Held
  <2>2. CASE ReadScon
    BY <2>2 DEF ReadScon
  <2>3. CASE WriteScon
    BY <2>3 DEF WriteScon
  <2>4. CASE NotifyIrq
    BY <2>4 DEF NotifyIrq
  <2>5. CASE LoadFd \/ Write
    BY <2>5, WriteOutcome DEF LoadFd, Write
  <2>6. CASE WriteSbuf
    BY <2>6 DEF WriteSbuf
  <2>7. CASE PeekScon
    BY <2>7 DEF PeekScon
  <2>8. CASE ReadSbuf
    BY <2>8 DEF ReadSbuf
  <2> QED
    BY <2>1, <2>2, <2>3, <2>4, <2>5, <2>6, <2>7, <2>8 DEF CpuStep
<1>7. cpu' # "fetch" => Here' = Here
  BY Goes DEF Here
<1> QED
  BY <1>2, <1>4, <1>5, <1>6, <1>7 DEF FTypeOK, Points

\* The listener and the peer leave the firmware where it is.
LEMMA Elsewhere ==
  ASSUME TypeOK, FTypeOK, Progress, ListenerLock \/ ListenerStep \/ Peer \/ Ended
  PROVE  UNCHANGED <<prog, pc, got, cpu, op, Here>>
<1>1. cpu' = cpu /\ op' = op
  BY DEF ListenerLock, ListenerStep, Peer, Accept, SetFd, RecvByte, RecvClosed, RecvError,
         Test, Fill, RaiseRI, Connect, PeerSend, Drain, Close, Reset, Refuse, Ended
<1>2. pc' = pc /\ prog' = prog /\ got' = got
  BY <1>1 DEF Progress
<1> QED
  BY <1>1, <1>2 DEF Here

LEMMA FTypeElsewhere ==
  ASSUME TypeOK, FTypeOK, Progress, ListenerLock \/ ListenerStep \/ Peer \/ Ended
  PROVE  FTypeOK'
<1>1. UNCHANGED <<prog, pc, got, cpu, op, Here>>
  BY Elsewhere
<1> QED
  BY <1>1 DEF FTypeOK, Points

LEMMA FTypeStep == TypeOK /\ FTypeOK /\ [FNext]_fvars => FTypeOK'
<1>1. FTypeOK /\ UNCHANGED fvars => FTypeOK'
  BY DEF FTypeOK, Points, Here
<1> QED
  BY <1>1, FTypeIssue, FTypeCpu, FTypeElsewhere DEF FNext, Machine

LEMMA FStep == FTypeOK /\ [FNext]_fvars => [Next]_vars
<1>1. FTypeOK /\ IssueNext => \E o \in Ops : Issue(o)
  BY Flow DEF FTypeOK, IssueNext, FirmwareOps, Ops, Tests
<1> QED
  BY <1>1 DEF FNext, Next

\* A firmware issues a sequence of instructions like any other: what holds of
\* every sequence holds of it.
THEOREM FirmwareIsSequence == FSpec => Spec
<1>1. FInit => Init /\ FTypeOK /\ TypeOK
  BY FTypeInit, TypeInit DEF FInit
<1> QED
  BY <1>1, FStep, FTypeStep, TypeStep, PTL DEF FSpec, Spec

-----------------------------------------------------------------------------
(***************************************************************************)
(* RI stays set from the test that saw it to the store of CLR RI.  SBUF    *)
(* holds a byte the firmware has not read while RI is set and no CLR RI,   *)
(* which comes after the read, is under way.                               *)
(***************************************************************************)
Clearing == Here = "clrRI" /\ cpu # "notify"
Unread == scon.ri /\ ~Clearing
RiHeld == Here = "getSBUF" \/ Clearing => scon.ri
SInv == TypeOK /\ UInv /\ CInv /\ FTypeOK /\ RiHeld

\* Only these two steps store SCON.
LEMMA SconKept ==
  ASSUME Machine, ~WriteScon, ~RaiseRI
  PROVE  scon' = scon
  BY DEF Machine, CpuLock, CpuStep, ListenerLock, ListenerStep, Peer,
         ReadScon, NotifyIrq, LoadFd, Write, WriteSbuf, PeekScon, ReadSbuf,
         Accept, SetFd, RecvByte, RecvClosed, RecvError, Test, Fill,
         Connect, PeerSend, Drain, Close, Reset, Refuse, Ended

LEMMA RiHeldStep ==
  ASSUME SInv, FNext
  PROVE  RiHeld'
<1> USE DEF SInv
<1>a. prog \in Programs /\ pc \in 1..Len(prog) /\ FTypeOK'
  BY FTypeIssue, FTypeCpu, FTypeElsewhere DEF FNext, Machine, FTypeOK
<1>1. CASE IssueNext
  <2>1. UNCHANGED <<scon, Here>> /\ cpu = "fetch"
    BY <1>1 DEF IssueNext, Issue, Here
  <2> QED
    BY <2>1 DEF RiHeld, Clearing
<1>2. CASE RaiseRI /\ Progress
  BY <1>2 DEF RaiseRI, RiHeld, UInv, LoadFresh, TypeOK
<1>3. CASE WriteScon /\ Progress
  <2>1. Here' = Here /\ cpu = "wr" /\ cpu' = "notify"
    BY <1>3, Goes DEF Here, WriteScon
  <2>2. Here # "getSBUF"
    BY <2>1 DEF FTypeOK, Points, Tests
  <2> QED
    BY <2>1, <2>2 DEF RiHeld, Clearing
<1>4. CASE Machine /\ Progress /\ ~WriteScon /\ ~RaiseRI
  <2>1. scon' = scon
    BY <1>4, SconKept
  <2>2. CASE pc' = pc
    <3>1. Here' = Here
      BY <1>4, <2>2, Goes DEF Here
    <3>2. cpu = "notify" => cpu' = "notify" \/ cpu' = "fetch"
      BY <1>4 DEF Machine, CpuLock, CpuStep, ReadScon, NotifyIrq, LoadFd, Write, WriteSbuf, PeekScon,
        ReadSbuf, ListenerLock, ListenerStep, Peer, Accept, SetFd, RecvByte, RecvClosed,
        RecvError, Test, Fill, Connect, PeerSend, Drain, Close, Reset, Refuse, Ended
    <3>3. cpu = "notify" /\ cpu' = "fetch" => Here' # "clrRI"
      BY <1>a, <1>4, <2>2, Flow, Goes DEF Here
    <3> QED
      BY <2>1, <3>1, <3>2, <3>3 DEF RiHeld, Clearing
  <2>3. CASE pc' # pc
    <3>1. /\ prog' = prog /\ cpu # "fetch" /\ cpu' = "fetch"
          /\ pc' = IF Taken THEN prog[pc].yes ELSE prog[pc].no
      BY <1>4, <2>3 DEF Progress
    <3>2. CASE Here' = "clrRI"
      BY <1>a, <2>1, <3>1, <3>2, Flow DEF Here, RiHeld
    <3>3. CASE Here' = "getSBUF"
      <4>1. Here = "testRI" /\ prog[pc].on = "flag" /\ pc' # prog[pc].no
        BY <1>a, <3>1, <3>3, Flow DEF Here
      <4>2. Bit(op, snap')
        BY <3>1, <4>1 DEF Taken
      <4>3. cpu \in {"lockRd", "rd"} /\ op = "testRI"
        BY <3>1, <4>1 DEF FTypeOK, Points, Tests
      <4>4. ReadScon
        BY <1>4, <3>1, <4>3 DEF Machine, CpuLock, Held, CpuStep, NotifyIrq, LoadFd, Write, WriteSbuf,
          PeekScon, ReadSbuf, ListenerLock, ListenerStep, Peer, Accept, SetFd, RecvByte,
          RecvClosed, RecvError, Test, Fill, Connect, PeerSend, Drain, Close, Reset, Refuse, Ended
      <4>5. op' = "testRI" /\ Bit(op, snap') = scon.ri
        BY <4>3, <4>4 DEF ReadScon, Bit
      <4> QED
        BY <2>1, <4>2, <4>5 DEF RiHeld
    <3> QED
      BY <3>2, <3>3 DEF RiHeld, Clearing
  <2> QED
    BY <2>2, <2>3
<1> QED
  BY <1>1, <1>2, <1>3, <1>4 DEF FNext

LEMMA SInvInit == FInit => SInv
<1> SUFFICES ASSUME FInit PROVE SInv
  OBVIOUS
<1>1. TypeOK /\ UInv /\ CInv /\ FTypeOK
  BY TypeInit, UInvInit, CInvInit, FTypeInit DEF FInit
<1>2. Here = "testRI" \/ Here = "pokePCON"
  BY DEF FInit, Programs, Receiver, Echo, Idle, Branch, Here
<1> QED
  BY <1>1, <1>2 DEF SInv, RiHeld, Clearing

LEMMA SInvStep == SInv /\ [FNext]_fvars => SInv'
<1> SUFFICES ASSUME SInv, [FNext]_fvars PROVE SInv'
  OBVIOUS
<1>1. [Next]_vars
  BY FStep DEF SInv
<1>2. TypeOK' /\ UInv' /\ CInv'
  BY <1>1, TypeStep, UInvStep, CInvStep DEF SInv
<1>3. CASE UNCHANGED fvars
  BY <1>2, <1>3 DEF SInv, FTypeOK, Points, RiHeld, Clearing, Here
<1>4. CASE FNext
  BY <1>2, <1>4, FTypeStep, RiHeldStep DEF SInv
<1> QED
  BY <1>3, <1>4

LEMMA SInvariant == FSpec => []SInv
  BY SInvInit, SInvStep, PTL DEF FSpec

-----------------------------------------------------------------------------
(***************************************************************************)
(* The bytes on their way, oldest first, each numbered higher than the one *)
(* before: those the firmware has, the one in SBUF it has not read, the    *)
(* one in the listener's hand, those on the wire.                          *)
(***************************************************************************)
Pending == lis \in {"lock", "test", "fill"}
Beyond(s, b) == \A k \in 1..Len(s) : s[k] < b
Order ==
    /\ \A i, j \in 1..Len(got) : i < j /\ got[i] # Tx /\ got[j] # Tx => got[i] < got[j]
    /\ Unread /\ sbuf # Tx => Beyond(got, sbuf)
    /\ Pending => sbuf < d
    /\ Carries => Beyond(got, d) /\ d <= sent /\ \A i \in 1..Len(wire) : d < wire[i]
    /\ \A i \in 1..Len(wire) : sbuf < wire[i] /\ wire[i] <= sent /\ Beyond(got, wire[i])
    /\ \A i, j \in 1..Len(wire) : i < j => wire[i] < wire[j]
    /\ sbuf <= sent /\ Beyond(got, sent + 1)
OInv == resets = 0 => Order

\* What an instruction of the firmware does to the bytes on their way: unless
\* it reads or writes SBUF, nothing, and it never makes a byte unread again.
LEMMA CpuQuiet ==
  ASSUME SInv, IssueNext \/ ((CpuLock \/ CpuStep) /\ Progress), ~ReadSbuf
  PROVE  /\ UNCHANGED <<lis, d, wire, sent, resets, got, prog>>
         /\ sbuf' = sbuf \/ (WriteSbuf /\ sbuf' = Tx)
         /\ Unread' => Unread
         /\ Here = "clrRI" \/ ~WriteScon => Unread' = Unread
<1> USE DEF SInv
<1>a. prog \in Programs /\ pc \in 1..Len(prog)
  BY DEF FTypeOK
<1>1. CASE IssueNext
  BY <1>1 DEF IssueNext, Issue, Entry, Unread, Clearing, Here
<1>2. CASE (CpuLock \/ ReadScon \/ LoadFd \/ Write \/ WriteSbuf \/ PeekScon) /\ Progress
  <2>1. /\ UNCHANGED <<lis, d, wire, sent, resets, got, prog, scon>>
        /\ sbuf' = sbuf \/ (WriteSbuf /\ sbuf' = Tx)
    BY <1>2, WriteOutcome DEF CpuLock, Held, ReadScon, LoadFd, Write, WriteSbuf, PeekScon, Progress
  <2>2. cpu # "notify" /\ cpu' # "notify" /\ cpu # "fetch"
    BY <1>2, WriteOutcome DEF CpuLock, Held, ReadScon, LoadFd, Write, WriteSbuf, PeekScon
  <2>3. (Here' = "clrRI") <=> (Here = "clrRI")
    <3>1. CASE pc' = pc
      BY <1>2, <3>1, Goes DEF Here
    <3>2. CASE pc' # pc
      <4>1. cpu' = "fetch" /\ pc' \in {prog[pc].yes, prog[pc].no} /\ prog' = prog
        BY <1>2, <3>2, Goes
      <4>2. op = Here /\ op \in FirmwareOps
        BY <1>a, <2>2, Flow DEF FTypeOK, Here
      <4>3. op \in Tests
        BY <1>2, <4>1, <4>2, WriteOutcome DEF CpuLock, Held, ReadScon, LoadFd, Write, WriteSbuf, PeekScon, FirmwareOps
      <4> QED
        BY <1>a, <4>1, <4>2, <4>3, Flow DEF Here, Tests
    <3> QED
      BY <3>1, <3>2
  <2> QED
    BY <2>1, <2>2, <2>3 DEF Unread, Clearing
<1>3. CASE WriteScon /\ Progress
  <2>1. UNCHANGED <<lis, d, wire, sent, resets, got, prog, sbuf, pc>> /\ cpu' = "notify"
    BY <1>3, Goes DEF WriteScon, Progress
  <2>2. op = Here /\ cpu = "wr" /\ op # "initSCON" /\ Here' = Here
    BY <1>3, <2>1, Flow DEF WriteScon, FTypeOK, FirmwareOps, Tests, Here
  <2>3. scon'.ri => scon.ri /\ Here # "clrRI"
    BY <1>3, <2>2 DEF WriteScon, Stored, UInv, SnapFresh, TypeOK
  <2> QED
    BY <1>3, <2>1, <2>2, <2>3 DEF Unread, Clearing
<1>4. CASE NotifyIrq /\ Progress
  <2>1. UNCHANGED <<lis, d, wire, sent, resets, got, prog, sbuf, scon>>
    BY <1>4 DEF NotifyIrq, Progress
  <2>2. cpu = "notify" /\ cpu' = "fetch" /\ pc' \in {prog[pc].yes, prog[pc].no} /\ prog' = prog
    BY <1>4, Goes DEF NotifyIrq
  <2>3. Here # "getSBUF"
    BY <2>2 DEF FTypeOK, Points, Tests
  <2>4. Here' # "clrRI"
    BY <1>a, <2>2, <2>3, Flow DEF Here
  <2> QED
    BY <2>1, <2>2, <2>4, <1>4 DEF Unread, Clearing, NotifyIrq, WriteScon
<1> QED
  BY <1>1, <1>2, <1>3, <1>4 DEF CpuStep

\* Reading SBUF: the firmware is at MOV A, SBUF, so RI is set.
LEMMA Reads ==
  ASSUME SInv, ReadSbuf, Progress
  PROVE  /\ UNCHANGED <<lis, d, lsnap, wire, sent, resets, prog, scon, sbuf>>
         /\ got' = Append(got, sbuf)
         /\ Unread /\ ~Unread' /\ Here' = "clrRI" /\ ~ListenerHolds
<1> USE DEF SInv
<1>1. /\ UNCHANGED <<lis, d, lsnap, wire, sent, resets, prog, scon, sbuf>>
      /\ got' = Append(got, sbuf) /\ cpu = "get" /\ cpu' = "fetch"
  BY DEF ReadSbuf, Progress
<1>2. prog \in Programs /\ pc \in 1..Len(prog) /\ Here \in FirmwareOps
  BY Flow DEF FTypeOK, Here
<1>3. Here = "getSBUF"
  BY <1>1, <1>2 DEF FTypeOK, Points, Tests, FirmwareOps
<1>4. Here' = "clrRI"
  BY <1>1, <1>2, <1>3, Goes, Flow DEF Here
<1>5. scon.ri
  BY <1>3 DEF RiHeld
<1>6. ~ListenerHolds
  BY <1>1 DEF UInv, LockDiscipline, CpuHolds
<1> QED
  BY <1>1, <1>3, <1>4, <1>5, <1>6 DEF Unread, Clearing

LEMMA AppendBeyond ==
  ASSUME NEW s \in Seq(Byte), NEW x \in Byte, NEW b \in Nat, Beyond(s, b), x < b
  PROVE  Beyond(Append(s, x), b)
  BY AppendProperties DEF Beyond

LEMMA OrderReads ==
  ASSUME SInv, Order, ReadSbuf, Progress
  PROVE  Order'
<1>1. /\ UNCHANGED <<lis, d, wire, sent, sbuf>> /\ got' = Append(got, sbuf)
      /\ Unread /\ ~Unread' /\ ~ListenerHolds
  BY Reads
<1>2. /\ got \in Seq(Byte) /\ sbuf \in Byte /\ Byte \subseteq Nat
      /\ d \in Nat /\ sbuf \in Nat /\ sent \in Nat /\ sent + 1 \in Nat
      /\ \A i \in 1..Len(wire) : wire[i] \in Nat
  BY MaxRxAssumption, ElementOfSeq DEF SInv, FTypeOK, TypeOK, Byte
<1>3. /\ Len(got') = Len(got) + 1 /\ Len(got) \in Nat
      /\ \A k \in 1..Len(got) : got'[k] = got[k]
      /\ got'[Len(got) + 1] = sbuf
  BY <1>1, <1>2, AppendProperties
<1>4. \A b \in Nat : Beyond(got, b) /\ sbuf < b => Beyond(got', b)
  BY <1>1, <1>2, AppendBeyond
<1>5. \A i, j \in 1..Len(got') : i < j /\ got'[i] # Tx /\ got'[j] # Tx => got'[i] < got'[j]
  <2> SUFFICES ASSUME NEW i \in 1..Len(got'), NEW j \in 1..Len(got'),
                      i < j, got'[i] # Tx, got'[j] # Tx
               PROVE  got'[i] < got'[j]
    OBVIOUS
  <2>1. CASE j = Len(got) + 1
    <3>1. Beyond(got, sbuf) /\ i \in 1..Len(got) /\ got'[j] = sbuf
      BY <1>1, <1>3, <2>1 DEF Order
    <3> QED
      BY <1>3, <3>1 DEF Beyond
  <2>2. CASE j # Len(got) + 1
    <3>1. i \in 1..Len(got) /\ j \in 1..Len(got)
      BY <1>3, <2>2
    <3> QED
      BY <1>3, <3>1 DEF Order
  <2> QED
    BY <2>1, <2>2
<1>6. Pending => sbuf < d
  BY DEF Order
<1>7. sbuf < sent + 1 /\ lis # "raise"
  BY <1>1, <1>2 DEF Order, ListenerHolds
<1>8. Carries => Beyond(got', d)
  BY <1>2, <1>4, <1>6, <1>7 DEF Order, Carries, Pending
<1>9. \A i \in 1..Len(wire) : Beyond(got', wire[i])
  BY <1>2, <1>4 DEF Order
<1>10. Beyond(got', sent + 1)
  BY <1>2, <1>4, <1>7 DEF Order
<1> QED
  BY <1>1, <1>5, <1>6, <1>8, <1>9, <1>10 DEF Order, Pending, Carries

LEMMA OrderCpu ==
  ASSUME SInv, Order, IssueNext \/ ((CpuLock \/ CpuStep) /\ Progress)
  PROVE  Order'
<1>1. CASE ReadSbuf
  BY <1>1, OrderReads DEF ReadSbuf, IssueNext, Issue
<1>2. CASE ~ReadSbuf
  <2>1. /\ UNCHANGED <<lis, d, wire, sent, got>> /\ sbuf' \in {sbuf, Tx}
        /\ Unread' => Unread
    BY <1>2, CpuQuiet
  <2>2. /\ sbuf \in Nat /\ d \in Nat /\ sent \in Nat
        /\ \A i \in 1..Len(wire) : wire[i] \in Nat
    BY MaxRxAssumption, ElementOfSeq DEF SInv, TypeOK, Byte
  <2> QED
    BY <2>1, <2>2 DEF Order, Pending, Carries, Tx
<1> QED
  BY <1>1, <1>2

\* The byte in hand goes to SBUF, the oldest on the wire into the hand.
LEMMA OrderListener ==
  ASSUME SInv, Order, resets = 0, ListenerLock \/ ListenerStep, Progress
  PROVE  Order'
<1>a. UNCHANGED <<prog, pc, got, cpu, op, Here>>
  BY Elsewhere DEF SInv
<1>b. /\ sbuf \in Nat /\ d \in Nat /\ sent \in Nat /\ wire \in Seq(Byte)
      /\ \A i \in 1..Len(wire) : wire[i] \in Nat
  BY MaxRxAssumption, ElementOfSeq DEF SInv, TypeOK, Byte
<1>1. CASE ListenerLock \/ Accept \/ SetFd \/ RecvClosed \/ Test
  <2>1. UNCHANGED <<sbuf, d, wire, sent, got, scon>> /\ (Pending' => Pending) /\ (Carries' => Carries)
    BY <1>1, <1>a DEF ListenerLock, Accept, SetFd, RecvClosed, Test, Pending, Carries
  <2> QED
    BY <1>a, <2>1 DEF Order, Unread, Clearing
<1>2. CASE RecvByte
  <2>1. UNCHANGED <<sbuf, sent, got, scon>> /\ d' = wire[1] /\ wire' = Tail(wire) /\ wire # << >>
    BY <1>a, <1>b, <1>2 DEF RecvByte
  <2>2. /\ Len(wire') = Len(wire) - 1 /\ Len(wire) \in Nat \ {0}
        /\ \A i \in 1..Len(wire') : wire'[i] = wire[i + 1] /\ i + 1 \in 1..Len(wire)
    BY <1>b, <2>1, HeadTailProperties, EmptySeq
  <2>3. Unread' = Unread
    BY <1>a, <2>1 DEF Unread, Clearing
  <2>4. sbuf < d' /\ d' <= sent /\ Beyond(got, d')
    BY <2>1, <2>2 DEF Order
  <2>5. \A i \in 1..Len(wire') :
           d' < wire'[i] /\ sbuf < wire'[i] /\ wire'[i] <= sent /\ Beyond(got, wire'[i])
    BY <2>1, <2>2 DEF Order
  <2>6. \A i, j \in 1..Len(wire') : i < j => wire'[i] < wire'[j]
    BY <2>2 DEF Order
  <2> QED
    BY <2>1, <2>3, <2>4, <2>5, <2>6 DEF Order
<1>3. CASE Fill
  <2>1. UNCHANGED <<d, wire, sent, got, scon>> /\ sbuf' = d /\ lis = "fill" /\ lis' = "raise"
    BY <1>3, <1>a DEF Fill
  <2>2. ~Unread'
    BY <1>a, <2>1 DEF SInv, UInv, LoadFresh, Unread
  <2> QED
    BY <2>1, <2>2 DEF Order, Pending, Carries
<1>4. CASE RaiseRI
  <2>1. UNCHANGED <<d, wire, sent, got, sbuf>> /\ lis = "raise" /\ lis' = "recv" /\ sbuf = d
    BY <1>4, <1>a DEF RaiseRI, SInv, UInv, LoadFresh
  <2> QED
    BY <2>1 DEF Order, Pending, Carries
<1>5. CASE RecvError
  BY <1>5 DEF RecvError, SInv, CInv
<1> QED
  BY <1>1, <1>2, <1>3, <1>4, <1>5 DEF ListenerStep

LEMMA OrderPeer ==
  ASSUME SInv, Order, resets' = 0, Peer \/ Ended, Progress
  PROVE  Order'
<1>a. UNCHANGED <<prog, pc, got, cpu, op, Here>>
  BY Elsewhere DEF SInv
<1>b. /\ sent \in Nat /\ wire \in Seq(Byte) /\ Byte \subseteq Nat /\ sbuf \in Nat /\ d \in Nat
      /\ \A i \in 1..Len(wire) : wire[i] \in Nat
  BY MaxRxAssumption, ElementOfSeq DEF SInv, TypeOK, Byte
<1>1. CASE PeerSend
  <2>1. /\ UNCHANGED <<sbuf, d, lis, got, scon>> /\ sent' = sent + 1
        /\ wire' = Append(wire, sent + 1) /\ sent + 1 \in Byte
    BY <1>1, <1>a, MaxRxAssumption DEF PeerSend, SInv, TypeOK, Byte
  <2>2. /\ Len(wire') = Len(wire) + 1 /\ Len(wire) \in Nat
        /\ \A i \in 1..Len(wire) : wire'[i] = wire[i]
        /\ wire'[Len(wire) + 1] = sent + 1
    BY <1>b, <2>1, AppendProperties
  <2>3. Unread' = Unread
    BY <1>a, <2>1 DEF Unread, Clearing
  <2>4. sbuf <= sent /\ Beyond(got, sent + 1) /\ (Carries => d <= sent)
    BY DEF Order
  <2>5. Beyond(got, sent' + 1)
    <3>1. \A k \in 1..Len(got) : got[k] \in Nat
      BY <1>b, ElementOfSeq DEF SInv, FTypeOK
    <3> QED
      BY <1>b, <2>1, <2>4, <3>1 DEF Beyond
  <2>6. \A i \in 1..Len(wire') :
           /\ Carries => d < wire'[i]
           /\ sbuf < wire'[i] /\ wire'[i] <= sent' /\ Beyond(got, wire'[i])
    BY <1>b, <2>1, <2>2, <2>4 DEF Order
  <2>7. \A i, j \in 1..Len(wire') : i < j => wire'[i] < wire'[j]
    <3>1. \A i \in 1..Len(wire) : wire[i] < sent + 1
      BY <1>b DEF Order
    <3>2. \A i, j \in 1..Len(wire) : i < j => wire[i] < wire[j]
      BY DEF Order
    <3> QED
      BY <2>2, <3>1, <3>2
  <2>8. (Carries' <=> Carries) /\ (Pending' <=> Pending)
    BY <2>1 DEF Carries, Pending
  <2> QED
    BY <1>b, <2>1, <2>3, <2>4, <2>5, <2>6, <2>7, <2>8 DEF Order
<1>2. CASE Connect \/ Drain \/ Close \/ Refuse \/ Ended
  <2>1. UNCHANGED <<sbuf, d, lis, got, scon, wire, sent>>
    BY <1>2, <1>a DEF Connect, Drain, Close, Refuse, Ended
  <2> QED
    BY <1>a, <2>1 DEF Order, Pending, Carries, Unread, Clearing
<1>3. CASE Reset
  BY <1>3 DEF Reset, SInv, TypeOK
<1> QED
  BY <1>1, <1>2, <1>3 DEF Peer

\* resets never goes down.
LEMMA ResetsGrow ==
  ASSUME SInv, FNext, resets' = 0
  PROVE  resets = 0
  BY DEF SInv, TypeOK, FNext, IssueNext, Issue, Machine, CpuLock, CpuStep, ReadScon, WriteScon,
         NotifyIrq, LoadFd, Write, WriteSbuf, PeekScon, ReadSbuf, ListenerLock, ListenerStep, Accept,
         SetFd, RecvByte, RecvClosed, RecvError, Test, Fill, RaiseRI,
         Peer, Connect, PeerSend, Drain, Close, Reset, Refuse, Ended

LEMMA OrderStep == SInv /\ OInv /\ [FNext]_fvars => OInv'
<1> SUFFICES ASSUME SInv, OInv, [FNext]_fvars, resets' = 0 PROVE Order'
  BY DEF OInv
<1>1. CASE UNCHANGED fvars
  BY <1>1 DEF OInv, Order, Unread, Clearing, Here, Pending, Carries
<1>2. CASE FNext
  BY <1>2, ResetsGrow, OrderCpu, OrderListener, OrderPeer DEF OInv, FNext, Machine
<1> QED
  BY <1>1, <1>2

\* While no connection is reset, every firmware reads the bytes it reads in
\* the order they were sent and none of them twice: CLR RI and the stores of
\* a stale SCON lose bytes but repeat none, for any number of bytes.
THEOREM NoDuplicateHolds == FSpec => []NoDuplicate
<1>1. FInit => OInv
  <2> SUFFICES ASSUME FInit PROVE Order
    BY DEF OInv
  <2>1. Len(got) = 0 /\ Len(wire) = 0 /\ sbuf = 0 /\ sent = 0 /\ lis = "accept"
    BY EmptySeq DEF FInit, Init, Tx
  <2> QED
    BY <2>1 DEF Order, Beyond, Pending, Carries, Tx
<1>2. OInv => NoDuplicate
  BY DEF OInv, Order, NoDuplicate
<1> QED
  BY <1>1, <1>2, OrderStep, SInvariant, PTL DEF FSpec

-----------------------------------------------------------------------------
(***************************************************************************)
(* What the echo loses.  A byte it reads pays for three deliveries: itself *)
(* and one lost to each of the two stores of a stale SCON.  Owed says how  *)
(* many of the three are still to come, Paid that the store of the         *)
(* instruction under way has been done.                                    *)
(***************************************************************************)
One(b) == IF b THEN 1 ELSE 0
Owed == CASE pc = 3 -> 3 [] pc = 4 -> 2 [] pc = 5 -> 1 [] OTHER -> 0
Paid == One(pc \in 3..5 /\ cpu = "notify")
EInv == prog = Echo /\ resets = 0 => Delivered + Owed - Paid <= 3 * Len(got) + One(scon.ri)

LEMMA EchoTable ==
  /\ Len(Echo) = 6
  /\ Echo[1].op = "testRI" /\ Echo[2].op = "getSBUF" /\ Echo[3].op = "clrRI"
  /\ Echo[4].op = "clrTI" /\ Echo[5].op = "putSBUF" /\ Echo[6].op = "testTI"
  /\ Echo[1].yes = 2 /\ Echo[1].no = 1 /\ Echo[2].yes = 3 /\ Echo[2].no = 3
  /\ Echo[3].yes = 4 /\ Echo[3].no = 4 /\ Echo[4].yes = 5 /\ Echo[4].no = 5
  /\ Echo[5].yes = 6 /\ Echo[5].no = 6 /\ Echo[6].yes = 1 /\ Echo[6].no = 6
  BY DEF Echo, Branch, Then

LEMMA EchoCpu ==
  ASSUME SInv, prog = Echo, IssueNext \/ ((CpuLock \/ CpuStep) /\ Progress),
         Delivered + Owed - Paid <= 3 * Len(got) + One(scon.ri)
  PROVE  (Delivered + Owed - Paid <= 3 * Len(got) + One(scon.ri))'
<1> USE DEF SInv
<1>a. /\ pc \in 1..6 /\ Len(got) \in Nat /\ Len(wire) \in Nat /\ sent \in Nat /\ got \in Seq(Byte)
      /\ cpu # "fetch" => op = Echo[pc].op /\ cpu \in Points(Echo[pc].op)
  BY EchoTable, LenProperties DEF FTypeOK, TypeOK, Here
<1>b. Delivered' = Delivered
  BY CpuQuiet, Reads DEF Delivered, InHand, ReadSbuf, IssueNext, Issue
<1>c. Delivered \in Int
  BY <1>a DEF Delivered, InHand
<1> DEFINE Slack == Owed - Paid
<1>1. CASE ReadSbuf
  <2>1. /\ cpu = "get" /\ cpu' = "fetch" /\ Progress
        /\ got' = Append(got, sbuf) /\ scon' = scon
    BY <1>1, Reads DEF ReadSbuf, IssueNext, Issue
  <2>2. pc = 2 /\ pc' = 3
    BY <1>a, <2>1, EchoTable, Goes DEF Points, Tests
  <2>3. Len(got') = Len(got) + 1
    BY <1>a, <2>1, AppendProperties DEF TypeOK
  <2> QED
    BY <1>a, <1>b, <1>c, <2>1, <2>2, <2>3 DEF Owed, Paid, One
<1>2. CASE WriteScon
  <2>1. /\ cpu = "wr" /\ cpu' = "notify" /\ Progress /\ pc' = pc /\ got' = got
    BY <1>2, Goes DEF WriteScon, Progress, IssueNext, Issue
  <2>2. pc \in 3..5
    BY <1>a, <2>1, EchoTable DEF Points, Tests
  <2>3. scon'.ri => scon.ri
    BY <1>a, <1>2, <2>1, <2>2, EchoTable DEF WriteScon, Stored, UInv, SnapFresh, TypeOK
  <2>4. pc = 3 => scon.ri /\ ~scon'.ri
    <3>1. ASSUME pc = 3 PROVE Here = "clrRI" /\ op = "clrRI"
      BY <1>a, <2>1, <3>1, EchoTable DEF Here
    <3> QED
      BY <1>2, <2>1, <3>1 DEF RiHeld, Clearing, WriteScon, Stored, TypeOK
  <2> QED
    BY <1>a, <1>b, <1>c, <2>1, <2>2, <2>3, <2>4, SMTT(30) DEF Owed, Paid, One
<1>3. CASE NotifyIrq
  <2>1. /\ cpu = "notify" /\ cpu' = "fetch" /\ Progress /\ scon' = scon /\ got' = got
    BY <1>3 DEF NotifyIrq, Progress, IssueNext, Issue
  <2>2. pc \in 3..5 /\ pc' = pc + 1
    BY <1>a, <2>1, EchoTable, Goes DEF Points, Tests
  <2> QED
    BY <1>a, <1>b, <1>c, <2>1, <2>2 DEF Owed, Paid, One
<1>4. CASE ReadScon
  <2>1. /\ cpu = "rd" /\ cpu' # "notify" /\ Progress /\ scon' = scon /\ got' = got
    BY <1>4 DEF ReadScon, Progress, IssueNext, Issue
  <2>2. pc' = pc \/ (pc \in {1, 6} /\ pc' \in {1, 2, 6})
    <3>1. CASE cpu' = "fetch"
      <4>1. pc \in {1, 6}
        BY <1>a, <1>4, <2>1, <3>1, EchoTable DEF ReadScon, Points, Tests
      <4> QED
        BY <2>1, <3>1, <4>1, EchoTable, Goes
    <3> QED
      BY <2>1, <3>1, Goes
  <2> QED
    BY <1>a, <1>b, <1>c, <2>1, <2>2 DEF Owed, Paid, One
<1>5. CASE IssueNext \/ ((CpuLock \/ LoadFd \/ Write \/ WriteSbuf \/ PeekScon) /\ Progress)
  <2>1. UNCHANGED <<pc, got, scon>> /\ cpu # "notify" /\ cpu' # "notify"
    BY <1>5, Goes, WriteOutcome DEF IssueNext, Issue, Entry, CpuLock, Held, LoadFd, Write, WriteSbuf, PeekScon, Progress
  <2> QED
    BY <1>b, <2>1 DEF Owed, Paid
<1> QED
  BY <1>1, <1>2, <1>3, <1>4, <1>5 DEF CpuStep

LEMMA EchoElsewhere ==
  ASSUME SInv, resets' = 0, ListenerLock \/ ListenerStep \/ Peer \/ Ended, Progress,
         Delivered + Owed - Paid <= 3 * Len(got) + One(scon.ri)
  PROVE  (Delivered + Owed - Paid <= 3 * Len(got) + One(scon.ri))'
<1>a. UNCHANGED <<pc, got, Owed, Paid>>
  BY Elsewhere DEF SInv, Owed, Paid
<1>b. /\ Len(got) \in Nat /\ Len(wire) \in Nat /\ sent \in Nat /\ wire \in Seq(Byte)
      /\ Delivered \in Int /\ Owed \in Int /\ Paid \in Int
  BY LenProperties DEF SInv, FTypeOK, TypeOK, Owed, Paid, One, Delivered, InHand
<1>1. CASE RecvByte
  <2>1. Delivered' = Delivered /\ scon' = scon
    <3>1. Len(wire') = Len(wire) - 1 /\ sent' = sent /\ lis = "recv" /\ lis' = "lock" /\ scon' = scon
      BY <1>1, <1>b, HeadTailProperties DEF RecvByte
    <3> QED
      BY <1>b, <3>1 DEF Delivered, InHand
  <2> QED
    BY <1>a, <2>1
<1>2. CASE RaiseRI
  <2>1. Delivered' = Delivered + 1
    BY <1>2, <1>b DEF RaiseRI, Delivered, InHand
  <2>2. ~scon.ri /\ scon'.ri
    BY <1>2 DEF RaiseRI, SInv, UInv, LoadFresh, TypeOK
  <2> QED
    BY <1>a, <1>b, <2>1, <2>2 DEF One
<1>3. CASE PeerSend
  <2>1. Delivered' = Delivered /\ scon' = scon
    <3>1. Len(wire') = Len(wire) + 1 /\ sent' = sent + 1 /\ lis = lis' /\ scon' = scon
      <4>1. sent + 1 \in Byte
        BY <1>3, <1>b, MaxRxAssumption DEF PeerSend, Byte
      <4> QED
        BY <1>3, <1>b, <4>1, AppendProperties DEF PeerSend
    <3> QED
      BY <1>b, <3>1 DEF Delivered, InHand
  <2> QED
    BY <1>a, <2>1
<1>4. CASE \/ ListenerLock \/ Accept \/ SetFd \/ RecvClosed \/ Test \/ Fill
           \/ Connect \/ Drain \/ Close \/ Refuse \/ Ended
  <2>1. UNCHANGED <<wire, sent, scon, InHand>>
    BY <1>4 DEF ListenerLock, Accept, SetFd, RecvClosed, Test, Fill, Connect, Drain, Close, Refuse,
                Ended, InHand
  <2> QED
    BY <1>a, <2>1 DEF Delivered
<1>5. CASE RecvError \/ Reset
  BY <1>5 DEF RecvError, Reset, SInv, CInv, TypeOK
<1> QED
  BY <1>1, <1>2, <1>3, <1>4, <1>5 DEF ListenerStep, Peer

LEMMA EchoStep == SInv /\ EInv /\ [FNext]_fvars => EInv'
<1> SUFFICES ASSUME SInv, EInv, [FNext]_fvars, prog' = Echo, resets' = 0
             PROVE  (Delivered + Owed - Paid <= 3 * Len(got) + One(scon.ri))'
  BY DEF EInv
<1>1. CASE UNCHANGED fvars
  BY <1>1 DEF EInv, Delivered, InHand, Owed, Paid, One
<1>2. CASE FNext
  <2>1. prog = Echo /\ resets = 0
    BY <1>2, ResetsGrow DEF FNext, IssueNext, Progress
  <2> QED
    BY <1>2, <2>1, EchoCpu, EchoElsewhere DEF EInv, FNext, Machine
<1> QED
  BY <1>1, <1>2

\* An echoing firmware loses at most two bytes for every byte it echoes, one
\* to CLR TI and one to MOV SBUF, however the threads interleave.
THEOREM EchoLossBounded == FSpec => []EchoLossBound
<1>1. FInit => EInv
  BY EmptySeq DEF FInit, Init, EInv, Delivered, InHand, Owed, Paid, One
<1>2. SInv /\ EInv => EchoLossBound
  <2> SUFFICES ASSUME SInv, EInv, prog = Echo, resets = 0
               PROVE  Delivered <= 3 * Len(got) + One(scon.ri)
    BY DEF EchoLossBound, One
  <2>1. Delivered \in Int /\ Len(got) \in Nat /\ pc \in 1..6
    BY EchoTable, LenProperties DEF SInv, FTypeOK, TypeOK, Delivered, InHand
  <2> QED
    BY <2>1 DEF EInv, Owed, Paid, One
<1> QED
  BY <1>1, <1>2, EchoStep, SInvariant, PTL DEF FSpec

-----------------------------------------------------------------------------
(***************************************************************************)
(* The receiver loses nothing: its bytes on their way, from the first one  *)
(* it has to the last one sent, are numbered without a gap.                *)
(***************************************************************************)
Passed == Len(got) + One(Unread)
Gapless ==
    /\ \A k \in 1..Len(got) : got[k] = k
    /\ Unread => sbuf = Passed
    /\ Carries => d = Passed + 1
    /\ \A i \in 1..Len(wire) : wire[i] = Passed + InHand + i
    /\ sent = Passed + InHand + Len(wire)
RInv == Receives /\ resets = 0 => Gapless

LEMMA ReceiverStores ==
  ASSUME SInv, Receives, WriteScon
  PROVE  Here = "clrRI"
<1>1. Len(Receiver) = 3 /\ Receiver[1].op = "testRI" /\ Receiver[2].op = "getSBUF" /\ Receiver[3].op = "clrRI"
  BY DEF Receiver, Branch, Then
<1>2. pc \in 1..3 /\ Here = Receiver[pc].op /\ cpu = "wr" /\ cpu \in Points(Here)
  BY <1>1 DEF SInv, FTypeOK, Here, Receives, WriteScon
<1> QED
  BY <1>1, <1>2 DEF Points, Tests

LEMMA GaplessCpu ==
  ASSUME SInv, Receives, Gapless, IssueNext \/ ((CpuLock \/ CpuStep) /\ Progress)
  PROVE  /\ Gapless' /\ sent' = sent
         /\ got' = got \/ (Len(got) < sent /\ got' = Append(got, Len(got) + 1))
<1>a. /\ got \in Seq(Byte) /\ wire \in Seq(Byte) /\ Len(got) \in Nat /\ Len(wire) \in Nat
      /\ sent \in Nat /\ sbuf \in Byte
  BY LenProperties DEF SInv, FTypeOK, TypeOK
<1>1. CASE ReadSbuf
  <2>1. /\ UNCHANGED <<lis, d, wire, sent, sbuf>> /\ got' = Append(got, sbuf)
        /\ Unread /\ ~Unread'
    BY <1>1, Reads DEF ReadSbuf, IssueNext, Issue
  <2>2. sbuf = Len(got) + 1 /\ Passed = Len(got) + 1
    BY <2>1, <1>a DEF Gapless, Passed, One
  <2>3. /\ Len(got') = Len(got) + 1
        /\ \A k \in 1..Len(got) : got'[k] = got[k]
        /\ got'[Len(got) + 1] = sbuf
    BY <1>a, <2>1, AppendProperties
  <2>4. Passed' = Passed /\ InHand' = InHand
    BY <1>a, <2>1, <2>2, <2>3 DEF Passed, One, InHand
  <2>5. \A k \in 1..Len(got') : got'[k] = k
    BY <1>a, <2>2, <2>3 DEF Gapless
  <2>6. Len(got) < sent
    BY <1>a, <2>2 DEF Gapless, InHand
  <2> QED
    BY <2>1, <2>2, <2>4, <2>5, <2>6 DEF Gapless, Carries
<1>2. CASE ~ReadSbuf
  <2>1. WriteScon => Here = "clrRI"
    BY ReceiverStores
  <2>2. /\ UNCHANGED <<lis, d, wire, sent, got, Unread>> /\ (sbuf' = sbuf \/ WriteSbuf)
    BY <1>2, <2>1, CpuQuiet
  <2>3. ~WriteSbuf
    <3>1. Len(Receiver) = 3 /\ Receiver[1].op = "testRI" /\ Receiver[2].op = "getSBUF" /\ Receiver[3].op = "clrRI"
      BY DEF Receiver, Branch, Then
    <3> QED
      BY <3>1 DEF SInv, FTypeOK, Here, Receives, WriteSbuf, Points, Tests
  <2> QED
    BY <2>2, <2>3 DEF Gapless, Passed, Carries, InHand
<1> QED
  BY <1>1, <1>2

LEMMA GaplessListener ==
  ASSUME SInv, Gapless, resets = 0, ListenerLock \/ ListenerStep, Progress
  PROVE  Gapless' /\ UNCHANGED <<sent, got>>
<1>a. UNCHANGED <<prog, pc, got, cpu, op, Here>>
  BY Elsewhere DEF SInv
<1>b. /\ wire \in Seq(Byte) /\ Len(got) \in Nat /\ Len(wire) \in Nat /\ sent \in Nat /\ Passed \in Nat
  BY LenProperties DEF SInv, FTypeOK, TypeOK, Passed, One
<1>1. CASE ListenerLock \/ Accept \/ SetFd \/ RecvClosed \/ Test
  <2>1. UNCHANGED <<sbuf, d, wire, sent, got, scon, InHand>> /\ (Carries' <=> Carries)
    BY <1>1, <1>a DEF ListenerLock, Accept, SetFd, RecvClosed, Test, InHand, Carries
  <2> QED
    BY <1>a, <2>1 DEF Gapless, Passed, Unread, Clearing
<1>2. CASE RecvByte
  <2>1. /\ UNCHANGED <<sbuf, sent, got, scon>> /\ d' = wire[1] /\ wire' = Tail(wire) /\ wire # << >>
        /\ InHand = 0 /\ InHand' = 1
    BY <1>a, <1>b, <1>2 DEF RecvByte, InHand
  <2>2. /\ Len(wire') = Len(wire) - 1 /\ Len(wire) \in Nat \ {0}
        /\ \A i \in 1..Len(wire') : wire'[i] = wire[i + 1] /\ i + 1 \in 1..Len(wire)
    BY <1>b, <2>1, HeadTailProperties, EmptySeq
  <2>3. Passed' = Passed /\ Unread' = Unread
    BY <1>a, <2>1 DEF Passed, Unread, Clearing
  <2>4. d' = Passed + 1 /\ sent' = Passed + 1 + Len(wire')
    BY <1>b, <2>1, <2>2 DEF Gapless
  <2>5. \A i \in 1..Len(wire') : wire'[i] = Passed + 1 + i
    BY <1>b, <2>1, <2>2 DEF Gapless
  <2> QED
    BY <2>1, <2>3, <2>4, <2>5 DEF Gapless
<1>3. CASE Fill
  <2>1. UNCHANGED <<d, wire, sent, got, scon, InHand>> /\ Carries /\ Carries'
    BY <1>3, <1>a DEF Fill, InHand, Carries
  <2>2. ~Unread /\ Unread' = Unread
    BY <1>a, <1>3, <2>1 DEF Fill, SInv, UInv, LoadFresh, Unread, Clearing
  <2> QED
    BY <2>1, <2>2 DEF Gapless, Passed
<1>4. CASE RaiseRI
  <2>1. /\ UNCHANGED <<d, wire, sent, got, sbuf>> /\ lis = "raise" /\ lis' = "recv" /\ sbuf = d
        /\ ~scon.ri /\ scon'.ri
    BY <1>4, <1>a DEF RaiseRI, SInv, UInv, LoadFresh, TypeOK
  <2>2. ~Unread /\ Unread'
    BY <1>a, <2>1 DEF SInv, RiHeld, Unread, Clearing
  <2>3. Passed' = Passed + 1 /\ InHand = 1 /\ InHand' = 0
    BY <1>b, <2>1, <2>2 DEF Passed, One, InHand
  <2> QED
    BY <1>b, <2>1, <2>3 DEF Gapless, Carries
<1>5. CASE RecvError
  BY <1>5 DEF RecvError, SInv, CInv
<1>6. sent' = sent
  BY DEF ListenerLock, ListenerStep, Accept, SetFd, RecvByte, RecvClosed, RecvError, Test, Fill, RaiseRI
<1> QED
  BY <1>a, <1>1, <1>2, <1>3, <1>4, <1>5, <1>6 DEF ListenerStep

LEMMA GaplessPeer ==
  ASSUME SInv, Gapless, resets' = 0, Peer \/ Ended, Progress
  PROVE  Gapless' /\ sent' \in {sent, sent + 1} /\ got' = got
<1>a. UNCHANGED <<prog, pc, got, cpu, op, Here>>
  BY Elsewhere DEF SInv
<1>b. /\ wire \in Seq(Byte) /\ Len(got) \in Nat /\ Len(wire) \in Nat /\ sent \in Nat /\ Passed \in Nat
      /\ InHand \in Nat
  BY LenProperties DEF SInv, FTypeOK, TypeOK, Passed, One, InHand
<1>1. CASE PeerSend
  <2>1. /\ UNCHANGED <<sbuf, d, lis, got, scon>> /\ sent' = sent + 1
        /\ wire' = Append(wire, sent + 1) /\ sent + 1 \in Byte
    BY <1>1, <1>a, MaxRxAssumption DEF PeerSend, SInv, TypeOK, Byte
  <2>2. /\ Len(wire') = Len(wire) + 1
        /\ \A i \in 1..Len(wire) : wire'[i] = wire[i]
        /\ wire'[Len(wire) + 1] = sent + 1
    BY <1>b, <2>1, AppendProperties
  <2>3. UNCHANGED <<Unread, Passed, InHand>> /\ (Carries' <=> Carries)
    BY <1>a, <2>1 DEF Unread, Clearing, Passed, InHand, Carries
  <2>4. \A i \in 1..Len(wire') : wire'[i] = Passed + InHand + i
    BY <1>b, <2>2 DEF Gapless
  <2>5. sent' = Passed + InHand + Len(wire')
    BY <1>b, <2>1, <2>2 DEF Gapless
  <2> QED
    BY <2>1, <2>3, <2>4, <2>5 DEF Gapless
<1>2. CASE Connect \/ Drain \/ Close \/ Refuse \/ Ended
  <2>1. UNCHANGED <<sbuf, d, lis, got, scon, wire, sent>>
    BY <1>2, <1>a DEF Connect, Drain, Close, Refuse, Ended
  <2> QED
    BY <1>a, <2>1 DEF Gapless, Passed, InHand, Carries, Unread, Clearing
<1>3. CASE Reset
  BY <1>3 DEF Reset, SInv, TypeOK
<1> QED
  BY <1>1, <1>2, <1>3 DEF Peer

\* Every step of a receiving firmware is a step of the abstract channel.
LEMMA ChannelStep ==
  ASSUME SInv, RInv, [FNext]_fvars, resets' = 0
  PROVE  RInv' /\ [Channel!Next]_(Channel!vars)
<1> USE DEF Channel!Next, Channel!Send, Channel!Read, Channel!vars
<1>1. CASE UNCHANGED fvars
  BY <1>1 DEF RInv, Gapless, Receives, Passed, InHand, Carries, Unread, Clearing, Here
<1>2. CASE FNext /\ Receives
  <2>1. Receives' /\ resets = 0 /\ Gapless
    BY <1>2, ResetsGrow DEF FNext, IssueNext, Progress, Receives, RInv
  <2>2. Gapless' /\ [Channel!Next]_(Channel!vars)
    BY <1>2, <2>1, GaplessCpu, GaplessListener, GaplessPeer DEF FNext, Machine
  <2> QED
    BY <2>2 DEF RInv
<1>3. CASE FNext /\ ~Receives
  <2>1. ~Receives'
    BY <1>3 DEF FNext, IssueNext, Progress, Receives
  <2> QED
    BY <1>3, <2>1 DEF RInv
<1> QED
  BY <1>1, <1>2, <1>3

\* While no connection is reset, a receiving firmware implements the safety
\* of the byte channel: it reads the bytes sent, each once and in order, none
\* left out, over any number of connections and for any number of bytes.
THEOREM ReceivesInOrder == FSpec /\ [](resets = 0) => Channel!Safety
<1>1. FInit => Channel!Init /\ RInv
  BY EmptySeq DEF FInit, Init, Channel!Init, RInv, Gapless, Passed, One, Unread, Clearing,
                  InHand, Carries, Receives
<1>2. SInv /\ RInv /\ [FNext]_fvars /\ (resets = 0)' => RInv' /\ [Channel!Next]_(Channel!vars)
  BY ChannelStep
<1> QED
  BY <1>1, <1>2, SInvariant, PTL DEF FSpec, Channel!Safety
=============================================================================
