-------------------------------- MODULE Uart --------------------------------
(***************************************************************************)
(* The emulated UART: main.c, ramd_get, ramd_put and uart_listener_thread. *)
(* Two threads share SCON and SBUF.  The CPU thread reaches them through   *)
(* readd and writed, the listener directly; both take uart_mutex, but an   *)
(* instruction that modifies SCON takes it twice, and a write of SBUF also *)
(* reads SCON without it.                                                  *)
(*                                                                         *)
(* Bytes from the peer are numbered in the order they are sent; a byte the *)
(* firmware transmits is Tx; the value of an uninitialised variable is     *)
(* Junk.  The network is external: a TCP connection at a time.  A byte     *)
(* written to a peer that has left is answered by a reset; the write after *)
(* that raises SIGPIPE, which nothing handles, and the process ends.  A    *)
(* byte written to a peer that does not read may be the one that fills the *)
(* socket's buffers; the write after that sleeps until there is room again *)
(* or the connection is reset.                                             *)
(***************************************************************************)
EXTENDS Naturals, Sequences

CONSTANTS
    MaxRx,      \* bound: bytes the peer sends
    MaxReset    \* bound: connections the peer resets

ASSUME MaxRxAssumption == MaxRx \in Nat
ASSUME MaxResetAssumption == MaxReset \in Nat

VARIABLES
    scon,       \* the RI and TI bits of SCON
    sbuf,       \* SBUF, one byte for both directions
    mutex,      \* who holds uart_mutex: "free", "cpu" or "listener"
    irqsrc,     \* the UART's source as sfr_notify_irq last read it
    cpu,        \* where the CPU thread is
    op,         \* the instruction it executes
    snap,       \* SCON as an instruction last read it
    wfd,        \* uart_fd as a write of SBUF loaded it: "stdin" or "socket";
                \* "held" when the write sleeps in the connection of that
                \* number, then what has become of it: "reset", "broken" (and
                \* recv has had the error) or "gone" (the listener closed it)
    lis,        \* where the listener thread is
    d, lsnap,   \* its byte in hand, and its load of SCON in |=
    fd,         \* uart_fd: "stdin", or "socket", the number accept returns
    conn,       \* the connection: "none", "open", "stalled" (open, and no room
                \* for a byte), "fin" (the peer has closed), "reset", or
                \* "broken": writing it raises SIGPIPE
    wire,       \* bytes in flight, oldest first
    sent, resets, \* how many bytes and resets so far
    late,       \* history: RI was set after snap was read
    fate,       \* history: where the byte being transmitted went
    spent,      \* history: the connection was written since its peer left
    missed      \* history: a byte went elsewhere while a connection was served

net == <<conn, wire, sent, resets>>
tx == <<fate, spent, missed>>
cpuvars == <<cpu, op, snap, wfd>>
lisvars == <<lis, d, lsnap, fd>>
vars == <<scon, sbuf, mutex, irqsrc, cpuvars, lisvars, net, late, tx>>

Scon == [ri : BOOLEAN, ti : BOOLEAN]
Tx == 0
Junk == MaxRx + 1
Byte == 0..(MaxRx + 1)

\* The instructions: initSCON and zeroSCON are MOV SCON, #0x52 and #0x50.
Tests == {"testRI", "testTI"}
Moves == {"initSCON", "zeroSCON"}
Ops == Tests \cup Moves
         \cup {"clrRI", "clrTI", "setTI", "jbcRI", "jbcTI", "pokePCON", "putSBUF", "getSBUF"}

TypeOK == /\ scon \in Scon /\ snap \in Scon /\ lsnap \in Scon
          /\ sbuf \in Byte /\ d \in Byte
          /\ mutex \in {"free", "cpu", "listener"}
          /\ irqsrc \in BOOLEAN /\ late \in BOOLEAN
          /\ cpu \in {"fetch", "lockRd", "rd", "lockWr", "wr", "notify",
                      "send", "write", "lockSb", "sb", "peek", "lockGet", "get", "dead"}
          /\ op \in Ops
          /\ lis \in {"accept", "lockFd", "setFd", "recv", "lock", "test", "fill", "raise"}
          /\ fd \in {"stdin", "socket"}
          /\ wfd \in {"stdin", "socket", "held", "reset", "broken", "gone"}
          /\ conn \in {"none", "open", "stalled", "fin", "reset", "broken"}
          /\ fate \in {"none", "terminal", "peer", "nowhere"}
          /\ spent \in BOOLEAN /\ missed \in BOOLEAN
          /\ wire \in Seq(Byte) /\ sent \in 0..MaxRx /\ resets \in 0..MaxReset

Clear == [ri |-> FALSE, ti |-> FALSE]
Init == /\ scon = Clear /\ sbuf = Tx /\ irqsrc = FALSE
        /\ mutex = "free"
        /\ cpu = "fetch" /\ op = "testRI" /\ snap = Clear
        /\ lis = "accept" /\ d = Junk /\ fd = "stdin" /\ wfd = "stdin"
        /\ lsnap = Clear
        /\ conn = "none" /\ wire = << >> /\ sent = 0 /\ resets = 0
        /\ late = FALSE /\ fate = "none" /\ spent = FALSE /\ missed = FALSE

-----------------------------------------------------------------------------
(* The CPU thread *)

\* Where the instruction o starts: a bit instruction with readd, a MOV to
\* SCON with writed, SBUF with its own case of ramd_get or ramd_put.
Entry(o) == CASE o \in Moves -> "lockWr"
              [] o = "putSBUF" -> "send"
              [] o = "getSBUF" -> "lockGet"
              [] OTHER -> "lockRd"

\* It has no copy of SCON yet.
Issue(o) == /\ cpu = "fetch"
            /\ op' = o /\ cpu' = Entry(o) /\ snap' = Clear /\ late' = FALSE
            /\ UNCHANGED <<scon, sbuf, mutex, irqsrc, wfd, lisvars, net, tx>>

\* pthread_mutex_lock on the CPU thread.
Held(l) == CASE l = "lockRd" -> "rd" [] l = "lockWr" -> "wr"
             [] l = "lockSb" -> "sb" [] l = "lockGet" -> "get"
CpuLock == /\ cpu \in {"lockRd", "lockWr", "lockSb", "lockGet"}
           /\ mutex = "free" /\ mutex' = "cpu"
           /\ cpu' = Held(cpu)
           /\ UNCHANGED <<scon, sbuf, irqsrc, op, snap, wfd, lisvars, net, late, tx>>

\* ramd_get(SCON).  JBC reads once to test and once more to modify.
Bit(o, s) == IF o \in {"testRI", "jbcRI"} THEN s.ri ELSE s.ti
ReadScon == /\ cpu = "rd" /\ mutex' = "free"
            /\ snap' = scon /\ late' = FALSE
            /\ op' = CASE op = "jbcRI" /\ scon.ri -> "clrRI"
                       [] op = "jbcTI" /\ scon.ti -> "clrTI"
                       [] OTHER -> op
            /\ cpu' = CASE op \in Tests -> "fetch"
                        [] op \in {"jbcRI", "jbcTI"} -> IF Bit(op, scon) THEN "lockRd" ELSE "fetch"
                        [] OTHER -> "lockWr"
            /\ UNCHANGED <<scon, sbuf, irqsrc, wfd, lisvars, net, tx>>

\* The value an instruction stores into SCON, from the value it read; PCON's
\* handler stores back what it read.
StoredByteWide(o, s) == [ri |-> FALSE, ti |-> o = "putSBUF"]
StoredDropsTI(o, s) == IF o = "putSBUF" THEN s ELSE [ri |-> FALSE, ti |-> FALSE]
Stored(o, s) == CASE o = "clrRI" -> [s EXCEPT !.ri = FALSE]
                  [] o = "clrTI" -> [s EXCEPT !.ti = FALSE]
                  [] o \in {"setTI", "putSBUF"} -> [s EXCEPT !.ti = TRUE]
                  [] o \in Moves -> [ri |-> FALSE, ti |-> o = "initSCON"]
                  [] OTHER -> s

\* ramd_put(SCON)
WriteScon == /\ cpu = "wr" /\ mutex' = "free"
             /\ scon' = Stored(op, snap)
             /\ cpu' = "notify"
             /\ UNCHANGED <<sbuf, irqsrc, op, snap, wfd, lisvars, net, late, tx>>

\* sfr_notify_irq reads SCON without the mutex.
NotifyNever == cpu = "notify" /\ cpu' = "fetch" /\ UNCHANGED irqsrc
            /\ UNCHANGED <<scon, sbuf, mutex, op, snap, wfd, lisvars, net, late, tx>>
NotifyIrq == /\ cpu = "notify" /\ cpu' = "fetch"
             /\ irqsrc' = (scon.ri \/ scon.ti)
             /\ UNCHANGED <<scon, sbuf, mutex, op, snap, wfd, lisvars, net, late, tx>>

\* ramd_put(SBUF): uart_fd is loaded without the mutex.
LoadFd == /\ cpu = "send" /\ cpu' = "write" /\ wfd' = fd
          /\ UNCHANGED <<scon, sbuf, mutex, irqsrc, op, snap, lisvars, net, late, tx>>

\* Then the byte is written to that descriptor, still without the mutex; the
\* result of the write is not looked at.  A closed descriptor's number is the
\* next one accept returns.
Serving == lis \notin {"accept", "lockFd", "setFd"}
Addressed == wfd = "socket" /\ lis # "accept"
Returns(f) == cpu' = "lockSb" /\ fate' = f

Unwritten == /\ Returns(IF wfd = "stdin" THEN "terminal" ELSE "nowhere")
             /\ missed' = (missed \/ (Serving /\ conn \in {"open", "stalled"}))
             /\ UNCHANGED <<conn, spent, wfd>>
\* The byte may be the one that fills the buffers.
WrittenOpen == /\ conn = "open" /\ conn' \in {"open", "stalled"} /\ Returns("peer")
               /\ wfd' = "socket" /\ UNCHANGED <<spent, missed>>
WrittenLate == /\ conn \in {"fin", "reset"} /\ Returns("nowhere") /\ spent' = TRUE
               /\ conn' = IF conn = "reset" THEN "broken" ELSE conn
               /\ wfd' = "socket" /\ UNCHANGED missed
Sigpipe == cpu' = "dead" /\ UNCHANGED <<conn, wfd, tx>>
Sleep == conn = "stalled" /\ wfd' = "held" /\ UNCHANGED <<cpu, conn, tx>>

\* A write that sleeps keeps the connection it found, whatever the listener
\* does with the descriptor.
WrittenGone == Returns("nowhere") /\ wfd' = "socket" /\ UNCHANGED <<conn, spent, missed>>
Wake == \/ wfd = "held" /\ WrittenOpen
        \/ wfd \in {"held", "reset"} /\ WrittenLate
        \/ wfd = "broken" /\ Sigpipe
        \/ wfd = "gone" /\ WrittenGone

Asleep == wfd \notin {"stdin", "socket"}
Write == /\ cpu = "write"
         /\ \/ Asleep /\ Wake
            \/ Addressed /\ (WrittenOpen \/ WrittenLate \/ Sleep)
            \/ Addressed /\ conn = "broken" /\ Sigpipe
            \/ ~Asleep /\ ~Addressed /\ Unwritten
         /\ UNCHANGED <<scon, sbuf, mutex, irqsrc, op, snap, lisvars,
                        wire, sent, resets, late>>

\* SBUF under the mutex, then SCON read without it, then poke_sfr.
WriteSbuf == /\ cpu = "sb" /\ mutex' = "free"
             /\ sbuf' = Tx /\ cpu' = "peek" /\ fate' = "none"
             /\ UNCHANGED <<scon, irqsrc, op, snap, wfd, lisvars, net, late, spent, missed>>

PeekSconKeepsLock == /\ cpu = "peek" /\ cpu' = "lockWr" /\ mutex' = "cpu"
                     /\ snap' = scon /\ late' = FALSE
                     /\ UNCHANGED <<scon, sbuf, irqsrc, op, wfd, lisvars, net, tx>>
PeekScon == /\ cpu = "peek" /\ cpu' = "lockWr"
            /\ snap' = scon /\ late' = FALSE
            /\ UNCHANGED <<scon, sbuf, mutex, irqsrc, op, wfd, lisvars, net, tx>>

\* ramd_get(SBUF) returns sbuf.
ReadSbuf == /\ cpu = "get" /\ mutex' = "free"
            /\ cpu' = "fetch"
            /\ UNCHANGED <<scon, sbuf, irqsrc, op, snap, wfd, lisvars, net, late, tx>>

CpuStep == \/ ReadScon \/ WriteScon \/ NotifyIrq \/ LoadFd \/ Write
           \/ WriteSbuf \/ PeekScon \/ ReadSbuf

\* The process has been ended by SIGPIPE, both threads with it.
Dead == cpu = "dead"
Ended == Dead /\ UNCHANGED vars

-----------------------------------------------------------------------------
(* The listener thread *)

Accept == /\ lis = "accept" /\ conn # "none" /\ lis' = "lockFd"
          /\ UNCHANGED <<scon, sbuf, mutex, irqsrc, cpuvars, d, lsnap, fd, net, late, tx>>

ListenerLock == /\ ~Dead /\ lis \in {"lockFd", "lock"}
                /\ mutex = "free" /\ mutex' = "listener"
                /\ lis' = IF lis = "lockFd" THEN "setFd" ELSE "test"
                /\ UNCHANGED <<scon, sbuf, irqsrc, cpuvars, d, lsnap, fd, net, late, tx>>

SetFdNever == /\ lis = "setFd" /\ mutex' = "free" /\ lis' = "recv"
              /\ UNCHANGED <<scon, sbuf, irqsrc, cpuvars, d, lsnap, fd, net, late, tx>>
SetFd == /\ lis = "setFd" /\ mutex' = "free"
         /\ fd' = "socket" /\ lis' = "recv"
         /\ UNCHANGED <<scon, sbuf, irqsrc, cpuvars, d, lsnap, net, late, tx>>

RecvByte == /\ lis = "recv" /\ wire # << >>
            /\ d' = Head(wire) /\ wire' = Tail(wire) /\ lis' = "lock"
            /\ UNCHANGED <<scon, sbuf, mutex, irqsrc, cpuvars, lsnap, fd, conn, sent, resets, late, tx>>

\* What happens to the connection a write sleeps in.
Meets(c) == wfd' = IF wfd = "held" THEN c ELSE wfd
CpuStays == UNCHANGED <<cpu, op, snap>>

\* recv returns 0: close the descriptor, uart_fd keeps its number.
RecvClosedUnchecked == /\ lis = "recv" /\ wire = << >> /\ conn \in {"fin", "broken"}
                       /\ lis' = "lock"
                       /\ UNCHANGED <<scon, sbuf, mutex, irqsrc, cpuvars, d, lsnap, fd, net, late, tx>>
RecvClosedShutdown == /\ lis = "recv" /\ wire = << >> /\ conn \in {"fin", "broken"}
                      /\ conn' = "broken" /\ lis' = "accept"
                      /\ UNCHANGED <<scon, sbuf, mutex, irqsrc, cpuvars, d, lsnap, fd, wire, sent, resets, late, tx>>
RecvClosed == /\ lis = "recv" /\ wire = << >> /\ conn \in {"fin", "broken"}
              /\ conn' = "none" /\ Meets("gone") /\ lis' = "accept"
              /\ CpuStays
              /\ UNCHANGED <<scon, sbuf, mutex, irqsrc, d, lsnap, fd, wire, sent, resets, late, tx>>

\* recv returns -1, once: only 0 is tested for, and the loop delivers the
\* byte it declared and never stored.
RecvError == /\ lis = "recv" /\ wire = << >> /\ conn = "reset"
             /\ d' \in {d, Junk} /\ conn' = "broken" /\ lis' = "lock"
             /\ wfd' = IF wfd = "reset" THEN "broken" ELSE wfd
             /\ CpuStays
             /\ UNCHANGED <<scon, sbuf, mutex, irqsrc, lsnap, fd, wire, sent, resets, late, tx>>

\* Deliver only into an empty receiver; otherwise unlock, sleep and retry.
TestAlways == /\ lis = "test" /\ lis' = "fill"
              /\ UNCHANGED <<mutex, scon, sbuf, irqsrc, cpuvars, d, lsnap, fd, net, late, tx>>
Test == /\ lis = "test"
        /\ IF scon.ri THEN lis' = "lock" /\ mutex' = "free"
                      ELSE lis' = "fill" /\ UNCHANGED mutex
        /\ UNCHANGED <<scon, sbuf, irqsrc, cpuvars, d, lsnap, fd, net, late, tx>>

\* *sfr_sbuf = d, and the load and the store of *sfr_scon |= SCON_RI.
FillUnlocks == /\ lis = "fill" /\ lis' = "raise" /\ mutex' = "free"
               /\ sbuf' = d /\ lsnap' = scon
               /\ UNCHANGED <<scon, irqsrc, cpuvars, d, fd, net, late, tx>>
Fill == /\ lis = "fill" /\ lis' = "raise"
        /\ sbuf' = d /\ lsnap' = scon
        /\ UNCHANGED <<scon, mutex, irqsrc, cpuvars, d, fd, net, late, tx>>
RaiseRepeats == /\ lis = "raise" /\ lis' = "lock" /\ mutex' = "free"
                /\ scon' = [lsnap EXCEPT !.ri = TRUE] /\ late' = TRUE
                /\ UNCHANGED <<sbuf, irqsrc, cpuvars, d, lsnap, fd, net, tx>>
RaiseRI == /\ lis = "raise" /\ lis' = "recv" /\ mutex' = "free"
           /\ scon' = [lsnap EXCEPT !.ri = TRUE] /\ late' = TRUE
           /\ UNCHANGED <<sbuf, irqsrc, cpuvars, d, lsnap, fd, net, tx>>

ListenerStep == /\ ~Dead
                /\ \/ Accept \/ SetFd \/ RecvByte \/ RecvClosed \/ RecvError
                   \/ Test \/ Fill \/ RaiseRI

-----------------------------------------------------------------------------
(* The peer: external, a TCP client *)

Unshared == <<scon, sbuf, mutex, irqsrc, lisvars, late>>

Connect == /\ conn = "none" /\ conn' = "open" /\ spent' = FALSE
           /\ UNCHANGED <<Unshared, cpuvars, wire, sent, resets, fate, missed>>
PeerSend == /\ conn \in {"open", "stalled"} /\ sent < MaxRx
            /\ sent' = sent + 1 /\ wire' = Append(wire, sent + 1)
            /\ UNCHANGED <<Unshared, cpuvars, conn, resets, tx>>
\* The peer reads what has been sent to it: there is room again.
Drain == /\ conn = "stalled" /\ conn' = "open"
         /\ UNCHANGED <<Unshared, cpuvars, wire, sent, resets, tx>>
Close == /\ conn = "open" /\ conn' = "fin"
         /\ UNCHANGED <<Unshared, cpuvars, wire, sent, resets, tx>>
\* A reset, or a close with bytes unread, which is one, loses what the
\* listener's end has not received yet.
Reset == /\ conn \in {"open", "stalled"} /\ resets < MaxReset
         /\ conn' = "reset" /\ resets' = resets + 1
         /\ \E k \in 0..Len(wire) : wire' = SubSeq(wire, 1, k)
         /\ Meets("reset") /\ CpuStays
         /\ UNCHANGED <<Unshared, sent, tx>>
\* The peer's end answers a byte written after its close.
Refuse == /\ conn = "fin" /\ spent /\ conn' = "broken"
          /\ UNCHANGED <<Unshared, cpuvars, wire, sent, resets, tx>>

Peer == ~Dead /\ (Connect \/ PeerSend \/ Drain \/ Close \/ Reset \/ Refuse)

\* Everything but the choice of instructions.
Machine == CpuLock \/ CpuStep \/ ListenerLock \/ ListenerStep \/ Peer \/ Ended

Next == Machine \/ \E o \in Ops : Issue(o)

Spec == Init /\ [][Next]_vars

(* Both threads run.  A thread that wants the mutex gets it: the other one *)
(* sleeps, or executes other instructions, between two of its lock         *)
(* sections.                                                               *)
MachineFairness == /\ WF_vars(CpuStep) /\ SF_vars(CpuLock)
                   /\ WF_vars(ListenerStep) /\ SF_vars(ListenerLock)
FairSpec == Spec /\ MachineFairness

-----------------------------------------------------------------------------
(* Properties, under every sequence of instructions *)

\* uart_mutex is held by the thread that is inside a lock section and by
\* nobody else: no path locks it twice or returns with it held, in
\* particular not the nested poke_sfr(SCON) of a write of SBUF.
CpuHolds == cpu \in {"rd", "wr", "sb", "get"}
ListenerHolds == lis \in {"setFd", "test", "fill", "raise"}
LockDiscipline == /\ mutex = "cpu" <=> CpuHolds
                  /\ mutex = "listener" <=> ListenerHolds

\* The listener's |= never undoes a TI or brings back a cleared one: TI
\* changes only where the CPU stores SCON.
TiOnlyByCpu == [][scon'.ti # scon.ti => cpu = "wr" /\ cpu' = "notify"]_vars

\* A received byte's RI goes away only by an instruction that clears it on
\* purpose, or by one that read SCON before the byte arrived: the two lock
\* sections of a read-modify-write, and the unlocked read of a transmit,
\* are the only window.
Intends(o) == o \in Moves \cup {"clrRI"}
RiLossWindow ==
    [][scon.ri /\ ~scon'.ri => cpu = "wr" /\ (Intends(op) \/ late)]_vars

\* The listener overwrites SBUF only while RI is clear, and RI rises only with
\* the byte it stands for in SBUF: a transmit cannot come in between.
NoOverrun ==
    [][/\ sbuf' # sbuf /\ lis = "fill" => ~scon.ri
       /\ ~scon.ri /\ scon'.ri => lis = "raise" /\ sbuf = d]_vars

\* A byte whose write returns while the listener serves an open connection has
\* reached that connection's peer, though uart_fd is read without the mutex and
\* keeps the number of the connection before (main.c:189, main.c:598), with two
\* exceptions: the one byte in the life of the process that goes to the
\* terminal, its descriptor loaded before the listener stored the first one,
\* and a byte that slept in a connection which the listener has closed since.
ServedIsHeard ==
    [][cpu = "write" /\ cpu' = "lockSb" /\ Serving /\ conn = "open" =>
         \/ fate' = "peer"
         \/ wfd = "stdin" /\ ~missed
         \/ wfd = "gone"]_vars

\* A peer that closes its connection, and resets none, does not end the
\* emulator with the first byte written to it after that; the second one may
\* (main.c:189: the write's result is ignored and SIGPIPE is not).
FirstWriteForgiven == Dead => spent \/ resets > 0

\* The byte nobody sent, recv's error delivered as data, appears in SBUF only
\* after a connection was reset: an orderly close delivers nothing.
JunkOnlyAfterReset == sbuf = Junk => resets > 0

\* What the interrupt controller believes of the UART is wrong at a fetch
\* only because a byte arrived since the last write of SCON.
SourceStale == irqsrc # (scon.ri \/ scon.ti)
StaleOnlyAfterArrival == cpu = "fetch" /\ SourceStale => scon.ri /\ ~irqsrc

\* Every instruction ends, whatever the listener does, but for a transmit that
\* sleeps for ever in a connection whose peer never reads again (main.c:189: the
\* socket is a blocking one); a transmit may also end the process.
InstructionEnds ==
    cpu # "fetch" ~> \/ cpu \in {"fetch", "dead"}
                     \/ [](wfd = "held" /\ conn = "stalled")
=============================================================================
