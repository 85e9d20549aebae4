------------------------------- MODULE Poller -------------------------------
(***************************************************************************)
(* The event loop of "10 - Class base Poller with TLS and Signals":        *)
(* Poller, with its TcpListenerPollHandler and TcpSocketPollHandlers, over *)
(* plain TCP.  One thread runs the loop; peers and signals act between any *)
(* two of its system calls.  What a program's on_read does is left open    *)
(* here (AnyOnRead) and fixed by the modules of the programs.              *)
(***************************************************************************)
EXTENDS Sockets

CONSTANTS
  ListenFd,    \* the descriptor of the listening socket
  ReadBuf,     \* read_bufsiz, in units
  WriteBuf,    \* write_bufsiz, in units
  MaxSignals   \* bound: how often the registered signal is raised

\* The programs open the listener before anything else.
ASSUME ListenFdAssumption == ListenFd \in Nat /\ \A f \in Fd : ListenFd < f
ASSUME BufsizAssumption == ReadBuf \in Nat \ {0} /\ WriteBuf \in Nat \ {0}
ASSUME MaxSignalsAssumption == MaxSignals \in Nat

VARIABLES
  phase,       \* where the event loop is
  cur,         \* the descriptor whose events are being handled
  pending,     \* the events poll returned and the loop has not handled yet
  rq,          \* read_queue_ of cur's handler, then the bufs of on_read
  handlers,    \* handlers_: whose handler is registered for a descriptor
  isOpen,      \* File::is_open_ of the socket of each connection's handler
  wq,          \* write_queue_ of each handler: what is left of each buffer
  lastSignal,  \* Poller::last_signal_ # 0
  eintr,       \* a signal was caught while poll was blocked
  signals,     \* how often the signal was raised
  noted,       \* history: the value of signals when on_interrupt last ran
  polled       \* history: handlers when poll last returned

loopVars == <<phase, cur, pending, rq, handlers, isOpen, wq, lastSignal,
              eintr, signals, noted, polled>>
vars == <<sockVars, loopVars>>

AllFd == Fd \cup {ListenFd}
Buf == Seq(Unit) \ {<<>>}   \* no buffer is ever empty, read or queued
Waiting == {"poll", "blocked"}
Serving == {"read", "deliver", "write"}
Ended == {"stopped", "killed"}
Phases == Waiting \cup {"signal", "interrupt", "dispatch", "cleanup"}
            \cup Serving \cup Ended

Running == phase \notin Ended

TypeOK ==
  /\ SocketsTypeOK
  /\ phase \in Phases
  /\ cur \in AllFd
  /\ pending \in [AllFd -> SUBSET {"IN", "OUT"}]
  /\ rq \in Seq(Buf)
  /\ handlers \in [Fd -> Conn \cup {NoConn}]
  /\ isOpen \in [Conn -> BOOLEAN]
  /\ wq \in [Conn -> Seq(Buf)]
  /\ lastSignal \in BOOLEAN
  /\ eintr \in BOOLEAN
  /\ signals \in 0 .. MaxSignals
  /\ noted \in 0 .. MaxSignals
  /\ polled \in [Fd -> Conn \cup {NoConn}]

NoEvents == [f \in AllFd |-> {}]

Init ==
  /\ SocketsInit
  /\ phase = "poll"
  /\ cur = ListenFd
  /\ pending = NoEvents
  /\ rq = <<>>
  /\ handlers = [f \in Fd |-> NoConn]
  /\ isOpen = [c \in Conn |-> FALSE]
  /\ wq = [c \in Conn |-> <<>>]
  /\ lastSignal = FALSE
  /\ eintr = FALSE
  /\ signals = 0
  /\ noted = 0
  /\ polled = handlers

\* What most steps of the loop leave alone.
sigVars == <<lastSignal, eintr, signals, noted>>
regVars == <<handlers, isOpen, wq>>
peerVars == <<backlog, peer, sent, received>>

\* The process ends: the kernel closes all that it had open.
Exit(how) ==
  /\ phase' = how
  /\ cur' = ListenFd
  /\ pending' = NoEvents
  /\ rq' = <<>>
  /\ handlers' = [f \in Fd |-> NoConn]
  /\ fdTable' = [f \in Fd |-> NoConn]
  /\ isOpen' = [c \in Conn |-> FALSE]
  /\ wq' = [c \in Conn |-> <<>>]
  /\ UNCHANGED <<backlog, peer, inbox, sndq, sent, received, polled, sigVars>>

-----------------------------------------------------------------------------
(* poll: the interest in each descriptor, and what comes of waiting.       *)

Registered(f) == handlers[f] # NoConn

\* The handler of f exists and its stream is open.
Live(f) == Registered(f) /\ isOpen[handlers[f]]

Ready(f) ==
  IF f = ListenFd
  THEN {e \in {"IN"} : backlog # <<>>}
  ELSE {e \in {"IN", "OUT"} :
          /\ Registered(f) /\ ~Free(f)
          /\ e = "IN" => Live(f) /\ Readable(fdTable[f])
          /\ e = "OUT" => /\ Live(f) /\ wq[handlers[f]] # <<>>
                          /\ Writable(fdTable[f])}

AnyReady == \E f \in AllFd : Ready(f) # {}

\* poll_fds are made from the handlers and the call blocks.
EnterPoll ==
  /\ phase = "poll"
  /\ phase' = "blocked"
  /\ eintr' = FALSE
  /\ UNCHANGED <<sockVars, cur, pending, rq, regVars, lastSignal, signals,
                 noted, polled>>

PollEnds(events) ==
  /\ phase = "blocked"
  /\ phase' = "signal"
  /\ pending' = events
  /\ polled' = handlers
  /\ eintr' = FALSE
  /\ UNCHANGED <<sockVars, cur, rq, regVars, lastSignal, signals, noted>>

PollReturns == AnyReady /\ PollEnds([f \in AllFd |-> Ready(f)])

\* Mutant: poll has no timeout, as in example 09.
PollForever == FALSE

\* The 1000 ms are over and nothing was ready.
PollTimeout == ~AnyReady /\ PollEnds(NoEvents)

\* EINTR counts as "nothing ready"; poll fails so only when nothing is.
PollEintr == ~AnyReady /\ eintr /\ PollEnds(NoEvents)

-----------------------------------------------------------------------------
(* Signals.                                                                *)

\* handle_signal interrupts the loop anywhere; several signals may coalesce.
RaiseSignal ==
  /\ Running
  /\ signals < MaxSignals
  /\ signals' = signals + 1
  /\ lastSignal' = TRUE
  /\ eintr' = (phase = "blocked")
  /\ UNCHANGED <<sockVars, phase, cur, pending, rq, regVars, noted, polled>>

NoSignal ==
  /\ phase = "signal"
  /\ ~lastSignal
  /\ phase' = "dispatch"
  /\ UNCHANGED <<sockVars, cur, pending, rq, regVars, sigVars, polled>>

TakeSignal ==
  /\ phase = "signal"
  /\ lastSignal
  /\ lastSignal' = FALSE
  /\ phase' = "interrupt"
  /\ UNCHANGED <<sockVars, cur, pending, rq, regVars, eintr, signals, noted,
                 polled>>

OnInterrupt ==
  /\ phase = "interrupt"
  /\ noted' = signals
  /\ phase' = "dispatch"
  /\ UNCHANGED <<sockVars, cur, pending, rq, regVars, lastSignal, eintr,
                 signals, polled>>

-----------------------------------------------------------------------------
(* Dispatch: the ready descriptors in the order of std::map, ascending.    *)

\* Mutant: the descriptors come in any order, as from a hash map.
IsAnyPending(f) == phase = "dispatch" /\ pending[f] # {}

IsNext(f) ==
  /\ phase = "dispatch"
  /\ pending[f] # {}
  /\ \A g \in AllFd : pending[g] # {} => f <= g

\* The listener's handler accepts one connection on descriptor f and
\* add_handler registers it in handlers_[f].  A handler still there would be
\* destroyed, and its File would close the descriptor if it was not open.
Accept(f) ==
  /\ IsNext(ListenFd)
  /\ backlog # <<>>
  /\ LowestFree(f)
  /\ backlog' = Tail(backlog)
  /\ fdTable' = [fdTable EXCEPT ![f] =
                   IF Registered(f) /\ ~isOpen[handlers[f]] THEN NoConn
                                                            ELSE Head(backlog)]
  /\ handlers' = [handlers EXCEPT ![f] = Head(backlog)]
  /\ isOpen' = [isOpen EXCEPT ![Head(backlog)] = TRUE]
  /\ pending' = [pending EXCEPT ![ListenFd] = {}]
  /\ UNCHANGED <<peer, inbox, sndq, sent, received, phase, cur, rq, wq,
                 sigVars, polled>>

\* The connection has gone since poll returned, or no descriptor is left.
CannotAccept == backlog = <<>> \/ \A f \in Fd : ~Free(f)

\* accept fails; what it throws ends event_loop and main.
AcceptFails ==
  /\ IsNext(ListenFd)
  /\ CannotAccept
  /\ Exit("stopped")

Serve(f, how) ==
  /\ IsNext(f)
  /\ cur' = f
  /\ phase' = how
  /\ UNCHANGED <<sockVars, pending, rq, regVars, sigVars, polled>>

DispatchRead(f) == "IN" \in pending[f] /\ Serve(f, "read")

DispatchWrite(f) == "IN" \notin pending[f] /\ Serve(f, "write")

DispatchDone ==
  /\ phase = "dispatch"
  /\ pending = NoEvents
  /\ phase' = "cleanup"
  /\ UNCHANGED <<sockVars, cur, pending, rq, regVars, sigVars, polled>>

-----------------------------------------------------------------------------
(* handle_read: the handler reads until the socket blocks or ends, then    *)
(* on_read gets all the chunks.                                            *)

Me == handlers[cur]     \* the handler that is served
Sock == fdTable[cur]    \* what its descriptor reads from and writes to

\* Mutant: a read that would block is taken for the end of the stream.
EndOrBlocked(c) == inbox[c] = <<>>

\* read(2) returns zero, or an error that is not "try again".
AtEnd(c) == inbox[c] = <<>> /\ peer[c] # "up"

ReadSome ==
  /\ phase = "read"
  /\ isOpen[Me]
  /\ inbox[Sock] # <<>>
  /\ LET n == AtMost(ReadBuf, Len(inbox[Sock]))
     IN  /\ rq' = Append(rq, SubSeq(inbox[Sock], 1, n))
         /\ inbox' = [inbox EXCEPT ![Sock] = SubSeq(@, n + 1, Len(@))]
  /\ UNCHANGED <<fdTable, peerVars, sndq, phase, cur, pending, regVars,
                 sigVars, polled>>

\* can_continue: POLLOUT is still to be handled.
ReadBlocked ==
  /\ phase = "read"
  /\ isOpen[Me]
  /\ ~Readable(Sock)
  /\ pending' = [pending EXCEPT ![cur] = @ \ {"IN"}]
  /\ phase' = "deliver"
  /\ UNCHANGED <<sockVars, cur, rq, regVars, sigVars, polled>>

\* Mutant: the end of the stream does not end the loop of read().
ReadEndsNever ==
  /\ phase = "read"
  /\ isOpen[Me]
  /\ AtEnd(Sock)
  /\ UNCHANGED vars

\* End of file or a fault: the stream is marked closed, but its descriptor is
\* not closed yet.
ReadEnds ==
  /\ phase = "read"
  /\ isOpen[Me]
  /\ AtEnd(Sock)
  /\ isOpen' = [isOpen EXCEPT ![Me] = FALSE]
  /\ pending' = [pending EXCEPT ![cur] = {}]
  /\ phase' = "deliver"
  /\ UNCHANGED <<sockVars, cur, rq, handlers, wq, sigVars, polled>>

\* A callback closed this handler earlier in the same iteration.
ReadClosed ==
  /\ phase = "read"
  /\ ~isOpen[Me]
  /\ pending' = [pending EXCEPT ![cur] = {}]
  /\ phase' = "deliver"
  /\ UNCHANGED <<sockVars, cur, rq, regVars, sigVars, polled>>

\* on_read handles the first of bufs: Poller::write enqueues it for the
\* handlers of the descriptors W, Poller::close closes those of C.
OnRead(W, C) ==
  /\ phase = "deliver"
  /\ rq # <<>>
  /\ rq' = Tail(rq)
  /\ wq' = [c \in Conn |-> IF \E f \in W : handlers[f] = c
                           THEN Append(wq[c], Head(rq)) ELSE wq[c]]
  /\ isOpen' = [c \in Conn |-> isOpen[c] /\ ~\E f \in C : handlers[f] = c]
  /\ fdTable' = [f \in Fd |-> IF f \in C /\ Live(f) THEN NoConn ELSE fdTable[f]]
  /\ UNCHANGED <<peerVars, inbox, sndq, phase, cur, pending, handlers,
                 sigVars, polled>>

AnyOnRead == \E W, C \in SUBSET Fd : OnRead(W, C)

Delivered ==
  /\ phase = "deliver"
  /\ rq = <<>>
  /\ phase' = IF "OUT" \in pending[cur] THEN "write" ELSE "dispatch"
  /\ UNCHANGED <<sockVars, cur, pending, rq, regVars, sigVars, polled>>

-----------------------------------------------------------------------------
(* handle_write: the handler writes until its queue is empty or the socket *)
(* blocks.                                                                 *)

CanWrite ==
  /\ phase = "write"
  /\ isOpen[Me]
  /\ wq[Me] # <<>>

EndServing ==
  /\ pending' = [pending EXCEPT ![cur] = {}]
  /\ phase' = "dispatch"
  /\ UNCHANGED <<cur, rq, handlers, sigVars, polled>>

\* Mutants: a buffer written in part is dropped; one written in full is kept.
DropsRest(bufs, n) == Tail(bufs)
KeepsEmpty(bufs, n) ==
  <<SubSeq(Head(bufs), n + 1, Len(Head(bufs)))>> \o Tail(bufs)

\* write_queue_ after n units of its first buffer have been written: the
\* offset moves on, and a buffer that is used up is removed.
Written(bufs, n) ==
  IF n = Len(Head(bufs)) THEN Tail(bufs)
  ELSE <<SubSeq(Head(bufs), n + 1, Len(Head(bufs)))>> \o Tail(bufs)

\* One write(2) of at most write_bufsiz, short when the send buffer is.
WriteSome ==
  /\ CanWrite
  /\ peer[Sock] \in {"up", "fin"}
  /\ Room(Sock) > 0
  /\ LET buf == Head(wq[Me])
         n == AtMost(AtMost(Len(buf), WriteBuf), Room(Sock))
     IN  /\ sndq' = [sndq EXCEPT ![Sock] = @ \o SubSeq(buf, 1, n)]
         /\ wq' = [wq EXCEPT ![Me] = Written(@, n)]
  /\ UNCHANGED <<fdTable, peerVars, inbox, phase, cur, pending, rq, handlers,
                 isOpen, sigVars, polled>>

\* EAGAIN.  The BIO now wants to write, so that write() ends with a write of
\* nothing, which returns zero, and zero means "closed" to TcpStream::write.
WriteBlocked ==
  /\ CanWrite
  /\ peer[Sock] \in {"up", "fin"}
  /\ Room(Sock) = 0
  /\ isOpen' = [isOpen EXCEPT ![Me] = FALSE]
  /\ EndServing
  /\ UNCHANGED <<sockVars, wq>>

\* ECONNRESET: the stream is marked closed; what it throws goes to on_error.
WriteFault ==
  /\ CanWrite
  /\ peer[Sock] = "rst"
  /\ isOpen' = [isOpen EXCEPT ![Me] = FALSE]
  /\ EndServing
  /\ UNCHANGED <<sockVars, wq>>

\* EPIPE: SIGPIPE, which no program ignores, ends the process.
WriteSigpipe ==
  /\ CanWrite
  /\ peer[Sock] = "pipe"
  /\ Exit("killed")

WriteEnds ==
  /\ phase = "write"
  /\ ~isOpen[Me] \/ wq[Me] = <<>>
  /\ EndServing
  /\ UNCHANGED <<sockVars, isOpen, wq>>

-----------------------------------------------------------------------------
(* remove_closed_handlers: on_close is called for each, and the handler is *)
(* destroyed.  ~File closes its descriptor number if is_open_ is false.    *)

\* Mutant: only what was closed by Poller::close is removed.
ClosedByCaller(f) == Registered(f) /\ Free(f)

Closed(f) == Registered(f) /\ ~isOpen[handlers[f]]

Cleanup ==
  /\ phase = "cleanup"
  /\ handlers' = [f \in Fd |-> IF Closed(f) THEN NoConn ELSE handlers[f]]
  /\ fdTable' = [f \in Fd |-> IF Closed(f) THEN NoConn ELSE fdTable[f]]
  /\ wq' = [c \in Conn |-> IF \E f \in Fd : Closed(f) /\ handlers[f] = c
                           THEN <<>> ELSE wq[c]]
  /\ phase' = "poll"
  /\ UNCHANGED <<peerVars, inbox, sndq, cur, pending, rq, isOpen, sigVars,
                 polled>>

-----------------------------------------------------------------------------

\* The steps of event_loop other than the three that run a callback with an
\* effect: on_open (Accept), on_close (Cleanup) and on_read (OnRead).
QuietStep ==
  \/ EnterPoll
  \/ PollReturns
  \/ PollTimeout
  \/ PollEintr
  \/ NoSignal
  \/ TakeSignal
  \/ OnInterrupt
  \/ AcceptFails
  \/ \E f \in Fd : DispatchRead(f) \/ DispatchWrite(f)
  \/ DispatchDone
  \/ ReadSome
  \/ ReadBlocked
  \/ ReadEnds
  \/ ReadClosed
  \/ Delivered
  \/ WriteSome
  \/ WriteBlocked
  \/ WriteFault
  \/ WriteSigpipe
  \/ WriteEnds

\* The peers and the kernel go on as long as the process runs.
Environment ==
  \/ Running /\ Peers /\ UNCHANGED loopVars
  \/ RaiseSignal

LoopStep ==
  \/ QuietStep
  \/ \E f \in Fd : Accept(f)
  \/ Cleanup
  \/ AnyOnRead

Next == LoopStep \/ Environment

Spec == Init /\ [][Next]_vars

\* The loop is a thread of its own: it takes its next step in the end.
FairSpec == Spec /\ WF_vars(LoopStep)

-----------------------------------------------------------------------------
(* What the loop promises, whatever on_read does.                          *)

\* A descriptor number never goes astray: while a handler is open its number
\* is that of its own connection, and every open descriptor belongs to the
\* handler registered for it, so that none leaks, is closed twice under
\* another connection, or is served by the handler of another (~File and
\* handlers_ both go by the number).
FdOwnership ==
  \A f \in Fd :
    /\ Live(f) => fdTable[f] = handlers[f]
    /\ ~Free(f) => handlers[f] = fdTable[f]

\* An event is handled by the handler that poll reported it for, although
\* callbacks close descriptors and accept reuses them in the same iteration.
NoStaleEvents ==
  \A f \in Fd : pending[f] # {} => Registered(f) /\ handlers[f] = polled[f]

\* When the loop goes to poll, every registered handler is open: nothing
\* closed in this iteration is polled again.
PollsOnlyLive == phase \in Waiting => \A f \in Fd : Registered(f) => Live(f)

RegisteredConn(c) == \E f \in Fd : handlers[f] = c

\* Every connection that is made gets a handler, unless it is reset while it
\* waits or the server ends: what other peers have sent, how they end or fail
\* and what is closed for them keeps accept away only for a while.  That rests
\* on their sending, which comes to an end here: the loop of a read goes on as
\* long as there is something to read, so that a peer that sends without pause
\* does starve the listener.
EveryoneAccepted ==
  \A c \in Conn :
    (\E i \in DOMAIN backlog : backlog[i] = c)
      ~> (RegisteredConn(c) \/ peer[c] = "rst" \/ ~Running)

\* The handler of a peer that is gone is removed and its descriptor freed.
GoneAreRemoved ==
  \A c \in Conn : RegisteredConn(c) /\ peer[c] # "up" ~> ~RegisteredConn(c)

\* on_interrupt runs after every signal, wherever the signal hits the loop:
\* between the test of last_signal_ and poll it is found after the timeout.
SignalsNoted ==
  \A n \in 1 .. MaxSignals : signals >= n ~> (noted >= n \/ ~Running)
=============================================================================
