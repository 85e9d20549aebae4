---------------------------- MODULE ClassServer ----------------------------
(***************************************************************************)
(* The echo server of "03 - Using Classes": tcp_listener, ClientState and  *)
(* the loop of main, which polls without a timeout and keeps the state of  *)
(* each client in a map by descriptor.                                     *)
(***************************************************************************)
EXTENDS Sockets, SequencesExt

CONSTANTS
  ListenFd,   \* the descriptor of the listener
  ReadBuf,    \* read_bufsiz_, in units
  WriteBuf    \* write_bufsiz_, in units

ASSUME ClassListenFdAssumption == ListenFd \in Nat /\ \A f \in Fd : ListenFd < f
ASSUME ClassBufsizAssumption == ReadBuf \in Nat \ {0} /\ WriteBuf \in Nat \ {0}

VARIABLES
  phase,       \* where the loop of main is
  cur,         \* the descriptor whose revents are being handled
  revents,     \* the events poll returned and the loop has not handled yet
  clients,     \* client_fds: the connection of each descriptor's ClientState
  rq,          \* read_queue_ of the client that is read
  wq           \* write_queue_ of each client: buffers with their offsets

loopVars == <<phase, cur, revents, clients, rq, wq>>
vars == <<sockVars, loopVars>>
peerVars == <<backlog, peer, sent, received>>

AllFd == Fd \cup {ListenFd}
Buf == Seq(Unit) \ {<<>>}

\* A buffer of write_queue_, of which offset units have been written.
Pending == {buf \in [data : Buf, offset : Nat] : buf.offset < Len(buf.data)}

Ended == {"stopped", "killed"}
Running == phase \notin Ended
NoEvents == [f \in AllFd |-> {}]

ClassTypeOK ==
  /\ SocketsTypeOK
  /\ phase \in {"poll", "dispatch", "read", "write"} \cup Ended
  /\ cur \in AllFd
  /\ revents \in [AllFd -> SUBSET {"IN", "OUT"}]
  /\ clients \in [Fd -> Conn \cup {NoConn}]
  /\ rq \in Seq(Buf)
  /\ wq \in [Conn -> Seq(Pending)]

Init ==
  /\ SocketsInit
  /\ phase = "poll"
  /\ cur = ListenFd
  /\ revents = NoEvents
  /\ clients = [f \in Fd |-> NoConn]
  /\ rq = <<>>
  /\ wq = [c \in Conn |-> <<>>]

\* The process ends: the kernel closes all that it had open.
Exit(how) ==
  /\ phase' = how
  /\ cur' = ListenFd
  /\ revents' = NoEvents
  /\ clients' = [f \in Fd |-> NoConn]
  /\ rq' = <<>>
  /\ wq' = [c \in Conn |-> <<>>]
  /\ fdTable' = [f \in Fd |-> NoConn]
  /\ UNCHANGED <<peerVars, inbox, sndq>>

\* O_NONBLOCK after set_flag<O_NONBLOCK>(fd, isSet): the flag is set when
\* isSet is false.  The listener passes true, the clients false.
NonBlocking(isSet) == ~isSet

-----------------------------------------------------------------------------
(* poll, and the order of the events.                                      *)

CanWrite(f) == clients[f] # NoConn /\ wq[clients[f]] # <<>>

Ready(f) ==
  IF f = ListenFd
  THEN {e \in {"IN"} : backlog # <<>>}
  ELSE {e \in {"IN", "OUT"} :
          /\ clients[f] # NoConn
          /\ e = "IN" => Readable(fdTable[f])
          /\ e = "OUT" => CanWrite(f) /\ Writable(fdTable[f])}

PollReturns ==
  /\ phase = "poll"
  /\ \E f \in AllFd : Ready(f) # {}
  /\ revents' = [f \in AllFd |-> Ready(f)]
  /\ phase' = "dispatch"
  /\ UNCHANGED <<sockVars, cur, clients, rq, wq>>

\* fds: the listener, then the clients in the order of the map.
IsNext(f) ==
  /\ phase = "dispatch"
  /\ revents[f] # {}
  /\ \A g \in AllFd : revents[g] # {} => f <= g

\* ~NonBlocking(TRUE), so the listener is blocking: while the backlog is
\* empty, as after an abort, accept does not return and nobody is served.
Accept(f) ==
  /\ IsNext(ListenFd)
  /\ backlog # <<>>
  /\ LowestFree(f)
  /\ backlog' = Tail(backlog)
  /\ fdTable' = [fdTable EXCEPT ![f] = Head(backlog)]
  /\ clients' = [clients EXCEPT ![f] = Head(backlog)]
  /\ revents' = [revents EXCEPT ![ListenFd] = {}]
  /\ UNCHANGED <<peer, inbox, sndq, sent, received, phase, cur, rq, wq>>

\* No descriptor is left; what accept throws ends main.
AcceptFails ==
  /\ IsNext(ListenFd)
  /\ \A f \in Fd : ~Free(f)
  /\ Exit("stopped")

Serve(f) ==
  /\ IsNext(f)
  /\ f \in Fd
  /\ cur' = f
  /\ phase' = IF "IN" \in revents[f] THEN "read" ELSE "write"
  /\ UNCHANGED <<sockVars, revents, clients, rq, wq>>

DispatchDone ==
  /\ phase = "dispatch"
  /\ revents = NoEvents
  /\ phase' = "poll"
  /\ UNCHANGED <<sockVars, cur, revents, clients, rq, wq>>

-----------------------------------------------------------------------------
(* ClientState, and what main does with it.                                *)

Me == clients[cur]
Sock == fdTable[cur]

ReadSome ==
  /\ phase = "read"
  /\ inbox[Sock] # <<>>
  /\ LET n == AtMost(ReadBuf, Len(inbox[Sock]))
     IN  /\ rq' = Append(rq, SubSeq(inbox[Sock], 1, n))
         /\ inbox' = [inbox EXCEPT ![Sock] = SubSeq(@, n + 1, Len(@))]
  /\ UNCHANGED <<fdTable, peerVars, sndq, phase, cur, revents, clients, wq>>

\* enqueue_reads is over and the client open: main enqueues what was read.
ReadBlocked ==
  /\ phase = "read"
  /\ NonBlocking(FALSE) /\ ~Readable(Sock)
  /\ rq' = <<>>
  /\ wq' = [wq EXCEPT ![Me] = @ \o [i \in DOMAIN rq |->
                                      [data |-> rq[i], offset |-> 0]]]
  /\ revents' = [revents EXCEPT ![cur] = @ \ {"IN"}]
  /\ phase' = IF "OUT" \in revents[cur] THEN "write" ELSE "dispatch"
  /\ UNCHANGED <<sockVars, cur, clients>>

\* Mutant: without its continue, a client that was erased is written to.
EraseClientOnly ==
  /\ clients' = [clients EXCEPT ![cur] = NoConn]
  /\ rq' = <<>>
  /\ wq' = [wq EXCEPT ![Me] = <<>>]
  /\ revents' = [revents EXCEPT ![cur] = @ \ {"IN"}]
  /\ phase' = "dispatch"
  /\ UNCHANGED <<sockVars, cur>>

\* The client's state goes, with all that was read and not written.  Nothing
\* closes its descriptor.
EraseClient ==
  /\ clients' = [clients EXCEPT ![cur] = NoConn]
  /\ rq' = <<>>
  /\ wq' = [wq EXCEPT ![Me] = <<>>]
  /\ revents' = [revents EXCEPT ![cur] = {}]
  /\ phase' = "dispatch"
  /\ UNCHANGED <<sockVars, cur>>

\* End of file, or a fault.
ReadEnds ==
  /\ phase = "read"
  /\ inbox[Sock] = <<>> /\ peer[Sock] # "up"
  /\ EraseClient

Writing == phase = "write" /\ wq[Me] # <<>>

\* Mutants: a short write is taken for a complete one; a buffer that has been
\* used up stays.
UsedUp(bufs, n) == Tail(bufs)
KeepsUsedUp(bufs, n) ==
  <<[Head(bufs) EXCEPT !.offset = @ + n]>> \o Tail(bufs)

\* write_queue_ after write has returned n for its first buffer.
Written(bufs, n) ==
  LET buf == Head(bufs)
  IN  IF buf.offset + n = Len(buf.data) THEN Tail(bufs)
      ELSE <<[buf EXCEPT !.offset = @ + n]>> \o Tail(bufs)

\* The count allows for the offset, but the data starts at the beginning of
\* the buffer each time.
WriteSome ==
  /\ Writing
  /\ peer[Sock] \in {"up", "fin"}
  /\ Room(Sock) > 0
  /\ LET buf == Head(wq[Me])
         n == AtMost(AtMost(Len(buf.data) - buf.offset, WriteBuf), Room(Sock))
     IN  /\ sndq' = [sndq EXCEPT ![Sock] = @ \o SubSeq(buf.data, 1, n)]
         /\ wq' = [wq EXCEPT ![Me] = Written(@, n)]
  /\ UNCHANGED <<fdTable, peerVars, inbox, phase, cur, revents, clients, rq>>

\* EAGAIN, or nothing is left to write.
WriteEnds ==
  /\ phase = "write"
  /\ wq[Me] # <<>> => peer[Sock] \in {"up", "fin"} /\ Room(Sock) = 0
  /\ revents' = [revents EXCEPT ![cur] = {}]
  /\ phase' = "dispatch"
  /\ UNCHANGED <<sockVars, cur, clients, rq, wq>>

WriteFault == Writing /\ peer[Sock] = "rst" /\ EraseClient

\* EPIPE: SIGPIPE, which main does not ignore, ends the process.
WriteSigpipe == Writing /\ peer[Sock] = "pipe" /\ Exit("killed")

-----------------------------------------------------------------------------

MainStep ==
  \/ PollReturns
  \/ \E f \in Fd : Accept(f)
  \/ AcceptFails
  \/ \E f \in Fd : Serve(f)
  \/ DispatchDone
  \/ ReadSome
  \/ ReadBlocked
  \/ ReadEnds
  \/ WriteSome
  \/ WriteEnds
  \/ WriteFault
  \/ WriteSigpipe

Next == MainStep \/ (Running /\ Peers /\ UNCHANGED loopVars)

Spec == Init /\ [][Next]_vars

\* main runs on, and a peer that is up reads what it is sent.
FairSpec ==
  /\ Spec
  /\ WF_vars(MainStep)
  /\ \A c \in Conn : WF_vars(peer[c] = "up" /\ Recv(c) /\ UNCHANGED loopVars)

-----------------------------------------------------------------------------

\* An event is handled with the state of the connection it was polled for:
\* client_fds[fd] never makes a new ClientState, whose descriptor would be
\* uninitialized, and never finds that of another connection.
EventsHaveClients ==
  \A f \in Fd :
    /\ revents[f] # {} => clients[f] # NoConn
    /\ clients[f] # NoConn => clients[f] = fdTable[f]

\* What is still to be written of the buffers.
Left(bufs) == FlattenSeq([i \in DOMAIN bufs |->
                SubSeq(bufs[i].data, bufs[i].offset + 1, Len(bufs[i].data))])

Served(c) == \E f \in Fd : clients[f] = c

InHand(c) == IF phase = "read" /\ Me = c THEN FlattenSeq(rq) ELSE <<>>

\* README.md:3, "Echo server using classes.": while a client is served,
\* what it got and what is on its way is what it sent, unit for unit.
EchoIntact ==
  \A c \in Conn : Served(c) /\ peer[c] \in {"up", "fin"} =>
    received[c] \o sndq[c] \o Left(wq[c]) \o InHand(c) \o inbox[c] = sent[c]

\* Each unit counts for one, whatever it says: the server implements the
\* echo service up to the contents of what it sends, for the peers that stay
\* and as long as the process runs.
Service ==
  INSTANCE EchoService WITH
    Client <- Conn, Item <- {"unit"},
    sent <- [c \in Conn |-> [i \in DOMAIN sent[c] |-> "unit"]],
    received <- [c \in Conn |-> [i \in DOMAIN received[c] |-> "unit"]],
    served <- {c \in Conn : Running /\ peer[c] \in {"new", "up"}}

ServesEchoCounts == Service!ServiceSpec
=============================================================================
