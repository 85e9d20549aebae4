----------------------------- MODULE TlsServer -----------------------------
(***************************************************************************)
(* The echo server of example 10 with TLS: its TcpStreams push an SSL BIO  *)
(* on the socket BIO.  A unit is one TLS record; the loop is that of       *)
(* Poller, with the reads and writes of TcpStream's TLS states.  Of        *)
(* OpenSSL 3.0 there is what the code relies on: the handshake, the alerts *)
(* and the error queue, of which the thread has one for all connections.   *)
(* Signals are left to Poller.                                             *)
(***************************************************************************)
EXTENDS EchoServer

CONSTANTS Hello, Finished,   \* the client's part of the handshake
          Flight, Tickets,   \* the server's part
          Bye,               \* the close_notify alert
          Alert,             \* a fatal alert of the server
          Junk               \* a record that the server cannot read

Protocol == {Hello, Finished, Flight, Tickets, Bye, Alert, Junk}
Data == Unit \ Protocol   \* records of application data

ASSUME ProtocolAssumption ==
  /\ Protocol \subseteq Unit
  /\ IsInjective(<<Hello, Finished, Flight, Tickets, Bye, Alert, Junk>>)
  /\ KillMe \in Data

VARIABLES
  state,    \* TcpStream::state_ of each connection's handler
  ssl,      \* how far its SSL object is with the handshake
  stalled,  \* the connections of which a record is pending in the SSL object
  errors    \* OpenSSL's error queue is not empty

tlsVars == <<state, ssl, stalled, errors>>
allVars == <<vars, tlsVars>>

States == {"HANDSHAKE", "DATA", "SHUTDOWN", "STOP"}
Awaiting == {"hello", "finished"}     \* the handshake reads next
Answering == {"flight", "tickets"}    \* the handshake writes next

TlsTypeOK ==
  /\ TypeOK
  /\ state \in [Conn -> States]
  /\ ssl \in [Conn -> Awaiting \cup Answering \cup {"ok", "failed"}]
  /\ stalled \in SUBSET Conn
  /\ errors \in BOOLEAN
  /\ \A c \in Conn : state[c] \in {"SHUTDOWN", "STOP"} => ssl[c] = "ok"
  /\ \A f \in Fd : Live(f) /\ state[handlers[f]] = "DATA" =>
                     ssl[handlers[f]] = "ok"

TlsInit ==
  /\ Init
  /\ state = [c \in Conn |-> "HANDSHAKE"]
  /\ ssl = [c \in Conn |-> "hello"]
  /\ stalled = {}
  /\ errors = FALSE

-----------------------------------------------------------------------------
(* How a call of TcpStream::read or write ends, and what the handler and   *)
(* the loop then do.  Both calls do the handshake and the shutdown first.  *)

InCall(s) ==
  /\ phase = "read" \/ CanWrite
  /\ isOpen[Me]
  /\ state[Me] = s

Back ==
  /\ phase' = IF phase = "read" THEN "deliver" ELSE "dispatch"
  /\ UNCHANGED <<cur, handlers, wq, sigVars, polled>>

\* blocked: the handler is still open.
Blocked ==
  /\ pending' = [pending EXCEPT ![cur] = IF phase = "read" THEN @ \ {"IN"}
                                                           ELSE {}]
  /\ UNCHANGED <<rq, isOpen>>
  /\ Back

\* eof: the socket has been marked closed.
Eof ==
  /\ isOpen' = [isOpen EXCEPT ![Me] = FALSE]
  /\ pending' = [pending EXCEPT ![cur] = {}]
  /\ UNCHANGED rq
  /\ Back

\* An exception: it goes to on_error, and what was read before is dropped.
Throw ==
  /\ isOpen' = [isOpen EXCEPT ![Me] = FALSE]
  /\ pending' = [pending EXCEPT ![cur] = {}]
  /\ rq' = <<>>
  /\ phase' = "dispatch"
  /\ UNCHANGED <<cur, handlers, wq, sigVars, polled>>

Goes == peer[Sock] \in {"up", "fin"}

Emit(u) == sndq' = [sndq EXCEPT ![Sock] = Append(@, u)]

\* The next record is there, and one of U.
Begins(U) == inbox[Sock] # <<>> /\ Head(inbox[Sock]) \in U

Take(u) ==
  /\ Begins({u})
  /\ inbox' = [inbox EXCEPT ![Sock] = Tail(@)]

\* OpenSSL sends an alert only when no record is pending.
CanAlert == Me \notin stalled

\* A record that is not the expected one, or an end without close_notify, is
\* fatal: OpenSSL queues an error, and sends an alert if it can.
Fatal ==
  /\ CanAlert => peer[Sock] # "pipe"
  /\ ssl' = [ssl EXCEPT ![Me] = "failed"]
  /\ errors' = TRUE
  /\ inbox' = [inbox EXCEPT ![Sock] = IF @ = <<>> THEN @ ELSE Tail(@)]
  /\ IF CanAlert /\ Goes /\ Room(Sock) > 0 THEN Emit(Alert)
                                            ELSE UNCHANGED sndq
  /\ UNCHANGED <<fdTable, peerVars, state, stalled>>

Unexpected(U) ==
  ~Begins(U) /\ (inbox[Sock] # <<>> \/ peer[Sock] \in {"fin", "pipe"})

\* SIGPIPE, from an alert or any other write.
Killed == peer[Sock] = "pipe" /\ Exit("killed") /\ UNCHANGED tlsVars

-----------------------------------------------------------------------------
(* HANDSHAKE: SSL_do_handshake, which first empties the error queue.       *)

Wanted == IF ssl[Me] = "hello" THEN Hello ELSE Finished

HandshakeRead ==
  /\ InCall("HANDSHAKE") /\ ssl[Me] \in Awaiting
  /\ Take(Wanted)
  /\ ssl' = [ssl EXCEPT ![Me] = IF @ = "hello" THEN "flight" ELSE "tickets"]
  /\ errors' = FALSE
  /\ UNCHANGED <<fdTable, peerVars, sndq, loopVars, state, stalled>>

\* Mutant: the session is taken for established before its last message.
HandshakeHasty ==
  /\ InCall("HANDSHAKE") /\ ssl[Me] \in Answering
  /\ Goes /\ Room(Sock) > 0
  /\ Emit(IF ssl[Me] = "flight" THEN Flight ELSE Tickets)
  /\ ssl' = [ssl EXCEPT ![Me] = IF @ = "flight" THEN "finished" ELSE "ok"]
  /\ state' = [state EXCEPT ![Me] = "DATA"]
  /\ errors' = FALSE
  /\ UNCHANGED <<fdTable, peerVars, inbox, loopVars, stalled>>

HandshakeWrite ==
  /\ InCall("HANDSHAKE") /\ ssl[Me] \in Answering
  /\ Goes /\ Room(Sock) > 0
  /\ Emit(IF ssl[Me] = "flight" THEN Flight ELSE Tickets)
  /\ ssl' = [ssl EXCEPT ![Me] = IF @ = "flight" THEN "finished" ELSE "ok"]
  /\ state' = [state EXCEPT ![Me] = IF ssl[Me] = "tickets" THEN "DATA" ELSE @]
  /\ errors' = FALSE
  /\ UNCHANGED <<fdTable, peerVars, inbox, loopVars, stalled>>

\* WANT_READ or WANT_WRITE.  The SSL BIO knows of neither: want_write stays
\* false in either case.
HandshakeBlocked ==
  /\ InCall("HANDSHAKE")
  /\ IF ssl[Me] \in Awaiting THEN ~Readable(Sock)
                             ELSE Goes /\ Room(Sock) = 0
  /\ Blocked
  /\ errors' = FALSE
  /\ UNCHANGED <<sockVars, state, ssl, stalled>>

HandshakeFatal ==
  /\ InCall("HANDSHAKE") /\ ssl[Me] \in Awaiting
  /\ Unexpected({Wanted})
  /\ Fatal
  /\ Throw

HandshakeFault ==
  /\ InCall("HANDSHAKE")
  /\ peer[Sock] = "rst" /\ (ssl[Me] \in Awaiting => inbox[Sock] = <<>>)
  /\ Throw
  /\ errors' = FALSE
  /\ UNCHANGED <<sockVars, state, ssl, stalled>>

HandshakeKilled ==
  /\ InCall("HANDSHAKE")
  /\ ssl[Me] \in Awaiting => ~Begins({Wanted})
  /\ Killed

-----------------------------------------------------------------------------
(* DATA: BIO_read_ex and BIO_write_ex on the SSL BIO.                      *)

Reading == phase = "read" /\ InCall("DATA")

ReadRecord ==
  /\ Reading
  /\ \E u \in Data : Take(u) /\ rq' = Append(rq, <<u>>)
  /\ UNCHANGED <<fdTable, peerVars, sndq, phase, cur, pending, regVars,
                 sigVars, polled, tlsVars>>

\* SSL_get_error looks at the error queue first: what it finds there is
\* reported as a fatal error of the call at hand, whosever it is.
Misled == errors

ReadWouldBlock ==
  /\ Reading
  /\ ~Readable(Sock)
  /\ IF Misled THEN Eof ELSE Blocked
  /\ UNCHANGED <<sockVars, tlsVars>>

\* close_notify: ZERO_RETURN starts the shutdown.
ReadBye ==
  /\ Reading
  /\ Take(Bye)
  /\ \/ /\ ~Misled
        /\ state' = [state EXCEPT ![Me] = "SHUTDOWN"]
        /\ UNCHANGED loopVars
     \/ Misled /\ Eof /\ UNCHANGED state
  /\ UNCHANGED <<fdTable, peerVars, sndq, ssl, stalled, errors>>

ReadFatal == Reading /\ Unexpected(Data \cup {Bye}) /\ Fatal /\ Eof

ReadFault ==
  /\ Reading
  /\ inbox[Sock] = <<>> /\ peer[Sock] = "rst"
  /\ Eof
  /\ UNCHANGED <<sockVars, tlsVars>>

ReadKilled == Reading /\ CanAlert /\ ~Begins(Data \cup {Bye}) /\ Killed

Sending == CanWrite /\ InCall("DATA")

\* One SSL_write makes one record of all that it is given, or goes on with the
\* one that is pending.
WriteRecord ==
  /\ Sending
  /\ Goes /\ Room(Sock) > 0
  /\ Emit(Head(Head(wq[Me])))
  /\ wq' = [wq EXCEPT ![Me] = Tail(@)]
  /\ stalled' = stalled \ {Me}
  /\ UNCHANGED <<fdTable, peerVars, inbox, phase, cur, pending, rq, handlers,
                 isOpen, sigVars, polled, state, ssl, errors>>

\* Mutant: a record is given up when it cannot be written.
WriteDropsRecord ==
  /\ Sending
  /\ Goes /\ Room(Sock) = 0
  /\ wq' = [wq EXCEPT ![Me] = Tail(@)]
  /\ EndServing
  /\ UNCHANGED <<sockVars, isOpen, tlsVars>>

\* WANT_WRITE, which leaves the record pending, and then a write of nothing,
\* since the BIO wants to write.
\* BIO_write_ex succeeds without setting the count, which is what happens to
\* be there: zero closes the stream.
WriteWouldBlock ==
  /\ Sending
  /\ Goes /\ Room(Sock) = 0
  /\ \/ Misled /\ Throw
     \/ ~Misled /\ (Blocked \/ Eof)
  /\ stalled' = stalled \cup {Me}
  /\ UNCHANGED <<sockVars, state, ssl, errors>>

WriteFails ==
  /\ Sending
  /\ peer[Sock] = "rst"
  /\ Throw
  /\ UNCHANGED <<sockVars, tlsVars>>

WriteKilled == Sending /\ Killed

-----------------------------------------------------------------------------
(* SHUTDOWN: SSL_shutdown answers the peer's close_notify.                 *)

\* Mutants: the socket stays open after the shutdown; the answer is sent, and
\* the stream goes on.
ShutdownKeepsOpen ==
  /\ InCall("SHUTDOWN")
  /\ CanAlert /\ Goes /\ Room(Sock) > 0
  /\ Emit(Bye)
  /\ state' = [state EXCEPT ![Me] = "STOP"]
  /\ Blocked
  /\ UNCHANGED <<fdTable, peerVars, inbox, ssl, stalled, errors>>

ShutdownGoesOn ==
  /\ InCall("SHUTDOWN")
  /\ CanAlert /\ Goes /\ Room(Sock) > 0
  /\ Emit(Bye)
  /\ state' = [state EXCEPT ![Me] = "DATA"]
  /\ Blocked
  /\ UNCHANGED <<fdTable, peerVars, inbox, ssl, stalled, errors>>

ShutdownDone ==
  /\ InCall("SHUTDOWN")
  /\ CanAlert /\ Goes /\ Room(Sock) > 0
  /\ Emit(Bye)
  /\ state' = [state EXCEPT ![Me] = "STOP"]
  /\ Eof
  /\ UNCHANGED <<fdTable, peerVars, inbox, ssl, stalled, errors>>

\* WANT_WRITE: it is tried again on the next event, but poll is not asked for
\* POLLOUT unless write_queue_ has something.
ShutdownBlocked ==
  /\ InCall("SHUTDOWN")
  /\ CanAlert /\ Goes /\ Room(Sock) = 0
  /\ IF Misled THEN Throw ELSE Blocked
  /\ UNCHANGED <<sockVars, tlsVars>>

\* A reset; or a record that is pending, with which SSL_shutdown does nothing
\* and reports ZERO_RETURN.
ShutdownFails ==
  /\ InCall("SHUTDOWN")
  /\ ~CanAlert \/ peer[Sock] = "rst"
  /\ Throw
  /\ UNCHANGED <<sockVars, tlsVars>>

ShutdownKilled == InCall("SHUTDOWN") /\ CanAlert /\ Killed

\* Destroying a stream calls SSL_shutdown, whose alert goes nowhere as the
\* socket is closed by then, and which queues an error if the handshake was
\* not completed, or if it is the second SSL_shutdown with a record pending.
QueuesError(c) == ssl[c] # "ok" \/ (state[c] = "SHUTDOWN" /\ c \in stalled)

TlsCleanup ==
  /\ Cleanup
  /\ errors' = (errors \/ \E f \in Fd : Closed(f) /\ QueuesError(handlers[f]))
  /\ UNCHANGED <<state, ssl, stalled>>

-----------------------------------------------------------------------------

StreamStep ==
  \/ HandshakeRead
  \/ HandshakeWrite
  \/ HandshakeBlocked
  \/ HandshakeFatal
  \/ HandshakeFault
  \/ HandshakeKilled
  \/ ReadRecord
  \/ ReadWouldBlock
  \/ ReadBye
  \/ ReadFatal
  \/ ReadFault
  \/ ReadKilled
  \/ WriteRecord
  \/ WriteWouldBlock
  \/ WriteFails
  \/ WriteKilled
  \/ ShutdownDone
  \/ ShutdownBlocked
  \/ ShutdownFails
  \/ ShutdownKilled

\* The steps of the loop that do not call TcpStream.
OtherStep ==
  \/ EnterPoll
  \/ PollReturns
  \/ PollTimeout
  \/ AcceptFails
  \/ \E f \in Fd : Accept(f) \/ DispatchRead(f) \/ DispatchWrite(f)
  \/ NoSignal
  \/ DispatchDone
  \/ ReadClosed
  \/ Delivered
  \/ WriteEnds
  \/ EchoOnRead

TlsStep == StreamStep \/ TlsCleanup \/ (OtherStep /\ UNCHANGED tlsVars)

\* A client sends its Finished after the server's flight, and nothing after
\* its close_notify.
IsTlsClient ==
  \A c \in Conn : sent'[c] # sent[c] =>
    /\ Bye \notin ToSet(sent[c])
    /\ Last(sent'[c]) = Finished => Flight \in ToSet(received[c])

TlsPeers == Running /\ Peers /\ IsTlsClient /\ UNCHANGED <<loopVars, tlsVars>>

TlsNext == TlsStep \/ TlsPeers

TlsSpec == TlsInit /\ [][TlsNext]_allVars

-----------------------------------------------------------------------------

\* The record the server has for a record u of its client: its own part of
\* the handshake for the client's, and anything else again.
ReplyTo(u) ==
  IF u = Hello THEN Flight ELSE IF u = Finished THEN Tickets ELSE u

Replies(s) == [i \in DOMAIN s |-> ReplyTo(s[i])]

\* What the handshake or the shutdown has still to send.
Due(c) ==
  IF ssl[c] = "flight" THEN << <<Flight>> >>
  ELSE IF ssl[c] = "tickets" THEN << <<Tickets>> >>
  ELSE IF state[c] = "SHUTDOWN" THEN << <<Bye>> >>
  ELSE <<>>

RepliesOnTheirWay(c) ==
  Whole(Replies(sent[c]), received[c] \o sndq[c],
        (wq[c] \o Chunks(c)) \o Due(c), Replies(inbox[c]))

\* While its handler is open, every record a client has sent is answered or
\* in exactly one place on its way round, in order, through the handshake,
\* the retries and a shutdown that waits; one that fails for a record that is
\* pending closes the handler.
NoRecordLost ==
  \A f \in Fd : Live(f) /\ peer[handlers[f]] \in {"up", "fin"}
                  => RepliesOnTheirWay(handlers[f])

\* The order of a session, over calls of read and write made in any state:
\* the server's flight comes first and once, then its tickets, and then data
\* and a close_notify that answers the client's.  Nothing follows that, nor a
\* fatal alert.
Polite ==
  \A c \in Conn :
    LET out == received[c] \o sndq[c]
    IN  \A i \in DOMAIN out :
          /\ out[i] = Flight => i = 1
          /\ out[i] = Tickets => i = 2 /\ out[1] = Flight
          /\ out[i] \in Data \cup {Bye} => i > 2 /\ out[2] = Tickets
          /\ out[i] \in {Bye, Alert} => i = Len(out)
          /\ out[i] = Bye => Bye \in ToSet(sent[c])

\* tcp_stream.hpp:215, "The socket has faulted.": a stream is closed for a
\* fault, or at the wish, of its own peer.
FaultIsItsOwn ==
  \A c \in Conn : RegisteredConn(c) /\ ~isOpen[c] =>
    peer[c] # "up" \/ {Junk, Bye, KillMe} \cap ToSet(sent[c]) # {}
=============================================================================
