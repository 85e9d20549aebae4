------------------------------ MODULE Poller09 ------------------------------
(***************************************************************************)
(* The servers of "09 - Class Based Poller with TLS", with TLS.  Its       *)
(* classes are those of example 10 before signals and a timeout of poll:   *)
(* whatever is to happen has to come from an event.  Its two programs      *)
(* share them, and in the chat server records are written to a client in   *)
(* any state of its session, the handshake included.  The steps are those  *)
(* of TlsServer and ChatServer, put together here the way the functions of *)
(* example 09 call each other.                                             *)
(***************************************************************************)
EXTENDS TlsServer, ChatServer

VARIABLE program   \* which program runs: "echo" or "chat"

chatOnly == <<clients, log, joined>>
vars09 == <<allVars, chatOnly, program>>

Init09 == TlsInit /\ ChatInit /\ program \in {"echo", "chat"}

-----------------------------------------------------------------------------
(* Ssl, the calls into OpenSSL and how their results are told apart.       *)

SslDoHandshake ==
  \/ HandshakeRead
  \/ HandshakeWrite
  \/ HandshakeBlocked
  \/ HandshakeFatal
  \/ HandshakeFault
  \/ HandshakeKilled

SslShutdown ==
  \/ ShutdownDone
  \/ ShutdownBlocked
  \/ ShutdownFails
  \/ ShutdownKilled

-----------------------------------------------------------------------------
(* TcpStream: each call first has to go on with a handshake or shutdown.   *)

DoHandshake == state[Me] = "HANDSHAKE" /\ SslDoHandshake

HandleShutdown == state[Me] = "SHUTDOWN" /\ SslShutdown

\* BIO_read_ex of a record, and the ways it comes back without one.
StreamRead ==
  /\ phase = "read"
  /\ \/ DoHandshake
     \/ HandleShutdown
     \/ ReadRecord
     \/ ReadWouldBlock
     \/ ReadBye
     \/ ReadFatal
     \/ ReadFault
     \/ ReadKilled

StreamWrite ==
  /\ phase = "write"
  /\ \/ DoHandshake
     \/ HandleShutdown
     \/ WriteRecord
     \/ WriteWouldBlock
     \/ WriteFails
     \/ WriteKilled

-----------------------------------------------------------------------------
(* The handlers.                                                           *)

\* A callback may have closed the stream before its turn came.
HandlerRead == StreamRead \/ (ReadClosed /\ UNCHANGED tlsVars)

\* Mutant: what comes before the handshake is over is taken off the queue.
HandlerWriteHasty ==
  \/ StreamWrite /\ state[Me] # "HANDSHAKE"
  \/ /\ CanWrite /\ state[Me] = "HANDSHAKE"
     /\ wq' = [wq EXCEPT ![Me] = Tail(@)]
     /\ UNCHANGED <<sockVars, phase, cur, pending, rq, handlers, isOpen,
                    sigVars, polled, tlsVars>>
  \/ WriteEnds /\ UNCHANGED tlsVars

HandlerWrite == StreamWrite \/ (WriteEnds /\ UNCHANGED tlsVars)

\* on_open runs in add_handler.
ListenerRead(f) ==
  /\ IF program = "chat" THEN ChatAccept(f) ELSE Accept(f) /\ UNCHANGED chatOnly
  /\ UNCHANGED tlsVars

ListenerFails == AcceptFails /\ UNCHANGED tlsVars

-----------------------------------------------------------------------------
(* Poller.                                                                 *)

MakePollFds == EnterPoll /\ UNCHANGED tlsVars

\* poll waits for an event, for ever if need be.  The phase "signal" of
\* Poller is here no more than its return.
Poll09 == (PollReturns \/ NoSignal) /\ UNCHANGED tlsVars

HandleEvent ==
  /\ (\E f \in Fd : DispatchRead(f) \/ DispatchWrite(f)) \/ DispatchDone
  /\ UNCHANGED tlsVars

\* handle_read has given all to on_read and goes on to the POLLOUT.
HandleRead == Delivered /\ UNCHANGED tlsVars

\* What the handler throws goes to on_error, and it serves no more events.
HandleWrite == HandlerWrite

EventLoop ==
  \/ MakePollFds
  \/ Poll09
  \/ ListenerFails
  \/ HandleEvent
  \/ HandlerRead
  \/ HandleRead
  \/ HandleWrite

\* on_close, ~TcpStream and ~File.
RemoveClosedHandlers ==
  /\ TlsCleanup
  /\ clients' = IF program = "chat" THEN {f \in clients : ~Closed(f)}
                                    ELSE clients
  /\ UNCHANGED <<log, joined>>

-----------------------------------------------------------------------------
(* The programs.                                                           *)

LoopStep09 ==
  \/ EventLoop /\ UNCHANGED chatOnly
  \/ \E f \in Fd : ListenerRead(f)
  \/ RemoveClosedHandlers

EchoOnRead09 == EchoOnRead /\ UNCHANGED <<tlsVars, chatOnly>>

EchoMain == program = "echo" /\ (LoopStep09 \/ EchoOnRead09)

ChatOnRead09 == ChatOnRead /\ UNCHANGED tlsVars

ChatMain == program = "chat" /\ (LoopStep09 \/ ChatOnRead09)

Step09 == (EchoMain \/ ChatMain) /\ UNCHANGED program

Peers09 == TlsPeers /\ UNCHANGED <<chatOnly, program>>

Next09 == Step09 \/ Peers09

Spec09 == Init09 /\ [][Next09]_vars09

\* The loop runs on, and what a peer is sent is read, by a program or, once
\* that has closed its socket, by its kernel (which may answer with a reset).
FairSpec09 ==
  /\ Spec09
  /\ WF_vars09(Step09)
  /\ \A c \in Conn : WF_vars09(Recv(c) /\ UNCHANGED <<loopVars, tlsVars,
                                                      chatOnly, program>>)

-----------------------------------------------------------------------------

\* The server's part of the handshake comes before anything else it says to
\* a client, and is still owed as far as the handshake has not come.
Opening == <<Flight, Tickets>>

Greeting(c) ==
  CASE ssl[c] \in {"hello", "flight"} -> << <<Flight>>, <<Tickets>> >>
    [] ssl[c] \in {"finished", "tickets"} -> << <<Tickets>> >>
    [] OTHER -> <<>>

RelayedOverTls(c) ==
  Whole(Opening \o Talk!Due(c), received[c] \o sndq[c], Greeting(c) \o wq[c], <<>>)

\* What a client's session carries to it, wherever it waits, is exactly what
\* it is owed: for the echo server what it said, for the chat server what the
\* others said since it was accepted, long before its handshake is over.
Intact09 ==
  IF program = "echo" THEN NoRecordLost
  ELSE \A f \in Fd : Live(f) /\ peer[handlers[f]] \in {"up", "fin"}
                      => RelayedOverTls(handlers[f])

\* c has made no mistake: it leaves only after its close_notify.
Orderly(c) ==
  /\ Junk \notin ToSet(sent[c])
  /\ peer[c] \in {"new", "up"} \/ (peer[c] = "fin" /\ Bye \in ToSet(sent[c]))

\* c has a session, and nobody has done anything but leave in good order.
InTouch(c) ==
  /\ Running /\ \A d \in Conn : Orderly(d)
  /\ peer[c] = "up" /\ RegisteredConn(c) /\ ssl[c] = "ok"
  /\ {Bye, KillMe} \cap ToSet(sent[c]) = {}

\* The data among the records s.
Payload(s) == SelectSeq(s, LAMBDA u : u \in Data)

\* Without a timeout, too, everyone in touch is served in the end: no echo
\* stays behind, and no one misses what was said while he shook hands.
Answered ==
  \A c \in Conn, n \in 1 .. MaxSend :
    LET due == IF program = "echo" THEN Payload(sent[c]) ELSE Talk!Due(c)
    IN  Len(due) >= n ~> Len(Payload(received[c])) >= n \/ ~InTouch(c)
=============================================================================
