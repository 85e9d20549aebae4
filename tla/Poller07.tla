------------------------------ MODULE Poller07 ------------------------------
(***************************************************************************)
(* The servers of "07 - Class Based Poller": the Poller without signals,   *)
(* timeout or Poller::close, over a TcpStream that calls read and write    *)
(* itself.  Two things differ from example 10.  A blocked write leaves the *)
(* stream open; and TcpStream throws out of the handler's noexcept read    *)
(* and write, so that a fault of one connection never gets to on_error but *)
(* terminates the process.  One of the two programs runs.  The phase       *)
(* "signal" of Poller is here no more than the return of poll.             *)
(***************************************************************************)
EXTENDS ChatServer, EchoServer

VARIABLE program   \* which program runs: "echo" or "chat"

vars07 == <<chatVars, program>>

Init07 == ChatInit /\ program \in {"echo", "chat"}

-----------------------------------------------------------------------------
(* event_loop, and the listener's handler.                                 *)

Poll07 == EnterPoll \/ PollReturns \/ NoSignal

\* add_handler calls on_open, of which only the chat server makes use.
OnOpen(f) ==
  IF program = "chat" THEN ChatAccept(f)
                      ELSE Accept(f) /\ UNCHANGED <<clients, log, joined>>

\* accept throws inside TcpListenerPollHandler::read, which is noexcept.
AcceptTerminates == IsNext(ListenFd) /\ CannotAccept /\ Exit("killed")

HandleEvent ==
  \/ \E f \in Fd : DispatchRead(f) \/ DispatchWrite(f)
  \/ DispatchDone

OnClose ==
  IF program = "chat" THEN ChatCleanup
                      ELSE Cleanup /\ UNCHANGED <<clients, log, joined>>

\* No word of a client's closes its connection here.
EchoOnRead07 == OnRead({cur}, {}) /\ UNCHANGED <<clients, log, joined>>

OnRead07 == IF program = "chat" THEN ChatOnRead ELSE EchoOnRead07

-----------------------------------------------------------------------------
(* TcpStream, called from the loops of TcpSocketPollHandler.               *)

\* Mutant: the end of the stream is thrown, too.
EofThrows ==
  phase = "read" /\ AtEnd(Sock) /\ peer[Sock] # "rst" /\ Exit("killed")

\* read(2) returns zero: the peer's FIN came, if a reset did not come first.
ReadEof == ReadEnds /\ peer[Sock] # "rst"

\* Mutant: a fault of read counts as the end of the stream.
ReadFaultCloses == ReadEnds /\ peer[Sock] = "rst"

\* ECONNRESET is thrown out of TcpSocketPollHandler::read.
ReadThrows ==
  /\ phase = "read"
  /\ inbox[Sock] = <<>> /\ peer[Sock] = "rst"
  /\ Exit("killed")

\* No callback closes a handler, so that read always finds it open.
HandlerRead == ReadSome \/ ReadBlocked \/ ReadEof \/ ReadThrows

\* Mutant: as in example 10, a blocked write closes the stream.
BlockedCloses == WriteBlocked

\* EAGAIN: the rest waits in write_queue_ for the next POLLOUT.
StaysOpen ==
  /\ CanWrite
  /\ peer[Sock] \in {"up", "fin"}
  /\ Room(Sock) = 0
  /\ EndServing
  /\ UNCHANGED <<sockVars, isOpen, wq>>

\* ECONNRESET is thrown out of the noexcept write(); EPIPE raises SIGPIPE.
WriteThrows ==
  /\ CanWrite
  /\ peer[Sock] \in {"rst", "pipe"}
  /\ Exit("killed")

HandlerWrite == WriteSome \/ StaysOpen \/ WriteThrows \/ WriteEnds

-----------------------------------------------------------------------------

Quiet07 ==
  \/ Poll07
  \/ AcceptTerminates
  \/ HandleEvent
  \/ HandlerRead
  \/ Delivered
  \/ HandlerWrite

Step07 ==
  /\ \/ Quiet07 /\ UNCHANGED <<clients, log, joined>>
     \/ \E f \in Fd : OnOpen(f)
     \/ OnClose
     \/ OnRead07
  /\ UNCHANGED program

Peers07 ==
  /\ Running /\ Peers
  /\ UNCHANGED <<loopVars, clients, log, joined, program>>

Next07 == Step07 \/ Peers07

Spec07 == Init07 /\ [][Next07]_vars07

\* The loop runs on, and a peer that is up reads what it is sent.
FairSpec07 ==
  /\ Spec07
  /\ WF_vars07(Step07)
  /\ \A c \in Conn :
       WF_vars07(/\ peer[c] = "up" /\ Recv(c)
                 /\ UNCHANGED <<loopVars, clients, log, joined, program>>)

-----------------------------------------------------------------------------

\* Neither program loses, repeats or reorders anything on its way to or from
\* an open handler, however small the send buffer.
Intact07 == IF program = "echo" THEN NothingLost ELSE RelayedInOrder

\* The process ends for nothing but a reset, which includes that of a queued
\* connection, or for want of descriptors: an end of file never ends it.
EndsForAReason ==
  ~Running => \/ \E c \in Conn : peer[c] \in {"rst", "pipe"}
              \/ Cardinality({c \in Conn : peer[c] # "new"}) > Cardinality(Fd)

\* One reset ends the server for everyone: handle_read catches what read
\* throws, but noexcept comes first.
ResetEndsServer ==
  \A c \in Conn : RegisteredConn(c) /\ peer[c] = "rst" ~> ~Running

Mine(p, x) == [c \in Conn |-> IF program = p THEN x[c] ELSE <<>>]

\* As long as nobody resets, each program keeps its promise to those that
\* stay, and now to the slow ones too.
Echo07 ==
  INSTANCE EchoService WITH
    Client <- Conn, Item <- Unit,
    sent <- Mine("echo", sent), received <- Mine("echo", received),
    served <- {c \in Conn : Running /\ peer[c] \in {"new", "up"}}

Chat07 ==
  INSTANCE ChatService WITH
    Client <- Conn, Item <- Unit, heard <- Mine("chat", received),
    present <- {c \in Conn : /\ Running /\ program = "chat" /\ peer[c] = "up"
                             /\ RegisteredConn(c)}

Serves07 == Echo07!ServiceSpec /\ Chat07!ServiceSpec
=============================================================================
