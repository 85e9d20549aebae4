---------------------------- MODULE FirstServers ----------------------------
(***************************************************************************)
(* The servers of examples 01, 02, 04, 05 and 06, each a main of its own,  *)
(* with their clients.  All but 02 block: 01, 05 and 06 serve one client   *)
(* and end with it, 04 serves one after the other, and 02 polls.  A unit   *)
(* is a message that fits the buffer with its final NUL; with TLS (04 and  *)
(* 06) it is a record.  The clients of the examples send a message only    *)
(* after the answer to the last one; others may send ahead.                *)
(***************************************************************************)
EXTENDS Sockets, SequencesExt

CONSTANTS
  ListenFd,   \* the descriptor of the listening socket
  ReadBuf,    \* the size of buf, in units
  Kill,       \* the message that ends 04 and 06: "kill\n", "KILL"
  LockStep,   \* the connections made by the client programs
  Plain,      \* the connections made by clients that do not speak TLS
  Urgent      \* the connections on which urgent data may be sent

ASSUME FirstAssumption ==
  /\ ListenFd \in Nat /\ \A f \in Fd : ListenFd < f
  /\ ReadBuf \in Nat \ {0} /\ Kill \in Unit
  /\ LockStep \subseteq Conn /\ Plain \subseteq Conn /\ Urgent \subseteq Conn

VARIABLES
  example,   \* the program that runs
  phase,     \* where it is
  cur,       \* the descriptor it serves
  buf,       \* what the last read returned
  clients,   \* 02: client_fds
  pending,   \* 02: the descriptors that poll returned and main has not handled
  unhandled, \* those of pending whose events are without POLLIN
  urgent,    \* the connections with urgent data that was not read past
  accepted   \* history: the connections that accept has returned

progVars == <<example, phase, cur, buf, clients, pending, unhandled>>
allVars == <<progVars, urgent, accepted>>
vars == <<sockVars, allVars>>

pollVars == <<clients, pending, unhandled>>

Examples == {"01", "02", "04", "05", "06"}
Tls == {"04", "06"}
AllFd == Fd \cup {ListenFd}
Running == phase \notin {"stopped", "killed"}

FirstTypeOK ==
  /\ SocketsTypeOK
  /\ example \in Examples
  /\ phase \in {"setup", "accept", "handshake", "read", "poll", "dispatch",
                "write", "stopped", "killed"}
  /\ cur \in AllFd
  /\ buf \in Seq(Unit) /\ Len(buf) <= ReadBuf
  /\ clients \in SUBSET Fd
  /\ pending \in SUBSET AllFd /\ unhandled \in SUBSET Fd
  /\ urgent \in SUBSET Conn /\ accepted \in SUBSET Conn

Init ==
  /\ SocketsInit
  /\ example \in Examples
  /\ phase = "setup"
  /\ cur = ListenFd
  /\ buf = <<>>
  /\ clients = {} /\ pending = {} /\ unhandled = {}
  /\ urgent = {} /\ accepted = {}

Exit(how) ==
  /\ phase' = how
  /\ cur' = ListenFd
  /\ buf' = <<>>
  /\ clients' = {} /\ pending' = {} /\ unhandled' = {}
  /\ fdTable' = [f \in Fd |-> NoConn]
  /\ UNCHANGED <<backlog, peer, inbox, sndq, sent, received, example, urgent,
                 accepted>>

-----------------------------------------------------------------------------
(* socket, bind, listen, and the keys of the servers with TLS.             *)

Listen ==
  /\ phase = "setup"
  /\ phase' = IF example = "02" THEN "poll" ELSE "accept"
  /\ UNCHANGED <<sockVars, example, cur, buf, pollVars, urgent, accepted>>

SetupFails == phase = "setup" /\ Exit("stopped")

Take(f) ==
  /\ backlog # <<>> /\ LowestFree(f)
  /\ backlog' = Tail(backlog)
  /\ fdTable' = [fdTable EXCEPT ![f] = Head(backlog)]
  /\ accepted' = accepted \cup {Head(backlog)}
  /\ UNCHANGED <<peer, inbox, sndq, sent, received, urgent>>

\* accept blocks until somebody is there.
AcceptOne(f) ==
  /\ phase = "accept"
  /\ Take(f)
  /\ cur' = f
  /\ phase' = IF example \in Tls THEN "handshake" ELSE "read"
  /\ UNCHANGED <<example, buf, pollVars>>

-----------------------------------------------------------------------------
(* SSL_accept and BIO_do_handshake.                                        *)

Sock == fdTable[cur]

HandshakeDone ==
  /\ phase = "handshake"
  /\ Sock \notin Plain /\ peer[Sock] \in {"up", "fin"}
  /\ phase' = "read"
  /\ UNCHANGED <<sockVars, example, cur, buf, pollVars, urgent, accepted>>

\* Both servers end with the handshake that fails, 04 by server_running.
HandshakeFails ==
  /\ phase = "handshake"
  /\ \/ Sock \in Plain /\ Readable(Sock)
     \/ Sock \notin Plain /\ peer[Sock] # "up"
  /\ Exit("stopped")

-----------------------------------------------------------------------------
(* read, BIO_read_ex and SSL_read.                                         *)

\* Mutant: the size given to read is not that of buf.
ReadsAll(c) == Len(inbox[c])

\* How many units a read returns: a record, or what is there.
ReadLen(c) == IF example \in Tls THEN 1 ELSE AtMost(ReadBuf, Len(inbox[c]))

ReadInto(c) ==
  /\ inbox[c] # <<>>
  /\ buf' = SubSeq(inbox[c], 1, ReadLen(c))
  /\ inbox' = [inbox EXCEPT ![c] = SubSeq(@, ReadLen(c) + 1, Len(@))]
  /\ urgent' = urgent \ {c}
  /\ phase' = "write"
  /\ UNCHANGED <<fdTable, backlog, peer, sndq, sent, received, example, clients,
                 unhandled, accepted>>

ReadMessage == phase = "read" /\ ReadInto(Sock) /\ UNCHANGED <<cur, pending>>

Ends(c) == inbox[c] = <<>> /\ peer[c] # "up"

\* Mutants: one client is enough; the loop goes on although nothing was read.
OnlyClient == Exit("stopped")
ReadsOn == UNCHANGED vars

\* Example 04 closes the socket and waits for the next client.
NextClient ==
  /\ fdTable' = [fdTable EXCEPT ![cur] = NoConn]
  /\ phase' = "accept"
  /\ cur' = ListenFd
  /\ UNCHANGED <<backlog, peer, inbox, sndq, sent, received, example, buf,
                 pollVars, urgent, accepted>>

\* Example 04 goes on with the next client, and the others end.
ClientGone == phase = "read" /\ Ends(Sock) /\ NextClient

ReadEnds == phase = "read" /\ Ends(Sock) /\ Exit("stopped")

\* The shutdown that 06 sends to a client that has reset may raise SIGPIPE.
ShutdownKills ==
  /\ phase = "read" /\ Ends(Sock)
  /\ peer[Sock] \in {"rst", "pipe"}
  /\ Exit("killed")

-----------------------------------------------------------------------------
(* What is done with the message.                                          *)

IsKill == buf = <<Kill>> /\ example \in Tls

Killed == phase = "write" /\ IsKill /\ Exit("stopped")

\* Mutant: the descriptor that accept returned last is written to.
Newest == IF clients = {} THEN cur
          ELSE CHOOSE f \in clients : \A g \in clients : g <= f

Target == cur

\* Mutant: the next client is taken after each message.
OneMessage == IF example = "02" THEN "dispatch" ELSE "accept"

Turn == IF example = "02" THEN "dispatch" ELSE "read"

Written ==
  /\ phase' = Turn
  /\ buf' = <<>>
  /\ UNCHANGED <<fdTable, backlog, inbox, sent, received, example, cur,
                 pollVars, urgent, accepted>>

\* strlen(buf) + 1 bytes: of several messages only the first is echoed.
Echo ==
  /\ phase = "write" /\ ~IsKill
  /\ LET c == fdTable[Target]
     IN  /\ peer[c] \in {"up", "fin"} /\ Room(c) > 0
         /\ sndq' = [sndq EXCEPT ![c] = Append(@, Head(buf))]
  /\ UNCHANGED peer
  /\ Written

\* The result of write is only logged.  02 does not wait for room, and 04
\* ignores SIGPIPE.  The first write after a reset only fails, the second one
\* raises SIGPIPE.
EchoIsLost ==
  /\ phase = "write" /\ ~IsKill
  /\ \/ peer[Sock] \in {"up", "fin"} /\ Room(Sock) = 0 /\ example = "02"
     \/ peer[Sock] = "rst"
     \/ peer[Sock] = "pipe" /\ example = "04"
  /\ peer' = [peer EXCEPT ![Sock] = IF @ = "rst" THEN "pipe" ELSE @]
  /\ UNCHANGED sndq
  /\ Written

EchoKills ==
  /\ phase = "write" /\ ~IsKill
  /\ peer[Sock] = "pipe"
  /\ Exit("killed")

-----------------------------------------------------------------------------
(* The loop of 02.                                                         *)

\* POLLIN, and POLLPRI.
Ready(f) == IF f = ListenFd THEN backlog # <<>>
                            ELSE f \in clients /\ Readable(fdTable[f])

Alarmed(f) == f \in clients /\ fdTable[f] \in urgent

Poll ==
  /\ phase = "poll"
  /\ \E f \in AllFd : Ready(f) \/ Alarmed(f)
  /\ pending' = {f \in AllFd : Ready(f) \/ Alarmed(f)}
  /\ unhandled' = {f \in AllFd : Alarmed(f) /\ ~Ready(f)}
  /\ phase' = "dispatch"
  /\ UNCHANGED <<sockVars, example, cur, buf, clients, urgent, accepted>>

\* The listener comes first, then client_fds in their order.
IsNext(f) == phase = "dispatch" /\ f \in pending /\ \A g \in pending : f <= g

AcceptNext(f) ==
  /\ IsNext(ListenFd)
  /\ Take(f)
  /\ clients' = clients \cup {f}
  /\ pending' = pending \ {ListenFd}
  /\ UNCHANGED <<example, phase, cur, buf, unhandled>>

\* The connection has gone, or no descriptor is left.
AcceptFails ==
  /\ IsNext(ListenFd)
  /\ backlog = <<>> \/ \A f \in Fd : ~Free(f)
  /\ Exit("stopped")

\* "Unhandled events" end the loop, be they a client's urgent data.
UnhandledEvents(f) == IsNext(f) /\ f \in unhandled /\ Exit("stopped")

ReadNext(f) ==
  /\ IsNext(f) /\ f # ListenFd /\ f \notin unhandled
  /\ ReadInto(fdTable[f])
  /\ cur' = f
  /\ pending' = pending \ {f}

\* The descriptor is forgotten, and never closed.
RemoveClient(f) ==
  /\ IsNext(f) /\ f # ListenFd /\ f \notin unhandled
  /\ Ends(fdTable[f])
  /\ clients' = clients \ {f}
  /\ pending' = pending \ {f}
  /\ UNCHANGED <<sockVars, example, phase, cur, buf, unhandled, urgent, accepted>>

DispatchDone ==
  /\ phase = "dispatch" /\ pending = {}
  /\ phase' = "poll"
  /\ UNCHANGED <<sockVars, example, cur, buf, pollVars, urgent, accepted>>

-----------------------------------------------------------------------------

(* The mains.                                                              *)

Starts == Listen \/ SetupFails

\* 01, and 05, which calls read and write through a BIO.
PlainMain ==
  /\ example \in {"01", "05"}
  /\ \/ Starts
     \/ \E f \in Fd : AcceptOne(f)
     \/ ReadMessage \/ ReadEnds
     \/ Echo \/ EchoIsLost \/ EchoKills

PollingMain ==
  /\ example = "02"
  /\ \/ Starts
     \/ Poll
     \/ \E f \in Fd : AcceptNext(f) \/ ReadNext(f) \/ RemoveClient(f)
     \/ \E f \in Fd : UnhandledEvents(f)
     \/ AcceptFails
     \/ Echo \/ EchoIsLost \/ EchoKills
     \/ DispatchDone

\* 04, which ignores SIGPIPE.
GuideMain ==
  /\ example = "04"
  /\ \/ Starts
     \/ \E f \in Fd : AcceptOne(f)
     \/ HandshakeDone \/ HandshakeFails
     \/ ReadMessage \/ ClientGone
     \/ Killed \/ Echo \/ EchoIsLost

BioTlsMain ==
  /\ example = "06"
  /\ \/ Starts
     \/ \E f \in Fd : AcceptOne(f)
     \/ HandshakeDone \/ HandshakeFails
     \/ ReadMessage \/ ReadEnds \/ ShutdownKills
     \/ Killed \/ Echo \/ EchoIsLost \/ EchoKills

Step == PlainMain \/ PollingMain \/ GuideMain \/ BioTlsMain

-----------------------------------------------------------------------------
(* The clients.                                                            *)

\* connect is refused before the server listens.
ClientConnects(c) == phase # "setup" /\ Connect(c)

ClientReads(c) == Recv(c)

\* The loop of a client program: a message, then its answer.
Asks(c) ==
  \/ ClientConnects(c)
  \/ Len(received[c]) = Len(sent[c]) /\ \E u \in Unit : Send(c, u)
  \/ ClientReads(c)

\* The clients of 01, 02 and 05 end when they are killed; an answer that is
\* not read then becomes a reset.
PlainClient(c) == example \notin Tls /\ (Asks(c) \/ Fin(c) \/ Reset(c))

\* The client of 04 ends with an empty line, that of 06 with SHUTDOWN: both
\* when the last answer has come, and with a close_notify.
Leaves(c) == Len(received[c]) = Len(sent[c]) /\ Fin(c)

GuideClient(c) == example = "04" /\ (Asks(c) \/ Leaves(c))

BioTlsClient(c) == example = "06" /\ (Asks(c) \/ Leaves(c))

\* Any other program may send ahead, not read, and break off.
OtherClient(c) ==
  \/ ClientConnects(c)
  \/ Abort(c)
  \/ \E u \in Unit : Send(c, u)
  \/ ClientReads(c)
  \/ Fin(c)
  \/ Reset(c)

\* A byte of urgent data, which only 02 polls for: the reads of the others pass
\* over it.  Bound: it is sent where nothing else is waiting to be read.
Urge(c) ==
  /\ example = "02" /\ c \in Urgent \ urgent
  /\ peer[c] = "up" /\ Held(c) /\ inbox[c] = <<>>
  /\ urgent' = urgent \cup {c}
  /\ UNCHANGED <<sockVars, progVars, accepted>>

ClientStep ==
  \/ \E c \in LockStep : PlainClient(c) \/ GuideClient(c) \/ BioTlsClient(c)
  \/ \E c \in Conn \ LockStep : OtherClient(c)

Clients ==
  /\ Running
  /\ \/ ClientStep /\ UNCHANGED allVars
     \/ \E c \in Conn \ LockStep : Urge(c)

Next == Step \/ Clients

Spec == Init /\ [][Next]_vars

\* The program runs on, and the client programs read their answers.
FairSpec ==
  /\ Spec
  /\ WF_vars(Step)
  /\ \A c \in LockStep : WF_vars(ClientReads(c) /\ UNCHANGED allVars)

-----------------------------------------------------------------------------

\* A client program gets the answers to its own messages, in order, whatever
\* the others send, and however much of it at once.
InStep ==
  \A c \in Conn :
    (c \in LockStep \/ example \in Tls) =>
      IsPrefix(received[c] \o sndq[c], sent[c])

Waiting(c) == \E i \in DOMAIN backlog : backlog[i] = c

\* The program was started in vain.
Unused == \A c \in Conn : peer[c] = "new"

\* c has left, and is the only one the program ever served.
OnlyClientLeft(c) == accepted = {c} /\ peer[c] # "up"

\* c has no session, or has lost its side of it before it was answered.
Unshaken(c) ==
  \/ c \in Plain /\ sent[c] # <<>>
  \/ peer[c] # "up" /\ received[c] \o sndq[c] = <<>>

\* c was queued, and an error took it from there.
Lost(c) == peer[c] # "new" /\ c \notin accepted /\ ~Waiting(c)

\* Each of its descriptors has been used for a client of its own: those of the
\* clients that have left are never closed.
UsedUp == Cardinality(accepted) = Cardinality(Fd) /\ backlog # <<>>

\* All that ends a server.  01, 05 and 06 end with the only client they take;
\* 04 and 06 with a handshake that fails or a kill.  02 goes on when clients
\* leave; urgent data ends it, a connection that is gone when it is accepted,
\* and one more connection than it has descriptors, but no sooner.  SIGPIPE
\* kills all but 04, after a reset by a client that was accepted.
EndsForAReason ==
  /\ phase = "stopped" =>
       \/ Unused
       \/ example \in {"01", "05", "06"} /\ \E c \in Conn : OnlyClientLeft(c)
       \/ /\ example \in Tls
          /\ \E c \in accepted : Unshaken(c) \/ Kill \in ToSet(sent[c])
       \/ /\ example = "02"
          /\ urgent # {} \/ UsedUp \/ \E c \in Conn : Lost(c)
  /\ phase = "killed" =>
       \E c \in accepted :
         /\ peer[c] \in {"rst", "pipe"} /\ example # "04"
         /\ example # "02" => accepted = {c}

\* A client program that was accepted is answered, also by 02 with others
\* that send ahead and do not read.
Answered ==
  \A c \in LockStep, n \in 1 .. MaxSend :
    Len(sent[c]) >= n
      ~> Len(received[c]) >= n \/ Waiting(c) \/ peer[c] # "up" \/ ~Running

\* Nobody waits for ever but behind a client that is up, or that has left
\* without reading what it was sent.
NextIsAccepted ==
  \A c \in Conn :
    Waiting(c) ~> \/ ~Waiting(c) \/ ~Running
                  \/ example # "02" /\ cur # ListenFd
                       /\ (peer[Sock] = "up" \/ Room(Sock) = 0)
=============================================================================
