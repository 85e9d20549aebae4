----------------------------- MODULE EchoServer -----------------------------
(***************************************************************************)
(* echo-server.cpp of example 10: the Poller with an on_read that writes   *)
(* every chunk back to where it came from and closes the connection when   *)
(* the chunk is the command KILLME.                                        *)
(***************************************************************************)
EXTENDS Poller, Buffers, SequencesExt

CONSTANT KillMe   \* the unit that stands for the text KILLME

ASSUME KillMeAssumption == KillMe \in Unit

\* read(2) has no message boundaries: KILLME is seen only when it is all
\* that one read returned.
EchoOnRead ==
  LET kill == rq # <<>> /\ Head(rq) = <<KillMe>>
  IN  OnRead(IF kill THEN {} ELSE {cur}, IF kill THEN {cur} ELSE {})

EchoStep ==
  \/ QuietStep
  \/ \E f \in Fd : Accept(f)
  \/ Cleanup
  \/ EchoOnRead

EchoNext == EchoStep \/ Environment

EchoSpec == Init /\ [][EchoNext]_vars

\* The loop runs on, and a peer that is up reads what it is sent.
FairEchoSpec ==
  /\ EchoSpec
  /\ WF_vars(EchoStep)
  /\ \A c \in Conn : WF_vars(peer[c] = "up" /\ Recv(c) /\ UNCHANGED loopVars)

-----------------------------------------------------------------------------

\* What the loop holds of c: read and not yet given to on_read.
Chunks(c) == IF phase \in Serving /\ handlers[cur] = c THEN rq ELSE <<>>

OnItsWay(c) ==
  Whole(sent[c], received[c] \o sndq[c], wq[c] \o Chunks(c), inbox[c])

\* As long as its handler is open, what a peer has sent is received by it or
\* in its send buffer, in write_queue_, in read_queue_ or bufs, or in the
\* receive buffer: short reads and short writes split and rejoin the chunks,
\* and lose, repeat and reorder nothing.
NothingLost ==
  \A f \in Fd : Live(f) /\ peer[handlers[f]] \in {"up", "fin"}
                  => OnItsWay(handlers[f])

\* The server gives up a connection only when its peer is gone, has sent
\* KILLME, or has let its send buffer fill up with more still to come.
ClosedForAReason ==
  \A c \in Conn : RegisteredConn(c) /\ ~isOpen[c] =>
    \/ peer[c] # "up" \/ KillMe \in ToSet(sent[c])
    \/ Len(received[c] \o sndq[c]) \in SndBuf .. Len(sent[c]) - 1

\* tcp_stream.hpp:259, "The socket is ok, but nothing has been written due
\* to blocking.": a full send buffer is no reason to close the stream.
BlockedWriteKeepsOpen ==
  [][\A c \in Conn : phase = "write" /\ Running' /\ isOpen[c] /\ ~isOpen'[c]
       => peer[c] = "rst"]_vars

\* c has connected, and the server has made a handler for it.
Accepted(c) == peer[c] # "new" /\ c \notin ToSet(backlog)

\* The server implements the echo service for the peers that stay, do not
\* ask to be closed, are not closed for falling behind (ClosedForAReason says
\* when) and are not cut off by the end of the whole process.
Service ==
  INSTANCE EchoService WITH
    Client <- Conn, Item <- Unit,
    served <- {c \in Conn : /\ Running
                            /\ peer[c] \in {"new", "up"}
                            /\ KillMe \notin ToSet(sent[c])
                            /\ Accepted(c) => isOpen[c]}

ServesEcho == Service!ServiceSpec
=============================================================================
