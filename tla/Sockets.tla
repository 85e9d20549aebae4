------------------------------ MODULE Sockets ------------------------------
(***************************************************************************)
(* The operating system under the servers of this repository: the          *)
(* process's descriptor table, the listening socket's backlog and the TCP  *)
(* connections, with what the remote peers may do to them.  None of this   *)
(* is code of the repository; it is what its code relies on and observes   *)
(* through accept, read, write, close and poll on non-blocking sockets.    *)
(***************************************************************************)
EXTENDS Naturals, Sequences, FiniteSets

CONSTANTS
  Conn,      \* identities of connections, each made at most once
  NoConn,    \* "no connection": a free descriptor, an empty map slot
  Fd,        \* the descriptors accept may return (RLIMIT_NOFILE bounds them)
  Unit,      \* the units of data peers send (a byte, a line, a command)
  MaxSend,   \* bound: units one peer sends
  Says,      \* Says[c][n]: what c may send as its n-th unit
  SndBuf,    \* units that fit in the send buffer of one connection
  Faults     \* Faults[c]: the failures c may cause

FaultKinds == {"abort", "fin", "reset"}

ASSUME NoConnAssumption == NoConn \notin Conn
ASSUME FdAssumption == Fd \subseteq Nat
ASSUME BufAssumption == MaxSend \in Nat /\ SndBuf \in Nat \ {0}
ASSUME SaysAssumption == Says \in [Conn -> [1 .. MaxSend -> SUBSET Unit]]
ASSUME FaultsAssumption == Faults \in [Conn -> SUBSET FaultKinds]

VARIABLES
  fdTable,   \* the connection each descriptor is open on, NoConn when free
  backlog,   \* connections made and not yet accepted
  peer,      \* what the peer has done: see PeerStates
  inbox,     \* data received by the kernel and not yet read by the server
  sndq,      \* data written by the server and not yet taken by the peer
  sent,      \* all that the peer has sent
  received   \* all that the peer has received

sockVars == <<fdTable, backlog, peer, inbox, sndq, sent, received>>

\* "new": not connected; "up": connected; "fin": has shut its side down;
\* "rst": has reset the connection; "pipe": has reset it after its FIN, so
\* that the next write raises SIGPIPE (in "rst" it fails with ECONNRESET).
PeerStates == {"new", "up", "fin", "rst", "pipe"}

\* The server still holds the connection: it is queued or has a descriptor.
Held(c) == (\E i \in DOMAIN backlog : backlog[i] = c)
             \/ (\E f \in Fd : fdTable[f] = c)

SocketsTypeOK ==
  /\ fdTable \in [Fd -> Conn \cup {NoConn}]
  /\ backlog \in Seq(Conn)
  /\ peer \in [Conn -> PeerStates]
  /\ inbox \in [Conn -> Seq(Unit)]
  /\ sndq \in [Conn -> Seq(Unit)]
  /\ sent \in [Conn -> Seq(Unit)]
  /\ received \in [Conn -> Seq(Unit)]

SocketsInit ==
  /\ fdTable = [f \in Fd |-> NoConn]
  /\ backlog = <<>>
  /\ peer = [c \in Conn |-> "new"]
  /\ inbox = [c \in Conn |-> <<>>]
  /\ sndq = [c \in Conn |-> <<>>]
  /\ sent = [c \in Conn |-> <<>>]
  /\ received = [c \in Conn |-> <<>>]

-----------------------------------------------------------------------------
(* What the peers do, at any time between two system calls of the server.  *)

Connect(c) ==
  /\ peer[c] = "new"
  /\ peer' = [peer EXCEPT ![c] = "up"]
  /\ backlog' = Append(backlog, c)
  /\ UNCHANGED <<fdTable, inbox, sndq, sent, received>>

\* A queued connection is removed by a network error before it is accepted
\* (accept(2): poll may have reported it already).
Abort(c) ==
  /\ "abort" \in Faults[c]
  /\ backlog # <<>> /\ Head(backlog) = c
  /\ backlog' = Tail(backlog)
  /\ peer' = [peer EXCEPT ![c] = "rst"]
  /\ UNCHANGED <<fdTable, inbox, sndq, sent, received>>

Send(c, u) ==
  /\ peer[c] = "up" /\ Held(c)
  /\ Len(sent[c]) < MaxSend /\ u \in Says[c][Len(sent[c]) + 1]
  /\ sent' = [sent EXCEPT ![c] = Append(@, u)]
  /\ inbox' = [inbox EXCEPT ![c] = Append(@, u)]
  /\ UNCHANGED <<fdTable, backlog, peer, sndq, received>>

Recv(c) ==
  /\ peer[c] \in {"up", "fin"}
  /\ sndq[c] # <<>>
  /\ received' = [received EXCEPT ![c] = Append(@, Head(sndq[c]))]
  /\ sndq' = [sndq EXCEPT ![c] = Tail(@)]
  /\ UNCHANGED <<fdTable, backlog, peer, inbox, sent>>

Fin(c) ==
  /\ "fin" \in Faults[c]
  /\ peer[c] = "up"
  /\ peer' = [peer EXCEPT ![c] = "fin"]
  /\ UNCHANGED <<fdTable, backlog, inbox, sndq, sent, received>>

\* What was received before the reset can still be read; what was not yet
\* delivered to the peer is gone.
Reset(c) ==
  /\ "reset" \in Faults[c]
  /\ peer[c] \in {"up", "fin"} /\ Held(c)
  /\ peer' = [peer EXCEPT ![c] = IF @ = "up" THEN "rst" ELSE "pipe"]
  /\ sndq' = [sndq EXCEPT ![c] = <<>>]
  /\ UNCHANGED <<fdTable, backlog, inbox, sent, received>>

Peers ==
  \E c \in Conn :
    \/ Connect(c)
    \/ Abort(c)
    \/ \E u \in Unit : Send(c, u)
    \/ Recv(c)
    \/ Fin(c)
    \/ Reset(c)

-----------------------------------------------------------------------------
(* What a system call of the server finds.                                 *)

Free(f) == fdTable[f] = NoConn

\* accept returns the lowest free descriptor.
LowestFree(f) == Free(f) /\ \A g \in Fd : Free(g) => f <= g

Readable(c) == inbox[c] # <<>> \/ peer[c] # "up"

Room(c) == SndBuf - Len(sndq[c])

Writable(c) == peer[c] \in {"rst", "pipe"} \/ Room(c) > 0

AtMost(m, n) == IF m <= n THEN m ELSE n
=============================================================================
