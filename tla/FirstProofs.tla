---------------------------- MODULE FirstProofs ----------------------------
(***************************************************************************)
(* Proofs about the first servers, examples 01, 02, 04, 05 and 06.  The    *)
(* invariant says which connection is served, that connections which wait  *)
(* to be accepted have not been touched, and where each unit is that a     *)
(* client has sent and that has not come back to it.                       *)
(***************************************************************************)
EXTENDS FirstServers, SequenceTheorems, FiniteSetTheorems, TLAPS

\* Whoever is served has a connection, and there is something to write.
InUse ==
  /\ phase \in {"handshake", "read", "write"} => cur \in Fd /\ Sock \in Conn
  /\ phase = "write" => buf # <<>> /\ (example \in Tls => Len(buf) = 1)
  /\ \A f \in clients : fdTable[f] \in Conn
  /\ pending \subseteq clients \cup {ListenFd}
  /\ example # "02" => pending = {} /\ clients = {}

\* Nothing has happened yet on a connection that was not made.
Unmade(c) ==
  /\ peer[c] = "new"
  /\ sent[c] = <<>> /\ received[c] = <<>> /\ inbox[c] = <<>> /\ sndq[c] = <<>>

\* Nothing was sent to those that wait; none waits twice, and none of them
\* has a descriptor.
Fresh ==
  /\ \A c \in Conn : peer[c] = "new" => Unmade(c)
  /\ \A f \in Fd : fdTable[f] # NoConn => peer[fdTable[f]] # "new"
  /\ \A i \in DOMAIN backlog :
       LET c == backlog[i]
       IN  /\ peer[c] # "new" /\ received[c] = <<>> /\ sndq[c] = <<>>
           /\ \A f \in Fd : fdTable[f] # c
           /\ \A j \in DOMAIN backlog : backlog[j] = c => j = i
  /\ phase = "handshake" => received[Sock] = <<>> /\ sndq[Sock] = <<>>

\* Two descriptors are never open on the same connection.
OneDescriptorEach ==
  \A f, g \in Fd : fdTable[f] = fdTable[g] /\ ~Free(f) => f = g

BaseInv == FirstTypeOK /\ InUse /\ Fresh /\ OneDescriptorEach

LEMMA FirstListenerApart == ListenFd \notin Fd /\ Fd \subseteq AllFd
BY FirstAssumption, FdAssumption DEF AllFd

THEOREM BaseInit == Init => BaseInv
<1> SUFFICES ASSUME Init PROVE BaseInv
  OBVIOUS
<1>1. FirstTypeOK
  BY FirstAssumption
     DEF Init, SocketsInit, FirstTypeOK, SocketsTypeOK, PeerStates, AllFd
<1>2. InUse /\ Fresh /\ OneDescriptorEach
  BY DEF Init, SocketsInit, InUse, Fresh, Unmade, OneDescriptorEach, Free
<1> QED
  BY <1>1, <1>2 DEF BaseInv

-----------------------------------------------------------------------------
(* The kinds of steps.                                                     *)

\* The steps that leave the sockets alone.
Goes ==
  \/ Listen \/ HandshakeDone \/ DispatchDone
  \/ example = "02" /\ (Poll \/ \E f \in Fd : RemoveClient(f))

\* What a client does, of which a client program does less.
Does(c) ==
  \/ Connect(c) /\ phase # "setup"
  \/ Abort(c)
  \/ /\ \E u \in Unit : Send(c, u)
     /\ c \in LockStep => Len(received[c]) = Len(sent[c])
  \/ Recv(c) \/ Fin(c) \/ Reset(c)

LEMMA StepKinds ==
  ASSUME Next
  PROVE  \/ \E how \in {"stopped", "killed"} : Exit(how)
         \/ \E f \in Fd : AcceptOne(f) /\ example # "02"
         \/ \E f \in Fd : AcceptNext(f) /\ example = "02"
         \/ ReadMessage /\ example # "02"
         \/ \E f \in Fd : ReadNext(f) /\ example = "02"
         \/ Goes \/ (ClientGone /\ example = "04") \/ Echo \/ EchoIsLost
         \/ Running /\ (\E c \in Conn : Does(c)) /\ UNCHANGED allVars
         \/ Running /\ \E c \in Conn : Urge(c)
<1>1. CASE PlainMain
  BY <1>1 DEF PlainMain, Starts, SetupFails, ReadEnds, EchoKills, Goes
<1>2. CASE PollingMain
  BY <1>2 DEF PollingMain, Starts, SetupFails, AcceptFails, UnhandledEvents,
              EchoKills, Goes
<1>3. CASE GuideMain
  BY <1>3 DEF GuideMain, Starts, SetupFails, HandshakeFails, Killed, Goes
<1>4. CASE BioTlsMain
  BY <1>4 DEF BioTlsMain, Starts, SetupFails, HandshakeFails, ReadEnds,
              ShutdownKills, Killed, EchoKills, Goes
<1>5. CASE Clients
  <2>1. ASSUME NEW c \in LockStep,
               PlainClient(c) \/ GuideClient(c) \/ BioTlsClient(c)
        PROVE  c \in Conn /\ Does(c)
    BY <2>1, FirstAssumption
       DEF PlainClient, GuideClient, BioTlsClient, Asks, Leaves,
           ClientConnects, ClientReads, Does
  <2>2. ASSUME NEW c \in Conn \ LockStep, OtherClient(c)
        PROVE  Does(c)
    BY <2>2 DEF OtherClient, ClientConnects, ClientReads, Does
  <2> QED
    BY <1>5, <2>1, <2>2 DEF Clients, ClientStep
<1> QED
  BY <1>1, <1>2, <1>3, <1>4, <1>5 DEF Next, Step

-----------------------------------------------------------------------------
(* Types, descriptors and those that wait.                                 *)

LEMMA FirstCut ==
  ASSUME NEW S, NEW s \in Seq(S), NEW n \in Nat, n <= Len(s)
  PROVE  /\ SubSeq(s, 1, n) \in Seq(S) /\ Len(SubSeq(s, 1, n)) = n
         /\ SubSeq(s, n + 1, Len(s)) \in Seq(S)
         /\ Len(SubSeq(s, n + 1, Len(s))) = Len(s) - n
OBVIOUS

\* What the first one in the queue is, and what the others are.
LEMMA FirstTail ==
  ASSUME FirstTypeOK, backlog # <<>>
  PROVE  /\ Head(backlog) = backlog[1] /\ 1 \in DOMAIN backlog
         /\ Head(backlog) \in Conn /\ Tail(backlog) \in Seq(Conn)
         /\ \A i \in DOMAIN Tail(backlog) :
              /\ i + 1 \in DOMAIN backlog /\ i + 1 # 1 /\ i \in Nat
              /\ Tail(backlog)[i] = backlog[i + 1]
<1>1. backlog \in Seq(Conn)
  BY DEF FirstTypeOK, SocketsTypeOK
<1>2. Len(backlog) \in Nat /\ Len(backlog) # 0
  BY <1>1
<1>3. /\ Head(backlog) = backlog[1] /\ 1 \in DOMAIN backlog
      /\ Head(backlog) \in Conn /\ Tail(backlog) \in Seq(Conn)
  BY <1>1, <1>2
<1>4. /\ DOMAIN Tail(backlog) = 1 .. Len(backlog) - 1
      /\ \A i \in 1 .. Len(backlog) - 1 : Tail(backlog)[i] = backlog[i + 1]
      /\ \A i \in 1 .. Len(backlog) - 1 :
           i \in Nat /\ i + 1 # 1 /\ i + 1 \in DOMAIN backlog
  BY <1>1, <1>2
<1> QED
  BY <1>3, <1>4

LEMMA FirstExit ==
  ASSUME BaseInv, NEW how \in {"stopped", "killed"}, Exit(how)
  PROVE  BaseInv'
<1>1. FirstTypeOK'
  <2>1. buf' \in Seq(Unit) /\ Len(buf') <= ReadBuf /\ cur' \in AllFd
    BY FirstAssumption DEF Exit, AllFd
  <2> QED
    BY <2>1 DEF Exit, BaseInv, FirstTypeOK, SocketsTypeOK
<1>2. InUse' /\ OneDescriptorEach'
  BY NoConnAssumption DEF Exit, InUse, OneDescriptorEach, Free
<1>3. Fresh'
  <2>1. \A i \in DOMAIN backlog : backlog[i] \in Conn
    BY DEF BaseInv, FirstTypeOK, SocketsTypeOK
  <2> QED
    BY <2>1, NoConnAssumption DEF Exit, BaseInv, Fresh, Unmade
<1> QED
  BY <1>1, <1>2, <1>3 DEF BaseInv

\* accept gives a connection that nothing was sent to a number of its own.
LEMMA FirstAccept ==
  ASSUME BaseInv, NEW f \in Fd,
         \/ AcceptOne(f) /\ example # "02"
         \/ AcceptNext(f) /\ example = "02"
  PROVE  BaseInv'
<1> DEFINE c == Head(backlog)
<1>1. /\ fdTable[f] = NoConn /\ backlog # <<>>
      /\ backlog' = Tail(backlog) /\ fdTable' = [fdTable EXCEPT ![f] = c]
      /\ UNCHANGED <<peer, inbox, sndq, sent, received, example, buf>>
      /\ cur' \in {cur, f} /\ phase' \in {"handshake", "read", "dispatch"}
      /\ phase' \in {"handshake", "read"} => cur' = f
      /\ clients' \subseteq clients \cup {f}
      /\ example # "02" => clients' = clients
      /\ pending' \subseteq pending
      /\ pending' # {} => pending' \subseteq clients' \cup {ListenFd}
      /\ UNCHANGED <<unhandled, urgent>> /\ accepted' = accepted \cup {c}
  BY DEF pollVars, AcceptOne, AcceptNext, Take, LowestFree, Free, IsNext, BaseInv, InUse
<1>2. /\ c = backlog[1] /\ 1 \in DOMAIN backlog /\ c \in Conn
      /\ Tail(backlog) \in Seq(Conn)
      /\ \A i \in DOMAIN Tail(backlog) :
           /\ i + 1 \in DOMAIN backlog /\ i + 1 # 1 /\ i \in Nat
           /\ Tail(backlog)[i] = backlog[i + 1]
  BY <1>1, FirstTail DEF BaseInv
<1> HIDE DEF c
<1>3. fdTable \in [Fd -> Conn \cup {NoConn}]
  BY DEF BaseInv, FirstTypeOK, SocketsTypeOK
<1>4. /\ fdTable'[f] = c /\ \A g \in Fd : g # f => fdTable'[g] = fdTable[g]
      /\ fdTable' \in [Fd -> Conn \cup {NoConn}]
  BY <1>1, <1>2, <1>3
<1>5. FirstTypeOK'
  BY <1>1, <1>2, <1>4, FirstListenerApart
     DEF BaseInv, FirstTypeOK, SocketsTypeOK
<1>6. /\ peer[c] # "new" /\ received[c] = <<>> /\ sndq[c] = <<>>
      /\ \A g \in Fd : fdTable[g] # c
      /\ \A j \in DOMAIN backlog : backlog[j] = c => j = 1
  BY <1>2 DEF BaseInv, Fresh
<1>7. InUse'
  <2>1. \A g \in clients' : g \in Fd /\ fdTable'[g] \in Conn
    BY <1>1, <1>2, <1>4 DEF BaseInv, InUse, FirstTypeOK
  <2>2. phase' \in {"handshake", "read"} => cur' \in Fd /\ Sock' \in Conn
    BY <1>1, <1>2, <1>4 DEF Sock
  <2> QED
    BY <1>1, <2>1, <2>2 DEF BaseInv, InUse
<1>8. Fresh'
  <2>1. \A d \in Conn : peer'[d] = "new" => Unmade(d)'
    BY <1>1 DEF BaseInv, Fresh, Unmade
  <2>2. \A g \in Fd : fdTable'[g] # NoConn => peer'[fdTable'[g]] # "new"
    BY <1>1, <1>4, <1>6 DEF BaseInv, Fresh
  <2>3. ASSUME NEW i \in DOMAIN Tail(backlog), NEW d, d = Tail(backlog)[i]
        PROVE  /\ peer[d] # "new" /\ received[d] = <<>> /\ sndq[d] = <<>>
               /\ \A g \in Fd : fdTable'[g] # d
               /\ \A j \in DOMAIN Tail(backlog) : Tail(backlog)[j] = d => j = i
    <3>1. i + 1 \in DOMAIN backlog /\ d = backlog[i + 1] /\ i + 1 # 1 /\ i \in Nat
      BY <1>2, <2>3
    <3>2. /\ peer[d] # "new" /\ received[d] = <<>> /\ sndq[d] = <<>>
          /\ \A g \in Fd : fdTable[g] # d
          /\ \A j \in DOMAIN backlog : backlog[j] = d => j = i + 1
      BY <3>1 DEF BaseInv, Fresh
    <3>3. d # c
      BY <1>6, <3>1
    <3>4. \A j \in DOMAIN Tail(backlog) : Tail(backlog)[j] = d => j = i
      <4>1. ASSUME NEW j \in DOMAIN Tail(backlog), Tail(backlog)[j] = d
            PROVE  j = i
        <5>1. j + 1 \in DOMAIN backlog /\ backlog[j + 1] = d /\ j \in Nat
          BY <1>2, <4>1
        <5>2. j + 1 = i + 1
          BY <3>2, <5>1
        <5> QED
          BY <3>1, <5>1, <5>2
      <4> QED
        BY <4>1
    <3> QED
      BY <1>4, <3>2, <3>3, <3>4
  <2>4. phase' = "handshake" => received'[Sock'] = <<>> /\ sndq'[Sock'] = <<>>
    BY <1>1, <1>4, <1>6 DEF Sock
  <2> QED
    BY <1>1, <2>1, <2>2, <2>3, <2>4 DEF Fresh
<1>9. OneDescriptorEach'
  BY <1>4, <1>6 DEF BaseInv, OneDescriptorEach, Free
<1> QED
  BY <1>5, <1>7, <1>8, <1>9 DEF BaseInv

\* A read takes at least one unit, and a record with TLS.
LEMMA ReadIs ==
  ASSUME FirstTypeOK, NEW c \in Conn, inbox[c] # <<>>
  PROVE  /\ ReadLen(c) \in Nat /\ ReadLen(c) # 0 /\ ReadLen(c) <= Len(inbox[c])
         /\ ReadLen(c) <= ReadBuf
         /\ example \in Tls => ReadLen(c) = 1
<1>1. inbox[c] \in Seq(Unit)
  BY DEF FirstTypeOK, SocketsTypeOK
<1>2. Len(inbox[c]) \in Nat /\ Len(inbox[c]) # 0
  BY <1>1
<1> QED
  BY <1>2, FirstAssumption DEF ReadLen, AtMost

LEMMA FirstRead ==
  ASSUME BaseInv,
         \/ ReadMessage /\ example # "02"
         \/ \E f \in Fd : ReadNext(f) /\ example = "02"
  PROVE  /\ BaseInv' /\ Sock' \in Conn /\ phase # "write" /\ phase' = "write"
         /\ ReadInto(Sock')
         /\ UNCHANGED <<fdTable, backlog, peer, sndq, sent, received, example>>
<1>1. /\ Sock' \in Conn /\ cur' \in Fd /\ ReadInto(Sock')
      /\ phase \in {"read", "dispatch"}
      /\ pending' \subseteq pending
      /\ UNCHANGED <<unhandled, accepted>> /\ urgent' \subseteq urgent
  <2>1. CASE ReadMessage
    BY <2>1 DEF ReadMessage, ReadInto, BaseInv, InUse, Sock
  <2>2. ASSUME NEW f \in Fd, ReadNext(f)
        PROVE  /\ Sock' \in Conn /\ cur' \in Fd /\ ReadInto(Sock')
               /\ phase \in {"read", "dispatch"}
               /\ pending' \subseteq pending
               /\ UNCHANGED <<unhandled, accepted>> /\ urgent' \subseteq urgent
    BY <2>2, FirstListenerApart
       DEF ReadNext, ReadInto, IsNext, BaseInv, InUse, Sock
  <2> QED
    BY <2>1, <2>2
<1> DEFINE c == Sock'
           s == inbox[c]
           n == ReadLen(c)
<1>2. /\ s # <<>> /\ s \in Seq(Unit) /\ c \in Conn
      /\ buf' = SubSeq(s, 1, n)
      /\ inbox' = [inbox EXCEPT ![c] = SubSeq(s, n + 1, Len(s))]
      /\ phase' = "write"
      /\ UNCHANGED <<fdTable, backlog, peer, sndq, sent, received, example,
                     clients>>
  BY <1>1 DEF ReadInto, BaseInv, FirstTypeOK, SocketsTypeOK
<1> HIDE DEF c
<1>3. /\ n \in Nat /\ n # 0 /\ n <= Len(s) /\ n <= ReadBuf
      /\ example \in Tls => n = 1
  BY <1>2, ReadIs DEF BaseInv
<1> HIDE DEF n
<1>4. /\ SubSeq(s, 1, n) \in Seq(Unit) /\ Len(SubSeq(s, 1, n)) = n
      /\ SubSeq(s, n + 1, Len(s)) \in Seq(Unit)
  BY <1>2, <1>3, FirstCut
<1> HIDE DEF s
<1>5. /\ inbox' \in [Conn -> Seq(Unit)] /\ buf' \in Seq(Unit)
      /\ Len(buf') <= ReadBuf /\ buf' # <<>>
      /\ example \in Tls => Len(buf') = 1
  BY <1>2, <1>3, <1>4 DEF BaseInv, FirstTypeOK, SocketsTypeOK
<1>6. FirstTypeOK'
  BY <1>1, <1>2, <1>5, FirstListenerApart
     DEF BaseInv, FirstTypeOK, SocketsTypeOK
<1>7. InUse'
  BY <1>1, <1>2, <1>5 DEF BaseInv, InUse
<1>8. Fresh'
  <2>1. \A d \in Conn : peer[d] = "new" => d # c
    BY <1>2 DEF BaseInv, Fresh, Unmade, s
  <2>2. \A d \in Conn : peer'[d] = "new" => Unmade(d)'
    BY <1>2, <2>1 DEF BaseInv, Fresh, Unmade, FirstTypeOK, SocketsTypeOK
  <2> QED
    BY <1>2, <2>2 DEF BaseInv, Fresh
<1>9. OneDescriptorEach'
  BY <1>2 DEF BaseInv, OneDescriptorEach, Free
<1> QED
  BY <1>1, <1>2, <1>6, <1>7, <1>8, <1>9 DEF BaseInv

LEMMA FirstGoes ==
  ASSUME BaseInv, Goes
  PROVE  /\ BaseInv' /\ UNCHANGED <<sockVars, example>>
         /\ phase' \notin {"write", "stopped", "killed"}
<1>1. /\ UNCHANGED <<sockVars, example, cur>>
      /\ phase' \in {"poll", "accept", "read", "dispatch"}
      /\ phase' = "read" => phase = "handshake"
      /\ UNCHANGED <<buf, urgent, accepted>>
  BY DEF Goes, Listen, HandshakeDone, Poll, RemoveClient, DispatchDone,
         sockVars, IsNext
<1>2. /\ clients' \subseteq clients
      /\ pending' \subseteq clients' \cup {ListenFd}
      /\ example # "02" => pending' = {}
      /\ unhandled' \subseteq unhandled \cup clients
  <2>1. CASE Listen \/ HandshakeDone \/ DispatchDone
    BY <2>1 DEF Listen, HandshakeDone, DispatchDone, pollVars, BaseInv, InUse
  <2>2. CASE example = "02" /\ Poll
    BY <2>2 DEF Poll, Ready, Alarmed, AllFd
  <2>3. ASSUME NEW f \in Fd, example = "02", RemoveClient(f)
        PROVE  /\ clients' \subseteq clients
               /\ pending' \subseteq clients' \cup {ListenFd}
               /\ unhandled' = unhandled
    BY <2>3 DEF RemoveClient, BaseInv, InUse
  <2> QED
    BY <2>1, <2>2, <2>3 DEF Goes
<1>3. FirstTypeOK'
  <2>1. pending' \subseteq AllFd /\ unhandled' \subseteq Fd
    BY <1>1, <1>2 DEF BaseInv, FirstTypeOK, AllFd
  <2> QED
    BY <1>1, <1>2, <2>1 DEF BaseInv, FirstTypeOK, SocketsTypeOK, sockVars
<1>4. InUse'
  BY <1>1, <1>2 DEF BaseInv, InUse, FirstTypeOK, Sock, sockVars
<1>5. Fresh' /\ OneDescriptorEach'
  BY <1>1 DEF BaseInv, Fresh, Unmade, OneDescriptorEach, Free, sockVars
<1> QED
  BY <1>1, <1>3, <1>4, <1>5 DEF BaseInv

\* Example 04 closes the descriptor, and waits for the next.
LEMMA FirstCloses ==
  ASSUME BaseInv, ClientGone, example = "04"
  PROVE  BaseInv'
<1>1. /\ fdTable' = [fdTable EXCEPT ![cur] = NoConn] /\ phase' = "accept"
      /\ cur' = ListenFd /\ cur \in Fd /\ example' = example
      /\ UNCHANGED <<backlog, peer, inbox, sndq, sent, received, buf, clients,
                     pending, unhandled, urgent, accepted>>
  BY DEF ClientGone, NextClient, pollVars, BaseInv, InUse
<1>2. /\ fdTable' \in [Fd -> Conn \cup {NoConn}]
      /\ \A f \in Fd : fdTable'[f] \in {fdTable[f], NoConn}
  BY <1>1 DEF BaseInv, FirstTypeOK, SocketsTypeOK
<1>3. FirstTypeOK'
  BY <1>1, <1>2, FirstListenerApart
     DEF BaseInv, FirstTypeOK, SocketsTypeOK, AllFd
<1>4. InUse'
  BY <1>1, <1>2 DEF BaseInv, InUse
<1>5. Fresh'
  <2>1. \A i \in DOMAIN backlog : backlog[i] \in Conn
    BY DEF BaseInv, FirstTypeOK, SocketsTypeOK
  <2> QED
    BY <1>1, <1>2, <2>1, NoConnAssumption DEF BaseInv, Fresh, Unmade
<1>6. OneDescriptorEach'
  BY <1>1, <1>2 DEF BaseInv, OneDescriptorEach, Free
<1> QED
  BY <1>3, <1>4, <1>5, <1>6 DEF BaseInv

\* What is written goes to the connection that is served, which is none of
\* those that wait.
LEMMA FirstEcho ==
  ASSUME BaseInv, Echo
  PROVE  /\ BaseInv' /\ Sock \in Conn /\ peer[Sock] \in {"up", "fin"}
         /\ sndq' = [sndq EXCEPT ![Sock] = Append(@, Head(buf))]
         /\ phase = "write" /\ phase' \in {"dispatch", "read"} /\ buf # <<>>
         /\ UNCHANGED <<fdTable, backlog, peer, inbox, sent, received, example>>
<1>1. /\ Sock \in Conn /\ peer[Sock] \in {"up", "fin"} /\ cur \in Fd
      /\ sndq' = [sndq EXCEPT ![Sock] = Append(@, Head(buf))]
      /\ phase = "write" /\ phase' \in {"dispatch", "read"} /\ buf # <<>>
      /\ buf' = <<>>
      /\ UNCHANGED <<fdTable, backlog, peer, inbox, sent, received, example, cur,
                     clients, pending, unhandled, urgent, accepted>>
  BY DEF Echo, Written, pollVars, Turn, Target, Sock, BaseInv, InUse
<1>2. sndq \in [Conn -> Seq(Unit)] /\ buf \in Seq(Unit)
  BY DEF BaseInv, FirstTypeOK, SocketsTypeOK
<1>3. Append(sndq[Sock], Head(buf)) \in Seq(Unit)
  <2>1. Head(buf) \in Unit /\ sndq[Sock] \in Seq(Unit)
    BY <1>1, <1>2
  <2> QED
    BY <2>1
<1>4. /\ sndq' \in [Conn -> Seq(Unit)]
      /\ \A c \in Conn : c # Sock => sndq'[c] = sndq[c]
  BY <1>1, <1>2, <1>3
<1>5. FirstTypeOK'
  <2>1. buf' \in Seq(Unit) /\ Len(buf') <= ReadBuf
    BY <1>1, FirstAssumption
  <2> QED
    BY <1>1, <1>4, <2>1 DEF BaseInv, FirstTypeOK, SocketsTypeOK
<1>6. InUse'
  BY <1>1 DEF BaseInv, InUse, Sock
<1>7. Fresh'
  <2>1. peer[Sock] # "new"
    BY <1>1
  <2>2. \A i \in DOMAIN backlog : backlog[i] \in Conn /\ backlog[i] # Sock
    BY <1>1 DEF BaseInv, FirstTypeOK, SocketsTypeOK, Fresh, Sock
  <2> QED
    BY <1>1, <1>4, <2>1, <2>2 DEF BaseInv, Fresh, Unmade
<1>8. OneDescriptorEach'
  BY <1>1 DEF BaseInv, OneDescriptorEach, Free
<1> QED
  BY <1>1, <1>5, <1>6, <1>7, <1>8 DEF BaseInv

\* What is not written changes at most how the next write fails.
LEMMA FirstLost ==
  ASSUME BaseInv, EchoIsLost
  PROVE  /\ BaseInv' /\ Sock \in Conn
         /\ peer' = [peer EXCEPT ![Sock] = IF @ = "rst" THEN "pipe" ELSE @]
         /\ phase = "write" /\ phase' \in {"dispatch", "read"} /\ buf # <<>>
         /\ UNCHANGED <<fdTable, backlog, inbox, sndq, sent, received, example>>
<1>1. /\ Sock \in Conn
      /\ peer' = [peer EXCEPT ![Sock] = IF @ = "rst" THEN "pipe" ELSE @]
      /\ phase = "write" /\ phase' \in {"dispatch", "read"} /\ buf # <<>>
      /\ buf' = <<>>
      /\ UNCHANGED <<fdTable, backlog, inbox, sndq, sent, received, example, cur,
                     clients, pending, unhandled, urgent, accepted>>
  BY DEF EchoIsLost, Written, pollVars, Turn, Sock, BaseInv, InUse
<1>2. /\ peer' \in [Conn -> PeerStates]
      /\ \A c \in Conn : peer'[c] = "new" <=> peer[c] = "new"
  <2>1. peer \in [Conn -> PeerStates]
    BY DEF BaseInv, FirstTypeOK, SocketsTypeOK
  <2> QED
    BY <1>1, <2>1 DEF PeerStates
<1>3. FirstTypeOK'
  <2>1. buf' \in Seq(Unit) /\ Len(buf') <= ReadBuf
    BY <1>1, FirstAssumption
  <2> QED
    BY <1>1, <1>2, <2>1 DEF BaseInv, FirstTypeOK, SocketsTypeOK
<1>4. InUse' /\ OneDescriptorEach'
  BY <1>1 DEF BaseInv, InUse, Sock, OneDescriptorEach, Free
<1>5. Fresh'
  <2>1. /\ \A i \in DOMAIN backlog : backlog[i] \in Conn
        /\ \A f \in Fd : fdTable[f] # NoConn => fdTable[f] \in Conn
    BY DEF BaseInv, FirstTypeOK, SocketsTypeOK
  <2>2. \A c \in Conn : peer'[c] = "new" => Unmade(c)'
    BY <1>1, <1>2 DEF BaseInv, Fresh, Unmade
  <2>3. \A f \in Fd : fdTable'[f] # NoConn => peer'[fdTable'[f]] # "new"
    BY <1>1, <1>2, <2>1 DEF BaseInv, Fresh
  <2>4. \A i \in DOMAIN backlog :
          LET c == backlog[i]
          IN  /\ peer'[c] # "new" /\ received[c] = <<>> /\ sndq[c] = <<>>
              /\ \A f \in Fd : fdTable[f] # c
              /\ \A j \in DOMAIN backlog : backlog[j] = c => j = i
    BY <1>2, <2>1 DEF BaseInv, Fresh
  <2> QED
    BY <1>1, <2>2, <2>3, <2>4 DEF Fresh
<1> QED
  BY <1>1, <1>3, <1>4, <1>5 DEF BaseInv

LEMMA FirstUrge ==
  ASSUME BaseInv, NEW c \in Conn, Urge(c)
  PROVE  BaseInv'
<1>1. /\ urgent' \subseteq urgent \cup {c}
      /\ UNCHANGED <<sockVars, progVars, accepted>>
  BY DEF Urge
<1>2. FirstTypeOK'
  BY <1>1 DEF sockVars, progVars, BaseInv, FirstTypeOK, SocketsTypeOK
<1>3. InUse' /\ Fresh' /\ OneDescriptorEach'
  BY <1>1 DEF sockVars, progVars, BaseInv, InUse, Sock, Fresh, Unmade,
              OneDescriptorEach, Free
<1> QED
  BY <1>2, <1>3 DEF BaseInv

\* Whatever a client does.
LEMMA FirstDoes ==
  ASSUME BaseInv, NEW c \in Conn, Does(c), UNCHANGED allVars
  PROVE  BaseInv'
<1>0. /\ fdTable \in [Fd -> Conn \cup {NoConn}] /\ backlog \in Seq(Conn)
      /\ peer \in [Conn -> PeerStates] /\ inbox \in [Conn -> Seq(Unit)]
      /\ sndq \in [Conn -> Seq(Unit)] /\ sent \in [Conn -> Seq(Unit)]
      /\ received \in [Conn -> Seq(Unit)]
      /\ UNCHANGED <<example, phase, cur, buf, clients, pending, unhandled,
                     urgent, accepted>>
  BY DEF BaseInv, FirstTypeOK, SocketsTypeOK, allVars, progVars
<1>1. fdTable' = fdTable
  BY DEF Does, Connect, Abort, Send, Recv, Fin, Reset
<1>2. InUse' /\ OneDescriptorEach'
  BY <1>0, <1>1 DEF BaseInv, InUse, OneDescriptorEach, Free, Sock
<1>3. /\ \A i \in DOMAIN backlog : backlog[i] \in Conn
      /\ \A f \in Fd : fdTable[f] # NoConn => fdTable[f] \in Conn
      /\ phase = "handshake" => Sock \in Conn /\ peer[Sock] # "new" /\ Sock' = Sock
  BY <1>0, <1>1, NoConnAssumption DEF BaseInv, InUse, Fresh, Sock
\* The peer moves on; the queue is as it was.
<1>4. ASSUME UNCHANGED backlog, peer' \in [Conn -> PeerStates],
             \A d \in Conn : peer[d] # "new" => peer'[d] # "new",
             \A d \in Conn : peer'[d] = "new" =>
               UNCHANGED <<sent[d], received[d], inbox[d], sndq[d]>> /\ peer[d] = "new",
             \A d \in Conn : received[d] = <<>> /\ sndq[d] = <<>> =>
               received'[d] = <<>> /\ sndq'[d] = <<>>
      PROVE  Fresh'
  <2>1. \A d \in Conn : peer'[d] = "new" => Unmade(d)'
    BY <1>4 DEF BaseInv, Fresh, Unmade
  <2>2. \A i \in DOMAIN backlog :
          LET d == backlog[i]
          IN  /\ d \in Conn /\ peer[d] # "new" /\ received[d] = <<>>
              /\ sndq[d] = <<>> /\ \A f \in Fd : fdTable[f] # d
              /\ \A j \in DOMAIN backlog : backlog[j] = d => j = i
    BY <1>3 DEF BaseInv, Fresh
  <2>3. phase' = "handshake" => received'[Sock'] = <<>> /\ sndq'[Sock'] = <<>>
    BY <1>0, <1>3, <1>4 DEF BaseInv, Fresh
  <2>4. \A f \in Fd : fdTable'[f] # NoConn => peer'[fdTable'[f]] # "new"
    BY <1>1, <1>3, <1>4 DEF BaseInv, Fresh
  <2> QED
    BY <1>1, <1>4, <2>1, <2>2, <2>3, <2>4 DEF Fresh
<1>5. CASE Connect(c)
  <2>1. /\ peer[c] = "new" /\ peer' = [peer EXCEPT ![c] = "up"]
        /\ backlog' = Append(backlog, c)
        /\ UNCHANGED <<inbox, sndq, sent, received>>
    BY <1>5 DEF Connect
  <2>2. /\ peer'[c] = "up" /\ \A d \in Conn : d # c => peer'[d] = peer[d]
        /\ peer' \in [Conn -> PeerStates] /\ backlog' \in Seq(Conn)
    BY <1>0, <2>1 DEF PeerStates
  <2>3. \A i \in DOMAIN backlog' :
          \/ i \in DOMAIN backlog /\ backlog'[i] = backlog[i]
          \/ i = Len(backlog) + 1 /\ backlog'[i] = c
    BY <1>0, <2>1, SMTT(30)
  <2>4. /\ received[c] = <<>> /\ sndq[c] = <<>>
        /\ \A i \in DOMAIN backlog : backlog[i] # c
        /\ \A f \in Fd : fdTable[f] # c
    BY <2>1, NoConnAssumption DEF BaseInv, Fresh, Unmade
  <2>5. FirstTypeOK'
    BY <1>0, <1>1, <2>1, <2>2 DEF BaseInv, FirstTypeOK, SocketsTypeOK
  <2>6. Fresh'
    <3>1. \A d \in Conn : peer'[d] = "new" => Unmade(d)'
      BY <2>1, <2>2 DEF BaseInv, Fresh, Unmade
    <3>2. \A f \in Fd : fdTable'[f] # NoConn => peer'[fdTable'[f]] # "new"
      BY <1>1, <1>3, <2>2, <2>4 DEF BaseInv, Fresh
    <3>3. phase' = "handshake" => received'[Sock'] = <<>> /\ sndq'[Sock'] = <<>>
      BY <1>0, <1>3, <2>1 DEF BaseInv, Fresh
    <3>4. ASSUME NEW i \in DOMAIN backlog', NEW d, d = backlog'[i]
          PROVE  /\ peer'[d] # "new" /\ received'[d] = <<>> /\ sndq'[d] = <<>>
                 /\ \A f \in Fd : fdTable'[f] # d
                 /\ \A j \in DOMAIN backlog' : backlog'[j] = d => j = i
      <4>1. CASE i \in DOMAIN backlog /\ d = backlog[i]
        <5>1. /\ peer[d] # "new" /\ received[d] = <<>> /\ sndq[d] = <<>>
              /\ \A f \in Fd : fdTable[f] # d
              /\ \A j \in DOMAIN backlog : backlog[j] = d => j = i
              /\ d \in Conn /\ d # c
          BY <1>3, <2>4, <4>1 DEF BaseInv, Fresh
        <5> QED
          BY <1>1, <2>1, <2>2, <2>3, <5>1
      <4>2. CASE i = Len(backlog) + 1 /\ d = c
        BY <1>1, <2>1, <2>2, <2>3, <2>4, <4>2
      <4> QED
        BY <2>3, <3>4, <4>1, <4>2
    <3> QED
      BY <3>1, <3>2, <3>3, <3>4 DEF Fresh
  <2> QED
    BY <1>2, <2>5, <2>6 DEF BaseInv
<1>6. CASE Abort(c)
  <2>1. /\ backlog # <<>> /\ backlog' = Tail(backlog) /\ Head(backlog) = c
        /\ peer' = [peer EXCEPT ![c] = "rst"]
        /\ UNCHANGED <<inbox, sndq, sent, received>>
    BY <1>6 DEF Abort
  <2>2. /\ peer'[c] = "rst" /\ \A d \in Conn : d # c => peer'[d] = peer[d]
        /\ peer' \in [Conn -> PeerStates]
    BY <1>0, <2>1 DEF PeerStates
  <2>3. /\ c = backlog[1] /\ 1 \in DOMAIN backlog
        /\ Tail(backlog) \in Seq(Conn)
        /\ \A i \in DOMAIN Tail(backlog) :
             /\ i + 1 \in DOMAIN backlog /\ i + 1 # 1 /\ i \in Nat
             /\ Tail(backlog)[i] = backlog[i + 1]
    BY <2>1, FirstTail DEF BaseInv
  <2>4. FirstTypeOK'
    BY <1>0, <1>1, <2>1, <2>2, <2>3 DEF BaseInv, FirstTypeOK, SocketsTypeOK
  <2>5. Fresh'
    <3>1. \A d \in Conn : peer'[d] = "new" => Unmade(d)'
      BY <2>1, <2>2 DEF BaseInv, Fresh, Unmade
    <3>2. \A f \in Fd : fdTable'[f] # NoConn => peer'[fdTable'[f]] # "new"
      BY <1>1, <1>3, <2>2 DEF BaseInv, Fresh
    <3>3. phase' = "handshake" => received'[Sock'] = <<>> /\ sndq'[Sock'] = <<>>
      BY <1>0, <1>3, <2>1 DEF BaseInv, Fresh
    <3>4. ASSUME NEW i \in DOMAIN Tail(backlog), NEW d, d = Tail(backlog)[i]
          PROVE  /\ peer'[d] # "new" /\ received'[d] = <<>> /\ sndq'[d] = <<>>
                 /\ \A f \in Fd : fdTable'[f] # d
                 /\ \A j \in DOMAIN Tail(backlog) : Tail(backlog)[j] = d => j = i
      <4>1. i + 1 \in DOMAIN backlog /\ d = backlog[i + 1] /\ i \in Nat
        BY <2>3, <3>4
      <4>2. /\ peer[d] # "new" /\ received[d] = <<>> /\ sndq[d] = <<>>
            /\ \A f \in Fd : fdTable[f] # d
            /\ \A j \in DOMAIN backlog : backlog[j] = d => j = i + 1
            /\ d \in Conn
        BY <1>3, <4>1 DEF BaseInv, Fresh
      <4>3. ASSUME NEW j \in DOMAIN Tail(backlog), Tail(backlog)[j] = d
            PROVE  j = i
        <5>1. j + 1 \in DOMAIN backlog /\ backlog[j + 1] = d /\ j \in Nat
          BY <2>3, <4>3
        <5>2. j + 1 = i + 1
          BY <4>2, <5>1
        <5> QED
          BY <4>1, <5>1, <5>2
      <4> QED
        BY <1>1, <2>1, <2>2, <4>2, <4>3
    <3> QED
      BY <2>1, <3>1, <3>2, <3>3, <3>4 DEF Fresh
  <2> QED
    BY <1>2, <2>4, <2>5 DEF BaseInv
<1>7. ASSUME NEW u \in Unit, Send(c, u) PROVE BaseInv'
  <2>1. /\ peer[c] = "up" /\ sent' = [sent EXCEPT ![c] = Append(@, u)]
        /\ inbox' = [inbox EXCEPT ![c] = Append(@, u)]
        /\ UNCHANGED <<backlog, peer, sndq, received>>
    BY <1>7 DEF Send
  <2>2. /\ sent' \in [Conn -> Seq(Unit)] /\ inbox' \in [Conn -> Seq(Unit)]
        /\ \A d \in Conn : d # c => sent'[d] = sent[d] /\ inbox'[d] = inbox[d]
    BY <1>0, <2>1
  <2>3. FirstTypeOK'
    BY <1>0, <1>1, <2>1, <2>2 DEF BaseInv, FirstTypeOK, SocketsTypeOK
  <2>4. Fresh'
    BY <1>0, <1>4, <2>1, <2>2
  <2> QED
    BY <1>2, <2>3, <2>4 DEF BaseInv
<1>8. CASE Recv(c)
  <2>1. /\ peer[c] \in {"up", "fin"} /\ sndq[c] # <<>>
        /\ received' = [received EXCEPT ![c] = Append(@, Head(sndq[c]))]
        /\ sndq' = [sndq EXCEPT ![c] = Tail(@)]
        /\ UNCHANGED <<backlog, peer, inbox, sent>>
    BY <1>8 DEF Recv
  <2>2. Head(sndq[c]) \in Unit /\ Tail(sndq[c]) \in Seq(Unit)
    BY <1>0, <2>1
  <2>3. /\ received' \in [Conn -> Seq(Unit)] /\ sndq' \in [Conn -> Seq(Unit)]
        /\ \A d \in Conn : d # c => received'[d] = received[d] /\ sndq'[d] = sndq[d]
    BY <1>0, <2>1, <2>2
  <2>4. FirstTypeOK'
    BY <1>0, <1>1, <2>1, <2>3 DEF BaseInv, FirstTypeOK, SocketsTypeOK
  <2>5. Fresh'
    BY <1>0, <1>4, <2>1, <2>3
  <2> QED
    BY <1>2, <2>4, <2>5 DEF BaseInv
<1>9. CASE Fin(c) \/ Reset(c)
  <2>1. /\ peer[c] \in {"up", "fin"}
        /\ \E s \in PeerStates \ {"new"} : peer' = [peer EXCEPT ![c] = s]
        /\ \/ sndq' = sndq
           \/ sndq' = [sndq EXCEPT ![c] = <<>>]
        /\ UNCHANGED <<backlog, inbox, sent, received>>
    BY <1>9 DEF Fin, Reset, PeerStates
  <2>2. /\ peer' \in [Conn -> PeerStates] /\ peer'[c] # "new"
        /\ \A d \in Conn : d # c => peer'[d] = peer[d]
    BY <1>0, <2>1
  <2>3. /\ sndq' \in [Conn -> Seq(Unit)]
        /\ \A d \in Conn : sndq'[d] \in {sndq[d], <<>>}
        /\ \A d \in Conn : d # c => sndq'[d] = sndq[d]
    <3> DEFINE none == <<>>
    <3>1. none \in Seq(Unit)
      OBVIOUS
    <3> HIDE DEF none
    <3>2. sndq' = sndq \/ sndq' = [sndq EXCEPT ![c] = none]
      BY <2>1 DEF none
    <3>3. /\ sndq' \in [Conn -> Seq(Unit)]
          /\ \A d \in Conn : sndq'[d] \in {sndq[d], none}
          /\ \A d \in Conn : d # c => sndq'[d] = sndq[d]
      BY <1>0, <3>1, <3>2
    <3> QED
      BY <3>3 DEF none
  <2>4. FirstTypeOK'
    BY <1>0, <1>1, <2>1, <2>2, <2>3 DEF BaseInv, FirstTypeOK, SocketsTypeOK
  <2>5. Fresh'
    <3>1. \A d \in Conn : received[d] = <<>> /\ sndq[d] = <<>> =>
            received'[d] = <<>> /\ sndq'[d] = <<>>
      BY <2>1, <2>3
    <3> QED
      BY <1>0, <1>4, <2>1, <2>2, <2>3, <3>1
  <2> QED
    BY <1>2, <2>4, <2>5 DEF BaseInv
<1> QED
  BY <1>5, <1>6, <1>7, <1>8, <1>9 DEF Does

THEOREM BaseStep == BaseInv /\ [Next]_vars => BaseInv'
<1> SUFFICES ASSUME BaseInv, [Next]_vars PROVE BaseInv'
  OBVIOUS
<1>1. CASE Next
  BY <1>1, StepKinds, FirstExit, FirstAccept, FirstRead, FirstGoes, FirstCloses,
     FirstEcho, FirstLost, FirstDoes, FirstUrge
<1>2. CASE UNCHANGED vars
  BY <1>2 DEF vars, sockVars, allVars, progVars, BaseInv, FirstTypeOK, SocketsTypeOK,
              InUse, Sock, Fresh, Unmade, OneDescriptorEach, Free
<1> QED
  BY <1>1, <1>2

\* The types: among them that no read returns more than its buffer holds,
\* and that no descriptor is polled or served that is not a client's.
THEOREM FirstTypes == Spec => []FirstTypeOK
<1>1. BaseInv => FirstTypeOK
  BY DEF BaseInv
<1> QED
  BY <1>1, BaseInit, BaseStep, PTL DEF Spec

-----------------------------------------------------------------------------
(* Where each unit is.                                                     *)

\* What was read from c and is not yet written.
InHand(c) == IF phase = "write" /\ Sock = c THEN buf ELSE <<>>

\* Where the units of a client are, from the first to the last, and what of
\* them is out of the server.
Chain(r, q, h, i) == r \o q \o h \o i
Echoes(r, q, s) == IsPrefix(r \o q, s)

\* Nothing is lost, repeated or out of order between a client and itself.
Exact(c) == Chain(received[c], sndq[c], InHand(c), inbox[c]) = sent[c]

Claimed(c) == c \in LockStep \/ example \in Tls
There(c) == peer[c] \in {"new", "up", "fin"}

\* A client program has one message on its way at the most: that is why
\* echoing the first message of a read, and not waiting for room, does it no
\* harm.
TalkInv ==
  \A c \in Conn :
    /\ Claimed(c) /\ Running /\ There(c) => Exact(c)
    /\ Claimed(c) => Echoes(received[c], sndq[c], sent[c])
    /\ c \in LockStep => Len(sent[c]) <= Len(received[c]) + 1

LEMMA PrefixOfConcat ==
  ASSUME NEW r \in Seq(Unit), NEW x \in Seq(Unit)
  PROVE  IsPrefix(r, r \o x)
BY DEF IsPrefix

LEMMA PrefixOfPrefix ==
  ASSUME NEW r \in Seq(Unit), NEW x \in Seq(Unit), NEW s \in Seq(Unit),
         IsPrefix(r \o x, s)
  PROVE  IsPrefix(r \o <<>>, s)
<1>1. r \o <<>> = r /\ Len(r) <= Len(r \o x) /\ Len(r \o x) = Len(r) + Len(x)
  OBVIOUS
<1>2. Len(r \o x) <= Len(s) /\ SubSeq(r \o x, 1, Len(r \o x)) = SubSeq(s, 1, Len(r \o x))
  BY DEF IsPrefix
<1>3. \A i \in 1 .. Len(r) : r[i] = s[i]
  <2>1. ASSUME NEW i \in 1 .. Len(r) PROVE r[i] = s[i]
    <3>1. i \in 1 .. Len(r \o x) /\ (r \o x)[i] = r[i]
      BY <1>1
    <3>2. SubSeq(r \o x, 1, Len(r \o x))[i] = (r \o x)[i]
      BY <3>1
    <3>3. SubSeq(s, 1, Len(r \o x))[i] = s[i]
      BY <1>2, <3>1
    <3> QED
      BY <1>2, <3>1, <3>2, <3>3
  <2> QED
    BY <2>1
<1>4. Len(r) <= Len(s)
  BY <1>1, <1>2
<1>5. SubSeq(r, 1, Len(r)) = SubSeq(s, 1, Len(r))
  <2>1. /\ SubSeq(r, 1, Len(r)) = [i \in 1 .. Len(r) |-> r[i]]
        /\ SubSeq(s, 1, Len(r)) = [i \in 1 .. Len(r) |-> s[i]]
    BY <1>4
  <2> QED
    BY <1>3, <2>1
<1> QED
  BY <1>1, <1>4, <1>5 DEF IsPrefix

LEMMA Associative ==
  \A a, b, d \in Seq(Unit) : (a \o b) \o d = a \o (b \o d)
<1> SUFFICES ASSUME NEW a \in Seq(Unit), NEW b \in Seq(Unit), NEW d \in Seq(Unit)
             PROVE  (a \o b) \o d = a \o (b \o d)
  OBVIOUS
<1> QED
  BY ConcatAssociative

LEMMA ConcatFacts ==
  /\ \A a, b \in Seq(Unit) : a \o b \in Seq(Unit)
  /\ \A a, b, d \in Seq(Unit) : (a \o b) \o d = a \o (b \o d)
  /\ \A a \in Seq(Unit) : a \o <<>> = a /\ <<>> \o a = a
<1>1. \A a, b \in Seq(Unit) : a \o b \in Seq(Unit)
  OBVIOUS
<1>2. \A a, b, d \in Seq(Unit) : (a \o b) \o d = a \o (b \o d)
  BY Associative
<1>3. \A a \in Seq(Unit) : a \o <<>> = a /\ <<>> \o a = a
  BY ConcatEmptySeq, Zenon
<1> QED
  BY <1>1, <1>2, <1>3

\* The four ways in which a unit moves on.
LEMMA UnitSent ==
  ASSUME NEW r \in Seq(Unit), NEW q \in Seq(Unit), NEW h \in Seq(Unit),
         NEW i \in Seq(Unit), NEW u \in Unit
  PROVE  Chain(r, q, h, Append(i, u)) = Append(Chain(r, q, h, i), u)
<1> DEFINE a == r \o q \o h
<1>1. a \in Seq(Unit)
  OBVIOUS
<1> HIDE DEF a
<1>2. a \o Append(i, u) = Append(a \o i, u)
  BY <1>1
<1> QED
  BY <1>2 DEF a, Chain

LEMMA UnitReceived ==
  ASSUME NEW r \in Seq(Unit), NEW q \in Seq(Unit), q # <<>>
  PROVE  Append(r, Head(q)) \o Tail(q) = r \o q
<1>1. Head(q) \in Unit /\ Tail(q) \in Seq(Unit) /\ <<Head(q)>> \in Seq(Unit)
  BY HeadTailProperties
<1>2. <<Head(q)>> \o Tail(q) = q
  OBVIOUS
<1>3. Append(r, Head(q)) = r \o <<Head(q)>>
  BY <1>1, AppendIsConcat
<1>4. (r \o <<Head(q)>>) \o Tail(q) = r \o (<<Head(q)>> \o Tail(q))
  BY <1>1, ConcatAssociative
<1> QED
  BY <1>2, <1>3, <1>4

LEMMA UnitsRead ==
  ASSUME NEW r \in Seq(Unit), NEW q \in Seq(Unit), NEW i \in Seq(Unit),
         NEW n \in 0 .. Len(i)
  PROVE  Chain(r, q, SubSeq(i, 1, n), SubSeq(i, n + 1, Len(i)))
           = Chain(r, q, <<>>, i)
<1> DEFINE b == SubSeq(i, 1, n)
           d == SubSeq(i, n + 1, Len(i))
<1>1. n \in Nat /\ n <= Len(i) /\ Len(i) \in Nat
  OBVIOUS
<1>2. b \in Seq(Unit) /\ d \in Seq(Unit)
  BY <1>1, FirstCut
<1>3. b \o d = i
  <2>1. 1 \in 1 .. Len(i) + 1 /\ n \in 1 - 1 .. Len(i) /\ Len(i) \in n .. Len(i)
    BY <1>1
  <2>2. b \o d = SubSeq(i, 1, Len(i))
    BY <2>1, ConcatAdjacentSubSeq
  <2> QED
    BY <2>2, SubSeqFull
<1> HIDE DEF b, d
<1> DEFINE a == r \o q
<1>4. a \in Seq(Unit)
  OBVIOUS
<1> HIDE DEF a
<1>5. (a \o b) \o d = a \o (b \o d)
  BY <1>2, <1>4, Associative, Zenon
<1>6. a \o <<>> = a
  BY <1>4, ConcatEmptySeq
<1> QED
  BY <1>3, <1>5, <1>6 DEF a, b, d, Chain

LEMMA UnitWritten ==
  ASSUME NEW r \in Seq(Unit), NEW q \in Seq(Unit), NEW h \in Seq(Unit),
         NEW i \in Seq(Unit), Len(h) = 1
  PROVE  Chain(r, Append(q, Head(h)), <<>>, i) = Chain(r, q, h, i)
<1>1. h # <<>> /\ Tail(h) = <<>> /\ Head(h) \in Unit
  <2>1. h # <<>>
    <3>1. Len(<<>>) = 0 /\ 0 # 1
      OBVIOUS
    <3> QED
      BY <3>1, Zenon
  <2>2. /\ Head(h) \in Unit /\ Tail(h) \in Seq(Unit)
        /\ Len(Tail(h)) = 0
    BY <2>1, HeadTailProperties
  <2> QED
    BY <2>1, <2>2, EmptySeq
<1>2. Append(q, Head(h)) \o Tail(h) = q \o h
  BY <1>1, UnitReceived
<1>3. Append(q, Head(h)) \in Seq(Unit)
  BY <1>1
<1>4. Append(q, Head(h)) = q \o h
  BY <1>1, <1>2, <1>3, ConcatEmptySeq
<1>5. r \o (q \o h) = r \o q \o h
  BY ConcatFacts, ZenonT(30)
<1>6. r \o q \o h \in Seq(Unit)
  BY ConcatFacts, Zenon
<1>7. r \o q \o h \o <<>> = r \o q \o h
  BY <1>6, ConcatFacts, Zenon
<1> QED
  BY <1>4, <1>5, <1>7, Zenon DEF Chain

LEMMA FirstData ==
  ASSUME BaseInv, NEW c \in Conn
  PROVE  /\ received[c] \in Seq(Unit) /\ sndq[c] \in Seq(Unit)
         /\ inbox[c] \in Seq(Unit) /\ sent[c] \in Seq(Unit)
         /\ InHand(c) \in Seq(Unit) /\ buf \in Seq(Unit)
BY DEF BaseInv, FirstTypeOK, SocketsTypeOK, InHand

LEMMA OutIsPrefix ==
  ASSUME NEW r \in Seq(Unit), NEW q \in Seq(Unit), NEW h \in Seq(Unit),
         NEW i \in Seq(Unit), NEW s, Chain(r, q, h, i) = s
  PROVE  /\ Echoes(r, q, s)
         /\ Len(r) + Len(q) + Len(h) + Len(i) = Len(s)
<1> DEFINE a == r \o q
<1>1. a \in Seq(Unit) /\ h \o i \in Seq(Unit) /\ Len(a) = Len(r) + Len(q)
      /\ Len(h \o i) = Len(h) + Len(i)
  OBVIOUS
<1> HIDE DEF a
<1>2. a \o (h \o i) = s
  <2>1. (a \o h) \o i = a \o (h \o i)
    <3>1. a \in Seq(Unit) /\ h \in Seq(Unit) /\ i \in Seq(Unit)
      BY <1>1
    <3> QED
      BY <3>1, Associative, ZenonT(30)
  <2>2. (a \o h) \o i = s
    BY DEF a, Chain
  <2> QED
    BY <2>1, <2>2, Zenon
<1>3. IsPrefix(a, s) /\ Len(s) = Len(a) + Len(h \o i)
  <2>1. IsPrefix(a, a \o (h \o i))
    BY <1>1, PrefixOfConcat
  <2>2. Len(a \o (h \o i)) = Len(a) + Len(h \o i)
    <3> DEFINE b == h \o i
    <3>1. a \in Seq(Unit) /\ b \in Seq(Unit)
      BY <1>1
    <3> HIDE DEF b
    <3>2. Len(a \o b) = Len(a) + Len(b)
      BY <3>1
    <3> QED
      BY <3>2 DEF b
  <2> QED
    BY <1>2, <2>1, <2>2
<1>4. Len(r) \in Nat /\ Len(q) \in Nat /\ Len(h) \in Nat /\ Len(i) \in Nat
  OBVIOUS
<1>5. Len(r) + Len(q) + Len(h) + Len(i) = Len(s)
  BY <1>1, <1>3, <1>4
<1> QED
  BY <1>3, <1>5 DEF a, Echoes

\* What is exact is a prefix.
LEMMA ExactIsPrefix ==
  ASSUME BaseInv, NEW c \in Conn, Exact(c)
  PROVE  /\ Echoes(received[c], sndq[c], sent[c])
         /\ Len(received[c]) + Len(sndq[c]) + Len(InHand(c)) + Len(inbox[c])
              = Len(sent[c])
<1> DEFINE r == received[c]
           q == sndq[c]
           h == InHand(c)
           i == inbox[c]
           s == sent[c]
<1>1. /\ r \in Seq(Unit) /\ q \in Seq(Unit) /\ h \in Seq(Unit)
      /\ i \in Seq(Unit) /\ Chain(r, q, h, i) = s
  BY FirstData DEF Exact
<1> HIDE DEF r, q, h, i, s
<1>2. Echoes(r, q, s)
  BY <1>1, OutIsPrefix
<1>3. Len(r) + Len(q) + Len(h) + Len(i) = Len(s)
  BY <1>1, OutIsPrefix
<1> QED
  BY <1>2, <1>3 DEF r, q, h, i, s

\* A connection that nothing happens to.
LEMMA TalkFrame ==
  ASSUME TalkInv, NEW c \in Conn, example' = example,
         UNCHANGED <<received[c], sndq[c], inbox[c], sent[c]>>,
         Running' /\ There(c)' => /\ Running /\ There(c)
                                  /\ Claimed(c) => InHand(c)' = InHand(c)
  PROVE  /\ Claimed(c)' /\ Running' /\ There(c)' => Exact(c)'
         /\ Claimed(c)' => Echoes(received'[c], sndq'[c], sent'[c])
         /\ c \in LockStep => Len(sent'[c]) <= Len(received'[c]) + 1
BY DEF TalkInv, Claimed, Exact

\* Nothing is read from, written to or sent by anybody.
LEMMA TalkStill ==
  ASSUME TalkInv, UNCHANGED <<received, sndq, inbox, sent, example>>,
         \A c \in Conn : There(c)' => There(c),
         phase' # "write",
         Running' => Running,
         \A c \in Conn :
           phase = "write" /\ Running' /\ There(c) /\ Claimed(c) => Sock # c
  PROVE  TalkInv'
<1> SUFFICES ASSUME NEW c \in Conn
             PROVE  /\ Claimed(c)' /\ Running' /\ There(c)' => Exact(c)'
                    /\ Claimed(c)' => Echoes(received'[c], sndq'[c], sent'[c])
                    /\ c \in LockStep => Len(sent'[c]) <= Len(received'[c]) + 1
  BY DEF TalkInv
<1>1. Running' /\ There(c)' => /\ Running /\ There(c)
                               /\ Claimed(c) => InHand(c)' = InHand(c)
  BY DEF InHand
<1> QED
  BY <1>1, TalkFrame

\* What is written and lost is not a client program's, or its peer is gone.
LEMMA LostIsForeign ==
  ASSUME BaseInv, TalkInv, EchoIsLost, NEW c \in Conn, Claimed(c), There(c)
  PROVE  Sock # c
<1> SUFFICES ASSUME Sock = c PROVE FALSE
  OBVIOUS
<1>1. phase = "write" /\ buf # <<>>
  BY DEF EchoIsLost, BaseInv, InUse
<1>2. /\ example = "02" /\ Room(c) = 0
  BY DEF EchoIsLost, There
<1>3. c \in LockStep
  BY <1>2 DEF Claimed, Tls
<1>4. Exact(c)
  BY <1>1 DEF TalkInv, Running
<1>5. InHand(c) = buf
  BY <1>1 DEF InHand
<1>6. /\ Len(received[c]) + Len(sndq[c]) + Len(buf) + Len(inbox[c])
           = Len(sent[c])
      /\ Len(sent[c]) <= Len(received[c]) + 1
  BY <1>3, <1>4, <1>5, ExactIsPrefix DEF TalkInv
<1>7. /\ Len(received[c]) \in Nat /\ Len(sndq[c]) \in Nat /\ Len(buf) \in Nat
      /\ Len(inbox[c]) \in Nat /\ Len(buf) # 0
  BY <1>1, FirstData
<1>8. Len(sndq[c]) = SndBuf /\ SndBuf # 0
  BY <1>2, <1>7, BufAssumption DEF Room
<1> QED
  BY <1>6, <1>7, <1>8, SMTT(30)

\* What is echoed to a client is all that was read from it.
LEMMA EchoIsAll ==
  ASSUME BaseInv, TalkInv, phase = "write", Sock \in Conn, Claimed(Sock),
         There(Sock)
  PROVE  Len(buf) = 1
<1> DEFINE c == Sock
<1>1. buf # <<>> /\ (example \in Tls => Len(buf) = 1)
  BY DEF BaseInv, InUse
<1>2. CASE c \in LockStep
  <2>1. Exact(c) /\ InHand(c) = buf
    BY DEF TalkInv, Running, InHand
  <2>2. /\ Len(received[c]) + Len(sndq[c]) + Len(buf) + Len(inbox[c])
             = Len(sent[c])
        /\ Len(sent[c]) <= Len(received[c]) + 1
    BY <1>2, <2>1, ExactIsPrefix DEF TalkInv
  <2>3. /\ Len(received[c]) \in Nat /\ Len(sndq[c]) \in Nat /\ Len(buf) \in Nat
        /\ Len(inbox[c]) \in Nat /\ Len(buf) # 0
    BY <1>1, FirstData
  <2>4. \A r, q, b, i, s \in Nat :
          b # 0 /\ r + q + b + i = s /\ s <= r + 1 => b = 1
    OBVIOUS
  <2>5. Len(sent[c]) \in Nat
    BY FirstData
  <2> HIDE DEF c
  <2> QED
    BY <2>2, <2>3, <2>4, <2>5, Zenon
<1> QED
  BY <1>1, <1>2 DEF Claimed

LEMMA TalkEcho == ASSUME BaseInv, TalkInv, Echo PROVE TalkInv'
<1>1. /\ BaseInv' /\ Sock \in Conn /\ peer[Sock] \in {"up", "fin"}
      /\ sndq' = [sndq EXCEPT ![Sock] = Append(@, Head(buf))]
      /\ phase = "write" /\ phase' \in {"dispatch", "read"} /\ buf # <<>>
      /\ UNCHANGED <<fdTable, backlog, peer, inbox, sent, received, example>>
  BY FirstEcho
<1> SUFFICES ASSUME NEW c \in Conn
             PROVE  /\ Claimed(c)' /\ Running' /\ There(c)' => Exact(c)'
                    /\ Claimed(c)' => Echoes(received'[c], sndq'[c], sent'[c])
                    /\ c \in LockStep => Len(sent'[c]) <= Len(received'[c]) + 1
  BY DEF TalkInv
<1>2. InHand(c)' = <<>> /\ Running
  BY <1>1 DEF InHand, Running
<1>3. CASE c # Sock
  <2>1. sndq'[c] = sndq[c] /\ InHand(c) = <<>>
    BY <1>1, <1>3 DEF BaseInv, FirstTypeOK, SocketsTypeOK, InHand
  <2>2. Running' /\ There(c)' => /\ Running /\ There(c)
                                 /\ Claimed(c) => InHand(c)' = InHand(c)
    BY <1>1, <1>2, <2>1 DEF There
  <2> QED
    BY <1>1, <2>1, <2>2, TalkFrame
<1>4. CASE c = Sock /\ Claimed(c)
  <2>1. Exact(c) /\ InHand(c) = buf /\ Len(buf) = 1
    BY <1>1, <1>2, <1>4, EchoIsAll DEF TalkInv, There, InHand
  <2>2. /\ received[c] \in Seq(Unit) /\ sndq[c] \in Seq(Unit)
        /\ inbox[c] \in Seq(Unit) /\ buf \in Seq(Unit)
    BY FirstData
  <2>3. sndq'[c] = Append(sndq[c], Head(buf))
    BY <1>1, <1>4 DEF BaseInv, FirstTypeOK, SocketsTypeOK
  <2>4. Chain(received[c], Append(sndq[c], Head(buf)), <<>>, inbox[c])
          = Chain(received[c], sndq[c], buf, inbox[c])
    BY <2>1, <2>2, UnitWritten
  <2>5. Exact(c)'
    BY <1>1, <1>2, <2>1, <2>3, <2>4 DEF Exact
  <2>6. Echoes(received'[c], sndq'[c], sent'[c])
    <3>1. /\ received'[c] \in Seq(Unit) /\ sndq'[c] \in Seq(Unit)
          /\ InHand(c)' \in Seq(Unit) /\ inbox'[c] \in Seq(Unit)
      BY <1>1, <1>2 DEF BaseInv, FirstTypeOK, SocketsTypeOK
    <3> QED
      BY <2>5, <3>1, OutIsPrefix DEF Exact
  <2> QED
    BY <1>1, <2>5, <2>6 DEF TalkInv
<1>5. CASE ~Claimed(c)
  BY <1>1, <1>5 DEF Claimed
<1> QED
  BY <1>3, <1>4, <1>5

LEMMA TalkQuiet ==
  ASSUME BaseInv, TalkInv,
         \/ \E how \in {"stopped", "killed"} : Exit(how)
         \/ \E f \in Fd : AcceptOne(f) \/ AcceptNext(f)
         \/ Goes \/ ClientGone \/ EchoIsLost
         \/ \E c \in Conn : Urge(c)
  PROVE  TalkInv'
<1>1. ASSUME NEW how \in {"stopped", "killed"}, Exit(how) PROVE TalkInv'
  BY <1>1, TalkStill DEF Exit, Running, There
<1>2. ASSUME NEW f \in Fd, AcceptOne(f) \/ AcceptNext(f) PROVE TalkInv'
  BY <1>2, TalkStill DEF AcceptOne, AcceptNext, Take, IsNext, Running, Tls, There
<1>3. CASE Goes
  <2>1. /\ UNCHANGED <<sockVars, example>>
        /\ phase' \notin {"write", "stopped", "killed"}
    BY <1>3, FirstGoes
  <2>2. Running /\ phase # "write"
    BY <1>3 DEF Goes, Listen, HandshakeDone, DispatchDone, Poll, RemoveClient,
                IsNext, Running
  <2> QED
    BY <2>1, <2>2, TalkStill DEF sockVars, There
<1>4. CASE ClientGone
  BY <1>4, TalkStill DEF ClientGone, NextClient, Running, There
<1>5. CASE EchoIsLost
  <2>1. /\ Sock \in Conn /\ phase = "write" /\ phase' \in {"dispatch", "read"}
        /\ peer' = [peer EXCEPT ![Sock] = IF @ = "rst" THEN "pipe" ELSE @]
        /\ UNCHANGED <<inbox, sndq, sent, received, example>>
    BY <1>5, FirstLost
  <2>2. \A c \in Conn : There(c)' => There(c)
    BY <2>1 DEF There, BaseInv, FirstTypeOK, SocketsTypeOK
  <2>3. \A c \in Conn : There(c) /\ Claimed(c) => Sock # c
    BY <1>5, LostIsForeign
  <2>4. \A c \in Conn :
          phase = "write" /\ Running' /\ There(c) /\ Claimed(c) => Sock # c
    BY <2>3
  <2>5. Running /\ phase' # "write"
    BY <2>1 DEF Running
  <2> QED
    BY <2>1, <2>2, <2>4, <2>5, TalkStill
<1>6. ASSUME NEW c \in Conn, Urge(c) PROVE TalkInv'
  <2>1. /\ UNCHANGED <<received, sndq, inbox, sent, peer, example>>
        /\ (Running' <=> Running) /\ \A d \in Conn : InHand(d)' = InHand(d)
    BY <1>6 DEF Urge, sockVars, progVars, Running, InHand, Sock
  <2> QED
    BY <2>1 DEF TalkInv, Claimed, Exact, There
<1> QED
  BY <1>1, <1>2, <1>3, <1>4, <1>5, <1>6

\* What is read leaves the kernel's buffer for buf.
LEMMA TalkRead ==
  ASSUME BaseInv, TalkInv,
         \/ ReadMessage /\ example # "02"
         \/ \E f \in Fd : ReadNext(f) /\ example = "02"
  PROVE  TalkInv'
<1>1. /\ BaseInv' /\ Sock' \in Conn /\ phase # "write" /\ phase' = "write"
      /\ ReadInto(Sock')
      /\ UNCHANGED <<fdTable, backlog, peer, sndq, sent, received, example>>
  BY FirstRead
<1>2. Running
  BY DEF ReadMessage, ReadNext, IsNext, Running
<1> SUFFICES ASSUME NEW c \in Conn
             PROVE  /\ Claimed(c)' /\ Running' /\ There(c)' => Exact(c)'
                    /\ Claimed(c)' => Echoes(received'[c], sndq'[c], sent'[c])
                    /\ c \in LockStep => Len(sent'[c]) <= Len(received'[c]) + 1
  BY DEF TalkInv
<1>3. InHand(c) = <<>>
  BY <1>1 DEF InHand
<1>4. CASE c # Sock'
  <2>1. inbox'[c] = inbox[c] /\ InHand(c)' = <<>>
    BY <1>1, <1>4 DEF BaseInv, FirstTypeOK, SocketsTypeOK, ReadInto, InHand
  <2>2. Running' /\ There(c)' => /\ Running /\ There(c)
                                 /\ Claimed(c) => InHand(c)' = InHand(c)
    BY <1>1, <1>2, <1>3, <2>1 DEF There
  <2> QED
    BY <1>1, <2>1, <2>2, TalkFrame
<1>5. CASE c = Sock'
  <2> DEFINE n == ReadLen(c)
  <2>1. /\ InHand(c)' = SubSeq(inbox[c], 1, n) /\ inbox[c] # <<>>
        /\ inbox'[c] = SubSeq(inbox[c], n + 1, Len(inbox[c]))
    BY <1>1, <1>5 DEF BaseInv, FirstTypeOK, SocketsTypeOK, ReadInto, InHand
  <2>2. /\ received[c] \in Seq(Unit) /\ sndq[c] \in Seq(Unit)
        /\ inbox[c] \in Seq(Unit)
    BY FirstData
  <2>3. n \in 0 .. Len(inbox[c])
    BY <2>1, <2>2, ReadIs DEF BaseInv
  <2> HIDE DEF n
  <2>4. Chain(received[c], sndq[c], SubSeq(inbox[c], 1, n),
              SubSeq(inbox[c], n + 1, Len(inbox[c])))
          = Chain(received[c], sndq[c], <<>>, inbox[c])
    BY <2>2, <2>3, UnitsRead
  <2>5. Exact(c)' <=> Exact(c)
    BY <1>1, <1>3, <2>1, <2>4 DEF Exact
  <2> QED
    BY <1>1, <1>2, <2>5 DEF TalkInv, Claimed, There
<1> QED
  BY <1>4, <1>5

\* What a client does.
LEMMA TalkDoes ==
  ASSUME BaseInv, TalkInv, Running, NEW d \in Conn, Does(d), UNCHANGED allVars
  PROVE  TalkInv'
<1>0. /\ BaseInv' /\ Running' /\ example' = example /\ fdTable' = fdTable
      /\ \A c \in Conn : InHand(c)' = InHand(c)
  BY FirstDoes DEF allVars, progVars, Running, InHand, Sock, Does, Connect, Abort, Send,
                   Recv, Fin, Reset
<1>1. /\ peer \in [Conn -> PeerStates] /\ inbox \in [Conn -> Seq(Unit)]
      /\ sndq \in [Conn -> Seq(Unit)] /\ sent \in [Conn -> Seq(Unit)]
      /\ received \in [Conn -> Seq(Unit)]
  BY DEF BaseInv, FirstTypeOK, SocketsTypeOK
<1> SUFFICES ASSUME NEW c \in Conn
             PROVE  /\ Claimed(c)' /\ Running' /\ There(c)' => Exact(c)'
                    /\ Claimed(c)' => Echoes(received'[c], sndq'[c], sent'[c])
                    /\ c \in LockStep => Len(sent'[c]) <= Len(received'[c]) + 1
  BY DEF TalkInv
<1>2. /\ received[c] \in Seq(Unit) /\ sndq[c] \in Seq(Unit)
      /\ inbox[c] \in Seq(Unit) /\ InHand(c) \in Seq(Unit)
      /\ sent[c] \in Seq(Unit)
  BY FirstData
<1>3. CASE c # d
  <2>1. UNCHANGED <<received[c], sndq[c], inbox[c], sent[c], peer[c]>>
    BY <1>1, <1>3 DEF Does, Connect, Abort, Send, Recv, Fin, Reset
  <2> QED
    BY <1>0, <2>1, TalkFrame DEF There
<1>4. CASE c = d /\ (Connect(d) \/ Abort(d) \/ Fin(d))
  <2>1. /\ UNCHANGED <<received[c], sndq[c], inbox[c], sent[c]>>
        /\ There(c)' => There(c)
    BY <1>1, <1>4 DEF Connect, Abort, Fin, There
  <2> QED
    BY <1>0, <2>1, TalkFrame
<1>5. CASE c = d /\ Reset(d)
  <2>1. /\ UNCHANGED <<received[c], sent[c]>> /\ sndq'[c] = <<>>
        /\ ~There(c)'
    BY <1>1, <1>5 DEF Reset, There
  <2>2. Claimed(c) => Echoes(received[c], <<>>, sent[c])
    BY <1>2, PrefixOfPrefix DEF TalkInv, Echoes
  <2> QED
    BY <1>0, <2>1, <2>2 DEF TalkInv, Claimed
<1>6. ASSUME NEW u \in Unit, c = d, Send(d, u),
             c \in LockStep => Len(received[c]) = Len(sent[c])
      PROVE  /\ Claimed(c)' /\ Running' /\ There(c)' => Exact(c)'
             /\ Claimed(c)' => Echoes(received'[c], sndq'[c], sent'[c])
             /\ c \in LockStep => Len(sent'[c]) <= Len(received'[c]) + 1
  <2>1. /\ UNCHANGED <<received[c], sndq[c], peer>> /\ There(c)
        /\ sent'[c] = Append(sent[c], u) /\ inbox'[c] = Append(inbox[c], u)
    BY <1>1, <1>6 DEF Send, There
  <2>2. Chain(received[c], sndq[c], InHand(c), Append(inbox[c], u))
          = Append(Chain(received[c], sndq[c], InHand(c), inbox[c]), u)
    <3>1. /\ received[c] \in Seq(Unit) /\ sndq[c] \in Seq(Unit)
          /\ InHand(c) \in Seq(Unit) /\ inbox[c] \in Seq(Unit) /\ u \in Unit
      BY <1>2, <1>6
    <3> DEFINE Longer(r, q, h, i, v) ==
                 Chain(r, q, h, Append(i, v)) = Append(Chain(r, q, h, i), v)
    <3>2. \A r, q, h, i \in Seq(Unit), v \in Unit : Longer(r, q, h, i, v)
      BY UnitSent, Zenon
    <3> HIDE DEF Longer
    <3>3. Longer(received[c], sndq[c], InHand(c), inbox[c], u)
      BY <3>1, <3>2, Zenon
    <3> QED
      BY <3>3 DEF Longer
  <2>3. Claimed(c) => Exact(c)'
    BY <1>0, <2>1, <2>2 DEF TalkInv, Exact
  <2>4. Claimed(c) => Echoes(received'[c], sndq'[c], sent'[c])
    <3> SUFFICES ASSUME Claimed(c) PROVE Echoes(received'[c], sndq'[c], sent'[c])
      OBVIOUS
    <3>1. /\ received'[c] \in Seq(Unit) /\ sndq'[c] \in Seq(Unit)
          /\ InHand(c)' \in Seq(Unit) /\ inbox'[c] \in Seq(Unit)
      BY <1>0, <1>2, <2>1 DEF BaseInv, FirstTypeOK, SocketsTypeOK
    <3>2. Chain(received'[c], sndq'[c], InHand(c)', inbox'[c]) = sent'[c]
      BY <2>3 DEF Exact
    <3> QED
      BY <3>1, <3>2, OutIsPrefix
  <2>5. Len(sent'[c]) = Len(sent[c]) + 1
    BY <1>2, <2>1
  <2> QED
    BY <1>0, <1>2, <1>6, <2>1, <2>3, <2>4, <2>5 DEF Claimed
<1>7. CASE c = d /\ Recv(d)
  <2>1. /\ UNCHANGED <<inbox[c], sent[c], peer>> /\ sndq[c] # <<>>
        /\ received'[c] = Append(received[c], Head(sndq[c]))
        /\ sndq'[c] = Tail(sndq[c])
    BY <1>1, <1>7 DEF Recv
  <2>2. received'[c] \o sndq'[c] = received[c] \o sndq[c]
    BY <1>2, <2>1, UnitReceived
  <2>3. Len(received'[c]) = Len(received[c]) + 1
    BY <1>2, <2>1
  <2>4. Len(received[c]) \in Nat /\ Len(sent[c]) \in Nat
    BY <1>2
  <2>5. (Exact(c)' <=> Exact(c)) /\ (There(c)' <=> There(c))
    BY <1>0, <2>1, <2>2 DEF Exact, Chain, There
  <2>6. Echoes(received'[c], sndq'[c], sent'[c])
          <=> Echoes(received[c], sndq[c], sent[c])
    BY <2>1, <2>2 DEF Echoes
  <2>7. c \in LockStep => Len(sent'[c]) <= Len(received'[c]) + 1
    BY <2>1, <2>3, <2>4 DEF TalkInv
  <2> QED
    BY <1>0, <2>5, <2>6, <2>7 DEF TalkInv, Claimed
<1> QED
  BY <1>3, <1>4, <1>5, <1>6, <1>7 DEF Does

FirstInv == BaseInv /\ TalkInv

LEMMA TalkInit == Init => TalkInv
<1> SUFFICES ASSUME Init, NEW c \in Conn
             PROVE  /\ Claimed(c) /\ Running /\ There(c) => Exact(c)
                    /\ Claimed(c) => Echoes(received[c], sndq[c], sent[c])
                    /\ c \in LockStep => Len(sent[c]) <= Len(received[c]) + 1
  BY DEF TalkInv
<1>1. /\ received[c] = <<>> /\ sndq[c] = <<>> /\ inbox[c] = <<>>
      /\ sent[c] = <<>> /\ InHand(c) = <<>>
  BY DEF Init, SocketsInit, InHand
<1>2. <<>> \o <<>> = <<>> /\ Len(<<>>) <= Len(<<>>) + 1 /\ IsPrefix(<<>>, <<>>)
  BY DEF IsPrefix
<1> QED
  BY <1>1, <1>2 DEF Exact, Chain, Echoes

THEOREM TalkStep == FirstInv /\ [Next]_vars => TalkInv'
<1> SUFFICES ASSUME BaseInv, TalkInv, [Next]_vars PROVE TalkInv'
  BY DEF FirstInv
<1>1. CASE Next
  BY <1>1, StepKinds, TalkQuiet, TalkRead, TalkEcho, TalkDoes
<1>2. CASE UNCHANGED vars
  <2>1. /\ UNCHANGED <<received, sndq, inbox, sent, peer, example>>
        /\ (Running' <=> Running) /\ \A c \in Conn : InHand(c)' = InHand(c)
    BY <1>2 DEF vars, sockVars, allVars, progVars, Running, InHand, Sock
  <2> QED
    BY <2>1 DEF TalkInv, Claimed, Exact, There
<1> QED
  BY <1>1, <1>2

THEOREM FirstAlways == Spec => []FirstInv
<1>1. Init => FirstInv
  BY BaseInit, TalkInit DEF FirstInv
<1>2. FirstInv /\ [Next]_vars => FirstInv'
  BY BaseStep, TalkStep DEF FirstInv
<1> QED
  BY <1>1, <1>2, PTL DEF Spec

\* A client program gets its own messages back, in order, whatever is left
\* out, cut short or lost for others: also from example 02, which echoes only
\* the first message of a read and does not wait for room.
THEOREM FirstInStep == Spec => []InStep
<1>1. FirstInv => InStep
  BY DEF FirstInv, TalkInv, InStep, Claimed, Echoes
<1> QED
  BY <1>1, FirstAlways, PTL
-----------------------------------------------------------------------------
(* Why a server ends.                                                      *)

\* Nobody is there before the server listens.  Whoever was accepted had come,
\* and waits no more; 01, 05 and 06 accept one client, and of those that 02
\* accepted none has lost its descriptor.
Came ==
  /\ phase = "setup" => Unused
  /\ IsFiniteSet(accepted)
  /\ \A c \in accepted : peer[c] # "new" /\ ~Waiting(c)
  /\ \A f \in Fd : ~Free(f) => fdTable[f] \in accepted
  /\ example \in {"01", "05", "06"} =>
       /\ phase \in {"setup", "accept"} => accepted = {}
       /\ phase \in {"handshake", "read", "write"} => accepted = {Sock}
  /\ example = "02" /\ Running => \A c \in accepted : \E f \in Fd : fdTable[f] = c

\* What has arrived was sent: a server is not killed by what nobody said.
Heard ==
  /\ \A c \in Conn : ToSet(inbox[c]) \subseteq ToSet(sent[c])
  /\ phase = "write" => ToSet(buf) \subseteq ToSet(sent[Sock])

\* Who was in the queue when poll looked, and is not now, was lost from it.
QueueSeen == ListenFd \in pending => backlog # <<>> \/ \E c \in Conn : Lost(c)

\* Only urgent data gives a client events without POLLIN, and it stays
\* until that client is read from.
AlarmSeen ==
  /\ \A f \in unhandled : ~Free(f) /\ fdTable[f] \in urgent
  /\ example # "02" => unhandled = {}

EndInv == Came /\ Heard /\ QueueSeen /\ AlarmSeen /\ EndsForAReason

\* Why a server may stop, and why it may be killed.
MayStop ==
  \/ Unused
  \/ example \in {"01", "05", "06"} /\ \E c \in Conn : OnlyClientLeft(c)
  \/ /\ example \in Tls
     /\ \E c \in accepted : Unshaken(c) \/ Kill \in ToSet(sent[c])
  \/ /\ example = "02"
     /\ urgent # {} \/ UsedUp \/ \E c \in Conn : Lost(c)

MayBeKilled ==
  \E c \in accepted :
    /\ peer[c] \in {"rst", "pipe"} /\ example # "04"
    /\ example # "02" => accepted = {c}

LEMMA Reasons ==
  EndsForAReason <=> /\ phase = "stopped" => MayStop
                     /\ phase = "killed" => MayBeKilled
BY DEF EndsForAReason, MayStop, MayBeKilled

\* The ends.
Ending ==
  \/ phase = "setup"
  \/ HandshakeFails /\ example \in Tls
  \/ ReadEnds /\ example \in {"01", "05", "06"}
  \/ Killed
  \/ AcceptFails /\ example = "02"
  \/ example = "02" /\ \E f \in Fd : UnhandledEvents(f)

LEMMA ExitKinds ==
  ASSUME Next
  PROVE  \/ phase' \notin {"stopped", "killed"}
         \/ Exit("stopped") /\ Ending
         \/ Exit("killed") /\ example # "04" /\ (ShutdownKills \/ EchoKills)
<1>1. ASSUME \/ Starts \/ (\E f \in Fd : AcceptOne(f)) \/ HandshakeDone
             \/ ReadMessage \/ ClientGone \/ Echo \/ EchoIsLost
             \/ Poll \/ DispatchDone
             \/ \E f \in Fd : AcceptNext(f) \/ ReadNext(f) \/ RemoveClient(f)
      PROVE  \/ phase' \notin {"stopped", "killed"}
             \/ Exit("stopped") /\ phase = "setup"
  BY <1>1 DEF Starts, Listen, SetupFails, AcceptOne, HandshakeDone, ReadMessage,
       ReadInto, ClientGone, NextClient, Echo, EchoIsLost, Written, Turn, Poll,
       DispatchDone, AcceptNext, ReadNext, RemoveClient, IsNext
<1>2. CASE PlainMain
  BY <1>1, <1>2 DEF PlainMain, ReadEnds, EchoKills, Ending
<1>3. CASE PollingMain
  BY <1>1, <1>3 DEF PollingMain, AcceptFails, UnhandledEvents, EchoKills, Ending
<1>4. CASE GuideMain
  BY <1>1, <1>4 DEF GuideMain, HandshakeFails, Killed, Tls, Ending
<1>5. CASE BioTlsMain
  BY <1>1, <1>5 DEF BioTlsMain, HandshakeFails, ReadEnds, ShutdownKills, Killed,
                    EchoKills, Tls, Ending
<1>6. CASE Clients
  BY <1>6 DEF Clients, Urge, Running, allVars, progVars
<1> QED
  BY <1>2, <1>3, <1>4, <1>5, <1>6 DEF Next, Step

\* The members of a sequence that is sent on, or of which a part is read.
LEMMA Members ==
  ASSUME NEW s \in Seq(Unit)
  PROVE  /\ \A u \in Unit : ToSet(Append(s, u)) = ToSet(s) \cup {u}
         /\ \A n \in Nat : n <= Len(s) =>
              /\ ToSet(SubSeq(s, 1, n)) \subseteq ToSet(s)
              /\ ToSet(SubSeq(s, n + 1, Len(s))) \subseteq ToSet(s)
<1>1. ASSUME NEW u \in Unit
      PROVE  ToSet(Append(s, u)) = ToSet(s) \cup {u}
  <2> DEFINE t == Append(s, u)
  <2>1. /\ Len(s) \in Nat /\ DOMAIN t = 1 .. Len(s) + 1
        /\ t[Len(s) + 1] = u /\ \A i \in 1 .. Len(s) : t[i] = s[i]
        /\ DOMAIN s = 1 .. Len(s)
    OBVIOUS
  <2>2. DOMAIN t = DOMAIN s \cup {Len(s) + 1}
    BY <2>1
  <2> HIDE DEF t
  <2> QED
    BY <2>1, <2>2 DEF ToSet, t
<1>2. ASSUME NEW n \in Nat, n <= Len(s)
      PROVE  /\ ToSet(SubSeq(s, 1, n)) \subseteq ToSet(s)
             /\ ToSet(SubSeq(s, n + 1, Len(s))) \subseteq ToSet(s)
  <2>1. /\ \A i \in DOMAIN SubSeq(s, 1, n) :
             i \in DOMAIN s /\ SubSeq(s, 1, n)[i] = s[i]
        /\ \A i \in DOMAIN SubSeq(s, n + 1, Len(s)) :
             i + n \in DOMAIN s /\ SubSeq(s, n + 1, Len(s))[i] = s[i + n]
    BY <1>2, SMTT(30)
  <2> QED
    BY <2>1 DEF ToSet
<1> QED
  BY <1>1, <1>2

\* Whoever has a descriptor was accepted, and does not wait.
LEMMA ServedIsAccepted ==
  ASSUME BaseInv, EndInv, phase \in {"handshake", "read", "write"}
  PROVE  Sock \in Conn /\ Sock \in accepted /\ peer[Sock] # "new"
<1>1. cur \in Fd /\ Sock \in Conn
  BY DEF BaseInv, InUse
<1>2. ~Free(cur)
  BY <1>1, NoConnAssumption DEF Free, Sock
<1> QED
  BY <1>1, <1>2 DEF EndInv, Came, Sock

\* Without a free descriptor each is open on one that was accepted, and with
\* example 02 these are all that were.
LEMMA OutOfFds ==
  ASSUME BaseInv, EndInv, example = "02", Running, backlog # <<>>,
         \A f \in Fd : ~Free(f)
  PROVE  UsedUp
<1>1. /\ \A f \in Fd : fdTable[f] \in accepted
      /\ \A c \in accepted : \E f \in Fd : fdTable[f] = c
      /\ IsFiniteSet(accepted)
      /\ \A f, h \in Fd : fdTable[f] = fdTable[h] => f = h
  BY DEF EndInv, Came, BaseInv, OneDescriptorEach
<1> DEFINE g == [f \in Fd |-> fdTable[f]]
<1>2. /\ g \in [Fd -> accepted]
      /\ \A f, h \in Fd : g[f] = g[h] => f = h
      /\ \A c \in accepted : \E f \in Fd : g[f] = c
  BY <1>1
<1> HIDE DEF g
<1>3. g \in Injection(Fd, accepted) /\ g \in Surjection(Fd, accepted)
  BY <1>2 DEF Injection, IsInjective, Surjection
<1>4. Cardinality(Fd) = Cardinality(accepted)
  BY <1>1, <1>3, FS_Injection
<1> QED
  BY <1>4 DEF UsedUp

LEMMA WhyStopped ==
  ASSUME BaseInv, EndInv, Ending
  PROVE  MayStop
<1>1. CASE phase = "setup"
  BY <1>1 DEF EndInv, Came, MayStop
<1>2. CASE HandshakeFails /\ example \in Tls
  <2>1. Sock \in Conn /\ Sock \in accepted
    BY <1>2, ServedIsAccepted DEF HandshakeFails
  <2>2. CASE peer[Sock] # "up"
    <3>1. received[Sock] = <<>> /\ sndq[Sock] = <<>>
      BY <1>2 DEF HandshakeFails, BaseInv, Fresh
    <3>2. <<>> \o <<>> = <<>>
      OBVIOUS
    <3>3. received[Sock] \o sndq[Sock] = <<>>
      BY <3>1, <3>2, Zenon
    <3>4. Unshaken(Sock)
      BY <2>2, <3>3 DEF Unshaken
    <3> QED
      BY <1>2, <2>1, <3>4 DEF MayStop
  <2>3. CASE Sock \in Plain /\ inbox[Sock] # <<>>
    <3>1. inbox[Sock] \in Seq(Unit)
      BY <2>1 DEF BaseInv, FirstTypeOK, SocketsTypeOK
    <3>2. ToSet(inbox[Sock]) # {}
      <4>1. 1 \in DOMAIN inbox[Sock]
        BY <2>3, <3>1
      <4> QED
        BY <4>1 DEF ToSet
    <3>3. Unshaken(Sock)
      BY <2>1, <2>3, <3>2 DEF EndInv, Heard, ToSet, Unshaken
    <3> QED
      BY <1>2, <2>1, <3>3 DEF MayStop
  <2> QED
    BY <1>2, <2>2, <2>3 DEF HandshakeFails, Readable
<1>3. CASE ReadEnds /\ example \in {"01", "05", "06"}
  <2>1. Sock \in Conn /\ phase = "read" /\ peer[Sock] # "up"
    BY <1>3, ServedIsAccepted DEF ReadEnds, Ends
  <2>2. OnlyClientLeft(Sock)
    BY <1>3, <2>1 DEF EndInv, Came, OnlyClientLeft
  <2> QED
    BY <1>3, <2>1, <2>2 DEF MayStop
<1>4. CASE Killed
  <2>1. /\ Sock \in Conn /\ Sock \in accepted /\ buf = <<Kill>>
        /\ example \in Tls /\ phase = "write"
    BY <1>4, ServedIsAccepted DEF Killed, IsKill
  <2>2. Kill \in ToSet(buf)
    BY <2>1 DEF ToSet
  <2> QED
    BY <2>1, <2>2 DEF EndInv, Heard, MayStop
<1>5. CASE AcceptFails /\ example = "02"
  <2>1. backlog # <<>> \/ \E c \in Conn : Lost(c)
    BY <1>5 DEF AcceptFails, IsNext, EndInv, QueueSeen
  <2>2. CASE backlog # <<>>
    BY <1>5, <2>2, OutOfFds DEF AcceptFails, IsNext, Running, MayStop
  <2> QED
    BY <1>5, <2>1, <2>2 DEF MayStop
<1>6. ASSUME example = "02", NEW f \in Fd, UnhandledEvents(f) PROVE MayStop
  BY <1>6 DEF UnhandledEvents, EndInv, AlarmSeen, MayStop
<1> QED
  BY <1>1, <1>2, <1>3, <1>4, <1>5, <1>6 DEF Ending

LEMMA WhyKilled ==
  ASSUME BaseInv, EndInv, example # "04", ShutdownKills \/ EchoKills
  PROVE  MayBeKilled
<1>1. /\ phase \in {"read", "write"}
      /\ Sock \in accepted /\ peer[Sock] \in {"rst", "pipe"}
  BY ServedIsAccepted DEF ShutdownKills, EchoKills
<1>2. example # "02" => example \in {"01", "05", "06"}
  BY DEF BaseInv, FirstTypeOK, Examples
<1>3. example # "02" => accepted = {Sock}
  BY <1>1, <1>2 DEF EndInv, Came
<1> QED
  BY <1>1, <1>3 DEF MayBeKilled

LEMMA EndExit ==
  ASSUME BaseInv, EndInv, NEW how \in {"stopped", "killed"}, Exit(how),
         IF how = "stopped" THEN MayStop ELSE MayBeKilled
  PROVE  EndInv'
<1>1. /\ UNCHANGED <<peer, backlog, inbox, sent, received, sndq, example, urgent,
                     accepted>>
      /\ phase' = how /\ pending' = {} /\ unhandled' = {}
      /\ \A f \in Fd : fdTable'[f] = NoConn
  BY DEF Exit
<1>2. phase' = "stopped" => MayStop'
  BY <1>1 DEF MayStop, Unused, OnlyClientLeft, Unshaken, UsedUp, Lost, Waiting
<1>3. phase' = "killed" => MayBeKilled'
  BY <1>1 DEF MayBeKilled
<1>4. EndsForAReason'
  BY <1>2, <1>3 DEF EndsForAReason, MayStop, MayBeKilled
<1>5. Came'
  BY <1>1 DEF EndInv, Came, Waiting, Free, Running
<1> QED
  BY <1>1, <1>4, <1>5 DEF EndInv, Heard, QueueSeen, AlarmSeen

\* A step of a server that goes on, accepts nobody and reads nothing.
LEMMA EndGoes ==
  ASSUME BaseInv, EndInv, Running,
         UNCHANGED <<fdTable, backlog, inbox, sent, example, urgent, accepted>>,
         \A c \in Conn : peer'[c] = "new" <=> peer[c] = "new",
         phase' \notin {"setup", "write", "stopped", "killed"},
         phase' = "accept" => phase = "setup",
         phase' \in {"handshake", "read"} =>
           phase \in {"handshake", "write"} /\ cur' = cur,
         ListenFd \in pending' => backlog # <<>> \/ ListenFd \in pending,
         \A f \in unhandled' : f \in unhandled \/ (Alarmed(f) /\ example = "02")
  PROVE  EndInv'
<1>1. accepted \subseteq Conn
  BY DEF BaseInv, FirstTypeOK
<1>2. Came'
  <2>1. \A c \in accepted : peer'[c] # "new" /\ ~Waiting(c)'
    BY <1>1 DEF EndInv, Came, Waiting
  <2>2. phase' \in {"handshake", "read", "write"} => Sock' = Sock
    BY DEF Sock
  <2> QED
    BY <2>1, <2>2 DEF EndInv, Came, Free
<1>3. \A c \in Conn : Lost(c)' <=> Lost(c)
  BY DEF Lost, Waiting
<1>4. QueueSeen'
  BY <1>3 DEF EndInv, QueueSeen
<1>5. AlarmSeen'
  <2>1. \A f \in Fd : Alarmed(f) => ~Free(f) /\ fdTable[f] \in urgent
    BY NoConnAssumption DEF Alarmed, Free, BaseInv, InUse
  <2>2. \A f \in unhandled' : f \in unhandled \/ f \in Fd
    BY DEF Alarmed, BaseInv, FirstTypeOK
  <2> QED
    BY <2>1, <2>2 DEF EndInv, AlarmSeen, Free
<1> QED
  BY <1>2, <1>4, <1>5 DEF EndInv, Heard, EndsForAReason

\* accept makes one of those that wait one of those that are served.
LEMMA EndAccept ==
  ASSUME BaseInv, EndInv, NEW f \in Fd,
         \/ AcceptOne(f) /\ example # "02"
         \/ AcceptNext(f) /\ example = "02"
  PROVE  EndInv'
<1> DEFINE c == Head(backlog)
<1>1. /\ fdTable[f] = NoConn /\ backlog # <<>>
      /\ backlog' = Tail(backlog) /\ fdTable' = [fdTable EXCEPT ![f] = c]
      /\ accepted' = accepted \cup {c}
      /\ UNCHANGED <<peer, inbox, sent, example, urgent, unhandled>>
      /\ phase' \in {"handshake", "read", "dispatch"}
      /\ example # "02" => phase = "accept" /\ cur' = f
      /\ ListenFd \notin pending'
  BY DEF AcceptOne, AcceptNext, Take, LowestFree, Free, IsNext, pollVars,
         BaseInv, InUse
<1>2. /\ c = backlog[1] /\ 1 \in DOMAIN backlog /\ c \in Conn
      /\ \A i \in DOMAIN Tail(backlog) :
           /\ i + 1 \in DOMAIN backlog /\ i + 1 # 1
           /\ Tail(backlog)[i] = backlog[i + 1]
  BY <1>1, FirstTail DEF BaseInv
<1> HIDE DEF c
<1>3. fdTable'[f] = c /\ \A g \in Fd : g # f => fdTable'[g] = fdTable[g]
  BY <1>1, <1>2 DEF BaseInv, FirstTypeOK, SocketsTypeOK
<1>4. /\ peer[c] # "new" /\ \A g \in Fd : fdTable[g] # c
      /\ \A j \in DOMAIN backlog : backlog[j] = c => j = 1
  BY <1>2 DEF BaseInv, Fresh
<1>5. Came'
  <2>1. IsFiniteSet(accepted')
    BY <1>1, FS_AddElement DEF EndInv, Came
  <2>2. \A d \in accepted' : peer'[d] # "new" /\ ~Waiting(d)'
    BY <1>1, <1>2, <1>4 DEF EndInv, Came, Waiting
  <2>3. \A g \in Fd : ~Free(g)' => fdTable'[g] \in accepted'
    BY <1>1, <1>3 DEF EndInv, Came, Free
  <2>4. ASSUME example \in {"01", "05", "06"} PROVE accepted' = {Sock'}
    <3>1. accepted = {} /\ cur' = f
      BY <1>1, <2>4 DEF EndInv, Came
    <3> QED
      BY <1>1, <1>3, <3>1 DEF Sock
  <2>5. ASSUME example = "02"
        PROVE  \A d \in accepted' : \E g \in Fd : fdTable'[g] = d
    <3>1. ASSUME NEW d \in accepted PROVE \E g \in Fd : fdTable'[g] = d
      <4>1. PICK g \in Fd : fdTable[g] = d
        BY <2>5, <3>1 DEF EndInv, Came, AcceptNext, IsNext, Running, AcceptOne
      <4>2. d # NoConn
        BY <3>1, NoConnAssumption DEF BaseInv, FirstTypeOK
      <4> QED
        BY <1>1, <1>3, <4>1, <4>2
    <3> QED
      BY <1>1, <1>3, <3>1
  <2> QED
    BY <1>1, <2>1, <2>2, <2>3, <2>4, <2>5 DEF Came
<1>6. AlarmSeen'
  <2>1. unhandled \subseteq Fd
    BY DEF BaseInv, FirstTypeOK
  <2> QED
    BY <1>1, <1>3, <2>1 DEF EndInv, AlarmSeen, Free
<1> QED
  BY <1>1, <1>5, <1>6 DEF EndInv, Heard, QueueSeen, EndsForAReason

LEMMA EndRead ==
  ASSUME BaseInv, EndInv,
         \/ ReadMessage /\ example # "02"
         \/ \E f \in Fd : ReadNext(f) /\ example = "02"
  PROVE  EndInv'
<1>1. /\ Sock' \in Conn /\ phase' = "write" /\ ReadInto(Sock')
      /\ UNCHANGED <<fdTable, backlog, peer, sent, example, unhandled, accepted>>
  BY FirstRead DEF ReadInto
<1>2. ListenFd \in pending' => ListenFd \in pending
  BY DEF ReadMessage, ReadNext
<1> DEFINE c == Sock'
           s == inbox[c]
           n == ReadLen(c)
<1>3. /\ s # <<>> /\ s \in Seq(Unit) /\ c \in Conn
      /\ buf' = SubSeq(s, 1, n)
      /\ inbox' = [inbox EXCEPT ![c] = SubSeq(s, n + 1, Len(s))]
      /\ inbox \in [Conn -> Seq(Unit)]
      /\ urgent' = urgent \ {c}
  BY <1>1 DEF ReadInto, BaseInv, FirstTypeOK, SocketsTypeOK
<1> HIDE DEF c
<1>4. n \in Nat /\ n <= Len(s)
  BY <1>3, ReadIs DEF BaseInv
<1> HIDE DEF n
<1>5. /\ ToSet(SubSeq(s, 1, n)) \subseteq ToSet(s)
      /\ ToSet(SubSeq(s, n + 1, Len(s))) \subseteq ToSet(s)
  BY <1>3, <1>4, Members
<1>6. /\ inbox'[c] = SubSeq(s, n + 1, Len(s))
      /\ \A d \in Conn : d # c => inbox'[d] = inbox[d]
  BY <1>3
<1> HIDE DEF s
<1>7. ToSet(s) \subseteq ToSet(sent[c])
  BY <1>3 DEF EndInv, Heard, s
<1>8. Heard'
  <2>1. \A d \in Conn : ToSet(inbox'[d]) \subseteq ToSet(sent[d])
    BY <1>5, <1>6, <1>7 DEF EndInv, Heard
  <2>2. ToSet(buf') \subseteq ToSet(sent[c])
    BY <1>3, <1>5, <1>7
  <2> QED
    BY <1>1, <2>1, <2>2 DEF Heard, c
<1>9. Came'
  <2>1. Running /\ (example # "02" => phase = "read" /\ cur' = cur)
    BY DEF ReadMessage, ReadNext, IsNext, Running
  <2> QED
    BY <1>1, <2>1 DEF EndInv, Came, Unused, Waiting, Free, Sock
<1>10. AlarmSeen'
  <2>1. CASE example = "02"
    <3>1. PICK f \in Fd : ReadNext(f)
      BY <2>1
    <3>2. f \notin unhandled /\ c = fdTable[f]
      BY <1>1, <3>1 DEF ReadNext, Sock, c
    <3>3. \A g \in unhandled : g \in Fd /\ fdTable[g] # c
      BY <3>2 DEF BaseInv, FirstTypeOK, OneDescriptorEach, EndInv, AlarmSeen
    <3> QED
      BY <1>1, <1>3, <2>1, <3>3 DEF EndInv, AlarmSeen, Free
  <2>2. CASE example # "02"
    BY <1>1, <2>2 DEF EndInv, AlarmSeen
  <2> QED
    BY <2>1, <2>2
<1>11. QueueSeen'
  BY <1>1, <1>2 DEF EndInv, QueueSeen, Lost, Waiting
<1> QED
  BY <1>1, <1>8, <1>9, <1>10, <1>11 DEF EndInv, EndsForAReason

\* What a server does between these.
LEMMA EndTurns ==
  ASSUME BaseInv, EndInv,
         Goes \/ (ClientGone /\ example = "04") \/ Echo \/ EchoIsLost
  PROVE  EndInv'
<1>1. CASE Goes
  <2>1. /\ Running
        /\ UNCHANGED <<fdTable, backlog, peer, inbox, sent, example, urgent,
                       accepted, cur>>
        /\ phase' \in {"poll", "accept", "read", "dispatch"}
        /\ phase' = "accept" => phase = "setup"
        /\ phase' = "read" => phase = "handshake"
    BY <1>1 DEF Goes, Listen, HandshakeDone, Poll, RemoveClient, DispatchDone,
                sockVars, IsNext, Running
  <2>2. /\ ListenFd \in pending' => backlog # <<>> \/ ListenFd \in pending
        /\ \A f \in unhandled' : f \in unhandled \/ (Alarmed(f) /\ example = "02")
    <3>1. ~Alarmed(ListenFd)
      BY FirstListenerApart DEF Alarmed, BaseInv, FirstTypeOK
    <3> QED
      BY <1>1, <3>1 DEF Goes, Listen, HandshakeDone, Poll, Ready, RemoveClient,
                        DispatchDone, pollVars
  <2> QED
    BY <2>1, <2>2, EndGoes
<1>2. CASE Echo \/ EchoIsLost
  <2>1. /\ phase = "write" /\ phase' \in {"dispatch", "read"}
        /\ UNCHANGED <<fdTable, backlog, inbox, sent, example, urgent, accepted,
                       cur, pending, unhandled>>
    BY <1>2 DEF Echo, EchoIsLost, Written, Turn, pollVars
  <2>2. \A c \in Conn : peer'[c] = "new" <=> peer[c] = "new"
    <3>1. CASE Echo
      BY <3>1 DEF Echo
    <3>2. CASE EchoIsLost
      BY <3>2, FirstLost DEF BaseInv, FirstTypeOK, SocketsTypeOK
    <3> QED
      BY <1>2, <3>1, <3>2
  <2>3. Running
    BY <2>1 DEF Running
  <2> QED
    BY <2>1, <2>2, <2>3, EndGoes
<1>3. CASE ClientGone /\ example = "04"
  <2>1. /\ fdTable' = [fdTable EXCEPT ![cur] = NoConn] /\ phase' = "accept"
        /\ UNCHANGED <<backlog, peer, inbox, sent, example, urgent, accepted,
                       pending, unhandled>>
    BY <1>3 DEF ClientGone, NextClient, pollVars
  <2>2. \A f \in Fd : fdTable'[f] \in {fdTable[f], NoConn}
    BY <2>1 DEF BaseInv, FirstTypeOK, SocketsTypeOK
  <2>3. Came'
    BY <1>3, <2>1, <2>2 DEF EndInv, Came, Waiting, Free
  <2>4. QueueSeen' /\ AlarmSeen'
    BY <1>3, <2>1 DEF EndInv, QueueSeen, Lost, Waiting, AlarmSeen
  <2> QED
    BY <2>1, <2>3, <2>4 DEF EndInv, Heard, EndsForAReason
<1> QED
  BY <1>1, <1>2, <1>3

\* Who was lost stays so, and who was accepted does not come back.
LEMMA EndDoes ==
  ASSUME BaseInv, EndInv, Running, NEW c \in Conn, Does(c), UNCHANGED allVars
  PROVE  EndInv'
<1>0. /\ backlog \in Seq(Conn) /\ peer \in [Conn -> PeerStates]
      /\ inbox \in [Conn -> Seq(Unit)] /\ sent \in [Conn -> Seq(Unit)]
      /\ accepted \subseteq Conn /\ BaseInv'
      /\ UNCHANGED <<example, phase, cur, buf, pending, unhandled, urgent, accepted>>
  BY FirstDoes DEF BaseInv, FirstTypeOK, SocketsTypeOK, allVars, progVars
<1>1. UNCHANGED fdTable
  BY DEF Does, Connect, Abort, Send, Recv, Fin, Reset
<1>2. \/ UNCHANGED backlog
      \/ Abort(c) /\ backlog # <<>> /\ Head(backlog) = c /\ backlog' = Tail(backlog)
      \/ Connect(c) /\ peer[c] = "new" /\ backlog' = Append(backlog, c)
  BY DEF Does, Connect, Abort, Send, Recv, Fin, Reset
<1>3. \A d \in Conn : Waiting(d)' => Waiting(d) \/ peer[d] = "new"
  <2>1. CASE backlog # <<>> /\ backlog' = Tail(backlog)
    BY <2>1, FirstTail DEF BaseInv, Waiting
  <2>2. CASE peer[c] = "new" /\ backlog' = Append(backlog, c)
    <3>1. \A i \in DOMAIN backlog' :
            (i \in DOMAIN backlog /\ backlog'[i] = backlog[i]) \/ backlog'[i] = c
      BY <1>0, <2>2, SMTT(30)
    <3> QED
      BY <2>2, <3>1 DEF Waiting
  <2> QED
    BY <1>2, <2>1, <2>2 DEF Waiting
<1>4. \A d \in Conn : peer[d] # "new" => peer'[d] # "new"
  BY <1>0 DEF Does, Connect, Abort, Send, Recv, Fin, Reset
<1>5. phase = "setup" => Unused'
  <2>1. ASSUME phase = "setup" PROVE peer[c] = "new"
    BY <2>1 DEF EndInv, Came, Unused
  <2>2. ASSUME phase = "setup" PROVE FALSE
    <3>1. ~Abort(c)
      <4>1. ASSUME Abort(c) PROVE FALSE
        <5>1. backlog # <<>> /\ Head(backlog) = c
          BY <4>1 DEF Abort
        <5>2. peer[c] # "new"
          BY <5>1, FirstTail DEF BaseInv, Fresh
        <5> QED
          BY <2>1, <2>2, <5>2
      <4> QED
        BY <4>1
    <3>2. sndq[c] = <<>>
      BY <2>1, <2>2 DEF BaseInv, Fresh, Unmade
    <3> QED
      BY <2>1, <2>2, <3>1, <3>2 DEF Does, Connect, Send, Recv, Fin, Reset
  <2> QED
    BY <2>2
<1>6. Came'
  <2>1. \A d \in accepted : peer'[d] # "new" /\ ~Waiting(d)'
    BY <1>0, <1>3, <1>4 DEF EndInv, Came
  <2> QED
    BY <1>0, <1>1, <1>5, <2>1 DEF EndInv, Came, Free, Sock, Running
<1>7. Heard'
  <2>1. CASE UNCHANGED <<inbox, sent>>
    BY <1>0, <1>1, <2>1 DEF EndInv, Heard, Sock
  <2>2. ASSUME NEW u \in Unit, Send(c, u) PROVE Heard'
    <3>1. /\ sent' = [sent EXCEPT ![c] = Append(@, u)]
          /\ inbox' = [inbox EXCEPT ![c] = Append(@, u)]
      BY <2>2 DEF Send
    <3>2. /\ sent'[c] = Append(sent[c], u) /\ inbox'[c] = Append(inbox[c], u)
          /\ \A d \in Conn : d # c => sent'[d] = sent[d] /\ inbox'[d] = inbox[d]
      BY <1>0, <3>1
    <3>3. /\ ToSet(sent'[c]) = ToSet(sent[c]) \cup {u}
          /\ ToSet(inbox'[c]) = ToSet(inbox[c]) \cup {u}
      BY <1>0, <2>2, <3>2, Members
    <3>4. \A d \in Conn : ToSet(inbox'[d]) \subseteq ToSet(sent'[d])
      BY <3>2, <3>3 DEF EndInv, Heard
    <3>5. phase = "write" => Sock \in Conn /\ Sock' = Sock
      BY <1>0, <1>1 DEF BaseInv, InUse, Sock
    <3>6. phase = "write" => ToSet(buf) \subseteq ToSet(sent'[Sock])
      BY <3>2, <3>3, <3>5 DEF EndInv, Heard
    <3> QED
      BY <1>0, <3>4, <3>5, <3>6 DEF Heard
  <2>3. CASE ~(\E u \in Unit : Send(c, u))
    <3>1. UNCHANGED <<inbox, sent>>
      BY <2>3 DEF Does, Connect, Abort, Recv, Fin, Reset
    <3> QED
      BY <2>1, <3>1
  <2> QED
    BY <2>2, <2>3
<1>8. QueueSeen'
  <2>1. \A d \in Conn : Lost(d) => Lost(d)'
    BY <1>0, <1>3, <1>4 DEF Lost
  <2>2. ASSUME backlog # <<>> PROVE backlog' # <<>> \/ \E d \in Conn : Lost(d)'
    <3>1. CASE Abort(c) /\ Head(backlog) = c /\ backlog' = Tail(backlog)
      <4>1. c = backlog[1] /\ 1 \in DOMAIN backlog
        BY <2>2, <3>1, FirstTail DEF BaseInv
      <4>2. peer[c] # "new" /\ c \notin accepted
        BY <4>1 DEF BaseInv, Fresh, EndInv, Came, Waiting
      <4>3. ~Waiting(c)'
        <5>1. \A j \in DOMAIN backlog : backlog[j] = c => j = 1
          BY <4>1 DEF BaseInv, Fresh
        <5> QED
          BY <2>2, <3>1, <5>1, FirstTail DEF BaseInv, Waiting
      <4> QED
        BY <1>0, <1>4, <4>2, <4>3 DEF Lost
    <3>2. CASE backlog' = Append(backlog, c)
      <4>1. Append(backlog, c) # <<>>
        BY <1>0, AppendProperties
      <4> QED
        BY <3>2, <4>1
    <3> QED
      BY <1>2, <2>2, <3>1, <3>2
  <2> QED
    BY <1>0, <2>1, <2>2 DEF EndInv, QueueSeen
<1>9. AlarmSeen'
  BY <1>0, <1>1 DEF EndInv, AlarmSeen, Free
<1> QED
  BY <1>0, <1>6, <1>7, <1>8, <1>9 DEF EndInv, EndsForAReason, Running

LEMMA EndUrge ==
  ASSUME EndInv, NEW c \in Conn, Running, Urge(c)
  PROVE  EndInv'
<1>1. urgent \subseteq urgent' /\ UNCHANGED <<sockVars, progVars, accepted>>
  BY DEF Urge
<1>2. Came' /\ Heard'
  BY <1>1 DEF EndInv, Came, Heard, Unused, Waiting, Free, Sock, Running, sockVars,
              progVars
<1>3. QueueSeen' /\ AlarmSeen'
  BY <1>1 DEF EndInv, QueueSeen, Lost, Waiting, AlarmSeen, Free, sockVars,
              progVars
<1> QED
  BY <1>1, <1>2, <1>3 DEF EndInv, EndsForAReason, Running, progVars

LEMMA EndStep ==
  ASSUME FirstInv, EndInv, [Next]_vars
  PROVE  EndInv'
<1>0. BaseInv
  BY DEF FirstInv
<1>1. ASSUME Next, NEW how \in {"stopped", "killed"}, Exit(how) PROVE EndInv'
  <2>1. phase' = how
    BY <1>1 DEF Exit
  <2>2. CASE how = "stopped"
    <3>1. Ending
      BY <1>1, <2>1, <2>2, ExitKinds DEF Exit
    <3>2. MayStop
      BY <1>0, <3>1, WhyStopped
    <3> QED
      BY <1>0, <1>1, <2>2, <3>2, EndExit
  <2>3. CASE how = "killed"
    <3>1. example # "04" /\ (ShutdownKills \/ EchoKills)
      BY <1>1, <2>1, <2>3, ExitKinds DEF Exit
    <3>2. MayBeKilled
      BY <1>0, <3>1, WhyKilled
    <3> QED
      BY <1>0, <1>1, <2>3, <3>2, EndExit
  <2> QED
    BY <1>1, <2>2, <2>3
<1>2. CASE UNCHANGED vars
  <2>1. Came' /\ Heard'
    BY <1>2 DEF vars, sockVars, allVars, progVars, EndInv, Came, Heard, Unused,
                Waiting, Free, Sock, Running
  <2>2. QueueSeen' /\ AlarmSeen'
    BY <1>2 DEF vars, sockVars, allVars, progVars, EndInv, QueueSeen, Lost,
                Waiting, AlarmSeen, Free
  <2>3. EndsForAReason'
    BY <1>2 DEF vars, sockVars, allVars, progVars, EndInv, EndsForAReason, Unused,
                OnlyClientLeft, Unshaken, UsedUp, Lost, Waiting
  <2> QED
    BY <2>1, <2>2, <2>3 DEF EndInv
<1> QED
  BY <1>0, <1>1, <1>2, EndAccept, EndRead, EndTurns, EndDoes, EndUrge, StepKinds

LEMMA EndInit == Init => EndInv
<1> SUFFICES ASSUME Init PROVE EndInv
  OBVIOUS
<1>1. /\ \A c \in Conn : peer[c] = "new" /\ inbox[c] = <<>>
      /\ \A f \in Fd : Free(f)
      /\ phase = "setup" /\ pending = {} /\ unhandled = {} /\ accepted = {}
  BY DEF Init, SocketsInit, Free
<1>2. IsFiniteSet(accepted)
  BY <1>1, FS_EmptySet
<1>3. ToSet(<<>>) = {}
  BY DEF ToSet
<1> QED
  BY <1>1, <1>2, <1>3
     DEF EndInv, Came, Unused, Heard, QueueSeen, AlarmSeen, EndsForAReason

\* What ends a server: for 01, 05 and 06 that the only client they took has
\* left; for 04 and 06 a handshake that fails for what its client is or did,
\* or a kill that one they accepted sent; for 02 urgent data, a connection
\* lost from the queue, or one more than its descriptors, each of which serves
\* or has served one of its own.  SIGPIPE comes only after a reset by a client
\* that was accepted, and never in example 04, which ignores it.
THEOREM FirstEndsForAReason == Spec => []EndsForAReason
<1>1. Spec => []EndInv
  BY FirstAlways, EndInit, EndStep, PTL DEF Spec
<1> QED
  BY <1>1, PTL DEF EndInv
=============================================================================
