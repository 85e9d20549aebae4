---------------------------- MODULE ClassProofs ----------------------------
(***************************************************************************)
(* client_fds of example 03 always has the state that an event is for,     *)
(* and the queues hold buffers of which something is left to write.        *)
(***************************************************************************)
EXTENDS ClassServer, TLAPS

\* The types of what the loop goes by.
Shape ==
  /\ backlog \in Seq(Conn)
  /\ fdTable \in [Fd -> Conn \cup {NoConn}]
  /\ clients \in [Fd -> Conn \cup {NoConn}]
  /\ revents \in [AllFd -> SUBSET {"IN", "OUT"}]
  /\ cur \in AllFd

\* While a client is served its events are not yet ticked off.
ServesAnEvent ==
  phase \in {"read", "write"} => cur \in Fd /\ revents[cur] # {}

ClassInv == Shape /\ ServesAnEvent /\ EventsHaveClients

LEMMA ListenerApart == ListenFd \notin Fd /\ Fd \subseteq AllFd
BY ClassListenFdAssumption, FdAssumption DEF AllFd

\* The server starts with no client and no event.
THEOREM ClassInvInit == Init => ClassInv
BY ListenerApart
   DEF Init, SocketsInit, ClassInv, Shape, ServesAnEvent, EventsHaveClients,
       NoEvents, AllFd

\* client_fds.erase and the continue after it, or the erase of the write.
LEMMA EraseKeepsInv ==
  ASSUME ClassInv, phase \in {"read", "write"}, EraseClient
  PROVE  ClassInv'
<1>1. /\ cur \in Fd /\ Shape /\ EventsHaveClients
      /\ clients' = [clients EXCEPT ![cur] = NoConn]
      /\ revents' = [revents EXCEPT ![cur] = {}]
      /\ phase' = "dispatch" /\ fdTable' = fdTable /\ cur' = cur
      /\ backlog' = backlog
  BY DEF ClassInv, ServesAnEvent, EraseClient, sockVars
<1>2. Shape'
  BY <1>1, ListenerApart DEF Shape
<1>3. EventsHaveClients'
  BY <1>1, ListenerApart DEF EventsHaveClients, Shape
<1> QED
  BY <1>1, <1>2, <1>3 DEF ClassInv, ServesAnEvent

\* An exception or a signal that ends the process.
LEMMA ExitKeepsInv ==
  ASSUME NEW how \in Ended, ClassInv, Exit(how)
  PROVE  ClassInv'
BY ListenerApart
   DEF Exit, Ended, ClassInv, Shape, ServesAnEvent, EventsHaveClients,
       NoEvents, AllFd, peerVars

\* A step that only narrows the events of the client being served.
LEMMA TickOffKeepsInv ==
  ASSUME ClassInv, cur \in Fd,
         NEW left \in SUBSET revents[cur],
         revents' = [revents EXCEPT ![cur] = left],
         phase' \in {"read", "write"} => left # {},
         UNCHANGED <<backlog, fdTable, clients, cur>>
  PROVE  ClassInv'
<1>1. Shape'
  BY ListenerApart DEF ClassInv, Shape
<1>2. EventsHaveClients'
  BY ListenerApart DEF ClassInv, Shape, EventsHaveClients
<1> QED
  BY <1>1, <1>2, ListenerApart DEF ClassInv, Shape, ServesAnEvent

\* A step that leaves all that the invariant speaks of alone.
LEMMA FrameKeepsInv ==
  ASSUME ClassInv, UNCHANGED <<fdTable, clients, revents, cur>>,
         backlog' \in Seq(Conn),
         phase' \in {"read", "write"} => phase \in {"read", "write"}
  PROVE  ClassInv'
BY DEF ClassInv, Shape, ServesAnEvent, EventsHaveClients

\* accept takes a number that neither an event nor a client had.
LEMMA AcceptKeepsInv ==
  ASSUME ClassInv, NEW f \in Fd, Accept(f)
  PROVE  ClassInv'
<1> DEFINE c == Head(backlog)
<1>1. /\ fdTable[f] = NoConn
      /\ fdTable' = [fdTable EXCEPT ![f] = c]
      /\ clients' = [clients EXCEPT ![f] = c]
      /\ revents' = [revents EXCEPT ![ListenFd] = {}]
      /\ phase = "dispatch" /\ phase' = phase /\ cur' = cur
      /\ backlog # <<>> /\ backlog' = Tail(backlog)
  BY DEF Accept, LowestFree, Free, IsNext
<1>2. c \in Conn /\ backlog' \in Seq(Conn)
  BY <1>1 DEF ClassInv, Shape
<1>3. clients[f] = NoConn /\ revents[f] = {}
  BY <1>1 DEF ClassInv, Shape, EventsHaveClients
<1> HIDE DEF c
<1>4. Shape'
  BY <1>1, <1>2, ListenerApart DEF ClassInv, Shape
<1>5. EventsHaveClients'
  BY <1>1, <1>2, <1>3, ListenerApart DEF ClassInv, EventsHaveClients, Shape
<1> QED
  BY <1>1, <1>4, <1>5 DEF ClassInv, ServesAnEvent

\* poll reports a client only while it has a ClientState.
LEMMA PollKeepsInv ==
  ASSUME ClassInv, PollReturns
  PROVE  ClassInv'
<1>1. /\ revents' = [f \in AllFd |-> Ready(f)] /\ phase' = "dispatch"
      /\ UNCHANGED <<backlog, fdTable, clients, cur>>
  BY DEF PollReturns, sockVars
<1>2. \A f \in AllFd : Ready(f) \in SUBSET {"IN", "OUT"}
  BY DEF Ready
<1>3. \A f \in Fd : Ready(f) # {} => clients[f] # NoConn
  BY ListenerApart DEF Ready
<1> HIDE DEF Ready
<1>4. Shape'
  BY <1>1, <1>2 DEF ClassInv, Shape
<1>5. EventsHaveClients'
  BY <1>1, <1>3, ListenerApart DEF ClassInv, EventsHaveClients
<1> QED
  BY <1>1, <1>4, <1>5 DEF ClassInv, ServesAnEvent

\* What the peers do touches neither a descriptor nor an event.
LEMMA PeersKeepInv ==
  ASSUME ClassInv, Peers, UNCHANGED loopVars
  PROVE  ClassInv'
<1>1. PICK c \in Conn :
        \/ Connect(c) \/ Abort(c) \/ (\E u \in Unit : Send(c, u))
        \/ Recv(c) \/ Fin(c) \/ Reset(c)
  BY DEF Peers
<1>2. backlog \in Seq(Conn)
  BY DEF ClassInv, Shape
<1>3. fdTable' = fdTable /\ backlog' \in Seq(Conn)
  <2>1. CASE Connect(c)
    BY <1>2, <2>1 DEF Connect
  <2>2. CASE Abort(c)
    BY <1>2, <2>2 DEF Abort
  <2>3. CASE \E u \in Unit : Send(c, u)
    BY <1>2, <2>3 DEF Send
  <2>4. CASE Recv(c) \/ Fin(c) \/ Reset(c)
    BY <1>2, <2>4 DEF Recv, Fin, Reset
  <2> QED
    BY <1>1, <2>1, <2>2, <2>3, <2>4
<1> QED
  BY <1>3, FrameKeepsInv DEF loopVars

\* Every step of main and of the peers keeps the invariant.
THEOREM ClassInvStep == ClassInv /\ [Next]_vars => ClassInv'
<1> SUFFICES ASSUME ClassInv, [Next]_vars PROVE ClassInv'
  OBVIOUS
<1>0. /\ backlog \in Seq(Conn)
      /\ phase \in {"read", "write"} => cur \in Fd /\ revents[cur] # {}
  BY DEF ClassInv, Shape, ServesAnEvent
<1>1. CASE PollReturns
  BY <1>1, PollKeepsInv
<1>2. ASSUME NEW f \in Fd, Accept(f) PROVE ClassInv'
  BY <1>2, AcceptKeepsInv
<1>3. CASE AcceptFails \/ WriteSigpipe
  BY <1>3, ExitKeepsInv DEF AcceptFails, WriteSigpipe, Ended
<1>4. ASSUME NEW f \in Fd, Serve(f) PROVE ClassInv'
  BY <1>4, ListenerApart
     DEF Serve, IsNext, sockVars, ClassInv, Shape, ServesAnEvent,
         EventsHaveClients
<1>5. CASE DispatchDone
  BY <1>5, <1>0, FrameKeepsInv DEF DispatchDone, sockVars
<1>6. CASE ReadSome
  BY <1>6, <1>0, FrameKeepsInv DEF ReadSome, peerVars
<1>7. CASE ReadBlocked
  <2> DEFINE left == revents[cur] \ {"IN"}
  <2>1. /\ cur \in Fd
        /\ revents' = [revents EXCEPT ![cur] = left]
        /\ phase' = IF "OUT" \in revents[cur] THEN "write" ELSE "dispatch"
        /\ UNCHANGED <<backlog, fdTable, clients, cur>>
    BY <1>7, <1>0 DEF ReadBlocked, sockVars
  <2>2. left \in SUBSET revents[cur]
    OBVIOUS
  <2>3. phase' \in {"read", "write"} => left # {}
    BY <2>1
  <2> HIDE DEF left
  <2> QED
    BY <2>1, <2>2, <2>3, TickOffKeepsInv
<1>8. CASE ReadEnds \/ WriteFault
  BY <1>8, EraseKeepsInv DEF ReadEnds, WriteFault, Writing
<1>9. CASE WriteSome
  BY <1>9, <1>0, FrameKeepsInv DEF WriteSome, peerVars
<1>10. CASE WriteEnds
  <2>1. /\ cur \in Fd
        /\ revents' = [revents EXCEPT ![cur] = {}]
        /\ phase' = "dispatch"
        /\ UNCHANGED <<backlog, fdTable, clients, cur>>
    BY <1>10, <1>0 DEF WriteEnds, sockVars
  <2> QED
    BY <2>1, TickOffKeepsInv
<1>11. CASE Peers /\ UNCHANGED loopVars
  BY <1>11, PeersKeepInv
<1>12. CASE UNCHANGED vars
  BY <1>12, <1>0, FrameKeepsInv DEF vars, sockVars, loopVars
<1> QED
  BY <1>1, <1>2, <1>3, <1>4, <1>5, <1>6, <1>7, <1>8, <1>9, <1>10, <1>11, <1>12
     DEF Next, MainStep

\* An event is always handled with the ClientState of its own connection:
\* server.cpp's client_fds[fd] never makes one, nor finds another's.
THEOREM ClassEventsHaveClients == Spec => []EventsHaveClients
<1>1. ClassInv => EventsHaveClients
  BY DEF ClassInv
<1> QED
  BY <1>1, ClassInvInit, ClassInvStep, PTL DEF Spec

-----------------------------------------------------------------------------
(* The types, which the buffers of a short write make delicate.            *)

\* Cutting a sequence after its first n elements.
LEMMA ClassCut ==
  ASSUME NEW S, NEW s \in Seq(S), NEW n \in Nat, n <= Len(s)
  PROVE  /\ SubSeq(s, 1, n) \in Seq(S) /\ Len(SubSeq(s, 1, n)) = n
         /\ SubSeq(s, n + 1, Len(s)) \in Seq(S)
OBVIOUS

LEMMA ClassAtMost ==
  ASSUME NEW m \in Nat, NEW n \in Nat
  PROVE  /\ AtMost(m, n) \in Nat /\ AtMost(m, n) <= m /\ AtMost(m, n) <= n
         /\ m # 0 /\ n # 0 => AtMost(m, n) # 0
BY DEF AtMost

\* The client that is being served is that of its descriptor.
LEMMA ServedIsKnown ==
  ASSUME ClassInv, phase \in {"read", "write"}
  PROVE  cur \in Fd /\ Me \in Conn /\ Sock = Me
BY DEF ClassInv, Shape, ServesAnEvent, EventsHaveClients, Me, Sock

\* A write of at most what is left of the first buffer leaves no buffer that
\* has been used up.
LEMMA WrittenPending ==
  ASSUME NEW q \in Seq(Pending), q # <<>>, NEW n \in Nat,
         n <= Len(Head(q).data) - Head(q).offset
  PROVE  Written(q, n) \in Seq(Pending)
<1> DEFINE buf == Head(q)
           rest == [buf EXCEPT !.offset = @ + n]
<1>1. buf \in Pending /\ Tail(q) \in Seq(Pending)
  OBVIOUS
<1> HIDE DEF buf
<1>2. /\ buf \in [data : Buf, offset : Nat] /\ buf.offset < Len(buf.data)
      /\ Len(buf.data) \in Nat
  BY <1>1 DEF Pending, Buf
<1>3. CASE buf.offset + n = Len(buf.data)
  BY <1>1, <1>3 DEF Written, buf
<1>4. CASE buf.offset + n # Len(buf.data)
  <2>1. n <= Len(buf.data) - buf.offset
    BY DEF buf
  <2>2. /\ rest \in [data : Buf, offset : Nat] /\ rest.data = buf.data
        /\ rest.offset = buf.offset + n
    BY <1>2
  <2>3. rest.offset < Len(rest.data)
    BY <1>2, <1>4, <2>1, <2>2
  <2> HIDE DEF rest
  <2>4. rest \in Pending
    BY <2>2, <2>3 DEF Pending
  <2>5. <<rest>> \o Tail(q) \in Seq(Pending)
    BY <1>1, <2>4
  <2> QED
    BY <1>4, <2>5 DEF Written, rest, buf
<1> QED
  BY <1>3, <1>4

LEMMA ReadSomeClass == ASSUME ClassInv, ClassTypeOK, ReadSome PROVE ClassTypeOK'
<1>1. Sock \in Conn /\ inbox[Sock] # <<>>
  BY ServedIsKnown DEF ReadSome
<1>2. inbox \in [Conn -> Seq(Unit)] /\ rq \in Seq(Buf)
  BY DEF ClassTypeOK, SocketsTypeOK
<1> DEFINE s == inbox[Sock]
           n == AtMost(ReadBuf, Len(s))
<1>3. s \in Seq(Unit) /\ Len(s) \in Nat /\ Len(s) # 0
  BY <1>1, <1>2
<1>4. n \in Nat /\ n <= Len(s) /\ n # 0
  <2> HIDE DEF s
  <2> QED
    BY <1>3, ClassAtMost, ClassBufsizAssumption
<1> HIDE DEF n
<1>5. SubSeq(s, 1, n) \in Buf /\ SubSeq(s, n + 1, Len(s)) \in Seq(Unit)
  <2> HIDE DEF s
  <2>1. /\ SubSeq(s, 1, n) \in Seq(Unit) /\ Len(SubSeq(s, 1, n)) = n
        /\ SubSeq(s, n + 1, Len(s)) \in Seq(Unit)
    BY <1>3, <1>4, ClassCut
  <2>2. SubSeq(s, 1, n) # <<>>
    BY <1>4, <2>1
  <2> QED
    BY <2>1, <2>2 DEF Buf
<1>6. /\ rq' = Append(rq, SubSeq(s, 1, n))
      /\ inbox' = [inbox EXCEPT ![Sock] = SubSeq(s, n + 1, Len(s))]
  BY DEF ReadSome, n
<1>7. rq' \in Seq(Buf)
  <2> HIDE DEF s
  <2> QED
    BY <1>2, <1>5, <1>6
<1>8. inbox' \in [Conn -> Seq(Unit)]
  <2> HIDE DEF s
  <2> QED
    BY <1>2, <1>5, <1>6
<1> QED
  BY <1>7, <1>8 DEF ClassTypeOK, SocketsTypeOK, ReadSome, peerVars

LEMMA ReadBlockedClass ==
  ASSUME ClassInv, ClassTypeOK, ReadBlocked
  PROVE  ClassTypeOK'
<1>1. cur \in Fd /\ Me \in Conn
  BY ServedIsKnown DEF ReadBlocked
<1> DEFINE more == [i \in DOMAIN rq |-> [data |-> rq[i], offset |-> 0]]
<1>2. rq \in Seq(Buf) /\ wq \in [Conn -> Seq(Pending)]
  BY DEF ClassTypeOK
<1>3. more \in Seq(Pending)
  <2>1. ASSUME NEW i \in DOMAIN rq
        PROVE  [data |-> rq[i], offset |-> 0] \in Pending
    <3>1. rq[i] \in Buf
      BY <1>2
    <3>2. Len(rq[i]) \in Nat /\ Len(rq[i]) # 0
      BY <3>1 DEF Buf
    <3> QED
      BY <3>1, <3>2 DEF Pending
  <2>2. DOMAIN rq = 1 .. Len(rq) /\ Len(rq) \in Nat
    BY <1>2
  <2> QED
    BY <2>1, <2>2
<1> HIDE DEF more
<1>4. wq' = [wq EXCEPT ![Me] = @ \o more]
  BY DEF ReadBlocked, more
<1>5. wq[Me] \o more \in Seq(Pending)
  BY <1>1, <1>2, <1>3
<1>6. wq' \in [Conn -> Seq(Pending)]
  BY <1>1, <1>2, <1>4, <1>5
<1>7. /\ rq' = <<>> /\ UNCHANGED <<sockVars, cur, clients>>
      /\ revents' = [revents EXCEPT ![cur] = @ \ {"IN"}]
      /\ phase' \in {"write", "dispatch"}
  BY DEF ReadBlocked
<1> QED
  BY <1>1, <1>6, <1>7, ListenerApart DEF ClassTypeOK, SocketsTypeOK, sockVars

LEMMA WriteSomeClass ==
  ASSUME ClassInv, ClassTypeOK, WriteSome
  PROVE  ClassTypeOK'
<1>1. Me \in Conn /\ Sock = Me
  BY ServedIsKnown DEF WriteSome, Writing
<1>2. sndq \in [Conn -> Seq(Unit)] /\ wq \in [Conn -> Seq(Pending)]
  BY DEF ClassTypeOK, SocketsTypeOK
<1> DEFINE buf == Head(wq[Me])
           m == AtMost(Len(buf.data) - buf.offset, WriteBuf)
           n == AtMost(m, Room(Sock))
<1>3. wq[Me] \in Seq(Pending) /\ wq[Me] # <<>>
  BY <1>1, <1>2 DEF WriteSome, Writing
<1>4. /\ buf.data \in Seq(Unit) /\ buf.offset \in Nat
      /\ buf.offset < Len(buf.data)
  <2>1. buf \in Pending
    BY <1>3
  <2> QED
    BY <2>1 DEF Pending, Buf
<1>5. Room(Sock) \in Nat
  <2>1. Len(sndq[Sock]) \in Nat
    BY <1>1, <1>2
  <2> QED
    BY <2>1, BufAssumption DEF Room, WriteSome
<1>6. /\ n \in Nat /\ n <= Len(buf.data) - buf.offset /\ n <= Len(buf.data)
  <2>1. Len(buf.data) \in Nat /\ Len(buf.data) - buf.offset \in Nat
    <3> HIDE DEF buf
    <3> QED
      BY <1>4
  <2>2. m \in Nat /\ m <= Len(buf.data) - buf.offset
    BY <2>1, ClassAtMost, ClassBufsizAssumption
  <2>3. n \in Nat /\ n <= m
    BY <2>2, <1>5, ClassAtMost
  <2> HIDE DEF buf, m, n
  <2> QED
    BY <1>4, <2>1, <2>2, <2>3
<1> HIDE DEF n
<1>7. SubSeq(buf.data, 1, n) \in Seq(Unit)
  <2> HIDE DEF buf
  <2> QED
    BY <1>4, <1>6, ClassCut
<1>8. Written(wq[Me], n) \in Seq(Pending)
  BY <1>3, <1>6, WrittenPending
<1>9. /\ sndq' = [sndq EXCEPT ![Sock] = @ \o SubSeq(buf.data, 1, n)]
      /\ wq' = [wq EXCEPT ![Me] = Written(@, n)]
  BY DEF WriteSome, n, m
<1>10. sndq' \in [Conn -> Seq(Unit)] /\ wq' \in [Conn -> Seq(Pending)]
  <2> HIDE DEF buf
  <2> QED
    BY <1>1, <1>2, <1>7, <1>8, <1>9
<1> QED
  BY <1>10 DEF ClassTypeOK, SocketsTypeOK, WriteSome, peerVars

LEMMA EraseClass ==
  ASSUME ClassInv, ClassTypeOK, phase \in {"read", "write"}, EraseClient
  PROVE  ClassTypeOK'
<1>1. cur \in Fd /\ Me \in Conn
  BY ServedIsKnown
<1>2. /\ clients' \in [Fd -> Conn \cup {NoConn}]
      /\ wq' \in [Conn -> Seq(Pending)]
      /\ revents' \in [AllFd -> SUBSET {"IN", "OUT"}]
      /\ rq' \in Seq(Buf)
  BY <1>1 DEF ClassTypeOK, EraseClient
<1> QED
  BY <1>2 DEF ClassTypeOK, SocketsTypeOK, EraseClient, sockVars

LEMMA PeersClass ==
  ASSUME ClassTypeOK, Peers, UNCHANGED loopVars
  PROVE  ClassTypeOK'
<1>1. SocketsTypeOK
  BY DEF ClassTypeOK
<1> USE DEF SocketsTypeOK, PeerStates
<1>2. ASSUME NEW c \in Conn, Connect(c) PROVE SocketsTypeOK'
  BY <1>1, <1>2 DEF Connect
<1>3. ASSUME NEW c \in Conn, Abort(c) PROVE SocketsTypeOK'
  BY <1>1, <1>3 DEF Abort
<1>4. ASSUME NEW c \in Conn, NEW u \in Unit, Send(c, u) PROVE SocketsTypeOK'
  BY <1>1, <1>4 DEF Send
<1>5. ASSUME NEW c \in Conn, Recv(c) PROVE SocketsTypeOK'
  <2>1. Head(sndq[c]) \in Unit /\ Tail(sndq[c]) \in Seq(Unit)
    BY <1>1, <1>5 DEF Recv
  <2> QED
    BY <1>1, <1>5, <2>1 DEF Recv
<1>6. ASSUME NEW c \in Conn, Fin(c) PROVE SocketsTypeOK'
  BY <1>1, <1>6 DEF Fin
<1>7. ASSUME NEW c \in Conn, Reset(c) PROVE SocketsTypeOK'
  BY <1>1, <1>7 DEF Reset
<1>8. SocketsTypeOK'
  BY <1>2, <1>3, <1>4, <1>5, <1>6, <1>7 DEF Peers
<1> QED
  BY <1>8 DEF ClassTypeOK, loopVars

THEOREM ClassTypeStep == ClassInv /\ ClassTypeOK /\ [Next]_vars => ClassTypeOK'
<1> SUFFICES ASSUME ClassInv, ClassTypeOK, [Next]_vars PROVE ClassTypeOK'
  OBVIOUS
<1> USE DEF ClassTypeOK, SocketsTypeOK, Ended, sockVars
<1>1. CASE PollReturns
  <2>1. \A f \in AllFd : Ready(f) \in SUBSET {"IN", "OUT"}
    BY DEF Ready
  <2> QED
    BY <1>1, <2>1 DEF PollReturns
<1>2. ASSUME NEW f \in Fd, Accept(f) PROVE ClassTypeOK'
  <2>1. Head(backlog) \in Conn /\ Tail(backlog) \in Seq(Conn)
    BY <1>2 DEF Accept
  <2>2. /\ fdTable' \in [Fd -> Conn \cup {NoConn}]
        /\ clients' \in [Fd -> Conn \cup {NoConn}]
        /\ revents' \in [AllFd -> SUBSET {"IN", "OUT"}]
    BY <1>2, <2>1 DEF Accept
  <2> QED
    BY <1>2, <2>1, <2>2 DEF Accept
<1>3. CASE AcceptFails \/ WriteSigpipe
  <2>1. PICK how \in {"stopped", "killed"} : Exit(how)
    BY <1>3 DEF AcceptFails, WriteSigpipe
  <2>2. /\ wq' = [c \in Conn |-> <<>>] /\ rq' = <<>>
        /\ revents' = [f \in AllFd |-> {}]
        /\ fdTable' = [f \in Fd |-> NoConn]
        /\ clients' = [f \in Fd |-> NoConn]
        /\ phase' = how /\ cur' = ListenFd
        /\ UNCHANGED <<backlog, peer, inbox, sndq, sent, received>>
    BY <2>1 DEF Exit, NoEvents, peerVars
  <2> QED
    BY <2>2 DEF AllFd
<1>4. ASSUME NEW f \in Fd, Serve(f) PROVE ClassTypeOK'
  BY <1>4, ListenerApart DEF Serve
<1>5. CASE DispatchDone
  BY <1>5 DEF DispatchDone
<1>6. CASE ReadSome
  BY <1>6, ReadSomeClass
<1>7. CASE ReadBlocked
  BY <1>7, ReadBlockedClass
<1>8. CASE ReadEnds \/ WriteFault
  BY <1>8, EraseClass DEF ReadEnds, WriteFault, Writing
<1>9. CASE WriteSome
  BY <1>9, WriteSomeClass
<1>10. CASE WriteEnds
  BY <1>10 DEF WriteEnds
<1>11. CASE Peers /\ UNCHANGED loopVars
  BY <1>11, PeersClass
<1>12. CASE UNCHANGED vars
  BY <1>12 DEF vars, loopVars
<1> QED
  BY <1>1, <1>2, <1>3, <1>4, <1>5, <1>6, <1>7, <1>8, <1>9, <1>10, <1>11, <1>12
     DEF Next, MainStep

\* The types; among them that no buffer of write_queue_ is used up, so that
\* ClientState::write never calls write with nothing to write.
THEOREM ClassTypes == Spec => []ClassTypeOK
<1>1. Init => ClassTypeOK
  BY ListenerApart
     DEF Init, SocketsInit, ClassTypeOK, SocketsTypeOK, PeerStates, NoEvents,
         AllFd, Ended
<1>2. Spec => []ClassInv
  BY ClassInvInit, ClassInvStep, PTL DEF Spec
<1> QED
  BY <1>1, <1>2, ClassTypeStep, PTL DEF Spec
=============================================================================
