---------------------------- MODULE ServerProofs ----------------------------
(***************************************************************************)
(* The two servers of example 10 are uses of the Poller, so that what is   *)
(* proved of the event loop for any on_read holds of both.  The echo       *)
(* server loses nothing, closes only for a reason, and implements the echo *)
(* service.  The chat server's set of clients is the set of registered     *)
(* descriptors, and it keeps one conversation, of which no client that is  *)
(* open misses, repeats or reorders anything.                              *)
(***************************************************************************)
EXTENDS EchoServer, ChatServer, PollerProofs, FiniteSetTheorems

-----------------------------------------------------------------------------
(* The echo server.                                                        *)

\* Nothing has come from or gone to a connection that is queued or not made,
\* but what its peer has sent.
FreshIsIdle ==
  \A c \in Conn :
    peer[c] = "new" \/ (\E i \in DOMAIN backlog : backlog[i] = c)
      => /\ received[c] = <<>> /\ sndq[c] = <<>> /\ wq[c] = <<>>
         /\ inbox[c] = sent[c]

\* What the server has sent is the beginning of what it was sent, even when
\* the connection has been closed since.
EchoesInOrder == \A c \in Conn : StandsAt(received[c] \o sndq[c], sent[c], 0)

NoChunksLeft == phase \notin {"read", "deliver"} => rq = <<>>

DataInv ==
  /\ FreshIsIdle
  /\ EchoesInOrder
  /\ NoChunksLeft
  /\ NothingLost
  /\ ClosedForAReason

EchoInv == IInv /\ DataInv

LEMMA EchoOnReadIsOnRead == IInv /\ EchoOnRead => AnyOnRead
<1> SUFFICES ASSUME IInv, EchoOnRead PROVE AnyOnRead
  OBVIOUS
<1> DEFINE kill == rq # <<>> /\ Head(rq) = <<KillMe>>
           W == IF kill THEN {} ELSE {cur}
           C == IF kill THEN {cur} ELSE {}
<1>1. OnRead(W, C)
  BY DEF EchoOnRead
<1>2. cur \in Fd
  BY <1>1 DEF OnRead, IInv, ServingOrder, Serving
<1>3. W \in SUBSET Fd /\ C \in SUBSET Fd
  BY <1>2
<1> QED
  BY <1>1, <1>3 DEF AnyOnRead

\* A step of the echo server is a step of the event loop.
LEMMA EchoStepIsStep == IInv /\ [EchoNext]_vars => [Next]_vars
BY EchoOnReadIsOnRead DEF EchoNext, EchoStep, Next, LoopStep

\* echo-server.cpp uses the Poller within its terms: each behaviour of the
\* echo server is one of the event loop with some on_read.
THEOREM EchoImplementsPoller == EchoSpec => Spec
<1>1. IInv /\ [Next]_vars => IInv'
  BY TypeStep, FreshStep, StraightStep DEF IInv, Straight
<1>2. IInv /\ [EchoNext]_vars => IInv'
  BY <1>1, EchoStepIsStep
<1>3. EchoSpec => []IInv
  BY <1>2, InitIInv, PTL DEF EchoSpec
<1> QED
  BY <1>3, EchoStepIsStep, PTL DEF EchoSpec, Spec

\* No KILLME, end of file or reset makes the echo server serve a connection
\* through the descriptor of another, or leak one.
THEOREM EchoFdOwnership == EchoSpec => []FdOwnership
BY EchoImplementsPoller, PollerFdOwnership, PTL

-----------------------------------------------------------------------------
(* The steps that move no data.                                            *)

LEMMA DataTypes ==
  ASSUME TypeOK, NEW c \in Conn
  PROVE  /\ received[c] \in Seq(Unit) /\ sndq[c] \in Seq(Unit)
         /\ inbox[c] \in Seq(Unit) /\ sent[c] \in Seq(Unit)
         /\ received[c] \o sndq[c] \in Seq(Unit)
         /\ Len(received[c] \o sndq[c]) \in Nat
         /\ Len(received[c] \o sndq[c]) = Len(received[c]) + Len(sndq[c])
         /\ wq[c] \in Seq(Buf) /\ rq \in Seq(Buf) /\ Chunks(c) \in Seq(Buf)
         /\ wq[c] \o Chunks(c) \in Seq(Buf)
<1>1. /\ received[c] \in Seq(Unit) /\ sndq[c] \in Seq(Unit)
      /\ inbox[c] \in Seq(Unit) /\ sent[c] \in Seq(Unit)
  BY DEF TypeOK, SocketsTypeOK
<1>2. wq[c] \in Seq(Buf) /\ rq \in Seq(Buf) /\ Chunks(c) \in Seq(Buf)
  BY DEF TypeOK, Chunks
<1>3. ASSUME NEW r \in Seq(Unit), NEW s \in Seq(Unit)
      PROVE  /\ r \o s \in Seq(Unit) /\ Len(r \o s) \in Nat
             /\ Len(r \o s) = Len(r) + Len(s)
  OBVIOUS
<1>4. wq[c] \o Chunks(c) \in Seq(Buf)
  BY <1>2
<1> QED
  BY <1>1, <1>2, <1>3, <1>4

\* Why c may be closed.
MayClose(c) ==
  peer[c] # "up" \/ Len(received[c] \o sndq[c]) \in SndBuf .. Len(sent[c]) - 1

\* No unit moves, nobody is registered, and what is closed is closed for a
\* reason.
Still ==
  /\ UNCHANGED <<peerVars, inbox, sndq, handlers, wq, rq>>
  /\ \A c \in Conn : /\ isOpen'[c] => isOpen[c]
                     /\ isOpen[c] /\ ~isOpen'[c] => MayClose(c)
  /\ rq # <<>> => /\ cur' = cur /\ phase \in Serving
                  /\ phase' \in {"read", "deliver"}

\* What is still to be written is still to be received.
LEMMA BlockedBehind ==
  ASSUME EchoInv, WriteBlocked
  PROVE  MayClose(Me)
<1>1. /\ phase = "write" /\ isOpen[Me] /\ wq[Me] # <<>>
      /\ peer[Sock] \in {"up", "fin"} /\ Room(Sock) = 0
  BY DEF WriteBlocked, CanWrite
<1>2. IInv /\ TypeOK /\ rq = <<>>
  BY <1>1 DEF EchoInv, DataInv, IInv, NoChunksLeft
<1>3. cur \in Fd /\ Me \in Conn /\ Sock = Me
  BY <1>1, <1>2, ServedIsOwn DEF Serving
<1> DEFINE out == received[Me] \o sndq[Me]
<1>4. OnItsWay(Me)
  BY <1>1, <1>3, NoConnAssumption
     DEF EchoInv, DataInv, NothingLost, Live, Registered, Me
<1>5. /\ received[Me] \in Seq(Unit) /\ sndq[Me] \in Seq(Unit)
      /\ sent[Me] \in Seq(Unit) /\ wq[Me] \in Seq(Buf) /\ out \in Seq(Unit)
  BY <1>2, <1>3, DataTypes
<1>6. wq[Me] \o Chunks(Me) = wq[Me]
  BY <1>2, <1>5 DEF Chunks
<1>7. Len(out) \in Nat /\ Len(out) = Len(received[Me]) + Len(sndq[Me])
  BY <1>2, <1>3, DataTypes
<1> HIDE DEF out
<1>8. PICK z \in 0 .. Len(sent[Me]) : Cuts(wq[Me], sent[Me], Len(out), z)
  BY <1>4, <1>6 DEF OnItsWay, Whole, out
<1>9. Len(out) < Len(sent[Me])
  <2>1. z \in Nat
    BY <1>5
  <2> QED
    BY <1>1, <1>5, <1>7, <1>8, <2>1, CutsHead, PollersBuffers
<1>10. Len(sndq[Me]) = SndBuf
  BY <1>1, <1>3, <1>5, BufAssumption DEF Room
<1>11. Len(out) \in SndBuf .. Len(sent[Me]) - 1
  BY <1>5, <1>7, <1>9, <1>10, BufAssumption
<1> QED
  BY <1>11 DEF MayClose, out

LEMMA QuietIsStill ==
  ASSUME EchoInv, QuietStep
  PROVE  \/ \E how \in Ended : Exit(how)
         \/ ReadSome \/ WriteSome \/ Still
<1>1. /\ IInv /\ TypeOK /\ isOpen \in [Conn -> BOOLEAN]
      /\ phase \notin {"read", "deliver"} => rq = <<>>
  BY DEF EchoInv, DataInv, IInv, TypeOK, NoChunksLeft
<1> USE DEF sockVars, peerVars, regVars, Serving
<1>2. CASE EnterPoll \/ PollReturns \/ PollTimeout \/ PollEintr \/ DispatchDone
             \/ NoSignal \/ TakeSignal \/ OnInterrupt
  BY <1>1, <1>2 DEF EnterPoll, PollReturns, PollTimeout, PollEintr, PollEnds,
     DispatchDone, NoSignal, TakeSignal, OnInterrupt, Still
<1>3. CASE AcceptFails \/ WriteSigpipe
  BY <1>3 DEF AcceptFails, WriteSigpipe, Ended
<1>4. ASSUME NEW f \in Fd, DispatchRead(f) \/ DispatchWrite(f) PROVE Still
  BY <1>1, <1>4 DEF DispatchRead, DispatchWrite, Serve, IsNext, Still
<1>5. CASE ReadBlocked \/ ReadClosed \/ Delivered
  BY <1>1, <1>5 DEF ReadBlocked, ReadClosed, Delivered, Still
<1>6. CASE ReadEnds
  <2>1. MayClose(Me) /\ phase = "read" /\ phase' = "deliver" /\ cur' = cur
        /\ isOpen' = [isOpen EXCEPT ![Me] = FALSE]
        /\ UNCHANGED <<peerVars, inbox, sndq, handlers, wq, rq>>
    BY <1>1, <1>6, ServedIsOwn DEF ReadEnds, AtEnd, MayClose
  <2> QED
    BY <1>1, <2>1 DEF Still
<1>7. CASE WriteBlocked \/ WriteFault
  <2>1. CanWrite /\ EndServing /\ isOpen' = [isOpen EXCEPT ![Me] = FALSE]
        /\ UNCHANGED <<sockVars, wq>>
    BY <1>7 DEF WriteBlocked, WriteFault
  <2>2. MayClose(Me)
    BY <1>1, <1>7, <2>1, BlockedBehind, ServedIsOwn
       DEF WriteFault, CanWrite, MayClose
  <2> QED
    BY <1>1, <2>1, <2>2 DEF CanWrite, EndServing, Still
<1>8. CASE WriteEnds
  BY <1>1, <1>8 DEF WriteEnds, EndServing, Still
<1> QED
  BY <1>2, <1>3, <1>4, <1>5, <1>6, <1>7, <1>8 DEF QuietStep

LEMMA OtherStill ==
  ASSUME TypeOK, NoChunksLeft, RaiseSignal \/ UNCHANGED vars
  PROVE  Still
BY DEF RaiseSignal, Still, vars, sockVars, peerVars, regVars, loopVars, Serving,
       NoChunksLeft, TypeOK

LEMMA StillKeeps ==
  ASSUME EchoInv, Still
  PROVE  DataInv'
<1>1. /\ UNCHANGED <<backlog, peer, sent, received, inbox, sndq, handlers, wq, rq>>
      /\ \A c \in Conn : isOpen'[c] => isOpen[c]
      /\ phase' \notin {"read", "deliver"} => rq = <<>>
  BY DEF Still, peerVars
<1>2. IInv /\ TypeOK
  BY DEF EchoInv, DataInv, IInv
<1>3. FreshIsIdle' /\ EchoesInOrder' /\ NoChunksLeft'
  BY <1>1 DEF EchoInv, DataInv, FreshIsIdle, EchoesInOrder, NoChunksLeft, StandsAt
<1>4. ASSUME NEW c \in Conn PROVE Chunks(c)' = Chunks(c)
  BY <1>1 DEF Still, Chunks, Serving
<1>5. ASSUME NEW f \in Fd, Live(f)', peer'[handlers'[f]] \in {"up", "fin"}
      PROVE  OnItsWay(handlers[f])'
  <2>1. handlers[f] \in Conn /\ Live(f) /\ peer[handlers[f]] \in {"up", "fin"}
    BY <1>1, <1>2, <1>5 DEF TypeOK, Live, Registered
  <2>2. OnItsWay(handlers[f])
    BY <2>1 DEF EchoInv, DataInv, NothingLost
  <2> QED
    BY <1>1, <1>4, <2>1, <2>2 DEF OnItsWay
<1>6. NothingLost'
  BY <1>1, <1>5 DEF NothingLost
<1>7. ClosedForAReason'
  BY <1>1 DEF EchoInv, DataInv, ClosedForAReason, RegisteredConn, Still, MayClose
<1> QED
  BY <1>3, <1>6, <1>7 DEF DataInv

LEMMA ExitKeeps ==
  ASSUME EchoInv, NEW how \in Ended, Exit(how)
  PROVE  DataInv'
<1>1. /\ UNCHANGED <<backlog, peer, inbox, sndq, sent, received>> /\ rq' = <<>>
      /\ wq' = [c \in Conn |-> <<>>]
      /\ \A f \in Fd : handlers'[f] = NoConn
  BY DEF Exit
<1>2. FreshIsIdle' /\ EchoesInOrder' /\ NoChunksLeft'
  BY <1>1 DEF EchoInv, DataInv, FreshIsIdle, EchoesInOrder, NoChunksLeft, StandsAt
<1>3. NothingLost' /\ ClosedForAReason'
  BY <1>1, NoConnAssumption
     DEF NothingLost, ClosedForAReason, Live, Registered, RegisteredConn
<1> QED
  BY <1>2, <1>3 DEF DataInv

-----------------------------------------------------------------------------
(* The steps that move data.                                               *)

\* Only the connection of c has moved, and it has lost nothing.
LEMMA WayFrame ==
  ASSUME EchoInv, UNCHANGED <<peer, handlers>>,
         \A c \in Conn : isOpen'[c] => isOpen[c],
         \A c \in Conn : isOpen'[c] /\ OnItsWay(c) => OnItsWay(c)'
  PROVE  NothingLost'
<1>1. handlers \in [Fd -> Conn \cup {NoConn}]
  BY DEF EchoInv, IInv, TypeOK
<1>2. ASSUME NEW f \in Fd, Live(f)', peer'[handlers'[f]] \in {"up", "fin"}
      PROVE  OnItsWay(handlers[f])'
  <2>1. handlers[f] \in Conn /\ Live(f) /\ peer[handlers[f]] \in {"up", "fin"}
        /\ isOpen'[handlers[f]]
    BY <1>1, <1>2 DEF Live, Registered
  <2>2. OnItsWay(handlers[f])
    BY <2>1 DEF EchoInv, DataInv, NothingLost
  <2> QED
    BY <2>1, <2>2
<1> QED
  BY <1>2 DEF NothingLost

LEMMA ReadSomeKeeps == ASSUME EchoInv, ReadSome PROVE DataInv'
<1>1. IInv /\ TypeOK
  BY DEF EchoInv, IInv
<1>2. /\ phase = "read" /\ phase' = "read" /\ isOpen[Me] /\ inbox[Sock] # <<>>
      /\ UNCHANGED <<backlog, peer, sent, received, sndq, handlers, isOpen, wq, cur>>
  BY DEF ReadSome, regVars, peerVars
<1>3. PICK m \in Conn : m = Me /\ Sock = m /\ cur \in Fd
  BY <1>1, <1>2, ServedIsOwn DEF Serving
<1> DEFINE in == inbox[m]
           n == AtMost(ReadBuf, Len(in))
           b == SubSeq(in, 1, n)
           rest == SubSeq(in, n + 1, Len(in))
           bufs == wq[m] \o rq
<1>4. rq' = Append(rq, b) /\ inbox' = [inbox EXCEPT ![m] = rest]
  BY <1>3 DEF ReadSome
<1>5. \A c \in Conn : /\ Chunks(c) = IF c = m THEN rq ELSE <<>>
                      /\ Chunks(c)' = IF c = m THEN rq' ELSE <<>>
  BY <1>2, <1>3 DEF Chunks, Serving, Me
<1>6. /\ in \in Seq(Unit) /\ sent[m] \in Seq(Unit)
      /\ received[m] \o sndq[m] \in Seq(Unit)
      /\ wq[m] \in Seq(Buf) /\ rq \in Seq(Buf) /\ bufs \in Seq(Buf)
  BY <1>1, <1>5, DataTypes
<1>7. in # <<>>
  BY <1>2, <1>3
<1> HIDE DEF in, bufs
<1>8. n \in 1 .. Len(in) /\ n \in Nat /\ n <= Len(in)
  <2>1. Len(in) \in Nat /\ Len(in) # 0
    BY <1>6, <1>7, EmptySeq, LenProperties
  <2>2. n \in Nat /\ n # 0 /\ n <= Len(in)
    BY <2>1, AtMostType, BufsizAssumption
  <2> HIDE DEF n
  <2> QED
    BY <2>1, <2>2
<1> HIDE DEF n
<1>9. b \in Buf
  <2>1. b \in Seq(Unit) /\ Len(b) # 0
    BY <1>6, <1>8, CutSeq
  <2> HIDE DEF b
  <2> QED
    BY <2>1 DEF Buf
<1>10. /\ inbox'[m] = rest
       /\ \A c \in Conn : c # m => inbox'[c] = inbox[c]
  <2> HIDE DEF rest
  <2> QED
    BY <1>1, <1>4 DEF TypeOK, SocketsTypeOK
<1>11. wq[m] \o Append(rq, b) = Append(bufs, b)
  <2> HIDE DEF b
  <2>1. wq[m] \o Append(rq, b) = Append(wq[m] \o rq, b)
    BY <1>6, <1>9, AppendConcat, Zenon
  <2> QED
    BY <2>1 DEF bufs
<1>12. ASSUME NEW c \in Conn, OnItsWay(c) PROVE OnItsWay(c)'
  <2>1. CASE c # m
    BY <1>2, <1>5, <1>10, <1>12, <2>1 DEF OnItsWay
  <2>2. CASE c = m
    <3>1. Whole(sent[m], received[m] \o sndq[m], bufs, in)
      BY <1>5, <1>12, <2>2 DEF OnItsWay, bufs, in
    <3>2. Whole(sent[m], received[m] \o sndq[m], Append(bufs, b), rest)
      BY <1>6, <1>8, <3>1, WholeRead
    <3> HIDE DEF b, rest
    <3> QED
      BY <1>2, <1>4, <1>5, <1>10, <1>11, <2>2, <3>2 DEF OnItsWay
  <2> QED
    BY <2>1, <2>2
<1> HIDE DEF b, rest
<1>13. NothingLost'
  BY <1>2, <1>12, WayFrame
<1>14. FreshIsIdle'
  <2>1. ASSUME NEW c \in Conn, peer[c] = "new" \/ \E i \in DOMAIN backlog : backlog[i] = c
        PROVE  c # m
    BY <1>1, <1>3, <2>1 DEF IInv, Fresh, Me
  <2> QED
    BY <1>2, <1>10, <2>1 DEF EchoInv, DataInv, FreshIsIdle
<1>15. EchoesInOrder' /\ NoChunksLeft' /\ ClosedForAReason'
  BY <1>2 DEF EchoInv, DataInv, EchoesInOrder, NoChunksLeft, ClosedForAReason,
              RegisteredConn
<1> QED
  BY <1>13, <1>14, <1>15 DEF DataInv

\* A connection that is served is registered, and so it is not a fresh one.
LEMMA FreshNotServed ==
  ASSUME IInv, phase \in Serving, NEW c \in Conn,
         peer[c] = "new" \/ \E i \in DOMAIN backlog : backlog[i] = c
  PROVE  c # Me
BY DEF IInv, Fresh, ServingOrder, Me

LEMMA WriteSomeKeeps == ASSUME EchoInv, WriteSome PROVE DataInv'
<1>1. IInv /\ TypeOK
  BY DEF EchoInv, IInv
<1>2. /\ phase = "write" /\ phase' = "write" /\ isOpen[Me] /\ wq[Me] # <<>>
      /\ Room(Sock) > 0
      /\ UNCHANGED <<backlog, peer, sent, received, inbox, handlers, isOpen, rq, cur>>
  BY DEF WriteSome, CanWrite, peerVars
<1>3. PICK m \in Conn : m = Me /\ Sock = m
  BY <1>1, <1>2, ServedIsOwn DEF Serving
<1> DEFINE buf == Head(wq[m])
           n == AtMost(AtMost(Len(buf), WriteBuf), Room(m))
           b == SubSeq(buf, 1, n)
           out == received[m] \o sndq[m]
<1>4. /\ sndq' = [sndq EXCEPT ![m] = sndq[m] \o b]
      /\ wq' = [wq EXCEPT ![m] = Written(wq[m], n)]
  BY <1>1, <1>3 DEF WriteSome, TypeOK, SocketsTypeOK
<1>5. rq = <<>> /\ \A c \in Conn : Chunks(c) = <<>> /\ Chunks(c)' = <<>>
  BY <1>2 DEF EchoInv, DataInv, NoChunksLeft, Chunks
<1>6. /\ sent[m] \in Seq(Unit) /\ inbox[m] \in Seq(Unit) /\ out \in Seq(Unit)
      /\ received[m] \in Seq(Unit) /\ sndq[m] \in Seq(Unit)
      /\ wq[m] \in Seq(Buf) /\ wq[m] # <<>>
  BY <1>1, <1>2, <1>3, DataTypes
<1>7. buf \in Seq(Unit)
  BY <1>6, HeadTailProperties DEF Buf
<1> HIDE DEF buf, out
<1>8. n \in Nat /\ n <= Len(buf)
  <2> DEFINE k == AtMost(Len(buf), WriteBuf)
  <2>1. Room(m) \in Nat
    <3>1. Len(sndq[m]) \in Nat
      BY <1>6, LenProperties
    <3> QED
      BY <1>2, <1>3, <3>1, BufAssumption DEF Room
  <2>2. Len(buf) \in Nat
    BY <1>7, LenProperties
  <2>3. k \in Nat /\ k <= Len(buf)
    BY <2>2, AtMostType, BufsizAssumption
  <2> HIDE DEF k
  <2>4. n \in Nat /\ n <= k
    BY <2>1, <2>3, AtMostType DEF k
  <2> HIDE DEF n
  <2> QED
    BY <2>2, <2>3, <2>4
<1> HIDE DEF n
<1>9. b \in Seq(Unit)
  BY <1>7, <1>8, CutSeq
<1> HIDE DEF b
<1>10. /\ sndq'[m] = sndq[m] \o b /\ wq'[m] = Written(wq[m], n)
       /\ \A c \in Conn : c # m => sndq'[c] = sndq[c] /\ wq'[c] = wq[c]
  BY <1>1, <1>4, Zenon DEF TypeOK, SocketsTypeOK
<1>11. received[m] \o (sndq[m] \o b) = out \o b
  <2>1. \A r, s, u \in Seq(Unit) : (r \o s) \o u = r \o (s \o u)
    BY ConcatAssociative
  <2> QED
    BY <1>6, <1>9, <2>1, ZenonT(30) DEF out
<1>12. ASSUME NEW c \in Conn, OnItsWay(c) PROVE OnItsWay(c)'
  <2>1. CASE c # m
    BY <1>2, <1>5, <1>10, <1>12, <2>1 DEF OnItsWay
  <2>2. CASE c = m
    <3>1. wq[m] \o <<>> = wq[m]
      BY <1>6, ConcatEmptySeq
    <3>2. Whole(sent[m], out, wq[m], inbox[m])
      BY <1>5, <1>12, <2>2, <3>1 DEF OnItsWay, out
    <3>3. Whole(sent[m], out \o b, Written(wq[m], n), inbox[m])
      BY <1>6, <1>8, <3>2, WholeWritten DEF b, buf
    <3>4. Written(wq[m], n) \in Seq(Buf)
      BY <1>6, <1>8, WrittenType DEF buf
    <3>5. Written(wq[m], n) \o <<>> = Written(wq[m], n)
      BY <3>4, ConcatEmptySeq
    <3> QED
      BY <1>2, <1>5, <1>10, <1>11, <2>2, <3>3, <3>5 DEF OnItsWay
  <2> QED
    BY <2>1, <2>2
<1>13. NothingLost'
  BY <1>2, <1>12, WayFrame
<1>14. FreshIsIdle'
  <2>1. ASSUME NEW c \in Conn, peer[c] = "new" \/ \E i \in DOMAIN backlog : backlog[i] = c
        PROVE  c # m
    BY <1>1, <1>2, <1>3, <2>1, FreshNotServed DEF Serving
  <2> QED
    BY <1>2, <1>10, <2>1 DEF EchoInv, DataInv, FreshIsIdle
<1>15. NoChunksLeft'
  BY <1>5, <1>2 DEF NoChunksLeft
<1>16. EchoesInOrder'
  <2>1. OnItsWay(m)
    <3>1. cur \in Fd /\ peer[m] \in {"up", "fin"} /\ Me \in Conn
      BY <1>1, <1>2, <1>3, ServedIsOwn DEF WriteSome, Serving
    <3> QED
      BY <1>2, <1>3, <3>1, NoConnAssumption
         DEF EchoInv, DataInv, NothingLost, Live, Registered, Me
  <2>2. OnItsWay(m)'
    BY <1>12, <2>1
  <2>3. ASSUME NEW c \in Conn PROVE StandsAt(received'[c] \o sndq'[c], sent'[c], 0)
    <3>1. CASE c = m
      BY <2>2, <3>1 DEF OnItsWay, Whole
    <3>2. CASE c # m
      BY <1>2, <1>10, <3>2 DEF EchoInv, DataInv, EchoesInOrder
    <3> QED
      BY <3>1, <3>2
  <2> QED
    BY <2>3 DEF EchoesInOrder
<1>17. ClosedForAReason'
  <2>1. ASSUME NEW c \in Conn, RegisteredConn(c), ~isOpen[c]
        PROVE  c # m
    BY <1>2, <1>3, <2>1
  <2> QED
    BY <1>2, <1>10, <2>1 DEF EchoInv, DataInv, ClosedForAReason, RegisteredConn
<1> QED
  BY <1>13, <1>14, <1>15, <1>16, <1>17 DEF DataInv

\* The first chunk is echoed or, if it is the command, closes its stream.
LEMMA EchoesBack ==
  ASSUME EchoInv, NEW kill \in BOOLEAN, kill => Head(rq) = <<KillMe>>,
         OnRead(IF kill THEN {} ELSE {cur}, IF kill THEN {cur} ELSE {})
  PROVE  DataInv'
<1>1. IInv /\ TypeOK
  BY DEF EchoInv, IInv
<1>2. /\ phase = "deliver" /\ phase' = "deliver" /\ rq # <<>> /\ rq' = Tail(rq)
      /\ UNCHANGED <<backlog, peer, sent, received, inbox, sndq, handlers, cur>>
      /\ wq' = [c \in Conn |-> IF ~kill /\ Me = c THEN Append(wq[c], Head(rq))
                                                ELSE wq[c]]
      /\ isOpen' = [c \in Conn |-> isOpen[c] /\ ~(kill /\ Me = c)]
  BY DEF OnRead, peerVars, Me
<1>3. cur \in Fd /\ Me \in Conn
  BY <1>1, <1>2 DEF IInv, TypeOK, ServingOrder, Serving, Registered, Me
<1>4. PICK m \in Conn : m = Me
  BY <1>3
<1>5. \A c \in Conn : /\ Chunks(c) = IF c = m THEN rq ELSE <<>>
                      /\ Chunks(c)' = IF c = m THEN rq' ELSE <<>>
  BY <1>2, <1>4 DEF Chunks, Serving, Me
<1>6. /\ wq[m] \in Seq(Buf) /\ rq \in Seq(Buf) /\ wq[m] \o rq \in Seq(Buf)
      /\ sent[m] \in Seq(Unit) /\ received[m] \o sndq[m] \in Seq(Unit)
      /\ inbox[m] \in Seq(Unit)
  BY <1>1, <1>5, DataTypes
\* The chunk goes from the front of bufs to the end of write_queue_.
<1>7. ASSUME NEW c \in Conn, isOpen'[c], OnItsWay(c) PROVE OnItsWay(c)'
  <2>1. CASE c # m
    BY <1>2, <1>4, <1>5, <1>7, <2>1 DEF OnItsWay
  <2>2. CASE c = m
    <3>1. ~kill /\ wq'[m] = Append(wq[m], Head(rq))
      BY <1>2, <1>4, <1>7, <2>2
    <3>2. Append(wq[m], Head(rq)) \o Tail(rq) = wq[m] \o rq
      BY <1>2, <1>6, ShiftConcat, Zenon
    <3> QED
      BY <1>2, <1>5, <1>7, <2>2, <3>1, <3>2 DEF OnItsWay
  <2> QED
    BY <2>1, <2>2
<1>8. NothingLost'
  <2>1. \A c \in Conn : isOpen'[c] => isOpen[c]
    BY <1>2
  <2> QED
    BY <1>2, <1>7, <2>1, WayFrame
<1>9. FreshIsIdle'
  <2>1. ASSUME NEW c \in Conn, peer[c] = "new" \/ \E i \in DOMAIN backlog : backlog[i] = c
        PROVE  wq'[c] = wq[c]
    BY <1>1, <1>2, <2>1, FreshNotServed DEF Serving
  <2> QED
    BY <1>2, <2>1 DEF EchoInv, DataInv, FreshIsIdle
\* Only a stream that KILLME came through is closed.
<1>10. kill /\ isOpen[m] /\ peer[m] = "up" => KillMe \in ToSet(sent[m])
  <2> SUFFICES ASSUME kill, isOpen[m], peer[m] = "up"
               PROVE  KillMe \in ToSet(sent[m])
    OBVIOUS
  <2>1. OnItsWay(m)
    BY <1>3, <1>4, NoConnAssumption
       DEF EchoInv, DataInv, NothingLost, Live, Registered, Me
  <2>2. Whole(sent[m], received[m] \o sndq[m], wq[m] \o rq, inbox[m])
    BY <1>5, <2>1 DEF OnItsWay
  <2> DEFINE out == received[m] \o sndq[m]
             bufs == wq[m] \o rq
             i == Len(wq[m]) + 1
  <2>3. i \in DOMAIN bufs /\ bufs[i] = rq[1]
    <3>1. Len(rq) \in Nat /\ Len(rq) # 0 /\ Len(wq[m]) \in Nat
      BY <1>2, <1>6, EmptySeq, LenProperties
    <3> QED
      BY <1>6, <3>1
  <2>4. rq[1] = <<KillMe>>
    BY <1>2, <1>6
  <2> HIDE DEF out, bufs, i
  <2>5. 1 \in DOMAIN bufs[i] /\ bufs[i][1] = KillMe
    BY <2>3, <2>4
  <2>6. /\ bufs \in Seq(Buf) /\ out \in Seq(Unit)
        /\ Whole(sent[m], out, bufs, inbox[m])
    BY <1>6, <2>2 DEF bufs, out
  <2>7. \E k \in DOMAIN sent[m] : sent[m][k] = bufs[i][1]
    BY <1>6, <2>3, <2>5, <2>6, WholeHolds
  <2> QED
    BY <2>5, <2>7 DEF ToSet
<1>11. ClosedForAReason'
  <2>1. ASSUME NEW c \in Conn, RegisteredConn(c), ~isOpen'[c]
        PROVE  \/ peer[c] # "up" \/ KillMe \in ToSet(sent[c])
               \/ Len(received[c] \o sndq[c]) \in SndBuf .. Len(sent[c]) - 1
    <3>1. CASE ~isOpen[c]
      BY <2>1, <3>1 DEF EchoInv, DataInv, ClosedForAReason
    <3>2. CASE isOpen[c]
      BY <1>2, <1>4, <1>10, <2>1, <3>2
    <3> QED
      BY <3>1, <3>2
  <2> QED
    BY <1>2, <2>1 DEF ClosedForAReason, RegisteredConn
<1>12. EchoesInOrder' /\ NoChunksLeft'
  BY <1>2 DEF EchoInv, DataInv, EchoesInOrder, NoChunksLeft
<1> QED
  BY <1>8, <1>9, <1>11, <1>12 DEF DataInv

LEMMA EchoOnReadKeeps == ASSUME EchoInv, EchoOnRead PROVE DataInv'
<1> DEFINE kill == rq # <<>> /\ Head(rq) = <<KillMe>>
<1>1. OnRead(IF kill THEN {} ELSE {cur}, IF kill THEN {cur} ELSE {})
  BY DEF EchoOnRead
<1>2. kill \in BOOLEAN /\ (kill => Head(rq) = <<KillMe>>)
  OBVIOUS
<1> HIDE DEF kill
<1> QED
  BY <1>1, <1>2, EchoesBack

\* A new handler begins with nothing but what its peer has sent already.
LEMMA AcceptKeeps == ASSUME EchoInv, NEW f \in Fd, Accept(f) PROVE DataInv'
<1>1. IInv /\ TypeOK
  BY DEF EchoInv, IInv
<1> DEFINE c0 == Head(backlog)
<1>2. /\ phase = "dispatch" /\ phase' = "dispatch" /\ backlog # <<>>
      /\ backlog' = Tail(backlog)
      /\ handlers' = [handlers EXCEPT ![f] = c0]
      /\ isOpen' = [isOpen EXCEPT ![c0] = TRUE]
      /\ UNCHANGED <<peer, sent, received, inbox, sndq, wq, rq>>
  BY DEF Accept, IsNext
<1>3. /\ c0 \in Conn /\ \E i \in DOMAIN backlog : backlog[i] = c0
      /\ \A c \in Conn : (\E i \in DOMAIN backlog' : backlog'[i] = c)
                          => \E i \in DOMAIN backlog : backlog[i] = c
  BY <1>1, <1>2, TailOfBacklog
<1>4. /\ \A g \in Fd : handlers'[g] = c0 \/ handlers'[g] = handlers[g]
      /\ isOpen'[c0] /\ \A c \in Conn : c # c0 => isOpen'[c] = isOpen[c]
  BY <1>1, <1>2, <1>3 DEF TypeOK
<1>5. rq = <<>> /\ \A c \in Conn : Chunks(c) = <<>> /\ Chunks(c)' = <<>>
  BY <1>2 DEF EchoInv, DataInv, NoChunksLeft, Chunks, Serving
<1> HIDE DEF c0
<1>6. FreshIsIdle' /\ EchoesInOrder' /\ NoChunksLeft'
  BY <1>2, <1>3, <1>5
     DEF EchoInv, DataInv, FreshIsIdle, EchoesInOrder, NoChunksLeft
<1>7. ASSUME NEW c \in Conn, OnItsWay(c) PROVE OnItsWay(c)'
  BY <1>2, <1>5, <1>7 DEF OnItsWay
<1>8. OnItsWay(c0)
  <2>1. /\ received[c0] = <<>> /\ sndq[c0] = <<>> /\ wq[c0] = <<>>
        /\ inbox[c0] = sent[c0] /\ sent[c0] \in Seq(Unit)
    BY <1>1, <1>3, DataTypes DEF EchoInv, DataInv, FreshIsIdle
  <2>2. Whole(sent[c0], <<>> \o <<>>, <<>> \o <<>>, sent[c0])
    BY <2>1, WholeFresh
  <2> QED
    BY <1>3, <1>5, <2>1, <2>2 DEF OnItsWay
<1>9. ASSUME NEW g \in Fd, Live(g)', peer'[handlers'[g]] \in {"up", "fin"},
             NEW c \in Conn, handlers'[g] = c
      PROVE  OnItsWay(c)
  <2>1. CASE c = c0
    BY <1>8, <2>1
  <2>2. CASE c # c0
    <3>1. handlers[g] = c /\ isOpen[c] /\ peer[c] \in {"up", "fin"}
      BY <1>2, <1>4, <1>9, <2>2 DEF Live
    <3> QED
      BY <3>1, NoConnAssumption DEF EchoInv, DataInv, NothingLost, Live, Registered
  <2> QED
    BY <2>1, <2>2
<1>10. NothingLost'
  <2>1. ASSUME NEW g \in Fd, Live(g)', peer'[handlers'[g]] \in {"up", "fin"}
        PROVE  OnItsWay(handlers[g])'
    <3>1. PICK c \in Conn : handlers'[g] = c
      BY <1>1, <1>3, <1>4, <2>1, ZenonT(30) DEF TypeOK, Live, Registered
    <3>2. OnItsWay(c)'
      BY <1>7, <1>9, <2>1, <3>1
    <3> QED
      BY <3>1, <3>2 DEF OnItsWay
  <2> QED
    BY <2>1 DEF NothingLost
<1>11. ClosedForAReason'
  BY <1>2, <1>4, ZenonT(30) DEF EchoInv, DataInv, ClosedForAReason, RegisteredConn
<1> QED
  BY <1>6, <1>10, <1>11 DEF DataInv

LEMMA CleanupKeeps == ASSUME EchoInv, Cleanup PROVE DataInv'
<1>1. IInv /\ TypeOK
  BY DEF EchoInv, IInv
<1>2. /\ phase = "cleanup" /\ phase' = "poll"
      /\ UNCHANGED <<backlog, peer, sent, received, inbox, sndq, isOpen, rq>>
      /\ \A f \in Fd : handlers'[f] \in {handlers[f], NoConn}
  BY DEF Cleanup, peerVars
<1>3. ASSUME NEW c \in Conn
      PROVE  wq'[c] \in {wq[c], <<>>} /\ (isOpen[c] => wq'[c] = wq[c])
  BY <1>1 DEF Cleanup, Closed, Registered, TypeOK
<1>4. rq = <<>> /\ \A c \in Conn : Chunks(c) = <<>> /\ Chunks(c)' = <<>>
  BY <1>2 DEF EchoInv, DataInv, NoChunksLeft, Chunks, Serving
<1>5. FreshIsIdle' /\ EchoesInOrder' /\ NoChunksLeft'
  BY <1>2, <1>3, <1>4
     DEF EchoInv, DataInv, FreshIsIdle, EchoesInOrder, NoChunksLeft
<1>6. ASSUME NEW f \in Fd, Live(f)', peer'[handlers'[f]] \in {"up", "fin"}
      PROVE  OnItsWay(handlers[f])'
  <2>1. PICK c \in Conn : c = handlers[f] /\ c = handlers'[f]
    BY <1>1, <1>2, <1>6 DEF TypeOK, Live, Registered
  <2>2. OnItsWay(c) /\ isOpen[c]
    BY <1>2, <1>6, <2>1 DEF EchoInv, DataInv, NothingLost, Live, Registered
  <2>3. wq'[c] = wq[c]
    BY <1>3, <2>2
  <2> QED
    BY <1>2, <1>4, <2>1, <2>2, <2>3 DEF OnItsWay
<1>7. NothingLost'
  BY <1>6 DEF NothingLost
<1>8. ClosedForAReason'
  BY <1>2, NoConnAssumption DEF EchoInv, DataInv, ClosedForAReason, RegisteredConn
<1> QED
  BY <1>5, <1>7, <1>8 DEF DataInv

\* What the peers do leaves the loop where it is.
LEMMA PeerFrame ==
  ASSUME UNCHANGED loopVars
  PROVE  /\ \A c \in Conn : Chunks(c)' = Chunks(c) /\ wq'[c] = wq[c]
         /\ UNCHANGED <<handlers, isOpen>>
         /\ \A f \in Fd : Live(f)' <=> Live(f)
         /\ \A c \in Conn : RegisteredConn(c)' <=> RegisteredConn(c)
         /\ NoChunksLeft => NoChunksLeft'
BY DEF loopVars, Chunks, Live, Registered, RegisteredConn, NoChunksLeft

\* Connecting, being aborted or shutting down moves no data.
LEMMA PeerMovesKeep ==
  ASSUME EchoInv, UNCHANGED loopVars, NEW c \in Conn,
         Connect(c) \/ Abort(c) \/ Fin(c)
  PROVE  DataInv'
<1>1. IInv /\ TypeOK /\ peer \in [Conn -> PeerStates] /\ backlog \in Seq(Conn)
  BY DEF EchoInv, IInv, TypeOK, SocketsTypeOK
<1>2. UNCHANGED <<inbox, sndq, sent, received>>
  BY DEF Connect, Abort, Fin
<1>3. \A d \in Conn : /\ peer'[d] # peer[d] => d = c
                      /\ peer'[d] = "up" => peer[d] = "up" \/ peer[d] = "new"
                      /\ peer'[d] \in {"up", "fin"}
                           => peer[d] \in {"up", "fin"} \/ peer[d] = "new"
                      /\ peer'[d] = "new" => peer[d] = "new"
  BY <1>1 DEF Connect, Abort, Fin
<1>4. ASSUME NEW d \in Conn, \E i \in DOMAIN backlog' : backlog'[i] = d
      PROVE  peer[d] = "new" \/ \E i \in DOMAIN backlog : backlog[i] = d
  <2>1. CASE Connect(c)
    <3>1. peer[c] = "new" /\ backlog' = Append(backlog, c)
      BY <2>1 DEF Connect
    <3>2. \A i \in DOMAIN backlog' :
            \/ backlog'[i] = c
            \/ i \in DOMAIN backlog /\ backlog'[i] = backlog[i]
      BY <1>1, <3>1
    <3> QED
      BY <1>4, <3>1, <3>2
  <2>2. CASE Abort(c)
    BY <1>1, <1>4, <2>2, TailOfBacklog DEF Abort
  <2>3. CASE Fin(c)
    BY <1>4, <2>3 DEF Fin
  <2> QED
    BY <2>1, <2>2, <2>3
<1>5. FreshIsIdle' /\ EchoesInOrder' /\ NoChunksLeft'
  <2>1. ASSUME NEW d \in Conn,
               peer'[d] = "new" \/ \E i \in DOMAIN backlog' : backlog'[i] = d
        PROVE  /\ received[d] = <<>> /\ sndq[d] = <<>> /\ wq[d] = <<>>
               /\ inbox[d] = sent[d]
    <3>1. peer[d] = "new" \/ \E i \in DOMAIN backlog : backlog[i] = d
      BY <1>3, <1>4, <2>1
    <3> QED
      BY <3>1 DEF EchoInv, DataInv, FreshIsIdle
  <2>2. FreshIsIdle'
    BY <1>2, <2>1, PeerFrame DEF FreshIsIdle
  <2> QED
    BY <1>2, <2>2, PeerFrame DEF EchoInv, DataInv, EchoesInOrder
<1>6. \A d \in Conn : RegisteredConn(d) => peer[d] # "new"
  BY <1>1 DEF IInv, Fresh, RegisteredConn
<1>7. NothingLost'
  <2>1. ASSUME NEW f \in Fd, Live(f)', peer'[handlers'[f]] \in {"up", "fin"}
        PROVE  OnItsWay(handlers[f])'
    <3>1. PICK d \in Conn : d = handlers[f] /\ d = handlers'[f]
      BY <1>1, <2>1, PeerFrame DEF TypeOK, Live, Registered
    <3>2. Live(f) /\ peer[d] # "new" /\ peer'[d] \in {"up", "fin"}
      BY <1>6, <2>1, <3>1, PeerFrame DEF RegisteredConn
    <3>3. peer[d] \in {"up", "fin"}
      BY <1>3, <3>2
    <3>4. OnItsWay(d)
      BY <3>1, <3>2, <3>3 DEF EchoInv, DataInv, NothingLost
    <3>5. Chunks(d)' = Chunks(d) /\ wq'[d] = wq[d]
      BY PeerFrame
    <3> QED
      BY <1>2, <3>1, <3>4, <3>5 DEF OnItsWay
  <2> QED
    BY <2>1 DEF NothingLost
<1>8. ClosedForAReason'
  <2>1. ASSUME NEW d \in Conn, RegisteredConn(d), ~isOpen[d]
        PROVE  \/ peer'[d] # "up" \/ KillMe \in ToSet(sent[d])
               \/ Len(received[d] \o sndq[d]) \in SndBuf .. Len(sent[d]) - 1
    <3>1. peer'[d] = "up" => peer[d] = "up"
      BY <1>3, <1>6, <2>1
    <3> QED
      BY <2>1, <3>1 DEF EchoInv, DataInv, ClosedForAReason
  <2> QED
    BY <1>2, <2>1, PeerFrame DEF ClosedForAReason
<1> QED
  BY <1>5, <1>7, <1>8 DEF DataInv

\* A reset takes the send buffer with it, and what was received stays.
LEMMA ResetKeeps ==
  ASSUME EchoInv, UNCHANGED loopVars, NEW c \in Conn, Reset(c)
  PROVE  DataInv'
<1>1. /\ IInv /\ TypeOK /\ peer \in [Conn -> PeerStates]
      /\ sndq \in [Conn -> Seq(Unit)]
  BY DEF EchoInv, IInv, TypeOK, SocketsTypeOK
<1>2. /\ UNCHANGED <<backlog, inbox, sent, received>>
      /\ peer[c] # "new" /\ peer'[c] \in {"rst", "pipe"}
      /\ sndq'[c] = <<>>
      /\ \A d \in Conn : d # c => peer'[d] = peer[d] /\ sndq'[d] = sndq[d]
  BY <1>1 DEF Reset
<1>3. FreshIsIdle'
  BY <1>2, PeerFrame DEF EchoInv, DataInv, FreshIsIdle
<1>4. EchoesInOrder'
  <2>1. StandsAt(received[c] \o <<>>, sent[c], 0)
    <3>1. StandsAt(received[c] \o sndq[c], sent[c], 0)
      BY DEF EchoInv, DataInv, EchoesInOrder
    <3>2. /\ received[c] \in Seq(Unit) /\ sndq[c] \in Seq(Unit)
          /\ sent[c] \in Seq(Unit)
      BY <1>1, DataTypes
    <3>3. StandsAt(received[c], sent[c], 0)
      BY <3>1, <3>2, StandsAtConcat
    <3>4. received[c] \o <<>> = received[c]
      BY <3>2, ConcatEmptySeq
    <3> QED
      BY <3>3, <3>4
  <2> QED
    BY <1>2, <2>1 DEF EchoInv, DataInv, EchoesInOrder
<1>5. NothingLost'
  <2>1. ASSUME NEW f \in Fd, Live(f)', peer'[handlers'[f]] \in {"up", "fin"}
        PROVE  OnItsWay(handlers[f])'
    <3>1. PICK d \in Conn : d = handlers[f] /\ d = handlers'[f]
      BY <1>1, <2>1, PeerFrame DEF TypeOK, Live, Registered
    <3>2. d # c /\ peer[d] \in {"up", "fin"} /\ Live(f)
      BY <1>2, <2>1, <3>1, PeerFrame
    <3>3. OnItsWay(d)
      BY <3>1, <3>2 DEF EchoInv, DataInv, NothingLost
    <3>4. Chunks(d)' = Chunks(d) /\ wq'[d] = wq[d]
      BY PeerFrame
    <3> QED
      BY <1>2, <3>1, <3>2, <3>3, <3>4 DEF OnItsWay
  <2> QED
    BY <2>1 DEF NothingLost
<1>6. ClosedForAReason' /\ NoChunksLeft'
  BY <1>2, PeerFrame DEF EchoInv, DataInv, ClosedForAReason
<1> QED
  BY <1>3, <1>4, <1>5, <1>6 DEF DataInv

LEMMA SendKeeps ==
  ASSUME EchoInv, UNCHANGED loopVars, NEW c \in Conn, NEW u \in Unit, Send(c, u)
  PROVE  DataInv'
<1>1. /\ IInv /\ TypeOK
      /\ sent \in [Conn -> Seq(Unit)] /\ inbox \in [Conn -> Seq(Unit)]
  BY DEF EchoInv, IInv, TypeOK, SocketsTypeOK
<1>2. /\ UNCHANGED <<backlog, peer, sndq, received>>
      /\ sent'[c] = Append(sent[c], u) /\ inbox'[c] = Append(inbox[c], u)
      /\ \A d \in Conn : d # c => sent'[d] = sent[d] /\ inbox'[d] = inbox[d]
  BY <1>1 DEF Send
<1>3. FreshIsIdle'
  BY <1>2, PeerFrame DEF EchoInv, DataInv, FreshIsIdle
<1>4. ASSUME NEW d \in Conn
      PROVE  /\ received[d] \o sndq[d] \in Seq(Unit) /\ sent[d] \in Seq(Unit)
             /\ wq[d] \o Chunks(d) \in Seq(Buf) /\ inbox[d] \in Seq(Unit)
  BY <1>1, DataTypes
<1>5. EchoesInOrder'
  <2>1. StandsAt(received[c] \o sndq[c], Append(sent[c], u), 0)
    <3> DEFINE out == received[c] \o sndq[c]
    <3>1. StandsAt(out, sent[c], 0) /\ out \in Seq(Unit) /\ sent[c] \in Seq(Unit)
      BY <1>4 DEF EchoInv, DataInv, EchoesInOrder
    <3> HIDE DEF out
    <3>2. StandsAt(out, Append(sent[c], u), 0)
      BY <3>1, StandsAtGrows
    <3> QED
      BY <3>2 DEF out
  <2> QED
    BY <1>2, <2>1 DEF EchoInv, DataInv, EchoesInOrder
<1>6. ASSUME NEW d \in Conn, OnItsWay(d) PROVE OnItsWay(d)'
  <2>1. CASE d # c
    BY <1>2, <1>6, <2>1, PeerFrame DEF OnItsWay
  <2>2. CASE d = c
    <3> DEFINE out == received[c] \o sndq[c]
               bufs == wq[c] \o Chunks(c)
    <3>1. /\ out \in Seq(Unit) /\ sent[c] \in Seq(Unit)
          /\ bufs \in Seq(Buf) /\ inbox[c] \in Seq(Unit)
      BY <1>4
    <3>2. Whole(sent[c], out, bufs, inbox[c])
      BY <1>6, <2>2 DEF OnItsWay
    <3> HIDE DEF out, bufs
    <3>3. Whole(Append(sent[c], u), out, bufs, Append(inbox[c], u))
      BY <3>1, <3>2, WholeSent
    <3>4. Chunks(c)' = Chunks(c) /\ wq'[c] = wq[c]
      BY PeerFrame
    <3> QED
      BY <1>2, <2>2, <3>3, <3>4 DEF OnItsWay, out, bufs
  <2> QED
    BY <2>1, <2>2
<1>7. NothingLost'
  BY <1>2, <1>6, PeerFrame, WayFrame
<1>8. ClosedForAReason'
  <2>1. /\ Len(sent'[c]) = Len(sent[c]) + 1
        /\ \A k \in DOMAIN sent[c] : k \in DOMAIN sent'[c] /\ sent'[c][k] = sent[c][k]
    BY <1>1, <1>2
  <2>2. ASSUME NEW d \in Conn, RegisteredConn(d), ~isOpen[d]
        PROVE  \/ peer[d] # "up" \/ KillMe \in ToSet(sent'[d])
               \/ Len(received[d] \o sndq[d]) \in SndBuf .. Len(sent'[d]) - 1
    <3>1. \/ peer[d] # "up" \/ KillMe \in ToSet(sent[d])
          \/ Len(received[d] \o sndq[d]) \in SndBuf .. Len(sent[d]) - 1
      BY <2>2 DEF EchoInv, DataInv, ClosedForAReason
    <3>2. KillMe \in ToSet(sent[d]) => KillMe \in ToSet(sent'[d])
      BY <1>2, <2>1 DEF ToSet
    <3>3. Len(sent[d]) \in Nat /\ Len(received[d] \o sndq[d]) \in Nat
          /\ Len(sent'[d]) \in {Len(sent[d]), Len(sent[d]) + 1}
      BY <1>2, <1>4, <2>1, LenProperties
    <3> DEFINE k == Len(received[d] \o sndq[d])
    <3> HIDE DEF k
    <3>4. \A x, m, l \in Nat : m \in {l, l + 1} /\ x \in SndBuf .. l - 1
                                => x \in SndBuf .. m - 1
      BY BufAssumption
    <3>5. k \in SndBuf .. Len(sent[d]) - 1 => k \in SndBuf .. Len(sent'[d]) - 1
      <4>1. Len(sent'[d]) \in Nat
        BY <3>3
      <4> QED
        BY <3>3, <3>4, <4>1 DEF k
    <3> QED
      BY <3>1, <3>2, <3>5 DEF k
  <2> QED
    BY <1>2, <2>2, PeerFrame DEF ClosedForAReason
<1>9. NoChunksLeft'
  BY PeerFrame DEF EchoInv, DataInv
<1> QED
  BY <1>3, <1>5, <1>7, <1>8, <1>9 DEF DataInv

LEMMA RecvKeeps ==
  ASSUME EchoInv, UNCHANGED loopVars, NEW c \in Conn, Recv(c)
  PROVE  DataInv'
<1>1. /\ IInv /\ TypeOK
      /\ sndq \in [Conn -> Seq(Unit)] /\ received \in [Conn -> Seq(Unit)]
  BY DEF EchoInv, IInv, TypeOK, SocketsTypeOK
<1>2. /\ UNCHANGED <<backlog, peer, inbox, sent>> /\ sndq[c] # <<>>
      /\ received'[c] = Append(received[c], Head(sndq[c]))
      /\ sndq'[c] = Tail(sndq[c])
      /\ \A d \in Conn : d # c => received'[d] = received[d] /\ sndq'[d] = sndq[d]
  BY <1>1 DEF Recv
<1>3. ASSUME NEW d \in Conn PROVE received'[d] \o sndq'[d] = received[d] \o sndq[d]
  <2>1. received[c] \in Seq(Unit) /\ sndq[c] \in Seq(Unit)
    BY <1>1
  <2>2. Append(received[c], Head(sndq[c])) \o Tail(sndq[c]) = received[c] \o sndq[c]
    BY <1>2, <2>1, ShiftConcat, Zenon
  <2> QED
    BY <1>2, <2>2
<1>4. FreshIsIdle'
  BY <1>2, PeerFrame DEF EchoInv, DataInv, FreshIsIdle
<1>5. EchoesInOrder'
  BY <1>2, <1>3 DEF EchoInv, DataInv, EchoesInOrder
<1>6. ASSUME NEW d \in Conn, OnItsWay(d) PROVE OnItsWay(d)'
  BY <1>2, <1>3, <1>6, PeerFrame DEF OnItsWay
<1>7. NothingLost'
  BY <1>2, <1>6, PeerFrame, WayFrame
<1>8. ClosedForAReason' /\ NoChunksLeft'
  BY <1>2, <1>3, PeerFrame DEF EchoInv, DataInv, ClosedForAReason
<1> QED
  BY <1>4, <1>5, <1>7, <1>8 DEF DataInv

THEOREM EchoStepKeeps == EchoInv /\ [EchoNext]_vars => EchoInv'
<1> SUFFICES ASSUME EchoInv, [EchoNext]_vars PROVE EchoInv'
  OBVIOUS
<1>1. IInv'
  BY EchoStepIsStep, TypeStep, FreshStep, StraightStep
     DEF EchoInv, IInv, Straight
<1>2. DataInv'
  <2>1. CASE QuietStep
    BY <2>1, QuietIsStill, StillKeeps, ExitKeeps, ReadSomeKeeps, WriteSomeKeeps
  <2>2. ASSUME NEW f \in Fd, Accept(f) PROVE DataInv'
    BY <2>2, AcceptKeeps
  <2>3. CASE Cleanup
    BY <2>3, CleanupKeeps
  <2>4. CASE EchoOnRead
    BY <2>4, EchoOnReadKeeps
  <2>5. CASE RaiseSignal \/ UNCHANGED vars
    BY <2>5, OtherStill, StillKeeps DEF EchoInv, IInv, DataInv
  <2>6. CASE Peers /\ UNCHANGED loopVars
    BY <2>6, PeerMovesKeep, SendKeeps, RecvKeeps, ResetKeeps DEF Peers
  <2> QED
    BY <2>1, <2>2, <2>3, <2>4, <2>5, <2>6 DEF EchoNext, EchoStep, Environment
<1> QED
  BY <1>1, <1>2 DEF EchoInv

LEMMA EchoInit == Init => EchoInv
<1> SUFFICES ASSUME Init PROVE EchoInv
  OBVIOUS
<1>1. IInv
  BY InitIInv
<1>2. /\ \A c \in Conn : /\ received[c] = <<>> /\ sndq[c] = <<>> /\ wq[c] = <<>>
                        /\ inbox[c] = <<>> /\ sent[c] = <<>>
      /\ rq = <<>> /\ \A f \in Fd : handlers[f] = NoConn
  BY DEF Init, SocketsInit
<1>3. FreshIsIdle /\ NoChunksLeft
  BY <1>2 DEF FreshIsIdle, NoChunksLeft
<1>5. EchoesInOrder
  <2> SUFFICES ASSUME NEW c \in Conn
               PROVE StandsAt(received[c] \o sndq[c], sent[c], 0)
    BY DEF EchoesInOrder
  <2>1. received[c] \o sndq[c] = <<>>
    BY <1>2
  <2> QED
    BY <2>1 DEF StandsAt
<1>4. NothingLost /\ ClosedForAReason
  BY <1>2, NoConnAssumption
     DEF NothingLost, ClosedForAReason, Live, Registered, RegisteredConn
<1> QED
  BY <1>1, <1>3, <1>4, <1>5 DEF EchoInv, DataInv

-----------------------------------------------------------------------------

THEOREM EchoAlways == EchoSpec => []EchoInv
BY EchoInit, EchoStepKeeps, PTL DEF EchoSpec

\* Through every short read, short write and reset, with any number of clients
\* and buffers of any size, what a client has sent is on its way back to it,
\* complete and in order, as long as its handler is open.
THEOREM EchoNothingLost == EchoSpec => []NothingLost
BY EchoAlways, PTL DEF EchoInv, DataInv

\* The server closes a connection of its own accord only for KILLME or a full
\* send buffer.
THEOREM EchoClosedForAReason == EchoSpec => []ClosedForAReason
BY EchoAlways, PTL DEF EchoInv, DataInv

-----------------------------------------------------------------------------
(* The echo server implements the echo service.                            *)

\* The clients that are owed an answer, as Service is instantiated.
Owed == {c \in Conn : /\ Running
                      /\ peer[c] \in {"new", "up"}
                      /\ KillMe \notin ToSet(sent[c])
                      /\ Accepted(c) => isOpen[c]}

\* Nothing revives the loop once it has ended.
LEMMA OnlyRunningMoves == [EchoNext]_vars => Running \/ UNCHANGED vars
BY DEF EchoNext, EchoStep, Environment, RaiseSignal, QuietStep, EnterPoll,
       PollReturns, PollTimeout, PollEintr, PollEnds, NoSignal, TakeSignal,
       OnInterrupt, AcceptFails, DispatchRead, DispatchWrite, Serve, IsNext,
       DispatchDone, ReadSome, ReadBlocked, ReadEnds, ReadClosed, Delivered,
       WriteSome, WriteBlocked, WriteFault, WriteSigpipe, WriteEnds, CanWrite,
       Accept, Cleanup, EchoOnRead, OnRead, Running, Ended

\* A stream is opened by accept alone, for a connection that was waiting.
LEMMA OpenedWhenAccepted ==
  ASSUME EchoInv, [EchoNext]_vars, NEW c \in Conn, Accepted(c), isOpen'[c]
  PROVE  isOpen[c]
<1>1. TypeOK /\ isOpen \in [Conn -> BOOLEAN] /\ backlog \in Seq(Conn)
  BY DEF EchoInv, IInv, TypeOK, SocketsTypeOK
<1>2. CASE QuietStep
  <2>1. CASE \E how \in Ended : Exit(how)
    BY <2>1 DEF Exit
  <2>2. CASE ReadSome \/ WriteSome \/ Still
    BY <2>2 DEF ReadSome, WriteSome, Still, regVars
  <2> QED
    BY <1>2, <2>1, <2>2, QuietIsStill
<1>3. ASSUME NEW f \in Fd, Accept(f) PROVE isOpen[c]
  <2>1. c # Head(backlog)
    BY <1>1, <1>3, TailOfBacklog DEF Accept, Accepted, ToSet
  <2> QED
    BY <1>1, <1>3, <2>1 DEF Accept
<1>4. CASE EchoOnRead
  BY <1>4 DEF EchoOnRead, OnRead
<1>5. CASE Cleanup \/ Environment \/ UNCHANGED vars
  BY <1>5 DEF Cleanup, Environment, RaiseSignal, vars, loopVars, regVars
<1> QED
  BY <1>2, <1>3, <1>4, <1>5 DEF EchoNext, EchoStep

\* A peer goes one way, and a connection that has left the queue stays out.
LEMMA PeersGoOn ==
  ASSUME EchoInv, [EchoNext]_vars, NEW c \in Conn
  PROVE  /\ peer'[c] \in {"new", "up"} => peer[c] \in {"new", "up"}
         /\ Accepted(c) => Accepted(c)'
<1>1. /\ TypeOK /\ backlog \in Seq(Conn) /\ peer \in [Conn -> PeerStates]
  BY DEF EchoInv, IInv, TypeOK, SocketsTypeOK
<1>2. CASE UNCHANGED <<backlog, peer>>
  BY <1>2 DEF Accepted
<1>3. ASSUME NEW f \in Fd, Accept(f)
      PROVE  peer' = peer /\ (Accepted(c) => Accepted(c)')
  BY <1>1, <1>3, TailOfBacklog DEF Accept, Accepted, ToSet
<1>4. ASSUME NEW d \in Conn, Connect(d)
      PROVE  /\ peer'[c] \in {"new", "up"} => peer[c] \in {"new", "up"}
             /\ Accepted(c) => Accepted(c)'
  <2>1. /\ peer[d] = "new" /\ peer' = [peer EXCEPT ![d] = "up"]
        /\ backlog' = Append(backlog, d)
    BY <1>4 DEF Connect
  <2>2. \A i \in DOMAIN backlog' :
          \/ backlog'[i] = d
          \/ i \in DOMAIN backlog /\ backlog'[i] = backlog[i]
    BY <1>1, <2>1
  <2>3. ASSUME Accepted(c) PROVE Accepted(c)'
    <3>1. peer[c] # "new" /\ c # d /\ \A i \in DOMAIN backlog : backlog[i] # c
      BY <2>1, <2>3 DEF Accepted, ToSet
    <3> QED
      BY <1>1, <2>1, <2>2, <3>1 DEF Accepted, ToSet
  <2> QED
    BY <1>1, <2>1, <2>3
<1>5. ASSUME NEW d \in Conn, Abort(d)
      PROVE  /\ peer'[c] \in {"new", "up"} => peer[c] \in {"new", "up"}
             /\ Accepted(c) => Accepted(c)'
  <2>1. backlog # <<>> /\ backlog' = Tail(backlog)
        /\ peer' = [peer EXCEPT ![d] = "rst"]
    BY <1>5 DEF Abort
  <2> QED
    BY <1>1, <2>1, TailOfBacklog DEF Accepted, ToSet
<1>6. ASSUME NEW d \in Conn, Fin(d) \/ Reset(d)
      PROVE  /\ peer'[c] \in {"new", "up"} => peer[c] \in {"new", "up"}
             /\ Accepted(c) => Accepted(c)'
  <2>1. backlog' = backlog /\ \E s \in {"fin", "rst", "pipe"} :
          peer' = [peer EXCEPT ![d] = s]
    BY <1>6 DEF Fin, Reset
  <2> QED
    BY <1>1, <2>1 DEF Accepted
<1>7. CASE Peers
  <2>1. CASE \E d \in Conn : Recv(d) \/ \E u \in Unit : Send(d, u)
    BY <1>2, <2>1 DEF Recv, Send
  <2> QED
    BY <1>4, <1>5, <1>6, <1>7, <2>1 DEF Peers
<1>8. CASE QuietStep \/ Cleanup \/ EchoOnRead \/ RaiseSignal \/ UNCHANGED vars
  <2>1. CASE QuietStep
    BY <1>2, <2>1, QuietFrame DEF EchoInv
  <2>2. CASE Cleanup \/ EchoOnRead \/ RaiseSignal \/ UNCHANGED vars
    BY <1>2, <2>2 DEF Cleanup, EchoOnRead, OnRead, RaiseSignal, vars, sockVars,
                      peerVars
  <2> QED
    BY <1>8, <2>1, <2>2
<1> QED
  BY <1>3, <1>7, <1>8 DEF EchoNext, EchoStep, Environment

\* DataInv leave and reach a peer only by its own doing.
LEMMA PeersMoveData ==
  ASSUME EchoInv, [EchoNext]_vars
  PROVE  \/ UNCHANGED <<sent, received>>
         \/ \E c \in Conn : \/ Recv(c) /\ UNCHANGED loopVars
                           \/ \E u \in Unit : Send(c, u) /\ UNCHANGED loopVars
<1>1. CASE QuietStep
  BY <1>1, QuietIsStill DEF Still, Exit, ReadSome, WriteSome, peerVars
<1>2. CASE Cleanup \/ EchoOnRead \/ RaiseSignal \/ UNCHANGED vars
  BY <1>2 DEF Cleanup, EchoOnRead, OnRead, RaiseSignal, vars, sockVars, peerVars
<1>3. CASE \E f \in Fd : Accept(f)
  BY <1>3 DEF Accept
<1>4. CASE Peers /\ UNCHANGED loopVars
  BY <1>4 DEF Peers, Connect, Abort, Fin, Reset
<1> QED
  BY <1>1, <1>2, <1>3, <1>4 DEF EchoNext, EchoStep, Environment

\* Nobody who has left the service comes back to it.
LEMMA OwedFalls == EchoInv /\ [EchoNext]_vars => Owed' \subseteq Owed
<1> SUFFICES ASSUME EchoInv, [EchoNext]_vars, NEW c \in Conn,
                    Running', peer'[c] \in {"new", "up"},
                    KillMe \notin ToSet(sent'[c]), Accepted(c)' => isOpen'[c]
             PROVE  c \in Owed
  BY DEF Owed
<1>1. Running
  BY OnlyRunningMoves DEF Running, vars, loopVars
<1>2. /\ peer[c] \in {"new", "up"}
      /\ Accepted(c) => isOpen[c]
  BY PeersGoOn, OpenedWhenAccepted
<1>3. KillMe \notin ToSet(sent[c])
  <2>1. CASE sent' = sent
    BY <2>1
  <2>2. ASSUME NEW d \in Conn, NEW u \in Unit, Send(d, u)
        PROVE  KillMe \notin ToSet(sent[c])
    <3>1. sent \in [Conn -> Seq(Unit)] /\ sent' = [sent EXCEPT ![d] = Append(@, u)]
      BY <2>2 DEF Send, EchoInv, IInv, TypeOK, SocketsTypeOK
    <3>2. \A i \in DOMAIN sent[c] :
            i \in DOMAIN sent'[c] /\ sent'[c][i] = sent[c][i]
      BY <3>1
    <3> QED
      BY <3>2 DEF ToSet
  <2> QED
    BY <2>1, <2>2, PeersMoveData DEF Recv
<1> QED
  BY <1>1, <1>2, <1>3 DEF Owed

\* What a client gets back is the next unit it has sent.
LEMMA RecvAnswers ==
  ASSUME EchoInv, NEW c \in Conn, Recv(c)
  PROVE  /\ Len(received[c]) < Len(sent[c])
         /\ received' = [received EXCEPT ![c] =
                           Append(@, sent[c][Len(@) + 1])]
<1>1. /\ received[c] \in Seq(Unit) /\ sndq[c] \in Seq(Unit)
      /\ sent[c] \in Seq(Unit) /\ received \in [Conn -> Seq(Unit)]
  BY DataTypes DEF EchoInv, IInv, TypeOK, SocketsTypeOK
<1>2. StandsAt(sndq[c], sent[c], Len(received[c]))
  <2>1. StandsAt(received[c] \o sndq[c], sent[c], 0)
    BY DEF EchoInv, DataInv, EchoesInOrder
  <2>2. StandsAt(sndq[c], sent[c], 0 + Len(received[c]))
    BY <1>1, <2>1, StandsAtConcat
  <2> QED
    BY <1>1, <2>2
<1>3. sndq[c] # <<>>
      /\ received' = [received EXCEPT ![c] = Append(@, Head(sndq[c]))]
  BY DEF Recv
<1>4. 1 \in DOMAIN sndq[c] /\ Head(sndq[c]) = sndq[c][1]
  BY <1>1, <1>3
<1>5. /\ Len(received[c]) + 1 \in DOMAIN sent[c]
      /\ Head(sndq[c]) = sent[c][Len(received[c]) + 1]
  BY <1>2, <1>4 DEF StandsAt
<1>6. Len(received[c]) < Len(sent[c])
  <2>1. \A m, n \in Nat : m + 1 \in 1 .. n => m < n
    OBVIOUS
  <2>2. Len(received[c]) \in Nat /\ Len(sent[c]) \in Nat
        /\ DOMAIN sent[c] = 1 .. Len(sent[c])
    BY <1>1
  <2> QED
    BY <1>5, <2>1, <2>2
<1> QED
  BY <1>3, <1>5, <1>6

LEMMA ServiceStep ==
  EchoInv /\ [EchoNext]_vars => [Service!ServiceNext]_(Service!echoVars)
<1> SUFFICES ASSUME EchoInv, [EchoNext]_vars
             PROVE  Service!ServiceNext
  OBVIOUS
<1>1. CASE UNCHANGED <<sent, received>>
  BY <1>1, OwedFalls DEF Service!ServiceNext, Service!Forsake, Owed
<1>2. ASSUME NEW c \in Conn, Recv(c), UNCHANGED loopVars
      PROVE  Service!Answer(c)
  <2>1. UNCHANGED <<sent, backlog, peer>>
    BY <1>2 DEF Recv
  <2>2. Owed' = Owed
    BY <1>2, <2>1 DEF Owed, Running, Accepted, loopVars
  <2> QED
    BY <1>2, <2>1, <2>2, RecvAnswers DEF Service!Answer, Owed
<1>3. ASSUME NEW c \in Conn, NEW u \in Unit, Send(c, u), UNCHANGED loopVars
      PROVE  Service!Ask(c)
  <2>1. /\ UNCHANGED <<received, backlog, peer>>
        /\ sent' = [sent EXCEPT ![c] = Append(@, u)]
    BY <1>3 DEF Send
  <2>2. \A d \in Conn : d # c => sent'[d] = sent[d]
    BY <2>1 DEF EchoInv, IInv, TypeOK, SocketsTypeOK
  <2>3. \A d \in Conn : d # c => (d \in Owed' <=> d \in Owed)
    BY <1>3, <2>1, <2>2 DEF Owed, Running, Accepted, loopVars
  <2>4. Owed' \subseteq Owed /\ Owed \subseteq Conn
    BY OwedFalls DEF Owed
  <2>5. Owed' \in {Owed, Owed \ {c}}
    BY <2>3, <2>4
  <2> QED
    BY <1>3, <2>1, <2>5 DEF Service!Ask, Owed
<1> QED
  BY <1>1, <1>2, <1>3, PeersMoveData DEF Service!ServiceNext

\* With any number of clients, descriptors and units, whatever the sockets
\* split, block and reset: each client receives what it has sent, in order
\* and once, and one that has left the service never comes back to it.
THEOREM EchoImplementsService == EchoSpec => Service!ServiceSafety
<1>1. Init => Service!ServiceInit
  BY DEF Init, SocketsInit, Service!ServiceInit, Running, Ended, Accepted, ToSet
<1> QED
  BY <1>1, EchoAlways, ServiceStep, PTL DEF EchoSpec, Service!ServiceSafety

-----------------------------------------------------------------------------
(* The chat server.                                                        *)

\* Until the process ends the program's clients are the Poller's handlers.
ChatInv ==
  /\ IInv
  /\ clients \in SUBSET Fd
  /\ ClientsAreHandlers

LEMMA ChatOnReadIsOnRead == ChatInv /\ ChatOnRead => AnyOnRead
<1> SUFFICES ASSUME ChatInv, ChatOnRead PROVE AnyOnRead
  OBVIOUS
<1>1. OnRead(Recipients, {})
  BY DEF ChatOnRead
<1>2. Recipients \in SUBSET Fd /\ {} \in SUBSET Fd
  BY DEF ChatInv, Recipients
<1> QED
  BY <1>1, <1>2 DEF AnyOnRead

\* A step of the chat server is a step of the event loop.
LEMMA ChatStepIsStep == ChatInv /\ [ChatNext]_chatVars => [Next]_vars
BY ChatOnReadIsOnRead
   DEF ChatNext, ChatStep, ChatAccept, ChatCleanup, Next, LoopStep, chatVars

LEMMA QuietKeepsClients ==
  ASSUME IInv, QuietStep
  PROVE  \/ handlers' = handlers /\ phase \notin Ended
         \/ phase' \in Ended
BY DEF QuietStep, EnterPoll, PollReturns, PollTimeout, PollEintr, PollEnds,
       NoSignal, TakeSignal, OnInterrupt, AcceptFails, Exit, DispatchRead,
       DispatchWrite, Serve, IsNext, DispatchDone, ReadSome, ReadBlocked,
       ReadEnds, ReadClosed, Delivered, CanWrite, WriteSome, WriteBlocked,
       WriteFault, WriteSigpipe, WriteEnds, EndServing, regVars, Ended

THEOREM ChatInvStep == ChatInv /\ [ChatNext]_chatVars => ChatInv'
<1> SUFFICES ASSUME ChatInv, [ChatNext]_chatVars PROVE ChatInv'
  OBVIOUS
<1>0. /\ IInv /\ clients \in SUBSET Fd
      /\ Running => clients = {f \in Fd : Registered(f)}
      /\ handlers \in [Fd -> Conn \cup {NoConn}]
  BY DEF ChatInv, ClientsAreHandlers, IInv, TypeOK
<1>1. IInv'
  BY <1>0, ChatStepIsStep, TypeStep, FreshStep, StraightStep
     DEF IInv, Straight
<1>2. clients' \in SUBSET Fd /\ ClientsAreHandlers'
  <2>1. CASE QuietStep /\ UNCHANGED <<clients, log, joined>>
    BY <1>0, <2>1, QuietKeepsClients
       DEF ClientsAreHandlers, Running, Registered
  <2>2. ASSUME NEW f \in Fd, ChatAccept(f)
        PROVE  clients' \in SUBSET Fd /\ ClientsAreHandlers'
    <3>1. /\ clients' = clients \cup {f} /\ phase' = phase /\ backlog # <<>>
          /\ handlers' = [handlers EXCEPT ![f] = Head(backlog)]
          /\ phase = "dispatch"
      BY <2>2 DEF ChatAccept, Accept, IsNext
    <3>2. Head(backlog) # NoConn
      BY <1>0, <3>1, TailOfBacklog, NoConnAssumption DEF IInv
    <3> QED
      BY <1>0, <3>1, <3>2 DEF ClientsAreHandlers, Running, Registered, Ended
  <2>3. CASE ChatCleanup
    <3>1. /\ clients' = {f \in clients : ~Closed(f)}
          /\ handlers' = [f \in Fd |-> IF Closed(f) THEN NoConn
                                                    ELSE handlers[f]]
          /\ phase = "cleanup"
      BY <2>3 DEF ChatCleanup, Cleanup
    <3> QED
      BY <1>0, <3>1 DEF ClientsAreHandlers, Running, Registered, Ended
  <2>4. CASE ChatOnRead
    BY <1>0, <2>4 DEF ChatOnRead, OnRead, ClientsAreHandlers, Running,
                      Registered
  <2>5. CASE Environment /\ UNCHANGED <<clients, log, joined>>
    BY <1>0, <2>5 DEF Environment, RaiseSignal, loopVars, regVars,
                      ClientsAreHandlers, Running, Registered
  <2>6. CASE UNCHANGED chatVars
    BY <1>0, <2>6 DEF chatVars, vars, loopVars, ClientsAreHandlers, Running,
                      Registered
  <2> QED
    BY <2>1, <2>2, <2>3, <2>4, <2>5, <2>6 DEF ChatNext, ChatStep
<1> QED
  BY <1>1, <1>2 DEF ChatInv

THEOREM ChatInvInit == ChatInit => ChatInv
BY InitIInv DEF ChatInit, ChatInv, ClientsAreHandlers, Init, Registered

\* chat-server.cpp uses the Poller within its terms.
THEOREM ChatImplementsPoller == ChatSpec => Spec
<1>1. ChatSpec => []ChatInv
  BY ChatInvInit, ChatInvStep, PTL DEF ChatSpec
<1> QED
  BY <1>1, ChatStepIsStep, PTL DEF ChatSpec, ChatInit, Spec

\* on_open and on_close keep the set of clients equal to the registered
\* descriptors through every order of accepts, ends, faults and reuse.
THEOREM ChatClientsAreHandlers == ChatSpec => []ClientsAreHandlers
BY ChatInvInit, ChatInvStep, PTL DEF ChatSpec, ChatInv

\* The chat server, too, keeps every descriptor with its own handler.
THEOREM ChatFdOwnership == ChatSpec => []FdOwnership
BY ChatImplementsPoller, PollerFdOwnership, PTL

-----------------------------------------------------------------------------
(* The conversation.  What a client is to hear is counted off in the log,  *)
(* L, from its place a.                                                    *)

Entry == [from : Conn, item : Unit]

Others(L, a, c) == {i \in DOMAIN L : i > a /\ L[i].from # c}

Nth(L, a, c, n, i) == n = Cardinality({j \in Others(L, a, c) : j <= i})

DueOf(L, a, c) ==
  [n \in 1 .. Cardinality(Others(L, a, c)) |->
     L[CHOOSE i \in Others(L, a, c) : Nth(L, a, c, n, i)].item]

\* There is an n-th for every n.
Counted(L, a, c) ==
  \A n \in 1 .. Cardinality(Others(L, a, c)) :
    \E i \in Others(L, a, c) : Nth(L, a, c, n, i)

LEMMA DueIsDueOf == \A c \in Conn : Talk!Due(c) = DueOf(log, joined[c], c)
BY DEF Talk!Due, Talk!Others, Talk!IsNth, DueOf, Others, Nth,
       Talk!Cardinality, Cardinality, Talk!IsFiniteSet, IsFiniteSet

LEMMA OthersFinite ==
  ASSUME NEW L \in Seq(Entry), NEW a, NEW c
  PROVE  /\ IsFiniteSet(Others(L, a, c))
         /\ Cardinality(Others(L, a, c)) \in Nat
         /\ Others(L, a, c) \subseteq 1 .. Len(L)
         /\ \A i : /\ IsFiniteSet({j \in Others(L, a, c) : j <= i})
                   /\ Cardinality({j \in Others(L, a, c) : j <= i}) \in Nat
                   /\ Cardinality({j \in Others(L, a, c) : j <= i})
                        <= Cardinality(Others(L, a, c))
<1> DEFINE O == Others(L, a, c)
<1>1. Len(L) \in Nat /\ DOMAIN L = 1 .. Len(L)
  OBVIOUS
<1>2. O \in SUBSET (1 .. Len(L))
  BY <1>1 DEF Others
<1>3. IsFiniteSet(1 .. Len(L))
  BY <1>1, FS_Interval
<1>4. IsFiniteSet(O)
  BY <1>2, <1>3, FS_Subset
<1>5. \A i : {j \in O : j <= i} \in SUBSET O
  OBVIOUS
<1> HIDE DEF O
<1>6. ASSUME NEW i
      PROVE  /\ IsFiniteSet({j \in O : j <= i})
             /\ Cardinality({j \in O : j <= i}) \in Nat
             /\ Cardinality({j \in O : j <= i}) <= Cardinality(O)
  BY <1>4, <1>5, FS_Subset, FS_CardinalityType
<1>7. Cardinality(O) \in Nat
  BY <1>4, FS_CardinalityType
<1> QED
  BY <1>2, <1>4, <1>6, <1>7 DEF O

LEMMA NthUnique ==
  ASSUME NEW L \in Seq(Entry), NEW a, NEW c, NEW n,
         NEW i \in Others(L, a, c), NEW k \in Others(L, a, c),
         Nth(L, a, c, n, i), Nth(L, a, c, n, k)
  PROVE  i = k
<1> DEFINE O == Others(L, a, c)
           P(x) == {j \in O : j <= x}
<1>1. O \subseteq 1 .. Len(L) /\ Len(L) \in Nat
  BY OthersFinite
<1>2. i \in Nat /\ k \in Nat
  BY <1>1
<1>3. /\ IsFiniteSet(P(i)) /\ IsFiniteSet(P(k))
      /\ Cardinality(P(i)) = Cardinality(P(k))
  BY OthersFinite DEF Nth
<1>4. i \in P(i) /\ k \in P(k)
  BY <1>2
<1>5. \A x, y \in Nat : x < y => P(x) \subseteq P(y) /\ y \notin P(x)
  BY <1>1
<1> HIDE DEF P
<1>6. CASE i < k
  BY <1>2, <1>3, <1>4, <1>5, <1>6, FS_Subset
<1>7. CASE k < i
  BY <1>2, <1>3, <1>4, <1>5, <1>7, FS_Subset
<1> QED
  BY <1>2, <1>6, <1>7

\* What the n-th of the others said is the n-th that is due.
LEMMA DueNth ==
  ASSUME NEW L \in Seq(Entry), NEW a, NEW c, NEW n,
         NEW i \in Others(L, a, c), Nth(L, a, c, n, i)
  PROVE  /\ n \in 1 .. Cardinality(Others(L, a, c))
         /\ DueOf(L, a, c)[n] = L[i].item
<1>1. n \in 1 .. Cardinality(Others(L, a, c))
  <2> DEFINE P == {j \in Others(L, a, c) : j <= i}
  <2>1. IsFiniteSet(P) /\ n = Cardinality(P) /\ n \in Nat
        /\ n <= Cardinality(Others(L, a, c))
        /\ Cardinality(Others(L, a, c)) \in Nat
    BY OthersFinite DEF Nth
  <2>2. i \in P
    BY OthersFinite
  <2> HIDE DEF P
  <2>3. n # 0
    BY <2>1, <2>2, FS_EmptySet
  <2> QED
    BY <2>1, <2>3
<1> DEFINE k == CHOOSE j \in Others(L, a, c) : Nth(L, a, c, n, j)
<1>2. k \in Others(L, a, c) /\ Nth(L, a, c, n, k)
  OBVIOUS
<1> HIDE DEF k
<1>3. k = i
  BY <1>2, NthUnique
<1>4. DueOf(L, a, c)[n] = L[k].item
  BY <1>1 DEF DueOf, k
<1> QED
  BY <1>1, <1>3, <1>4

LEMMA DueType ==
  ASSUME NEW L \in Seq(Entry), NEW a, NEW c, Counted(L, a, c)
  PROVE  /\ DueOf(L, a, c) \in Seq(Unit)
         /\ Len(DueOf(L, a, c)) = Cardinality(Others(L, a, c))
<1> DEFINE N == Cardinality(Others(L, a, c))
<1>1. N \in Nat
  BY OthersFinite
<1>2. ASSUME NEW n \in 1 .. N PROVE DueOf(L, a, c)[n] \in Unit
  <2>1. PICK i \in Others(L, a, c) : Nth(L, a, c, n, i)
    BY DEF Counted
  <2>2. i \in DOMAIN L /\ L[i] \in Entry
    BY OthersFinite
  <2>3. DueOf(L, a, c)[n] = L[i].item
    BY <2>1, DueNth
  <2> QED
    BY <2>2, <2>3 DEF Entry
<1>3. DueOf(L, a, c) = [n \in 1 .. N |-> DueOf(L, a, c)[n]]
  BY DEF DueOf
<1> HIDE DEF N
<1>4. DueOf(L, a, c) \in [1 .. N -> Unit]
  BY <1>2, <1>3
<1>5. DueOf(L, a, c) \in Seq(Unit)
  BY <1>1, <1>4
<1> QED
  BY <1>1, <1>4, <1>5 DEF N

\* What is relayed of m's words, b, one entry for each unit.
Words(m, b) == [i \in DOMAIN b |-> [from |-> m, item |-> b[i]]]

LEMMA LogGrows ==
  ASSUME NEW L \in Seq(Entry), NEW m \in Conn, NEW b \in Seq(Unit)
  PROVE  /\ L \o Words(m, b) \in Seq(Entry)
         /\ Len(L \o Words(m, b)) = Len(L) + Len(b)
         /\ \A i \in 1 .. Len(L) : (L \o Words(m, b))[i] = L[i]
         /\ \A i \in 1 .. Len(b) :
              (L \o Words(m, b))[Len(L) + i] = [from |-> m, item |-> b[i]]
<1>1. Len(L) \in Nat /\ Len(b) \in Nat /\ DOMAIN b = 1 .. Len(b)
  OBVIOUS
<1>2. \A i \in 1 .. Len(b) : [from |-> m, item |-> b[i]] \in Entry
  BY DEF Entry
<1>3. Words(m, b) \in [1 .. Len(b) -> Entry]
  BY <1>1, <1>2 DEF Words
<1>4. Words(m, b) \in Seq(Entry) /\ Len(Words(m, b)) = Len(b)
  BY <1>1, <1>3
<1>5. \A i \in 1 .. Len(b) : Words(m, b)[i] = [from |-> m, item |-> b[i]]
  BY <1>1 DEF Words
<1> DEFINE W == Words(m, b)
<1> HIDE DEF W
<1>6. \A K \in Seq(Entry) :
        /\ L \o K \in Seq(Entry) /\ Len(L \o K) = Len(L) + Len(K)
        /\ \A i \in 1 .. Len(L) : (L \o K)[i] = L[i]
        /\ \A i \in 1 .. Len(K) : (L \o K)[Len(L) + i] = K[i]
  OBVIOUS
<1> QED
  BY <1>4, <1>5, <1>6

\* m owes nobody to hear what he said himself.
LEMMA OwnWords ==
  ASSUME NEW L \in Seq(Entry), NEW c \in Conn, NEW b \in Seq(Unit),
         NEW a \in Nat, a <= Len(L), Counted(L, a, c)
  PROVE  /\ DueOf(L \o Words(c, b), a, c) = DueOf(L, a, c)
         /\ Counted(L \o Words(c, b), a, c)
<1> DEFINE K == L \o Words(c, b)
           N == Cardinality(Others(L, a, c))
<1>1. /\ K \in Seq(Entry) /\ Len(K) = Len(L) + Len(b)
      /\ \A i \in 1 .. Len(L) : K[i] = L[i]
      /\ \A i \in 1 .. Len(b) : K[Len(L) + i] = [from |-> c, item |-> b[i]]
      /\ Len(L) \in Nat /\ Len(b) \in Nat
  BY LogGrows
<1> HIDE DEF K
<1>2. Others(K, a, c) = Others(L, a, c)
  <2>1. \A i \in 1 .. Len(K) : i \in 1 .. Len(L)
                                 \/ \E k \in 1 .. Len(b) : i = Len(L) + k
    <3>1. \A i \in 1 .. Len(K) : i \in 1 .. Len(L)
                                 \/ (i - Len(L) \in 1 .. Len(b)
                                      /\ i = Len(L) + (i - Len(L)))
      BY <1>1
    <3> QED
      BY <3>1
  <2>2. DOMAIN K = 1 .. Len(K) /\ DOMAIN L = 1 .. Len(L)
    BY <1>1
  <2>3. 1 .. Len(L) \subseteq 1 .. Len(K)
    BY <1>1
  <2>4. \A i \in 1 .. Len(b) : K[Len(L) + i].from = c
    <3> SUFFICES ASSUME NEW i \in 1 .. Len(b) PROVE K[Len(L) + i].from = c
      OBVIOUS
    <3>1. K[Len(L) + i] = [from |-> c, item |-> b[i]]
      BY <1>1
    <3> QED
      BY <3>1
  <2> QED
    BY <1>1, <2>1, <2>2, <2>3, <2>4 DEF Others
<1>3. \A n, i : Nth(K, a, c, n, i) <=> Nth(L, a, c, n, i)
  BY <1>2 DEF Nth
<1>4. Counted(K, a, c)
  BY <1>2, <1>3 DEF Counted
<1>5. ASSUME NEW n \in 1 .. N PROVE DueOf(K, a, c)[n] = DueOf(L, a, c)[n]
  <2>1. PICK i \in Others(L, a, c) : Nth(L, a, c, n, i)
    BY DEF Counted
  <2>2. i \in Others(K, a, c) /\ Nth(K, a, c, n, i) /\ i \in 1 .. Len(L)
    BY <1>2, <1>3, <2>1, OthersFinite
  <2>3. DueOf(L, a, c)[n] = L[i].item
    BY <2>1, DueNth
  <2>4. DueOf(K, a, c)[n] = K[i].item
    BY <1>1, <2>2, DueNth
  <2> QED
    BY <1>1, <2>2, <2>3, <2>4
<1>6. /\ DueOf(L, a, c) = [n \in 1 .. N |-> DueOf(L, a, c)[n]]
      /\ DueOf(K, a, c) = [n \in 1 .. N |-> DueOf(K, a, c)[n]]
  BY <1>2 DEF DueOf
<1>7. DueOf(K, a, c) = DueOf(L, a, c)
  <2> HIDE DEF N
  <2>1. [n \in 1 .. N |-> DueOf(L, a, c)[n]] = [n \in 1 .. N |-> DueOf(K, a, c)[n]]
    BY <1>5
  <2> QED
    BY <1>6, <2>1
<1> QED
  BY <1>4, <1>7 DEF K

\* What m says is due, after all that was due before, to everyone else.
LEMMA OthersWords ==
  ASSUME NEW L \in Seq(Entry), NEW c \in Conn, NEW m \in Conn, c # m,
         NEW b \in Seq(Unit), NEW a \in Nat, a <= Len(L), Counted(L, a, c)
  PROVE  /\ DueOf(L \o Words(m, b), a, c) = DueOf(L, a, c) \o b
         /\ Counted(L \o Words(m, b), a, c)
<1> DEFINE K == L \o Words(m, b)
           l == Len(L)
           O == Others(L, a, c)
           N == Cardinality(O)
           New == l + 1 .. l + Len(b)
<1>1. /\ K \in Seq(Entry) /\ Len(K) = l + Len(b)
      /\ \A i \in 1 .. l : K[i] = L[i]
      /\ \A i \in 1 .. Len(b) : K[l + i] = [from |-> m, item |-> b[i]]
      /\ l \in Nat /\ Len(b) \in Nat /\ DOMAIN L = 1 .. l
  BY LogGrows
<1> HIDE DEF K
<1>2. \A i \in New : i - l \in 1 .. Len(b) /\ i = l + (i - l) /\ i > a /\ i \in Nat
  BY <1>1
<1>3. Others(K, a, c) = O \cup New
  <2>1. DOMAIN K = 1 .. l + Len(b)
    BY <1>1
  <2>2. \A i \in New : K[i].from # c
    <3> SUFFICES ASSUME NEW i \in New PROVE K[i].from # c
      OBVIOUS
    <3>1. K[i] = [from |-> m, item |-> b[i - l]]
      BY <1>1, <1>2
    <3> QED
      BY <3>1
  <2>3. 1 .. l + Len(b) = (1 .. l) \cup New
    BY <1>1
  <2> HIDE DEF l, New
  <2> QED
    BY <1>1, <1>2, <2>1, <2>2, <2>3 DEF Others
<1>4. IsFiniteSet(O) /\ N \in Nat /\ O \subseteq 1 .. l
  BY OthersFinite
<1>5. \A k \in 0 .. Len(b) :
        /\ IsFiniteSet(l + 1 .. l + k) /\ Cardinality(l + 1 .. l + k) = k
        /\ Cardinality(O \cup (l + 1 .. l + k)) = N + k
  <2> SUFFICES ASSUME NEW k \in 0 .. Len(b)
               PROVE  /\ IsFiniteSet(l + 1 .. l + k)
                      /\ Cardinality(l + 1 .. l + k) = k
                      /\ Cardinality(O \cup (l + 1 .. l + k)) = N + k
    OBVIOUS
  <2> DEFINE I == l + 1 .. l + k
  <2>1. IsFiniteSet(I) /\ Cardinality(I) = k
    <3>1. l + 1 \in Int /\ l + k \in Int
      BY <1>1
    <3>2. /\ IsFiniteSet(I)
          /\ Cardinality(I) = IF l + 1 > l + k THEN 0 ELSE (l + k) - (l + 1) + 1
      BY <3>1, FS_Interval
    <3> HIDE DEF I
    <3> QED
      BY <1>1, <3>2
  <2>2. O \cap I = {}
    BY <1>1, <1>4
  <2> HIDE DEF I, O
  <2>3. Cardinality(O \cup I) = Cardinality(O) + Cardinality(I) - Cardinality(O \cap I)
    BY <1>4, <2>1, FS_Union
  <2>4. Cardinality(O \cap I) = 0
    BY <2>2, FS_EmptySet
  <2>5. Cardinality(O \cup I) = N + k
    <3>1. \A x \in Nat : x + k - 0 = x + k
      BY <1>1
    <3> QED
      BY <1>4, <2>1, <2>3, <2>4, <3>1
  <2> QED
    BY <2>1, <2>5 DEF I
<1>6. Cardinality(Others(K, a, c)) = N + Len(b)
  BY <1>1, <1>3, <1>5
<1> HIDE DEF O
\* The ranks of the old places stay, those of the new ones follow.
<1>7. ASSUME NEW i \in O, NEW n PROVE Nth(K, a, c, n, i) <=> Nth(L, a, c, n, i)
  <2>1. {j \in O \cup New : j <= i} = {j \in O : j <= i}
    BY <1>1, <1>4
  <2> QED
    BY <1>3, <2>1 DEF Nth, O
<1>8. ASSUME NEW k \in 1 .. Len(b) PROVE Nth(K, a, c, N + k, l + k) /\ l + k \in New
  <2>1. /\ k \in 0 .. Len(b) /\ l + k \in New
        /\ \A j \in 1 .. l : j <= l + k
        /\ \A j \in New : j <= l + k <=> j \in l + 1 .. l + k
        /\ \A j \in l + 1 .. l + k : j \in New
    BY <1>1
  <2>2. {j \in O \cup New : j <= l + k} = O \cup (l + 1 .. l + k)
    <3> HIDE DEF New, l
    <3> QED
      BY <1>4, <2>1
  <2>3. Cardinality({j \in Others(K, a, c) : j <= l + k}) = N + k
    BY <1>3, <1>5, <2>1, <2>2
  <2> QED
    BY <2>1, <2>3 DEF Nth
<1> HIDE DEF N, New, l
<1>9. \A n \in 1 .. N + Len(b) : n \in 1 .. N \/ \E k \in 1 .. Len(b) : n = N + k
  <2>1. \A n \in 1 .. N + Len(b) :
          n \in 1 .. N \/ (n - N \in 1 .. Len(b) /\ n = N + (n - N))
    BY <1>1, <1>4
  <2> QED
    BY <2>1
<1>10. ASSUME NEW n \in 1 .. N
       PROVE  /\ \E i \in Others(K, a, c) : Nth(K, a, c, n, i)
              /\ DueOf(K, a, c)[n] = DueOf(L, a, c)[n]
  <2>1. PICK i \in O : Nth(L, a, c, n, i)
    BY DEF Counted, N, O
  <2>2. i \in Others(K, a, c) /\ Nth(K, a, c, n, i) /\ i \in 1 .. l
    BY <1>3, <1>4, <1>7, <2>1
  <2>3. DueOf(L, a, c)[n] = L[i].item
    BY <2>1, DueNth DEF O
  <2>4. DueOf(K, a, c)[n] = K[i].item
    BY <1>1, <2>2, DueNth
  <2> QED
    BY <1>1, <2>2, <2>3, <2>4
<1>11. ASSUME NEW k \in 1 .. Len(b)
       PROVE  /\ \E i \in Others(K, a, c) : Nth(K, a, c, N + k, i)
              /\ DueOf(K, a, c)[N + k] = b[k]
  <2>1. l + k \in Others(K, a, c) /\ Nth(K, a, c, N + k, l + k)
    BY <1>3, <1>8
  <2>2. DueOf(K, a, c)[N + k] = K[l + k].item
    BY <1>1, <2>1, DueNth
  <2>3. K[l + k] = [from |-> m, item |-> b[k]]
    BY <1>1
  <2> QED
    BY <2>1, <2>2, <2>3
<1>12. Counted(K, a, c)
  BY <1>6, <1>9, <1>10, <1>11 DEF Counted
<1>13. DueOf(K, a, c) = DueOf(L, a, c) \o b
  <2> DEFINE D == DueOf(L, a, c)
             E == DueOf(K, a, c)
  <2>1. /\ D \in Seq(Unit) /\ Len(D) = N /\ E \in Seq(Unit)
        /\ Len(E) = N + Len(b)
    BY <1>1, <1>6, <1>12, DueType DEF N, O
  <2>2. (\A n \in 1 .. N : E[n] = D[n]) /\ \A k \in 1 .. Len(b) : E[N + k] = b[k]
    BY <1>10, <1>11
  <2> HIDE DEF D, E
  <2>3. /\ D \o b \in Seq(Unit) /\ Len(D \o b) = N + Len(b)
        /\ \A n \in 1 .. N : (D \o b)[n] = D[n]
        /\ \A k \in 1 .. Len(b) : (D \o b)[N + k] = b[k]
    BY <2>1
  <2>4. \A n \in 1 .. N + Len(b) : E[n] = (D \o b)[n]
    BY <1>9, <2>2, <2>3, ZenonT(30)
  <2> DEFINE F == D \o b
  <2> HIDE DEF F
  <2>5. E = F
    BY <2>1, <2>3, <2>4, SeqEqual DEF F
  <2> QED
    BY <2>5 DEF D, E, F
<1> QED
  BY <1>12, <1>13 DEF K

-----------------------------------------------------------------------------
(* The invariant of the conversation.                                      *)

\* Nothing has gone to a connection that is queued or not made.
NothingToFresh ==
  \A c \in Conn :
    peer[c] = "new" \/ (\E i \in DOMAIN backlog : backlog[i] = c)
      => received[c] = <<>> /\ sndq[c] = <<>> /\ wq[c] = <<>>

\* No connection has two handlers, so that nobody hears himself.
OneHandlerEach ==
  \A f, g \in Fd : handlers[f] = handlers[g] /\ Registered(f) => f = g

LogInv ==
  /\ log \in Seq(Entry)
  /\ joined \in [Conn -> Nat]
  /\ \A c \in Conn : joined[c] <= Len(log) /\ Counted(log, joined[c], c)

\* What has been sent to a client is the beginning of what is due to it, even
\* when the connection has been closed since.
HeardInOrder ==
  \A c \in Conn :
    StandsAt(received[c] \o sndq[c], DueOf(log, joined[c], c), 0)

OnTheWayTo(c) ==
  Whole(DueOf(log, joined[c], c), received[c] \o sndq[c], wq[c], <<>>)

NothingHeldBack ==
  \A f \in Fd : Live(f) /\ peer[handlers[f]] \in {"up", "fin"}
                  => OnTheWayTo(handlers[f])

TalkInv ==
  /\ NothingToFresh
  /\ OneHandlerEach
  /\ LogInv
  /\ HeardInOrder
  /\ NothingHeldBack

ConversationInv == ChatInv /\ TalkInv

LEMMA ChatDataTypes ==
  ASSUME TypeOK, LogInv, NEW c \in Conn
  PROVE  /\ received[c] \in Seq(Unit) /\ sndq[c] \in Seq(Unit)
         /\ received[c] \o sndq[c] \in Seq(Unit)
         /\ wq[c] \in Seq(Buf) /\ rq \in Seq(Buf)
         /\ DueOf(log, joined[c], c) \in Seq(Unit)
<1>1. /\ received[c] \in Seq(Unit) /\ sndq[c] \in Seq(Unit)
      /\ wq[c] \in Seq(Buf) /\ rq \in Seq(Buf)
  BY DEF TypeOK, SocketsTypeOK
<1>2. ASSUME NEW r \in Seq(Unit), NEW s \in Seq(Unit) PROVE r \o s \in Seq(Unit)
  OBVIOUS
<1>3. DueOf(log, joined[c], c) \in Seq(Unit)
  BY DueType DEF LogInv
<1> QED
  BY <1>1, <1>2, <1>3

\* Only what is on its way has moved, and it is on its way yet.
LEMMA HeldBackFrame ==
  ASSUME IInv, TalkInv, UNCHANGED <<peer, handlers>>,
         \A c \in Conn : isOpen'[c] => isOpen[c],
         \A f \in Fd, c \in Conn :
           /\ handlers[f] = c /\ isOpen'[c] /\ peer[c] \in {"up", "fin"}
           /\ OnTheWayTo(c)
           => OnTheWayTo(c)'
  PROVE  NothingHeldBack'
<1>1. handlers \in [Fd -> Conn \cup {NoConn}]
  BY DEF IInv, TypeOK
<1>2. ASSUME NEW f \in Fd, Live(f)', peer'[handlers'[f]] \in {"up", "fin"}
      PROVE  OnTheWayTo(handlers[f])'
  <2>1. PICK c \in Conn : c = handlers[f] /\ c = handlers'[f]
    BY <1>1, <1>2 DEF Live, Registered
  <2>2. Live(f) /\ peer[c] \in {"up", "fin"} /\ isOpen'[c]
    BY <1>2, <2>1 DEF Live, Registered
  <2>3. OnTheWayTo(c)
    BY <2>1, <2>2 DEF TalkInv, NothingHeldBack
  <2>4. OnTheWayTo(c)'
    BY <2>1, <2>2, <2>3
  <2> QED
    BY <2>1, <2>4 DEF OnTheWayTo
<1> QED
  BY <1>2 DEF NothingHeldBack

\* Nothing goes to anyone.
ChatStill ==
  /\ UNCHANGED <<backlog, peer, received, sndq, handlers, wq, log, joined>>
  /\ \A c \in Conn : isOpen'[c] => isOpen[c]

LEMMA ChatStillKeeps ==
  ASSUME IInv, TalkInv, ChatStill PROVE TalkInv'
<1>1. NothingHeldBack'
  <2>1. \A c \in Conn : OnTheWayTo(c) => OnTheWayTo(c)'
    BY DEF ChatStill, OnTheWayTo
  <2> QED
    BY <2>1, HeldBackFrame DEF ChatStill
<1>2. /\ NothingToFresh' /\ OneHandlerEach' /\ LogInv' /\ HeardInOrder'
  BY DEF TalkInv, ChatStill, NothingToFresh, OneHandlerEach, Registered, LogInv,
         HeardInOrder
<1> QED
  BY <1>1, <1>2 DEF TalkInv

LEMMA ChatExitKeeps ==
  ASSUME TalkInv, NEW how \in Ended, Exit(how), UNCHANGED <<log, joined>>
  PROVE  TalkInv'
<1>1. /\ UNCHANGED <<backlog, peer, received, sndq>>
      /\ wq' = [c \in Conn |-> <<>>]
      /\ \A f \in Fd : handlers'[f] = NoConn
  BY DEF Exit
<1>2. NothingToFresh' /\ OneHandlerEach' /\ NothingHeldBack'
  BY <1>1, NoConnAssumption
     DEF TalkInv, NothingToFresh, OneHandlerEach, NothingHeldBack, Live, Registered
<1>3. LogInv' /\ HeardInOrder'
  BY <1>1 DEF TalkInv, LogInv, HeardInOrder
<1> QED
  BY <1>2, <1>3 DEF TalkInv

LEMMA ChatWriteKeeps ==
  ASSUME IInv, TalkInv, WriteSome, UNCHANGED <<log, joined>>
  PROVE  TalkInv'
<1>1. TypeOK /\ LogInv
  BY DEF IInv, TalkInv
<1>2. /\ phase = "write" /\ isOpen[Me] /\ wq[Me] # <<>>
      /\ Room(Sock) > 0 /\ peer[Sock] \in {"up", "fin"}
      /\ UNCHANGED <<backlog, peer, received, handlers, isOpen>>
  BY DEF WriteSome, CanWrite, peerVars
<1>3. PICK m \in Conn : m = Me /\ Sock = m
  BY <1>2, ServedIsOwn DEF Serving
<1> DEFINE buf == Head(wq[m])
           n == AtMost(AtMost(Len(buf), WriteBuf), Room(m))
           b == SubSeq(buf, 1, n)
           out == received[m] \o sndq[m]
           due == DueOf(log, joined[m], m)
<1>4. /\ sndq' = [sndq EXCEPT ![m] = sndq[m] \o b]
      /\ wq' = [wq EXCEPT ![m] = Written(wq[m], n)]
  BY <1>1, <1>3 DEF WriteSome, TypeOK, SocketsTypeOK
<1>5. /\ due \in Seq(Unit) /\ out \in Seq(Unit)
      /\ received[m] \in Seq(Unit) /\ sndq[m] \in Seq(Unit)
      /\ wq[m] \in Seq(Buf) /\ wq[m] # <<>>
  BY <1>1, <1>2, <1>3, ChatDataTypes
<1>6. buf \in Seq(Unit)
  BY <1>5, HeadTailProperties DEF Buf
<1> HIDE DEF buf, out, due
<1>7. n \in Nat /\ n <= Len(buf)
  <2> DEFINE k == AtMost(Len(buf), WriteBuf)
  <2>1. Room(m) \in Nat
    <3>1. Len(sndq[m]) \in Nat
      BY <1>5, LenProperties
    <3> QED
      BY <1>2, <1>3, <3>1, BufAssumption DEF Room
  <2>2. k \in Nat /\ k <= Len(buf) /\ Len(buf) \in Nat
    BY <1>6, LenProperties, AtMostType, BufsizAssumption
  <2> HIDE DEF k
  <2>3. n \in Nat /\ n <= k
    BY <2>1, <2>2, AtMostType DEF k
  <2> HIDE DEF n
  <2> QED
    BY <2>2, <2>3
<1> HIDE DEF n
<1>8. b \in Seq(Unit)
  BY <1>6, <1>7, CutSeq
<1> HIDE DEF b
<1>9. /\ sndq'[m] = sndq[m] \o b /\ wq'[m] = Written(wq[m], n)
      /\ \A c \in Conn : c # m => sndq'[c] = sndq[c] /\ wq'[c] = wq[c]
  BY <1>1, <1>4, Zenon DEF TypeOK, SocketsTypeOK
<1>10. received[m] \o (sndq[m] \o b) = out \o b
  <2>1. \A r, s, u \in Seq(Unit) : (r \o s) \o u = r \o (s \o u)
    BY ConcatAssociative
  <2> QED
    BY <1>5, <1>8, <2>1, ZenonT(30) DEF out
<1>11. ASSUME NEW c \in Conn, OnTheWayTo(c) PROVE OnTheWayTo(c)'
  <2>1. CASE c # m
    BY <1>2, <1>9, <1>11, <2>1 DEF OnTheWayTo
  <2>2. CASE c = m
    <3>1. Whole(due, out, wq[m], <<>>)
      BY <1>11, <2>2 DEF OnTheWayTo, out, due
    <3>2. <<>> \in Seq(Unit)
      OBVIOUS
    <3>3. Whole(due, out \o b, Written(wq[m], n), <<>>)
      BY <1>5, <1>7, <3>1, <3>2, WholeWritten DEF b, buf
    <3> QED
      BY <1>2, <1>9, <1>10, <2>2, <3>3 DEF OnTheWayTo, due
  <2> QED
    BY <2>1, <2>2
<1>12. NothingHeldBack'
  BY <1>2, <1>11, HeldBackFrame
<1>13. NothingToFresh'
  <2>1. ASSUME NEW c \in Conn, peer[c] = "new" \/ \E i \in DOMAIN backlog : backlog[i] = c
        PROVE  c # m
    BY <1>2, <1>3, <2>1 DEF IInv, ServingOrder, Serving, Fresh, Me
  <2> QED
    BY <1>2, <1>9, <2>1 DEF TalkInv, NothingToFresh
<1>14. HeardInOrder'
  <2>1. OnTheWayTo(m)
    <3>1. cur \in Fd /\ Me \in Conn
      BY <1>2, ServedIsOwn DEF Serving
    <3> QED
      BY <1>2, <1>3, <3>1, NoConnAssumption
         DEF TalkInv, NothingHeldBack, Live, Registered, Me
  <2>2. OnTheWayTo(m)'
    BY <1>11, <2>1
  <2>3. ASSUME NEW c \in Conn
        PROVE  StandsAt(received'[c] \o sndq'[c], DueOf(log', joined'[c], c), 0)
    <3>1. CASE c = m
      BY <2>2, <3>1 DEF OnTheWayTo, Whole
    <3>2. CASE c # m
      BY <1>2, <1>9, <3>2 DEF TalkInv, HeardInOrder
    <3> QED
      BY <3>1, <3>2
  <2> QED
    BY <2>3 DEF HeardInOrder
<1>15. OneHandlerEach' /\ LogInv'
  BY <1>2 DEF TalkInv, OneHandlerEach, Registered, LogInv
<1> QED
  BY <1>12, <1>13, <1>14, <1>15 DEF TalkInv

\* A chunk is queued for everyone who is due to hear it, and for nobody else.
LEMMA ChatOnReadRelays ==
  ASSUME ChatInv, OneHandlerEach, LogInv, ChatOnRead
  PROVE  /\ LogInv'
         /\ \E m \in Conn, b \in Buf :
              /\ m = Me /\ b = Head(rq) /\ b \in Seq(Unit)
              /\ \A c \in Conn : (\E f \in Fd : handlers[f] = c) /\ c # m
                                  => wq'[c] = Append(wq[c], b)
              /\ wq'[m] = wq[m]
              /\ \A c \in Conn : (\A f \in Fd : handlers[f] # c) => wq'[c] = wq[c]
              /\ \A c \in Conn :
                   DueOf(log', joined[c], c) =
                     IF c = m THEN DueOf(log, joined[c], c)
                              ELSE DueOf(log, joined[c], c) \o b
<1>1. IInv /\ TypeOK /\ LogInv
  BY DEF ChatInv, IInv
<1>2. /\ phase = "deliver" /\ rq # <<>>
      /\ UNCHANGED <<backlog, peer, received, sndq, handlers, joined>>
      /\ wq' = [c \in Conn |-> IF \E f \in Recipients : handlers[f] = c
                               THEN Append(wq[c], Head(rq)) ELSE wq[c]]
      /\ \A c \in Conn : isOpen'[c] => isOpen[c]
      /\ log' = log \o [i \in DOMAIN Head(rq) |->
                          [from |-> handlers[cur], item |-> Head(rq)[i]]]
  BY DEF ChatOnRead, OnRead, peerVars
<1>3. cur \in Fd /\ Me \in Conn
  BY <1>1, <1>2 DEF IInv, TypeOK, ServingOrder, Serving, Registered, Me
<1>4. PICK m \in Conn : m = Me
  BY <1>3
<1>5. PICK b \in Buf : b = Head(rq)
  BY <1>1, <1>2 DEF TypeOK
<1>6. b \in Seq(Unit)
  BY DEF Buf
<1>7. log' = log \o Words(m, b)
  BY <1>2, <1>4, <1>5 DEF Words, Me
<1>8. Recipients = {f \in Fd : Registered(f) /\ f # cur}
  BY <1>2 DEF ChatInv, ClientsAreHandlers, Recipients, Running, Ended
\* m's handler is the one that is served, and has no second.
<1>9. \A f \in Recipients : handlers[f] # m
  BY <1>3, <1>4, <1>8 DEF OneHandlerEach, Me
<1>10. /\ \A c \in Conn : (\E f \in Fd : handlers[f] = c) /\ c # m
                            => wq'[c] = Append(wq[c], b)
       /\ wq'[m] = wq[m]
       /\ \A c \in Conn : (\A f \in Fd : handlers[f] # c) => wq'[c] = wq[c]
  BY <1>2, <1>4, <1>5, <1>8, <1>9, NoConnAssumption DEF Registered, Me
<1>11. log \in Seq(Entry) /\ joined \in [Conn -> Nat]
       /\ \A c \in Conn : joined[c] <= Len(log) /\ Counted(log, joined[c], c)
  BY <1>1 DEF LogInv
<1>12. ASSUME NEW c \in Conn
       PROVE  /\ Counted(log', joined[c], c)
              /\ DueOf(log', joined[c], c) =
                   IF c = m THEN DueOf(log, joined[c], c)
                            ELSE DueOf(log, joined[c], c) \o b
  <2>1. joined[c] \in Nat
    BY <1>11
  <2>2. CASE c = m
    BY <1>6, <1>7, <1>11, <2>1, <2>2, OwnWords
  <2>3. CASE c # m
    BY <1>6, <1>7, <1>11, <2>1, <2>3, OthersWords
  <2> QED
    BY <2>2, <2>3
<1>13. LogInv'
  <2>1. /\ log' \in Seq(Entry) /\ Len(log') = Len(log) + Len(b)
        /\ Len(log) \in Nat /\ Len(b) \in Nat
    BY <1>6, <1>7, <1>11, LogGrows
  <2>2. \A c \in Conn : joined[c] <= Len(log')
    BY <1>11, <2>1
  <2> QED
    BY <1>2, <1>11, <1>12, <2>1, <2>2 DEF LogInv
<1> QED
  BY <1>4, <1>5, <1>6, <1>10, <1>12, <1>13

LEMMA ChatOnReadKeeps ==
  ASSUME ChatInv, TalkInv, ChatOnRead
  PROVE  TalkInv'
<1>1. IInv /\ TypeOK /\ LogInv
  BY DEF ChatInv, IInv, TalkInv
<1>2. /\ UNCHANGED <<backlog, peer, received, sndq, handlers, joined>>
      /\ \A c \in Conn : isOpen'[c] => isOpen[c]
  BY DEF ChatOnRead, OnRead, peerVars
<1>3. LogInv'
  BY <1>1, ChatOnReadRelays DEF TalkInv
<1>4. PICK m \in Conn, b \in Buf :
        /\ b \in Seq(Unit)
        /\ \A c \in Conn : (\E f \in Fd : handlers[f] = c) /\ c # m
                            => wq'[c] = Append(wq[c], b)
        /\ wq'[m] = wq[m]
        /\ \A c \in Conn : (\A f \in Fd : handlers[f] # c) => wq'[c] = wq[c]
        /\ \A c \in Conn :
             DueOf(log', joined[c], c) =
               IF c = m THEN DueOf(log, joined[c], c)
                        ELSE DueOf(log, joined[c], c) \o b
  BY <1>1, ChatOnReadRelays DEF TalkInv
<1>5. ASSUME NEW c \in Conn
       PROVE  /\ DueOf(log, joined[c], c) \in Seq(Unit) /\ wq[c] \in Seq(Buf)
              /\ received[c] \o sndq[c] \in Seq(Unit)
  BY <1>1, ChatDataTypes
<1>6. HeardInOrder'
  <2>1. ASSUME NEW c \in Conn
        PROVE  StandsAt(received[c] \o sndq[c], DueOf(log', joined[c], c), 0)
    <3> DEFINE D == DueOf(log, joined[c], c)
               O == received[c] \o sndq[c]
    <3>1. StandsAt(O, D, 0) /\ D \in Seq(Unit) /\ O \in Seq(Unit)
      BY <1>5 DEF TalkInv, HeardInOrder
    <3> HIDE DEF D, O
    <3>2. StandsAt(O, D \o b, 0)
      BY <1>4, <3>1, StandsAtMore
    <3> QED
      BY <1>4, <3>1, <3>2 DEF D, O
  <2> QED
    BY <1>2, <2>1 DEF HeardInOrder
<1>7. ASSUME NEW f \in Fd, NEW c \in Conn, handlers[f] = c, OnTheWayTo(c)
       PROVE  OnTheWayTo(c)'
  <2>1. CASE c = m
    BY <1>2, <1>4, <1>7, <2>1 DEF OnTheWayTo
  <2>2. CASE c # m
    <3> DEFINE D == DueOf(log, joined[c], c)
               O == received[c] \o sndq[c]
    <3>1. Whole(D, O, wq[c], <<>>) /\ D \in Seq(Unit) /\ O \in Seq(Unit)
      BY <1>5, <1>7 DEF OnTheWayTo
    <3> HIDE DEF D, O
    <3>2. Whole(D \o b, O, Append(wq[c], b), <<>>)
      BY <1>5, <3>1, WholeMore
    <3>3. wq'[c] = Append(wq[c], b)
      BY <1>4, <1>7, <2>2
    <3> QED
      BY <1>2, <1>4, <2>2, <3>2, <3>3 DEF OnTheWayTo, D, O
  <2> QED
    BY <2>1, <2>2
<1>8. NothingHeldBack'
  BY <1>1, <1>2, <1>7, HeldBackFrame
<1>9. NothingToFresh'
  <2>1. ASSUME NEW c \in Conn, peer[c] = "new" \/ \E i \in DOMAIN backlog : backlog[i] = c
        PROVE  wq'[c] = wq[c]
    BY <1>1, <1>4, <2>1 DEF IInv, Fresh
  <2> QED
    BY <1>2, <2>1 DEF TalkInv, NothingToFresh
<1>10. OneHandlerEach'
  BY <1>2 DEF TalkInv, OneHandlerEach, Registered
<1> QED
  BY <1>3, <1>6, <1>8, <1>9, <1>10 DEF TalkInv

LEMMA DueFromNow ==
  ASSUME NEW L \in Seq(Entry), NEW c
  PROVE  DueOf(L, Len(L), c) = <<>> /\ Counted(L, Len(L), c)
<1>1. Others(L, Len(L), c) = {}
  BY DEF Others
<1>2. Cardinality({}) = 0
  BY FS_EmptySet
<1>3. 1 .. 0 = {}
  OBVIOUS
<1>4. Counted(L, Len(L), c)
  BY <1>1, <1>2, <1>3 DEF Counted
<1>5. DueOf(L, Len(L), c) \in Seq(Unit) /\ Len(DueOf(L, Len(L), c)) = 0
  BY <1>1, <1>2, <1>4, DueType
<1> DEFINE D == DueOf(L, Len(L), c)
<1> HIDE DEF D
<1>6. D = <<>>
  BY <1>5, EmptySeq DEF D
<1> QED
  BY <1>4, <1>6 DEF D

\* Whoever joins begins with an empty conversation of his own.
LEMMA ChatAcceptJoins ==
  ASSUME IInv, LogInv, NEW f \in Fd, ChatAccept(f)
  PROVE  /\ LogInv'
         /\ \E c0 \in Conn :
              /\ backlog # <<>> /\ backlog' = Tail(backlog)
              /\ \E i \in DOMAIN backlog : backlog[i] = c0
              /\ \A c \in Conn : (\E i \in DOMAIN backlog' : backlog'[i] = c)
                                  => \E i \in DOMAIN backlog : backlog[i] = c
              /\ handlers'[f] = c0 /\ \A g \in Fd : g # f => handlers'[g] = handlers[g]
              /\ \A g \in Fd : handlers[g] # c0
              /\ isOpen'[c0] /\ \A c \in Conn : c # c0 => isOpen'[c] = isOpen[c]
              /\ \A c \in Conn : c # c0 => joined'[c] = joined[c]
              /\ DueOf(log, joined'[c0], c0) = <<>>
<1>1. TypeOK /\ LogInv
  BY DEF IInv
<1>2. PICK c0 \in Conn : c0 = Head(backlog)
  BY <1>1, TailOfBacklog DEF ChatAccept, Accept
<1>3. /\ backlog # <<>> /\ backlog' = Tail(backlog)
      /\ handlers' = [handlers EXCEPT ![f] = c0]
      /\ isOpen' = [isOpen EXCEPT ![c0] = TRUE]
      /\ joined' = [joined EXCEPT ![c0] = Len(log)]
      /\ UNCHANGED <<peer, received, sndq, wq, log>>
  BY <1>2 DEF ChatAccept, Accept
<1>4. /\ \E i \in DOMAIN backlog : backlog[i] = c0
      /\ \A c \in Conn : (\E i \in DOMAIN backlog' : backlog'[i] = c)
                          => \E i \in DOMAIN backlog : backlog[i] = c
  BY <1>1, <1>2, <1>3, TailOfBacklog
<1>5. /\ handlers'[f] = c0 /\ \A g \in Fd : g # f => handlers'[g] = handlers[g]
      /\ isOpen'[c0] /\ \A c \in Conn : c # c0 => isOpen'[c] = isOpen[c]
      /\ \A g \in Fd : handlers[g] # c0
  BY <1>1, <1>3, <1>4 DEF TypeOK, IInv, Fresh
<1>6. /\ log \in Seq(Entry) /\ Len(log) \in Nat
      /\ joined \in [Conn -> Nat]
      /\ joined'[c0] = Len(log) /\ \A c \in Conn : c # c0 => joined'[c] = joined[c]
      /\ joined' \in [Conn -> Nat]
  BY <1>1, <1>3 DEF LogInv
<1>7. DueOf(log, joined'[c0], c0) = <<>> /\ Counted(log, joined'[c0], c0)
  BY <1>6, DueFromNow
<1>8. LogInv'
  BY <1>1, <1>3, <1>6, <1>7 DEF LogInv
<1> QED
  BY <1>2, <1>3, <1>4, <1>5, <1>6, <1>7, <1>8

LEMMA ChatAcceptKeeps ==
  ASSUME IInv, TalkInv, NEW f \in Fd, ChatAccept(f)
  PROVE  TalkInv'
<1>1. TypeOK /\ LogInv
  BY DEF IInv, TalkInv
<1>2. PICK c0 \in Conn :
        /\ backlog # <<>> /\ backlog' = Tail(backlog)
        /\ \E i \in DOMAIN backlog : backlog[i] = c0
        /\ \A c \in Conn : (\E i \in DOMAIN backlog' : backlog'[i] = c)
                            => \E i \in DOMAIN backlog : backlog[i] = c
        /\ handlers'[f] = c0 /\ \A g \in Fd : g # f => handlers'[g] = handlers[g]
        /\ \A g \in Fd : handlers[g] # c0
        /\ isOpen'[c0] /\ \A c \in Conn : c # c0 => isOpen'[c] = isOpen[c]
        /\ \A c \in Conn : c # c0 => joined'[c] = joined[c]
        /\ DueOf(log, joined'[c0], c0) = <<>>
  BY <1>1, ChatAcceptJoins
<1>3. LogInv' /\ UNCHANGED <<peer, received, sndq, wq, log>>
  BY <1>1, ChatAcceptJoins DEF ChatAccept, Accept
<1>4. received[c0] = <<>> /\ sndq[c0] = <<>> /\ wq[c0] = <<>>
  BY <1>2 DEF TalkInv, NothingToFresh
<1>5. Whole(<<>>, <<>>, <<>>, <<>>) /\ <<>> \o <<>> = <<>>
  <2>1. Whole(<<>>, <<>> \o <<>>, <<>> \o <<>>, <<>>)
    <3>1. <<>> \in Seq(Unit)
      OBVIOUS
    <3> QED
      BY <3>1, WholeFresh
  <2>2. <<>> \o <<>> = <<>>
    OBVIOUS
  <2> QED
    BY <2>1, <2>2
<1>6. StandsAt(<<>>, <<>>, 0)
  BY DEF StandsAt
<1>7. HeardInOrder'
  <2>1. ASSUME NEW c \in Conn
        PROVE  StandsAt(received[c] \o sndq[c], DueOf(log, joined'[c], c), 0)
    <3>1. CASE c = c0
      <4>1. received[c] \o sndq[c] = <<>>
        BY <1>4, <1>5, <3>1
      <4>2. DueOf(log, joined'[c], c) = <<>>
        BY <1>2, <3>1
      <4> QED
        BY <1>6, <4>1, <4>2
    <3>2. CASE c # c0
      BY <1>2, <3>2 DEF TalkInv, HeardInOrder
    <3> QED
      BY <3>1, <3>2
  <2> QED
    BY <1>3, <2>1 DEF HeardInOrder
<1>8. ASSUME NEW g \in Fd, Live(g)', peer'[handlers'[g]] \in {"up", "fin"}
       PROVE  OnTheWayTo(handlers[g])'
  <2>1. PICK c \in Conn : c = handlers'[g]
    <3>1. handlers'[g] # NoConn /\ handlers[g] \in Conn \cup {NoConn}
      BY <1>1, <1>8 DEF TypeOK, Live, Registered
    <3> QED
      BY <1>2, <3>1
  <2>2. OnTheWayTo(c)'
    <3>1. CASE c = c0
      <4>1. (received[c] \o sndq[c])' = <<>> /\ wq'[c] = <<>>
        BY <1>3, <1>4, <1>5, <3>1
      <4>2. DueOf(log, joined[c], c)' = <<>>
        BY <1>2, <1>3, <3>1
      <4> QED
        BY <1>5, <4>1, <4>2 DEF OnTheWayTo
    <3>2. CASE c # c0
      <4>1. handlers[g] = c /\ isOpen[c] /\ peer[c] \in {"up", "fin"}
        BY <1>3, <1>2, <1>8, <2>1, <3>2 DEF Live
      <4>2. OnTheWayTo(c)
        BY <4>1, NoConnAssumption DEF TalkInv, NothingHeldBack, Live, Registered
      <4> QED
        BY <1>3, <1>2, <3>2, <4>2 DEF OnTheWayTo
    <3> QED
      BY <3>1, <3>2
  <2> QED
    BY <2>1, <2>2 DEF OnTheWayTo
<1>9. NothingHeldBack'
  BY <1>8 DEF NothingHeldBack
<1>10. NothingToFresh' /\ OneHandlerEach'
  BY <1>3, <1>2 DEF TalkInv, NothingToFresh, OneHandlerEach, Registered
<1> QED
  BY <1>3, <1>7, <1>9, <1>10 DEF TalkInv

LEMMA ChatCleanupKeeps ==
  ASSUME IInv, TalkInv, ChatCleanup
  PROVE  TalkInv'
<1>1. /\ UNCHANGED <<backlog, peer, received, sndq, isOpen, log, joined>>
      /\ \A f \in Fd : handlers'[f] \in {handlers[f], NoConn}
  BY DEF ChatCleanup, Cleanup, peerVars
<1>2. ASSUME NEW c \in Conn
      PROVE  wq'[c] \in {wq[c], <<>>} /\ (isOpen[c] => wq'[c] = wq[c])
  BY DEF IInv, TypeOK, ChatCleanup, Cleanup, Closed, Registered
<1>3. NothingToFresh' /\ OneHandlerEach' /\ LogInv' /\ HeardInOrder'
  BY <1>1, <1>2
     DEF TalkInv, NothingToFresh, OneHandlerEach, Registered, LogInv, HeardInOrder
<1>4. ASSUME NEW f \in Fd, Live(f)', peer'[handlers'[f]] \in {"up", "fin"}
      PROVE  OnTheWayTo(handlers[f])'
  <2>1. PICK c \in Conn : c = handlers[f] /\ c = handlers'[f]
    BY <1>1, <1>4 DEF IInv, TypeOK, Live, Registered
  <2>2. OnTheWayTo(c) /\ isOpen[c]
    BY <1>1, <1>4, <2>1 DEF TalkInv, NothingHeldBack, Live, Registered
  <2>3. wq'[c] = wq[c]
    BY <1>2, <2>2
  <2>4. OnTheWayTo(c)'
    BY <1>1, <2>2, <2>3 DEF OnTheWayTo
  <2> QED
    BY <2>1, <2>4 DEF OnTheWayTo
<1>5. NothingHeldBack'
  BY <1>4 DEF NothingHeldBack
<1> QED
  BY <1>3, <1>5 DEF TalkInv

\* Connecting, being aborted, shutting down and sending.
LEMMA ChatPeerMovesKeep ==
  ASSUME IInv, TalkInv, UNCHANGED <<handlers, isOpen, wq, log, joined>>,
         NEW c \in Conn,
         Connect(c) \/ Abort(c) \/ Fin(c) \/ \E u \in Unit : Send(c, u)
  PROVE  TalkInv'
<1>1. TypeOK /\ peer \in [Conn -> PeerStates] /\ backlog \in Seq(Conn)
      /\ handlers \in [Fd -> Conn \cup {NoConn}]
  BY DEF IInv, TypeOK, SocketsTypeOK
<1>2. UNCHANGED <<sndq, received>>
  BY DEF Connect, Abort, Fin, Send
<1>3. \A d \in Conn : /\ peer'[d] \in {"up", "fin"}
                           => peer[d] \in {"up", "fin"} \/ peer[d] = "new"
                      /\ peer'[d] = "new" => peer[d] = "new"
  BY <1>1 DEF Connect, Abort, Fin, Send
<1>4. ASSUME NEW d \in Conn, \E i \in DOMAIN backlog' : backlog'[i] = d
      PROVE  peer[d] = "new" \/ \E i \in DOMAIN backlog : backlog[i] = d
  <2>1. CASE Connect(c)
    <3>1. peer[c] = "new" /\ backlog' = Append(backlog, c)
      BY <2>1 DEF Connect
    <3>2. \A i \in DOMAIN backlog' :
            \/ backlog'[i] = c
            \/ i \in DOMAIN backlog /\ backlog'[i] = backlog[i]
      BY <1>1, <3>1
    <3> QED
      BY <1>4, <3>1, <3>2
  <2>2. CASE Abort(c)
    BY <1>1, <1>4, <2>2, TailOfBacklog DEF Abort
  <2>3. CASE Fin(c) \/ \E u \in Unit : Send(c, u)
    BY <1>4, <2>3 DEF Fin, Send
  <2> QED
    BY <2>1, <2>2, <2>3
<1>5. NothingToFresh'
  <2>1. ASSUME NEW d \in Conn,
               peer'[d] = "new" \/ \E i \in DOMAIN backlog' : backlog'[i] = d
        PROVE  received[d] = <<>> /\ sndq[d] = <<>> /\ wq[d] = <<>>
    BY <1>3, <1>4, <2>1 DEF TalkInv, NothingToFresh
  <2> QED
    BY <1>2, <2>1 DEF NothingToFresh
<1>6. OneHandlerEach' /\ LogInv' /\ HeardInOrder'
  BY <1>2 DEF TalkInv, OneHandlerEach, Registered, LogInv, HeardInOrder
<1>7. ASSUME NEW f \in Fd, Live(f)', peer'[handlers'[f]] \in {"up", "fin"}
      PROVE  OnTheWayTo(handlers[f])'
  <2>1. PICK d \in Conn : d = handlers[f] /\ d = handlers'[f]
    BY <1>1, <1>7 DEF Live, Registered
  <2>2. peer[d] # "new" /\ peer'[d] \in {"up", "fin"} /\ Live(f)
    BY <1>7, <2>1 DEF IInv, Fresh, Live, Registered
  <2>3. peer[d] \in {"up", "fin"}
    BY <1>3, <2>2
  <2>4. OnTheWayTo(d)
    BY <2>1, <2>2, <2>3 DEF TalkInv, NothingHeldBack
  <2>5. OnTheWayTo(d)'
    BY <1>2, <2>4 DEF OnTheWayTo
  <2> QED
    BY <2>1, <2>5 DEF OnTheWayTo
<1>8. NothingHeldBack'
  BY <1>7 DEF NothingHeldBack
<1> QED
  BY <1>5, <1>6, <1>8 DEF TalkInv

LEMMA ChatRecvKeeps ==
  ASSUME IInv, TalkInv, UNCHANGED <<handlers, isOpen, wq, log, joined>>,
         NEW c \in Conn, Recv(c)
  PROVE  TalkInv'
<1>1. sndq \in [Conn -> Seq(Unit)] /\ received \in [Conn -> Seq(Unit)]
  BY DEF IInv, TypeOK, SocketsTypeOK
<1>2. /\ UNCHANGED <<backlog, peer>> /\ sndq[c] # <<>>
      /\ received'[c] = Append(received[c], Head(sndq[c]))
      /\ sndq'[c] = Tail(sndq[c])
      /\ \A d \in Conn : d # c => received'[d] = received[d] /\ sndq'[d] = sndq[d]
  BY <1>1 DEF Recv
<1>3. ASSUME NEW d \in Conn PROVE received'[d] \o sndq'[d] = received[d] \o sndq[d]
  <2>1. received[c] \in Seq(Unit) /\ sndq[c] \in Seq(Unit)
    BY <1>1
  <2>2. Append(received[c], Head(sndq[c])) \o Tail(sndq[c]) = received[c] \o sndq[c]
    BY <1>2, <2>1, ShiftConcat, Zenon
  <2> QED
    BY <1>2, <2>2
<1>4. NothingToFresh' /\ OneHandlerEach' /\ LogInv'
  BY <1>2 DEF TalkInv, NothingToFresh, OneHandlerEach, Registered, LogInv
<1>5. HeardInOrder'
  BY <1>3 DEF TalkInv, HeardInOrder
<1>6. \A d \in Conn : OnTheWayTo(d) => OnTheWayTo(d)'
  BY <1>3 DEF OnTheWayTo
<1>7. NothingHeldBack'
  BY <1>2, <1>6, HeldBackFrame
<1> QED
  BY <1>4, <1>5, <1>7 DEF TalkInv

LEMMA ChatResetKeeps ==
  ASSUME IInv, TalkInv, UNCHANGED <<handlers, isOpen, wq, log, joined>>,
         NEW c \in Conn, Reset(c)
  PROVE  TalkInv'
<1>1. /\ TypeOK /\ LogInv /\ peer \in [Conn -> PeerStates]
      /\ sndq \in [Conn -> Seq(Unit)]
  BY DEF IInv, TypeOK, SocketsTypeOK, TalkInv
<1>2. /\ UNCHANGED <<backlog, received>>
      /\ peer[c] # "new" /\ peer'[c] \in {"rst", "pipe"}
      /\ sndq'[c] = <<>>
      /\ \A d \in Conn : d # c => peer'[d] = peer[d] /\ sndq'[d] = sndq[d]
  BY <1>1 DEF Reset
<1>3. NothingToFresh' /\ OneHandlerEach' /\ LogInv'
  BY <1>2 DEF TalkInv, NothingToFresh, OneHandlerEach, Registered, LogInv
<1>4. HeardInOrder'
  <2> DEFINE D == DueOf(log, joined[c], c)
  <2>1. StandsAt(received[c] \o <<>>, D, 0)
    <3>1. /\ received[c] \in Seq(Unit) /\ sndq[c] \in Seq(Unit)
          /\ D \in Seq(Unit)
      BY <1>1, ChatDataTypes
    <3>2. StandsAt(received[c] \o sndq[c], D, 0)
      BY DEF TalkInv, HeardInOrder
    <3> HIDE DEF D
    <3>3. StandsAt(received[c], D, 0)
      BY <3>1, <3>2, StandsAtConcat
    <3>4. received[c] \o <<>> = received[c]
      BY <3>1, ConcatEmptySeq
    <3> QED
      BY <3>3, <3>4
  <2> QED
    BY <1>2, <2>1 DEF TalkInv, HeardInOrder
<1>5. ASSUME NEW f \in Fd, Live(f)', peer'[handlers'[f]] \in {"up", "fin"}
      PROVE  OnTheWayTo(handlers[f])'
  <2>1. PICK d \in Conn : d = handlers[f] /\ d = handlers'[f]
    BY <1>1, <1>5 DEF TypeOK, Live, Registered
  <2>2. d # c /\ peer[d] \in {"up", "fin"} /\ Live(f)
    BY <1>2, <1>5, <2>1 DEF Live, Registered
  <2>3. OnTheWayTo(d)
    BY <2>1, <2>2 DEF TalkInv, NothingHeldBack
  <2>4. OnTheWayTo(d)'
    BY <1>2, <2>2, <2>3 DEF OnTheWayTo
  <2> QED
    BY <2>1, <2>4 DEF OnTheWayTo
<1>6. NothingHeldBack'
  BY <1>5 DEF NothingHeldBack
<1> QED
  BY <1>3, <1>4, <1>6 DEF TalkInv

LEMMA ChatPeersKeep ==
  ASSUME IInv, TalkInv, UNCHANGED <<handlers, isOpen, wq, log, joined>>, Peers
  PROVE  TalkInv'
BY ChatPeerMovesKeep, ChatRecvKeeps, ChatResetKeeps DEF Peers

\* The loop's own steps move nothing, write some, or end it all.
LEMMA ChatQuiet ==
  ASSUME IInv, QuietStep
  PROVE  \/ \E how \in Ended : Exit(how)
         \/ WriteSome
         \/ /\ UNCHANGED <<backlog, peer, received, sndq, handlers, wq>>
            /\ \A c \in Conn : isOpen'[c] => isOpen[c]
<1>1. isOpen \in [Conn -> BOOLEAN]
  BY DEF IInv, TypeOK
<1> QED
  BY <1>1 DEF QuietStep, EnterPoll, PollReturns, PollTimeout, PollEintr, PollEnds,
       NoSignal, TakeSignal, OnInterrupt, AcceptFails, DispatchRead,
       DispatchWrite, Serve, IsNext, DispatchDone, ReadSome, ReadBlocked,
       ReadEnds, ReadClosed, Delivered, WriteBlocked,
       WriteFault, WriteSigpipe, WriteEnds, EndServing, regVars, sockVars,
       peerVars, Ended

THEOREM ConversationStep ==
  ConversationInv /\ [ChatNext]_chatVars => ConversationInv'
<1> SUFFICES ASSUME ConversationInv, [ChatNext]_chatVars PROVE ConversationInv'
  OBVIOUS
<1>0. ChatInv /\ IInv /\ TalkInv
  BY DEF ConversationInv, ChatInv
<1>1. ChatInv'
  BY <1>0, ChatInvStep
<1>2. TalkInv'
  <2>1. CASE QuietStep /\ UNCHANGED <<clients, log, joined>>
    <3>1. CASE \E how \in Ended : Exit(how)
      BY <1>0, <2>1, <3>1, ChatExitKeeps
    <3>2. CASE WriteSome
      BY <1>0, <2>1, <3>2, ChatWriteKeeps
    <3>3. CASE /\ UNCHANGED <<backlog, peer, received, sndq, handlers, wq>>
               /\ \A c \in Conn : isOpen'[c] => isOpen[c]
      BY <1>0, <2>1, <3>3, ChatStillKeeps DEF ChatStill
    <3> QED
      BY <1>0, <2>1, <3>1, <3>2, <3>3, ChatQuiet
  <2>2. ASSUME NEW f \in Fd, ChatAccept(f) PROVE TalkInv'
    BY <1>0, <2>2, ChatAcceptKeeps
  <2>3. CASE ChatCleanup
    BY <1>0, <2>3, ChatCleanupKeeps
  <2>4. CASE ChatOnRead
    BY <1>0, <2>4, ChatOnReadKeeps
  <2>5. CASE Peers /\ UNCHANGED loopVars /\ UNCHANGED <<clients, log, joined>>
    BY <1>0, <2>5, ChatPeersKeep DEF loopVars
  <2>6. CASE (RaiseSignal /\ UNCHANGED <<clients, log, joined>>)
               \/ UNCHANGED chatVars
    BY <1>0, <2>6, ChatStillKeeps
       DEF ChatStill, RaiseSignal, chatVars, vars, sockVars, loopVars, regVars
  <2> QED
    BY <2>1, <2>2, <2>3, <2>4, <2>5, <2>6 DEF ChatNext, ChatStep, Environment
<1> QED
  BY <1>1, <1>2 DEF ConversationInv

LEMMA ConversationInit == ChatInit => ConversationInv
<1> SUFFICES ASSUME ChatInit PROVE ConversationInv
  OBVIOUS
<1>1. /\ \A c \in Conn : /\ received[c] = <<>> /\ sndq[c] = <<>> /\ wq[c] = <<>>
                        /\ joined[c] = 0
      /\ joined \in [Conn -> Nat]
      /\ log = <<>> /\ \A f \in Fd : handlers[f] = NoConn
  BY DEF ChatInit, Init, SocketsInit
<1>2. log \in Seq(Entry) /\ Len(log) = 0
  BY <1>1
<1>3. \A c \in Conn : DueOf(log, joined[c], c) = <<>> /\ Counted(log, joined[c], c)
  BY <1>1, <1>2, DueFromNow
<1>4. HeardInOrder
  <2> SUFFICES ASSUME NEW c \in Conn
               PROVE  StandsAt(received[c] \o sndq[c], DueOf(log, joined[c], c), 0)
    BY DEF HeardInOrder
  <2>1. received[c] \o sndq[c] = <<>>
    BY <1>1
  <2> QED
    BY <2>1 DEF StandsAt
<1>5. NothingToFresh /\ OneHandlerEach /\ LogInv /\ NothingHeldBack
  BY <1>1, <1>2, <1>3
     DEF NothingToFresh, OneHandlerEach, LogInv, NothingHeldBack, Live, Registered
<1> QED
  BY <1>4, <1>5, ChatInvInit DEF ConversationInv, TalkInv

-----------------------------------------------------------------------------

THEOREM ChatAlways == ChatSpec => []ConversationInv
BY ConversationInit, ConversationStep, PTL DEF ChatSpec

\* The chat server's own state keeps its types, too.
THEOREM ChatTypes == ChatSpec => []ChatTypeOK
<1>1. ConversationInv => ChatTypeOK
  BY DEF ConversationInv, ChatInv, TalkInv, LogInv, IInv, ChatTypeOK, Entry
<1> QED
  BY <1>1, ChatAlways, PTL

LEMMA RelayedWhenOpen == ConversationInv => RelayedInOrder
<1> SUFFICES ASSUME ConversationInv, NEW f \in Fd, Live(f),
                    peer[handlers[f]] \in {"up", "fin"}
             PROVE  RelayedTo(handlers[f])
  BY DEF RelayedInOrder
<1>1. handlers[f] \in Conn
  BY DEF ConversationInv, ChatInv, IInv, TypeOK, Live, Registered
<1>2. OnTheWayTo(handlers[f])
  BY DEF ConversationInv, TalkInv, NothingHeldBack
<1> QED
  BY <1>1, <1>2, DueIsDueOf DEF OnTheWayTo, RelayedTo

\* With any number of clients that talk at once, come, go and fall behind,
\* all that is due to a client that is open is with it, in its send buffer or
\* in its write_queue_, complete, once and in the one order of relaying.
THEOREM ChatRelaysInOrder == ChatSpec => []RelayedInOrder
BY ChatAlways, RelayedWhenOpen, PTL

-----------------------------------------------------------------------------
(* The chat server keeps one conversation.                                 *)

\* The clients that are owed the conversation, as Talk is instantiated.
Present == {c \in Conn : /\ Running /\ peer[c] = "up"
                         /\ \E f \in Fd : handlers[f] = c /\ isOpen[c]}

\* What a client takes from its send buffer is the next that is due to it.
LEMMA RecvHears ==
  ASSUME ConversationInv, NEW c \in Conn, Recv(c), UNCHANGED loopVars,
         UNCHANGED <<clients, log, joined>>
  PROVE  Talk!Hear(c)
<1>1. IInv /\ TypeOK /\ TalkInv /\ LogInv
  BY DEF ConversationInv, ChatInv, IInv, TalkInv
<1>2. /\ received[c] \in Seq(Unit) /\ sndq[c] \in Seq(Unit)
      /\ DueOf(log, joined[c], c) \in Seq(Unit)
      /\ log \in Seq(Entry) /\ Counted(log, joined[c], c)
  BY <1>1, ChatDataTypes DEF LogInv
<1>3. sndq[c] # <<>> /\ UNCHANGED <<peer, backlog>>
      /\ received' = [received EXCEPT ![c] = Append(@, Head(sndq[c]))]
  BY DEF Recv
<1> DEFINE n == Len(received[c]) + 1
           D == DueOf(log, joined[c], c)
<1>4. n \in DOMAIN D /\ Head(sndq[c]) = D[n]
  <2>1. StandsAt(received[c] \o sndq[c], D, 0)
    BY <1>1 DEF TalkInv, HeardInOrder
  <2>2. D \in Seq(Unit)
    BY <1>2
  <2> HIDE DEF D
  <2>3. StandsAt(sndq[c], D, 0 + Len(received[c]))
    BY <1>2, <2>1, <2>2, StandsAtConcat
  <2>4. 0 + Len(received[c]) = Len(received[c])
    BY <1>2
  <2>5. 1 \in DOMAIN sndq[c] /\ Head(sndq[c]) = sndq[c][1]
    BY <1>2, <1>3
  <2> QED
    BY <2>3, <2>4, <2>5 DEF StandsAt
<1>5. DOMAIN D = 1 .. Cardinality(Others(log, joined[c], c))
  BY DEF DueOf
<1>6. PICK i \in Others(log, joined[c], c) : Nth(log, joined[c], c, n, i)
  BY <1>2, <1>4, <1>5 DEF Counted
<1>7. D[n] = log[i].item
  BY <1>2, <1>6, DueNth
<1>8. received' = [received EXCEPT ![c] = Append(@, log[i].item)]
  <2> HIDE DEF D, n
  <2> QED
    BY <1>3, <1>4, <1>7
<1>9. i \in Talk!Others(c) /\ Talk!IsNth(c, n, i)
  BY <1>6 DEF Talk!Others, Talk!IsNth, Others, Nth, Talk!Cardinality, Cardinality,
              Talk!IsFiniteSet, IsFiniteSet
<1>10. Present' = Present
  BY <1>3 DEF Present, Running, loopVars
<1> QED
  BY <1>8, <1>9, <1>10 DEF Talk!Hear, Present

\* A new handler is one who joins.
LEMMA AcceptJoins ==
  ASSUME ConversationInv, NEW f \in Fd, ChatAccept(f)
  PROVE  \E c \in Conn : Talk!Join(c)
<1>1. IInv /\ TypeOK /\ TalkInv /\ Fresh
  BY DEF ConversationInv, ChatInv, IInv
<1>2. PICK c \in Conn : c = Head(backlog)
  BY <1>1, TailOfBacklog DEF ChatAccept, Accept
<1>3. /\ backlog # <<>> /\ phase' = phase
      /\ handlers' = [handlers EXCEPT ![f] = c]
      /\ isOpen' = [isOpen EXCEPT ![c] = TRUE]
      /\ joined' = [joined EXCEPT ![c] = Len(log)]
      /\ UNCHANGED <<peer, received, log>>
  BY <1>2 DEF ChatAccept, Accept
<1>4. (\E i \in DOMAIN backlog : backlog[i] = c) /\ Free(f)
  BY <1>1, <1>2, <1>3, TailOfBacklog DEF ChatAccept, Accept, LowestFree
<1>5. received[c] = <<>> /\ \A g \in Fd : handlers[g] # c
  BY <1>1, <1>4 DEF TalkInv, NothingToFresh, Fresh
\* The handler that f had before, if any, is not open.
<1>6. \A d \in Conn : handlers[f] = d => ~isOpen[d]
  BY <1>1, <1>4, NoConnAssumption
     DEF IInv, FdOwnership, Live, Registered, Free, TypeOK
<1>7. /\ handlers'[f] = c /\ \A g \in Fd : g # f => handlers'[g] = handlers[g]
      /\ \A d \in Conn : d # c => isOpen'[d] = isOpen[d]
  BY <1>1, <1>3 DEF TypeOK
<1>8. c \notin Present
  BY <1>5 DEF Present
<1>9. \A d \in Conn : d # c => (d \in Present' <=> d \in Present)
  BY <1>3, <1>6, <1>7 DEF Present, Running
<1>10. Present' \in {Present, Present \cup {c}}
  <2>1. Present' \subseteq Conn /\ Present \subseteq Conn
    BY DEF Present
  <2> QED
    BY <1>8, <1>9, <2>1
<1>11. Talk!Join(c)
  BY <1>3, <1>5, <1>8, <1>10 DEF Talk!Join, Present
<1> QED
  BY <1>11

LEMMA OnReadSays ==
  ASSUME ConversationInv, ChatOnRead
  PROVE  Talk!Leave \/ \E c \in Conn : Talk!Say(c)
<1>1. IInv /\ TypeOK /\ log \in Seq(Entry)
  BY DEF ConversationInv, ChatInv, IInv, TalkInv, LogInv
<1>2. /\ phase = "deliver" /\ rq # <<>> /\ phase' = phase
      /\ UNCHANGED <<peer, received, handlers, joined>>
      /\ log' = log \o [i \in DOMAIN Head(rq) |->
                          [from |-> handlers[cur], item |-> Head(rq)[i]]]
      /\ \A c \in Conn : isOpen'[c] => isOpen[c]
      /\ OnRead(Recipients, {})
  BY DEF ChatOnRead, OnRead, peerVars
<1>3. \A c \in Conn : isOpen'[c] <=> isOpen[c]
  BY <1>1, <1>2 DEF OnRead, TypeOK
<1>4. PICK m \in Conn : m = handlers[cur]
  BY <1>1, <1>2 DEF IInv, TypeOK, ServingOrder, Serving, Registered
<1>5. PICK b \in Buf : b = Head(rq)
  BY <1>1, <1>2 DEF TypeOK
<1>6. b \in Seq(Unit) /\ Len(b) \in Nat /\ Len(b) # 0
  BY EmptySeq DEF Buf
<1>7. log' = log \o Words(m, b)
  BY <1>2, <1>4, <1>5 DEF Words
<1>8. /\ log' \in Seq(Entry) /\ Len(log') = Len(log) + Len(b)
      /\ \A i \in 1 .. Len(log) : log'[i] = log[i]
      /\ \A i \in 1 .. Len(b) : log'[Len(log) + i] = [from |-> m, item |-> b[i]]
      /\ Len(log) \in Nat
  BY <1>1, <1>6, <1>7, LogGrows
<1>9. Len(log') > Len(log)
  BY <1>6, <1>8
<1>10. SubSeq(log', 1, Len(log)) = log
  <2> DEFINE K == log'
             S == SubSeq(K, 1, Len(log))
  <2>1. K \in Seq(Entry) /\ Len(K) >= Len(log) /\ Len(log) \in Nat
    BY <1>8, <1>9
  <2> HIDE DEF K
  <2>2. S \in Seq(Entry) /\ Len(S) = Len(log)
        /\ \A i \in 1 .. Len(log) : S[i] = K[i]
    BY <2>1
  <2> HIDE DEF S
  <2>3. \A i \in 1 .. Len(log) : S[i] = log[i]
    BY <1>8, <2>2 DEF K
  <2>4. S = log
    BY <1>1, <2>2, <2>3, SeqEqual
  <2> QED
    BY <2>4 DEF S, K
<1>11. ASSUME NEW i \in Len(log) + 1 .. Len(log') PROVE log'[i].from = m
  <2>1. i - Len(log) \in 1 .. Len(b) /\ i = Len(log) + (i - Len(log))
    BY <1>6, <1>8
  <2>2. log'[i] = [from |-> m, item |-> b[i - Len(log)]]
    BY <1>8, <2>1
  <2> QED
    BY <2>2
<1>12. Present' = Present
  BY <1>2, <1>3 DEF Present, Running
<1>13. Talk!Say(m)
  BY <1>2, <1>9, <1>10, <1>11, <1>12 DEF Talk!Say, Present
<1> QED
  BY <1>13

\* Steps by which nobody hears, says or joins anything.
LEMMA OthersLeave ==
  ASSUME IInv, UNCHANGED <<log, joined, received>>,
         \A c \in Conn : isOpen'[c] => isOpen[c],
         \A c \in Conn : peer'[c] = "up" =>
           peer[c] = "up" \/ \A f \in Fd : handlers'[f] # c,
         \A f \in Fd : handlers'[f] \in {handlers[f], NoConn},
         Running' => Running
  PROVE  Talk!Leave
<1>1. ASSUME NEW c \in Conn, c \in Present' PROVE c \in Present
  <2>1. /\ Running' /\ peer'[c] = "up"
        /\ \E f \in Fd : handlers'[f] = c /\ isOpen'[c]
    BY <1>1 DEF Present
  <2> QED
    BY <2>1, NoConnAssumption DEF Present
<1>2. Present' \in SUBSET Present
  BY <1>1 DEF Present
<1> QED
  BY <1>2 DEF Talk!Leave, Present

LEMMA TalkStep ==
  ConversationInv /\ [ChatNext]_chatVars => [Talk!ServiceNext]_(Talk!chatVars)
<1> SUFFICES ASSUME ConversationInv, [ChatNext]_chatVars
             PROVE  Talk!ServiceNext
  OBVIOUS
<1>0. IInv /\ TypeOK
  BY DEF ConversationInv, ChatInv, IInv
<1>1. CASE QuietStep /\ UNCHANGED <<clients, log, joined>>
  <2>1. Running
    BY <1>1 DEF QuietStep, EnterPoll, PollReturns, PollTimeout, PollEintr,
       PollEnds, NoSignal, TakeSignal, OnInterrupt, AcceptFails, DispatchRead,
       DispatchWrite, Serve, IsNext, DispatchDone, ReadSome, ReadBlocked,
       ReadEnds, ReadClosed, Delivered, CanWrite, WriteSome, WriteBlocked,
       WriteFault, WriteSigpipe, WriteEnds, Running, Ended
  <2>2. /\ UNCHANGED <<peer, received>>
        /\ \A f \in Fd : handlers'[f] \in {handlers[f], NoConn}
        /\ \A c \in Conn : isOpen'[c] => isOpen[c]
    <3>1. CASE \E how \in Ended : Exit(how)
      BY <3>1 DEF Exit
    <3>2. CASE WriteSome
      BY <3>2 DEF WriteSome, peerVars
    <3> QED
      BY <1>0, <1>1, <3>1, <3>2, ChatQuiet
  <2>3. Talk!Leave
    BY <1>0, <1>1, <2>1, <2>2, OthersLeave
  <2> QED
    BY <2>3 DEF Talk!ServiceNext
<1>2. ASSUME NEW f \in Fd, ChatAccept(f) PROVE Talk!ServiceNext
  BY <1>2, AcceptJoins DEF Talk!ServiceNext
<1>3. CASE ChatCleanup
  <2>1. /\ UNCHANGED <<peer, received, isOpen, log, joined>> /\ Running
        /\ \A f \in Fd : handlers'[f] \in {handlers[f], NoConn}
    BY <1>3 DEF ChatCleanup, Cleanup, peerVars, Running, Ended
  <2>2. Talk!Leave
    BY <1>0, <2>1, OthersLeave
  <2> QED
    BY <2>2 DEF Talk!ServiceNext
<1>4. CASE ChatOnRead
  BY <1>4, OnReadSays DEF Talk!ServiceNext
<1>5. CASE Peers /\ UNCHANGED loopVars /\ UNCHANGED <<clients, log, joined>>
  <2>1. ASSUME NEW c \in Conn, Recv(c) PROVE Talk!ServiceNext
    BY <1>5, <2>1, RecvHears DEF Talk!ServiceNext
  <2>2. ASSUME NEW c \in Conn,
               Connect(c) \/ Abort(c) \/ Fin(c) \/ Reset(c)
                 \/ \E u \in Unit : Send(c, u)
        PROVE  Talk!ServiceNext
    <3>1. peer \in [Conn -> PeerStates]
      BY <1>0 DEF TypeOK, SocketsTypeOK
    <3>2. \A d \in Conn : peer'[d] = "up" => peer[d] = "up" \/ peer[d] = "new"
      BY <2>2, <3>1 DEF Connect, Abort, Fin, Reset, Send
    <3>3. \A d \in Conn : peer[d] = "new" => \A f \in Fd : handlers[f] # d
      BY <1>0 DEF IInv, Fresh
    <3>4. UNCHANGED <<handlers, isOpen, received, log, joined>>
          /\ (Running' => Running)
      BY <1>5, <2>2 DEF loopVars, Running, Connect, Abort, Fin, Reset, Send
    <3>5. Talk!Leave
      BY <1>0, <3>2, <3>3, <3>4, OthersLeave
    <3> QED
      BY <3>5 DEF Talk!ServiceNext
  <2> QED
    BY <1>5, <2>1, <2>2 DEF Peers
<1>6. CASE (RaiseSignal /\ UNCHANGED <<clients, log, joined>>)
             \/ UNCHANGED chatVars
  <2>1. /\ UNCHANGED <<peer, received, isOpen, handlers, log, joined>>
        /\ (Running' => Running)
    BY <1>6 DEF RaiseSignal, chatVars, vars, sockVars, loopVars, regVars, Running
  <2>2. Talk!Leave
    BY <1>0, <2>1, OthersLeave
  <2> QED
    BY <2>2 DEF Talk!ServiceNext
<1> QED
  BY <1>1, <1>2, <1>3, <1>4, <1>5, <1>6 DEF ChatNext, ChatStep, Environment

\* Everyone hears, from where he joined, all that the others said, in the one
\* order of the log, each item once: the chat server takes no step that the
\* service does not allow.
THEOREM ChatKeepsOneConversation == ChatSpec => Talk!ServiceSafety
<1>1. ChatInit => Talk!ServiceInit
  BY NoConnAssumption
     DEF ChatInit, Init, SocketsInit, Talk!ServiceInit
<1> QED
  BY <1>1, ChatAlways, TalkStep, PTL DEF ChatSpec, Talk!ServiceSafety
=============================================================================
