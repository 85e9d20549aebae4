---------------------------- MODULE PollerProofs ----------------------------
(***************************************************************************)
(* The event loop keeps its descriptors and events straight, for every     *)
(* number of connections and descriptors, every buffer size and every      *)
(* on_read.                                                                *)
(***************************************************************************)
EXTENDS Poller, BufferProofs

AllLive == \A f \in Fd : Registered(f) => Live(f)

\* A queued connection has no handler yet and is queued once; one that is
\* not made is neither.
Fresh ==
  /\ \A i \in DOMAIN backlog :
       /\ peer[backlog[i]] # "new"
       /\ \A f \in Fd : handlers[f] # backlog[i]
       /\ \A j \in DOMAIN backlog : backlog[i] = backlog[j] => i = j
  /\ \A c \in Conn : peer[c] = "new" => \A f \in Fd : handlers[f] # c

\* As long as the listener's event is pending nothing has been closed in
\* this iteration (the listener has the lowest descriptor and goes first),
\* so that accept never meets a handler that waits for its removal.
ListenerFirst == pending[ListenFd] # {} => AllLive

ServingOrder ==
  phase \in Serving =>
    /\ cur \in Fd
    /\ Registered(cur)
    /\ pending[ListenFd] = {}

NothingPending == phase \in Waiting \cup {"cleanup"} => pending = NoEvents

IInv ==
  /\ TypeOK
  /\ FdOwnership
  /\ NoStaleEvents
  /\ PollsOnlyLive
  /\ Fresh
  /\ ListenerFirst
  /\ ServingOrder
  /\ NothingPending

THEOREM InitIInv == Init => IInv
<1> SUFFICES ASSUME Init PROVE IInv
  OBVIOUS
<1> USE DEF Init, SocketsInit
<1>1. TypeOK
  <2>1. SocketsTypeOK
    BY DEF SocketsTypeOK, PeerStates
  <2>2. /\ phase \in Phases
        /\ cur \in AllFd
        /\ pending \in [AllFd -> SUBSET {"IN", "OUT"}]
    BY DEF Phases, Waiting, AllFd, NoEvents
  <2>3. /\ rq \in Seq(Buf)
        /\ wq \in [Conn -> Seq(Buf)]
    OBVIOUS
  <2>4. /\ handlers \in [Fd -> Conn \cup {NoConn}]
        /\ isOpen \in [Conn -> BOOLEAN]
        /\ polled \in [Fd -> Conn \cup {NoConn}]
    OBVIOUS
  <2>5. lastSignal \in BOOLEAN /\ eintr \in BOOLEAN
    OBVIOUS
  <2>6. signals \in 0 .. MaxSignals /\ noted \in 0 .. MaxSignals
    BY MaxSignalsAssumption
  <2> QED
    BY <2>1, <2>2, <2>3, <2>4, <2>5, <2>6 DEF TypeOK
<1>2. FdOwnership /\ NoStaleEvents /\ PollsOnlyLive
  BY DEF FdOwnership, NoStaleEvents, PollsOnlyLive, Live, Registered, Free,
         NoEvents, AllFd
<1>3. Fresh
  BY NoConnAssumption DEF Fresh
<1>4. ListenerFirst /\ ServingOrder /\ NothingPending
  BY DEF ListenerFirst, ServingOrder, NothingPending, NoEvents, AllFd,
         Serving, Waiting
<1> QED
  BY <1>1, <1>2, <1>3, <1>4 DEF IInv

-----------------------------------------------------------------------------
(* Types.                                                                  *)

\* What a write leaves of a queue is a queue of buffers, none of them empty.
LEMMA WrittenType ==
  ASSUME NEW q \in Seq(Buf), q # <<>>, NEW n \in Nat, n <= Len(Head(q))
  PROVE  Written(q, n) \in Seq(Buf)
<1>1. Head(q) \in Buf /\ Tail(q) \in Seq(Buf)
  OBVIOUS
<1>2. CASE n = Len(Head(q))
  BY <1>1, <1>2 DEF Written
<1>3. CASE n # Len(Head(q))
  <2> DEFINE rest == SubSeq(Head(q), n + 1, Len(Head(q)))
  <2>1. Head(q) \in Seq(Unit)
    BY <1>1 DEF Buf
  <2>2. rest \in Seq(Unit) /\ Len(rest) # 0
    BY <2>1, <1>3, CutSeq
  <2> HIDE DEF rest
  <2>3. rest \in Buf
    BY <2>2 DEF Buf
  <2>4. <<rest>> \o Tail(q) \in Seq(Buf)
    BY <1>1, <2>3
  <2> QED
    BY <1>3, <2>4 DEF Written, rest
<1> QED
  BY <1>2, <1>3

LEMMA AtMostType ==
  ASSUME NEW m \in Nat, NEW n \in Nat
  PROVE  /\ AtMost(m, n) \in Nat
         /\ AtMost(m, n) <= m /\ AtMost(m, n) <= n
         /\ m # 0 /\ n # 0 => AtMost(m, n) # 0
BY DEF AtMost

LEMMA ServedIsOwn ==
  ASSUME IInv, phase \in Serving, isOpen[Me]
  PROVE  cur \in Fd /\ Me \in Conn /\ Sock = Me
BY DEF IInv, TypeOK, SocketsTypeOK, FdOwnership, ServingOrder, Live,
       Registered, Me, Sock

LEMMA ReadSomeType == ASSUME IInv, ReadSome PROVE TypeOK'
<1>1. Sock \in Conn
  BY ServedIsOwn DEF ReadSome, Serving
<1>2. inbox \in [Conn -> Seq(Unit)] /\ rq \in Seq(Buf)
  BY DEF IInv, TypeOK, SocketsTypeOK
<1> DEFINE s == inbox[Sock]
           n == AtMost(ReadBuf, Len(s))
<1>3. s \in Seq(Unit) /\ s # <<>>
  BY <1>1, <1>2 DEF ReadSome
<1>4. Len(s) \in Nat /\ Len(s) # 0
  BY <1>3
<1>5. n \in Nat /\ n # 0 /\ n <= Len(s)
  <2> HIDE DEF s
  <2> QED
    BY <1>4, AtMostType, BufsizAssumption
<1>6. SubSeq(s, 1, n) \in Buf /\ SubSeq(s, n + 1, Len(s)) \in Seq(Unit)
  <2> HIDE DEF s, n
  <2>1. /\ SubSeq(s, 1, n) \in Seq(Unit)
        /\ Len(SubSeq(s, 1, n)) = n
        /\ SubSeq(s, n + 1, Len(s)) \in Seq(Unit)
    BY <1>3, <1>5, CutSeq
  <2> QED
    BY <2>1, <1>5 DEF Buf
<1>7. /\ rq' = Append(rq, SubSeq(s, 1, n))
      /\ inbox' = [inbox EXCEPT ![Sock] = SubSeq(s, n + 1, Len(s))]
  BY DEF ReadSome
<1>8. rq' \in Seq(Buf)
  <2> HIDE DEF s, n
  <2> QED
    BY <1>2, <1>6, <1>7
<1>9. inbox' \in [Conn -> Seq(Unit)]
  <2> HIDE DEF s, n
  <2> QED
    BY <1>2, <1>6, <1>7
<1> QED
  BY <1>8, <1>9 DEF IInv, TypeOK, SocketsTypeOK, ReadSome, peerVars, regVars, sigVars

LEMMA WriteSomeType == ASSUME IInv, WriteSome PROVE TypeOK'
<1>1. Me \in Conn /\ Sock = Me
  BY ServedIsOwn DEF WriteSome, CanWrite, Serving
<1>2. sndq \in [Conn -> Seq(Unit)] /\ wq \in [Conn -> Seq(Buf)]
  BY DEF IInv, TypeOK, SocketsTypeOK
<1> DEFINE buf == Head(wq[Me])
           n == AtMost(AtMost(Len(buf), WriteBuf), Room(Sock))
<1>3. wq[Me] \in Seq(Buf) /\ wq[Me] # <<>>
  BY <1>1, <1>2 DEF WriteSome, CanWrite
<1>4. buf \in Seq(Unit)
  BY <1>3 DEF Buf
<1>5. Room(Sock) \in Nat
  <2>1. Len(sndq[Sock]) \in Nat
    BY <1>1, <1>2
  <2> QED
    BY <2>1, BufAssumption DEF Room, WriteSome
<1>6. n \in Nat /\ n <= Len(buf)
  <2>1. Len(buf) \in Nat
    BY <1>4
  <2> DEFINE m == AtMost(Len(buf), WriteBuf)
  <2> HIDE DEF buf
  <2>2. m \in Nat /\ m <= Len(buf)
    BY <2>1, AtMostType, BufsizAssumption
  <2> HIDE DEF m
  <2>3. AtMost(m, Room(Sock)) \in Nat /\ AtMost(m, Room(Sock)) <= m
    BY <2>2, <1>5, AtMostType
  <2> QED
    BY <2>1, <2>2, <2>3 DEF m
<1>7. SubSeq(buf, 1, n) \in Seq(Unit)
  <2> HIDE DEF buf, n
  <2> QED
    BY <1>4, <1>6, CutSeq
<1>8. Written(wq[Me], n) \in Seq(Buf)
  <2> HIDE DEF n
  <2> QED
    BY <1>3, <1>6, WrittenType
<1>9. /\ sndq' = [sndq EXCEPT ![Sock] = @ \o SubSeq(buf, 1, n)]
      /\ wq' = [wq EXCEPT ![Me] = Written(@, n)]
  BY DEF WriteSome
<1>10. sndq' \in [Conn -> Seq(Unit)] /\ wq' \in [Conn -> Seq(Buf)]
  <2> HIDE DEF buf, n
  <2> QED
    BY <1>1, <1>2, <1>7, <1>8, <1>9
<1> QED
  BY <1>10 DEF IInv, TypeOK, SocketsTypeOK, WriteSome, peerVars, sigVars

LEMMA OnReadType ==
  ASSUME IInv, NEW W \in SUBSET Fd, NEW C \in SUBSET Fd, OnRead(W, C)
  PROVE  TypeOK'
<1>1. rq \in Seq(Buf) /\ rq # <<>> /\ wq \in [Conn -> Seq(Buf)]
  BY DEF IInv, TypeOK, OnRead
<1>2. Head(rq) \in Buf /\ Tail(rq) \in Seq(Buf)
  BY <1>1
<1>3. rq' \in Seq(Buf) /\ wq' \in [Conn -> Seq(Buf)]
  BY <1>1, <1>2 DEF OnRead
<1>4. fdTable' \in [Fd -> Conn \cup {NoConn}]
  BY DEF IInv, TypeOK, SocketsTypeOK, OnRead
<1>5. isOpen' \in [Conn -> BOOLEAN]
  BY DEF OnRead
<1> QED
  BY <1>3, <1>4, <1>5 DEF IInv, TypeOK, SocketsTypeOK, OnRead, peerVars, sigVars

LEMMA PeersType ==
  ASSUME TypeOK, Peers, UNCHANGED loopVars
  PROVE  TypeOK'
<1>1. SocketsTypeOK
  BY DEF TypeOK
<1> USE DEF SocketsTypeOK, PeerStates
<1>2. ASSUME NEW c \in Conn, Connect(c) PROVE SocketsTypeOK'
  BY <1>1, <1>2 DEF Connect
<1>3. ASSUME NEW c \in Conn, Abort(c) PROVE SocketsTypeOK'
  BY <1>1, <1>3 DEF Abort
<1>4. ASSUME NEW c \in Conn, NEW u \in Unit, Send(c, u) PROVE SocketsTypeOK'
  BY <1>1, <1>4 DEF Send
<1>5. ASSUME NEW c \in Conn, Recv(c) PROVE SocketsTypeOK'
  <2>1. /\ Head(sndq[c]) \in Unit
        /\ Tail(sndq[c]) \in Seq(Unit)
    BY <1>1, <1>5 DEF Recv
  <2> QED
    BY <1>1, <1>5, <2>1 DEF Recv
<1>6. ASSUME NEW c \in Conn, Fin(c) PROVE SocketsTypeOK'
  BY <1>1, <1>6 DEF Fin
<1>7. ASSUME NEW c \in Conn, Reset(c) PROVE SocketsTypeOK'
  BY <1>1, <1>7 DEF Reset
<1>8. SocketsTypeOK'
  BY <1>2, <1>3, <1>4, <1>5, <1>6, <1>7 DEF Peers
<1> QED
  BY <1>8 DEF TypeOK, loopVars

THEOREM TypeStep == IInv /\ [Next]_vars => TypeOK'
<1> SUFFICES ASSUME IInv, [Next]_vars PROVE TypeOK'
  OBVIOUS
<1> USE DEF IInv, TypeOK, SocketsTypeOK, Phases, Waiting, Serving, Ended,
            AllFd, NoEvents, sockVars, regVars, sigVars, peerVars, loopVars
<1>1. CASE EnterPoll
  BY <1>1 DEF EnterPoll
<1>2. CASE PollReturns
  <2>1. \A f \in AllFd : Ready(f) \in SUBSET {"IN", "OUT"}
    BY DEF Ready
  <2>2. pending' \in [AllFd -> SUBSET {"IN", "OUT"}]
    BY <1>2, <2>1 DEF PollReturns, PollEnds
  <2> QED
    BY <1>2, <2>2 DEF PollReturns, PollEnds
<1>3. CASE PollTimeout \/ PollEintr
  BY <1>3 DEF PollTimeout, PollEintr, PollEnds
<1>4. CASE NoSignal \/ TakeSignal \/ OnInterrupt
  BY <1>4 DEF NoSignal, TakeSignal, OnInterrupt
<1>5. CASE RaiseSignal
  <2>1. signals' \in 0 .. MaxSignals
    BY <1>5, MaxSignalsAssumption DEF RaiseSignal
  <2> QED
    BY <1>5, <2>1 DEF RaiseSignal
<1>6. CASE AcceptFails
  BY <1>6 DEF AcceptFails, Exit
<1>7. ASSUME NEW f \in Fd, Accept(f) PROVE TypeOK'
  <2>1. Head(backlog) \in Conn /\ Tail(backlog) \in Seq(Conn)
    BY <1>7 DEF Accept
  <2>2. fdTable' \in [Fd -> Conn \cup {NoConn}]
    BY <1>7, <2>1 DEF Accept
  <2>3. isOpen' \in [Conn -> BOOLEAN]
    BY <1>7, <2>1 DEF Accept
  <2> QED
    BY <1>7, <2>1, <2>2, <2>3 DEF Accept
<1>8. ASSUME NEW f \in Fd, DispatchRead(f) \/ DispatchWrite(f) PROVE TypeOK'
  BY <1>8 DEF DispatchRead, DispatchWrite, Serve
<1>9. CASE DispatchDone
  BY <1>9 DEF DispatchDone
<1>10. CASE ReadSome
  BY <1>10, ReadSomeType
<1>11. CASE ReadBlocked
  BY <1>11 DEF ReadBlocked
<1>12. CASE ReadEnds
  BY <1>12 DEF ReadEnds
<1>13. CASE ReadClosed
  BY <1>13 DEF ReadClosed
<1>14. CASE AnyOnRead
  BY <1>14, OnReadType DEF AnyOnRead
<1>15. CASE Delivered
  BY <1>15 DEF Delivered
<1>16. CASE WriteSome
  BY <1>16, WriteSomeType
<1>17. CASE WriteBlocked \/ WriteFault
  BY <1>17 DEF WriteBlocked, WriteFault, EndServing
<1>18. CASE WriteSigpipe
  BY <1>18 DEF WriteSigpipe, Exit
<1>19. CASE WriteEnds
  BY <1>19 DEF WriteEnds, EndServing
<1>20. CASE Cleanup
  BY <1>20 DEF Cleanup
<1>21. CASE Peers /\ UNCHANGED loopVars
  BY <1>21, PeersType
<1>22. CASE UNCHANGED vars
  BY <1>22 DEF vars
<1> QED
  BY <1>1, <1>2, <1>3, <1>4, <1>5, <1>6, <1>7, <1>8, <1>9, <1>10, <1>11,
     <1>12, <1>13, <1>14, <1>15, <1>16, <1>17, <1>18, <1>19, <1>20, <1>21,
     <1>22 DEF Next, LoopStep, QuietStep, Environment


-----------------------------------------------------------------------------
(* Queued connections stay fresh.                                          *)

\* Fresh is about the backlog, the peers and the handlers only, and
\* removing handlers does no harm to it.
LEMMA FreshFrame ==
  ASSUME IInv, backlog' = backlog, peer' = peer,
         \A f \in Fd : handlers'[f] \in {handlers[f], NoConn}
  PROVE  Fresh'
<1>1. \A i \in DOMAIN backlog : backlog[i] \in Conn
  BY DEF IInv, TypeOK, SocketsTypeOK
<1> QED
  BY <1>1, NoConnAssumption DEF IInv, Fresh

\* The head of the backlog leaves it.
LEMMA TailOfBacklog ==
  ASSUME TypeOK, backlog # <<>>
  PROVE  /\ Head(backlog) = backlog[1] /\ 1 \in DOMAIN backlog
         /\ Head(backlog) \in Conn
         /\ \A i \in DOMAIN Tail(backlog) :
              /\ i + 1 \in DOMAIN backlog /\ i + 1 # 1
              /\ Tail(backlog)[i] = backlog[i + 1]
<1>1. backlog \in Seq(Conn)
  BY DEF TypeOK, SocketsTypeOK
<1>2. Len(backlog) \in Nat /\ Len(backlog) # 0
  BY <1>1
<1>3. Head(backlog) = backlog[1] /\ 1 \in DOMAIN backlog
  BY <1>1, <1>2
<1>4. Head(backlog) \in Conn
  BY <1>1
<1>5. /\ DOMAIN Tail(backlog) = 1 .. Len(backlog) - 1
      /\ \A i \in 1 .. Len(backlog) - 1 : Tail(backlog)[i] = backlog[i + 1]
  BY <1>1, <1>2
<1> QED
  BY <1>1, <1>2, <1>3, <1>4, <1>5

LEMMA QuietFrame ==
  ASSUME IInv, QuietStep
  PROVE  /\ backlog' = backlog /\ peer' = peer
         /\ \A f \in Fd : handlers'[f] \in {handlers[f], NoConn}
<1>1. CASE handlers' = [f \in Fd |-> NoConn] /\ UNCHANGED <<backlog, peer>>
  BY <1>1
<1>2. CASE UNCHANGED <<backlog, peer, handlers>>
  BY <1>2
<1> QED
  BY <1>1, <1>2
     DEF QuietStep, EnterPoll, PollReturns, PollTimeout, PollEintr, PollEnds,
         NoSignal, TakeSignal, OnInterrupt, AcceptFails, Exit, DispatchRead,
         DispatchWrite, Serve, DispatchDone, ReadSome, ReadBlocked, ReadEnds,
         ReadClosed, Delivered, WriteSome, WriteBlocked, WriteFault,
         WriteSigpipe, WriteEnds, EndServing, sockVars, regVars, peerVars

THEOREM FreshStep == IInv /\ [Next]_vars => Fresh'
<1> SUFFICES ASSUME IInv, [Next]_vars PROVE Fresh'
  OBVIOUS
<1>0. TypeOK /\ Fresh
  BY DEF IInv
<1>1. CASE QuietStep
  BY <1>1, QuietFrame, FreshFrame
<1>2. CASE AnyOnRead \/ Cleanup \/ RaiseSignal \/ UNCHANGED vars
  <2>1. /\ backlog' = backlog /\ peer' = peer
        /\ \A f \in Fd : handlers'[f] \in {handlers[f], NoConn}
    BY <1>0, <1>2 DEF AnyOnRead, OnRead, Cleanup, RaiseSignal, peerVars,
                      sockVars, regVars, vars, loopVars, TypeOK
  <2> QED
    BY <2>1, FreshFrame
<1>3. ASSUME NEW f \in Fd, Accept(f) PROVE Fresh'
  <2>1. /\ backlog # <<>> /\ backlog' = Tail(backlog) /\ peer' = peer
        /\ handlers' = [handlers EXCEPT ![f] = Head(backlog)]
    BY <1>3 DEF Accept
  <2> QED
    BY <1>0, <2>1, TailOfBacklog DEF Fresh, TypeOK
<1>4. ASSUME NEW c \in Conn, Connect(c), UNCHANGED loopVars PROVE Fresh'
  <2>1. /\ peer[c] = "new" /\ peer' = [peer EXCEPT ![c] = "up"]
        /\ backlog' = Append(backlog, c) /\ handlers' = handlers
    BY <1>4 DEF Connect, loopVars
  <2>2. backlog \in Seq(Conn) /\ peer \in [Conn -> PeerStates]
    BY <1>0 DEF TypeOK, SocketsTypeOK
  <2>3. \A i \in DOMAIN backlog' :
          \/ i \in DOMAIN backlog /\ backlog'[i] = backlog[i]
          \/ i = Len(backlog) + 1 /\ backlog'[i] = c
    BY <2>1, <2>2
  <2>4. \A i \in DOMAIN backlog : backlog[i] \in Conn /\ backlog[i] # c
    BY <1>0, <2>1, <2>2 DEF Fresh
  <2>5. \A d \in Conn : peer'[d] = "new" => peer[d] = "new" /\ d # c
    BY <2>1, <2>2
  <2>6. /\ \A d \in Conn : peer[d] # "new" => peer'[d] # "new"
        /\ peer'[c] # "new"
        /\ \A f \in Fd : handlers'[f] # c
    BY <1>0, <2>1, <2>2 DEF Fresh
  <2> QED
    BY <1>0, <2>1, <2>3, <2>4, <2>5, <2>6 DEF Fresh
<1>5. ASSUME NEW c \in Conn, Abort(c), UNCHANGED loopVars PROVE Fresh'
  <2>1. /\ backlog # <<>> /\ backlog' = Tail(backlog)
        /\ peer' = [peer EXCEPT ![c] = "rst"] /\ handlers' = handlers
    BY <1>5 DEF Abort, loopVars
  <2>2. peer \in [Conn -> PeerStates]
    BY <1>0 DEF TypeOK, SocketsTypeOK
  <2> QED
    BY <1>0, <2>1, <2>2, TailOfBacklog DEF Fresh
<1>6. ASSUME NEW c \in Conn, Fin(c) \/ Reset(c), UNCHANGED loopVars
      PROVE  Fresh'
  <2>1. /\ peer[c] # "new" /\ backlog' = backlog /\ handlers' = handlers
        /\ \E s \in {"fin", "rst", "pipe"} : peer' = [peer EXCEPT ![c] = s]
    BY <1>6 DEF Fin, Reset, loopVars
  <2>2. peer \in [Conn -> PeerStates] /\ backlog \in Seq(Conn)
    BY <1>0 DEF TypeOK, SocketsTypeOK
  <2> QED
    BY <1>0, <2>1, <2>2 DEF Fresh
<1>7. ASSUME NEW c \in Conn, NEW u \in Unit, Send(c, u), UNCHANGED loopVars
      PROVE  Fresh'
  BY <1>7, FreshFrame DEF Send, loopVars
<1>8. ASSUME NEW c \in Conn, Recv(c), UNCHANGED loopVars PROVE Fresh'
  BY <1>8, FreshFrame DEF Recv, loopVars
<1> QED
  BY <1>1, <1>2, <1>3, <1>4, <1>5, <1>6, <1>7, <1>8
     DEF Next, LoopStep, Environment, Peers

-----------------------------------------------------------------------------
(* Descriptors and events.                                                 *)

Straight ==
  /\ FdOwnership
  /\ NoStaleEvents
  /\ PollsOnlyLive
  /\ ListenerFirst
  /\ ServingOrder
  /\ NothingPending

\* After the end nothing is registered, open or pending.
LEMMA ExitStraight ==
  ASSUME NEW how \in Ended, Exit(how)
  PROVE  Straight'
BY NoConnAssumption
   DEF Exit, Ended, Waiting, Serving, Straight, FdOwnership, NoStaleEvents,
       PollsOnlyLive, ListenerFirst, ServingOrder, NothingPending, AllLive,
       Live, Registered, Free, NoEvents, AllFd

\* A step of serving cur that marks its stream closed and has no more events
\* for it, or one that only handles some of them.
LEMMA ServingFrame ==
  ASSUME IInv, phase \in Serving,
         UNCHANGED <<fdTable, handlers, polled, cur>>,
         phase' \in Serving \cup {"dispatch"},
         NEW E \in SUBSET pending[cur],
         pending' = [pending EXCEPT ![cur] = E],
         \A c \in Conn : isOpen'[c] => isOpen[c]
  PROVE  Straight'
<1>1. cur \in Fd /\ cur # ListenFd
  BY ListenFdAssumption DEF IInv, ServingOrder
<1>2. /\ pending'[ListenFd] = {}
      /\ \A f \in Fd : pending'[f] # {} => pending[f] # {}
  BY <1>1 DEF IInv, TypeOK, AllFd, ServingOrder
<1> QED
  BY <1>1, <1>2
     DEF IInv, TypeOK, Straight, FdOwnership, NoStaleEvents, PollsOnlyLive,
         ListenerFirst, ServingOrder, NothingPending, AllLive, Live,
         Registered, Free, Waiting, Serving

LEMMA OnReadStraight ==
  ASSUME IInv, NEW W \in SUBSET Fd, NEW C \in SUBSET Fd, OnRead(W, C)
  PROVE  Straight'
<1>1. /\ phase = "deliver" /\ phase' = "deliver"
      /\ UNCHANGED <<handlers, polled, cur, pending>>
  BY DEF OnRead
<1>2. /\ handlers \in [Fd -> Conn \cup {NoConn}]
      /\ fdTable \in [Fd -> Conn \cup {NoConn}]
      /\ isOpen \in [Conn -> BOOLEAN]
  BY DEF IInv, TypeOK, SocketsTypeOK
<1>3. \A f \in Fd : Live(f)' => Live(f) /\ fdTable'[f] = fdTable[f]
  BY <1>1, <1>2 DEF OnRead, Live, Registered
<1>4. \A f \in Fd : fdTable'[f] \in {fdTable[f], NoConn}
  BY DEF OnRead
<1>5. FdOwnership'
  BY <1>1, <1>2, <1>3, <1>4 DEF IInv, FdOwnership, Free
<1>6. ListenerFirst' /\ ServingOrder' /\ NoStaleEvents'
  BY <1>1 DEF IInv, ListenerFirst, ServingOrder, NoStaleEvents, Serving,
              Registered
<1>7. PollsOnlyLive' /\ NothingPending'
  BY <1>1 DEF PollsOnlyLive, NothingPending, Waiting
<1> QED
  BY <1>5, <1>6, <1>7 DEF Straight

THEOREM StraightStep == IInv /\ [Next]_vars => Straight'
<1> SUFFICES ASSUME IInv, [Next]_vars PROVE Straight'
  OBVIOUS
<1>0. TypeOK /\ SocketsTypeOK /\ Straight /\ Fresh
  BY DEF IInv, Straight, TypeOK
<1> USE DEF Straight, FdOwnership, NoStaleEvents, PollsOnlyLive, ListenerFirst,
            ServingOrder, NothingPending, AllLive, Live, Registered, Free,
            Waiting, Serving, NoEvents
<1>1. CASE EnterPoll
  BY <1>0, <1>1 DEF EnterPoll, sockVars, regVars
<1>2. CASE PollReturns \/ PollTimeout \/ PollEintr
  <2>1. PICK events : /\ PollEnds(events)
                      /\ \A f \in Fd : events[f] # {} => Registered(f)
    <3>1. CASE PollReturns
      BY <3>1, ListenFdAssumption DEF PollReturns, Ready, AllFd
    <3>2. CASE PollTimeout \/ PollEintr
      BY <3>2 DEF PollTimeout, PollEintr, AllFd
    <3> QED
      BY <1>2, <3>1, <3>2
  <2>2. AllLive
    BY <1>0, <2>1 DEF PollEnds
  <2> QED
    BY <1>0, <2>1, <2>2 DEF PollEnds, sockVars, regVars
<1>3. CASE NoSignal \/ TakeSignal \/ OnInterrupt
  BY <1>0, <1>3 DEF NoSignal, TakeSignal, OnInterrupt, sockVars, regVars
<1>4. CASE RaiseSignal
  BY <1>0, <1>4 DEF RaiseSignal, sockVars, regVars
<1>5. CASE AcceptFails \/ WriteSigpipe
  BY <1>5, ExitStraight DEF AcceptFails, WriteSigpipe, Ended
<1>6. ASSUME NEW f \in Fd, Accept(f) PROVE Straight'
  <2>1. /\ phase = "dispatch" /\ phase' = phase /\ UNCHANGED <<cur, polled>>
        /\ pending[ListenFd] # {}
        /\ backlog # <<>> /\ fdTable[f] = NoConn
        /\ pending' = [pending EXCEPT ![ListenFd] = {}]
        /\ handlers' = [handlers EXCEPT ![f] = Head(backlog)]
        /\ isOpen' = [isOpen EXCEPT ![Head(backlog)] = TRUE]
    BY <1>6 DEF Accept, IsNext, LowestFree
  <2> DEFINE c == Head(backlog)
  <2>2. c \in Conn /\ c # NoConn /\ \A g \in Fd : handlers[g] # c
    BY <1>0, <2>1, TailOfBacklog, NoConnAssumption DEF Fresh
  \* Nothing has been closed in this iteration, so that f has no handler.
  <2>3. AllLive /\ ~Registered(f)
    BY <1>0, <2>1, NoConnAssumption DEF TypeOK
  <2>4. fdTable' = [fdTable EXCEPT ![f] = c]
    BY <1>6, <2>3 DEF Accept
  <2>5. FdOwnership'
    <3> HIDE DEF c
    <3> QED
      BY <1>0, <2>1, <2>2, <2>3, <2>4 DEF TypeOK, SocketsTypeOK, c
  <2>6. NoStaleEvents'
    BY <1>0, <2>1, <2>3, ListenFdAssumption DEF TypeOK, AllFd
  <2>7. pending'[ListenFd] = {}
    BY <1>0, <2>1 DEF TypeOK, AllFd
  <2> QED
    BY <2>1, <2>5, <2>6, <2>7
<1>7. ASSUME NEW f \in Fd, DispatchRead(f) \/ DispatchWrite(f)
      PROVE  Straight'
  <2>1. /\ pending[f] # {} /\ cur' = f /\ phase' \in {"read", "write"}
        /\ UNCHANGED <<fdTable, handlers, isOpen, pending, polled>>
        /\ \A g \in AllFd : pending[g] # {} => f <= g
    BY <1>7 DEF DispatchRead, DispatchWrite, Serve, IsNext, sockVars, regVars
  \* The listener, which has the lowest descriptor, has been served.
  <2>2. pending[ListenFd] = {}
    <3>1. f \in Nat /\ ListenFd \in Nat /\ ~(f <= ListenFd)
      BY ListenFdAssumption, FdAssumption
    <3> QED
      BY <2>1, <3>1 DEF AllFd
  <2> QED
    BY <1>0, <2>1, <2>2
<1>8. CASE DispatchDone
  BY <1>0, <1>8 DEF DispatchDone, sockVars, regVars, AllFd
<1>9. CASE ReadSome \/ Delivered \/ WriteSome
  <2>1. /\ phase \in Serving
        /\ UNCHANGED <<fdTable, handlers, isOpen, pending, polled, cur>>
    BY <1>9 DEF ReadSome, Delivered, WriteSome, CanWrite, sockVars, regVars
  <2>2. phase' \in Serving \cup {"dispatch"}
    BY <1>9 DEF ReadSome, Delivered, WriteSome, CanWrite
  <2> QED
    BY <1>0, <2>1, <2>2
<1>10. CASE ReadBlocked \/ ReadClosed \/ ReadEnds
  <2>1. /\ phase \in Serving /\ phase' \in Serving
        /\ UNCHANGED <<fdTable, handlers, polled, cur>>
        /\ \A c \in Conn : isOpen'[c] => isOpen[c]
    BY <1>0, <1>10 DEF ReadBlocked, ReadClosed, ReadEnds, sockVars, regVars,
                       TypeOK
  <2>2. \E E \in SUBSET pending[cur] : pending' = [pending EXCEPT ![cur] = E]
    BY <1>10 DEF ReadBlocked, ReadClosed, ReadEnds
  <2> QED
    BY <2>1, <2>2, ServingFrame
<1>11. CASE AnyOnRead
  BY <1>11, OnReadStraight DEF AnyOnRead
<1>12. CASE WriteBlocked \/ WriteFault \/ WriteEnds
  <2>1. /\ phase \in Serving /\ phase' = "dispatch"
        /\ UNCHANGED <<fdTable, handlers, polled, cur>>
        /\ pending' = [pending EXCEPT ![cur] = {}]
    BY <1>12 DEF WriteBlocked, WriteFault, WriteEnds, CanWrite, EndServing,
                 sockVars
  <2>2. isOpen' \in {isOpen, [isOpen EXCEPT ![Me] = FALSE]}
    BY <1>12 DEF WriteBlocked, WriteFault, WriteEnds
  <2>3. \A c \in Conn : isOpen'[c] => isOpen[c]
    BY <1>0, <2>2 DEF TypeOK
  <2> QED
    BY <2>1, <2>3, ServingFrame
<1>13. CASE Cleanup
  <2>1. /\ phase = "cleanup" /\ phase' = "poll"
        /\ UNCHANGED <<cur, polled, isOpen, pending>>
        /\ pending = NoEvents
    BY <1>0, <1>13 DEF Cleanup
  <2>2. \A f \in Fd : /\ Closed(f) => /\ handlers'[f] = NoConn
                                      /\ fdTable'[f] = NoConn
                      /\ ~Closed(f) => /\ handlers'[f] = handlers[f]
                                       /\ fdTable'[f] = fdTable[f]
    BY <1>13 DEF Cleanup
  <2>3. AllLive'
    BY <2>1, <2>2 DEF Closed
  <2>4. FdOwnership'
    BY <1>0, <2>1, <2>2
  <2> QED
    BY <2>1, <2>3, <2>4 DEF AllFd
<1>14. CASE Peers /\ UNCHANGED loopVars
  <2>1. fdTable' = fdTable
    BY <1>14 DEF Peers, Connect, Abort, Send, Recv, Fin, Reset
  <2> QED
    BY <1>0, <1>14, <2>1 DEF loopVars
<1>15. CASE UNCHANGED vars
  BY <1>0, <1>15 DEF vars, sockVars, loopVars
<1> QED
  BY <1>1, <1>2, <1>3, <1>4, <1>5, <1>6, <1>7, <1>8, <1>9, <1>10, <1>11,
     <1>12, <1>13, <1>14, <1>15 DEF Next, LoopStep, QuietStep, Environment

-----------------------------------------------------------------------------

\* The event loop keeps to IInv: the strengthening that the descriptors, the
\* dispatch order and the freshness of queued connections hold up together.
THEOREM PollerInv == Spec => []IInv
<1>1. IInv /\ [Next]_vars => IInv'
  BY TypeStep, FreshStep, StraightStep DEF IInv, Straight
<1> QED
  BY <1>1, InitIInv, PTL DEF Spec

\* Every variable keeps its type; above all, no buffer in a read or write
\* queue is ever empty, so that a write of nothing happens only where write()
\* makes one on purpose.
THEOREM PollerTypeOK == Spec => []TypeOK
BY PollerInv, PTL DEF IInv

\* An open handler's descriptor is that of its own connection and every open
\* descriptor has its handler, whatever on_read closes and accept reuses.
THEOREM PollerFdOwnership == Spec => []FdOwnership
BY PollerInv, PTL DEF IInv

\* An event is only ever handled by the handler poll reported it for.
THEOREM PollerNoStaleEvents == Spec => []NoStaleEvents
BY PollerInv, PTL DEF IInv

\* What an iteration closed is removed before the next poll.
THEOREM PollerPollsOnlyLive == Spec => []PollsOnlyLive
BY PollerInv, PTL DEF IInv

-----------------------------------------------------------------------------
(* Poller's buffers.                                                       *)

LEMMA PollersBuffers ==
  Buf = Bufs(Unit) /\ \A q, n : Written(q, n) = Left(q, n)
BY DEF Buf, Bufs, Written, Left

LEMMA AppendConcat ==
  \A r, q \in Seq(Buf) : \A e \in Buf : r \o Append(q, e) = Append(r \o q, e)
BY ConcatAppend

LEMMA WholeFresh ==
  ASSUME NEW s \in Seq(Unit)
  PROVE  Whole(s, <<>> \o <<>>, <<>> \o <<>>, s)
BY FreshWhole

LEMMA WholeSent ==
  ASSUME NEW s \in Seq(Unit), NEW out \in Seq(Unit), NEW bufs \in Seq(Buf),
         NEW in \in Seq(Unit), Whole(s, out, bufs, in), NEW u \in Unit
  PROVE  Whole(Append(s, u), out, bufs, Append(in, u))
BY SentWhole, PollersBuffers

LEMMA WholeRead ==
  ASSUME NEW s \in Seq(Unit), NEW out \in Seq(Unit), NEW bufs \in Seq(Buf),
         NEW in \in Seq(Unit), Whole(s, out, bufs, in), NEW n \in 1 .. Len(in)
  PROVE  Whole(s, out, Append(bufs, SubSeq(in, 1, n)), SubSeq(in, n + 1, Len(in)))
BY ReadWhole, PollersBuffers

LEMMA WholeWritten ==
  ASSUME NEW s \in Seq(Unit), NEW out \in Seq(Unit), NEW bufs \in Seq(Buf),
         bufs # <<>>, NEW in \in Seq(Unit), Whole(s, out, bufs, in),
         NEW n \in Nat, n <= Len(Head(bufs))
  PROVE  Whole(s, out \o SubSeq(Head(bufs), 1, n), Written(bufs, n), in)
BY WrittenWhole, PollersBuffers

LEMMA WholeMore ==
  ASSUME NEW s \in Seq(Unit), NEW out \in Seq(Unit), NEW bufs \in Seq(Buf),
         Whole(s, out, bufs, <<>>), NEW b \in Buf
  PROVE  Whole(s \o b, out, Append(bufs, b), <<>>)
BY MoreWhole, PollersBuffers
=============================================================================
