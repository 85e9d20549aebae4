--------------------------- MODULE Poller07Proofs ---------------------------
(***************************************************************************)
(* The servers of example 07: its Poller, too, keeps its descriptors and   *)
(* events straight, neither program loses anything on its way, and the     *)
(* process ends for nothing but a reset or for want of descriptors.  What  *)
(* its steps share with example 10 is proved there; the ends and the       *)
(* blocked write are its own.                                              *)
(***************************************************************************)
EXTENDS Poller07, ServerProofs

\* The steps that are those of example 10 and end nothing.
Common07 ==
  \/ EnterPoll
  \/ PollReturns
  \/ NoSignal
  \/ \E f \in Fd : DispatchRead(f) \/ DispatchWrite(f)
  \/ DispatchDone
  \/ ReadSome
  \/ ReadBlocked
  \/ ReadEnds
  \/ Delivered
  \/ WriteSome
  \/ WriteEnds

SomeReset == \E c \in Conn : peer[c] \in {"rst", "pipe"}

\* What each of the ends has come from.
End07 ==
  /\ Exit("killed")
  /\ \/ IsNext(ListenFd) /\ CannotAccept
     \/ phase = "read" /\ peer[Sock] = "rst"
     \/ CanWrite /\ peer[Sock] \in {"rst", "pipe"}

LEMMA Quiet07Kinds == Quiet07 => Common07 \/ StaysOpen \/ End07
BY DEF Quiet07, Poll07, HandleEvent, HandlerRead, HandlerWrite, ReadEof,
       AcceptTerminates, ReadThrows, WriteThrows, CanWrite, Common07, End07,
       Serving

LEMMA CommonIsQuiet == Common07 => QuietStep
BY DEF Common07, QuietStep

-----------------------------------------------------------------------------
(* The event loop.                                                         *)

LEMMA EndKeepsLoop ==
  ASSUME IInv, NEW how \in Ended, Exit(how) PROVE IInv'
<1>1. TypeOK'
  <2>1. ListenFd \in AllFd
    BY DEF AllFd
  <2> QED
    BY <2>1 DEF IInv, TypeOK, SocketsTypeOK, Exit, Ended, Phases, Waiting,
                Serving, NoEvents, sigVars
<1>2. Fresh'
  BY FreshFrame DEF Exit
<1>3. Straight'
  BY ExitStraight
<1> QED
  BY <1>1, <1>2, <1>3 DEF IInv, Straight

\* A blocked write leaves the stream open.
LEMMA StaysOpenKeepsLoop ==
  ASSUME IInv, StaysOpen PROVE IInv'
<1>1. /\ phase = "write" /\ phase' = "dispatch"
      /\ pending' = [pending EXCEPT ![cur] = {}]
      /\ UNCHANGED <<sockVars, isOpen, wq, cur, rq, handlers, sigVars, polled>>
  BY DEF StaysOpen, CanWrite, EndServing
<1>2. TypeOK'
  BY <1>1 DEF IInv, TypeOK, SocketsTypeOK, sockVars, sigVars, Phases, Waiting,
              Serving, Ended
<1>3. Fresh'
  BY <1>1, FreshFrame DEF sockVars
<1>4. Straight'
  <2>1. {} \in SUBSET pending[cur]
    OBVIOUS
  <2> QED
    BY <1>1, <2>1, ServingFrame DEF Serving, sockVars
<1> QED
  BY <1>2, <1>3, <1>4 DEF IInv, Straight

LEMMA NextKeepsLoop == IInv /\ [Next]_vars => IInv'
BY TypeStep, FreshStep, StraightStep DEF IInv, Straight

-----------------------------------------------------------------------------
(* The two programs.                                                       *)

Inv07 ==
  /\ program \in {"echo", "chat"}
  /\ program = "echo" => EchoInv
  /\ program = "chat" => ConversationInv

\* The chat server's invariant through the steps that only example 07 takes.
LEMMA ConversationFrame ==
  ASSUME ConversationInv, IInv', TalkInv', clients' = clients,
         (handlers' = handlers /\ phase \notin Ended) \/ phase' \in Ended
  PROVE  ConversationInv'
BY DEF ConversationInv, ChatInv, ClientsAreHandlers, Running, Registered

LEMMA ConversationStep07 ==
  ASSUME ConversationInv, program = "chat", Next07
  PROVE  ConversationInv'
<1>0. IInv /\ TalkInv
  BY DEF ConversationInv, ChatInv
<1>1. CASE Quiet07 /\ UNCHANGED <<clients, log, joined>>
  <2>1. CASE Common07
    BY <1>1, <2>1, CommonIsQuiet, ConversationStep DEF ChatNext, ChatStep
  <2>2. CASE StaysOpen
    <3>1. ChatStill /\ handlers' = handlers /\ phase \notin Ended
      BY <1>1, <2>2 DEF StaysOpen, CanWrite, EndServing, sockVars, ChatStill, Ended
    <3> QED
      BY <1>0, <1>1, <2>2, <3>1, StaysOpenKeepsLoop, ChatStillKeeps,
         ConversationFrame
  <2>3. CASE End07
    <3>1. Exit("killed") /\ "killed" \in Ended /\ phase' \in Ended
      BY <2>3 DEF End07, Ended, Exit
    <3> QED
      BY <1>0, <1>1, <3>1, EndKeepsLoop, ChatExitKeeps, ConversationFrame
  <2> QED
    BY <1>1, <2>1, <2>2, <2>3, Quiet07Kinds
<1>2. CASE (\E f \in Fd : OnOpen(f)) \/ OnClose \/ OnRead07
  <2>1. ChatStep
    BY <1>2 DEF OnOpen, OnClose, OnRead07, ChatStep
  <2> QED
    BY <2>1, ConversationStep DEF ChatNext
<1>3. CASE Peers07
  <2>1. Environment /\ UNCHANGED <<clients, log, joined>>
    BY <1>3 DEF Peers07, Environment
  <2> QED
    BY <2>1, ConversationStep DEF ChatNext
<1> QED
  BY <1>1, <1>2, <1>3 DEF Next07, Step07

LEMMA EchoStep07 ==
  ASSUME EchoInv, program = "echo", Next07
  PROVE  EchoInv'
<1>0. IInv /\ DataInv
  BY DEF EchoInv
<1>1. CASE Quiet07
  <2>1. CASE Common07
    BY <2>1, CommonIsQuiet, EchoStepKeeps DEF EchoNext, EchoStep
  <2>2. CASE StaysOpen
    <3>1. rq = <<>>
      BY <1>0, <2>2 DEF StaysOpen, CanWrite, DataInv, NoChunksLeft
    <3>2. Still
      BY <2>2, <3>1 DEF StaysOpen, EndServing, sockVars, peerVars, Still
    <3> QED
      BY <1>0, <2>2, <3>2, StaysOpenKeepsLoop, StillKeeps DEF EchoInv
  <2>3. CASE End07
    <3>1. Exit("killed") /\ "killed" \in Ended
      BY <2>3 DEF End07, Ended
    <3> QED
      BY <1>0, <3>1, EndKeepsLoop, ExitKeeps DEF EchoInv
  <2> QED
    BY <1>1, <2>1, <2>2, <2>3, Quiet07Kinds
<1>2. CASE (\E f \in Fd : OnOpen(f)) \/ OnClose
  <2>1. EchoStep
    BY <1>2 DEF OnOpen, OnClose, EchoStep
  <2> QED
    BY <2>1, EchoStepKeeps DEF EchoNext
<1>3. CASE OnRead07
  <2>1. OnRead({cur}, {})
    BY <1>3 DEF OnRead07, EchoOnRead07
  <2>2. cur \in Fd
    BY <1>0, <2>1 DEF OnRead, IInv, ServingOrder, Serving
  <2>3. AnyOnRead
    <3>1. {cur} \in SUBSET Fd /\ {} \in SUBSET Fd
      BY <2>2
    <3> QED
      BY <2>1, <3>1 DEF AnyOnRead
  <2>4. IInv'
    BY <1>0, <2>3, NextKeepsLoop DEF Next, LoopStep
  <2>5. DataInv'
    <3>1. OnRead(IF FALSE THEN {} ELSE {cur}, IF FALSE THEN {cur} ELSE {})
      BY <2>1
    <3> QED
      BY <3>1, EchoesBack
  <2> QED
    BY <2>4, <2>5 DEF EchoInv
<1>4. CASE Peers07
  <2>1. Environment
    BY <1>4 DEF Peers07, Environment
  <2> QED
    BY <2>1, EchoStepKeeps DEF EchoNext
<1> QED
  BY <1>1, <1>2, <1>3, <1>4 DEF Next07, Step07

THEOREM Step07Keeps == Inv07 /\ [Next07]_vars07 => Inv07'
<1> SUFFICES ASSUME Inv07, [Next07]_vars07 PROVE Inv07'
  OBVIOUS
<1>1. program' = program
  BY DEF Next07, Step07, Peers07, vars07
<1>2. CASE Next07
  BY <1>1, <1>2, ConversationStep07, EchoStep07 DEF Inv07
<1>3. CASE UNCHANGED vars07
  <2>1. UNCHANGED chatVars /\ UNCHANGED vars
    BY <1>3 DEF vars07, chatVars
  <2> QED
    BY <1>1, <2>1, ConversationStep, EchoStepKeeps DEF Inv07
<1> QED
  BY <1>2, <1>3

THEOREM Always07 == Spec07 => []Inv07
<1>1. Init07 => Inv07
  BY EchoInit, ConversationInit DEF Init07, ChatInit, Inv07
<1> QED
  BY <1>1, Step07Keeps, PTL DEF Spec07

\* The descriptors of example 07 are with their own connections as well.
THEOREM FdOwnership07 == Spec07 => []FdOwnership
<1>1. Inv07 => FdOwnership
  BY DEF Inv07, EchoInv, ConversationInv, ChatInv, IInv
<1> QED
  BY <1>1, Always07, PTL

\* Neither program loses, repeats or reorders anything on its way, with send
\* buffers of any size: a blocked write waits and takes up where it stopped.
THEOREM BothIntact07 == Spec07 => []Intact07
<1>1. Inv07 => Intact07
  BY RelayedWhenOpen DEF Inv07, EchoInv, DataInv, Intact07
<1> QED
  BY <1>1, Always07, PTL

-----------------------------------------------------------------------------
(* How the process ends.                                                   *)

Made == {c \in Conn : peer[c] # "new"}

\* A queue that poll found and accept does not has been reset since.
ListenerFound == pending[ListenFd] # {} => backlog # <<>> \/ SomeReset

\* No callback closes a handler in this example, so that whoever has an event
\* is open.
EventsAreOpen ==
  /\ \A f \in Fd : pending[f] # {} => Live(f)
  /\ phase = "read" => pending[cur] # {}

EndInv ==
  /\ OneHandlerEach
  /\ EventsAreOpen
  /\ IsFiniteSet(Made)
  /\ ListenerFound
  /\ EndsForAReason

\* What has been made or reset stays so, and one connection is made at a time.
LEMMA PeersRemain ==
  ASSUME TypeOK, Peers
  PROVE  /\ SomeReset => SomeReset'
         /\ Made \subseteq Made' /\ \E c \in Conn : Made' \subseteq Made \cup {c}
<1>1. peer \in [Conn -> PeerStates]
  BY DEF TypeOK, SocketsTypeOK
<1>2. PICK c \in Conn : /\ \A d \in Conn : d # c => peer'[d] = peer[d]
                        /\ peer[c] # "new" => peer'[c] # "new"
                        /\ peer[c] \in {"rst", "pipe"} =>
                             peer'[c] \in {"rst", "pipe"}
  <2>1. PICK c \in Conn :
          \/ Connect(c) \/ Abort(c) \/ (\E u \in Unit : Send(c, u))
          \/ Recv(c) \/ Fin(c) \/ Reset(c)
    BY DEF Peers
  <2>2. CASE Connect(c) \/ Abort(c) \/ Fin(c) \/ Reset(c)
    <3>1. \E s \in {"up", "fin", "rst", "pipe"} :
            /\ peer' = [peer EXCEPT ![c] = s]
            /\ peer[c] \in {"rst", "pipe"} => s \in {"rst", "pipe"}
      BY <2>2 DEF Connect, Abort, Fin, Reset
    <3> QED
      BY <1>1, <3>1
  <2>3. CASE (\E u \in Unit : Send(c, u)) \/ Recv(c)
    BY <2>3 DEF Send, Recv
  <2> QED
    BY <2>1, <2>2, <2>3
<1> QED
  BY <1>2 DEF SomeReset, Made

\* The queue gets shorter on its own only by an abort, which is a reset.
LEMMA QueueRemains ==
  ASSUME TypeOK, Peers, backlog # <<>>
  PROVE  backlog' # <<>> \/ SomeReset'
<1>1. backlog \in Seq(Conn) /\ peer \in [Conn -> PeerStates]
  BY DEF TypeOK, SocketsTypeOK
<1>2. PICK c \in Conn :
        \/ Connect(c) \/ Abort(c) \/ (\E u \in Unit : Send(c, u))
        \/ Recv(c) \/ Fin(c) \/ Reset(c)
  BY DEF Peers
<1>3. CASE Abort(c)
  BY <1>1, <1>3 DEF Abort, SomeReset
<1>4. CASE Connect(c)
  BY <1>1, <1>4 DEF Connect
<1>5. CASE (\E u \in Unit : Send(c, u)) \/ Recv(c) \/ Fin(c) \/ Reset(c)
  BY <1>5 DEF Send, Recv, Fin, Reset
<1> QED
  BY <1>2, <1>3, <1>4, <1>5

\* Without a free descriptor each is held by a connection of its own, and the
\* one that waits makes one more.
LEMMA OutOfDescriptors ==
  ASSUME IInv, OneHandlerEach, IsFiniteSet(Made), backlog # <<>>,
         \A f \in Fd : ~Free(f)
  PROVE  Cardinality(Made) > Cardinality(Fd)
<1>1. TypeOK /\ fdTable \in [Fd -> Conn \cup {NoConn}] /\ backlog \in Seq(Conn)
  BY DEF IInv, TypeOK, SocketsTypeOK
<1>2. \A f \in Fd : handlers[f] = fdTable[f] /\ handlers[f] \in Conn
  BY <1>1 DEF IInv, FdOwnership, Free
<1>3. PICK c \in Conn : c = Head(backlog) /\ \E i \in DOMAIN backlog : backlog[i] = c
  BY <1>1, TailOfBacklog
<1>4. c \in Made /\ \A f \in Fd : handlers[f] # c
  BY <1>3 DEF IInv, Fresh, Made
<1>5. \A f \in Fd : handlers[f] \in Made \ {c}
  BY <1>2, <1>4 DEF IInv, Fresh, Made
<1> DEFINE g == [f \in Fd |-> handlers[f]]
           T == Made \ {c}
<1>6. g \in Injection(Fd, T)
  <2>1. g \in [Fd -> T]
    BY <1>5
  <2>2. \A f, h \in Fd : g[f] = g[h] => f = h
    BY <1>2, NoConnAssumption DEF OneHandlerEach, Registered
  <2> HIDE DEF g, T
  <2> QED
    BY <2>1, <2>2 DEF Injection, IsInjective
<1>7. IsFiniteSet(T) /\ Cardinality(T) = Cardinality(Made) - 1
  BY <1>4, FS_RemoveElement
<1> HIDE DEF g, T
<1>8. Cardinality(Fd) <= Cardinality(T) /\ IsFiniteSet(Fd)
  BY <1>6, <1>7, FS_Injection
<1>9. Cardinality(Made) \in Nat /\ Cardinality(Fd) \in Nat
  BY <1>8, FS_CardinalityType
<1> QED
  BY <1>7, <1>8, <1>9

\* A step of the loop that ends nothing makes, resets and accepts nobody.
LEMMA GoesOn ==
  ASSUME IInv, EndInv, phase' \notin Ended, UNCHANGED <<peer, backlog>>,
         \A f, g \in Fd : handlers'[f] = handlers'[g] /\ Registered(f)' => f = g,
         pending'[ListenFd] # {} => backlog # <<>> \/ pending[ListenFd] # {},
         EventsAreOpen'
  PROVE  EndInv'
BY DEF EndInv, OneHandlerEach, ListenerFound, SomeReset, EndsForAReason, Running,
       Made, Registered

\* The read and the write of f, and what comes between.
LEMMA ServedEvents ==
  ASSUME IInv, EndInv, phase \in Serving, UNCHANGED <<handlers, cur>>,
         NEW E \in SUBSET pending[cur],
         pending' = [pending EXCEPT ![cur] = E],
         phase' = "read" => E # {},
         \A c \in Conn : isOpen'[c] = isOpen[c] \/ (c = Me /\ E = {})
  PROVE  EventsAreOpen' /\ pending'[ListenFd] = {}
<1>1. /\ cur \in Fd /\ pending[ListenFd] = {} /\ ListenFd \notin Fd
      /\ pending \in [AllFd -> SUBSET {"IN", "OUT"}]
      /\ handlers \in [Fd -> Conn \cup {NoConn}]
  BY ListenFdAssumption, FdAssumption DEF IInv, ServingOrder, TypeOK
<1>2. /\ pending'[cur] = E /\ \A f \in AllFd : f # cur => pending'[f] = pending[f]
      /\ Fd \subseteq AllFd /\ ListenFd \in AllFd
  BY <1>1 DEF AllFd
<1>3. ASSUME NEW f \in Fd, pending'[f] # {} PROVE Live(f)'
  <2>1. pending[f] # {} /\ (f = cur => E # {})
    BY <1>1, <1>2, <1>3
  <2>2. Live(f)
    BY <2>1 DEF EndInv, EventsAreOpen
  <2>3. handlers[f] = Me /\ handlers[f] \in Conn => f = cur
    BY <1>1, <2>2 DEF EndInv, OneHandlerEach, Live, Registered, Me
  <2> QED
    BY <1>1, <2>1, <2>2, <2>3 DEF Live, Registered
<1> QED
  BY <1>1, <1>2, <1>3 DEF EventsAreOpen

LEMMA CommonEnds ==
  ASSUME IInv, EndInv, Common07 \/ StaysOpen
  PROVE  EndInv'
<1>0. /\ TypeOK /\ OneHandlerEach /\ EventsAreOpen
      /\ pending \in [AllFd -> SUBSET {"IN", "OUT"}]
      /\ isOpen \in [Conn -> BOOLEAN]
  BY DEF IInv, TypeOK, EndInv
<1> USE DEF sockVars, peerVars, regVars
<1>1. CASE EnterPoll \/ NoSignal \/ DispatchDone
             \/ \E f \in Fd : DispatchRead(f) \/ DispatchWrite(f)
  <2>1. /\ UNCHANGED <<peer, backlog, handlers, pending, isOpen>>
        /\ phase' \in {"blocked", "dispatch", "cleanup", "read", "write"}
        /\ phase' = "read" => pending[cur'] # {}
    BY <1>1 DEF EnterPoll, NoSignal, DispatchDone, DispatchRead, DispatchWrite,
                Serve
  <2>2. EventsAreOpen'
    BY <1>0, <2>1 DEF EventsAreOpen, Live, Registered
  <2> QED
    BY <1>0, <2>1, <2>2, GoesOn DEF OneHandlerEach, Registered, Ended
<1>2. CASE PollReturns
  <2>1. /\ UNCHANGED <<peer, backlog, handlers, isOpen>> /\ phase' = "signal"
        /\ pending' = [f \in AllFd |-> Ready(f)]
    BY <1>2 DEF PollReturns, PollEnds
  <2>2. /\ Ready(ListenFd) # {} => backlog # <<>>
        /\ \A f \in Fd : Ready(f) # {} => Live(f)
    BY ListenFdAssumption, FdAssumption DEF Ready
  <2> HIDE DEF Ready
  <2>3. /\ pending'[ListenFd] = Ready(ListenFd)
        /\ \A f \in Fd : pending'[f] = Ready(f)
    BY <2>1 DEF AllFd
  <2>4. EventsAreOpen'
    BY <2>1, <2>2, <2>3 DEF EventsAreOpen, Live, Registered
  <2> QED
    BY <1>0, <2>1, <2>2, <2>3, <2>4, GoesOn DEF OneHandlerEach, Registered, Ended
\* The steps within the handling of one event.
<1>3. ASSUME NEW E \in SUBSET pending[cur],
             phase \in Serving, UNCHANGED <<peer, backlog, handlers, cur>>,
             pending' = [pending EXCEPT ![cur] = E],
             phase' \notin Ended, phase' = "read" => E # {},
             \A c \in Conn : isOpen'[c] = isOpen[c] \/ (c = Me /\ E = {})
      PROVE  EndInv'
  <2>1. EventsAreOpen' /\ pending'[ListenFd] = {}
    BY <1>3, ServedEvents
  <2> QED
    BY <1>0, <1>3, <2>1, GoesOn DEF OneHandlerEach, Registered
<1>4. pending = [pending EXCEPT ![cur] = pending[cur]]
      /\ pending[cur] \in SUBSET pending[cur]
  BY <1>0
<1>5. CASE ReadSome
  <2>1. phase = "read" => pending[cur] # {}
    BY <1>0 DEF EventsAreOpen
  <2> QED
    BY <1>3, <1>4, <1>5, <2>1 DEF ReadSome, Serving, Ended
<1>6. CASE ReadBlocked
  <2>1. pending[cur] \ {"IN"} \in SUBSET pending[cur]
    OBVIOUS
  <2> QED
    BY <1>3, <1>6, <2>1 DEF ReadBlocked, Serving, Ended
<1>7. CASE ReadEnds
  <2>1. {} \in SUBSET pending[cur]
    OBVIOUS
  <2> QED
    BY <1>0, <1>3, <1>7, <2>1 DEF ReadEnds, Serving, Ended
<1>8. CASE Delivered
  BY <1>3, <1>4, <1>8 DEF Delivered, Serving, Ended
<1>9. CASE WriteSome
  BY <1>3, <1>4, <1>9 DEF WriteSome, CanWrite, Serving, Ended
<1>10. CASE WriteEnds \/ StaysOpen
  <2>1. {} \in SUBSET pending[cur]
    OBVIOUS
  <2> QED
    BY <1>3, <1>10, <2>1 DEF WriteEnds, StaysOpen, CanWrite, EndServing, Serving,
                             Ended
<1> QED
  BY <1>1, <1>2, <1>5, <1>6, <1>7, <1>8, <1>9, <1>10 DEF Common07

\* Every end has its reason.
LEMMA EndEnds ==
  ASSUME IInv, EndInv, End07
  PROVE  EndInv'
<1>1. /\ UNCHANGED <<peer, backlog>> /\ \A f \in AllFd : pending'[f] = {}
      /\ \A f \in Fd : handlers'[f] = NoConn
      /\ phase' = "killed"
  BY DEF End07, Exit, NoEvents
<1>2. SomeReset \/ Cardinality(Made) > Cardinality(Fd)
  <2>1. CASE IsNext(ListenFd) /\ CannotAccept
    <3>1. backlog # <<>> \/ SomeReset
      BY <2>1 DEF EndInv, ListenerFound, IsNext
    <3>2. CASE backlog # <<>>
      BY <2>1, <3>2, OutOfDescriptors DEF EndInv, CannotAccept
    <3> QED
      BY <3>1, <3>2
  <2>2. CASE phase = "read" /\ peer[Sock] = "rst"
    <3>1. cur \in Fd /\ Live(cur)
      BY <2>2 DEF IInv, ServingOrder, Serving, EndInv, EventsAreOpen
    <3>2. Sock \in Conn
      BY <2>2, <3>1, ServedIsOwn DEF Live, Me, Serving
    <3> QED
      BY <2>2, <3>2 DEF SomeReset
  <2>3. CASE CanWrite /\ peer[Sock] \in {"rst", "pipe"}
    BY <2>3, ServedIsOwn DEF CanWrite, Serving, SomeReset
  <2> QED
    BY <2>1, <2>2, <2>3 DEF End07
<1>3. EndsForAReason'
  BY <1>1, <1>2 DEF EndsForAReason, SomeReset, Made
<1>4. OneHandlerEach' /\ IsFiniteSet(Made)'
  BY <1>1 DEF OneHandlerEach, Registered, EndInv, Made
<1>5. EventsAreOpen' /\ ListenerFound'
  BY <1>1 DEF EventsAreOpen, ListenerFound, AllFd
<1> QED
  BY <1>3, <1>4, <1>5 DEF EndInv

\* accept takes a descriptor that nobody has, and so no event is for it.
LEMMA AcceptEnds ==
  ASSUME IInv, EndInv, NEW f \in Fd, Accept(f)
  PROVE  EndInv'
<1>1. TypeOK /\ Fresh /\ FdOwnership /\ OneHandlerEach /\ EventsAreOpen
  BY DEF IInv, EndInv
<1>2. PICK c \in Conn : c = Head(backlog) /\ \E i \in DOMAIN backlog : backlog[i] = c
  BY <1>1, TailOfBacklog DEF Accept
<1>3. /\ phase = "dispatch" /\ phase' = phase /\ peer' = peer /\ Free(f)
      /\ handlers' = [handlers EXCEPT ![f] = c]
      /\ isOpen' = [isOpen EXCEPT ![c] = TRUE]
      /\ pending' = [pending EXCEPT ![ListenFd] = {}]
  BY <1>2 DEF Accept, IsNext, LowestFree
<1>4. /\ handlers'[f] = c /\ \A g \in Fd : g # f => handlers'[g] = handlers[g]
      /\ \A d \in Conn : d # c => isOpen'[d] = isOpen[d]
      /\ pending'[ListenFd] = {} /\ \A g \in Fd : pending'[g] = pending[g]
      /\ \A g \in Fd : handlers[g] # c
  BY <1>1, <1>2, <1>3, ListenFdAssumption, FdAssumption DEF TypeOK, AllFd, Fresh
<1>5. pending[f] = {}
  BY <1>1, <1>3, NoConnAssumption
     DEF EventsAreOpen, FdOwnership, Live, Registered, Free
<1>6. EventsAreOpen'
  BY <1>1, <1>3, <1>4, <1>5 DEF TypeOK, EventsAreOpen, Live, Registered
<1>7. OneHandlerEach'
  BY <1>1, <1>4 DEF OneHandlerEach, Registered
<1>8. IsFiniteSet(Made)' /\ ListenerFound' /\ EndsForAReason'
  BY <1>3, <1>4
     DEF EndInv, Made, ListenerFound, EndsForAReason, Running, Ended
<1> QED
  BY <1>6, <1>7, <1>8 DEF EndInv

LEMMA CleanupEnds ==
  ASSUME IInv, EndInv, Cleanup
  PROVE  EndInv'
<1>1. /\ phase' = "poll" /\ UNCHANGED <<peer, backlog, pending>>
      /\ \A f \in Fd : handlers'[f] \in {handlers[f], NoConn}
      /\ \A f \in AllFd : pending[f] = {}
  BY DEF Cleanup, peerVars, IInv, NothingPending, NoEvents
<1>2. EventsAreOpen'
  BY <1>1 DEF EventsAreOpen, AllFd
<1>3. OneHandlerEach'
  BY <1>1 DEF EndInv, OneHandlerEach, Registered
<1> QED
  BY <1>1, <1>2, <1>3, GoesOn DEF OneHandlerEach, Ended

\* on_read of either program closes nobody.
LEMMA OnReadEnds ==
  ASSUME IInv, EndInv, NEW W, OnRead(W, {})
  PROVE  EndInv'
<1>1. /\ phase = "deliver" /\ phase' = phase
      /\ UNCHANGED <<peer, backlog, handlers, pending, cur>>
      /\ \A c \in Conn : isOpen'[c] <=> isOpen[c]
  BY DEF OnRead, peerVars
<1>2. handlers \in [Fd -> Conn \cup {NoConn}]
  BY DEF IInv, TypeOK
<1>3. EventsAreOpen'
  BY <1>1, <1>2 DEF EndInv, EventsAreOpen, Live, Registered
<1>4. OneHandlerEach'
  BY <1>1 DEF EndInv, OneHandlerEach, Registered
<1> QED
  BY <1>1, <1>3, <1>4, GoesOn DEF OneHandlerEach, Ended

LEMMA PeersEnds ==
  ASSUME IInv, EndInv, Running, Peers, UNCHANGED loopVars
  PROVE  EndInv'
<1>1. TypeOK
  BY DEF IInv
<1>2. OneHandlerEach' /\ EventsAreOpen'
  BY DEF EndInv, OneHandlerEach, EventsAreOpen, Live, Registered, loopVars
<1>3. IsFiniteSet(Made')
  <2>1. PICK c \in Conn : Made' \subseteq Made \cup {c}
    BY <1>1, PeersRemain
  <2>2. IsFiniteSet(Made \cup {c})
    BY FS_AddElement DEF EndInv
  <2> QED
    BY <2>1, <2>2, FS_Subset
<1>4. ListenerFound'
  BY <1>1, PeersRemain, QueueRemains DEF EndInv, ListenerFound, loopVars
<1>5. EndsForAReason'
  BY DEF EndsForAReason, Running, loopVars
<1> QED
  BY <1>2, <1>3, <1>4, <1>5 DEF EndInv

THEOREM EndStep == Inv07 /\ EndInv /\ [Next07]_vars07 => EndInv'
<1> SUFFICES ASSUME Inv07, EndInv, [Next07]_vars07 PROVE EndInv'
  OBVIOUS
<1>0. IInv
  BY DEF Inv07, EchoInv, ConversationInv, ChatInv
<1>1. CASE Quiet07
  BY <1>0, <1>1, Quiet07Kinds, CommonEnds, EndEnds
<1>2. ASSUME NEW f \in Fd, OnOpen(f) PROVE EndInv'
  BY <1>0, <1>2, AcceptEnds DEF OnOpen, ChatAccept
<1>3. CASE OnClose
  BY <1>0, <1>3, CleanupEnds DEF OnClose, ChatCleanup
<1>4. CASE OnRead07
  <2>1. OnRead(Recipients, {}) \/ OnRead({cur}, {})
    BY <1>4 DEF OnRead07, ChatOnRead, EchoOnRead07
  <2> QED
    BY <1>0, <2>1, OnReadEnds
<1>5. CASE Peers07
  BY <1>0, <1>5, PeersEnds DEF Peers07
<1>6. CASE UNCHANGED vars07
  <2>1. UNCHANGED <<peer, backlog, handlers, isOpen, pending, cur, phase>>
    BY <1>6 DEF vars07, chatVars, vars, sockVars, loopVars
  <2> QED
    BY <2>1 DEF EndInv, OneHandlerEach, EventsAreOpen, ListenerFound, SomeReset,
                EndsForAReason, Running, Live, Registered, Made
<1> QED
  BY <1>1, <1>2, <1>3, <1>4, <1>5, <1>6 DEF Next07, Step07

LEMMA EndInit == Init07 => EndInv
<1> SUFFICES ASSUME Init07 PROVE EndInv
  OBVIOUS
<1>1. /\ \A f \in Fd : handlers[f] = NoConn
      /\ \A f \in AllFd : pending[f] = {}
      /\ \A c \in Conn : peer[c] = "new"
      /\ phase = "poll"
  BY DEF Init07, ChatInit, Init, SocketsInit, NoEvents
<1>2. Made = {} /\ IsFiniteSet({})
  BY <1>1, FS_EmptySet DEF Made
<1>3. OneHandlerEach /\ EventsAreOpen /\ ListenerFound /\ EndsForAReason
  BY <1>1 DEF OneHandlerEach, Registered, EventsAreOpen, ListenerFound, AllFd,
              EndsForAReason, Running, Ended
<1> QED
  BY <1>2, <1>3 DEF EndInv

\* An end of file, a slow peer or a client that goes in the middle of a write
\* never ends the process, however many come at once: only a reset does, or
\* one connection more than there are descriptors.
THEOREM EndsForAReason07 == Spec07 => []EndsForAReason
<1>1. Spec07 => []EndInv
  BY Always07, EndInit, EndStep, PTL DEF Spec07
<1> QED
  BY <1>1, PTL DEF EndInv

-----------------------------------------------------------------------------
(* Both programs implement their services, but for the fairness.           *)

\* Those that are owed an answer, or the conversation, as Echo07 and Chat07
\* are instantiated.
Owed07 == {c \in Conn : Running /\ peer[c] \in {"new", "up"}}

Present07 == {c \in Conn : /\ Running /\ program = "chat" /\ peer[c] = "up"
                           /\ RegisteredConn(c)}

\* Nothing revives the process once it has ended.
LEMMA OnlyRunningMoves07 == Next07 => Running
<1> SUFFICES ASSUME Next07 PROVE Running
  OBVIOUS
<1>1. CASE Quiet07
  BY <1>1, Quiet07Kinds
     DEF Common07, End07, StaysOpen, EnterPoll, PollReturns, PollEnds, NoSignal,
         DispatchRead, DispatchWrite, Serve, IsNext, DispatchDone, ReadSome,
         ReadBlocked, ReadEnds, Delivered, WriteSome, WriteEnds, CanWrite,
         Running, Ended
<1>2. CASE (\E f \in Fd : OnOpen(f)) \/ OnClose \/ OnRead07
  BY <1>2 DEF OnOpen, ChatAccept, Accept, IsNext, OnClose, ChatCleanup, Cleanup,
              OnRead07, ChatOnRead, EchoOnRead07, OnRead, Running, Ended
<1> QED
  BY <1>1, <1>2 DEF Next07, Step07, Peers07

\* What a step of the server leaves as it is: the peers, and what they have
\* sent and got.
LEMMA ServerLeavesPeers ==
  ASSUME Step07
  PROVE  UNCHANGED <<peer, sent, received>>
<1>1. CASE Common07
  BY <1>1 DEF Common07, EnterPoll, PollReturns, PollEnds, NoSignal,
       DispatchRead, DispatchWrite, Serve, DispatchDone, ReadSome,
       ReadBlocked, ReadEnds, Delivered, WriteSome, WriteEnds, EndServing,
       sockVars, peerVars
<1>2. CASE StaysOpen \/ End07
  BY <1>2 DEF StaysOpen, End07, Exit, EndServing, sockVars, peerVars
<1>3. CASE (\E f \in Fd : OnOpen(f)) \/ OnClose \/ OnRead07
  BY <1>3 DEF OnOpen, ChatAccept, Accept, OnClose, ChatCleanup, Cleanup,
              OnRead07, ChatOnRead, EchoOnRead07, OnRead, sockVars, peerVars
<1> QED
  BY <1>1, <1>2, <1>3, Quiet07Kinds DEF Step07

\* Nobody comes back to the service.
LEMMA OwedFalls07 ==
  ASSUME TypeOK, Next07
  PROVE  Owed07' \subseteq Owed07
<1>1. Running
  BY OnlyRunningMoves07
<1>2. ASSUME NEW c \in Conn, peer'[c] \in {"new", "up"}
      PROVE  peer[c] \in {"new", "up"}
  <2>1. CASE Peers
    BY <1>2, <2>1
       DEF Peers, Connect, Abort, Fin, Reset, Send, Recv, TypeOK, SocketsTypeOK
  <2>2. CASE UNCHANGED peer
    BY <1>2, <2>2
  <2> QED
    BY <2>1, <2>2, ServerLeavesPeers DEF Next07, Peers07
<1> QED
  BY <1>1, <1>2 DEF Owed07

\* The echo server's variables are the service's, when it is what runs.
LEMMA EchoService07 ==
  ASSUME TypeOK, TypeOK', program' = program, program = "echo"
  PROVE  /\ Mine("echo", sent) = sent /\ Mine("echo", received) = received
         /\ Mine("echo", sent)' = sent' /\ Mine("echo", received)' = received'
BY DEF Mine, TypeOK, SocketsTypeOK

LEMMA EchoServes07 ==
  ASSUME EchoInv, TypeOK', program = "echo", Next07
  PROVE  Echo07!ServiceNext
<1>0. IInv /\ TypeOK /\ program' = program
  BY DEF EchoInv, IInv, Next07, Step07, Peers07
<1>1. /\ Mine("echo", sent) = sent /\ Mine("echo", received) = received
      /\ Mine("echo", sent)' = sent' /\ Mine("echo", received)' = received'
  BY <1>0, EchoService07
<1>2. Owed07' \subseteq Owed07
  BY <1>0, OwedFalls07
<1>3. CASE UNCHANGED <<sent, received>>
  <2>1. Echo07!Forsake
    BY <1>1, <1>2, <1>3 DEF Echo07!Forsake, Owed07
  <2> QED
    BY <2>1 DEF Echo07!ServiceNext
<1>4. ASSUME NEW c \in Conn, Recv(c), Peers07 PROVE Echo07!Answer(c)
  <2>1. UNCHANGED <<sent, peer, phase>>
    BY <1>4 DEF Recv, Peers07, loopVars
  <2>2. Owed07' = Owed07
    BY <2>1 DEF Owed07, Running
  <2>3. /\ Len(received[c]) < Len(sent[c])
        /\ received' = [received EXCEPT ![c] =
                          Append(@, sent[c][Len(@) + 1])]
    BY <1>4, RecvAnswers
  <2> QED
    BY <1>1, <2>1, <2>2, <2>3 DEF Echo07!Answer, Owed07
<1>5. ASSUME NEW c \in Conn, NEW u \in Unit, Send(c, u), Peers07
      PROVE  Echo07!Ask(c)
  <2>1. /\ UNCHANGED <<received, peer, phase>>
        /\ sent' = [sent EXCEPT ![c] = Append(@, u)]
    BY <1>5 DEF Send, Peers07, loopVars
  <2>2. Owed07' = Owed07
    BY <2>1 DEF Owed07, Running
  <2> QED
    BY <1>1, <1>5, <2>1, <2>2 DEF Echo07!Ask, Owed07
<1>6. CASE Peers07
  <2>1. CASE \E c \in Conn : Connect(c) \/ Abort(c) \/ Fin(c) \/ Reset(c)
    BY <1>3, <2>1 DEF Connect, Abort, Fin, Reset
  <2> QED
    BY <1>4, <1>5, <1>6, <2>1 DEF Peers07, Peers, Echo07!ServiceNext
<1>7. CASE Step07
  BY <1>3, <1>7, ServerLeavesPeers
<1> QED
  BY <1>6, <1>7 DEF Next07

\* Of the program that does not run nothing is asked.
LEMMA EchoIdle07 ==
  ASSUME TypeOK, Running' => Running, Owed07' \subseteq Owed07,
         program = "chat", program' = program
  PROVE  Echo07!ServiceNext
<1>1. UNCHANGED <<Mine("echo", sent), Mine("echo", received)>>
  BY DEF Mine
<1>2. Echo07!Forsake
  BY <1>1 DEF Echo07!Forsake, Owed07
<1> QED
  BY <1>2 DEF Echo07!ServiceNext

LEMMA EchoServiceStep07 ==
  Inv07 /\ Inv07' /\ [Next07]_vars07
    => [Echo07!ServiceNext]_(Echo07!echoVars)
<1> SUFFICES ASSUME Inv07, Inv07', [Next07]_vars07
             PROVE  [Echo07!ServiceNext]_(Echo07!echoVars)
  OBVIOUS
<1>1. TypeOK /\ TypeOK' /\ program' = program
  BY DEF Inv07, EchoInv, ConversationInv, ChatInv, IInv, Next07, Step07,
         Peers07, vars07
<1>2. CASE Next07
  <2>1. CASE program = "echo"
    BY <1>1, <1>2, <2>1, EchoServes07 DEF Inv07
  <2>2. CASE program = "chat"
    BY <1>1, <1>2, <2>2, EchoIdle07, OwedFalls07, OnlyRunningMoves07
  <2> QED
    BY <2>1, <2>2 DEF Inv07
<1>3. CASE UNCHANGED vars07
  BY <1>3 DEF vars07, chatVars, vars, sockVars, peerVars, loopVars, Running,
              Echo07!echoVars, Mine
<1> QED
  BY <1>2, <1>3

\* As long as it runs, the echo server of example 07 gives everyone back what
\* he has sent, in order and once, whatever its reads and writes throw.
THEOREM EchoKeepsService07 == Spec07 => Echo07!ServiceSafety
<1>1. Init07 => Echo07!ServiceInit
  BY DEF Init07, ChatInit, Init, SocketsInit, Echo07!ServiceInit, Mine, Running,
         Ended
<1> QED
  BY <1>1, Always07, EchoServiceStep07, PTL DEF Spec07, Echo07!ServiceSafety

\* No callback and no write closes a stream here, so that a registered
\* handler whose peer is up is open.
UpIsOpen ==
  Running => \A c \in Conn : RegisteredConn(c) /\ peer[c] = "up" => isOpen[c]

LEMMA UpIsOpenStep ==
  ASSUME IInv, UpIsOpen, Next07
  PROVE  UpIsOpen'
<1>0. /\ TypeOK /\ Fresh /\ FdOwnership /\ handlers \in [Fd -> Conn \cup {NoConn}]
      /\ isOpen \in [Conn -> BOOLEAN] /\ peer \in [Conn -> PeerStates]
  BY DEF IInv, TypeOK, SocketsTypeOK
<1>1. \A c \in Conn : RegisteredConn(c) /\ peer[c] = "up" => isOpen[c]
  BY OnlyRunningMoves07 DEF UpIsOpen
<1>2. CASE UNCHANGED <<peer, handlers, isOpen>>
  BY <1>1, <1>2 DEF UpIsOpen, RegisteredConn
<1>3. CASE ReadEnds
  <2>1. /\ isOpen[Me] /\ peer[Sock] # "up" /\ UNCHANGED <<peer, handlers>>
        /\ isOpen' = [isOpen EXCEPT ![Me] = FALSE]
    BY <1>3 DEF ReadEnds, AtEnd, sockVars, peerVars
  <2>2. cur \in Fd /\ Registered(cur)
    BY <1>3 DEF ReadEnds, IInv, ServingOrder, Serving
  <2>3. Sock = Me
    BY <1>0, <2>1, <2>2 DEF FdOwnership, Live, Me, Sock
  <2>4. peer[Me] # "up"
    BY <2>1, <2>3
  <2> QED
    BY <1>0, <1>1, <2>1, <2>4 DEF UpIsOpen, RegisteredConn
<1>4. CASE Common07
  BY <1>2, <1>3, <1>4
     DEF Common07, EnterPoll, PollReturns, PollEnds, NoSignal, DispatchRead,
         DispatchWrite, Serve, DispatchDone, ReadSome, ReadBlocked, Delivered,
         WriteSome, WriteEnds, EndServing, sockVars, peerVars, regVars
<1>5. CASE StaysOpen
  BY <1>2, <1>5 DEF StaysOpen, EndServing, sockVars, peerVars
<1>6. CASE End07
  BY <1>6 DEF End07, Exit, UpIsOpen, Running, Ended
<1>7. ASSUME NEW f \in Fd, Accept(f) PROVE UpIsOpen'
  <2>1. /\ handlers' = [handlers EXCEPT ![f] = Head(backlog)]
        /\ isOpen' = [isOpen EXCEPT ![Head(backlog)] = TRUE] /\ peer' = peer
    BY <1>7 DEF Accept
  <2> QED
    BY <1>0, <1>1, <2>1 DEF UpIsOpen, RegisteredConn
<1>8. CASE Cleanup
  <2>1. /\ \A f \in Fd : handlers'[f] \in {handlers[f], NoConn}
        /\ UNCHANGED <<isOpen, peer>>
    BY <1>8 DEF Cleanup, peerVars
  <2> QED
    BY <1>1, <2>1, NoConnAssumption DEF UpIsOpen, RegisteredConn
<1>9. ASSUME NEW W, OnRead(W, {}) PROVE UpIsOpen'
  <2>1. UNCHANGED <<handlers, peer>> /\ isOpen' = isOpen
    BY <1>0, <1>9 DEF OnRead, peerVars
  <2> QED
    BY <1>2, <2>1
<1>10. CASE Peers07
  <2>1. UNCHANGED <<handlers, isOpen>> /\ Peers
    BY <1>10 DEF Peers07, loopVars, regVars
  <2>2. \A c \in Conn : peer'[c] = "up" => peer[c] = "up" \/ peer[c] = "new"
    BY <1>0, <2>1 DEF Peers, Connect, Abort, Fin, Reset, Send, Recv
  <2>3. \A c \in Conn : peer[c] = "new" => ~RegisteredConn(c)
    BY <1>0 DEF Fresh, RegisteredConn
  <2> QED
    BY <1>1, <2>1, <2>2, <2>3 DEF UpIsOpen, RegisteredConn
<1> QED
  BY <1>4, <1>5, <1>6, <1>7, <1>8, <1>9, <1>10, Quiet07Kinds
     DEF Next07, Step07, OnOpen, ChatAccept, OnClose, ChatCleanup, OnRead07,
         ChatOnRead, EchoOnRead07

THEOREM AlwaysUpIsOpen == Spec07 => []UpIsOpen
<1>1. Init07 => UpIsOpen
  BY NoConnAssumption DEF Init07, ChatInit, Init, SocketsInit, UpIsOpen,
                          RegisteredConn
<1>2. Inv07 /\ UpIsOpen /\ [Next07]_vars07 => UpIsOpen'
  <2>1. Inv07 => IInv
    BY DEF Inv07, EchoInv, ConversationInv, ChatInv
  <2>2. UpIsOpen /\ UNCHANGED vars07 => UpIsOpen'
    BY DEF vars07, chatVars, vars, sockVars, peerVars, loopVars, regVars,
           UpIsOpen, Running, RegisteredConn
  <2> QED
    BY <2>1, <2>2, UpIsOpenStep
<1> QED
  BY <1>1, <1>2, Always07, PTL DEF Spec07

\* What Chat07 and Talk say of the log is the same.
LEMMA SameConversation ==
  \A c \in Conn :
    /\ Chat07!Others(c) = Talk!Others(c)
    /\ \A n, i : Chat07!IsNth(c, n, i) <=> Talk!IsNth(c, n, i)
BY DEF Chat07!Others, Talk!Others, Chat07!IsNth, Talk!IsNth,
       Chat07!Cardinality, Talk!Cardinality, Chat07!IsFiniteSet,
       Talk!IsFiniteSet

\* The chat server's variables are the service's, when it is what runs.
LEMMA ChatService07 ==
  ASSUME TypeOK, TypeOK', UpIsOpen, UpIsOpen',
         program' = program, program = "chat"
  PROVE  /\ Mine("chat", received) = received
         /\ Mine("chat", received)' = received'
         /\ Present07 = Present /\ Present07' = Present'
<1>1. /\ Mine("chat", received) = received
      /\ Mine("chat", received)' = received'
  BY DEF Mine, TypeOK, SocketsTypeOK
<1>2. Present07 = Present /\ Present07' = Present'
  BY DEF Present07, Present, UpIsOpen, RegisteredConn
<1> QED
  BY <1>1, <1>2

\* Each way to go on of the one service is that of the other.
LEMMA TalkIsChat07 ==
  ASSUME TypeOK, TypeOK', UpIsOpen, UpIsOpen',
         program' = program, program = "chat", Talk!ServiceNext
  PROVE  Chat07!ServiceNext
<1>1. /\ Mine("chat", received) = received
      /\ Mine("chat", received)' = received'
      /\ Present07 = Present /\ Present07' = Present'
  BY ChatService07
<1>2. ASSUME NEW c \in Conn, Talk!Join(c) PROVE Chat07!Join(c)
  BY <1>1, <1>2 DEF Talk!Join, Chat07!Join, Present07, Present
<1>3. ASSUME NEW c \in Conn, Talk!Say(c) PROVE Chat07!Say(c)
  BY <1>1, <1>3 DEF Talk!Say, Chat07!Say, Present07, Present
<1>4. ASSUME NEW c \in Conn, Talk!Hear(c) PROVE Chat07!Hear(c)
  BY <1>1, <1>4, SameConversation
     DEF Talk!Hear, Chat07!Hear, Present07, Present
<1>5. CASE Talk!Leave
  <2>1. Chat07!Leave
    BY <1>1, <1>5 DEF Talk!Leave, Chat07!Leave, Present07, Present
  <2> QED
    BY <2>1 DEF Chat07!ServiceNext
<1> QED
  BY <1>2, <1>3, <1>4, <1>5 DEF Talk!ServiceNext, Chat07!ServiceNext

\* A step of the chat server is one that example 10 takes, too, or one that
\* at most ends it.
LEMMA ChatServes07 ==
  ASSUME ConversationInv, UpIsOpen, TypeOK', UpIsOpen',
         program = "chat", Next07
  PROVE  Chat07!ServiceNext
<1>0. IInv /\ TypeOK /\ program' = program
  BY DEF ConversationInv, ChatInv, IInv, Next07, Step07, Peers07
<1>1. SUFFICES Talk!ServiceNext \/ UNCHANGED Talk!chatVars
  <2>1. CASE UNCHANGED Talk!chatVars
    <3>1. Talk!Leave
      BY <2>1 DEF Talk!chatVars, Talk!Leave
    <3> QED
      BY <1>0, <3>1, TalkIsChat07 DEF Talk!ServiceNext
  <2> QED
    BY <1>0, <2>1, TalkIsChat07
<1>2. CASE (StaysOpen \/ End07) /\ UNCHANGED <<clients, log, joined>>
  <2>1. /\ UNCHANGED <<peer, received, log, joined>> /\ Running
        /\ \A f \in Fd : handlers'[f] \in {handlers[f], NoConn}
        /\ \A c \in Conn : isOpen'[c] => isOpen[c]
    BY <1>2, OnlyRunningMoves07
       DEF StaysOpen, End07, Exit, EndServing, sockVars, peerVars
  <2>2. Talk!Leave
    BY <1>0, <2>1, OthersLeave
  <2> QED
    BY <2>2 DEF Talk!ServiceNext
<1>3. CASE ChatNext
  BY <1>3, TalkStep
<1>4. CASE Quiet07 /\ UNCHANGED <<clients, log, joined>>
  BY <1>2, <1>3, <1>4, Quiet07Kinds, CommonIsQuiet DEF ChatNext, ChatStep
<1>5. CASE (\E f \in Fd : OnOpen(f)) \/ OnClose \/ OnRead07
  BY <1>3, <1>5 DEF OnOpen, OnClose, OnRead07, ChatNext, ChatStep
<1>6. CASE Peers07
  BY <1>3, <1>6 DEF Peers07, ChatNext, Environment
<1> QED
  BY <1>4, <1>5, <1>6 DEF Next07, Step07

LEMMA ChatIdle07 ==
  ASSUME program = "echo", Next07
  PROVE  Chat07!ServiceNext
<1>1. program' = program /\ UNCHANGED <<log, joined>>
  BY DEF Next07, Step07, Peers07, OnOpen, OnClose, OnRead07, EchoOnRead07
<1>2. Mine("chat", received)' = Mine("chat", received)
  BY <1>1 DEF Mine
<1>3. Chat07!Leave
  BY <1>1, <1>2 DEF Chat07!Leave
<1> QED
  BY <1>3 DEF Chat07!ServiceNext

LEMMA ChatServiceStep07 ==
  Inv07 /\ Inv07' /\ UpIsOpen /\ UpIsOpen' /\ [Next07]_vars07
    => [Chat07!ServiceNext]_(Chat07!chatVars)
<1> SUFFICES ASSUME Inv07, Inv07', UpIsOpen, UpIsOpen', [Next07]_vars07
             PROVE  [Chat07!ServiceNext]_(Chat07!chatVars)
  OBVIOUS
<1>1. CASE Next07
  <2>1. TypeOK'
    BY DEF Inv07, EchoInv, ConversationInv, ChatInv, IInv
  <2> QED
    BY <1>1, <2>1, ChatServes07, ChatIdle07 DEF Inv07
<1>2. CASE UNCHANGED vars07
  BY <1>2 DEF vars07, chatVars, vars, sockVars, peerVars, loopVars, regVars,
              Running, RegisteredConn, Registered, Live, Chat07!chatVars, Mine
<1> QED
  BY <1>1, <1>2

\* As long as it runs, the chat server of example 07 keeps one conversation
\* for everyone, whatever its reads and writes throw.
THEOREM ChatKeepsService07 == Spec07 => Chat07!ServiceSafety
<1>1. Init07 => Chat07!ServiceInit
  BY NoConnAssumption
     DEF Init07, ChatInit, Init, SocketsInit, Chat07!ServiceInit, Mine,
         RegisteredConn, Registered, Live
<1> QED
  BY <1>1, Always07, AlwaysUpIsOpen, ChatServiceStep07, PTL DEF Spec07, Chat07!ServiceSafety
=============================================================================
