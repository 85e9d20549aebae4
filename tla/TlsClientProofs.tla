-------------------------- MODULE TlsClientProofs --------------------------
(***************************************************************************)
(* Proofs about the client of example 10, with and without TLS.  The       *)
(* invariant says what is in hand while a handler is served, what a        *)
(* session with TLS has heard and said, what may be queued when the user   *)
(* sits at a terminal, and where each unit is that was typed or said.      *)
(***************************************************************************)
EXTENDS TlsClient, BufferProofs

\* A handler is served for what it can do, nothing is in hand when it is left,
\* and what is open can be found by its number.
InUse ==
  /\ phase \notin {"read", "deliver"} => rq = <<>>
  /\ phase \in {"read", "deliver"} => cur \in Source
  /\ phase = "write" => cur \in Sink
  /\ \A h \in Handler : /\ "IN" \in pending[h] => h \in Source
                        /\ "OUT" \in pending[h] => h \in Sink
  /\ phase # "connect" => \A h \in Handler : isOpen[h] => h \in handlers

OnTls == state # "START"

Shaken == OnTls /\ ssl \in {"finished", "ok"}

HasFlight == \E i \in DOMAIN given["socket"] : given["socket"][i] = Flight

\* The server's part of the handshake comes first, and then its data; nothing
\* is read and nothing printed before the handshake has come so far.
Session ==
  /\ Len(input["socket"]) <= Len(given["socket"])
  /\ ssl = "failed" => ~isOpen["socket"]
  /\ OnTls => \A i \in DOMAIN given["socket"] :
                i > 1 => given["socket"][i] \in Data \cup {Bye}
  /\ Shaken => /\ \A i \in DOMAIN input["socket"] :
                    input["socket"][i] \in Data \cup {Bye}
               /\ Len(input["socket"]) < Len(given["socket"])
  /\ Shaken \/ state \in {"DATA", "SHUTDOWN", "STOP"} => HasFlight
  /\ state = "HANDSHAKE" =>
       /\ ssl \in {"hello", "flight"} => input["socket"] = given["socket"]
       /\ cur = "socket" => rq = <<>>
       /\ wq["stdout"] = <<>> /\ taken["stdout"] = <<>> /\ output["stdout"] = <<>>

\* A terminal gives one line at a time, and CLOSE is never queued.
Terminal ==
  tty =>
    /\ cur = "stdin" => \A i \in DOMAIN rq : Len(rq[i]) = 1
    /\ isOpen["socket"] =>
         /\ \A i \in DOMAIN wq["socket"] : \A j \in DOMAIN wq["socket"][i] :
              wq["socket"][i][j] # Close
         /\ \A j \in DOMAIN Out("socket") : Out("socket")[j] # Close

\* No more data was sent than was typed, also when the connection is over.
NotAhead ==
  \A j \in DOMAIN Out("socket") :
    Out("socket")[j] \in Data => j <= Len(given["stdin"]) + Len(Opening)

Up == isOpen["socket"] /\ "socket" \notin gone => TypedIsOnItsWay

Down ==
  isOpen["stdout"] /\ "stdout" \notin gone /\ ("socket" \in gone => state = "START")
    /\ ~CutShort
    => SaidIsOnItsWay

BaseInv == TlsClientTypeOK /\ InUse

ClientInv ==
  /\ BaseInv
  /\ Session
  /\ StrangersGetNothing
  /\ Terminal
  /\ NotAhead /\ CloseIsLast
  /\ Up
  /\ Down

-----------------------------------------------------------------------------
(* The parts of steps.                                                     *)

LEMMA Ends ==
  /\ Handler = {"stdin", "socket", "stdout"}
  /\ Source = {"stdin", "socket"} /\ Sink = {"socket", "stdout"}
  /\ "stdin" \in Source /\ "socket" \in Source /\ "stdin" \notin Sink
  /\ "socket" \in Sink /\ "stdout" \in Sink /\ "stdout" \notin Source
  /\ Source \subseteq Handler /\ Sink \subseteq Handler
BY DEF Handler, Source, Sink

LEMMA Kinds ==
  /\ \A u \in Protocol : u \in Unit /\ u \notin Data /\ u # Close
  /\ Hello \in Protocol /\ Finished \in Protocol /\ Flight \in Protocol
  /\ Bye \in Protocol /\ Alert \in Protocol
  /\ Data \subseteq Unit
BY ClientProtocolAssumption DEF Protocol, Data

LEMMA EmitType ==
  ASSUME ClientTypeOK, NEW u \in Unit, Emit(u)
  PROVE  /\ output' \in [Sink -> Seq(Unit)]
         /\ output'["socket"] = Append(output["socket"], u)
         /\ output'["stdout"] = output["stdout"]
BY Ends DEF Emit, ClientTypeOK

LEMMA TakeType ==
  ASSUME ClientTypeOK, Received # <<>>, TakeRecord
  PROVE  /\ input' \in [Source -> Seq(Unit)]
         /\ input'["socket"] = Tail(input["socket"])
         /\ input'["stdin"] = input["stdin"]
         /\ Head(input["socket"]) \in Unit
<1>1. input["socket"] \in Seq(Unit) /\ input["socket"] # <<>>
  BY Ends DEF ClientTypeOK, Received
<1>2. Tail(input["socket"]) \in Seq(Unit) /\ Head(input["socket"]) \in Unit
  BY <1>1
<1> QED
  BY <1>2, Ends DEF TakeRecord, ClientTypeOK

LEMMA DropType ==
  ASSUME ClientTypeOK, Dropped
  PROVE  /\ isOpen' \in [Handler -> BOOLEAN] /\ ~isOpen'["socket"]
         /\ \A h \in Handler : isOpen'[h] => isOpen[h]
         /\ pending' \in [Handler -> SUBSET {"IN", "OUT"}]
         /\ \A h \in Handler : pending'[h] \subseteq pending[h]
BY Ends DEF Dropped, ClientTypeOK

\* Where a call of the stream leaves the loop.
LEMMA BackType ==
  ASSUME ClientTypeOK, InStream, Back
  PROVE  /\ phase' \in {"deliver", "dispatch"} /\ UNCHANGED <<cur, handlers, wq>>
         /\ phase' = "deliver" <=> phase = "read"
BY DEF Back

LEMMA BlockedType ==
  ASSUME ClientTypeOK, InStream, Blocked
  PROVE  /\ phase' \in {"deliver", "dispatch"} /\ UNCHANGED <<cur, handlers, wq>>
         /\ phase' = "deliver" <=> phase = "read"
         /\ UNCHANGED <<rq, isOpen>>
         /\ pending' \in [Handler -> SUBSET {"IN", "OUT"}]
         /\ \A h \in Handler : pending'[h] \subseteq pending[h]
BY BackType, Ends DEF Blocked, ClientTypeOK

LEMMA RestType ==
  ASSUME NEW q \in Seq(Buf), q # <<>>, NEW n \in Nat, n <= Len(Head(q))
  PROVE  /\ Rest(Head(q), n) \o Tail(q) = Left(q, n)
         /\ Left(q, n) \in Seq(Buf)
<1>1. Head(q) \in Buf /\ Tail(q) \in Seq(Buf)
  BY HeadTailProperties
<1>2. Head(q) \in Seq(Unit) /\ Len(Head(q)) \in Nat
  BY <1>1 DEF Buf
<1>3. CASE n = Len(Head(q))
  <2>1. <<>> \o Tail(q) = Tail(q)
    BY <1>1
  <2> QED
    BY <1>1, <1>3, <2>1 DEF Rest, Left
<1>4. CASE n # Len(Head(q))
  <2> DEFINE b == SubSeq(Head(q), n + 1, Len(Head(q)))
  <2>1. b \in Seq(Unit) /\ Len(b) = Len(Head(q)) - n
    BY <1>2, CutSeq
  <2> HIDE DEF b
  <2>2. b \in Buf
    BY <1>2, <1>4, <2>1, SMTT(30) DEF Buf
  <2>3. <<b>> \o Tail(q) \in Seq(Buf)
    BY <1>1, <2>2
  <2> QED
    BY <1>4, <2>3 DEF Rest, Left, b
<1> QED
  BY <1>3, <1>4

-----------------------------------------------------------------------------
(* Types, and what is in hand.                                             *)

LEMMA ExitBase ==
  ASSUME BaseInv, NEW how \in Ended, Exit(how), UNCHANGED <<state, ssl>>,
         stalled' \in BOOLEAN, closed' \in BOOLEAN
  PROVE  BaseInv'
<1>1. ClientTypeOK'
  BY Ends DEF BaseInv, TlsClientTypeOK, ClientTypeOK, Exit, worldVars, NoEvents, Ended
<1>2. ~isOpen'["socket"]
  BY Ends DEF Exit
<1>3. InUse'
  BY Ends DEF BaseInv, InUse, Exit, NoEvents, Ended
<1> QED
  BY <1>1, <1>2, <1>3 DEF BaseInv, TlsClientTypeOK

\* A read takes at least one unit of what is there.
LEMMA ChunkIs ==
  ASSUME ClientTypeOK, cur \in Source, input[cur] # <<>>
  PROVE  /\ ChunkLen \in 1 .. Len(input[cur])
         /\ tty /\ cur = "stdin" => ChunkLen = 1
<1>1. Len(input[cur]) \in Nat /\ Len(input[cur]) # 0
  BY DEF ClientTypeOK
<1>2. CASE tty /\ cur = "stdin"
  BY <1>1, <1>2 DEF ChunkLen
<1>3. CASE ~(tty /\ cur = "stdin")
  <2>1. Min({ReadBuf, Len(input[cur])}) \in {ReadBuf, Len(input[cur])}
        /\ Min({ReadBuf, Len(input[cur])}) <= Len(input[cur])
    <3>1. \E m \in {ReadBuf, Len(input[cur])} :
            \A y \in {ReadBuf, Len(input[cur])} : m <= y
      BY <1>1, ClientBufAssumption
    <3>2. Min({ReadBuf, Len(input[cur])}) \in {ReadBuf, Len(input[cur])}
          /\ \A y \in {ReadBuf, Len(input[cur])} :
               Min({ReadBuf, Len(input[cur])}) <= y
      BY <3>1, Zenon DEF Min
    <3> QED
      BY <3>2
  <2> QED
    BY <1>1, <1>3, <2>1, ClientBufAssumption DEF ChunkLen
<1> QED
  BY <1>2, <1>3

LEMMA WriteLen ==
  ASSUME ClientTypeOK, CanWrite, cur \in Sink, Room(cur) > 0
  PROVE  /\ wq[cur] \in Seq(Buf) /\ wq[cur] # <<>>
         /\ Head(wq[cur]) \in Buf /\ Head(wq[cur]) \in Seq(Unit)
         /\ Len(Head(wq[cur])) \in Nat
         /\ Min({Len(Head(wq[cur])), WriteBuf, Room(cur)})
              \in 1 .. Len(Head(wq[cur]))
<1>1. wq[cur] \in Seq(Buf) /\ wq[cur] # <<>>
  BY DEF ClientTypeOK, CanWrite
<1>2. Head(wq[cur]) \in Buf
  BY <1>1, HeadTailProperties
<1>3. Len(Head(wq[cur])) \in Nat /\ Len(Head(wq[cur])) # 0
  BY <1>2 DEF Buf
<1>4. Room(cur) \in Nat /\ Room(cur) # 0
  BY ClientBufAssumption DEF Room, ClientTypeOK
<1> DEFINE l == Len(Head(wq[cur]))
           r == Room(cur)
           S == {l, WriteBuf, r}
<1>5. l \in Nat \ {0} /\ r \in Nat \ {0} /\ WriteBuf \in Nat \ {0}
  BY <1>3, <1>4, ClientBufAssumption
<1> HIDE DEF l, r
<1>6. \E m \in S : \A y \in S : m <= y
  BY <1>5
<1>7. Min(S) \in S /\ \A y \in S : Min(S) <= y
  BY <1>6, Zenon DEF Min
<1>8. Min(S) \in 1 .. l
  BY <1>5, <1>7
<1> QED
  BY <1>1, <1>2, <1>3, <1>8 DEF l, r, Buf

\* What a session may lose that is reset, or that is closed by the server
\* while a record is pending: it was read from the socket.
Drops ==
  /\ rq' = <<>> /\ cur' = cur
  /\ cur = "socket" /\ OnTls
  /\ "socket" \in gone \/ CutShort

\* The steps that move no unit.
Quiet ==
  /\ UNCHANGED <<wq, tty, input, output, gone, given, taken, state>>
  /\ stalled => stalled'
  /\ \A h \in Handler : isOpen'[h] => isOpen[h]
  /\ ssl' = ssl \/ (ssl' = "failed" /\ ~isOpen'["socket"])
  /\ (rq' = rq /\ (cur' = cur \/ rq = <<>>)) \/ Drops

\* The steps of the plain client that move none.
QuietStep ==
  \/ Connect \/ Poll \/ (\E h \in Handler : Dispatch(h)) \/ DispatchDone
  \/ ReadBlocked \/ ReadEnds \/ Delivered
  \/ WriteBlocked \/ WriteFault \/ WriteEnds

LEMMA ReadyType ==
  /\ Ready("stdin") \subseteq {"IN"} /\ Ready("stdout") \subseteq {"OUT"}
  /\ \A h \in Handler : Ready(h) \in SUBSET {"IN", "OUT"}
BY Ends DEF Ready

LEMMA QuietStepBase ==
  ASSUME BaseInv, QuietStep, UNCHANGED <<state, ssl, stalled>>
  PROVE  ClientTypeOK' /\ InUse' /\ Quiet
<1> USE Ends
<1>0. ClientTypeOK /\ InUse
  BY DEF BaseInv, TlsClientTypeOK
<1>1. CASE Connect
  BY <1>0, <1>1 DEF Connect, ClientTypeOK, InUse, Quiet, worldVars
<1>2. CASE Poll
  <2>1. /\ pending' \in [Handler -> SUBSET {"IN", "OUT"}]
        /\ \A h \in Handler : pending'[h] = Ready(h)
    BY <1>2, ReadyType DEF Poll
  <2>2. \A h \in Handler : /\ "IN" \in pending'[h] => h \in Source
                           /\ "OUT" \in pending'[h] => h \in Sink
    BY <2>1, ReadyType
  <2> QED
    BY <1>0, <1>2, <2>1, <2>2 DEF Poll, ClientTypeOK, InUse, Quiet, worldVars, Serving
<1>3. ASSUME NEW h \in Handler, Dispatch(h) PROVE ClientTypeOK' /\ InUse' /\ Quiet
  <2>1. pending[h] \in SUBSET {"IN", "OUT"} /\ pending[h] # {}
    BY <1>0, <1>3 DEF Dispatch, ClientTypeOK
  <2>2. /\ phase' \in {"read", "write"} /\ cur' = h /\ rq = <<>>
        /\ phase' = "read" => h \in Source
        /\ phase' = "write" => h \in Sink
    BY <1>0, <1>3, <2>1 DEF Dispatch, InUse
  <2> QED
    BY <1>0, <1>3, <2>2
       DEF Dispatch, ClientTypeOK, InUse, Quiet, worldVars, Serving
<1>4. CASE DispatchDone
  BY <1>0, <1>4 DEF DispatchDone, ClientTypeOK, InUse, Quiet, worldVars
<1>5. CASE ReadBlocked
  BY <1>0, <1>5 DEF ReadBlocked, ClientTypeOK, InUse, Quiet, worldVars, Serving
<1>6. CASE ReadEnds
  BY <1>0, <1>6 DEF ReadEnds, ClientTypeOK, InUse, Quiet, worldVars, Serving
<1>7. CASE Delivered
  BY <1>0, <1>7 DEF Delivered, ClientTypeOK, InUse, Quiet, worldVars, Serving
<1>8. CASE WriteBlocked
  BY <1>0, <1>8 DEF WriteBlocked, WriteReturns, CanWrite, ClientTypeOK, InUse,
                    Quiet, worldVars
<1>9. CASE WriteFault
  BY <1>0, <1>9 DEF WriteFault, WriteReturns, CanWrite, ClientTypeOK, InUse,
                    Quiet, worldVars
<1>10. CASE WriteEnds
  BY <1>0, <1>10 DEF WriteEnds, WriteReturns, ClientTypeOK, InUse, Quiet, worldVars
<1> QED
  BY <1>1, <1>2, <1>3, <1>4, <1>5, <1>6, <1>7, <1>8, <1>9, <1>10 DEF QuietStep

\* Reads, on_read and writes of the plain client.
LEMMA ReadSomeBase ==
  ASSUME BaseInv, ReadSome
  PROVE  ClientTypeOK' /\ InUse'
<1> USE Ends
<1>0. ClientTypeOK /\ InUse
  BY DEF BaseInv, TlsClientTypeOK
<1> DEFINE b == SubSeq(input[cur], 1, ChunkLen)
           rest == SubSeq(input[cur], ChunkLen + 1, Len(input[cur]))
<1>1. cur \in Source /\ input[cur] # <<>> /\ input[cur] \in Seq(Unit)
  BY <1>0 DEF ReadSome, InUse, ClientTypeOK
<1>2. ChunkLen \in 1 .. Len(input[cur])
  BY <1>0, <1>1, ChunkIs
<1>3. b \in Seq(Unit) /\ Len(b) = ChunkLen /\ rest \in Seq(Unit) /\ ChunkLen # 0
  BY <1>1, <1>2, CutSeq
<1>4. rq' = Append(rq, b) /\ input' = [input EXCEPT ![cur] = rest]
  BY DEF ReadSome
<1> HIDE DEF b, rest
<1>5. b \in Buf
  BY <1>3 DEF Buf
<1>6. rq' \in Seq(Buf) /\ input' \in [Source -> Seq(Unit)]
  <2>1. rq \in Seq(Buf) /\ input \in [Source -> Seq(Unit)]
    BY <1>0 DEF ClientTypeOK
  <2>2. rq' \in Seq(Buf)
    BY <1>4, <1>5, <2>1
  <2>3. input' \in [Source -> Seq(Unit)]
    BY <1>3, <1>4, <2>1
  <2> QED
    BY <2>2, <2>3
<1> QED
  BY <1>0, <1>6 DEF ReadSome, ClientTypeOK, InUse

LEMMA OnReadBase ==
  ASSUME BaseInv, OnRead
  PROVE  ClientTypeOK' /\ InUse'
<1> USE Ends
<1>0. ClientTypeOK /\ InUse
  BY DEF BaseInv, TlsClientTypeOK
<1>1. rq \in Seq(Buf) /\ rq # <<>> /\ Head(rq) \in Buf /\ Tail(rq) \in Seq(Buf)
  BY <1>0, HeadTailProperties DEF OnRead, ClientTypeOK
<1>2. wq' \in [Sink -> Seq(Buf)]
  <2>1. \A s \in Sink : wq[s] \in Seq(Buf) /\ Append(wq[s], Head(rq)) \in Seq(Buf)
    BY <1>0, <1>1 DEF ClientTypeOK
  <2> QED
    BY <2>1 DEF OnRead
<1>3. /\ isOpen' \in [Handler -> BOOLEAN]
      /\ \A h \in Handler : isOpen'[h] => isOpen[h]
  BY <1>0 DEF OnRead, ClientTypeOK
<1> QED
  BY <1>0, <1>1, <1>2, <1>3 DEF OnRead, ClientTypeOK, InUse, worldVars

LEMMA WriteSomeBase ==
  ASSUME BaseInv, WriteSome
  PROVE  ClientTypeOK' /\ InUse'
<1> USE Ends
<1>0. ClientTypeOK /\ InUse /\ cur \in Sink
  BY DEF BaseInv, TlsClientTypeOK, WriteSome, CanWrite, InUse
<1> DEFINE buf == Head(wq[cur])
           n == Min({Len(buf), WriteBuf, Room(cur)})
<1>1. /\ wq[cur] \in Seq(Buf) /\ wq[cur] # <<>> /\ buf \in Seq(Unit)
      /\ n \in 1 .. Len(buf)
  BY <1>0, WriteLen DEF WriteSome
<1>2. /\ output' = [output EXCEPT ![cur] = @ \o SubSeq(buf, 1, n)]
      /\ wq' = [wq EXCEPT ![cur] = Rest(buf, n) \o Tail(@)]
  BY DEF WriteSome
<1> HIDE DEF n
<1>3. Rest(buf, n) \o Tail(wq[cur]) \in Seq(Buf)
  <2>1. n \in Nat /\ n <= Len(Head(wq[cur]))
    BY <1>1
  <2> HIDE DEF buf
  <2>2. /\ Rest(Head(wq[cur]), n) \o Tail(wq[cur]) = Left(wq[cur], n)
        /\ Left(wq[cur], n) \in Seq(Buf)
    BY <1>1, <2>1, RestType
  <2> QED
    BY <2>2 DEF buf
<1>4. SubSeq(buf, 1, n) \in Seq(Unit)
  BY <1>1, CutSeq
<1> HIDE DEF buf
<1>5. output' \in [Sink -> Seq(Unit)] /\ wq' \in [Sink -> Seq(Buf)]
  <2>1. output \in [Sink -> Seq(Unit)] /\ wq \in [Sink -> Seq(Buf)]
    BY <1>0 DEF ClientTypeOK
  <2>2. output[cur] \o SubSeq(buf, 1, n) \in Seq(Unit)
    BY <1>0, <1>4, <2>1
  <2> QED
    BY <1>0, <1>2, <1>3, <2>1, <2>2
<1> QED
  BY <1>0, <1>5 DEF WriteSome, CanWrite, ClientTypeOK, InUse

LEMMA OtherBase ==
  ASSUME BaseInv, OtherStep
  PROVE  BaseInv'
<1>1. /\ closed' = (closed \/ Closes) /\ UNCHANGED <<state, ssl, stalled>>
      /\ TlsClientTypeOK /\ InUse
  BY DEF OtherStep, BaseInv
<1>2. ASSUME ClientTypeOK', InUse', \A h \in Handler : isOpen'[h] => isOpen[h]
      PROVE  BaseInv'
  <2>1. closed' \in BOOLEAN
    BY <1>1, Zenon DEF TlsClientTypeOK, Closes
  <2>2. (state' = "STOP" \/ closed') => ~isOpen'["socket"]
    BY <1>1, <1>2, Ends DEF TlsClientTypeOK, Closes
  <2> QED
    BY <1>1, <1>2, <2>1, <2>2 DEF BaseInv, TlsClientTypeOK
<1>3. ASSUME NEW how \in Ended, Exit(how) PROVE BaseInv'
  <2>1. closed' \in BOOLEAN
    BY <1>1, Zenon DEF TlsClientTypeOK, Closes
  <2>2. stalled' \in BOOLEAN
    BY <1>1 DEF TlsClientTypeOK
  <2> QED
    BY <1>1, <1>3, <2>1, <2>2, ExitBase
<1>4. CASE QuietStep
  BY <1>1, <1>2, <1>4, QuietStepBase DEF Quiet
<1>5. CASE ReadSome
  BY <1>2, <1>5, ReadSomeBase DEF ReadSome
<1>6. CASE OnRead
  BY <1>2, <1>6, OnReadBase, Ends DEF OnRead
<1>7. CASE WriteSome
  BY <1>2, <1>7, WriteSomeBase DEF WriteSome
<1> QED
  BY <1>3, <1>4, <1>5, <1>6, <1>7
     DEF OtherStep, Step, QuietStep, ConnectFails, WriteSigpipe, Ended

-----------------------------------------------------------------------------
(* The calls of a stream with TLS.                                         *)

\* What a call of read or write that returns does to the program.
Returns ==
  /\ phase' \in {"deliver", "dispatch"} /\ UNCHANGED <<cur, handlers, wq>>
  /\ phase' = "deliver" => phase = "read"
  /\ phase' = "dispatch" => rq' = <<>>
  /\ rq' \in {rq, <<>>}
  /\ isOpen' \in [Handler -> BOOLEAN]
  /\ \A h \in Handler : isOpen'[h] => isOpen[h]
  /\ pending' \in [Handler -> SUBSET {"IN", "OUT"}]
  /\ \A h \in Handler : pending'[h] \subseteq pending[h]

LEMMA CallReturns ==
  ASSUME BaseInv, InStream, Blocked \/ Eof \/ Throw
  PROVE  Returns
<1>0. ClientTypeOK /\ InUse /\ (phase = "read" \/ rq = <<>>)
  BY DEF BaseInv, TlsClientTypeOK, InUse, InStream, CanWrite
<1>1. CASE Blocked
  BY <1>0, <1>1, BlockedType DEF Returns, ClientTypeOK
<1>2. CASE Eof
  BY <1>0, <1>2, DropType, BackType DEF Eof, Returns
<1>3. CASE Throw
  BY <1>0, <1>3, DropType DEF Throw, Returns
<1> QED
  BY <1>1, <1>2, <1>3

\* The world's part of a call.
Records ==
  /\ input' \in [Source -> Seq(Unit)] /\ output' \in [Sink -> Seq(Unit)]
  /\ UNCHANGED <<tty, over, gone, given, taken, closed>>

SslTypes ==
  /\ state' \in FirstStates \cup {"DATA", "SHUTDOWN", "STOP"}
  /\ ssl' \in Answering \cup {"flight", "ok", "failed"}
  /\ state' \in {"DATA", "SHUTDOWN", "STOP"} => ssl' \in {"ok", "failed"}
  /\ state' = "STOP" => ~isOpen'["socket"]
  /\ stalled' \in BOOLEAN

LEMMA ReturnBase ==
  ASSUME BaseInv, InStream, Returns, Records, SslTypes
  PROVE  BaseInv'
<1> USE Ends
<1>0. TlsClientTypeOK /\ ClientTypeOK /\ InUse /\ cur = "socket"
  BY DEF BaseInv, TlsClientTypeOK, InStream
<1>1. rq' \in Seq(Buf)
  <2>1. <<>> \in Seq(Buf) /\ rq \in Seq(Buf)
    BY <1>0 DEF ClientTypeOK
  <2> QED
    BY <2>1 DEF Returns
<1>2. ClientTypeOK'
  BY <1>0, <1>1 DEF Returns, Records, ClientTypeOK, Serving
<1>3. InUse'
  <2>1. phase' \notin {"read", "deliver"} => rq' = <<>>
    BY <1>0 DEF Returns
  <2>2. \A h \in Handler : /\ "IN" \in pending'[h] => h \in Source
                           /\ "OUT" \in pending'[h] => h \in Sink
    BY <1>0 DEF Returns, InUse
  <2>3. phase # "connect"
    BY DEF InStream, CanWrite
  <2>4. \A h \in Handler : isOpen'[h] => h \in handlers'
    BY <1>0, <2>3 DEF Returns, InUse
  <2> QED
    BY <1>0, <2>1, <2>2, <2>4 DEF Returns, InUse
<1>4. closed' => ~isOpen'["socket"]
  BY <1>0 DEF Returns, Records, TlsClientTypeOK
<1>5. closed' \in BOOLEAN
  BY <1>0 DEF Records, TlsClientTypeOK
<1> QED
  BY <1>2, <1>3, <1>4, <1>5 DEF BaseInv, TlsClientTypeOK, SslTypes

StreamQuiet ==
  \/ HandshakeBlocked \/ HandshakeFault
  \/ ReadWouldBlock \/ ReadFault
  \/ WriteWouldBlock \/ WriteFails
  \/ ShutdownBlocked \/ ShutdownFails

LEMMA StreamQuietBase ==
  ASSUME BaseInv, StreamQuiet
  PROVE  BaseInv' /\ Quiet
<1>0. TlsClientTypeOK /\ ClientTypeOK
  BY DEF BaseInv, TlsClientTypeOK
<1>1. /\ InStream /\ UNCHANGED <<worldVars, state, closed>>
      /\ stalled' = stalled \/ stalled' = TRUE
      /\ Blocked \/ Eof \/ (Throw /\ ("socket" \in gone \/ CutShort))
      /\ \/ ssl' = ssl
         \/ ssl' = "failed" /\ state = "DATA" /\ (Eof \/ Throw)
  BY DEF StreamQuiet, HandshakeBlocked, HandshakeFault, ReadWouldBlock, ReadFault,
         WriteWouldBlock, WriteFails, ShutdownBlocked, ShutdownFails, InCall,
         Reading, Sending, Reset, CutShort, tlsVars
<1>2. Returns
  BY <1>1, CallReturns
<1>3. Records
  BY <1>0, <1>1 DEF Records, worldVars, ClientTypeOK
<1>4. SslTypes
  BY <1>0, <1>1, <1>2, Ends
     DEF SslTypes, TlsClientTypeOK, Returns, FirstStates, Answering
<1>5. BaseInv'
  BY <1>1, <1>2, <1>3, <1>4, ReturnBase
<1>6. ssl' = ssl \/ (ssl' = "failed" /\ ~isOpen'["socket"])
  BY <1>0, <1>1, DropType DEF Eof, Throw
<1>7. (rq' = rq /\ (cur' = cur \/ rq = <<>>)) \/ Drops
  BY <1>1, <1>2 DEF Returns, Drops, InStream, OnTls, Blocked, Eof, Throw
<1> QED
  BY <1>1, <1>2, <1>5, <1>6, <1>7 DEF Quiet, Returns, worldVars

\* The steps that end or break off a call and take or make a record.
LEMMA FatalBase ==
  ASSUME BaseInv,
         \/ HandshakeFatal
         \/ ReadFatal
         \/ ShutdownDone
  PROVE  /\ BaseInv' /\ InStream /\ Returns /\ Records /\ ~isOpen'["socket"]
         /\ rq' = rq \/ (HandshakeFatal /\ rq' = <<>>)
         /\ state' = state \/ (state = "SHUTDOWN" /\ state' = "STOP")
         /\ (ssl' = ssl \/ ssl' = "failed")
         /\ \/ output' = output
            \/ \E u \in {Alert, Bye} : Emit(u)
         /\ \/ input' = input
            \/ Received # <<>> /\ TakeRecord /\ ~ShutdownDone
<1>0. TlsClientTypeOK /\ ClientTypeOK
  BY DEF BaseInv, TlsClientTypeOK
<1>1. /\ InStream /\ UNCHANGED <<tty, over, gone, given, taken, stalled, closed>>
      /\ (Eof /\ ~HandshakeFatal) \/ (Throw /\ HandshakeFatal)
      /\ \/ state' = state /\ ssl' = "failed" /\ state \in {"HANDSHAKE", "DATA"}
         \/ state = "SHUTDOWN" /\ state' = "STOP" /\ ssl' = ssl
      /\ \/ output' = output
         \/ \E u \in {Alert, Bye} : Emit(u)
      /\ \/ input' = input
         \/ Received # <<>> /\ TakeRecord /\ ~ShutdownDone
  BY DEF HandshakeFatal, ReadFatal, ShutdownDone, Fatal, InCall, Reading, Throw,
         Eof, Back
<1>2. Returns /\ ~isOpen'["socket"]
  BY <1>0, <1>1, CallReturns, DropType DEF Eof, Throw
<1>3. Records
  <2>1. output' \in [Sink -> Seq(Unit)]
    <3>1. CASE output' = output
      BY <1>0, <3>1 DEF ClientTypeOK
    <3>2. ASSUME NEW u \in {Alert, Bye}, Emit(u)
          PROVE  output' \in [Sink -> Seq(Unit)]
      <4>1. u \in Unit
        BY Kinds
      <4> QED
        BY <1>0, <3>2, <4>1, EmitType
    <3> QED
      BY <1>1, <3>1, <3>2
  <2>2. input' \in [Source -> Seq(Unit)]
    BY <1>0, <1>1, TakeType DEF ClientTypeOK
  <2> QED
    BY <1>1, <2>1, <2>2 DEF Records
<1>4. SslTypes
  BY <1>0, <1>1, <1>2 DEF SslTypes, TlsClientTypeOK, FirstStates, Answering
<1>5. BaseInv'
  BY <1>1, <1>2, <1>3, <1>4, ReturnBase
<1>6. rq' = rq \/ (HandshakeFatal /\ rq' = <<>>)
  BY <1>1 DEF Eof, Throw
<1> QED
  BY <1>1, <1>2, <1>3, <1>5, <1>6

LEMMA SingleIsBuf == \A u \in Unit : <<u>> \in Buf
BY DEF Buf

\* The steps within a call.
LEMMA HandshakeBase ==
  ASSUME BaseInv, HandshakeWrite \/ HandshakeRead \/ ReadBye
  PROVE  BaseInv'
<1> USE Ends
<1>0. TlsClientTypeOK /\ ClientTypeOK /\ InUse
  BY DEF BaseInv, TlsClientTypeOK
<1>1. UNCHANGED <<progVars, tty, over, gone, given, taken, stalled, closed>>
  BY DEF HandshakeWrite, HandshakeRead, ReadBye
<1>2. output' \in [Sink -> Seq(Unit)] /\ input' \in [Source -> Seq(Unit)]
  <2>1. CASE HandshakeWrite
    <3>1. PICK u \in {Hello, Finished} : Emit(u)
      BY <2>1 DEF HandshakeWrite
    <3>2. u \in Unit
      BY Kinds
    <3> QED
      BY <1>0, <2>1, <3>1, <3>2, EmitType DEF HandshakeWrite, ClientTypeOK
  <2>2. CASE HandshakeRead \/ ReadBye
    <3>1. Received # <<>> /\ TakeRecord /\ output' = output
      BY <2>2 DEF HandshakeRead, ReadBye, Verified, Begins
    <3> QED
      BY <1>0, <3>1, TakeType DEF ClientTypeOK
  <2> QED
    BY <2>1, <2>2
<1>3. SslTypes /\ state' # "STOP"
  BY <1>0 DEF HandshakeWrite, HandshakeRead, ReadBye, SslTypes, TlsClientTypeOK,
              FirstStates, Answering, InCall, Reading
<1>4. ClientTypeOK'
  BY <1>0, <1>1, <1>2 DEF progVars, ClientTypeOK
<1>5. InUse'
  BY <1>0, <1>1 DEF progVars, InUse
<1> QED
  BY <1>0, <1>1, <1>3, <1>4, <1>5
     DEF BaseInv, TlsClientTypeOK, SslTypes, progVars

LEMMA ReadRecordBase ==
  ASSUME BaseInv, ReadRecord
  PROVE  /\ BaseInv' /\ Head(input["socket"]) \in Unit
         /\ rq' = Append(rq, <<Head(input["socket"])>>)
         /\ input'["socket"] = Tail(input["socket"])
         /\ input'["stdin"] = input["stdin"]
<1> USE Ends
<1>0. TlsClientTypeOK /\ ClientTypeOK /\ InUse
  BY DEF BaseInv, TlsClientTypeOK
<1>1. Received # <<>> /\ TakeRecord /\ Received = input["socket"]
  BY DEF ReadRecord, Begins, Received
<1>2. /\ input' \in [Source -> Seq(Unit)]
      /\ input'["socket"] = Tail(input["socket"])
      /\ input'["stdin"] = input["stdin"]
      /\ Head(input["socket"]) \in Unit
  BY <1>0, <1>1, TakeType
<1>3. rq' = Append(rq, <<Head(input["socket"])>>)
  BY <1>1 DEF ReadRecord
<1>4. rq' \in Seq(Buf)
  <2>1. rq \in Seq(Buf) /\ <<Head(input["socket"])>> \in Buf
    BY <1>0, <1>2, SingleIsBuf DEF ClientTypeOK
  <2> QED
    BY <1>3, <2>1
<1>5. ClientTypeOK' /\ InUse'
  BY <1>0, <1>2, <1>4 DEF ReadRecord, Reading, ClientTypeOK, InUse
<1> QED
  BY <1>0, <1>2, <1>3, <1>5 DEF ReadRecord, tlsVars, BaseInv, TlsClientTypeOK

LEMMA WriteRecordBase ==
  ASSUME BaseInv, WriteRecord
  PROVE  /\ BaseInv' /\ cur = "socket"
         /\ wq["socket"] \in Seq(Buf) /\ wq["socket"] # <<>>
         /\ Head(wq["socket"]) \in Buf /\ Head(Head(wq["socket"])) \in Unit
         /\ wq'["socket"] = Left(wq["socket"], 1)
         /\ wq'["stdout"] = wq["stdout"]
         /\ output'["socket"]
              = output["socket"] \o SubSeq(Head(wq["socket"]), 1, 1)
         /\ output'["stdout"] = output["stdout"]
<1> USE Ends
<1>0. TlsClientTypeOK /\ ClientTypeOK /\ InUse
  BY DEF BaseInv, TlsClientTypeOK
<1> DEFINE q == wq["socket"]
<1>1. /\ cur = "socket" /\ q # <<>> /\ Emit(Head(Head(q)))
      /\ wq' = [wq EXCEPT !["socket"] = Rest(Head(@), 1) \o Tail(@)]
  BY DEF WriteRecord, Sending, CanWrite, InCall, InStream
<1>2. q \in Seq(Buf) /\ wq \in [Sink -> Seq(Buf)]
  BY <1>0 DEF ClientTypeOK
<1>3. wq'["socket"] = Rest(Head(q), 1) \o Tail(q) /\ wq'["stdout"] = wq["stdout"]
  BY <1>1, <1>2
<1>4. wq' = [wq EXCEPT !["socket"] = wq'["socket"]]
  BY <1>1, <1>2
<1> HIDE DEF q
<1>5. Head(q) \in Buf
  BY <1>1, <1>2, HeadTailProperties
<1>6. /\ Head(q) \in Seq(Unit) /\ Len(Head(q)) \in Nat /\ 1 <= Len(Head(q))
      /\ Head(Head(q)) \in Unit
  BY <1>5 DEF Buf
<1>7. /\ Rest(Head(q), 1) \o Tail(q) = Left(q, 1)
      /\ Left(q, 1) \in Seq(Buf)
  BY <1>1, <1>2, <1>6, RestType
<1>8. /\ output' \in [Sink -> Seq(Unit)]
      /\ output'["socket"] = Append(output["socket"], Head(Head(q)))
      /\ output'["stdout"] = output["stdout"]
  BY <1>0, <1>1, <1>6, EmitType
<1>9. SubSeq(Head(q), 1, 1) = <<Head(Head(q))>>
  <2>1. 1 \in 1 .. Len(Head(q)) /\ Head(Head(q)) = Head(q)[1]
    BY <1>6
  <2> QED
    BY <1>6, <2>1, FirstOf
<1>10. output'["socket"] = output["socket"] \o SubSeq(Head(q), 1, 1)
  <2>1. output["socket"] \in Seq(Unit)
    BY <1>0 DEF ClientTypeOK
  <2> QED
    BY <1>6, <1>8, <1>9, <2>1, AppendIsConcat
<1>11. wq' \in [Sink -> Seq(Buf)]
  BY <1>2, <1>3, <1>4, <1>7
<1>12. ClientTypeOK' /\ InUse'
  BY <1>0, <1>8, <1>11 DEF WriteRecord, Sending, CanWrite, ClientTypeOK, InUse
<1>13. BaseInv'
  BY <1>0, <1>12 DEF WriteRecord, tlsVars, BaseInv, TlsClientTypeOK
<1> QED
  BY <1>1, <1>2, <1>3, <1>5, <1>6, <1>7, <1>8, <1>10, <1>13 DEF q

LEMMA KilledBase ==
  ASSUME BaseInv, Exit("killed"), UNCHANGED tlsVars
  PROVE  BaseInv'
<1>1. /\ Exit("killed") /\ UNCHANGED <<state, ssl>>
      /\ stalled' \in BOOLEAN /\ closed' \in BOOLEAN
  BY DEF tlsVars, BaseInv, TlsClientTypeOK
<1> QED
  BY <1>1, ExitBase DEF Ended

LEMMA CleanupBase ==
  ASSUME BaseInv, TlsCleanup
  PROVE  BaseInv'
<1> USE Ends
<1>0. TlsClientTypeOK /\ ClientTypeOK /\ InUse
  BY DEF BaseInv, TlsClientTypeOK
<1>1. output' \in [Sink -> Seq(Unit)]
  BY <1>0 DEF TlsCleanup, worldVars, ClientTypeOK
<1>2. wq' \in [Sink -> Seq(Buf)]
  <2>1. <<>> \in Seq(Buf) /\ \A s \in Sink : wq[s] \in Seq(Buf)
    BY <1>0 DEF ClientTypeOK
  <2>2. wq' = [s \in Sink |-> IF isOpen[s] THEN wq[s] ELSE <<>>]
    BY DEF TlsCleanup, RemoveClosedHandlers
  <2> QED
    BY <2>1, <2>2
<1>3. handlers' = {h \in handlers : isOpen[h]} /\ phase = "cleanup" /\ phase' = "poll"
      /\ UNCHANGED <<cur, pending, isOpen, rq, tty, input, over, gone, given,
                     taken, tlsVars>>
  BY DEF TlsCleanup, RemoveClosedHandlers, worldVars
<1>4. ClientTypeOK'
  BY <1>0, <1>1, <1>2, <1>3 DEF ClientTypeOK
<1>5. InUse'
  BY <1>0, <1>3 DEF InUse
<1> QED
  BY <1>0, <1>3, <1>4, <1>5 DEF tlsVars, BaseInv, TlsClientTypeOK

LEMMA WorldBase ==
  ASSUME BaseInv, TlsWorld
  PROVE  BaseInv'
<1> USE Ends
<1>0. TlsClientTypeOK /\ ClientTypeOK /\ InUse
  BY DEF BaseInv, TlsClientTypeOK
<1>1. UNCHANGED <<progVars, tlsVars>>
  BY DEF TlsWorld, World
<1>2. /\ input' \in [Source -> Seq(Unit)] /\ given' \in [Source -> Seq(Unit)]
      /\ output' \in [Sink -> Seq(Unit)] /\ taken' \in [Sink -> Seq(Unit)]
      /\ over' \in SUBSET Source /\ gone' \in SUBSET Sink /\ tty' = tty
  <2>1. ASSUME NEW s \in Source, Arrive(s)
        PROVE  /\ input' \in [Source -> Seq(Unit)]
               /\ given' \in [Source -> Seq(Unit)]
    <3>1. PICK u \in Says[s][Len(given[s]) + 1] :
            /\ given' = [given EXCEPT ![s] = Append(@, u)]
            /\ input' = [input EXCEPT ![s] = Append(@, u)]
      BY <2>1 DEF Arrive
    <3>2. Len(given[s]) + 1 \in 1 .. MaxSend
      BY <1>0, <2>1, ClientSaysAssumption, SMTT(30) DEF Arrive, ClientTypeOK
    <3>3. u \in Unit
      BY <3>2, ClientSaysAssumption
    <3>4. given[s] \in Seq(Unit) /\ input[s] \in Seq(Unit)
      BY <1>0 DEF ClientTypeOK
    <3>5. Append(given[s], u) \in Seq(Unit) /\ Append(input[s], u) \in Seq(Unit)
      BY <3>3, <3>4
    <3> QED
      BY <1>0, <3>1, <3>5 DEF ClientTypeOK
  <2>2. ASSUME NEW s \in Sink, Consume(s)
        PROVE  output' \in [Sink -> Seq(Unit)] /\ taken' \in [Sink -> Seq(Unit)]
    <3>1. /\ output[s] \in Seq(Unit) /\ taken[s] \in Seq(Unit) /\ output[s] # <<>>
      BY <1>0, <2>2 DEF ClientTypeOK, Consume
    <3>2. Tail(output[s]) \in Seq(Unit) /\ Append(taken[s], Head(output[s])) \in Seq(Unit)
      BY <3>1
    <3> QED
      BY <1>0, <2>2, <3>2 DEF ClientTypeOK, Consume
  <2>3. ASSUME NEW s \in Sink, Vanish(s)
        PROVE  output' \in [Sink -> Seq(Unit)]
    <3>1. <<>> \in Seq(Unit)
      OBVIOUS
    <3> QED
      BY <1>0, <2>3, <3>1 DEF ClientTypeOK, Vanish
  <2> QED
    BY <1>0, <2>1, <2>2, <2>3
       DEF TlsWorld, World, Arrive, Finish, Consume, Vanish, ClientTypeOK
<1>3. ClientTypeOK' /\ InUse'
  BY <1>0, <1>1, <1>2 DEF progVars, ClientTypeOK, InUse
<1> QED
  BY <1>0, <1>1, <1>3 DEF tlsVars, progVars, BaseInv, TlsClientTypeOK

-----------------------------------------------------------------------------
(* What follows from the place of each unit, and what a step leaves.       *)

\* Nothing is in hand but at the handler that is served.
Hand(s) == IF cur = s THEN rq ELSE <<>>

LEMMA HandIs == InUse => \A s : InHand(s) = Hand(s)
BY DEF InUse, InHand, Hand, Serving

LEMMA OpeningIs ==
  /\ Opening \in Seq(Unit) /\ Len(Opening) \in Nat
  /\ \A i \in DOMAIN Opening : Opening[i] \in {Hello, Finished}
  /\ Due \in Seq(Buf)
<1>1. Hello \in Unit /\ Finished \in Unit
  BY Kinds
<1>2. <<Hello>> \in Buf /\ <<Finished>> \in Buf
  BY <1>1, SingleIsBuf
<1>3. Due \in {<<>>, << <<Finished>> >>, << <<Hello>>, <<Finished>> >>}
  BY DEF Due
<1>4. /\ <<>> \in Seq(Buf) /\ << <<Finished>> >> \in Seq(Buf)
      /\ << <<Hello>>, <<Finished>> >> \in Seq(Buf)
  BY <1>2
<1>5. Due \in Seq(Buf)
  BY <1>3, <1>4, Zenon
<1>6. CASE state = "START"
  BY <1>5, <1>6 DEF Opening
<1>7. CASE state # "START"
  BY <1>1, <1>5, <1>7 DEF Opening
<1> QED
  BY <1>6, <1>7

LEMMA OutType ==
  ASSUME ClientTypeOK
  PROVE  /\ Out("socket") \in Seq(Unit) /\ Out("stdout") \in Seq(Unit)
         /\ Len(Out("socket")) \in Nat
BY Ends DEF ClientTypeOK, Out

LEMMA OrderedWhenOpen ==
  ASSUME BaseInv, Up, Terminal, isOpen["socket"], "socket" \notin gone
  PROVE  NotAhead /\ CloseIsLast
<1> DEFINE g == given["stdin"]
           s == Opening \o g
           out == Out("socket")
<1>1. StandsAt(out, s, 0)
  BY DEF Up, TypedIsOnItsWay, Whole
<1>2. /\ g \in Seq(Unit) /\ Len(g) \in Nat /\ out \in Seq(Unit)
      /\ Len(Opening) \in Nat /\ Opening \in Seq(Unit)
  BY Ends, OpeningIs, OutType DEF BaseInv, TlsClientTypeOK, ClientTypeOK
<1>3. /\ DOMAIN s = 1 .. Len(Opening) + Len(g)
      /\ \A i \in DOMAIN g : s[i + Len(Opening)] = g[i]
  BY <1>2
<1> HIDE DEF s
<1>4. \A j \in DOMAIN out : /\ j \in 1 .. Len(Opening) + Len(g)
                            /\ out[j] = s[j]
  <2>1. \A j \in DOMAIN out : j \in Nat /\ 0 + j = j
    BY <1>2
  <2> QED
    BY <1>1, <1>3, <2>1 DEF StandsAt
<1>5. NotAhead
  BY <1>2, <1>4 DEF NotAhead
<1>6. ASSUME tty, NEW i \in DOMAIN g, NEW j \in DOMAIN out, g[i] = Close
      PROVE  j < i + Len(Opening)
  <2> DEFINE m == i + Len(Opening)
  <2>1. SUFFICES ASSUME ~(j < m) PROVE FALSE
    OBVIOUS
  <2>2. m \in DOMAIN out
    BY <1>2, <2>1
  <2>3. out[m] = Close
    BY <1>3, <1>4, <1>6, <2>2
  <2> HIDE DEF m
  <2> QED
    BY <1>6, <2>2, <2>3 DEF Terminal
<1>7. CloseIsLast
  BY <1>6 DEF CloseIsLast
<1> QED
  BY <1>5, <1>7

\* No data goes out of the socket.
NoMoreData ==
  \A j \in DOMAIN Out("socket")' :
    Out("socket")'[j] \in Data =>
      j \in DOMAIN Out("socket") /\ Out("socket")[j] = Out("socket")'[j]

LEMMA NoneOut == Out("socket")' = Out("socket") => NoMoreData
BY DEF NoMoreData

LEMMA ProtocolOut ==
  ASSUME BaseInv, NEW u \in Protocol, Emit(u), taken' = taken
  PROVE  NoMoreData
<1> DEFINE o == output["socket"]
           t == taken["socket"]
<1>1. o \in Seq(Unit) /\ t \in Seq(Unit) /\ u \in Unit /\ u \notin Data
  BY Ends, Kinds DEF BaseInv, TlsClientTypeOK, ClientTypeOK
<1>2. Out("socket")' = t \o Append(o, u) /\ Out("socket") = t \o o
  BY <1>1, EmitType, Ends DEF Out, BaseInv, TlsClientTypeOK
<1> HIDE DEF o, t
<1>3. t \o Append(o, u) = Append(t \o o, u) /\ t \o o \in Seq(Unit)
  <2>1. \A r, q \in Seq(Unit) : \A e \in Unit : r \o Append(q, e) = Append(r \o q, e)
    BY ConcatAppend
  <2>2. t \o Append(o, u) = Append(t \o o, u)
    BY <1>1, <2>1, Zenon
  <2> QED
    BY <1>1, <2>2
<1> DEFINE a == t \o o
<1> HIDE DEF a
<1>4. a \in Seq(Unit) /\ Out("socket")' = Append(a, u) /\ Out("socket") = a
  BY <1>2, <1>3 DEF a
<1> QED
  BY <1>1, <1>4 DEF NoMoreData

LEMMA OrderedStep ==
  ASSUME ClientInv, BaseInv', Up', Terminal', OnTls' = OnTls, tty' = tty,
         NoMoreData \/ (isOpen'["socket"] /\ "socket" \notin gone'),
         \/ given'["stdin"] = given["stdin"]
         \/ \E u \in Unit : given'["stdin"] = Append(given["stdin"], u)
  PROVE  NotAhead' /\ CloseIsLast'
<1>1. CASE isOpen'["socket"] /\ "socket" \notin gone'
  <2>1. (BaseInv /\ Up /\ Terminal /\ isOpen["socket"] /\ "socket" \notin gone
           => NotAhead /\ CloseIsLast)'
    BY OrderedWhenOpen, PTL
  <2> QED
    BY <1>1, <2>1
<1>2. CASE NoMoreData
  <2> DEFINE g == given["stdin"]
             l == Len(Opening)
             d(j) == Out("socket")'[j] \in Data
  <2>1. Len(Opening') = l /\ l \in Nat
    BY OpeningIs DEF Opening, OnTls
  <2>2. g \in Seq(Unit) /\ Len(g) \in Nat
    BY Ends DEF ClientInv, BaseInv, TlsClientTypeOK, ClientTypeOK
  <2>3. /\ Len(g') \in Nat /\ Len(g) <= Len(g')
        /\ \A i \in DOMAIN g' : g'[i] = Close =>
             (i \in DOMAIN g /\ g[i] = Close) \/ i = Len(g) + 1
    BY <2>2
  <2>4. \A j \in DOMAIN Out("socket")' : d(j) =>
          j \in DOMAIN Out("socket") /\ Out("socket")[j] \in Data
            /\ j \in Nat /\ j <= Len(g) + l
    BY <1>2, OutType DEF NoMoreData, ClientInv, NotAhead, BaseInv, TlsClientTypeOK
  <2>5. NotAhead'
    BY <2>1, <2>2, <2>3, <2>4 DEF NotAhead
  <2>6. ASSUME tty', NEW i \in DOMAIN g', NEW j \in DOMAIN Out("socket")',
               g'[i] = Close, d(j)
        PROVE  j < i + l
    <3>1. CASE i \in DOMAIN g /\ g[i] = Close
      BY <2>4, <2>6, <3>1 DEF ClientInv, CloseIsLast
    <3>2. CASE i = Len(g) + 1
      BY <2>1, <2>2, <2>4, <2>6, <3>2
    <3> QED
      BY <2>3, <2>6, <3>1, <3>2
  <2>7. CloseIsLast'
    BY <2>1, <2>6 DEF CloseIsLast
  <2> QED
    BY <2>5, <2>7
<1> QED
  BY <1>1, <1>2

LEMMA StrangersStep ==
  ASSUME ClientInv, OnTls' = OnTls, HasFlight => HasFlight',
         NoMoreData \/ HasFlight' \/ ~OnTls
  PROVE  StrangersGetNothing'
BY DEF ClientInv, StrangersGetNothing, OnTls, HasFlight, NoMoreData

\* What the layouts are made of, and that it is the same after a step.
SameUp ==
  /\ UNCHANGED <<OnTls, Due, Out("socket"), wq["socket"], given["stdin"],
                 input["stdin"], Hand("stdin")>>

SameDown ==
  /\ UNCHANGED <<Heard, Farewell, Out("stdout"), wq["stdout"], given["socket"],
                 input["socket"], Hand("socket")>>

LEMMA UpFrame ==
  ASSUME ClientInv, InUse', isOpen'["socket"] => isOpen["socket"],
         gone \subseteq gone',
         isOpen'["socket"] /\ "socket" \notin gone' => SameUp
  PROVE  Up'
<1> SUFFICES ASSUME isOpen'["socket"], "socket" \notin gone' PROVE TypedIsOnItsWay'
  BY DEF Up
<1>1. SameUp /\ TypedIsOnItsWay
  BY DEF ClientInv, Up
<1>2. InHand("stdin") = Hand("stdin")
  BY HandIs DEF ClientInv, BaseInv
<1>3. InHand("stdin")' = Hand("stdin")'
  <2>1. InUse' => (\A s : InHand(s) = Hand(s))'
    BY HandIs, PTL
  <2> QED
    BY <2>1
<1>4. Opening' = Opening
  BY <1>1 DEF SameUp, Opening, OnTls
<1> QED
  BY <1>1, <1>2, <1>3, <1>4 DEF TypedIsOnItsWay, SameUp

LEMMA DownFrame ==
  ASSUME ClientInv, InUse', isOpen'["stdout"] => isOpen["stdout"],
         gone \subseteq gone', OnTls' = OnTls, CutShort => CutShort',
         isOpen'["stdout"] /\ "stdout" \notin gone' /\ ("socket" \in gone' => ~OnTls)
           /\ ~CutShort'
           => SameDown
  PROVE  Down'
<1> SUFFICES ASSUME isOpen'["stdout"], "stdout" \notin gone',
                    "socket" \in gone' => ~OnTls, ~CutShort'
             PROVE  SaidIsOnItsWay'
  BY DEF Down, OnTls
<1>1. SameDown /\ SaidIsOnItsWay
  BY DEF ClientInv, Down, OnTls
<1>2. InHand("socket") = Hand("socket")
  BY HandIs DEF ClientInv, BaseInv
<1>3. InHand("socket")' = Hand("socket")'
  <2>1. InUse' => (\A s : InHand(s) = Hand(s))'
    BY HandIs, PTL
  <2> QED
    BY <2>1
<1> QED
  BY <1>1, <1>2, <1>3 DEF SaidIsOnItsWay, SameDown

-----------------------------------------------------------------------------
(* The steps that move no unit.                                            *)

LEMMA QuietKeeps ==
  ASSUME ClientInv, BaseInv', Quiet
  PROVE  ClientInv'
<1> USE Ends
<1>0. ClientTypeOK /\ TlsClientTypeOK
  BY DEF ClientInv, BaseInv, TlsClientTypeOK
<1>1. /\ OnTls' = OnTls /\ Out("socket")' = Out("socket") /\ HasFlight' = HasFlight
      /\ CutShort => CutShort'
  BY DEF Quiet, OnTls, Out, HasFlight, CutShort
<1>2. cur' = "socket" => rq' = <<>> \/ (rq' = rq /\ cur = "socket")
  BY DEF Quiet, Drops
<1>3. Session'
  BY <1>1, <1>2 DEF ClientInv, Session, Quiet, Shaken, OnTls, HasFlight
<1>4. Terminal'
  <2>1. cur' = "stdin" => rq' = <<>> \/ (rq' = rq /\ cur = "stdin")
    BY DEF Quiet, Drops
  <2>2. \A i \in DOMAIN <<>> : FALSE
    OBVIOUS
  <2>3. tty' /\ cur' = "stdin" => \A i \in DOMAIN rq' : Len(rq'[i]) = 1
    BY <2>1, <2>2 DEF ClientInv, Terminal, Quiet
  <2>4. tty' /\ isOpen'["socket"] => tty /\ isOpen["socket"]
    BY DEF Quiet
  <2> QED
    BY <1>1, <2>3, <2>4 DEF ClientInv, Terminal, Quiet
<1>5. Up'
  <2>1. isOpen'["socket"] => Due' = Due
    BY DEF Quiet, Due
  <2>2. Hand("stdin")' = Hand("stdin")
    BY DEF Quiet, Drops, Hand
  <2>3. isOpen'["socket"] => SameUp
    BY <1>1, <2>1, <2>2 DEF SameUp, Quiet
  <2> QED
    BY <2>3, UpFrame DEF Quiet, BaseInv
<1>6. Down'
  <2>1. Heard' = Heard /\ Farewell' = Farewell /\ Out("stdout")' = Out("stdout")
    BY DEF Quiet, Heard, Farewell, Out
  <2>2. ("socket" \in gone' => ~OnTls) /\ ~CutShort'
          => Hand("socket")' = Hand("socket")
    BY <1>1 DEF Quiet, Drops, Hand
  <2>3. ("socket" \in gone' => ~OnTls) /\ ~CutShort' => SameDown
    BY <2>1, <2>2 DEF SameDown, Quiet
  <2> QED
    BY <1>1, <2>3, DownFrame DEF Quiet, BaseInv
<1>7. NotAhead' /\ CloseIsLast'
  BY <1>1, <1>4, <1>5, NoneOut, OrderedStep DEF Quiet
<1>8. StrangersGetNothing'
  BY <1>1, NoneOut, StrangersStep
<1> QED
  BY <1>3, <1>4, <1>5, <1>6, <1>7, <1>8 DEF ClientInv

\* The program is gone: nothing is open, and nothing was written.
LEMMA ExitKeeps ==
  ASSUME ClientInv, BaseInv', NEW how \in Ended, Exit(how), UNCHANGED <<state, ssl>>
  PROVE  ClientInv'
<1> USE Ends
<1>1. /\ OnTls' = OnTls /\ Out("socket")' = Out("socket") /\ HasFlight' = HasFlight
      /\ ~isOpen'["socket"] /\ ~isOpen'["stdout"] /\ rq' = <<>> /\ cur' = "stdin"
      /\ wq'["stdout"] = <<>>
      /\ UNCHANGED worldVars
  BY DEF Exit, OnTls, Out, HasFlight, worldVars
<1>2. Session'
  BY <1>1 DEF ClientInv, Session, Shaken, OnTls, worldVars
<1>3. Terminal'
  <2>1. \A i \in DOMAIN <<>> : FALSE
    OBVIOUS
  <2> QED
    BY <1>1, <2>1 DEF Terminal
<1>4. Up' /\ Down'
  BY <1>1 DEF Up, Down
<1>5. NotAhead' /\ CloseIsLast'
  BY <1>1, <1>3, <1>4, NoneOut, OrderedStep DEF worldVars
<1>6. StrangersGetNothing'
  BY <1>1, NoneOut, StrangersStep
<1> QED
  BY <1>2, <1>3, <1>4, <1>5, <1>6 DEF ClientInv

-----------------------------------------------------------------------------
(* The plain client's reads, on_read and writes.                           *)

LEMMA ClientsBuffers == Buf = Bufs(Unit)
BY DEF Buf, Bufs

LEMMA ReadOn ==
  ASSUME NEW s \in Seq(Unit), NEW out \in Seq(Unit), NEW r \in Seq(Buf),
         NEW q \in Seq(Buf), NEW in \in Seq(Unit), Whole(s, out, r \o q, in),
         NEW n \in 1 .. Len(in)
  PROVE  Whole(s, out, r \o Append(q, SubSeq(in, 1, n)), SubSeq(in, n + 1, Len(in)))
<1> DEFINE b == SubSeq(in, 1, n)
           p == r \o q
<1>1. Len(in) \in Nat /\ n \in Nat /\ n <= Len(in) /\ n # 0
  OBVIOUS
<1>2. b \in Seq(Unit) /\ Len(b) = n
  BY <1>1, CutSeq
<1>3. b \in Buf
  BY <1>1, <1>2 DEF Buf
<1>4. p \in Seq(Buf)
  OBVIOUS
<1>5. Whole(s, out, p, in)
  OBVIOUS
<1> HIDE DEF p
<1>6. Whole(s, out, Append(p, b), SubSeq(in, n + 1, Len(in)))
  BY <1>4, <1>5, ReadWhole, ClientsBuffers
<1> HIDE DEF b
<1>7. r \o Append(q, b) = Append(p, b)
  <2>1. \A x, y \in Seq(Buf) : \A e \in Buf : x \o Append(y, e) = Append(x \o y, e)
    BY ConcatAppend
  <2> QED
    BY <1>3, <2>1 DEF p
<1> QED
  BY <1>6, <1>7 DEF b

LEMMA NothingBehind == \A q \in Seq(Buf) : q \o <<>> = q /\ <<>> \o q = q
OBVIOUS

LEMMA PartTypes ==
  ASSUME ClientTypeOK
  PROVE  /\ wq["socket"] \in Seq(Buf) /\ wq["stdout"] \in Seq(Buf) /\ rq \in Seq(Buf)
         /\ Hand("stdin") \in Seq(Buf) /\ Hand("socket") \in Seq(Buf)
         /\ given["stdin"] \in Seq(Unit) /\ given["socket"] \in Seq(Unit)
         /\ input["stdin"] \in Seq(Unit) /\ input["socket"] \in Seq(Unit)
         /\ Opening \o given["stdin"] \in Seq(Unit)
         /\ Due \o wq["socket"] \in Seq(Buf)
         /\ (Due \o wq["socket"]) \o Hand("stdin") \in Seq(Buf)
         /\ wq["stdout"] \o Hand("socket") \in Seq(Buf)
         /\ (wq["stdout"] \o Hand("socket")) \o Farewell \in Seq(Buf)
         /\ Farewell \in Seq(Buf)
<1>1. /\ wq["socket"] \in Seq(Buf) /\ wq["stdout"] \in Seq(Buf) /\ rq \in Seq(Buf)
      /\ given["stdin"] \in Seq(Unit) /\ given["socket"] \in Seq(Unit)
      /\ input["stdin"] \in Seq(Unit) /\ input["socket"] \in Seq(Unit)
  BY Ends DEF ClientTypeOK
<1>2. <<>> \in Seq(Buf)
  OBVIOUS
<1>3. Hand("stdin") \in Seq(Buf) /\ Hand("socket") \in Seq(Buf)
  BY <1>1, <1>2 DEF Hand
<1>4. Farewell \in Seq(Buf)
  <2>1. << <<Bye>> >> \in Seq(Buf)
    BY SingleIsBuf, Kinds
  <2> QED
    BY <1>2, <2>1, Zenon DEF Farewell
<1>5. \A x, y \in Seq(Buf) : x \o y \in Seq(Buf)
  OBVIOUS
<1>6. \A x, y \in Seq(Unit) : x \o y \in Seq(Unit)
  OBVIOUS
<1>7. Due \o wq["socket"] \in Seq(Buf) /\ wq["stdout"] \o Hand("socket") \in Seq(Buf)
  BY <1>1, <1>3, <1>5, OpeningIs
<1> QED
  BY <1>1, <1>3, <1>4, <1>5, <1>6, <1>7, OpeningIs

\* The layouts with what is in hand spelled out.
TypedAt ==
  Whole(Opening \o given["stdin"], Out("socket"),
        (Due \o wq["socket"]) \o Hand("stdin"), input["stdin"])

SaidAt ==
  Whole(given["socket"], Heard \o Out("stdout"),
        (wq["stdout"] \o Hand("socket")) \o Farewell, input["socket"])

LEMMA Layouts ==
  InUse => (TypedIsOnItsWay <=> TypedAt) /\ (SaidIsOnItsWay <=> SaidAt)
BY HandIs DEF TypedIsOnItsWay, SaidIsOnItsWay, TypedAt, SaidAt

LEMMA NowAt ==
  ASSUME ClientInv
  PROVE  /\ isOpen["socket"] /\ "socket" \notin gone => TypedAt
         /\ isOpen["stdout"] /\ "stdout" \notin gone /\ ("socket" \in gone => ~OnTls)
              /\ ~CutShort
              => SaidAt
BY Layouts DEF ClientInv, BaseInv, Up, Down, OnTls

LEMMA UpThen ==
  ASSUME BaseInv', isOpen'["socket"] /\ "socket" \notin gone' => TypedAt'
  PROVE  Up'
<1>1. (InUse => (TypedIsOnItsWay <=> TypedAt))'
  BY Layouts, PTL
<1> QED
  BY <1>1 DEF BaseInv, Up

LEMMA DownThen ==
  ASSUME BaseInv',
         isOpen'["stdout"] /\ "stdout" \notin gone' /\ ("socket" \in gone' => ~OnTls')
           /\ ~CutShort'
           => SaidAt'
  PROVE  Down'
<1>1. (InUse => (SaidIsOnItsWay <=> SaidAt))'
  BY Layouts, PTL
<1> QED
  BY <1>1 DEF BaseInv, Down, OnTls

LEMMA ReadSomeKeeps ==
  ASSUME ClientInv, BaseInv', ReadSome, ~InStream,
         UNCHANGED <<state, ssl, stalled>>
  PROVE  ClientInv'
<1> USE Ends
<1>0. ClientTypeOK /\ TlsClientTypeOK /\ InUse
  BY DEF ClientInv, BaseInv, TlsClientTypeOK
<1> DEFINE n == ChunkLen
           in == input[cur]
           b == SubSeq(in, 1, n)
           rest == SubSeq(in, n + 1, Len(in))
<1>1. /\ UNCHANGED <<phase, cur, isOpen, wq, tty, output, gone, given, taken>>
      /\ rq' = Append(rq, b) /\ input' = [input EXCEPT ![cur] = rest]
      /\ cur \in Source /\ in # <<>> /\ in \in Seq(Unit)
      /\ cur = "stdin" \/ (cur = "socket" /\ ~OnTls)
  BY <1>0 DEF ReadSome, InUse, ClientTypeOK, InStream, OnTls
<1>2. n \in 1 .. Len(in) /\ (tty /\ cur = "stdin" => n = 1)
  BY <1>0, <1>1, ChunkIs
<1> HIDE DEF n
<1>3. /\ b \in Seq(Unit) /\ Len(b) = n /\ rest \in Seq(Unit)
      /\ Len(rest) = Len(in) - n /\ Len(in) \in Nat /\ n \in Nat
  BY <1>1, <1>2, CutSeq
<1>4. /\ input'[cur] = rest /\ \A s \in Source : s # cur => input'[s] = input[s]
      /\ rq \in Seq(Buf)
  BY <1>0, <1>1 DEF ClientTypeOK
<1>5. /\ OnTls' = OnTls /\ Out("socket")' = Out("socket") /\ HasFlight' = HasFlight
      /\ Out("stdout")' = Out("stdout") /\ Opening' = Opening /\ Due' = Due
      /\ Farewell' = Farewell
  BY <1>1 DEF OnTls, Out, HasFlight, Opening, Due, Farewell
<1>6. Session'
  <2>1. CASE cur = "stdin"
    <3>1. input'["socket"] = input["socket"]
      BY <1>4, <2>1
    <3> QED
      BY <1>1, <1>5, <2>1, <3>1 DEF ClientInv, Session, Shaken, OnTls
  <2>2. CASE cur = "socket" /\ ~OnTls
    <3>1. Len(input'["socket"]) <= Len(given["socket"])
      <4>1. Len(given["socket"]) \in Nat /\ Len(in) <= Len(given["socket"])
        BY <1>0, <2>2 DEF ClientInv, Session, ClientTypeOK
      <4> QED
        BY <1>3, <1>4, <2>2, <4>1
    <3> QED
      BY <1>1, <1>5, <2>2, <3>1 DEF ClientInv, Session, Shaken, OnTls
  <2> QED
    BY <1>1, <2>1, <2>2
<1>7. Terminal'
  <2>1. tty /\ cur = "stdin" => \A i \in DOMAIN Append(rq, b) : Len(Append(rq, b)[i]) = 1
    <3> SUFFICES ASSUME tty, cur = "stdin", NEW i \in DOMAIN Append(rq, b)
                 PROVE  Len(Append(rq, b)[i]) = 1
      OBVIOUS
    <3>1. Len(b) = 1 /\ \A k \in DOMAIN rq : Len(rq[k]) = 1
      BY <1>2, <1>3 DEF ClientInv, Terminal
    <3>2. \/ i \in DOMAIN rq /\ Append(rq, b)[i] = rq[i]
          \/ Append(rq, b)[i] = b
      <4> HIDE DEF b
      <4> QED
        BY <1>4
    <3> QED
      BY <3>1, <3>2
  <2> QED
    BY <1>1, <1>5, <2>1 DEF ClientInv, Terminal
<1>8. Up'
  <2>1. CASE cur = "stdin"
    <3>1. ASSUME isOpen["socket"], "socket" \notin gone PROVE TypedAt'
      <4>1. Hand("stdin") = rq /\ Hand("stdin")' = Append(rq, b)
        BY <1>1, <2>1 DEF Hand
      <4>2. Whole(Opening \o given["stdin"], Out("socket"),
                  (Due \o wq["socket"]) \o rq, in)
        BY <2>1, <3>1, <4>1, NowAt DEF TypedAt
      <4>3. Whole(Opening \o given["stdin"], Out("socket"),
                  (Due \o wq["socket"]) \o Append(rq, b), rest)
        BY <1>0, <1>1, <1>2, <1>4, <4>2, PartTypes, OutType, ReadOn
      <4> HIDE DEF b, rest
      <4> QED
        BY <1>1, <1>4, <1>5, <2>1, <4>1, <4>3 DEF TypedAt
    <3> QED
      BY <1>1, <3>1, UpThen
  <2>2. CASE cur = "socket"
    <3>1. SameUp
      BY <1>1, <1>4, <1>5, <2>2 DEF SameUp, Hand
    <3> QED
      BY <1>1, <3>1, UpFrame DEF BaseInv
  <2> QED
    BY <1>1, <2>1, <2>2
<1>9. Down'
  <2>1. CASE cur = "socket" /\ ~OnTls
    <3>1. ASSUME isOpen["stdout"], "stdout" \notin gone PROVE SaidAt'
      <4>1. Hand("socket") = rq /\ Hand("socket")' = Append(rq, b)
        BY <1>1, <2>1 DEF Hand
      <4>2. Heard = <<>> /\ Heard' = <<>> /\ Farewell = <<>>
        BY <1>5, <2>1 DEF Heard, Farewell, OnTls
      <4>3. Whole(given["socket"], Heard \o Out("stdout"),
                  (wq["stdout"] \o rq) \o <<>>, in)
        <5>1. ~CutShort
          BY <2>1 DEF CutShort, OnTls
        <5> QED
          BY <2>1, <3>1, <4>1, <4>2, <5>1, NowAt DEF SaidAt
      <4>4. /\ (wq["stdout"] \o rq) \o <<>> = wq["stdout"] \o rq
            /\ Append(rq, b) \in Seq(Buf)
            /\ (wq["stdout"] \o Append(rq, b)) \o <<>> = wq["stdout"] \o Append(rq, b)
        <5>1. b \in Buf
          BY <1>2, <1>3 DEF Buf
        <5> HIDE DEF b
        <5>2. \A x, y \in Seq(Buf) : x \o y \in Seq(Buf)
          OBVIOUS
        <5>3. Append(rq, b) \in Seq(Buf)
          BY <1>4, <5>1
        <5> QED
          BY <1>0, <1>4, <5>2, <5>3, PartTypes, NothingBehind
      <4>5. Heard \o Out("stdout") \in Seq(Unit)
        BY <1>0, <4>2, OutType
      <4>6. Whole(given["socket"], Heard \o Out("stdout"),
                  wq["stdout"] \o Append(rq, b), rest)
        BY <1>0, <1>1, <1>2, <1>4, <4>3, <4>4, <4>5, PartTypes, ReadOn
      <4> HIDE DEF b, rest
      <4> QED
        BY <1>1, <1>4, <1>5, <2>1, <4>1, <4>2, <4>4, <4>6 DEF SaidAt
    <3> QED
      BY <1>1, <3>1, DownThen
  <2>2. CASE cur = "stdin"
    <3>1. SameDown
      BY <1>1, <1>4, <1>5, <2>2 DEF SameDown, Hand, Heard
    <3> QED
      BY <1>1, <1>5, <3>1, DownFrame DEF BaseInv, CutShort
  <2> QED
    BY <1>1, <2>1, <2>2
<1>10. NotAhead' /\ CloseIsLast'
  BY <1>1, <1>5, <1>7, <1>8, NoneOut, OrderedStep
<1>11. StrangersGetNothing'
  BY <1>5, NoneOut, StrangersStep
<1> QED
  BY <1>6, <1>7, <1>8, <1>9, <1>10, <1>11 DEF ClientInv

LEMMA PassOn ==
  \A d, r, q \in Seq(Buf) : q # <<>> =>
    /\ Append(r, Head(q)) \o Tail(q) = r \o q
    /\ (d \o Append(r, Head(q))) \o Tail(q) = (d \o r) \o q
<1> SUFFICES ASSUME NEW d \in Seq(Buf), NEW r \in Seq(Buf), NEW q \in Seq(Buf),
                    q # <<>>
             PROVE  /\ Append(r, Head(q)) \o Tail(q) = r \o q
                    /\ (d \o Append(r, Head(q))) \o Tail(q) = (d \o r) \o q
  OBVIOUS
<1>1. Head(q) \in Buf
  BY HeadTailProperties
<1>2. \A x, y \in Seq(Buf) : y # <<>> => Append(x, Head(y)) \o Tail(y) = x \o y
  BY ShiftConcat
<1>3. \A x, y \in Seq(Buf) : \A e \in Buf : x \o Append(y, e) = Append(x \o y, e)
  BY ConcatAppend
<1>4. d \o r \in Seq(Buf)
  OBVIOUS
<1>5. d \o Append(r, Head(q)) = Append(d \o r, Head(q))
  BY <1>1, <1>3
<1> DEFINE p == d \o r
<1> HIDE DEF p
<1>6. Append(p, Head(q)) \o Tail(q) = p \o q
  BY <1>2, <1>4 DEF p
<1> QED
  BY <1>2, <1>5, <1>6 DEF p

LEMMA OnReadKeeps ==
  ASSUME ClientInv, BaseInv', OnRead, UNCHANGED <<state, ssl, stalled>>
  PROVE  ClientInv'
<1> USE Ends
<1>0. ClientTypeOK /\ TlsClientTypeOK /\ InUse
  BY DEF ClientInv, BaseInv, TlsClientTypeOK
<1>1. /\ UNCHANGED <<phase, cur, handlers, tty, input, output, gone, given, taken>>
      /\ rq # <<>> /\ rq \in Seq(Buf) /\ rq' = Tail(rq) /\ cur \in Source
      /\ \A g \in Handler : isOpen'[g] => isOpen[g]
      /\ \A g \in Handler : isOpen[g] => g \in handlers
  BY <1>0 DEF OnRead, InUse, ClientTypeOK, worldVars
<1> DEFINE h == Head(rq)
<1>3. ASSUME cur = "stdin"
      PROVE  /\ wq'["stdout"] = wq["stdout"]
             /\ isOpen'["socket"] => /\ wq'["socket"] = Append(wq["socket"], h)
                                     /\ h # <<Close>>
  BY <1>1, <1>3 DEF OnRead, To, IsClose
<1>4. ASSUME cur = "socket"
      PROVE  /\ wq'["socket"] = wq["socket"]
             /\ isOpen'["stdout"] => wq'["stdout"] = Append(wq["stdout"], h)
  BY <1>1, <1>4 DEF OnRead, To, IsClose
<1>5. /\ h \in Buf /\ Tail(rq) \in Seq(Buf)
      /\ \A i \in DOMAIN Tail(rq) : i + 1 \in DOMAIN rq /\ Tail(rq)[i] = rq[i + 1]
      /\ 1 \in DOMAIN rq /\ h = rq[1]
  BY <1>1
<1> HIDE DEF h
<1>6. /\ OnTls' = OnTls /\ Out("socket")' = Out("socket") /\ HasFlight' = HasFlight
      /\ Out("stdout")' = Out("stdout") /\ Opening' = Opening /\ Due' = Due
      /\ Farewell' = Farewell /\ Heard' = Heard /\ CutShort' = CutShort
  BY <1>1 DEF OnTls, Out, HasFlight, Opening, Due, Farewell, Heard, CutShort
<1>7. Session'
  <2>1. state = "HANDSHAKE" => cur = "stdin"
    BY <1>1 DEF ClientInv, Session
  <2> QED
    BY <1>1, <1>3, <1>6, <2>1 DEF ClientInv, Session, Shaken, OnTls
<1>8. Terminal'
  <2> SUFFICES ASSUME tty PROVE Terminal'
    BY <1>1 DEF Terminal
  <2>1. cur = "stdin" => \A i \in DOMAIN Tail(rq) : Len(Tail(rq)[i]) = 1
    BY <1>5 DEF ClientInv, Terminal
  <2>2. ASSUME isOpen'["socket"], cur = "stdin",
               NEW i \in DOMAIN wq'["socket"], NEW j \in DOMAIN wq'["socket"][i]
        PROVE  wq'["socket"][i][j] # Close
    <3> DEFINE q == wq["socket"]
    <3>1. q \in Seq(Buf)
      BY <1>0 DEF ClientTypeOK
    <3>2. wq'["socket"] = Append(q, h) /\ h # <<Close>>
      BY <1>3, <2>2
    <3>3. (i \in DOMAIN q /\ Append(q, h)[i] = q[i]) \/ Append(q, h)[i] = h
      BY <2>2, <3>1, <3>2
    <3>4. CASE i \in DOMAIN q /\ Append(q, h)[i] = q[i]
      BY <1>1, <2>2, <3>2, <3>4 DEF ClientInv, Terminal
    <3>5. CASE Append(q, h)[i] = h
      <4>1. h \in Seq(Unit) /\ Len(h) = 1
        BY <1>5, <2>2 DEF ClientInv, Terminal, Buf
      <4>2. h = <<h[1]>> /\ DOMAIN h = {1}
        BY <4>1
      <4> QED
        BY <2>2, <3>2, <3>5, <4>2
    <3> QED
      BY <3>3, <3>4, <3>5
  <2>3. isOpen'["socket"] => \A i \in DOMAIN wq'["socket"] :
          \A j \in DOMAIN wq'["socket"][i] : wq'["socket"][i][j] # Close
    <3>1. ASSUME isOpen'["socket"], cur = "socket",
                 NEW i \in DOMAIN wq'["socket"], NEW j \in DOMAIN wq'["socket"][i]
          PROVE  wq'["socket"][i][j] # Close
      BY <1>1, <1>4, <3>1 DEF ClientInv, Terminal
    <3> QED
      BY <1>1, <2>2, <3>1
  <2> QED
    BY <1>1, <1>6, <2>1, <2>3 DEF ClientInv, Terminal
<1>9. Up'
  <2>1. ASSUME cur = "stdin", isOpen'["socket"], "socket" \notin gone' PROVE TypedAt'
    <3>1. Hand("stdin") = rq /\ Hand("stdin")' = Tail(rq)
      BY <1>1, <2>1 DEF Hand
    <3>2. TypedAt
      BY <1>1, <2>1, NowAt
    <3>3. (Due \o Append(wq["socket"], h)) \o Tail(rq) = (Due \o wq["socket"]) \o rq
      <4> DEFINE d == Due
                 r == wq["socket"]
      <4>1. d \in Seq(Buf) /\ r \in Seq(Buf)
        BY <1>0, OpeningIs, PartTypes
      <4> HIDE DEF d, r
      <4>2. (d \o Append(r, Head(rq))) \o Tail(rq) = (d \o r) \o rq
        <5>1. rq \in Seq(Buf) /\ rq # <<>>
          BY <1>1
        <5>2. \A q \in Seq(Buf) : q # <<>> =>
                (d \o Append(r, Head(q))) \o Tail(q) = (d \o r) \o q
          <6>1. \A x, y, z \in Seq(Buf) : z # <<>> =>
                  (x \o Append(y, Head(z))) \o Tail(z) = (x \o y) \o z
            BY PassOn, ZenonT(30)
          <6> QED
            BY <4>1, <6>1, Zenon
        <5> QED
          BY <5>1, <5>2
      <4> QED
        BY <4>2 DEF d, r, h
    <3> QED
      BY <1>1, <1>3, <1>6, <2>1, <3>1, <3>2, <3>3 DEF TypedAt
  <2>2. CASE cur = "socket"
    <3>1. SameUp
      BY <1>1, <1>4, <1>6, <2>2 DEF SameUp, Hand
    <3> QED
      BY <1>1, <3>1, UpFrame DEF BaseInv
  <2> QED
    BY <1>1, <2>1, <2>2, UpThen
<1>10. Down'
  <2>1. ASSUME cur = "socket", isOpen'["stdout"], "stdout" \notin gone',
               "socket" \in gone' => ~OnTls', ~CutShort'
        PROVE  SaidAt'
    <3>1. Hand("socket") = rq /\ Hand("socket")' = Tail(rq)
      BY <1>1, <2>1 DEF Hand
    <3>2. SaidAt
      BY <1>1, <1>6, <2>1, NowAt
    <3>3. Append(wq["stdout"], h) \o Tail(rq) = wq["stdout"] \o rq
      BY <1>0, <1>1, PassOn, PartTypes, ZenonT(30) DEF h
    <3> QED
      BY <1>1, <1>4, <1>6, <2>1, <3>1, <3>2, <3>3 DEF SaidAt
  <2>2. CASE cur = "stdin"
    <3>1. SameDown
      BY <1>1, <1>3, <1>6, <2>2 DEF SameDown, Hand
    <3> QED
      BY <1>1, <1>6, <3>1, DownFrame DEF BaseInv
  <2> QED
    BY <1>1, <2>1, <2>2, DownThen
<1>11. NotAhead' /\ CloseIsLast'
  BY <1>1, <1>6, <1>8, <1>9, NoneOut, OrderedStep
<1>12. StrangersGetNothing'
  BY <1>6, NoneOut, StrangersStep
<1> QED
  BY <1>7, <1>8, <1>9, <1>10, <1>11, <1>12 DEF ClientInv

-----------------------------------------------------------------------------
(* What is written.                                                        *)

LEMMA LeftFirst ==
  ASSUME NEW q \in Seq(Buf), q # <<>>, NEW r \in Seq(Buf), NEW n \in Nat,
         n <= Len(Head(q))
  PROVE  /\ Left(q \o r, n) = Left(q, n) \o r
         /\ Head(q \o r) = Head(q) /\ q \o r # <<>>
<1>1. Head(q \o r) = Head(q) /\ q \o r # <<>> /\ Tail(q \o r) = Tail(q) \o r
  OBVIOUS
<1>2. Head(q) \in Buf /\ Tail(q) \in Seq(Buf)
  BY HeadTailProperties
<1>3. Head(q) \in Seq(Unit)
  BY <1>2 DEF Buf
<1> DEFINE b == SubSeq(Head(q), n + 1, Len(Head(q)))
<1>4. b \in Seq(Unit)
  BY <1>3, CutSeq
<1> HIDE DEF b
<1>5. (<<b>> \o Tail(q)) \o r = <<b>> \o (Tail(q) \o r)
  <2>1. Tail(q) \in Seq(Seq(Unit)) /\ r \in Seq(Seq(Unit))
        /\ <<b>> \in Seq(Seq(Unit))
    BY <1>2, <1>4 DEF Buf
  <2> QED
    BY <2>1, ConcatAssociative
<1> QED
  BY <1>1, <1>5 DEF Left, b

LEMMA WriteOn ==
  ASSUME NEW s \in Seq(Unit), NEW out \in Seq(Unit), NEW q \in Seq(Buf),
         NEW r \in Seq(Buf), NEW in \in Seq(Unit), q # <<>>,
         Whole(s, out, q \o r, in), NEW n \in Nat, n <= Len(Head(q))
  PROVE  Whole(s, out \o SubSeq(Head(q), 1, n), Left(q, n) \o r, in)
<1> DEFINE p == q \o r
<1>1. /\ Left(p, n) = Left(q, n) \o r
      /\ Head(p) = Head(q) /\ p # <<>>
  BY LeftFirst
<1>2. p \in Seq(Buf) /\ Whole(s, out, p, in)
  OBVIOUS
<1> HIDE DEF p
<1>3. Whole(s, out \o SubSeq(Head(p), 1, n), Left(p, n), in)
  BY <1>1, <1>2, WrittenWhole, ClientsBuffers
<1> QED
  BY <1>1, <1>3

LEMMA WrittenOut ==
  ASSUME ClientTypeOK, NEW s \in Sink, NEW b \in Seq(Unit),
         output'[s] = output[s] \o b, taken' = taken
  PROVE  Out(s)' = Out(s) \o b
<1> DEFINE t == taken[s]
           o == output[s]
<1>1. t \in Seq(Unit) /\ o \in Seq(Unit)
  BY DEF ClientTypeOK
<1>2. Out(s)' = t \o (o \o b) /\ Out(s) = t \o o
  BY DEF Out
<1> HIDE DEF t, o
<1>3. t \o (o \o b) = (t \o o) \o b
  BY <1>1, ConcatAssociative, SMTT(30)
<1> QED
  BY <1>2, <1>3

LEMMA UnitsOfLeft ==
  ASSUME NEW q \in Seq(Buf), q # <<>>, NEW n \in Nat, n <= Len(Head(q)),
         NEW i \in DOMAIN Left(q, n), NEW j \in DOMAIN Left(q, n)[i]
  PROVE  \E k \in DOMAIN q : \E m \in DOMAIN q[k] : Left(q, n)[i][j] = q[k][m]
<1>1. /\ Head(q) = q[1] /\ 1 \in DOMAIN q /\ Head(q) \in Seq(Unit)
      /\ Tail(q) \in Seq(Buf)
      /\ \A k \in DOMAIN Tail(q) : k + 1 \in DOMAIN q /\ Tail(q)[k] = q[k + 1]
  BY DEF Buf
<1>2. CASE n = Len(Head(q))
  BY <1>1, <1>2 DEF Left
<1>3. CASE n # Len(Head(q))
  <2> DEFINE b == SubSeq(Head(q), n + 1, Len(Head(q)))
  <2>1. /\ b \in Seq(Unit)
        /\ \A m \in DOMAIN b : n + m \in DOMAIN Head(q) /\ b[m] = Head(q)[n + m]
    BY <1>1
  <2> HIDE DEF b
  <2>2. Left(q, n) = <<b>> \o Tail(q)
    BY <1>3 DEF Left, b
  <2>3. \/ Left(q, n)[i] = b
        \/ \E k \in DOMAIN Tail(q) : Left(q, n)[i] = Tail(q)[k]
    <3>1. Tail(q) \in Seq(Seq(Unit)) /\ <<b>> \in Seq(Seq(Unit))
      BY <1>1, <2>1 DEF Buf
    <3>2. ASSUME NEW S, NEW e \in S, NEW t \in Seq(S), NEW k \in DOMAIN (<<e>> \o t)
          PROVE  \/ (<<e>> \o t)[k] = e
                 \/ \E l \in DOMAIN t : (<<e>> \o t)[k] = t[l]
      <4>1. CASE k = 1
        BY <4>1
      <4>2. CASE k # 1
        <5>1. k - 1 \in DOMAIN t /\ (<<e>> \o t)[k] = t[k - 1]
          BY <4>2
        <5> QED
          BY <5>1
      <4> QED
        BY <4>1, <4>2
    <3>3. i \in DOMAIN (<<b>> \o Tail(q))
      BY <2>2
    <3> QED
      BY <2>1, <2>2, <3>1, <3>2, <3>3
  <2>4. CASE Left(q, n)[i] = b
    BY <1>1, <2>1, <2>4
  <2>5. ASSUME NEW k \in DOMAIN Tail(q), Left(q, n)[i] = Tail(q)[k]
        PROVE  \E l \in DOMAIN q : \E m \in DOMAIN q[l] : Left(q, n)[i][j] = q[l][m]
    BY <1>1, <2>5
  <2> QED
    BY <2>3, <2>4, <2>5
<1> QED
  BY <1>2, <1>3

\* A line that was queued before CLOSE is not CLOSE.
LEMMA WrittenTerminal ==
  ASSUME ClientTypeOK, Terminal, tty, isOpen["socket"], wq["socket"] # <<>>,
         NEW n \in Nat, n <= Len(Head(wq["socket"])),
         wq'["socket"] = Left(wq["socket"], n),
         Out("socket")' = Out("socket") \o SubSeq(Head(wq["socket"]), 1, n)
  PROVE  /\ \A i \in DOMAIN wq'["socket"] : \A j \in DOMAIN wq'["socket"][i] :
              wq'["socket"][i][j] # Close
         /\ \A j \in DOMAIN Out("socket")' : Out("socket")'[j] # Close
<1> DEFINE q == wq["socket"]
           out == Out("socket")
           b == SubSeq(Head(q), 1, n)
<1>1. q \in Seq(Buf) /\ out \in Seq(Unit)
  BY Ends, OutType DEF ClientTypeOK
<1>2. /\ \A i \in DOMAIN q : \A j \in DOMAIN q[i] : q[i][j] # Close
      /\ \A j \in DOMAIN out : out[j] # Close
  BY DEF Terminal
<1>3. q # <<>> /\ n <= Len(Head(q)) /\ wq'["socket"] = Left(q, n)
      /\ Out("socket")' = out \o b
  OBVIOUS
<1> HIDE DEF q, out
<1>4. ASSUME NEW i \in DOMAIN Left(q, n), NEW j \in DOMAIN Left(q, n)[i]
      PROVE  Left(q, n)[i][j] # Close
  <2>1. PICK k \in DOMAIN q : \E m \in DOMAIN q[k] : Left(q, n)[i][j] = q[k][m]
    BY <1>1, <1>3, UnitsOfLeft
  <2> QED
    BY <1>2, <2>1
<1>5. /\ b \in Seq(Unit) /\ \A j \in DOMAIN b : b[j] # Close
  <2>1. Head(q) = q[1] /\ 1 \in DOMAIN q /\ Head(q) \in Seq(Unit)
    BY <1>1, <1>3 DEF Buf
  <2>2. b \in Seq(Unit) /\ \A j \in DOMAIN b : j \in DOMAIN Head(q) /\ b[j] = Head(q)[j]
    BY <1>3, <2>1, SMTT(30)
  <2> HIDE DEF b
  <2> QED
    BY <1>2, <2>1, <2>2
<1> HIDE DEF b
<1>6. ASSUME NEW j \in DOMAIN (out \o b) PROVE (out \o b)[j] # Close
  <2>1. \/ j \in DOMAIN out /\ (out \o b)[j] = out[j]
        \/ j - Len(out) \in DOMAIN b /\ (out \o b)[j] = b[j - Len(out)]
    BY <1>1, <1>5
  <2> QED
    BY <1>2, <1>5, <2>1
<1> QED
  BY <1>3, <1>4, <1>6

\* A write to the socket, of a part of the first buffer or of a record of it.
LEMMA SocketWriteKeeps ==
  ASSUME ClientInv, BaseInv', phase = "write", isOpen["socket"], "socket" \notin gone,
         state \notin {"HANDSHAKE"}, OnTls => state = "DATA",
         wq["socket"] # <<>>, NEW n \in Nat, n <= Len(Head(wq["socket"])),
         wq'["socket"] = Left(wq["socket"], n), wq'["stdout"] = wq["stdout"],
         output'["socket"] = output["socket"] \o SubSeq(Head(wq["socket"]), 1, n),
         output'["stdout"] = output["stdout"],
         UNCHANGED <<cur, isOpen, rq, tty, input, gone, given, taken, state, ssl>>
  PROVE  ClientInv'
<1> USE Ends
<1>0. ClientTypeOK /\ TlsClientTypeOK /\ InUse
  BY DEF ClientInv, BaseInv, TlsClientTypeOK
<1> DEFINE q == wq["socket"]
           b == SubSeq(Head(q), 1, n)
<1>1. rq = <<>> /\ \A s : Hand(s) = <<>> /\ Hand(s)' = <<>>
  BY <1>0 DEF InUse, Hand
<1>2. Due = <<>> /\ Due' = <<>>
  BY <1>0 DEF Due, OnTls, ClientInv, Session, TlsClientTypeOK
<1>3. q \in Seq(Buf) /\ q # <<>> /\ n <= Len(Head(q)) /\ b \in Seq(Unit)
  <2>1. q \in Seq(Buf) /\ q # <<>>
    BY <1>0, PartTypes
  <2>2. Head(q) \in Buf
    BY <2>1, HeadTailProperties
  <2>3. Head(q) \in Seq(Unit)
    BY <2>2 DEF Buf
  <2>4. b \in Seq(Unit)
    BY <2>3, CutSeq
  <2> QED
    BY <2>1, <2>4
<1>4. Out("socket")' = Out("socket") \o b
  <2> HIDE DEF b
  <2>1. output'["socket"] = output["socket"] \o b
    BY DEF b
  <2> QED
    BY <1>0, <1>3, <2>1, WrittenOut
<1>5. /\ OnTls' = OnTls /\ HasFlight' = HasFlight
      /\ Out("stdout")' = Out("stdout") /\ Opening' = Opening
      /\ Farewell' = Farewell /\ Heard' = Heard
  BY DEF OnTls, Out, HasFlight, Opening, Farewell, Heard
<1>6. Session'
  BY <1>5 DEF ClientInv, Session, Shaken, OnTls
<1>7. Terminal'
  <2> SUFFICES ASSUME tty' PROVE Terminal'
    BY DEF Terminal
  <2>1. /\ \A i \in DOMAIN wq'["socket"] : \A j \in DOMAIN wq'["socket"][i] :
             wq'["socket"][i][j] # Close
        /\ \A j \in DOMAIN Out("socket")' : Out("socket")'[j] # Close
    BY <1>0, <1>4, WrittenTerminal DEF ClientInv
  <2>2. \A i \in DOMAIN <<>> : FALSE
    OBVIOUS
  <2>3. \A i \in DOMAIN rq' : Len(rq'[i]) = 1
    BY <1>1, <2>2
  <2> QED
    BY <2>1, <2>3 DEF Terminal
<1>8. Up'
  <2>1. (Due \o q) \o Hand("stdin") = q /\ <<>> \in Seq(Buf) /\ q \o <<>> = q
    BY <1>1, <1>2, <1>3, NothingBehind
  <2>2. Whole(Opening \o given["stdin"], Out("socket"), q \o <<>>, input["stdin"])
    BY <2>1, NowAt DEF TypedAt
  <2>3. Whole(Opening \o given["stdin"], Out("socket") \o b, Left(q, n) \o <<>>,
              input["stdin"])
    <3>1. /\ Opening \o given["stdin"] \in Seq(Unit) /\ Out("socket") \in Seq(Unit)
          /\ input["stdin"] \in Seq(Unit)
      BY <1>0, PartTypes, OutType
    <3> HIDE DEF q
    <3> QED
      BY <1>3, <2>1, <2>2, <3>1, WriteOn
  <2>4. Left(q, n) \in Seq(Buf)
    <3> HIDE DEF q
    <3> QED
      BY <1>3, RestType
  <2>5. (Due' \o wq'["socket"]) \o Hand("stdin")' = Left(q, n) \o <<>>
    <3> DEFINE r == Left(q, n)
    <3>1. r \in Seq(Buf) /\ wq'["socket"] = r
      BY <2>4
    <3> HIDE DEF r
    <3>2. <<>> \o r = r
      BY <3>1, NothingBehind
    <3> QED
      BY <1>1, <1>2, <3>1, <3>2 DEF r
  <2>6. TypedAt'
    BY <1>4, <1>5, <2>3, <2>5 DEF TypedAt
  <2> QED
    BY <2>6, UpThen
<1>9. Down'
  <2>1. SameDown
    BY <1>1, <1>5 DEF SameDown
  <2>2. ~CutShort
    BY DEF CutShort, OnTls
  <2> QED
    BY <1>5, <2>1, <2>2, DownFrame DEF BaseInv
<1>10. NotAhead' /\ CloseIsLast'
  BY <1>5, <1>7, <1>8, OrderedStep
<1>11. StrangersGetNothing'
  BY <1>5, StrangersStep DEF ClientInv, Session
<1> QED
  BY <1>6, <1>7, <1>8, <1>9, <1>10, <1>11 DEF ClientInv

LEMMA HeardType ==
  ASSUME ClientInv
  PROVE  Heard \in Seq(Unit)
<1>1. given["socket"] \in Seq(Unit) /\ input["socket"] \in Seq(Unit)
  BY PartTypes DEF ClientInv, BaseInv, TlsClientTypeOK
<1>2. Len(input["socket"]) <= Len(given["socket"])
  BY DEF ClientInv, Session
<1>3. Len(input["socket"]) # Len(given["socket"]) => Head(given["socket"]) \in Unit
  BY <1>1, <1>2
<1> QED
  BY <1>3 DEF Heard

\* A write to the standard output.
LEMMA StdoutWriteKeeps ==
  ASSUME ClientInv, BaseInv', phase = "write", "stdout" \notin gone,
         wq["stdout"] # <<>>, NEW n \in Nat, n <= Len(Head(wq["stdout"])),
         wq'["stdout"] = Left(wq["stdout"], n), wq'["socket"] = wq["socket"],
         output'["stdout"] = output["stdout"] \o SubSeq(Head(wq["stdout"]), 1, n),
         output'["socket"] = output["socket"],
         UNCHANGED <<cur, isOpen, rq, tty, input, gone, given, taken, state, ssl,
                     stalled>>
  PROVE  ClientInv'
<1> USE Ends
<1>0. ClientTypeOK /\ TlsClientTypeOK /\ InUse
  BY DEF ClientInv, BaseInv, TlsClientTypeOK
<1> DEFINE q == wq["stdout"]
           b == SubSeq(Head(q), 1, n)
<1>1. rq = <<>> /\ \A s : Hand(s) = <<>> /\ Hand(s)' = <<>>
  BY <1>0 DEF InUse, Hand
<1>2. q \in Seq(Buf) /\ q # <<>> /\ n <= Len(Head(q)) /\ b \in Seq(Unit)
  <2>1. q \in Seq(Buf) /\ q # <<>>
    BY <1>0, PartTypes
  <2>2. Head(q) \in Buf
    BY <2>1, HeadTailProperties
  <2>3. Head(q) \in Seq(Unit)
    BY <2>2 DEF Buf
  <2>4. b \in Seq(Unit)
    BY <2>3, CutSeq
  <2> QED
    BY <2>1, <2>4
<1>3. Out("stdout")' = Out("stdout") \o b
  <2> HIDE DEF b
  <2>1. output'["stdout"] = output["stdout"] \o b
    BY DEF b
  <2> QED
    BY <1>0, <1>2, <2>1, WrittenOut
<1>4. /\ OnTls' = OnTls /\ HasFlight' = HasFlight
      /\ Out("socket")' = Out("socket") /\ Due' = Due
      /\ Farewell' = Farewell /\ Heard' = Heard /\ CutShort' = CutShort
  BY DEF OnTls, Out, HasFlight, Due, Farewell, Heard, CutShort
<1>5. Session'
  BY <1>4 DEF ClientInv, Session, Shaken, OnTls
<1>6. Terminal'
  BY <1>4 DEF ClientInv, Terminal
<1>7. Up'
  <2>1. SameUp
    BY <1>1, <1>4 DEF SameUp
  <2> QED
    BY <2>1, UpFrame DEF BaseInv
<1>8. Down'
  <2>1. SUFFICES ASSUME isOpen["stdout"], "socket" \in gone => ~OnTls, ~CutShort
                 PROVE  SaidAt'
    BY <1>4, DownThen
  <2> DEFINE r == Left(q, n)
             e == Farewell
             out == Heard \o Out("stdout")
  <2>2. r \in Seq(Buf) /\ e \in Seq(Buf) /\ q \o <<>> = q /\ r \o <<>> = r
    <3>1. r \in Seq(Buf)
      <4> HIDE DEF q
      <4> QED
        BY <1>2, RestType
    <3>2. e \in Seq(Buf)
      BY <1>0, PartTypes
    <3> HIDE DEF r, q
    <3> QED
      BY <1>2, <3>1, <3>2, NothingBehind
  <2>3. out \in Seq(Unit) /\ Heard' \o Out("stdout")' = out \o b
    <3> DEFINE a == Heard
               o == Out("stdout")
    <3>1. a \in Seq(Unit) /\ o \in Seq(Unit)
      BY <1>0, OutType, HeardType
    <3>2. Heard' = a /\ Out("stdout")' = o \o b
      BY <1>3, <1>4
    <3> HIDE DEF a, o, b
    <3>5. b \in Seq(Unit)
      BY <1>2
    <3>3. a \o (o \o b) = (a \o o) \o b
      BY <3>1, <3>5, ConcatAssociative, SMTT(30)
    <3>4. a \o o \in Seq(Unit)
      BY <3>1
    <3> QED
      BY <3>2, <3>3, <3>4 DEF a, o
  <2>4. Whole(given["socket"], out, q \o e, input["socket"])
    BY <1>1, <2>1, <2>2, NowAt DEF SaidAt
  <2>5. given["socket"] \in Seq(Unit) /\ input["socket"] \in Seq(Unit)
    BY <1>0, PartTypes
  <2> HIDE DEF q, e, out, r
  <2>6. Whole(given["socket"], out \o b, r \o e, input["socket"])
    BY <1>2, <2>2, <2>3, <2>4, <2>5, WriteOn DEF b, r
  <2>7. /\ wq'["stdout"] = r /\ Farewell' = e
        /\ UNCHANGED <<given["socket"], input["socket"]>>
    BY <1>4 DEF r, q, e
  <2> HIDE DEF b
  <2> QED
    BY <1>1, <2>2, <2>3, <2>6, <2>7 DEF SaidAt
<1>9. NotAhead' /\ CloseIsLast'
  BY <1>4, <1>6, <1>7, NoneOut, OrderedStep
<1>10. StrangersGetNothing'
  BY <1>4, NoneOut, StrangersStep
<1> QED
  BY <1>5, <1>6, <1>7, <1>8, <1>9, <1>10 DEF ClientInv

LEMMA WriteSomeKeeps ==
  ASSUME ClientInv, BaseInv', WriteSome, ~InStream,
         UNCHANGED <<state, ssl, stalled>>
  PROVE  ClientInv'
<1> USE Ends
<1>0. ClientTypeOK /\ TlsClientTypeOK /\ InUse /\ cur \in Sink
  BY DEF ClientInv, BaseInv, TlsClientTypeOK, InUse, WriteSome, CanWrite
<1> DEFINE buf == Head(wq[cur])
           n == Min({Len(buf), WriteBuf, Room(cur)})
<1>1. /\ wq[cur] \in Seq(Buf) /\ wq[cur] # <<>> /\ n \in 1 .. Len(buf)
      /\ Len(buf) \in Nat
  BY <1>0, WriteLen DEF WriteSome
<1>2. /\ output' = [output EXCEPT ![cur] = @ \o SubSeq(buf, 1, n)]
      /\ wq' = [wq EXCEPT ![cur] = Rest(buf, n) \o Tail(@)]
      /\ phase = "write" /\ isOpen[cur] /\ cur \notin gone
      /\ UNCHANGED <<cur, isOpen, rq, tty, input, gone, given, taken, state, ssl>>
  BY DEF WriteSome, CanWrite
<1> HIDE DEF n
<1>3. n \in Nat /\ n <= Len(Head(wq[cur]))
  BY <1>1
<1>4. Rest(Head(wq[cur]), n) \o Tail(wq[cur]) = Left(wq[cur], n)
  BY <1>1, <1>3, RestType
<1>5. /\ wq'[cur] = Left(wq[cur], n) /\ \A s \in Sink : s # cur => wq'[s] = wq[s]
      /\ output'[cur] = output[cur] \o SubSeq(Head(wq[cur]), 1, n)
      /\ \A s \in Sink : s # cur => output'[s] = output[s]
  BY <1>0, <1>2, <1>4 DEF ClientTypeOK
<1>6. CASE cur = "socket"
  <2>1. state = "START"
    BY <1>2, <1>6, <1>1 DEF InStream, CanWrite
  <2> QED
    BY <1>1, <1>2, <1>3, <1>5, <1>6, <2>1, SocketWriteKeeps DEF OnTls
<1>7. CASE cur = "stdout"
  BY <1>1, <1>2, <1>3, <1>5, <1>7, StdoutWriteKeeps
<1> QED
  BY <1>0, <1>6, <1>7

LEMMA WriteRecordKeeps ==
  ASSUME ClientInv, WriteRecord
  PROVE  ClientInv'
<1>1. /\ BaseInv' /\ cur = "socket"
      /\ wq["socket"] \in Seq(Buf) /\ wq["socket"] # <<>>
      /\ Head(wq["socket"]) \in Buf
      /\ wq'["socket"] = Left(wq["socket"], 1)
      /\ wq'["stdout"] = wq["stdout"]
      /\ output'["socket"] = output["socket"] \o SubSeq(Head(wq["socket"]), 1, 1)
      /\ output'["stdout"] = output["stdout"]
  BY WriteRecordBase DEF ClientInv
<1>2. 1 \in Nat /\ 1 <= Len(Head(wq["socket"]))
  BY <1>1 DEF Buf
<1>3. /\ phase = "write" /\ isOpen["socket"] /\ "socket" \notin gone /\ state = "DATA"
      /\ UNCHANGED <<cur, isOpen, rq, tty, input, gone, given, taken, state, ssl>>
  BY DEF WriteRecord, Sending, CanWrite, InCall, InStream, CanEmit, Goes, tlsVars
<1> QED
  BY <1>1, <1>2, <1>3, SocketWriteKeeps

-----------------------------------------------------------------------------
(* The handshake.                                                          *)

LEMMA SingleCut == \A u \in Unit : SubSeq(<<u>>, 1, 1) = <<u>>
<1> SUFFICES ASSUME NEW u \in Unit PROVE SubSeq(<<u>>, 1, 1) = <<u>>
  OBVIOUS
<1> DEFINE one == <<u>>
<1>1. one \in Seq(Unit) /\ 1 \in 1 .. Len(one) /\ one[1] = u
  OBVIOUS
<1> HIDE DEF one
<1>2. SubSeq(one, 1, 1) = <<one[1]>>
  BY <1>1, FirstOf
<1> QED
  BY <1>1, <1>2 DEF one

\* The next flight of the program is the first of what is due.
LEMMA DueFirst ==
  ASSUME ClientTypeOK, HandshakeWrite
  PROVE  \E u \in {Hello, Finished} :
           /\ Emit(u) /\ Due # <<>> /\ Head(Due) = <<u>>
           /\ Left(Due, 1) = Due' /\ SubSeq(Head(Due), 1, 1) = <<u>>
<1>1. CASE ssl = "hello"
  <2>1. /\ Emit(Hello) /\ Due = << <<Hello>>, <<Finished>> >>
        /\ Due' = << <<Finished>> >>
    BY <1>1 DEF HandshakeWrite, InCall, InStream, Due
  <2>2. /\ Head(Due) = <<Hello>> /\ Tail(Due) = << <<Finished>> >> /\ Due # <<>>
        /\ Len(<<Hello>>) = 1
    BY <2>1
  <2>3. SubSeq(<<Hello>>, 1, 1) = <<Hello>>
    BY SingleCut, Kinds
  <2> QED
    BY <2>1, <2>2, <2>3 DEF Left
<1>2. CASE ssl = "finished"
  <2>1. Emit(Finished) /\ Due = << <<Finished>> >> /\ Due' = <<>>
    BY <1>2 DEF HandshakeWrite, InCall, InStream, Due
  <2>2. /\ Head(Due) = <<Finished>> /\ Tail(Due) = <<>> /\ Due # <<>>
        /\ Len(<<Finished>>) = 1
    BY <2>1
  <2>3. SubSeq(<<Finished>>, 1, 1) = <<Finished>>
    BY SingleCut, Kinds
  <2> QED
    BY <2>1, <2>2, <2>3 DEF Left
<1> QED
  BY <1>1, <1>2 DEF HandshakeWrite, Answering

\* Out of the socket goes one unit more.
LEMMA OneMoreOut ==
  ASSUME ClientTypeOK, NEW u \in Unit, Emit(u), taken' = taken
  PROVE  /\ Out("socket")' = Out("socket") \o <<u>>
         /\ Out("stdout")' = Out("stdout")
<1>1. output["socket"] \in Seq(Unit) /\ <<u>> \in Seq(Unit)
  BY Ends DEF ClientTypeOK
<1>2. /\ output'["socket"] = Append(output["socket"], u)
      /\ output'["stdout"] = output["stdout"]
  BY EmitType
<1>3. output'["socket"] = output["socket"] \o <<u>>
  BY <1>1, <1>2, AppendIsConcat
<1> QED
  BY <1>1, <1>2, <1>3, WrittenOut, Ends DEF Out

\* What belongs to the protocol is not CLOSE.
LEMMA ProtocolTerminal ==
  ASSUME ClientTypeOK, Terminal, isOpen'["socket"] => isOpen["socket"], tty' = tty,
         rq' = rq \/ rq' = <<>>, cur' = cur, wq' = wq, taken' = taken,
         NEW u \in Protocol, Emit(u)
  PROVE  Terminal'
<1> SUFFICES ASSUME tty PROVE Terminal'
  BY DEF Terminal
<1> DEFINE out == Out("socket")
<1>1. out \in Seq(Unit) /\ u \in Unit /\ u # Close
  BY Kinds, OutType
<1>2. Out("socket")' = out \o <<u>>
  BY <1>1, OneMoreOut
<1>3. ASSUME isOpen["socket"], NEW j \in DOMAIN Out("socket")'
      PROVE  Out("socket")'[j] # Close
  <2>1. \A k \in DOMAIN out : out[k] # Close
    BY <1>3 DEF Terminal
  <2> HIDE DEF out
  <2>2. \/ j \in DOMAIN out /\ (out \o <<u>>)[j] = out[j]
        \/ (out \o <<u>>)[j] = u
    BY <1>1, <1>2, <1>3
  <2> QED
    BY <1>1, <1>2, <2>1, <2>2
<1>4. \A i \in DOMAIN <<>> : FALSE
  OBVIOUS
<1>5. cur' = "stdin" => \A i \in DOMAIN rq' : Len(rq'[i]) = 1
  BY <1>4 DEF Terminal
<1> QED
  BY <1>3, <1>5 DEF Terminal

LEMMA HandshakeWriteKeeps ==
  ASSUME ClientInv, HandshakeWrite
  PROVE  ClientInv'
<1> USE Ends
<1>0. ClientTypeOK /\ TlsClientTypeOK /\ InUse /\ BaseInv'
  BY HandshakeBase DEF ClientInv, BaseInv, TlsClientTypeOK
<1>1. PICK u \in {Hello, Finished} :
        /\ Emit(u) /\ Due # <<>> /\ Head(Due) = <<u>>
        /\ Left(Due, 1) = Due' /\ SubSeq(Head(Due), 1, 1) = <<u>>
  BY <1>0, DueFirst
<1>2. u \in Protocol /\ u \in Unit
  BY Kinds
<1>3. /\ UNCHANGED <<cur, handlers, isOpen, rq, wq, tty, input, gone, given, taken>>
      /\ isOpen["socket"] /\ "socket" \notin gone
      /\ cur = "socket" /\ state = "HANDSHAKE" /\ output'["stdout"] = output["stdout"]
      /\ state' \in {"HANDSHAKE", "DATA"}
      /\ ssl = "hello" => ssl' = "flight" /\ state' = state
      /\ ssl # "hello" => ssl = "finished" /\ ssl' = "ok"
  BY <1>0, <1>1, <1>2, EmitType
     DEF HandshakeWrite, InCall, InStream, CanEmit, Goes, Answering, progVars
<1>4. /\ OnTls /\ OnTls' /\ HasFlight' = HasFlight /\ Opening' = Opening
      /\ Farewell' = Farewell /\ Heard' = Heard /\ \A s : Hand(s)' = Hand(s)
  BY <1>3 DEF OnTls, HasFlight, Opening, Farewell, Heard, Hand
<1>5. Out("socket")' = Out("socket") \o <<u>> /\ Out("stdout")' = Out("stdout")
  BY <1>0, <1>1, <1>2, <1>3, OneMoreOut
<1>6. Session'
  <2>1. ssl = "hello" => Session'
    BY <1>3, <1>4 DEF ClientInv, Session, Shaken
  <2>2. ssl # "hello" => Session'
    BY <1>3, <1>4 DEF ClientInv, Session, Shaken
  <2> QED
    BY <2>1, <2>2
<1>7. Terminal'
  BY <1>0, <1>1, <1>2, <1>3, ProtocolTerminal DEF ClientInv
<1>8. Up'
  <2> DEFINE first == Due
             r == wq["socket"]
             h == Hand("stdin")
             rest == r \o h
  <2>1. first \in Seq(Buf) /\ r \in Seq(Buf) /\ h \in Seq(Buf) /\ Due' \in Seq(Buf)
    <3>1. (Due \in Seq(Buf))'
      BY OpeningIs, PTL
    <3> QED
      BY <1>0, <3>1, PartTypes, OpeningIs
  <2>2. Whole(Opening \o given["stdin"], Out("socket"), (first \o r) \o h, input["stdin"])
    BY <1>3, NowAt DEF TypedAt
  <2>3. /\ Opening \o given["stdin"] \in Seq(Unit) /\ Out("socket") \in Seq(Unit)
        /\ input["stdin"] \in Seq(Unit)
    BY <1>0, PartTypes, OutType
  <2>4. /\ first # <<>> /\ Head(first) = <<u>> /\ Left(first, 1) = Due'
        /\ SubSeq(Head(first), 1, 1) = <<u>>
    BY <1>1
  <2> HIDE DEF first, r, h
  <2>5. rest \in Seq(Buf)
    BY <2>1
  <2>6. (first \o r) \o h = first \o rest /\ (Due' \o r) \o h = Due' \o rest
    <3>1. \A x, y, z \in Seq(Buf) : (x \o y) \o z = x \o (y \o z)
      BY ConcatAssociative
    <3>2. (first \o r) \o h = first \o (r \o h)
      <4>1. first \in Seq(Buf) /\ r \in Seq(Buf) /\ h \in Seq(Buf)
        BY <2>1
      <4> QED
        <5>1. \A y, z \in Seq(Buf) : (first \o y) \o z = first \o (y \o z)
          BY <4>1, <3>1
        <5> QED
          BY <4>1, <5>1
    <3>3. (Due' \o r) \o h = Due' \o (r \o h)
      BY <2>1, <3>1, SMTT(30)
    <3> QED
      BY <3>2, <3>3
  <2> HIDE DEF rest
  <2>7. 1 \in Nat /\ 1 <= Len(Head(first))
    BY <2>4
  <2>8. Whole(Opening \o given["stdin"], Out("socket") \o SubSeq(Head(first), 1, 1),
              Left(first, 1) \o rest, input["stdin"])
    BY <2>1, <2>2, <2>3, <2>4, <2>5, <2>6, <2>7, WriteOn
  <2>9. TypedAt'
    BY <1>3, <1>4, <1>5, <2>4, <2>6, <2>8 DEF TypedAt, r, h
  <2> QED
    BY <1>0, <2>9, UpThen
<1>9. Down'
  <2>1. SameDown
    BY <1>3, <1>4, <1>5 DEF SameDown
  <2>2. ~CutShort
    BY <1>3 DEF CutShort
  <2> QED
    BY <1>0, <1>3, <1>4, <2>1, <2>2, DownFrame DEF BaseInv
<1>10. NotAhead' /\ CloseIsLast'
  BY <1>0, <1>3, <1>4, <1>7, <1>8, OrderedStep
<1>11. StrangersGetNothing'
  <2>1. NoMoreData
    BY <1>1, <1>2, <1>3, ProtocolOut DEF ClientInv
  <2> QED
    BY <1>4, <2>1, StrangersStep
<1> QED
  BY <1>0, <1>6, <1>7, <1>8, <1>9, <1>10, <1>11 DEF ClientInv

LEMMA HeadIsHeard ==
  ASSUME NEW s \in Seq(Unit), s # <<>>
  PROVE  Whole(s, <<Head(s)>>, <<>>, Tail(s))
<1>1. /\ <<Head(s)>> \in Seq(Unit) /\ Len(<<Head(s)>>) = 1 /\ 1 \in DOMAIN s
      /\ \A i \in DOMAIN <<Head(s)>> : i = 1 /\ <<Head(s)>>[i] = s[1]
  OBVIOUS
<1>2. /\ Len(s) \in Nat /\ 1 \in 0 .. Len(s) /\ 1 + Len(Tail(s)) = Len(s)
      /\ \A i \in DOMAIN Tail(s) : 1 + i \in DOMAIN s /\ Tail(s)[i] = s[1 + i]
  OBVIOUS
<1>3. StandsAt(<<Head(s)>>, s, 0)
  <2>1. 0 + 1 = 1
    OBVIOUS
  <2> QED
    BY <1>1, <2>1 DEF StandsAt
<1>4. StandsAt(Tail(s), s, 1)
  BY <1>2 DEF StandsAt
<1>5. Cuts(<<>>, s, 1, 1)
  BY <1>2, CutsNone
<1> QED
  BY <1>1, <1>2, <1>3, <1>4, <1>5 DEF Whole

\* The server's part of the handshake is taken, whatever it is.
LEMMA FirstHeard ==
  ASSUME ClientInv, state = "HANDSHAKE", ssl = "flight", cur = "socket",
         Received # <<>>, TakeRecord,
         output'["stdout"] = output["stdout"], rq' = <<>>,
         UNCHANGED <<cur, wq, given, taken, state>>
  PROVE  SaidAt'
<1> USE Ends
<1> DEFINE g == given["socket"]
<1>0. ClientTypeOK
  BY DEF ClientInv, BaseInv, TlsClientTypeOK
<1>1. /\ input["socket"] = g /\ g # <<>> /\ input'["socket"] = Tail(g)
      /\ g \in Seq(Unit) /\ given'["socket"] = g
  <2>1. input["socket"] = given["socket"]
    BY DEF ClientInv, Session
  <2>2. input'["socket"] = Tail(input["socket"])
    BY <1>0, TakeType
  <2> QED
    BY <1>0, <2>1, <2>2 DEF Received, ClientTypeOK
<1> HIDE DEF g
<1>2. Len(Tail(g)) = Len(g) - 1 /\ Len(g) \in Nat
  BY <1>1
<1>3. Heard' = <<Head(g)>>
  <2>1. Len(Tail(g)) # Len(g) /\ state' # "START"
    BY <1>2
  <2> QED
    BY <1>1, <2>1 DEF Heard
<1>4. Out("stdout")' = <<>>
  <2>1. taken'["stdout"] = <<>> /\ output'["stdout"] = <<>>
    BY DEF ClientInv, Session
  <2> QED
    BY <2>1 DEF Out
<1>5. wq'["stdout"] = <<>> /\ Hand("socket")' = <<>> /\ Farewell' = <<>>
  BY DEF ClientInv, Session, Hand, Farewell
<1>6. Whole(g, <<Head(g)>>, <<>>, Tail(g))
  BY <1>1, HeadIsHeard
<1>7. <<Head(g)>> \o <<>> = <<Head(g)>> /\ (<<>> \o <<>>) \o <<>> = <<>>
  BY <1>1
<1> QED
  BY <1>1, <1>3, <1>4, <1>5, <1>6, <1>7 DEF SaidAt

LEMMA HandshakeReadKeeps ==
  ASSUME ClientInv, HandshakeRead
  PROVE  ClientInv'
<1> USE Ends
<1>0. ClientTypeOK /\ TlsClientTypeOK /\ InUse /\ BaseInv'
  BY HandshakeBase DEF ClientInv, BaseInv, TlsClientTypeOK
<1> DEFINE g == given["socket"]
<1>1. /\ UNCHANGED <<cur, handlers, isOpen, rq, wq, tty, output, gone, given, taken,
                     state>>
      /\ cur = "socket" /\ state = "HANDSHAKE" /\ OnTls /\ OnTls'
      /\ ssl = "flight" /\ ssl' = "finished"
      /\ Received # <<>> /\ Head(Received) = Flight /\ TakeRecord
  BY DEF HandshakeRead, InCall, InStream, Verified, Begins, Trusted, progVars, OnTls
<1>2. /\ input["socket"] = g /\ g # <<>> /\ Head(g) = Flight
      /\ input'["socket"] = Tail(g) /\ input'["stdin"] = input["stdin"]
      /\ g \in Seq(Unit)
  <2>1. input["socket"] = given["socket"]
    BY <1>1 DEF ClientInv, Session
  <2>2. /\ input'["socket"] = Tail(input["socket"])
        /\ input'["stdin"] = input["stdin"]
    BY <1>0, <1>1, TakeType
  <2> QED
    BY <1>0, <1>1, <2>1, <2>2 DEF Received, ClientTypeOK
<1>3. /\ HasFlight' = HasFlight /\ Opening' = Opening /\ Due' = Due
      /\ Farewell' = Farewell /\ Out("socket")' = Out("socket")
      /\ Out("stdout")' = Out("stdout") /\ \A s : Hand(s)' = Hand(s)
  BY <1>1 DEF OnTls, HasFlight, Opening, Due, Farewell, Out, Hand
<1>4. /\ Len(Tail(g)) = Len(g) - 1 /\ Len(g) \in Nat
      /\ \A i \in DOMAIN Tail(g) : i + 1 \in DOMAIN g /\ i + 1 > 1
                                   /\ Tail(g)[i] = g[i + 1]
      /\ 1 \in DOMAIN g /\ g[1] = Flight
  BY <1>2
<1>5. Session'
  <2>1. \A i \in DOMAIN g : i > 1 => g[i] \in Data \cup {Bye}
    BY <1>1 DEF ClientInv, Session
  <2>2. \A i \in DOMAIN Tail(g) : Tail(g)[i] \in Data \cup {Bye}
    BY <1>4, <2>1
  <2>3. HasFlight
    BY <1>4 DEF HasFlight
  <2>4. Len(Tail(g)) < Len(g)
    BY <1>4
  <2>5. given' = given /\ given'["socket"] = g /\ input'["socket"] = Tail(g)
    BY <1>1, <1>2
  <2>6. /\ rq' = <<>> /\ wq'["stdout"] = <<>> /\ taken'["stdout"] = <<>>
        /\ output'["stdout"] = <<>>
    BY <1>1 DEF ClientInv, Session
  <2> HIDE DEF g
  <2> QED
    BY <1>1, <1>3, <2>1, <2>2, <2>3, <2>4, <2>5, <2>6 DEF Session, Shaken
<1>6. Terminal'
  BY <1>1, <1>3 DEF ClientInv, Terminal
<1>7. Up'
  <2>1. SameUp
    BY <1>1, <1>2, <1>3 DEF SameUp
  <2> QED
    BY <1>0, <1>1, <2>1, UpFrame DEF BaseInv
<1>8. Down'
  <2>1. rq' = <<>>
    BY <1>1 DEF ClientInv, Session
  <2>2. SaidAt'
    BY <1>1, <2>1, FirstHeard
  <2> QED
    BY <1>0, <2>2, DownThen
<1>9. NotAhead' /\ CloseIsLast'
  BY <1>0, <1>1, <1>3, <1>6, <1>7, NoneOut, OrderedStep
<1>10. StrangersGetNothing'
  BY <1>1, <1>3, NoneOut, StrangersStep
<1> QED
  BY <1>0, <1>5, <1>6, <1>7, <1>8, <1>9, <1>10 DEF ClientInv

\* The session is established, and the next record is taken.
LEMMA TakenSession ==
  ASSUME ClientInv, state = "DATA", isOpen["socket"], Received # <<>>, TakeRecord
  PROVE  /\ Shaken /\ ssl = "ok" /\ Heard = <<Head(given["socket"])>>
         /\ \A i \in DOMAIN input'["socket"] :
              input'["socket"][i] \in Data \cup {Bye}
         /\ Len(input'["socket"]) < Len(given["socket"])
         /\ input'["socket"] = Tail(input["socket"])
         /\ input'["stdin"] = input["stdin"]
         /\ input["socket"] \in Seq(Unit) /\ input["socket"] # <<>>
         /\ Head(input["socket"]) \in Data \cup {Bye}
<1> DEFINE in == input["socket"]
           g == given["socket"]
<1>0. ClientTypeOK /\ TlsClientTypeOK
  BY DEF ClientInv, BaseInv, TlsClientTypeOK
<1>1. ssl = "ok" /\ Shaken
  BY <1>0 DEF ClientInv, Session, TlsClientTypeOK, Shaken, OnTls
<1>2. /\ \A i \in DOMAIN in : in[i] \in Data \cup {Bye}
      /\ Len(in) < Len(g)
  BY <1>1 DEF ClientInv, Session
<1>3. /\ in \in Seq(Unit) /\ g \in Seq(Unit) /\ in # <<>>
      /\ input'["socket"] = Tail(in) /\ input'["stdin"] = input["stdin"]
  BY <1>0, TakeType, Ends DEF ClientTypeOK, Received
<1>4. Heard = <<Head(g)>>
  <2>1. Len(in) \in Nat /\ Len(g) \in Nat
    BY <1>3
  <2>2. Len(in) # Len(g)
    BY <1>2, <2>1
  <2> QED
    BY <1>1, <2>2 DEF Heard, Shaken, OnTls
<1> HIDE DEF in, g
<1>5. /\ \A i \in DOMAIN Tail(in) : i + 1 \in DOMAIN in /\ Tail(in)[i] = in[i + 1]
      /\ Len(Tail(in)) = Len(in) - 1 /\ Len(in) \in Nat /\ Len(g) \in Nat
      /\ Head(in) = in[1] /\ 1 \in DOMAIN in
  BY <1>3
<1>6. Len(Tail(in)) < Len(g)
  BY <1>2, <1>5
<1> QED
  BY <1>1, <1>2, <1>3, <1>4, <1>5, <1>6 DEF in, g

LEMMA TakeOn ==
  ASSUME NEW s \in Seq(Unit), NEW out \in Seq(Unit), NEW p \in Seq(Buf),
         NEW in \in Seq(Unit), Whole(s, out, p, in), in # <<>>
  PROVE  Whole(s, out, Append(p, <<Head(in)>>), Tail(in))
BY TakeWhole, ClientsBuffers

LEMMA ReadRecordKeeps ==
  ASSUME ClientInv, ReadRecord
  PROVE  ClientInv'
<1> USE Ends
<1>0. /\ ClientTypeOK /\ TlsClientTypeOK /\ InUse /\ BaseInv'
      /\ rq' = Append(rq, <<Head(input["socket"])>>)
  BY ReadRecordBase DEF ClientInv, BaseInv, TlsClientTypeOK
<1>1. /\ UNCHANGED <<cur, handlers, isOpen, wq, tty, output, gone, given, taken,
                     state, ssl>>
      /\ cur = "socket" /\ state = "DATA" /\ OnTls /\ OnTls' /\ isOpen["socket"]
      /\ Received # <<>> /\ TakeRecord
  BY DEF ReadRecord, Reading, InCall, InStream, Begins, tlsVars, OnTls
<1>2. /\ Shaken /\ ssl = "ok" /\ Heard = <<Head(given["socket"])>>
      /\ \A i \in DOMAIN input'["socket"] : input'["socket"][i] \in Data \cup {Bye}
      /\ Len(input'["socket"]) < Len(given["socket"])
      /\ input'["socket"] = Tail(input["socket"])
      /\ input'["stdin"] = input["stdin"]
      /\ input["socket"] \in Seq(Unit) /\ input["socket"] # <<>>
      /\ Head(input["socket"]) \in Data \cup {Bye}
  BY <1>1, TakenSession
<1>3. /\ HasFlight' = HasFlight /\ Due' = Due
      /\ Farewell = <<>> /\ Farewell' = <<>> /\ Out("socket")' = Out("socket")
      /\ Out("stdout")' = Out("stdout") /\ Hand("stdin")' = Hand("stdin")
      /\ Hand("socket") = rq /\ Hand("socket")' = rq'
  BY <1>1 DEF OnTls, HasFlight, Due, Farewell, Out, Hand
<1>4. Len(input'["socket"]) \in Nat /\ Len(given["socket"]) \in Nat
  <2>1. given["socket"] \in Seq(Unit)
    BY <1>0, PartTypes
  <2> QED
    BY <1>2, <2>1
<1>5. Heard' = Heard
  <2>1. Len(input'["socket"]) # Len(given["socket"])
    BY <1>2, <1>4
  <2> QED
    BY <1>1, <1>2, <2>1 DEF Heard, OnTls
<1>6. Session'
  BY <1>1, <1>2, <1>3, <1>4 DEF ClientInv, Session, Shaken
<1>7. Terminal'
  BY <1>1, <1>3 DEF ClientInv, Terminal
<1>8. Up'
  <2>1. SameUp
    BY <1>1, <1>2, <1>3 DEF SameUp
  <2> QED
    BY <1>0, <1>1, <2>1, UpFrame DEF BaseInv
<1>9. Down'
  <2>1. SUFFICES ASSUME isOpen["stdout"], "stdout" \notin gone, "socket" \notin gone
                 PROVE  SaidAt'
    BY <1>0, <1>1, DownThen
  <2>0. ~CutShort
    BY <1>1 DEF CutShort
  <2> DEFINE r == wq["stdout"]
             q == rq
             in == input["socket"]
             e == <<Head(in)>>
             p == r \o q
             g == given["socket"]
             out == Heard \o Out("stdout")
  <2>2. /\ r \in Seq(Buf) /\ q \in Seq(Buf) /\ g \in Seq(Unit)
        /\ in \in Seq(Unit) /\ in # <<>>
    BY <1>0, <1>2, PartTypes
  <2>3. out \in Seq(Unit)
    BY <1>0, HeardType, OutType
  <2>4. e \in Buf /\ rq' = Append(q, e)
    <3>1. Head(in) \in Unit
      BY <2>2
    <3> QED
      BY <1>0, <3>1, SingleIsBuf
  <2>5. Whole(g, out, p \o <<>>, in)
    BY <1>3, <2>0, <2>1, NowAt DEF SaidAt
  <2> HIDE DEF r, q, in, g, out
  <2>6. p \in Seq(Buf)
    BY <2>2
  <2>7. r \o Append(q, e) = Append(p, e)
    <3>1. \A x, y \in Seq(Buf) : \A z \in Buf : x \o Append(y, z) = Append(x \o y, z)
      BY ConcatAppend
    <3> HIDE DEF e
    <3> QED
      BY <2>2, <2>4, <3>1
  <2> HIDE DEF p
  <2>8. Append(p, e) \o <<>> = Append(p, e) /\ p \o <<>> = p
    <3>1. Append(p, e) \in Seq(Buf)
      BY <2>4, <2>6
    <3> QED
      BY <2>6, <3>1, NothingBehind
  <2>9. Whole(g, out, Append(p, e), Tail(in))
    BY <2>2, <2>3, <2>5, <2>6, <2>8, TakeOn
  <2>10. (wq'["stdout"] \o Hand("socket")') \o Farewell' = Append(p, e)
    BY <1>1, <1>3, <2>4, <2>7, <2>8 DEF r
  <2> HIDE DEF e
  <2> QED
    BY <1>1, <1>2, <1>3, <1>5, <2>9, <2>10 DEF SaidAt, g, out, in
<1>10. NotAhead' /\ CloseIsLast'
  BY <1>0, <1>1, <1>3, <1>7, <1>8, NoneOut, OrderedStep
<1>11. StrangersGetNothing'
  BY <1>1, <1>3, NoneOut, StrangersStep
<1> QED
  BY <1>0, <1>6, <1>7, <1>8, <1>9, <1>10, <1>11 DEF ClientInv

LEMMA ReadByeKeeps ==
  ASSUME ClientInv, ReadBye
  PROVE  ClientInv'
<1> USE Ends
<1>0. ClientTypeOK /\ TlsClientTypeOK /\ InUse /\ BaseInv'
  BY HandshakeBase DEF ClientInv, BaseInv, TlsClientTypeOK
<1>1. /\ UNCHANGED <<cur, handlers, isOpen, rq, wq, tty, output, gone, given, taken,
                     ssl>>
      /\ cur = "socket" /\ state = "DATA" /\ state' = "SHUTDOWN"
      /\ OnTls /\ OnTls' /\ isOpen["socket"]
      /\ Received # <<>> /\ TakeRecord /\ Head(Received) = Bye
  BY DEF ReadBye, Reading, InCall, InStream, Begins, progVars, OnTls
<1>2. /\ Shaken /\ ssl = "ok" /\ Heard = <<Head(given["socket"])>>
      /\ \A i \in DOMAIN input'["socket"] : input'["socket"][i] \in Data \cup {Bye}
      /\ Len(input'["socket"]) < Len(given["socket"])
      /\ input'["socket"] = Tail(input["socket"])
      /\ input'["stdin"] = input["stdin"]
      /\ input["socket"] \in Seq(Unit) /\ input["socket"] # <<>>
  BY <1>1, TakenSession
<1>3. /\ HasFlight' = HasFlight /\ Due' = Due
      /\ Farewell = <<>> /\ Farewell' = << <<Bye>> >> /\ Out("socket")' = Out("socket")
      /\ Out("stdout")' = Out("stdout") /\ \A s : Hand(s)' = Hand(s)
  BY <1>1 DEF OnTls, HasFlight, Due, Farewell, Out, Hand
<1>4. Len(input'["socket"]) \in Nat /\ Len(given["socket"]) \in Nat
  <2>1. given["socket"] \in Seq(Unit)
    BY <1>0, PartTypes
  <2> QED
    BY <1>2, <2>1
<1>5. Heard' = Heard
  <2>1. Len(input'["socket"]) # Len(given["socket"])
    BY <1>2, <1>4
  <2> QED
    BY <1>1, <1>2, <2>1 DEF Heard, OnTls
<1>6. Session'
  BY <1>1, <1>2, <1>3, <1>4 DEF ClientInv, Session, Shaken
<1>7. Terminal'
  BY <1>1, <1>3 DEF ClientInv, Terminal
<1>8. Up'
  <2>1. SameUp
    BY <1>1, <1>2, <1>3 DEF SameUp
  <2> QED
    BY <1>0, <1>1, <2>1, UpFrame DEF BaseInv
<1>9. Down'
  <2>1. SUFFICES ASSUME isOpen["stdout"], "stdout" \notin gone, "socket" \notin gone
                 PROVE  SaidAt'
    BY <1>0, <1>1, DownThen
  <2>0. ~CutShort
    BY <1>1 DEF CutShort
  <2> DEFINE in == input["socket"]
             e == <<Bye>>
             p == wq["stdout"] \o Hand("socket")
             g == given["socket"]
             out == Heard \o Out("stdout")
  <2>2. p \in Seq(Buf) /\ g \in Seq(Unit) /\ in \in Seq(Unit) /\ in # <<>>
    BY <1>0, <1>2, PartTypes
  <2>3. out \in Seq(Unit)
    BY <1>0, HeardType, OutType
  <2>4. e \in Buf /\ e = <<Head(in)>>
    BY <1>1, SingleIsBuf, Kinds DEF Received
  <2>5. Whole(g, out, p \o <<>>, in)
    BY <1>3, <2>0, <2>1, NowAt DEF SaidAt
  <2>6. p' = p
    BY <1>1, <1>3
  <2> HIDE DEF in, g, out, p
  <2>7. p \o <<>> = p
    BY <2>2, NothingBehind
  <2>8. Whole(g, out, Append(p, e), Tail(in))
    BY <2>2, <2>3, <2>4, <2>5, <2>7, TakeOn
  <2>9. p \o <<e>> = Append(p, e)
    <3> HIDE DEF e
    <3> QED
      BY <2>2, <2>4, AppendIsConcat
  <2>10. SaidAt'
    BY <1>1, <1>2, <1>3, <1>5, <2>6, <2>8, <2>9 DEF SaidAt, g, out, in, p
  <2> QED
    BY <2>10
<1>10. NotAhead' /\ CloseIsLast'
  BY <1>0, <1>1, <1>3, <1>7, <1>8, NoneOut, OrderedStep
<1>11. StrangersGetNothing'
  BY <1>1, <1>3, NoneOut, StrangersStep
<1> QED
  BY <1>0, <1>6, <1>7, <1>8, <1>9, <1>10, <1>11 DEF ClientInv

-----------------------------------------------------------------------------
(* The steps that end a session with TLS.                                  *)

LEMMA FatalKeeps ==
  ASSUME ClientInv, HandshakeFatal \/ ReadFatal \/ ShutdownDone
  PROVE  ClientInv'
<1> USE Ends
<1>0. ClientTypeOK /\ TlsClientTypeOK /\ InUse
  BY DEF ClientInv, BaseInv, TlsClientTypeOK
<1>1. /\ BaseInv' /\ InStream /\ Returns /\ Records /\ ~isOpen'["socket"]
      /\ rq' = rq \/ (HandshakeFatal /\ rq' = <<>>)
      /\ state' = state \/ (state = "SHUTDOWN" /\ state' = "STOP")
      /\ ssl' = ssl \/ ssl' = "failed"
      /\ output' = output \/ (\E u \in {Alert, Bye} : Emit(u))
      /\ input' = input \/ (Received # <<>> /\ TakeRecord /\ ~ShutdownDone)
  BY FatalBase DEF ClientInv
<1>2. /\ UNCHANGED <<cur, handlers, wq, tty, given, taken, gone>>
      /\ cur = "socket" /\ isOpen["socket"] /\ OnTls /\ OnTls' /\ ~CutShort
      /\ \A h \in Handler : isOpen'[h] => isOpen[h]
  BY <1>1 DEF Returns, Records, InStream, OnTls, CutShort, HandshakeFatal, ReadFatal,
              ShutdownDone, InCall, Reading
<1>3. NoMoreData /\ output'["stdout"] = output["stdout"]
  <2>1. CASE output' = output
    <3>1. Out("socket")' = Out("socket")
      BY <1>2, <2>1 DEF Out
    <3> QED
      BY <2>1, <3>1, NoneOut
  <2>2. ASSUME NEW u \in {Alert, Bye}, Emit(u)
        PROVE  NoMoreData /\ output'["stdout"] = output["stdout"]
    <3>1. u \in Protocol /\ u \in Unit
      BY Kinds
    <3> QED
      BY <1>0, <1>2, <2>2, <3>1, ProtocolOut, EmitType DEF ClientInv
  <2> QED
    BY <1>1, <2>1, <2>2
<1>4. HasFlight' = HasFlight /\ Out("stdout")' = Out("stdout")
  BY <1>2, <1>3 DEF HasFlight, Out
<1>5. ASSUME ShutdownDone PROVE Session' /\ Down'
  <2>1. /\ input' = input /\ rq' = rq /\ ssl' = ssl
        /\ state = "SHUTDOWN" /\ state' = "STOP"
    BY <1>1, <1>5 DEF ShutdownDone, InCall, HandshakeFatal, Eof
  <2>2. Session'
    BY <1>1, <1>2, <1>3, <1>4, <2>1 DEF ClientInv, Session, Shaken
  <2>3. SameDown
    BY <1>2, <1>4, <2>1 DEF SameDown, Heard, Farewell, Hand
  <2> QED
    BY <1>1, <1>2, <2>2, <2>3, DownFrame DEF BaseInv
<1>6. ASSUME ReadFatal PROVE Session' /\ Down'
  <2>1. /\ state = "DATA" /\ state' = "DATA" /\ ssl' = "failed"
        /\ ~Begins(Data \cup {Bye}) /\ rq' = rq
    BY <1>6 DEF ReadFatal, Reading, InCall, Fatal, Eof
  <2>2. input' = input
    <3>1. Shaken
      BY <1>0, <1>2, <2>1 DEF ClientInv, Session, TlsClientTypeOK, Shaken
    <3>2. \A i \in DOMAIN Received : Received[i] \in Data \cup {Bye}
      BY <3>1 DEF ClientInv, Session, Received
    <3>3. Received \in Seq(Unit)
      BY <1>0 DEF ClientTypeOK, Received
    <3>4. Received = <<>>
      BY <2>1, <3>2, <3>3 DEF Begins
    <3> QED
      BY <1>1, <3>4
  <2>3. Session'
    BY <1>1, <1>2, <1>3, <1>4, <2>1, <2>2 DEF ClientInv, Session, Shaken
  <2>4. SameDown
    BY <1>2, <1>4, <2>1, <2>2 DEF SameDown, Heard, Farewell, Hand
  <2> QED
    BY <1>1, <1>2, <2>3, <2>4, DownFrame DEF BaseInv
<1>7. ASSUME HandshakeFatal PROVE Session' /\ Down'
  <2>1. /\ state = "HANDSHAKE" /\ state' = state /\ ssl = "flight"
        /\ ssl' = "failed" /\ rq' = <<>> /\ rq = <<>>
    BY <1>2, <1>7
       DEF HandshakeFatal, InCall, Fatal, Throw, ClientInv, Session
  <2>2. Len(input'["socket"]) <= Len(given["socket"])
    <3>1. CASE input' = input
      BY <3>1 DEF ClientInv, Session
    <3>2. CASE Received # <<>> /\ TakeRecord
      <4>1. /\ input'["socket"] = Tail(input["socket"]) /\ input["socket"] # <<>>
            /\ input["socket"] \in Seq(Unit) /\ given["socket"] \in Seq(Unit)
        BY <1>0, <3>2, TakeType DEF Received, ClientTypeOK
      <4>2. Len(input["socket"]) <= Len(given["socket"])
        BY DEF ClientInv, Session
      <4> QED
        BY <4>1, <4>2
    <3> QED
      BY <1>1, <3>1, <3>2
  <2>3. Session'
    BY <1>1, <1>2, <1>3, <1>4, <2>1, <2>2 DEF ClientInv, Session, Shaken
  <2>4. CASE input' = input
    <3>1. SameDown
      BY <1>2, <1>4, <2>1, <2>4 DEF SameDown, Heard, Farewell, Hand
    <3> QED
      BY <1>1, <1>2, <2>3, <3>1, DownFrame DEF BaseInv
  <2>5. CASE Received # <<>> /\ TakeRecord
    <3>1. SaidAt'
      BY <1>2, <1>3, <2>1, <2>5, FirstHeard
    <3> QED
      BY <1>1, <2>3, <3>1, DownThen
  <2> QED
    BY <1>1, <2>4, <2>5
<1>8. Session' /\ Down'
  BY <1>5, <1>6, <1>7
<1>9. Terminal'
  BY <1>1, <1>2 DEF Terminal
<1>10. Up'
  BY <1>1 DEF Up
<1>11. NotAhead' /\ CloseIsLast'
  BY <1>1, <1>2, <1>3, <1>9, <1>10, OrderedStep
<1>12. StrangersGetNothing'
  BY <1>2, <1>3, <1>4, StrangersStep
<1> QED
  BY <1>1, <1>8, <1>9, <1>10, <1>11, <1>12 DEF ClientInv

LEMMA CleanupKeeps ==
  ASSUME ClientInv, TlsCleanup
  PROVE  ClientInv'
<1> USE Ends
<1>0. ClientTypeOK /\ InUse /\ BaseInv'
  BY CleanupBase DEF ClientInv, BaseInv, TlsClientTypeOK
<1>1. /\ UNCHANGED <<cur, pending, isOpen, rq, tty, input, over, output, gone, given,
                     taken, state, ssl, stalled>>
      /\ \A s \in Sink : isOpen[s] => wq'[s] = wq[s]
      /\ \A s \in Sink : wq'[s] = wq[s] \/ wq'[s] = <<>>
  BY DEF TlsCleanup, RemoveClosedHandlers, tlsVars, worldVars
<1>2. /\ HasFlight' = HasFlight /\ OnTls' = OnTls /\ CutShort' = CutShort
      /\ Due' = Due /\ Heard' = Heard /\ Farewell' = Farewell
      /\ \A s : Hand(s)' = Hand(s) /\ Out(s)' = Out(s)
  BY <1>1 DEF HasFlight, Out, OnTls, CutShort, Due, Heard, Farewell, Hand
<1>3. Session'
  BY <1>1, <1>2 DEF ClientInv, Session, Shaken, OnTls
<1>4. Terminal'
  BY <1>1, <1>2 DEF ClientInv, Terminal
<1>5. Up'
  <2>1. isOpen["socket"] => SameUp
    BY <1>1, <1>2 DEF SameUp
  <2> QED
    BY <1>0, <1>1, <2>1, UpFrame DEF BaseInv
<1>6. Down'
  <2>1. isOpen["stdout"] => SameDown
    BY <1>1, <1>2 DEF SameDown
  <2> QED
    BY <1>0, <1>1, <1>2, <2>1, DownFrame DEF BaseInv
<1>7. NotAhead' /\ CloseIsLast'
  BY <1>0, <1>1, <1>2, <1>4, <1>5, NoneOut, OrderedStep
<1>8. StrangersGetNothing'
  BY <1>2, NoneOut, StrangersStep
<1> QED
  BY <1>0, <1>3, <1>4, <1>5, <1>6, <1>7, <1>8 DEF ClientInv

-----------------------------------------------------------------------------
(* The world.                                                              *)

LEMMA ConsumeKeeps ==
  ASSUME ClientInv, BaseInv', NEW s \in Sink, Consume(s), UNCHANGED <<progVars, tlsVars>>
  PROVE  ClientInv'
<1> USE Ends
<1>0. ClientTypeOK
  BY DEF ClientInv, BaseInv, TlsClientTypeOK
<1>1. /\ UNCHANGED <<cur, rq, wq, isOpen, tty, input, over, gone, given,
                     state, ssl, stalled>>
      /\ output[s] # <<>>
      /\ output' = [output EXCEPT ![s] = Tail(@)]
      /\ taken' = [taken EXCEPT ![s] = Append(@, Head(output[s]))]
  BY DEF Consume, progVars, tlsVars
<1>2. \A r \in Sink : Out(r)' = Out(r)
  <2> TAKE r \in Sink
  <2>1. CASE r = s
    <3> DEFINE o == output[s]
               t == taken[s]
    <3>1. o \in Seq(Unit) /\ t \in Seq(Unit) /\ o # <<>>
      BY <1>0, <1>1 DEF ClientTypeOK
    <3>2. taken'[s] = Append(t, Head(o)) /\ output'[s] = Tail(o)
      BY <1>0, <1>1 DEF ClientTypeOK
    <3>3. Out(s) = t \o o
      BY DEF Out
    <3> HIDE DEF o, t
    <3>4. Append(t, Head(o)) \o Tail(o) = t \o o
      <4>1. \A x, y \in Seq(Unit) : y # <<>> => Append(x, Head(y)) \o Tail(y) = x \o y
        BY ShiftConcat
      <4> QED
        BY <3>1, <4>1
    <3> QED
      BY <2>1, <3>2, <3>3, <3>4 DEF Out
  <2>2. CASE r # s
    BY <1>0, <1>1, <2>2 DEF ClientTypeOK, Out
  <2> QED
    BY <2>1, <2>2
<1>3. /\ HasFlight' = HasFlight /\ OnTls' = OnTls /\ CutShort' = CutShort
      /\ Due' = Due /\ Heard' = Heard /\ Farewell' = Farewell
      /\ \A r : Hand(r)' = Hand(r)
  BY <1>1 DEF HasFlight, OnTls, CutShort, Due, Heard, Farewell, Hand
<1>4. Session'
  <2>1. state = "HANDSHAKE" =>
          taken'["stdout"] = taken["stdout"] /\ output'["stdout"] = output["stdout"]
    BY <1>0, <1>1 DEF ClientInv, Session, ClientTypeOK
  <2> QED
    BY <1>1, <1>3, <2>1 DEF ClientInv, Session, Shaken, OnTls
<1>5. Terminal'
  BY <1>1, <1>2 DEF ClientInv, Terminal
<1>6. Up'
  <2>1. SameUp
    BY <1>1, <1>2, <1>3 DEF SameUp
  <2> QED
    BY <1>1, <2>1, UpFrame DEF BaseInv
<1>7. Down'
  <2>1. SameDown
    BY <1>1, <1>2, <1>3 DEF SameDown
  <2> QED
    BY <1>1, <1>3, <2>1, DownFrame DEF BaseInv
<1>8. NotAhead' /\ CloseIsLast'
  BY <1>1, <1>2, <1>3, <1>5, <1>6, NoneOut, OrderedStep
<1>9. StrangersGetNothing'
  BY <1>2, <1>3, NoneOut, StrangersStep
<1> QED
  BY <1>4, <1>5, <1>6, <1>7, <1>8, <1>9 DEF ClientInv

LEMMA VanishKeeps ==
  ASSUME ClientInv, BaseInv', NEW s \in Sink, Vanish(s), UNCHANGED <<progVars, tlsVars>>
  PROVE  ClientInv'
<1> USE Ends
<1>0. ClientTypeOK
  BY DEF ClientInv, BaseInv, TlsClientTypeOK
<1>1. /\ UNCHANGED <<cur, rq, wq, isOpen, tty, input, over, given, taken,
                     state, ssl, stalled>>
      /\ gone' = gone \cup {s} /\ gone \subseteq gone'
      /\ output' = IF s = "socket" THEN [output EXCEPT ![s] = <<>>] ELSE output
  BY DEF Vanish, progVars, tlsVars
<1>2. /\ \A r \in Sink : r # s => Out(r)' = Out(r)
      /\ s = "socket" => output'[s] = <<>>
  BY <1>0, <1>1 DEF ClientTypeOK, Out
<1>3. /\ HasFlight' = HasFlight /\ OnTls' = OnTls /\ CutShort' = CutShort
      /\ Due' = Due /\ Heard' = Heard /\ Farewell' = Farewell
      /\ \A r : Hand(r)' = Hand(r)
  BY <1>1 DEF HasFlight, OnTls, CutShort, Due, Heard, Farewell, Hand
<1>4. \A j \in DOMAIN Out("socket")' :
        j \in DOMAIN Out("socket") /\ Out("socket")[j] = Out("socket")'[j]
  <2>1. CASE s = "socket"
    <3> DEFINE o == output["socket"]
               t == taken["socket"]
    <3>1. o \in Seq(Unit) /\ t \in Seq(Unit) /\ t \o <<>> = t
      BY <1>0 DEF ClientTypeOK
    <3>2. Out("socket")' = t \o <<>> /\ Out("socket") = t \o o
      BY <1>1, <1>2, <2>1 DEF Out
    <3> HIDE DEF o, t
    <3>3. Out("socket")' = t
      BY <3>1, <3>2
    <3>4. \A j \in DOMAIN t : j \in DOMAIN (t \o o) /\ (t \o o)[j] = t[j]
      BY <3>1
    <3> QED
      BY <3>2, <3>3, <3>4
  <2>2. CASE s # "socket"
    BY <1>2, <2>2
  <2> QED
    BY <2>1, <2>2
<1>5. NoMoreData
  BY <1>4 DEF NoMoreData
<1>6. Session'
  <2>1. output["stdout"] = <<>> => output'["stdout"] = <<>>
    BY <1>0, <1>1 DEF ClientTypeOK
  <2> QED
    BY <1>1, <1>3, <2>1 DEF ClientInv, Session, Shaken, OnTls
<1>7. Terminal'
  BY <1>1, <1>4 DEF ClientInv, Terminal
<1>8. Up'
  <2>1. "socket" \notin gone' => SameUp
    BY <1>1, <1>2, <1>3 DEF SameUp
  <2> QED
    BY <1>1, <2>1, UpFrame DEF BaseInv
<1>9. Down'
  <2>1. "stdout" \notin gone' => SameDown
    BY <1>1, <1>2, <1>3 DEF SameDown
  <2> QED
    BY <1>1, <1>3, <2>1, DownFrame DEF BaseInv
<1>10. NotAhead' /\ CloseIsLast'
  BY <1>1, <1>3, <1>5, <1>7, <1>8, OrderedStep
<1>11. StrangersGetNothing'
  BY <1>3, <1>5, StrangersStep
<1> QED
  BY <1>6, <1>7, <1>8, <1>9, <1>10, <1>11 DEF ClientInv

LEMMA SentOn ==
  ASSUME NEW s \in Seq(Unit), NEW out \in Seq(Unit), NEW p \in Seq(Buf),
         NEW in \in Seq(Unit), Whole(s, out, p, in), NEW u \in Unit
  PROVE  Whole(Append(s, u), out, p, Append(in, u))
BY SentWhole, ClientsBuffers

LEMMA ArriveParts ==
  ASSUME ClientInv, NEW s \in Source, Arrive(s), UNCHANGED <<progVars, tlsVars>>
  PROVE  /\ \E u \in Unit : /\ given' = [given EXCEPT ![s] = Append(@, u)]
                            /\ input' = [input EXCEPT ![s] = Append(@, u)]
         /\ UNCHANGED <<cur, rq, wq, isOpen, tty, over, output, gone, taken, state,
                        ssl, stalled>>
         /\ CutShort' = CutShort
         /\ OnTls' = OnTls /\ Due' = Due /\ Farewell' = Farewell /\ Opening' = Opening
         /\ \A r : Hand(r)' = Hand(r) /\ Out(r)' = Out(r)
<1>0. ClientTypeOK
  BY DEF ClientInv, BaseInv, TlsClientTypeOK
<1>1. UNCHANGED <<cur, rq, wq, isOpen, tty, over, output, gone, taken, state,
                     ssl, stalled>>
  BY DEF Arrive, progVars, tlsVars
<1>2. Len(given[s]) + 1 \in 1 .. MaxSend
  BY <1>0, ClientSaysAssumption DEF Arrive, ClientTypeOK
<1>3. Says[s][Len(given[s]) + 1] \subseteq Unit
  BY <1>2, ClientSaysAssumption
<1>4. \E u \in Unit : /\ given' = [given EXCEPT ![s] = Append(@, u)]
                      /\ input' = [input EXCEPT ![s] = Append(@, u)]
  BY <1>3 DEF Arrive
<1> QED
  BY <1>1, <1>4 DEF OnTls, CutShort, Due, Farewell, Opening, Hand, Out

\* A line is typed.
LEMMA TypedKeeps ==
  ASSUME ClientInv, BaseInv', Arrive("stdin"), UNCHANGED <<progVars, tlsVars>>
  PROVE  ClientInv'
<1> USE Ends
<1>0. ClientTypeOK
  BY DEF ClientInv, BaseInv, TlsClientTypeOK
<1> DEFINE g == given["stdin"]
           in == input["stdin"]
<1>1. PICK u \in Unit : /\ given' = [given EXCEPT !["stdin"] = Append(@, u)]
                        /\ input' = [input EXCEPT !["stdin"] = Append(@, u)]
  BY ArriveParts
<1>2. /\ UNCHANGED <<cur, rq, wq, isOpen, tty, over, output, gone, taken, state,
                     ssl, stalled>>
      /\ OnTls' = OnTls /\ Due' = Due /\ Farewell' = Farewell /\ Opening' = Opening
      /\ \A r : Hand(r)' = Hand(r) /\ Out(r)' = Out(r)
      /\ CutShort' = CutShort
  BY ArriveParts
<1>3. /\ given'["stdin"] = Append(g, u) /\ given'["socket"] = given["socket"]
      /\ input'["stdin"] = Append(in, u) /\ input'["socket"] = input["socket"]
      /\ g \in Seq(Unit) /\ in \in Seq(Unit)
  BY <1>0, <1>1 DEF ClientTypeOK
<1>4. HasFlight' = HasFlight /\ Heard' = Heard
  BY <1>2, <1>3 DEF HasFlight, Heard
<1>5. Session'
  BY <1>2, <1>3, <1>4 DEF ClientInv, Session, Shaken, OnTls
<1>6. Terminal'
  BY <1>2 DEF ClientInv, Terminal
<1>7. Up'
  <2>1. SUFFICES ASSUME isOpen["socket"], "socket" \notin gone PROVE TypedAt'
    BY <1>2, UpThen
  <2> DEFINE o == Opening
             p == (Due \o wq["socket"]) \o Hand("stdin")
             out == Out("socket")
  <2>2. o \in Seq(Unit) /\ p \in Seq(Buf) /\ o \o g \in Seq(Unit) /\ out \in Seq(Unit)
    BY <1>0, OpeningIs, PartTypes, OutType
  <2>3. Whole(o \o g, out, p, in)
    BY <2>1, NowAt DEF TypedAt
  <2> HIDE DEF o, p, g, in, out
  <2>4. Whole(Append(o \o g, u), out, p, Append(in, u))
    BY <1>3, <2>2, <2>3, SentOn
  <2>5. o \o Append(g, u) = Append(o \o g, u)
    <3>1. \A x, y \in Seq(Unit) : \A z \in Unit : x \o Append(y, z) = Append(x \o y, z)
      BY ConcatAppend
    <3> QED
      BY <1>3, <2>2, <3>1, SMTT(30)
  <2> QED
    BY <1>2, <1>3, <2>4, <2>5 DEF TypedAt, o, p, out
<1>8. Down'
  <2>1. SameDown
    BY <1>2, <1>3, <1>4 DEF SameDown
  <2> QED
    BY <1>2, <2>1, DownFrame DEF BaseInv
<1>9. NotAhead' /\ CloseIsLast'
  BY <1>2, <1>3, <1>6, <1>7, NoneOut, OrderedStep
<1>10. StrangersGetNothing'
  BY <1>2, <1>4, NoneOut, StrangersStep
<1> QED
  BY <1>5, <1>6, <1>7, <1>8, <1>9, <1>10 DEF ClientInv

\* The server says something.
LEMMA SaidKeeps ==
  ASSUME ClientInv, BaseInv', Arrive("socket"), IsServer,
         UNCHANGED <<progVars, tlsVars>>
  PROVE  ClientInv'
<1> USE Ends
<1>0. ClientTypeOK
  BY DEF ClientInv, BaseInv, TlsClientTypeOK
<1> DEFINE g == given["socket"]
           in == input["socket"]
<1>1. PICK u \in Unit : /\ given' = [given EXCEPT !["socket"] = Append(@, u)]
                        /\ input' = [input EXCEPT !["socket"] = Append(@, u)]
  BY ArriveParts
<1>2. /\ UNCHANGED <<cur, rq, wq, isOpen, tty, over, output, gone, taken, state,
                     ssl, stalled>>
      /\ OnTls' = OnTls /\ Due' = Due /\ Farewell' = Farewell /\ Opening' = Opening
      /\ \A r : Hand(r)' = Hand(r) /\ Out(r)' = Out(r)
      /\ CutShort' = CutShort
  BY ArriveParts
<1>3. /\ given'["socket"] = Append(g, u) /\ given'["stdin"] = given["stdin"]
      /\ input'["socket"] = Append(in, u) /\ input'["stdin"] = input["stdin"]
      /\ g \in Seq(Unit) /\ in \in Seq(Unit)
  BY <1>0, <1>1 DEF ClientTypeOK
<1>4. OnTls /\ g # <<>> => u \in Data \cup {Bye}
  <2>1. Append(g, u) # g /\ Last(Append(g, u)) = u
    <3>1. /\ Len(Append(g, u)) = Len(g) + 1 /\ Len(g) \in Nat
          /\ Append(g, u)[Len(g) + 1] = u
      BY <1>3
    <3> QED
      BY <3>1 DEF Last
  <2> QED
    BY <1>3, <2>1 DEF IsServer, OnTls
<1>5. Len(in) <= Len(g) /\ (Shaken => Len(in) < Len(g))
  BY DEF ClientInv, Session
<1> HIDE DEF g, in
<1>6. /\ Len(Append(g, u)) = Len(g) + 1 /\ Len(g) \in Nat
      /\ Len(Append(in, u)) = Len(in) + 1 /\ Len(in) \in Nat
      /\ \A i \in DOMAIN g : i \in DOMAIN Append(g, u) /\ Append(g, u)[i] = g[i]
      /\ \A i \in DOMAIN Append(g, u) :
           \/ i \in DOMAIN g /\ Append(g, u)[i] = g[i]
           \/ i = Len(g) + 1 /\ Append(g, u)[i] = u
      /\ \A i \in DOMAIN Append(in, u) :
           \/ i \in DOMAIN in /\ Append(in, u)[i] = in[i]
           \/ Append(in, u)[i] = u
      /\ g # <<>> => Head(Append(g, u)) = Head(g)
      /\ g = <<>> <=> Len(g) = 0
  BY <1>3
<1>7. HasFlight => HasFlight'
  BY <1>3, <1>6 DEF HasFlight, g
<1>8. Heard' = Heard
  <2>1. Len(Append(in, u)) = Len(Append(g, u)) <=> Len(in) = Len(g)
    BY <1>6
  <2>2. Len(in) # Len(g) => Head(Append(g, u)) = Head(g)
    BY <1>5, <1>6
  <2> QED
    BY <1>2, <1>3, <2>1, <2>2 DEF Heard, g, in
<1>9. Session'
  <2>1. Len(Append(in, u)) <= Len(Append(g, u))
        /\ (Shaken => Len(Append(in, u)) < Len(Append(g, u)))
    BY <1>5, <1>6
  <2>2. ASSUME OnTls, NEW i \in DOMAIN Append(g, u), i > 1
        PROVE  Append(g, u)[i] \in Data \cup {Bye}
    <3>1. \A k \in DOMAIN g : k > 1 => g[k] \in Data \cup {Bye}
      BY <2>2 DEF ClientInv, Session, g
    <3> QED
      BY <1>4, <1>6, <2>2, <3>1
  <2>3. ASSUME Shaken, NEW i \in DOMAIN Append(in, u)
        PROVE  Append(in, u)[i] \in Data \cup {Bye}
    <3>1. \A k \in DOMAIN in : in[k] \in Data \cup {Bye}
      BY <2>3 DEF ClientInv, Session, in
    <3>2. u \in Data \cup {Bye}
      BY <1>4, <1>5, <1>6, <2>3 DEF Shaken
    <3> QED
      BY <1>6, <2>3, <3>1, <3>2
  <2>4. in = g => Append(in, u) = Append(g, u)
    OBVIOUS
  <2>5. Shaken' = Shaken
    BY <1>2 DEF Shaken
  <2>6. state = "HANDSHAKE" /\ ssl \in {"hello", "flight"} => in = g
    BY DEF ClientInv, Session, in, g
  <2>7. /\ ssl = "failed" => ~isOpen["socket"]
        /\ Shaken \/ state \in {"DATA", "SHUTDOWN", "STOP"} => HasFlight
        /\ state = "HANDSHAKE" =>
             /\ cur = "socket" => rq = <<>>
             /\ wq["stdout"] = <<>> /\ taken["stdout"] = <<>>
             /\ output["stdout"] = <<>>
    BY DEF ClientInv, Session
  <2> QED
    BY <1>2, <1>3, <1>7, <2>1, <2>2, <2>3, <2>4, <2>5, <2>6, <2>7 DEF Session
<1>10. Terminal'
  BY <1>2 DEF ClientInv, Terminal
<1>11. Up'
  <2>1. SameUp
    BY <1>2, <1>3 DEF SameUp
  <2> QED
    BY <1>2, <2>1, UpFrame DEF BaseInv
<1>12. Down'
  <2>1. SUFFICES ASSUME isOpen["stdout"], "stdout" \notin gone,
                        "socket" \in gone => ~OnTls, ~CutShort
                 PROVE  SaidAt'
    BY <1>2, DownThen
  <2> DEFINE p == (wq["stdout"] \o Hand("socket")) \o Farewell
             out == Heard \o Out("stdout")
  <2>2. p \in Seq(Buf) /\ out \in Seq(Unit)
    BY <1>0, PartTypes, OutType, HeardType
  <2>3. Whole(g, out, p, in)
    BY <2>1, NowAt DEF SaidAt, g, in
  <2> HIDE DEF p, out
  <2>4. Whole(Append(g, u), out, p, Append(in, u))
    BY <1>3, <2>2, <2>3, SentOn
  <2> QED
    BY <1>2, <1>3, <1>8, <2>4 DEF SaidAt, p, out
<1>13. NotAhead' /\ CloseIsLast'
  BY <1>2, <1>3, <1>10, <1>11, NoneOut, OrderedStep
<1>14. StrangersGetNothing'
  BY <1>2, <1>7, NoneOut, StrangersStep
<1> QED
  BY <1>9, <1>10, <1>11, <1>12, <1>13, <1>14 DEF ClientInv

-----------------------------------------------------------------------------
(* The invariant.                                                          *)

LEMMA StreamKeeps ==
  ASSUME ClientInv, StreamStep
  PROVE  ClientInv'
<1>0. BaseInv
  BY DEF ClientInv
<1>1. CASE StreamQuiet
  BY <1>0, <1>1, StreamQuietBase, QuietKeeps
<1>2. CASE HandshakeFatal \/ ReadFatal \/ ShutdownDone
  BY <1>2, FatalKeeps
<1>3. CASE Exit("killed") /\ UNCHANGED tlsVars
  <2>1. Exit("killed") /\ UNCHANGED <<state, ssl>> /\ "killed" \in Ended
    BY <1>3 DEF tlsVars, Ended
  <2>2. BaseInv'
    BY <1>0, <1>3, KilledBase
  <2> QED
    BY <2>1, <2>2, ExitKeeps
<1>4. CASE HandshakeWrite \/ HandshakeRead \/ ReadRecord \/ ReadBye \/ WriteRecord
  BY <1>4, HandshakeWriteKeeps, HandshakeReadKeeps, ReadRecordKeeps, ReadByeKeeps,
     WriteRecordKeeps
<1>5. HandshakeKilled \/ ReadKilled \/ WriteKilled \/ ShutdownKilled \/ CleanupKilled
        => Exit("killed") /\ UNCHANGED tlsVars
  BY DEF HandshakeKilled, ReadKilled, WriteKilled, ShutdownKilled, CleanupKilled, Killed
<1> QED
  BY <1>1, <1>2, <1>3, <1>4, <1>5 DEF StreamStep, StreamQuiet

LEMMA OtherKeeps ==
  ASSUME ClientInv, OtherStep
  PROVE  ClientInv'
<1>0. BaseInv /\ BaseInv'
  BY OtherBase DEF ClientInv
<1>1. Step /\ ~InStream /\ UNCHANGED <<state, ssl, stalled>>
  BY DEF OtherStep
<1>2. CASE QuietStep
  BY <1>0, <1>1, <1>2, QuietStepBase, QuietKeeps
<1>3. ASSUME NEW how \in Ended, Exit(how) PROVE ClientInv'
  BY <1>0, <1>1, <1>3, ExitKeeps
<1>4. CASE ReadSome
  BY <1>0, <1>1, <1>4, ReadSomeKeeps
<1>5. CASE OnRead
  BY <1>0, <1>1, <1>5, OnReadKeeps
<1>6. CASE WriteSome
  BY <1>0, <1>1, <1>6, WriteSomeKeeps
<1> QED
  BY <1>1, <1>2, <1>3, <1>4, <1>5, <1>6
     DEF Step, QuietStep, ConnectFails, WriteSigpipe, Ended

LEMMA WorldKeeps ==
  ASSUME ClientInv, TlsWorld
  PROVE  ClientInv'
<1>0. BaseInv' /\ IsServer /\ UNCHANGED <<progVars, tlsVars>>
  BY WorldBase DEF ClientInv, TlsWorld, World
<1>1. ASSUME NEW s \in Source, Arrive(s) PROVE ClientInv'
  BY <1>0, <1>1, TypedKeeps, SaidKeeps, Ends
<1>2. ASSUME NEW s \in Source, Finish(s) PROVE ClientInv'
  <2>1. Quiet
    BY <1>0, <1>2 DEF Finish, Quiet, progVars, tlsVars
  <2> QED
    BY <1>0, <2>1, QuietKeeps
<1>3. ASSUME NEW s \in Sink, Consume(s) PROVE ClientInv'
  BY <1>0, <1>3, ConsumeKeeps
<1>4. ASSUME NEW s \in Sink, Vanish(s) PROVE ClientInv'
  BY <1>0, <1>4, VanishKeeps
<1> QED
  BY <1>1, <1>2, <1>3, <1>4 DEF TlsWorld, World

LEMMA ClientInvStep ==
  ASSUME ClientInv, [TlsNext]_allVars
  PROVE  ClientInv'
<1>1. CASE TlsNext
  BY <1>1, StreamKeeps, CleanupKeeps, OtherKeeps, WorldKeeps DEF TlsNext, TlsStep
<1>2. CASE UNCHANGED allVars
  <2>1. UNCHANGED <<phase, cur, pending, handlers, isOpen, rq, wq, tty, input, over,
                    output, gone, given, taken, state, ssl, stalled, closed>>
    BY <1>2 DEF allVars, vars, progVars, worldVars, tlsVars
  <2>2. BaseInv'
    BY <2>1 DEF ClientInv, BaseInv, TlsClientTypeOK, ClientTypeOK, InUse
  <2>3. Quiet
    BY <2>1 DEF Quiet
  <2> QED
    BY <2>2, <2>3, QuietKeeps
<1> QED
  BY <1>1, <1>2

\* Before the handshake the program's part of it is due.
LEMMA AllDue ==
  Whole(<<Hello, Finished>>, <<>>, << <<Hello>>, <<Finished>> >>, <<>>)
<1> DEFINE s == <<Hello, Finished>>
<1>1. Hello \in Unit /\ Finished \in Unit
  BY Kinds
<1>2. /\ s \in Seq(Unit) /\ s # <<>> /\ Head(s) = Hello /\ Tail(s) = <<Finished>>
      /\ <<Finished>> \in Seq(Unit) /\ <<Finished>> # <<>>
      /\ Head(<<Finished>>) = Finished /\ Tail(<<Finished>>) = <<>>
  BY <1>1
<1>3. <<Hello>> \in Buf /\ <<Finished>> \in Buf
  BY <1>1, SingleIsBuf
<1>4. /\ <<>> \in Seq(Buf) /\ << <<Hello>> >> \in Seq(Buf) /\ <<>> \in Seq(Unit)
      /\ Append(<<>>, <<Hello>>) = << <<Hello>> >>
      /\ Append(<< <<Hello>> >>, <<Finished>>) = << <<Hello>>, <<Finished>> >>
  <2>1. /\ Append(<<>>, <<Hello>>) = << <<Hello>> >>
        /\ Append(<< <<Hello>> >>, <<Finished>>) = << <<Hello>>, <<Finished>> >>
    BY <1>3, AppendToFew
  <2>3. << <<Hello>> >> \in Seq(Buf)
    BY <1>3
  <2>2. <<>> \in Seq(Buf) /\ <<>> \in Seq(Unit)
    OBVIOUS
  <2> QED
    BY <1>3, <2>1, <2>2, <2>3
<1> HIDE DEF s
<1>5. Whole(s, <<>>, <<>>, s)
  <2>1. <<>> \o <<>> = <<>>
    OBVIOUS
  <2> QED
    BY <1>2, <2>1, FreshWhole
<1>6. Whole(s, <<>>, << <<Hello>> >>, <<Finished>>)
  BY <1>2, <1>4, <1>5, TakeOn
<1>7. Whole(s, <<>>, << <<Hello>>, <<Finished>> >>, <<>>)
  BY <1>2, <1>4, <1>6, TakeOn
<1> QED
  BY <1>7 DEF s

LEMMA ClientInvInit == TlsInit => ClientInv
<1> SUFFICES ASSUME TlsInit PROVE ClientInv
  OBVIOUS
<1> USE Ends
<1>1. /\ phase = "connect" /\ cur = "stdin" /\ pending = NoEvents /\ handlers = {}
      /\ isOpen = [h \in Handler |-> TRUE] /\ rq = <<>>
      /\ wq = [s \in Sink |-> <<>>] /\ tty \in BOOLEAN
      /\ input = [s \in Source |-> <<>>] /\ given = [s \in Source |-> <<>>]
      /\ output = [s \in Sink |-> <<>>] /\ taken = [s \in Sink |-> <<>>]
      /\ over = {} /\ gone = {}
      /\ state \in FirstStates /\ ssl = "hello" /\ stalled = FALSE /\ closed = FALSE
  BY DEF TlsInit, Init
<1>2. TlsClientTypeOK
  <2>1. <<>> \in Seq(Buf) /\ <<>> \in Seq(Unit)
    OBVIOUS
  <2>2. ClientTypeOK
    BY <1>1, <2>1 DEF ClientTypeOK, NoEvents
  <2> QED
    BY <1>1, <2>2 DEF TlsClientTypeOK, FirstStates, Answering
<1>3. InUse
  BY <1>1 DEF InUse, NoEvents
<1>4. /\ given["socket"] = <<>> /\ given["stdin"] = <<>> /\ input["socket"] = <<>>
      /\ input["stdin"] = <<>> /\ Out("socket") = <<>> /\ Out("stdout") = <<>>
      /\ output["stdout"] = <<>> /\ taken["stdout"] = <<>>
      /\ wq["socket"] = <<>> /\ wq["stdout"] = <<>> /\ DOMAIN <<>> = {}
      /\ Len(<<>>) = 0
  BY <1>1 DEF Out
<1>5. Session
  BY <1>1, <1>4 DEF Session, Shaken, FirstStates
<1>6. StrangersGetNothing /\ NotAhead /\ CloseIsLast
  BY <1>4 DEF StrangersGetNothing, NotAhead, CloseIsLast
<1>7. Terminal
  BY <1>1, <1>4 DEF Terminal
<1>8. \A s : InHand(s) = <<>>
  BY <1>1 DEF InHand
<1>9. Up
  <2>1. CASE state = "START"
    <3>1. Due = <<>> /\ Opening = <<>> /\ <<>> \o <<>> = <<>>
      BY <2>1 DEF Due, Opening
    <3>2. Whole(<<>>, <<>>, <<>>, <<>>)
      <4>1. <<>> \in Seq(Unit)
        OBVIOUS
      <4> QED
        BY <3>1, <4>1, FreshWhole
    <3> QED
      BY <1>4, <1>8, <3>1, <3>2 DEF Up, TypedIsOnItsWay
  <2>2. CASE state = "HANDSHAKE"
    <3>1. Due = << <<Hello>>, <<Finished>> >> /\ Opening = <<Hello, Finished>>
      BY <1>1, <2>2 DEF Due, Opening
    <3>2. Due \in Seq(Buf) /\ Opening \in Seq(Unit)
      BY OpeningIs
    <3>3. (Due \o <<>>) \o <<>> = Due /\ Opening \o <<>> = Opening
      BY <3>2
    <3> QED
      BY <1>4, <1>8, <3>1, <3>3, AllDue DEF Up, TypedIsOnItsWay
  <2> QED
    BY <1>1, <2>1, <2>2 DEF FirstStates
<1>10. Down
  <2>1. Heard = <<>> /\ Farewell = <<>> /\ <<>> \o <<>> = <<>>
    BY <1>1, <1>4 DEF Heard, Farewell, FirstStates
  <2>2. Whole(<<>>, <<>>, <<>>, <<>>)
    <3>1. <<>> \in Seq(Unit)
      OBVIOUS
    <3> QED
      BY <2>1, <3>1, FreshWhole
  <2> QED
    BY <1>4, <1>8, <2>1, <2>2 DEF Down, SaidIsOnItsWay
<1> QED
  BY <1>2, <1>3, <1>5, <1>6, <1>7, <1>9, <1>10 DEF ClientInv, BaseInv

\* The invariant holds in every state the client can reach, whatever is typed,
\* said, consumed or broken off, with TLS and without.
THEOREM ClientAlways == TlsSpec => []ClientInv
<1>1. TlsInit => ClientInv
  BY ClientInvInit
<1>2. ClientInv /\ [TlsNext]_allVars => ClientInv'
  BY ClientInvStep
<1> QED
  BY <1>1, <1>2, PTL DEF TlsSpec

-----------------------------------------------------------------------------
(* What the client promises.                                               *)

\* The queues, buffers and states of the client are what they are declared
\* to be; a session is in DATA or later only when the handshake is over, and
\* a stream that has stopped, or was closed, is not open.
THEOREM ClientTypes == TlsSpec => []TlsClientTypeOK
<1>1. ClientInv => TlsClientTypeOK
  BY DEF ClientInv, BaseInv
<1> QED
  BY <1>1, ClientAlways, PTL

\* All that was typed is in one place, in order, while the connection is open
\* and not reset, and so is all that the server said while the standard output
\* is: read, on_read and write lose, repeat and reorder nothing, in any order
\* of events, with partial writes and through the handshake.  What the server
\* said may be lost only by a session with TLS that is reset, or whose
\* close_notify comes while a record is pending.
THEOREM ClientRelays == TlsSpec => []Relayed
<1>1. ClientInv => Relayed
  BY DEF ClientInv, Up, Down, Relayed, Live
<1> QED
  BY <1>1, ClientAlways, PTL

\* The line CLOSE, typed at a terminal, and what is typed after it are never
\* written to the socket.
THEOREM ClientCloseIsLast == TlsSpec => []CloseIsLast
<1>1. ClientInv => CloseIsLast
  BY DEF ClientInv
<1> QED
  BY <1>1, ClientAlways, PTL

\* With TLS no data is written before the server has shown a certificate that
\* is trusted.
THEOREM ClientTrustsFirst == TlsSpec => []StrangersGetNothing
<1>1. ClientInv => StrangersGetNothing
  BY DEF ClientInv
<1> QED
  BY <1>1, ClientAlways, PTL
=============================================================================
