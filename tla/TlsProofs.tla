----------------------------- MODULE TlsProofs -----------------------------
(***************************************************************************)
(* The TLS streams keep the event loop's descriptors and events straight,  *)
(* keep to the protocol, and lose, repeat and reorder no record, for every *)
(* number of clients, whatever records they send and whenever they fail.   *)
(* The second half is about both programs of example 09, the echo server   *)
(* and the chat server, over the same streams.                             *)
(***************************************************************************)
EXTENDS Poller09, ServerProofs

Out(c) == received[c] \o sndq[c]

Waits(c) == peer[c] = "new" \/ \E i \in DOMAIN backlog : backlog[i] = c

\* A connection that has no handler yet has not begun its session.
FreshSession(c) ==
  Waits(c) => /\ received[c] = <<>> /\ sndq[c] = <<>> /\ wq[c] = <<>>
              /\ inbox[c] = sent[c]
              /\ state[c] = "HANDSHAKE" /\ ssl[c] = "hello"

\* The state of the stream and that of its SSL object go together.
Session(c) ==
  /\ state[c] = "HANDSHAKE" => ssl[c] # "ok"
  /\ state[c] = "DATA" => ssl[c] \in {"ok", "failed"}
  /\ state[c] \in {"SHUTDOWN", "STOP"} => ssl[c] = "ok"
  /\ ssl[c] = "failed" \/ state[c] = "STOP" => ~isOpen[c]

\* A buffer is one record of data, and there are none before the session is
\* established.
Record == {<<u>> : u \in Data}

Records(c) ==
  /\ wq[c] \in Seq(Record)
  /\ state[c] = "HANDSHAKE" => wq[c] = <<>> /\ Chunks(c) = <<>>

\* What is still to be read has been sent, and so has the close_notify that
\* is answered.
Heard(c) ==
  /\ \A i \in DOMAIN inbox[c] : inbox[c][i] \in ToSet(sent[c])
  /\ state[c] = "SHUTDOWN" => Bye \in ToSet(sent[c])

\* A close_notify or a fatal alert is the last that a stream sends, and the
\* close_notify answers one.
ByeIsLast(c) ==
  \A i \in DOMAIN Out(c) :
    /\ Out(c)[i] \in {Bye, Alert} => i = Len(Out(c)) /\ ~isOpen[c]
    /\ Out(c)[i] = Bye => Bye \in ToSet(sent[c])

\* What a session has sent when its handshake is at s.
Begun(s, out) ==
  /\ s \in {"hello", "flight"} => out = <<>>
  /\ s \in {"finished", "tickets"} => out = <<Flight>>
  /\ s = "ok" => Len(out) > 1 /\ out[1] = Flight /\ out[2] = Tickets

InOrder(out) ==
  \A i \in DOMAIN out :
    /\ out[i] = Flight => i = 1
    /\ out[i] = Tickets => i = 2 /\ out[1] = Flight
    /\ out[i] \in Data \cup {Bye} => i > 2 /\ out[2] = Tickets

\* A session has sent its part of the handshake as far as it has come, unless
\* a reset took it, and nothing but an alert out of turn.
TicketsFirst(c) ==
  /\ peer[c] \in {"up", "fin"} => Begun(ssl[c], Out(c))
  /\ InOrder(Out(c))

Complete(c) ==
  RegisteredConn(c) /\ isOpen[c] /\ peer[c] \in {"up", "fin"}
    => RepliesOnTheirWay(c)

Proper(c) ==
  /\ FreshSession(c)
  /\ Session(c)
  /\ Records(c)
  /\ Heard(c)
  /\ ByeIsLast(c)
  /\ TicketsFirst(c)
  /\ Complete(c)

SslStates == Awaiting \cup Answering \cup {"ok", "failed"}

Sessions ==
  /\ state \in [Conn -> States]
  /\ ssl \in [Conn -> SslStates]
  /\ errors \in BOOLEAN
  /\ NoChunksLeft
  /\ rq \in Seq(Record)
  /\ \A c \in Conn : Proper(c)

TlsInv == IInv /\ Sessions

-----------------------------------------------------------------------------
(* Records and replies.                                                    *)

LEMMA ProtocolApart ==
  /\ Hello \in Unit /\ Finished \in Unit /\ Flight \in Unit
  /\ Tickets \in Unit /\ Bye \in Unit /\ Alert \in Unit
  /\ Bye # Flight /\ Bye # Tickets /\ Bye # Alert /\ Hello # Finished
  /\ Bye # Hello /\ Bye # Finished
  /\ Flight # Tickets /\ Flight # Alert /\ Tickets # Alert
  /\ Data \subseteq Unit
  /\ \A u \in Data : u # Hello /\ u # Finished /\ u # Bye
  /\ Flight \notin Data /\ Tickets \notin Data /\ Bye \notin Data
  /\ Alert \notin Data
<1> DEFINE names == <<Hello, Finished, Flight, Tickets, Bye, Alert, Junk>>
<1>1. \A i, j \in 1 .. 7 : names[i] = names[j] => i = j
  BY ProtocolAssumption DEF IsInjective
<1>2. /\ names[1] = Hello /\ names[2] = Finished /\ names[3] = Flight
      /\ names[4] = Tickets /\ names[5] = Bye /\ names[6] = Alert
  OBVIOUS
<1> HIDE DEF names
<1>3. /\ Bye # Flight /\ Bye # Tickets /\ Bye # Alert /\ Hello # Finished
      /\ Bye # Hello /\ Bye # Finished
      /\ Flight # Tickets /\ Flight # Alert /\ Tickets # Alert
  BY <1>1, <1>2
<1> QED
  BY <1>3, ProtocolAssumption DEF Data, Protocol

LEMMA ReplyType == \A u \in Unit : ReplyTo(u) \in Unit
BY ProtocolApart DEF ReplyTo

LEMMA ReplyToData == \A u \in Data : ReplyTo(u) = u
BY ProtocolApart DEF ReplyTo

LEMMA RepliesType ==
  ASSUME NEW s \in Seq(Unit)
  PROVE  /\ Replies(s) \in Seq(Unit) /\ Len(Replies(s)) = Len(s)
         /\ DOMAIN Replies(s) = DOMAIN s
<1>1. DOMAIN s = 1 .. Len(s) /\ Len(s) \in Nat
  OBVIOUS
<1>2. Replies(s) \in [1 .. Len(s) -> Unit]
  BY <1>1, ReplyType DEF Replies
<1>3. \A r \in [1 .. Len(s) -> Unit] : r \in Seq(Unit) /\ Len(r) = Len(s)
  BY <1>1, SeqDef
<1> QED
  BY <1>1, <1>2, <1>3

LEMMA RepliesAppend ==
  ASSUME NEW s \in Seq(Unit), NEW u \in Unit
  PROVE  Replies(Append(s, u)) = Append(Replies(s), ReplyTo(u))
<1> DEFINE r == Replies(Append(s, u))
           q == Append(Replies(s), ReplyTo(u))
<1>1. /\ Append(s, u) \in Seq(Unit) /\ Len(Append(s, u)) = Len(s) + 1
      /\ Len(s) \in Nat
      /\ \A i \in 1 .. Len(s) : Append(s, u)[i] = s[i]
      /\ Append(s, u)[Len(s) + 1] = u
  OBVIOUS
<1>2. Replies(s) \in Seq(Unit) /\ Len(Replies(s)) = Len(s)
      /\ ReplyTo(u) \in Unit
  BY RepliesType, ReplyType
<1>3. r \in Seq(Unit) /\ Len(r) = Len(s) + 1
  BY <1>1, RepliesType
<1>4. q \in Seq(Unit) /\ Len(q) = Len(s) + 1
      /\ \A i \in 1 .. Len(s) : q[i] = Replies(s)[i]
      /\ q[Len(s) + 1] = ReplyTo(u)
  BY <1>2, AppendProperties
<1>5. ASSUME NEW i \in 1 .. Len(s) + 1 PROVE r[i] = q[i]
  <2>1. r[i] = ReplyTo(Append(s, u)[i])
    BY <1>1 DEF Replies
  <2>2. CASE i \in 1 .. Len(s)
    BY <1>1, <1>4, <2>1, <2>2 DEF Replies
  <2>3. CASE i = Len(s) + 1
    BY <1>1, <1>4, <2>1, <2>3
  <2>4. i \in 1 .. Len(s) \/ i = Len(s) + 1
    BY <1>1
  <2> HIDE DEF r, q
  <2> QED
    BY <2>2, <2>3, <2>4
<1> HIDE DEF r, q
<1>6. r = q
  BY <1>3, <1>4, <1>5, SeqEqual
<1> QED
  BY <1>6 DEF r, q

LEMMA RepliesTail ==
  ASSUME NEW s \in Seq(Unit), s # <<>>
  PROVE  /\ Replies(s) # <<>>
         /\ Head(Replies(s)) = ReplyTo(Head(s))
         /\ Tail(Replies(s)) = Replies(Tail(s))
<1>1. /\ Len(s) \in Nat /\ Len(s) # 0 /\ 1 \in DOMAIN s /\ Head(s) = s[1]
      /\ Tail(s) \in Seq(Unit) /\ Len(Tail(s)) = Len(s) - 1
      /\ \A i \in 1 .. Len(s) - 1 : Tail(s)[i] = s[i + 1]
  OBVIOUS
<1>2. /\ Replies(s) \in Seq(Unit) /\ Len(Replies(s)) = Len(s)
      /\ Replies(Tail(s)) \in Seq(Unit) /\ Len(Replies(Tail(s))) = Len(s) - 1
  BY <1>1, RepliesType
<1>3. Replies(s) # <<>> /\ Head(Replies(s)) = Replies(s)[1]
  BY <1>1, <1>2
<1>4. Replies(s)[1] = ReplyTo(Head(s))
  BY <1>1 DEF Replies
<1> DEFINE t == Tail(Replies(s))
           r == Replies(Tail(s))
<1>5. /\ t \in Seq(Unit) /\ Len(t) = Len(s) - 1
      /\ \A i \in 1 .. Len(s) - 1 : t[i] = Replies(s)[i + 1]
  BY <1>2, <1>3
<1>6. ASSUME NEW i \in 1 .. Len(s) - 1 PROVE t[i] = r[i]
  <2>1. i \in DOMAIN Tail(s) /\ i + 1 \in DOMAIN s
    BY <1>1
  <2> QED
    BY <1>1, <1>5, <2>1 DEF Replies
<1>7. t = r
  <2> HIDE DEF t, r
  <2>1. r \in Seq(Unit) /\ Len(r) = Len(s) - 1
    BY <1>2 DEF r
  <2> QED
    BY <1>5, <1>6, <2>1, SeqEqual
<1> QED
  BY <1>3, <1>4, <1>7

\* The first of what is to be read joins what is held.
LEMMA WholeTake ==
  ASSUME NEW s \in Seq(Unit), NEW out \in Seq(Unit), NEW bufs \in Seq(Buf),
         NEW in \in Seq(Unit), Whole(s, out, bufs, in), in # <<>>
  PROVE  Whole(s, out, Append(bufs, <<Head(in)>>), Tail(in))
BY TakeWhole, PollersBuffers

\* The first of what is held, a single record, goes out.
LEMMA WholeGive ==
  ASSUME NEW s \in Seq(Unit), NEW out \in Seq(Unit), NEW bufs \in Seq(Buf),
         NEW in \in Seq(Unit), Whole(s, out, bufs, in), bufs # <<>>,
         NEW u \in Unit, Head(bufs) = <<u>>
  PROVE  Whole(s, Append(out, u), Tail(bufs), in)
BY GiveWhole, PollersBuffers

-----------------------------------------------------------------------------
(* What a step leaves of the connections that it does not touch.           *)

\* What is proper of what has been sent stays so as long as nothing is added.
LEMMA SaysNoMore ==
  ASSUME NEW c \in Conn, ByeIsLast(c), TicketsFirst(c), Out(c)' = Out(c),
         ToSet(sent[c]) \subseteq ToSet(sent'[c]), isOpen'[c] => isOpen[c],
         peer'[c] \in {"up", "fin"} =>
           \/ ssl'[c] = "failed"
           \/ ssl'[c] = "hello" /\ Out(c) = <<>>
           \/ /\ peer[c] \in {"up", "fin"}
              /\ \/ ssl'[c] = ssl[c]
                 \/ ssl[c] = "hello" /\ ssl'[c] = "flight"
                 \/ ssl[c] = "finished" /\ ssl'[c] = "tickets"
  PROVE  ByeIsLast(c)' /\ TicketsFirst(c)'
<1>1. ByeIsLast(c)'
  BY DEF ByeIsLast
<1>2. TicketsFirst(c)'
  BY DEF TicketsFirst, Begun
<1> QED
  BY <1>1, <1>2

\* One more record goes out from an open stream.
LEMMA SaysMore ==
  ASSUME NEW c \in Conn, ByeIsLast(c), TicketsFirst(c), isOpen[c],
         Out(c) \in Seq(Unit), NEW u \in Unit, Out(c)' = Append(Out(c), u),
         UNCHANGED <<sent[c], peer[c]>>, peer[c] \in {"up", "fin"},
         \/ u = Flight /\ ssl[c] = "flight" /\ ssl'[c] = "finished"
         \/ u = Tickets /\ ssl[c] = "tickets" /\ ssl'[c] = "ok"
         \/ u = Alert /\ ssl'[c] = "failed" /\ ~isOpen'[c]
         \/ u \in Data /\ ssl[c] = "ok" /\ ssl'[c] = "ok"
         \/ /\ u = Bye /\ ssl[c] = "ok" /\ ssl'[c] = "ok"
            /\ ~isOpen'[c] /\ Bye \in ToSet(sent[c])
  PROVE  ByeIsLast(c)' /\ TicketsFirst(c)'
<1> DEFINE o == Out(c)
           p == Append(o, u)
<1>1. /\ Len(o) \in Nat /\ DOMAIN o = 1 .. Len(o)
      /\ DOMAIN p = 1 .. Len(o) + 1 /\ Len(p) = Len(o) + 1
      /\ p[Len(o) + 1] = u
      /\ \A i \in 1 .. Len(o) : p[i] = o[i]
  OBVIOUS
<1>2. \A i \in DOMAIN o : o[i] \notin {Bye, Alert}
  BY DEF ByeIsLast
<1>3. Begun(ssl[c], o) /\ InOrder(o)
  BY DEF TicketsFirst
<1>4. /\ o = <<>> => Len(o) = 0
      /\ o = <<Flight>> => Len(o) = 1 /\ o[1] = Flight
  OBVIOUS
<1> HIDE DEF o, p
<1>5. \A i \in DOMAIN p : i \in DOMAIN o \/ i = Len(o) + 1
  BY <1>1
<1>6. ByeIsLast(c)'
  <2>1. \A i \in DOMAIN p : p[i] \in {Bye, Alert} => i = Len(p) /\ p[i] = u
    BY <1>1, <1>2, <1>5
  <2> QED
    BY <2>1, ProtocolApart DEF ByeIsLast, p, o
<1>7. Begun(ssl'[c], p)
  <2>1. CASE u = Flight /\ ssl[c] = "flight" /\ ssl'[c] = "finished"
    <3>1. o = <<>>
      BY <1>3, <2>1 DEF Begun
    <3>2. Append(<<>>, Flight) = <<Flight>>
      OBVIOUS
    <3> QED
      BY <2>1, <3>1, <3>2 DEF Begun, p
  <2>2. CASE u = Tickets /\ ssl[c] = "tickets" /\ ssl'[c] = "ok"
    <3>1. Len(o) = 1 /\ o[1] = Flight
      BY <1>3, <1>4, <2>2 DEF Begun
    <3>2. Len(p) = 2 /\ p[1] = Flight /\ p[2] = Tickets
      BY <1>1, <2>2, <3>1
    <3> QED
      BY <2>2, <3>2 DEF Begun
  <2>3. CASE ssl'[c] = "failed"
    BY <2>3 DEF Begun
  <2>4. CASE ssl[c] = "ok" /\ ssl'[c] = "ok"
    BY <1>1, <1>3, <2>4 DEF Begun
  <2> QED
    BY <2>1, <2>2, <2>3, <2>4
<1>8. InOrder(p)
  <2>1. ASSUME NEW i \in DOMAIN p
        PROVE  /\ p[i] = Flight => i = 1
               /\ p[i] = Tickets => i = 2 /\ p[1] = Flight
               /\ p[i] \in Data \cup {Bye} => i > 2 /\ p[2] = Tickets
    <3>1. CASE i \in DOMAIN o
      <4>1. /\ o[i] = Flight => i = 1
            /\ o[i] = Tickets => i = 2 /\ o[1] = Flight
            /\ o[i] \in Data \cup {Bye} => i > 2 /\ o[2] = Tickets
        BY <1>3, <3>1 DEF InOrder
      <4> QED
        BY <1>1, <3>1, <4>1
    <3>2. CASE i = Len(o) + 1
      <4>1. p[i] = u
        BY <1>1, <3>2
      <4>2. CASE u = Flight /\ ssl[c] = "flight"
        <5>1. Len(o) = 0
          BY <1>3, <1>4, <4>2 DEF Begun
        <5> QED
          BY <3>2, <4>1, <4>2, <5>1, ProtocolApart
      <4>3. CASE u = Tickets /\ ssl[c] = "tickets"
        <5>1. Len(o) = 1 /\ o[1] = Flight
          BY <1>3, <1>4, <4>3 DEF Begun
        <5>2. i = 2 /\ p[1] = Flight
          BY <1>1, <3>2, <5>1
        <5> QED
          BY <4>1, <4>3, <5>2, ProtocolApart
      <4>4. CASE u = Alert
        BY <4>1, <4>4, ProtocolApart
      <4>5. CASE u \in Data \cup {Bye} /\ ssl[c] = "ok"
        <5>1. Len(o) > 1 /\ o[2] = Tickets
          BY <1>3, <4>5 DEF Begun
        <5>2. i > 2 /\ p[2] = Tickets
          BY <1>1, <3>2, <5>1
        <5> QED
          BY <4>1, <4>5, <5>2, ProtocolApart
      <4> QED
        BY <4>2, <4>3, <4>4, <4>5
    <3> QED
      BY <1>5, <3>1, <3>2
  <2> QED
    BY <2>1 DEF InOrder
<1>9. TicketsFirst(c)'
  BY <1>7, <1>8 DEF TicketsFirst, p, o
<1> QED
  BY <1>6, <1>9

LEMMA Untouched ==
  ASSUME NEW d \in Conn, Proper(d),
         UNCHANGED <<received[d], sndq[d], inbox[d], sent[d], peer[d],
                     state[d], ssl[d]>>,
         Waits(d)' => Waits(d), isOpen'[d] => isOpen[d],
         \/ /\ UNCHANGED <<wq[d], Chunks(d)>>
            /\ RegisteredConn(d)' => RegisteredConn(d)
         \/ /\ wq'[d] = <<>> /\ Chunks(d)' = <<>>
            /\ ~(isOpen'[d] /\ RegisteredConn(d)')
  PROVE  Proper(d)'
<1>1. FreshSession(d)' /\ Session(d)' /\ Heard(d)'
  BY DEF Proper, FreshSession, Session, Heard
<1>2. Records(d)'
  BY EmptySeq DEF Proper, Records
<1>3. Out(d)' = Out(d)
  BY DEF Out
<1>4. ByeIsLast(d)' /\ TicketsFirst(d)'
  BY <1>3, SaysNoMore DEF Proper
<1>5. Complete(d)'
  BY DEF Proper, Complete, RepliesOnTheirWay, Due
<1> QED
  BY <1>1, <1>2, <1>4, <1>5 DEF Proper

\* The step concerns connection m alone.
Local(m) ==
  /\ UNCHANGED <<backlog, peer, sent, received, handlers, cur>>
  /\ \A d \in Conn \ {m} :
       UNCHANGED <<sndq[d], inbox[d], wq[d], state[d], ssl[d], isOpen[d]>>

LEMMA LocalKeeps ==
  ASSUME TlsInv, phase \in Serving, NEW m \in Conn, m = Me, Local(m), Proper(m)'
  PROVE  \A c \in Conn : Proper(c)'
<1> SUFFICES ASSUME NEW d \in Conn, d # m PROVE Proper(d)'
  OBVIOUS
<1>1. Chunks(d) = <<>> /\ Chunks(d)' = <<>>
  BY DEF Chunks, Local, Me
<1>2. /\ Waits(d)' => Waits(d)
      /\ RegisteredConn(d)' => RegisteredConn(d)
  BY DEF Local, Waits, RegisteredConn
<1>3. UNCHANGED <<received[d], sent[d], peer[d]>>
  BY DEF Local
<1>4. UNCHANGED <<sndq[d], inbox[d], wq[d], state[d], ssl[d], isOpen[d]>>
  BY DEF Local
<1>5. Proper(d)
  BY DEF TlsInv, Sessions
<1> QED
  BY <1>1, <1>2, <1>3, <1>4, <1>5, Untouched

\* The connection that is served has left the queue and is registered.
LEMMA ServedIsNot ==
  ASSUME TlsInv, phase \in Serving, NEW m \in Conn, m = Me
  PROVE  ~Waits(m) /\ RegisteredConn(m)
<1>1. IInv
  BY DEF TlsInv
<1>2. ~Waits(m)
  BY <1>1, FreshNotServed DEF Waits
<1>3. cur \in Fd
  BY <1>1 DEF IInv, ServingOrder
<1> QED
  BY <1>2, <1>3 DEF RegisteredConn, Me

\* What the calls of TcpStream rely on, whatever the program does with them.
CallInv == IInv /\ errors \in BOOLEAN /\ NoChunksLeft

LEMMA TlsCallInv == TlsInv => CallInv
BY DEF TlsInv, Sessions, CallInv

\* A call of TcpStream is for the connection of the handler that is served.
LEMMA OwnCall ==
  ASSUME CallInv, NEW s, InCall(s)
  PROVE  /\ phase \in {"read", "write"} /\ phase \in Serving
         /\ Me \in Conn /\ Sock = Me /\ cur \in Fd
         /\ isOpen[Me] /\ state[Me] = s
         /\ phase = "write" => wq[Me] # <<>> /\ rq = <<>>
<1>1. /\ phase \in {"read", "write"} /\ phase \in Serving
      /\ isOpen[Me] /\ state[Me] = s
      /\ phase = "write" => wq[Me] # <<>>
  BY DEF InCall, CanWrite, Serving
<1>2. phase = "write" => rq = <<>>
  BY DEF CallInv, NoChunksLeft
<1> QED
  BY <1>1, <1>2, ServedIsOwn DEF CallInv

LEMMA CallIsOwn ==
  ASSUME TlsInv, NEW s, InCall(s)
  PROVE  /\ phase \in {"read", "write"} /\ phase \in Serving
         /\ Me \in Conn /\ Sock = Me /\ cur \in Fd
         /\ isOpen[Me] /\ state[Me] = s
         /\ phase = "write" => wq[Me] # <<>> /\ rq = <<>>
BY OwnCall, TlsCallInv

-----------------------------------------------------------------------------
(* The steps that move no record.                                          *)

Idle ==
  /\ UNCHANGED <<peerVars, inbox, sndq, handlers, wq, rq, isOpen, state, ssl>>
  /\ errors' \in BOOLEAN
  /\ rq # <<>> => /\ cur' = cur /\ phase \in Serving
                  /\ phase' \in {"read", "deliver"}

LEMMA IdleKeeps == ASSUME TlsInv, Idle PROVE Sessions'
<1>1. NoChunksLeft' /\ rq' = rq
  BY DEF Idle, NoChunksLeft
<1>2. ASSUME NEW d \in Conn PROVE Proper(d)'
  <2>1. Chunks(d)' = Chunks(d)
    BY DEF Idle, Chunks, Serving
  <2>2. UNCHANGED <<received[d], sndq[d], inbox[d], sent[d], peer[d],
                    state[d], ssl[d], isOpen[d], wq[d]>>
    BY DEF Idle, peerVars
  <2>3. Waits(d)' = Waits(d) /\ RegisteredConn(d)' = RegisteredConn(d)
    BY DEF Idle, Waits, RegisteredConn, peerVars
  <2>4. Proper(d)
    BY DEF TlsInv, Sessions
  <2> QED
    BY <2>1, <2>2, <2>3, <2>4, Untouched
<1> QED
  BY <1>1, <1>2 DEF TlsInv, Sessions, Idle

\* The process has ended.
LEMMA ExitSessions ==
  ASSUME TlsInv, NEW how \in Ended, Exit(how), UNCHANGED tlsVars
  PROVE  Sessions'
<1>1. /\ UNCHANGED <<backlog, peer, inbox, sndq, sent, received>>
      /\ UNCHANGED <<state, ssl, errors>>
      /\ rq' = <<>> /\ wq' = [c \in Conn |-> <<>>]
      /\ isOpen' = [c \in Conn |-> FALSE]
  BY DEF Exit, tlsVars
<1>2. ASSUME NEW d \in Conn PROVE Proper(d)'
  <2>1. Chunks(d)' = <<>> /\ wq'[d] = <<>> /\ ~isOpen'[d]
    BY <1>1 DEF Chunks
  <2>2. Waits(d)' = Waits(d)
    BY <1>1 DEF Waits
  <2>3. Proper(d)
    BY DEF TlsInv, Sessions
  <2> QED
    BY <1>1, <2>1, <2>2, <2>3, Untouched
<1>3. rq' \in Seq(Record) /\ NoChunksLeft'
  BY <1>1, EmptySeq DEF NoChunksLeft
<1> QED
  BY <1>1, <1>2, <1>3 DEF TlsInv, Sessions

-----------------------------------------------------------------------------
(* The calls that close the stream.                                        *)

\* It has failed, it has been shut down, or there was nothing to be done.
Closes(m) ==
  /\ UNCHANGED <<peerVars, handlers, wq, cur>>
  /\ isOpen' = [isOpen EXCEPT ![m] = FALSE]
  /\ errors' \in BOOLEAN
  /\ \/ phase' = "deliver" /\ rq' = rq
     \/ phase' = "dispatch" /\ rq' = <<>>
  /\ \/ UNCHANGED inbox
     \/ inbox[m] # <<>> /\ inbox' = [inbox EXCEPT ![m] = Tail(@)]
  /\ \/ UNCHANGED <<sndq, state, ssl>>
     \/ /\ state[m] \in {"HANDSHAKE", "DATA"}
        /\ \/ UNCHANGED sndq
           \/ /\ peer[m] \in {"up", "fin"}
              /\ sndq' = [sndq EXCEPT ![m] = Append(@, Alert)]
        /\ ssl' = [ssl EXCEPT ![m] = "failed"]
        /\ UNCHANGED state
     \/ /\ state[m] = "SHUTDOWN" /\ peer[m] \in {"up", "fin"}
        /\ sndq' = [sndq EXCEPT ![m] = Append(@, Bye)]
        /\ state' = [state EXCEPT ![m] = "STOP"]
        /\ UNCHANGED ssl

LEMMA OutGrows ==
  ASSUME TypeOK, NEW c \in Conn, NEW u \in Unit, UNCHANGED received[c],
         sndq'[c] = Append(sndq[c], u)
  PROVE  Out(c) \in Seq(Unit) /\ Out(c)' = Append(Out(c), u)
<1>1. received[c] \in Seq(Unit) /\ sndq[c] \in Seq(Unit)
  BY DataTypes
<1>2. \A r, q \in Seq(Unit) : r \o Append(q, u) = Append(r \o q, u)
  OBVIOUS
<1>3. Out(c) \in Seq(Unit)
  BY DataTypes DEF Out
<1>4. received[c] \o Append(sndq[c], u) = Append(received[c] \o sndq[c], u)
  BY <1>1, <1>2, Zenon
<1> QED
  BY <1>3, <1>4 DEF Out

LEMMA HeardTail ==
  ASSUME TypeOK, NEW c \in Conn, Heard(c), inbox[c] # <<>>
  PROVE  \A i \in DOMAIN Tail(inbox[c]) : Tail(inbox[c])[i] \in ToSet(sent[c])
<1>1. inbox[c] \in Seq(Unit)
  BY DataTypes
<1>2. \A i \in DOMAIN Tail(inbox[c]) :
        i + 1 \in DOMAIN inbox[c] /\ Tail(inbox[c])[i] = inbox[c][i + 1]
  BY <1>1
<1> QED
  BY <1>2 DEF Heard

LEMMA ClosesKeeps ==
  ASSUME TlsInv, phase \in Serving, NEW m \in Conn, m = Me, isOpen[m],
         Closes(m)
  PROVE  Sessions'
<1>1. /\ TypeOK /\ Sessions /\ Proper(m)
      /\ state \in [Conn -> States] /\ ssl \in [Conn -> SslStates]
      /\ inbox \in [Conn -> Seq(Unit)] /\ sndq \in [Conn -> Seq(Unit)]
      /\ isOpen \in [Conn -> BOOLEAN]
  BY DEF TlsInv, Sessions, IInv, TypeOK, SocketsTypeOK
<1>2. /\ UNCHANGED <<backlog, peer, sent, received, handlers, wq, cur>>
      /\ ~isOpen'[m] /\ \A d \in Conn \ {m} : isOpen'[d] = isOpen[d]
  BY <1>1 DEF Closes, peerVars
<1>3. Local(m)
  <2>1. \A d \in Conn \ {m} : inbox'[d] = inbox[d]
    BY <1>1 DEF Closes
  <2>2. \A d \in Conn \ {m} : /\ sndq'[d] = sndq[d] /\ state'[d] = state[d]
                              /\ ssl'[d] = ssl[d]
    BY <1>1 DEF Closes
  <2> QED
    BY <1>2, <2>1, <2>2 DEF Local
<1>4. ~Waits(m)'
  BY <1>2, ServedIsNot DEF Waits
<1>5. /\ state' \in [Conn -> States] /\ ssl' \in [Conn -> SslStates]
      /\ state[m] = "HANDSHAKE" <=> state'[m] = "HANDSHAKE"
      /\ Session(m)' /\ ssl'[m] \in {ssl[m], "failed"}
  <2>1. Session(m) /\ ~isOpen'[m]
    BY <1>1, <1>2 DEF Proper
  <2>2. CASE UNCHANGED <<state, ssl>>
    BY <1>1, <2>1, <2>2 DEF Session
  <2>3. CASE /\ state[m] \in {"HANDSHAKE", "DATA"} /\ UNCHANGED state
             /\ ssl' = [ssl EXCEPT ![m] = "failed"]
    <3>1. ssl' \in [Conn -> SslStates] /\ ssl'[m] = "failed"
      BY <1>1, <2>3 DEF SslStates
    <3> QED
      BY <1>1, <2>1, <2>3, <3>1 DEF Session
  <2>4. CASE /\ state[m] = "SHUTDOWN" /\ UNCHANGED ssl
             /\ state' = [state EXCEPT ![m] = "STOP"]
    <3>1. state' \in [Conn -> States] /\ state'[m] = "STOP"
      BY <1>1, <2>4 DEF States
    <3> QED
      BY <1>1, <2>1, <2>4, <3>1 DEF Session
  <2> QED
    BY <2>2, <2>3, <2>4 DEF Closes
<1>6. rq' \in Seq(Record) /\ NoChunksLeft'
  <2>1. rq \in Seq(Record) /\ <<>> \in Seq(Record)
    BY <1>1, EmptySeq DEF Sessions
  <2>2. \/ phase' = "deliver" /\ rq' = rq
        \/ phase' = "dispatch" /\ rq' = <<>>
    BY DEF Closes
  <2> QED
    BY <2>1, <2>2 DEF NoChunksLeft
<1>7. Records(m)'
  <2>1. Chunks(m) = rq /\ Chunks(m)' \in {rq, <<>>}
    BY <1>2 DEF Chunks, Me, Closes
  <2> QED
    BY <1>1, <1>2, <1>5, <2>1 DEF Proper, Records
<1>8. Heard(m)'
  <2>1. state'[m] = "SHUTDOWN" => state[m] = "SHUTDOWN"
    BY <1>1 DEF Closes
  <2>2. \/ inbox'[m] = inbox[m]
        \/ inbox[m] # <<>> /\ inbox'[m] = Tail(inbox[m])
    BY <1>1 DEF Closes
  <2> QED
    BY <1>1, <1>2, <2>1, <2>2, HeardTail DEF Proper, Heard
<1>9. ByeIsLast(m)' /\ TicketsFirst(m)'
  <2>1. CASE sndq' = sndq
    <3>1. Out(m)' = Out(m)
      BY <1>2, <2>1 DEF Out
    <3> QED
      BY <1>1, <1>2, <1>5, <3>1, SaysNoMore DEF Proper
  <2>2. CASE /\ sndq' = [sndq EXCEPT ![m] = Append(@, Alert)]
             /\ ssl' = [ssl EXCEPT ![m] = "failed"]
             /\ peer[m] \in {"up", "fin"}
    <3>1. Out(m) \in Seq(Unit) /\ Out(m)' = Append(Out(m), Alert)
      BY <1>1, <1>2, <2>2, OutGrows, ProtocolApart
    <3>2. ssl'[m] = "failed" /\ ~isOpen'[m]
      BY <1>1, <1>2, <2>2 DEF Sessions, TypeOK
    <3> QED
      BY <1>1, <1>2, <2>2, <3>1, <3>2, SaysMore, ProtocolApart DEF Proper
  <2>3. CASE sndq' = [sndq EXCEPT ![m] = Append(@, Bye)]
             /\ state[m] = "SHUTDOWN" /\ ssl' = ssl
             /\ peer[m] \in {"up", "fin"}
    <3>1. Out(m) \in Seq(Unit) /\ Out(m)' = Append(Out(m), Bye)
      BY <1>1, <1>2, <2>3, OutGrows, ProtocolApart
    <3>2. Bye \in ToSet(sent[m])
      BY <1>1, <2>3 DEF Proper, Heard
    <3>3. ssl[m] = "ok" /\ ssl'[m] = "ok" /\ ~isOpen'[m]
      BY <1>1, <1>2, <2>3 DEF Proper, Session, TypeOK
    <3> QED
      BY <1>1, <1>2, <2>3, <3>1, <3>2, <3>3, SaysMore, ProtocolApart DEF Proper
  <2> QED
    BY <2>1, <2>2, <2>3 DEF Closes
<1>10. Proper(m)'
  BY <1>2, <1>4, <1>5, <1>7, <1>8, <1>9 DEF Proper, FreshSession, Complete
<1>11. \A c \in Conn : Proper(c)'
  BY <1>3, <1>10, LocalKeeps
<1> QED
  BY <1>5, <1>6, <1>11 DEF Sessions, Closes

-----------------------------------------------------------------------------
(* The calls that move a record.                                           *)

LEMMA SingleIsBuf == \A u \in Unit : <<u>> \in Buf
<1> SUFFICES ASSUME NEW u \in Unit PROVE <<u>> \in Buf
  OBVIOUS
<1>1. <<u>> \in Seq(Unit) /\ <<u>> # <<>>
  OBVIOUS
<1> QED
  BY <1>1 DEF Buf

LEMMA WayTypes ==
  ASSUME TypeOK, NEW c \in Conn
  PROVE  /\ Replies(sent[c]) \in Seq(Unit) /\ Replies(inbox[c]) \in Seq(Unit)
         /\ Out(c) \in Seq(Unit) /\ Due(c) \in Seq(Buf)
         /\ wq[c] \o Chunks(c) \in Seq(Buf)
         /\ (wq[c] \o Chunks(c)) \o Due(c) \in Seq(Buf)
         /\ (wq[c] \o Chunks(c)) \o <<>> = wq[c] \o Chunks(c)
<1>1. Due(c) \in Seq(Buf)
  <2>1. \A b \in Buf : <<b>> \in Seq(Buf)
    OBVIOUS
  <2>2. /\ << <<Flight>> >> \in Seq(Buf) /\ << <<Tickets>> >> \in Seq(Buf)
        /\ << <<Bye>> >> \in Seq(Buf) /\ <<>> \in Seq(Buf)
    BY <2>1, SingleIsBuf, ProtocolApart, EmptySeq
  <2> QED
    BY <2>2 DEF Due
<1>2. sent[c] \in Seq(Unit) /\ inbox[c] \in Seq(Unit) /\ Out(c) \in Seq(Unit)
      /\ wq[c] \o Chunks(c) \in Seq(Buf)
  BY DataTypes DEF Out
<1>3. /\ (wq[c] \o Chunks(c)) \o Due(c) \in Seq(Buf)
      /\ (wq[c] \o Chunks(c)) \o <<>> = wq[c] \o Chunks(c)
  BY <1>1, <1>2, ConcatProperties, ConcatEmptySeq
<1> QED
  BY <1>1, <1>2, <1>3, RepliesType

LEMMA ServedIsComplete ==
  ASSUME TlsInv, phase \in Serving, NEW m \in Conn, m = Me, isOpen[m],
         peer[m] \in {"up", "fin"}
  PROVE  RepliesOnTheirWay(m)
BY ServedIsNot DEF TlsInv, Sessions, Proper, Complete

\* A record has been read, and what it is answered with is held.
LEMMA TakesOn ==
  ASSUME TypeOK, NEW c \in Conn, RepliesOnTheirWay(c),
         NEW u \in Unit, inbox[c] # <<>>, u = Head(inbox[c]),
         Out(c)' = Out(c), inbox'[c] = Tail(inbox[c]), UNCHANGED sent[c],
         ((wq[c] \o Chunks(c)) \o Due(c))'
           = Append((wq[c] \o Chunks(c)) \o Due(c), <<ReplyTo(u)>>)
  PROVE  RepliesOnTheirWay(c)'
<1> DEFINE s == Replies(sent[c])
           o == Out(c)
           q == (wq[c] \o Chunks(c)) \o Due(c)
           i == Replies(inbox[c])
<1>1. s \in Seq(Unit) /\ o \in Seq(Unit) /\ q \in Seq(Buf) /\ i \in Seq(Unit)
  BY WayTypes
<1>2. /\ i # <<>> /\ Head(i) = ReplyTo(u)
      /\ Tail(i) = Replies(Tail(inbox[c]))
  BY RepliesTail, DataTypes
<1>3. Whole(s, o, q, i)
  BY DEF RepliesOnTheirWay, Out
<1>4. /\ s' = s /\ o' = o /\ i' = Tail(i) /\ q' = Append(q, <<Head(i)>>)
  BY <1>2
<1>5. RepliesOnTheirWay(c)' <=> Whole(s', o', q', i')
  BY DEF RepliesOnTheirWay, Out
<1> HIDE DEF s, o, q, i
<1>6. Whole(s, o, Append(q, <<Head(i)>>), Tail(i))
  BY <1>1, <1>2, <1>3, WholeTake
<1> QED
  BY <1>4, <1>5, <1>6, Zenon

\* The first record that is held has gone out.
LEMMA GivesOut ==
  ASSUME TypeOK, NEW c \in Conn, RepliesOnTheirWay(c), NEW u \in Unit,
         (wq[c] \o Chunks(c)) \o Due(c) # <<>>,
         Head((wq[c] \o Chunks(c)) \o Due(c)) = <<u>>,
         Out(c)' = Append(Out(c), u), UNCHANGED <<sent[c], inbox[c]>>,
         ((wq[c] \o Chunks(c)) \o Due(c))'
           = Tail((wq[c] \o Chunks(c)) \o Due(c))
  PROVE  RepliesOnTheirWay(c)'
<1> DEFINE s == Replies(sent[c])
           o == Out(c)
           q == (wq[c] \o Chunks(c)) \o Due(c)
           i == Replies(inbox[c])
<1>1. s \in Seq(Unit) /\ o \in Seq(Unit) /\ q \in Seq(Buf) /\ i \in Seq(Unit)
  BY WayTypes
<1>3. Whole(s, o, q, i)
  BY DEF RepliesOnTheirWay, Out
<1>4. /\ s' = s /\ o' = Append(o, u) /\ i' = i /\ q' = Tail(q)
      /\ q # <<>> /\ Head(q) = <<u>>
  OBVIOUS
<1>5. RepliesOnTheirWay(c)' <=> Whole(s', o', q', i')
  BY DEF RepliesOnTheirWay, Out
<1> HIDE DEF s, o, q, i
<1>6. Whole(s, Append(o, u), Tail(q), i)
  BY <1>1, <1>3, <1>4, WholeGive
<1> QED
  BY <1>4, <1>5, <1>6, Zenon

\* During the handshake nothing is held but what it owes.
LEMMA OnlyDue ==
  ASSUME TypeOK, NEW c \in Conn, wq[c] = <<>>, Chunks(c) = <<>>
  PROVE  (wq[c] \o Chunks(c)) \o Due(c) = Due(c)
<1>1. wq[c] \o Chunks(c) = <<>>
  BY EmptySeq, ConcatEmptySeq
<1>2. Due(c) \in Seq(Buf)
  BY WayTypes
<1> QED
  BY <1>1, <1>2, ConcatEmptySeq

LEMMA HandshakeReadKeeps == ASSUME TlsInv, HandshakeRead PROVE Sessions'
<1>1. PICK m \in Conn : /\ m = Me /\ Sock = m /\ isOpen[m]
                        /\ phase \in Serving /\ state[m] = "HANDSHAKE"
  BY CallIsOwn DEF HandshakeRead
<1>2. /\ TypeOK /\ Sessions /\ Proper(m) /\ ssl \in [Conn -> SslStates]
      /\ inbox \in [Conn -> Seq(Unit)]
  BY DEF TlsInv, Sessions, IInv, TypeOK, SocketsTypeOK
<1>3. /\ ssl[m] \in Awaiting /\ inbox[m] # <<>> /\ Head(inbox[m]) = Wanted
      /\ ssl' = [ssl EXCEPT ![m] = IF @ = "hello" THEN "flight" ELSE "tickets"]
      /\ inbox' = [inbox EXCEPT ![m] = Tail(@)] /\ errors' = FALSE
      /\ UNCHANGED <<fdTable, peerVars, sndq, loopVars, state>>
  BY <1>1 DEF HandshakeRead, Take, Begins
<1>4. UNCHANGED <<backlog, peer, sent, received, sndq, phase, cur, rq, handlers,
                  isOpen, wq, state>>
  BY <1>3 DEF peerVars, loopVars
<1>5. Local(m)
  BY <1>2, <1>3, <1>4 DEF Local
<1>6. Chunks(m)' = Chunks(m) /\ Out(m)' = Out(m) /\ ~Waits(m)'
  BY <1>1, <1>4, ServedIsNot DEF Chunks, Out, Waits
<1>7. wq[m] = <<>> /\ Chunks(m) = <<>>
  BY <1>1, <1>2 DEF Proper, Records
<1>8. /\ FreshSession(m)' /\ Session(m)' /\ Records(m)' /\ Heard(m)'
      /\ ByeIsLast(m)' /\ TicketsFirst(m)'
  <2>1. ssl'[m] \in {"flight", "tickets"}
    BY <1>2, <1>3
  <2>2. FreshSession(m)' /\ Session(m)' /\ Records(m)'
    BY <1>1, <1>2, <1>4, <1>6, <1>7, <2>1
       DEF Proper, FreshSession, Session, Records
  <2>3. inbox'[m] = Tail(inbox[m])
    BY <1>2, <1>3
  <2>4. Heard(m)'
    BY <1>1, <1>2, <1>3, <1>4, <2>3, HeardTail DEF Proper, Heard
  <2>5. \/ ssl[m] = "hello" /\ ssl'[m] = "flight"
        \/ ssl[m] = "finished" /\ ssl'[m] = "tickets"
    BY <1>2, <1>3 DEF Awaiting
  <2>6. ByeIsLast(m)' /\ TicketsFirst(m)'
    BY <1>2, <1>4, <1>6, <2>5, SaysNoMore DEF Proper
  <2> QED
    BY <2>2, <2>4, <2>6
<1>9. Complete(m)'
  <2> SUFFICES ASSUME peer[m] \in {"up", "fin"} PROVE RepliesOnTheirWay(m)'
    BY <1>4 DEF Complete
  <2>1. RepliesOnTheirWay(m)
    BY <1>1, ServedIsComplete
  <2>2. Due(m) = <<>> /\ Due(m)' = << <<ReplyTo(Wanted)>> >>
    <3>1. CASE ssl[m] = "hello"
      <4>1. Wanted = Hello /\ ssl'[m] = "flight"
        BY <1>1, <1>2, <1>3, <3>1 DEF Wanted
      <4>2. Due(m) = <<>>
        BY <1>1, <3>1 DEF Due
      <4>3. Due(m)' = << <<Flight>> >>
        BY <4>1 DEF Due
      <4> QED
        BY <4>1, <4>2, <4>3 DEF ReplyTo
    <3>2. CASE ssl[m] = "finished"
      <4>1. Wanted = Finished /\ ssl'[m] = "tickets"
        BY <1>1, <1>2, <1>3, <3>2 DEF Wanted
      <4>2. Due(m) = <<>>
        BY <1>1, <3>2 DEF Due
      <4>3. Due(m)' = << <<Tickets>> >>
        BY <4>1 DEF Due
      <4> QED
        BY <4>1, <4>2, <4>3, ProtocolApart DEF ReplyTo
    <3> QED
      BY <1>3, <3>1, <3>2 DEF Awaiting
  <2>3. TypeOK'
    BY <1>2, <1>3 DEF TypeOK, SocketsTypeOK, loopVars, peerVars
  <2>4. /\ (wq[m] \o Chunks(m)) \o Due(m) = <<>>
        /\ ((wq[m] \o Chunks(m)) \o Due(m))' = << <<ReplyTo(Wanted)>> >>
    <3>1. wq'[m] = <<>> /\ Chunks(m)' = <<>>
      BY <1>4, <1>6, <1>7
    <3>2. (wq[m] \o Chunks(m)) \o Due(m) = Due(m)
      BY <1>2, <1>7, OnlyDue
    <3>3. ((wq[m] \o Chunks(m)) \o Due(m))' = Due(m)'
      <4>1. <<>> \o <<>> = <<>> /\ <<>> \o Due(m)' = Due(m)'
        BY <2>2
      <4> QED
        BY <3>1, <4>1
    <3> QED
      BY <2>2, <3>2, <3>3
  <2>5. Append(<<>>, <<ReplyTo(Wanted)>>) = << <<ReplyTo(Wanted)>> >>
    OBVIOUS
  <2>6. Wanted \in Unit
    BY ProtocolApart DEF Wanted
  <2>7. inbox'[m] = Tail(inbox[m]) /\ sent'[m] = sent[m]
    BY <1>2, <1>3, <1>4
  <2> QED
    BY <1>2, <1>3, <1>6, <2>1, <2>4, <2>5, <2>6, <2>7, TakesOn
<1>10. \A c \in Conn : Proper(c)'
  BY <1>1, <1>5, <1>8, <1>9, LocalKeeps DEF Proper
<1>11. ssl' \in [Conn -> SslStates]
  BY <1>2, <1>3 DEF SslStates, Answering
<1> QED
  BY <1>2, <1>3, <1>4, <1>10, <1>11 DEF Sessions, NoChunksLeft

LEMMA HandshakeWriteKeeps == ASSUME TlsInv, HandshakeWrite PROVE Sessions'
<1>1. PICK m \in Conn : /\ m = Me /\ Sock = m /\ isOpen[m]
                        /\ phase \in Serving /\ state[m] = "HANDSHAKE"
  BY CallIsOwn DEF HandshakeWrite
<1>2. /\ TypeOK /\ Sessions /\ Proper(m) /\ ssl \in [Conn -> SslStates]
      /\ sndq \in [Conn -> Seq(Unit)] /\ state \in [Conn -> States]
  BY DEF TlsInv, Sessions, IInv, TypeOK, SocketsTypeOK
<1> DEFINE u == IF ssl[m] = "flight" THEN Flight ELSE Tickets
<1>3. /\ ssl[m] \in Answering /\ peer[m] \in {"up", "fin"}
      /\ ssl' = [ssl EXCEPT ![m] = IF @ = "flight" THEN "finished" ELSE "ok"]
      /\ state' = [state EXCEPT ![m] = IF ssl[m] = "tickets" THEN "DATA" ELSE @]
      /\ sndq' = [sndq EXCEPT ![m] = Append(@, u)] /\ errors' = FALSE
      /\ UNCHANGED <<fdTable, peerVars, inbox, loopVars>>
  BY <1>1 DEF HandshakeWrite, Emit, Goes
<1>4. UNCHANGED <<backlog, peer, sent, received, inbox, phase, cur, rq, handlers,
                  isOpen, wq>>
  BY <1>3 DEF peerVars, loopVars
<1>5. Local(m)
  BY <1>2, <1>3, <1>4 DEF Local
<1>6. Chunks(m)' = Chunks(m) /\ ~Waits(m)'
  BY <1>1, <1>4, ServedIsNot DEF Chunks, Waits
<1>7. wq[m] = <<>> /\ Chunks(m) = <<>>
  BY <1>1, <1>2 DEF Proper, Records
<1>8. /\ u \in {Flight, Tickets} /\ u \in Unit /\ u # Bye /\ u \notin Data
      /\ << <<u>> >> = Due(m)
  BY <1>3, ProtocolApart DEF Due, Answering
<1> HIDE DEF u
<1>9. Out(m) \in Seq(Unit) /\ Out(m)' = Append(Out(m), u)
  BY <1>2, <1>3, <1>4, <1>8, OutGrows
<1>10. \/ ssl[m] = "flight" /\ ssl'[m] = "finished" /\ state'[m] = "HANDSHAKE"
       \/ ssl[m] = "tickets" /\ ssl'[m] = "ok" /\ state'[m] = "DATA"
  BY <1>1, <1>2, <1>3 DEF Answering
<1>11. FreshSession(m)' /\ Session(m)' /\ Records(m)' /\ Heard(m)'
  BY <1>1, <1>2, <1>4, <1>6, <1>7, <1>10
     DEF Proper, FreshSession, Session, Records, Heard
<1>12. ByeIsLast(m)' /\ TicketsFirst(m)'
  <2>1. \/ u = Flight /\ ssl[m] = "flight" /\ ssl'[m] = "finished"
        \/ u = Tickets /\ ssl[m] = "tickets" /\ ssl'[m] = "ok"
    BY <1>10 DEF u
  <2> QED
    BY <1>1, <1>2, <1>3, <1>4, <1>8, <1>9, <2>1, SaysMore DEF Proper
<1>13. Complete(m)'
  <2>1. RepliesOnTheirWay(m)
    BY <1>1, <1>3, ServedIsComplete
  <2>2. (wq[m] \o Chunks(m)) \o Due(m) = << <<u>> >>
    BY <1>2, <1>7, <1>8, OnlyDue
  <2>3. ((wq[m] \o Chunks(m)) \o Due(m))' = <<>>
    <3>1. Due(m)' = <<>> /\ wq'[m] = <<>> /\ Chunks(m)' = <<>>
      BY <1>4, <1>6, <1>7, <1>10 DEF Due
    <3>2. (<<>> \o <<>>) \o <<>> = <<>>
      OBVIOUS
    <3> QED
      BY <3>1, <3>2
  <2>4. /\ << <<u>> >> # <<>> /\ Head(<< <<u>> >>) = <<u>>
        /\ Tail(<< <<u>> >>) = <<>>
    OBVIOUS
  <2>5. RepliesOnTheirWay(m)'
    BY <1>2, <1>4, <1>8, <1>9, <2>1, <2>2, <2>3, <2>4, GivesOut
  <2> QED
    BY <2>5 DEF Complete
<1>14. \A c \in Conn : Proper(c)'
  BY <1>1, <1>5, <1>11, <1>12, <1>13, LocalKeeps DEF Proper
<1>15. ssl' \in [Conn -> SslStates] /\ state' \in [Conn -> States]
  BY <1>2, <1>3 DEF SslStates, Awaiting, States
<1> QED
  BY <1>2, <1>3, <1>4, <1>14, <1>15 DEF Sessions, NoChunksLeft

LEMMA ReadRecordKeeps == ASSUME TlsInv, ReadRecord PROVE Sessions'
<1>1. PICK m \in Conn : /\ m = Me /\ Sock = m /\ isOpen[m]
                        /\ phase \in Serving /\ state[m] = "DATA"
                        /\ phase = "read"
  BY CallIsOwn DEF ReadRecord, Reading
<1>2. /\ TypeOK /\ Sessions /\ Proper(m) /\ rq \in Seq(Record)
      /\ inbox \in [Conn -> Seq(Unit)]
  BY DEF TlsInv, Sessions, IInv, TypeOK, SocketsTypeOK
<1>3. PICK u \in Data : /\ inbox[m] # <<>> /\ Head(inbox[m]) = u
                        /\ inbox' = [inbox EXCEPT ![m] = Tail(@)]
                        /\ rq' = Append(rq, <<u>>)
  BY <1>1 DEF ReadRecord, Take, Begins
<1>4. UNCHANGED <<backlog, peer, sent, received, sndq, phase, cur, handlers,
                  isOpen, wq, state, ssl, errors>>
  BY DEF ReadRecord, peerVars, regVars, tlsVars
<1>5. Local(m)
  BY <1>2, <1>3, <1>4 DEF Local
<1>6. Chunks(m) = rq /\ Chunks(m)' = rq' /\ Out(m)' = Out(m) /\ ~Waits(m)'
  BY <1>1, <1>4, ServedIsNot DEF Chunks, Me, Out, Waits
<1>7. inbox'[m] = Tail(inbox[m]) /\ sent'[m] = sent[m]
  BY <1>2, <1>3, <1>4
<1>8. rq' \in Seq(Record)
  <2>1. <<u>> \in Record
    BY DEF Record
  <2> QED
    BY <1>2, <1>3, <2>1
<1>9. FreshSession(m)' /\ Session(m)' /\ Records(m)'
  BY <1>1, <1>2, <1>4, <1>6 DEF Proper, FreshSession, Session, Records
<1>10. Heard(m)'
  BY <1>1, <1>2, <1>3, <1>4, <1>7, HeardTail DEF Proper, Heard
<1>11. ByeIsLast(m)' /\ TicketsFirst(m)'
  BY <1>2, <1>4, <1>6, SaysNoMore DEF Proper
<1>12. Complete(m)'
  <2> SUFFICES ASSUME peer[m] \in {"up", "fin"} PROVE RepliesOnTheirWay(m)'
    BY <1>4 DEF Complete
  <2>1. RepliesOnTheirWay(m)
    BY <1>1, ServedIsComplete
  <2>2. Due(m) = <<>> /\ Due(m)' = <<>>
    BY <1>1, <1>2, <1>4 DEF Due, Proper, Session
  <2>3. u \in Unit /\ ReplyTo(u) = u /\ <<u>> \in Buf
    BY ProtocolApart, ReplyToData, SingleIsBuf
  <2>4. wq[m] \in Seq(Buf) /\ rq \in Seq(Buf)
    BY <1>2, DataTypes
  <2>5. wq[m] \o Append(rq, <<u>>) = Append(wq[m] \o rq, <<u>>)
    BY <2>3, <2>4, AppendConcat, Zenon
  <2>6. /\ wq[m] \o rq \in Seq(Buf) /\ Append(wq[m] \o rq, <<u>>) \in Seq(Buf)
    <3>1. wq[m] \o rq \in Seq(Buf)
      BY <2>4
    <3> QED
      BY <2>3, <3>1, AppendProperties
  <2>7. /\ (wq[m] \o rq) \o <<>> = wq[m] \o rq
        /\ Append(wq[m] \o rq, <<u>>) \o <<>> = Append(wq[m] \o rq, <<u>>)
    BY <2>6, ConcatEmptySeq
  <2>8. (wq[m] \o Chunks(m)) \o Due(m) = wq[m] \o rq
    BY <1>6, <2>2, <2>7
  <2>9. ((wq[m] \o Chunks(m)) \o Due(m))' = Append(wq[m] \o rq, <<u>>)
    BY <1>3, <1>4, <1>6, <2>2, <2>5, <2>7
  <2> QED
    BY <1>2, <1>3, <1>6, <1>7, <2>1, <2>3, <2>8, <2>9, TakesOn
<1>13. \A c \in Conn : Proper(c)'
  BY <1>1, <1>5, <1>9, <1>10, <1>11, <1>12, LocalKeeps DEF Proper
<1> QED
  BY <1>1, <1>2, <1>4, <1>8, <1>13 DEF Sessions, NoChunksLeft

\* The close_notify has been read, and the shutdown begins.
LEMMA ReadByeKeeps ==
  ASSUME TlsInv, ReadBye, UNCHANGED loopVars,
         state' = [state EXCEPT ![Me] = "SHUTDOWN"]
  PROVE  Sessions'
<1>1. PICK m \in Conn : /\ m = Me /\ Sock = m /\ isOpen[m]
                        /\ phase \in Serving /\ state[m] = "DATA"
                        /\ phase = "read"
  BY CallIsOwn DEF ReadBye, Reading
<1>2. /\ TypeOK /\ Sessions /\ Proper(m) /\ state \in [Conn -> States]
      /\ inbox \in [Conn -> Seq(Unit)]
  BY DEF TlsInv, Sessions, IInv, TypeOK, SocketsTypeOK
<1>3. /\ inbox[m] # <<>> /\ Head(inbox[m]) = Bye
      /\ inbox' = [inbox EXCEPT ![m] = Tail(@)]
      /\ state' = [state EXCEPT ![m] = "SHUTDOWN"]
  BY <1>1 DEF ReadBye, Take, Begins
<1>4. UNCHANGED <<backlog, peer, sent, received, sndq, phase, cur, handlers,
                  isOpen, wq, rq, ssl, errors>>
  BY DEF ReadBye, peerVars, loopVars
<1>5. Local(m)
  BY <1>2, <1>3, <1>4 DEF Local
<1>6. Chunks(m) = rq /\ Chunks(m)' = rq /\ Out(m)' = Out(m) /\ ~Waits(m)'
  BY <1>1, <1>4, ServedIsNot DEF Chunks, Me, Out, Waits
<1>7. /\ inbox'[m] = Tail(inbox[m]) /\ sent'[m] = sent[m]
      /\ state'[m] = "SHUTDOWN"
  BY <1>2, <1>3, <1>4
<1>8. ssl[m] = "ok"
  BY <1>1, <1>2 DEF Proper, Session
<1>9. FreshSession(m)' /\ Session(m)' /\ Records(m)'
  BY <1>1, <1>2, <1>4, <1>6, <1>7, <1>8
     DEF Proper, FreshSession, Session, Records
<1>10. Bye \in ToSet(sent[m])
  <2>1. 1 \in DOMAIN inbox[m] /\ inbox[m][1] = Bye
    BY <1>2, <1>3
  <2> QED
    BY <1>2, <2>1 DEF Proper, Heard
<1>11. Heard(m)'
  BY <1>2, <1>3, <1>7, <1>10, HeardTail DEF Proper, Heard
<1>12. ByeIsLast(m)' /\ TicketsFirst(m)'
  BY <1>2, <1>4, <1>6, SaysNoMore DEF Proper
<1>13. Complete(m)'
  <2> SUFFICES ASSUME peer[m] \in {"up", "fin"} PROVE RepliesOnTheirWay(m)'
    BY <1>4 DEF Complete
  <2>1. RepliesOnTheirWay(m)
    BY <1>1, ServedIsComplete
  <2>2. Due(m) = <<>> /\ Due(m)' = << <<Bye>> >>
    BY <1>1, <1>4, <1>7, <1>8 DEF Due
  <2>3. Bye \in Unit /\ ReplyTo(Bye) = Bye /\ <<Bye>> \in Buf
    BY ProtocolApart, SingleIsBuf DEF ReplyTo
  <2>4. wq[m] \o rq \in Seq(Buf) /\ (wq[m] \o rq) \o <<>> = wq[m] \o rq
    BY <1>2, <1>6, WayTypes
  <2>5. (wq[m] \o rq) \o << <<Bye>> >> = Append(wq[m] \o rq, <<Bye>>)
    BY <2>3, <2>4, AppendIsConcat
  <2>6. (wq[m] \o Chunks(m)) \o Due(m) = wq[m] \o rq
    BY <1>6, <2>2, <2>4
  <2>7. ((wq[m] \o Chunks(m)) \o Due(m))' = Append(wq[m] \o rq, <<Bye>>)
    BY <1>4, <1>6, <2>2, <2>5
  <2> QED
    BY <1>2, <1>3, <1>6, <1>7, <2>1, <2>3, <2>6, <2>7, TakesOn
<1>14. \A c \in Conn : Proper(c)'
  BY <1>1, <1>5, <1>9, <1>11, <1>12, <1>13, LocalKeeps DEF Proper
<1>15. state' \in [Conn -> States]
  BY <1>2, <1>3 DEF States
<1> QED
  BY <1>2, <1>4, <1>14, <1>15 DEF Sessions, NoChunksLeft

LEMMA WriteRecordKeeps == ASSUME TlsInv, WriteRecord PROVE Sessions'
<1>1. PICK m \in Conn : /\ m = Me /\ Sock = m /\ isOpen[m]
                        /\ phase \in Serving /\ state[m] = "DATA"
                        /\ phase = "write" /\ wq[m] # <<>> /\ rq = <<>>
  BY CallIsOwn DEF WriteRecord, Sending, CanWrite
<1>2. /\ TypeOK /\ Sessions /\ Proper(m) /\ wq \in [Conn -> Seq(Buf)]
      /\ sndq \in [Conn -> Seq(Unit)] /\ wq[m] \in Seq(Record)
  BY DEF TlsInv, Sessions, IInv, TypeOK, SocketsTypeOK, Proper, Records
<1>3. PICK u \in Data : Head(wq[m]) = <<u>> /\ Head(Head(wq[m])) = u
  <2>1. Head(wq[m]) \in Record
    BY <1>1, <1>2
  <2>2. \A u \in Data : Head(<<u>>) = u
    OBVIOUS
  <2> QED
    BY <2>1, <2>2 DEF Record
<1>4. /\ peer[m] \in {"up", "fin"}
      /\ sndq' = [sndq EXCEPT ![m] = Append(@, u)]
      /\ wq' = [wq EXCEPT ![m] = Tail(@)]
  BY <1>1, <1>3 DEF WriteRecord, Goes, Emit
<1>5. UNCHANGED <<backlog, peer, sent, received, inbox, phase, cur, handlers,
                  isOpen, rq, state, ssl, errors>>
  BY DEF WriteRecord, peerVars, tlsVars
<1>6. Local(m)
  BY <1>2, <1>4, <1>5 DEF Local
<1>7. Chunks(m) = <<>> /\ Chunks(m)' = <<>> /\ ~Waits(m)'
  BY <1>1, <1>5, ServedIsNot DEF Chunks, Waits
<1>8. u \in Unit /\ u # Bye /\ u # Tickets
  BY ProtocolApart
<1>9. ssl[m] = "ok"
  BY <1>1, <1>2 DEF Proper, Session
<1>10. /\ sndq'[m] = Append(sndq[m], u) /\ wq'[m] = Tail(wq[m])
       /\ Tail(wq[m]) \in Seq(Record)
  BY <1>1, <1>2, <1>4
<1>11. Out(m) \in Seq(Unit) /\ Out(m)' = Append(Out(m), u)
  BY <1>2, <1>5, <1>8, <1>10, OutGrows
<1>12. FreshSession(m)' /\ Session(m)' /\ Records(m)' /\ Heard(m)'
  BY <1>1, <1>2, <1>5, <1>7, <1>10
     DEF Proper, FreshSession, Session, Records, Heard
<1>13. ByeIsLast(m)' /\ TicketsFirst(m)'
  BY <1>1, <1>2, <1>4, <1>5, <1>8, <1>9, <1>11, SaysMore DEF Proper
<1>14. Complete(m)'
  <2>1. RepliesOnTheirWay(m)
    BY <1>1, <1>4, ServedIsComplete
  <2>2. Due(m) = <<>> /\ Due(m)' = <<>>
    BY <1>1, <1>5, <1>9 DEF Due
  <2>3. wq[m] \in Seq(Buf) /\ Tail(wq[m]) \in Seq(Buf)
    BY <1>1, <1>2
  <2>4. /\ wq[m] \o <<>> = wq[m] /\ Tail(wq[m]) \o <<>> = Tail(wq[m])
    BY <2>3, ConcatEmptySeq
  <2>5. (wq[m] \o Chunks(m)) \o Due(m) = wq[m]
    BY <1>7, <2>2, <2>4
  <2>6. ((wq[m] \o Chunks(m)) \o Due(m))' = Tail(wq[m])
    BY <1>7, <1>10, <2>2, <2>4
  <2>7. RepliesOnTheirWay(m)'
    BY <1>1, <1>2, <1>3, <1>5, <1>8, <1>11, <2>1, <2>5, <2>6, GivesOut
  <2> QED
    BY <2>7 DEF Complete
<1>15. \A c \in Conn : Proper(c)'
  BY <1>1, <1>6, <1>12, <1>13, <1>14, LocalKeeps DEF Proper
<1> QED
  BY <1>1, <1>2, <1>5, <1>15 DEF Sessions, NoChunksLeft

LEMMA TlsOnReadKeeps ==
  ASSUME TlsInv, EchoOnRead, UNCHANGED tlsVars
  PROVE  Sessions'
<1> DEFINE kill == Head(rq) = <<KillMe>>
<1>1. TypeOK /\ IInv /\ Sessions
  BY DEF TlsInv, IInv
<1>2. /\ phase = "deliver" /\ phase \in Serving /\ rq # <<>> /\ rq' = Tail(rq)
      /\ UNCHANGED <<peerVars, inbox, sndq, phase, cur, handlers>>
      /\ UNCHANGED <<state, ssl, errors>>
  BY DEF EchoOnRead, OnRead, Serving, tlsVars
<1>3. /\ wq' = [c \in Conn |-> IF ~kill /\ Me = c THEN Append(wq[c], Head(rq))
                                                  ELSE wq[c]]
      /\ isOpen' = [c \in Conn |-> isOpen[c] /\ ~(kill /\ Me = c)]
  BY <1>2 DEF EchoOnRead, OnRead, Me
<1>4. PICK m \in Conn : m = Me
  BY <1>1, <1>2 DEF IInv, TypeOK, ServingOrder, Registered, Me
<1>5. /\ Proper(m) /\ rq \in Seq(Record) /\ isOpen \in [Conn -> BOOLEAN]
      /\ wq[m] \in Seq(Record)
  BY <1>1 DEF Sessions, TypeOK, Proper, Records
<1>6. /\ wq'[m] = IF kill THEN wq[m] ELSE Append(wq[m], Head(rq))
      /\ isOpen'[m] = (isOpen[m] /\ ~kill)
      /\ \A d \in Conn \ {m} : wq'[d] = wq[d] /\ isOpen'[d] = isOpen[d]
  BY <1>3, <1>4, <1>5
<1> HIDE DEF kill
<1>7. Local(m)
  BY <1>2, <1>6 DEF Local, peerVars
<1>8. /\ Chunks(m) = rq /\ Chunks(m)' = Tail(rq) /\ Out(m)' = Out(m)
      /\ ~Waits(m)'
  BY <1>2, <1>4, ServedIsNot DEF Chunks, Me, Out, Waits, peerVars
<1>9. UNCHANGED <<received, sent, backlog, peer>>
  BY <1>2 DEF peerVars
<1>10. /\ Head(rq) \in Record /\ Tail(rq) \in Seq(Record)
       /\ Append(wq[m], Head(rq)) \in Seq(Record)
  BY <1>2, <1>5
<1>11. state[m] # "HANDSHAKE"
  BY <1>2, <1>5, <1>8 DEF Proper, Records
<1>12. FreshSession(m)' /\ Session(m)' /\ Records(m)' /\ Heard(m)'
  BY <1>2, <1>5, <1>6, <1>8, <1>9, <1>10, <1>11
     DEF Proper, FreshSession, Session, Records, Heard
<1>13. ByeIsLast(m)' /\ TicketsFirst(m)'
  BY <1>2, <1>5, <1>6, <1>8, <1>9, SaysNoMore DEF Proper
<1>14. Complete(m)'
  <2> SUFFICES ASSUME isOpen[m], ~kill, peer[m] \in {"up", "fin"}
               PROVE  RepliesOnTheirWay(m)'
    BY <1>6, <1>9 DEF Complete
  <2>1. RepliesOnTheirWay(m)
    BY <1>2, <1>4, ServedIsComplete
  <2>2. wq[m] \in Seq(Buf) /\ rq \in Seq(Buf)
    BY <1>1, DataTypes
  <2>3. Append(wq[m], Head(rq)) \o Tail(rq) = wq[m] \o rq
    BY <1>2, <2>2, ShiftConcat, Zenon
  <2>4. (wq[m] \o Chunks(m))' = wq[m] \o Chunks(m)
    BY <1>6, <1>8, <2>3
  <2>5. Due(m)' = Due(m)
    BY <1>2 DEF Due
  <2> QED
    BY <1>2, <1>8, <1>9, <2>1, <2>4, <2>5 DEF RepliesOnTheirWay, Out
<1>15. \A c \in Conn : Proper(c)'
  BY <1>2, <1>4, <1>7, <1>12, <1>13, <1>14, LocalKeeps DEF Proper
<1> QED
  BY <1>1, <1>2, <1>10, <1>15 DEF Sessions, NoChunksLeft

-----------------------------------------------------------------------------
(* A connection comes, or goes.                                            *)

LEMMA TlsAcceptKeeps ==
  ASSUME TlsInv, NEW f \in Fd, Accept(f), UNCHANGED tlsVars
  PROVE  Sessions'
<1>1. TypeOK /\ IInv /\ Sessions /\ isOpen \in [Conn -> BOOLEAN]
  BY DEF TlsInv, IInv, TypeOK
<1>0. PICK c0 \in Conn :
        /\ c0 = Head(backlog) /\ Waits(c0)
        /\ \A d \in Conn : Waits(d)' => Waits(d)
  BY <1>1, TailOfBacklog DEF Accept, Waits
<1>2. /\ phase = "dispatch" /\ phase' = "dispatch" /\ backlog # <<>>
      /\ backlog' = Tail(backlog)
      /\ handlers' = [handlers EXCEPT ![f] = c0]
      /\ isOpen' = [isOpen EXCEPT ![c0] = TRUE]
      /\ UNCHANGED <<peer, inbox, sndq, sent, received, rq, wq>>
      /\ UNCHANGED <<state, ssl, errors>>
  BY <1>0 DEF Accept, IsNext, tlsVars
<1>3. /\ c0 \in Conn /\ Waits(c0)
      /\ \A d \in Conn : Waits(d)' => Waits(d)
  BY <1>0
<1>4. \A d \in Conn : Chunks(d) = <<>> /\ Chunks(d)' = <<>>
  BY <1>2 DEF Chunks, Serving
<1>5. ASSUME NEW d \in Conn, d # c0 PROVE Proper(d)'
  <2>1. isOpen'[d] = isOpen[d]
    BY <1>1, <1>2, <1>3, <1>5
  <2>2. RegisteredConn(d)' => RegisteredConn(d)
    BY <1>1, <1>2, <1>5 DEF RegisteredConn, TypeOK
  <2>3. Proper(d)
    BY <1>1 DEF Sessions
  <2> QED
    BY <1>2, <1>3, <1>4, <2>1, <2>2, <2>3, Untouched
<1>6. Proper(c0)'
  <2>1. /\ received[c0] = <<>> /\ sndq[c0] = <<>> /\ wq[c0] = <<>>
        /\ inbox[c0] = sent[c0] /\ state[c0] = "HANDSHAKE"
        /\ ssl[c0] = "hello" /\ Proper(c0)
    BY <1>1, <1>3 DEF Sessions, Proper, FreshSession
  <2>2. FreshSession(c0)' /\ Session(c0)' /\ Records(c0)' /\ Heard(c0)'
    BY <1>2, <1>4, <2>1 DEF Proper, FreshSession, Session, Records, Heard
  <2>3. Out(c0) = <<>> /\ Out(c0)' = <<>>
    BY <1>2, <2>1 DEF Out
  <2>4. ByeIsLast(c0)' /\ TicketsFirst(c0)'
    BY <1>2, <2>1, <2>3 DEF ByeIsLast, TicketsFirst, Begun, InOrder
  <2>5. RepliesOnTheirWay(c0)'
    <3>1. Replies(sent[c0]) \in Seq(Unit)
      BY <1>1, <1>3, WayTypes
    <3>2. Whole(Replies(sent[c0]), <<>> \o <<>>, <<>> \o <<>>, Replies(sent[c0]))
      BY <3>1, WholeFresh
    <3>3. Due(c0)' = <<>> /\ <<>> \o <<>> = <<>> /\ (<<>> \o <<>>) \o <<>> = <<>>
      BY <1>2, <2>1 DEF Due
    <3>4. ((wq[c0] \o Chunks(c0)) \o Due(c0))' = <<>> \o <<>>
      BY <1>2, <1>3, <1>4, <2>1, <3>3
    <3> QED
      BY <1>2, <2>1, <3>2, <3>4 DEF RepliesOnTheirWay
  <2> QED
    BY <2>2, <2>4, <2>5 DEF Proper, Complete
<1>7. \A d \in Conn : Proper(d)'
  BY <1>5, <1>6
<1> QED
  BY <1>1, <1>2, <1>7 DEF Sessions, NoChunksLeft

LEMMA TlsCleanupKeeps == ASSUME TlsInv, TlsCleanup PROVE Sessions'
<1>1. TypeOK /\ Sessions
  BY DEF TlsInv, IInv
<1>2. /\ phase = "cleanup" /\ phase' = "poll"
      /\ UNCHANGED <<backlog, peer, sent, received, inbox, sndq, rq, isOpen>>
      /\ UNCHANGED <<state, ssl>>
      /\ handlers' = [f \in Fd |-> IF Closed(f) THEN NoConn ELSE handlers[f]]
      /\ wq' = [c \in Conn |-> IF \E f \in Fd : Closed(f) /\ handlers[f] = c
                               THEN <<>> ELSE wq[c]]
  BY DEF TlsCleanup, Cleanup, peerVars
<1>3. errors' \in BOOLEAN
  <2>1. \A x, y \in BOOLEAN : (x \/ y) \in BOOLEAN
    OBVIOUS
  <2> QED
    BY <1>1 DEF TlsCleanup, Sessions
<1>4. ASSUME NEW d \in Conn PROVE Proper(d)'
  <2>1. Chunks(d) = <<>> /\ Chunks(d)' = <<>>
    BY <1>2 DEF Chunks, Serving
  <2>2. Waits(d)' = Waits(d)
    BY <1>2 DEF Waits
  <2>3. RegisteredConn(d)' => RegisteredConn(d)
    BY <1>2, <1>4, NoConnAssumption DEF RegisteredConn
  <2>4. \/ wq'[d] = wq[d]
        \/ wq'[d] = <<>> /\ ~isOpen'[d]
    BY <1>2, <1>4 DEF Closed
  <2>5. Proper(d)
    BY <1>1 DEF Sessions
  <2> QED
    BY <1>2, <2>1, <2>2, <2>3, <2>4, <2>5, Untouched
<1> QED
  BY <1>1, <1>2, <1>3, <1>4 DEF Sessions, NoChunksLeft

-----------------------------------------------------------------------------
(* The peers.                                                              *)

\* Only the connection of c has moved, and the loop stands still.
LEMMA PeerKeeps ==
  ASSUME TlsInv, NEW c \in Conn, Proper(c)', UNCHANGED <<loopVars, tlsVars>>,
         \A d \in Conn \ {c} :
           /\ UNCHANGED <<received[d], sndq[d], inbox[d], sent[d], peer[d]>>
           /\ Waits(d)' => Waits(d)
  PROVE  Sessions'
<1>1. /\ UNCHANGED <<handlers, wq, rq, isOpen, phase, cur>>
      /\ UNCHANGED <<state, ssl, errors>>
  BY DEF loopVars, tlsVars
<1>2. ASSUME NEW d \in Conn \ {c} PROVE Proper(d)'
  <2>1. /\ UNCHANGED <<wq[d], Chunks(d), isOpen[d], state[d], ssl[d]>>
        /\ RegisteredConn(d)' = RegisteredConn(d)
    BY <1>1 DEF Chunks, RegisteredConn
  <2>2. Proper(d)
    BY DEF TlsInv, Sessions
  <2> QED
    BY <2>1, <2>2, Untouched
<1>3. \A d \in Conn : Proper(d)'
  BY <1>2
<1> QED
  BY <1>1, <1>3 DEF TlsInv, Sessions, NoChunksLeft

LEMMA TlsPeerMovesKeep ==
  ASSUME TlsInv, NEW c \in Conn, UNCHANGED <<loopVars, tlsVars>>,
         Connect(c) \/ Abort(c) \/ Fin(c)
  PROVE  Sessions'
<1>1. /\ TypeOK /\ IInv /\ Proper(c) /\ peer \in [Conn -> PeerStates]
      /\ backlog \in Seq(Conn)
  BY DEF TlsInv, Sessions, IInv, TypeOK, SocketsTypeOK
<1>2. /\ UNCHANGED <<inbox, sndq, sent, received>>
      /\ UNCHANGED <<handlers, wq, isOpen, state, ssl>>
      /\ Chunks(c)' = Chunks(c) /\ RegisteredConn(c)' = RegisteredConn(c)
  BY DEF Connect, Abort, Fin, loopVars, tlsVars, Chunks, RegisteredConn
<1>3. ASSUME NEW d \in Conn, \E i \in DOMAIN backlog' : backlog'[i] = d
      PROVE  Waits(d)
  <2>1. CASE Connect(c)
    <3>1. peer[c] = "new" /\ backlog' = Append(backlog, c)
      BY <2>1 DEF Connect
    <3>2. \A i \in DOMAIN backlog' :
            \/ backlog'[i] = c
            \/ i \in DOMAIN backlog /\ backlog'[i] = backlog[i]
      BY <1>1, <3>1
    <3> QED
      BY <1>3, <3>1, <3>2 DEF Waits
  <2>2. CASE Abort(c)
    BY <1>1, <1>3, <2>2, TailOfBacklog DEF Abort, Waits
  <2>3. CASE Fin(c)
    BY <1>3, <2>3 DEF Fin, Waits
  <2> QED
    BY <2>1, <2>2, <2>3
<1>4. \A d \in Conn : /\ peer'[d] # peer[d] => d = c
                      /\ peer'[d] = "new" => peer[d] = "new"
                      /\ peer'[d] \in {"up", "fin"}
                           => peer[d] \in {"up", "fin"} \/ peer[d] = "new"
  BY <1>1 DEF Connect, Abort, Fin
<1>5. \A d \in Conn : Waits(d)' => Waits(d)
  BY <1>3, <1>4 DEF Waits
<1>6. peer[c] = "new" => ssl[c] = "hello" /\ ~RegisteredConn(c)
  BY <1>1 DEF Proper, FreshSession, Waits, IInv, Fresh, RegisteredConn
<1>7. Out(c)' = Out(c) /\ Due(c)' = Due(c)
  BY <1>2 DEF Out, Due
<1>8. FreshSession(c)' /\ Session(c)' /\ Records(c)' /\ Heard(c)'
  BY <1>1, <1>2, <1>5 DEF Proper, FreshSession, Session, Records, Heard
<1>9. ByeIsLast(c)' /\ TicketsFirst(c)'
  <2>1. peer[c] = "new" => Out(c) = <<>>
    BY <1>1, ConcatEmptySeq, EmptySeq DEF Proper, FreshSession, Waits, Out
  <2> QED
    BY <1>1, <1>2, <1>4, <1>6, <1>7, <2>1, SaysNoMore DEF Proper
<1>10. Complete(c)'
  BY <1>1, <1>2, <1>4, <1>6, <1>7 DEF Proper, Complete, RepliesOnTheirWay
<1>11. Proper(c)'
  BY <1>8, <1>9, <1>10 DEF Proper
<1> QED
  BY <1>2, <1>4, <1>5, <1>11, PeerKeeps

LEMMA TlsSendKeeps ==
  ASSUME TlsInv, NEW c \in Conn, NEW u \in Unit, Send(c, u),
         UNCHANGED <<loopVars, tlsVars>>
  PROVE  Sessions'
<1>1. /\ TypeOK /\ Proper(c) /\ sent \in [Conn -> Seq(Unit)]
      /\ inbox \in [Conn -> Seq(Unit)]
  BY DEF TlsInv, Sessions, IInv, TypeOK, SocketsTypeOK
<1>2. /\ UNCHANGED <<backlog, peer, sndq, received>>
      /\ sent'[c] = Append(sent[c], u) /\ inbox'[c] = Append(inbox[c], u)
      /\ \A d \in Conn : d # c => sent'[d] = sent[d] /\ inbox'[d] = inbox[d]
  BY <1>1 DEF Send
<1>3. /\ UNCHANGED <<handlers, wq, isOpen, state, ssl>>
      /\ Chunks(c)' = Chunks(c) /\ RegisteredConn(c)' = RegisteredConn(c)
  BY DEF loopVars, tlsVars, Chunks, RegisteredConn
<1>4. \A d \in Conn : Waits(d)' = Waits(d)
  BY <1>2 DEF Waits
<1>5. /\ ToSet(sent[c]) \subseteq ToSet(sent'[c]) /\ u \in ToSet(sent'[c])
  <2>1. /\ \A i \in DOMAIN sent[c] :
             i \in DOMAIN sent'[c] /\ sent'[c][i] = sent[c][i]
        /\ Len(sent[c]) + 1 \in DOMAIN sent'[c]
        /\ sent'[c][Len(sent[c]) + 1] = u
    BY <1>1, <1>2
  <2> QED
    BY <2>1 DEF ToSet
<1>6. Heard(c)'
  <2>1. \A i \in DOMAIN inbox'[c] :
          \/ inbox'[c][i] = u
          \/ i \in DOMAIN inbox[c] /\ inbox'[c][i] = inbox[c][i]
    BY <1>1, <1>2
  <2>2. \A i \in DOMAIN inbox'[c] : inbox'[c][i] \in ToSet(sent'[c])
    BY <1>1, <1>5, <2>1 DEF Proper, Heard
  <2> QED
    BY <1>1, <1>3, <1>5, <2>2 DEF Proper, Heard
<1>7. Out(c)' = Out(c) /\ Due(c)' = Due(c)
  BY <1>2, <1>3 DEF Out, Due
<1>8. FreshSession(c)' /\ Session(c)' /\ Records(c)'
  BY <1>1, <1>2, <1>3, <1>4 DEF Proper, FreshSession, Session, Records
<1>9. ByeIsLast(c)' /\ TicketsFirst(c)'
  BY <1>1, <1>2, <1>3, <1>5, <1>7, SaysNoMore DEF Proper
<1>10. Complete(c)'
  <2> SUFFICES ASSUME RepliesOnTheirWay(c) PROVE RepliesOnTheirWay(c)'
    BY <1>1, <1>2, <1>3 DEF Proper, Complete
  <2> DEFINE s == Replies(sent[c])
             o == Out(c)
             q == (wq[c] \o Chunks(c)) \o Due(c)
             i == Replies(inbox[c])
  <2>1. s \in Seq(Unit) /\ o \in Seq(Unit) /\ q \in Seq(Buf) /\ i \in Seq(Unit)
    BY <1>1, WayTypes
  <2>2. Whole(s, o, q, i)
    BY DEF RepliesOnTheirWay, Out
  <2>3. s' = Append(s, ReplyTo(u)) /\ i' = Append(i, ReplyTo(u))
    BY <1>1, <1>2, RepliesAppend
  <2>4. o' = o /\ q' = q
    BY <1>3, <1>7
  <2>5. RepliesOnTheirWay(c)' <=> Whole(s', o', q', i')
    BY DEF RepliesOnTheirWay, Out
  <2>6. ReplyTo(u) \in Unit
    BY ReplyType
  <2> HIDE DEF s, o, q, i
  <2>7. Whole(Append(s, ReplyTo(u)), o, q, Append(i, ReplyTo(u)))
    BY <2>1, <2>2, <2>6, WholeSent
  <2> QED
    BY <2>3, <2>4, <2>5, <2>7, Zenon
<1>11. Proper(c)'
  BY <1>6, <1>8, <1>9, <1>10 DEF Proper
<1> QED
  BY <1>2, <1>4, <1>11, PeerKeeps

LEMMA TlsRecvKeeps ==
  ASSUME TlsInv, NEW c \in Conn, Recv(c), UNCHANGED <<loopVars, tlsVars>>
  PROVE  Sessions'
<1>1. /\ TypeOK /\ Proper(c) /\ received[c] \in Seq(Unit)
      /\ sndq[c] \in Seq(Unit)
      /\ received \in [Conn -> Seq(Unit)] /\ sndq \in [Conn -> Seq(Unit)]
  BY DEF TlsInv, Sessions, IInv, TypeOK, SocketsTypeOK
<1>2. /\ UNCHANGED <<backlog, peer, inbox, sent>> /\ sndq[c] # <<>>
      /\ received'[c] = Append(received[c], Head(sndq[c]))
      /\ sndq'[c] = Tail(sndq[c])
      /\ \A d \in Conn : d # c => received'[d] = received[d] /\ sndq'[d] = sndq[d]
  BY <1>1 DEF Recv
<1>3. /\ UNCHANGED <<handlers, wq, isOpen, state, ssl>>
      /\ Chunks(c)' = Chunks(c) /\ RegisteredConn(c)' = RegisteredConn(c)
  BY DEF loopVars, tlsVars, Chunks, RegisteredConn
<1>4. \A d \in Conn : Waits(d)' = Waits(d)
  BY <1>2 DEF Waits
<1>5. Out(c)' = Out(c)
  <2>1. Append(received[c], Head(sndq[c])) \o Tail(sndq[c])
          = received[c] \o sndq[c]
    BY <1>1, <1>2, ShiftConcat, Zenon
  <2> QED
    BY <1>2, <2>1 DEF Out
<1>6. FreshSession(c)' /\ Session(c)' /\ Records(c)' /\ Heard(c)'
  BY <1>1, <1>2, <1>3, <1>4 DEF Proper, FreshSession, Session, Records, Heard
<1>7. ByeIsLast(c)' /\ TicketsFirst(c)'
  BY <1>1, <1>2, <1>3, <1>5, SaysNoMore DEF Proper
<1>8. Complete(c)'
  BY <1>1, <1>2, <1>3, <1>5 DEF Proper, Complete, RepliesOnTheirWay, Due, Out
<1>9. Proper(c)'
  BY <1>6, <1>7, <1>8 DEF Proper
<1> QED
  BY <1>2, <1>4, <1>9, PeerKeeps

\* A reset takes the end of what has been sent.
LEMMA TlsResetKeeps ==
  ASSUME TlsInv, NEW c \in Conn, Reset(c), UNCHANGED <<loopVars, tlsVars>>
  PROVE  Sessions'
<1>1. /\ TypeOK /\ Proper(c) /\ peer \in [Conn -> PeerStates]
      /\ received[c] \in Seq(Unit) /\ sndq[c] \in Seq(Unit)
      /\ sndq \in [Conn -> Seq(Unit)]
  BY DEF TlsInv, Sessions, IInv, TypeOK, SocketsTypeOK
<1>2. /\ UNCHANGED <<backlog, inbox, sent, received>>
      /\ peer[c] # "new" /\ peer'[c] \in {"rst", "pipe"} /\ sndq'[c] = <<>>
      /\ \A d \in Conn : d # c => peer'[d] = peer[d] /\ sndq'[d] = sndq[d]
  BY <1>1 DEF Reset
<1>3. /\ UNCHANGED <<handlers, wq, isOpen, state, ssl>>
      /\ Chunks(c)' = Chunks(c) /\ RegisteredConn(c)' = RegisteredConn(c)
  BY DEF loopVars, tlsVars, Chunks, RegisteredConn
<1>4. \A d \in Conn : Waits(d)' => Waits(d)
  BY <1>2 DEF Waits
<1>5. FreshSession(c)' /\ Session(c)' /\ Records(c)' /\ Heard(c)'
  BY <1>1, <1>2, <1>3, <1>4 DEF Proper, FreshSession, Session, Records, Heard
<1> DEFINE r == received[c]
           o == r \o sndq[c]
<1>6. /\ Len(r) \in Nat /\ Len(o) \in Nat /\ Len(r) <= Len(o)
      /\ DOMAIN r = 1 .. Len(r) /\ DOMAIN o = 1 .. Len(o)
      /\ \A i \in 1 .. Len(r) : o[i] = r[i]
      /\ r \o <<>> = r
  <2>1. \A x, y \in Seq(Unit) :
          /\ Len(x) \in Nat /\ Len(x \o y) \in Nat /\ Len(x) <= Len(x \o y)
          /\ DOMAIN x = 1 .. Len(x) /\ DOMAIN (x \o y) = 1 .. Len(x \o y)
          /\ \A i \in 1 .. Len(x) : (x \o y)[i] = x[i]
          /\ x \o <<>> = x
    OBVIOUS
  <2> QED
    BY <1>1, <2>1, Zenon
<1>7. Out(c) = o /\ Out(c)' = r
  BY <1>2, <1>6 DEF Out
<1> HIDE DEF r, o
<1>8. ByeIsLast(c)'
  <2>1. \A i \in DOMAIN r :
          /\ r[i] \in {Bye, Alert} => i = Len(r) /\ ~isOpen[c]
          /\ r[i] = Bye => Bye \in ToSet(sent[c])
    BY <1>1, <1>6, <1>7 DEF Proper, ByeIsLast
  <2> QED
    BY <1>2, <1>3, <1>7, <2>1 DEF ByeIsLast
<1>9. TicketsFirst(c)'
  <2>1. ASSUME NEW i \in DOMAIN r
        PROVE  /\ r[i] = Flight => i = 1
               /\ r[i] = Tickets => i = 2 /\ r[1] = Flight
               /\ r[i] \in Data \cup {Bye} => i > 2 /\ r[2] = Tickets
    <3>1. /\ o[i] = Flight => i = 1
          /\ o[i] = Tickets => i = 2 /\ o[1] = Flight
          /\ o[i] \in Data \cup {Bye} => i > 2 /\ o[2] = Tickets
      BY <1>1, <1>6, <1>7, <2>1 DEF Proper, TicketsFirst, InOrder
    <3> QED
      BY <1>6, <2>1, <3>1
  <2> QED
    BY <1>2, <1>7, <2>1 DEF TicketsFirst, InOrder
<1>10. Proper(c)'
  BY <1>2, <1>5, <1>8, <1>9 DEF Proper, Complete
<1> QED
  BY <1>2, <1>4, <1>10, PeerKeeps

-----------------------------------------------------------------------------
(* What the calls leave of the loop's state.                               *)

CallFrame ==
  /\ phase \in Serving /\ phase' \in Serving \cup {"dispatch"}
  /\ UNCHANGED <<fdTable, peerVars, handlers, polled, cur, sigVars>>
  /\ \E E \in SUBSET pending[cur] : pending' = [pending EXCEPT ![cur] = E]
  /\ isOpen' \in {isOpen, [isOpen EXCEPT ![Me] = FALSE]}
  /\ rq' \in {rq, <<>>} \/ \E u \in Unit : rq' = Append(rq, <<u>>)
  /\ \/ wq' = wq
     \/ wq[Me] # <<>> /\ wq' = [wq EXCEPT ![Me] = Tail(@)]
  /\ \/ inbox' = inbox
     \/ inbox[Me] # <<>> /\ inbox' = [inbox EXCEPT ![Me] = Tail(@)]
  /\ \/ sndq' = sndq
     \/ \E u \in Unit : sndq' = [sndq EXCEPT ![Me] = Append(@, u)]

LEMMA CallFrameKeeps == ASSUME CallInv, CallFrame PROVE IInv'
<1>1. IInv /\ TypeOK /\ SocketsTypeOK
  BY DEF CallInv, IInv, TypeOK
<1>2. PICK m \in Conn : m = Me
  BY <1>1 DEF CallFrame, IInv, ServingOrder, Registered, TypeOK, Me
<1>3. inbox' \in [Conn -> Seq(Unit)]
  <2>1. inbox \in [Conn -> Seq(Unit)]
    BY <1>1 DEF SocketsTypeOK
  <2>2. inbox[m] # <<>> => Tail(inbox[m]) \in Seq(Unit)
    BY <2>1
  <2> QED
    BY <1>2, <2>1, <2>2 DEF CallFrame
<1>4. sndq' \in [Conn -> Seq(Unit)]
  <2>1. sndq \in [Conn -> Seq(Unit)]
    BY <1>1 DEF SocketsTypeOK
  <2>2. \A u \in Unit : Append(sndq[m], u) \in Seq(Unit)
    BY <2>1
  <2> QED
    BY <1>2, <2>1, <2>2 DEF CallFrame
<1>5. wq' \in [Conn -> Seq(Buf)]
  <2>1. wq \in [Conn -> Seq(Buf)]
    BY <1>1 DEF TypeOK
  <2>2. wq[m] # <<>> => Tail(wq[m]) \in Seq(Buf)
    BY <2>1
  <2> QED
    BY <1>2, <2>1, <2>2 DEF CallFrame
<1>6. rq' \in Seq(Buf)
  <2>1. rq \in Seq(Buf) /\ <<>> \in Seq(Buf)
    BY <1>1, EmptySeq DEF TypeOK
  <2>2. \A b \in Buf : Append(rq, b) \in Seq(Buf)
    BY <2>1
  <2>3. \A u \in Unit : Append(rq, <<u>>) \in Seq(Buf)
    BY <2>2, SingleIsBuf, Zenon
  <2>4. rq' \in {rq, <<>>} \/ \E u \in Unit : rq' = Append(rq, <<u>>)
    BY DEF CallFrame
  <2> QED
    BY <2>1, <2>3, <2>4
<1>7. isOpen' \in [Conn -> BOOLEAN] /\ \A c \in Conn : isOpen'[c] => isOpen[c]
  BY <1>1, <1>2 DEF CallFrame, TypeOK
<1>8. PICK E \in SUBSET pending[cur] : pending' = [pending EXCEPT ![cur] = E]
  BY DEF CallFrame
<1>9. pending' \in [AllFd -> SUBSET {"IN", "OUT"}]
  BY <1>1, <1>8 DEF TypeOK
<1>10. phase' \in Phases
  BY DEF CallFrame, Phases, Serving
<1>11. UNCHANGED <<fdTable, backlog, peer, sent, received, handlers, polled, cur,
                   lastSignal, eintr, signals, noted>>
  BY DEF CallFrame, peerVars, sigVars
<1>12. TypeOK'
  BY <1>1, <1>3, <1>4, <1>5, <1>6, <1>7, <1>9, <1>10, <1>11
     DEF TypeOK, SocketsTypeOK
<1>13. Straight'
  BY <1>1, <1>7, <1>8, <1>11, ServingFrame DEF CallFrame
<1>14. Fresh'
  BY <1>1, <1>11, FreshFrame
<1> QED
  BY <1>12, <1>13, <1>14 DEF IInv, Straight

\* The ways a call comes back to the handler.
LEMMA CallReturns ==
  ASSUME CallInv, NEW s, InCall(s), Blocked \/ Eof \/ Throw
  PROVE  /\ phase \in Serving /\ phase' \in {"deliver", "dispatch"}
         /\ UNCHANGED <<handlers, polled, cur, sigVars, wq>>
         /\ \E E \in SUBSET pending[cur] : pending' = [pending EXCEPT ![cur] = E]
         /\ isOpen' \in {isOpen, [isOpen EXCEPT ![Me] = FALSE]}
         /\ rq' \in {rq, <<>>}
<1>1. phase \in Serving
  BY OwnCall
<1> QED
  BY <1>1 DEF Blocked, Eof, Throw, Back

\* A call that is over in one go.
LEMMA ReturnFrame ==
  ASSUME CallInv, NEW s, InCall(s), Blocked \/ Eof \/ Throw,
         UNCHANGED <<fdTable, peerVars>>,
         \/ inbox' = inbox
         \/ inbox[Sock] # <<>> /\ inbox' = [inbox EXCEPT ![Sock] = Tail(@)],
         sndq' = sndq \/ \E u \in Unit : Emit(u)
  PROVE  CallFrame
<1>1. Sock = Me
  BY OwnCall
<1>2. /\ \/ inbox' = inbox
         \/ inbox[Me] # <<>> /\ inbox' = [inbox EXCEPT ![Me] = Tail(@)]
      /\ \/ sndq' = sndq
         \/ \E u \in Unit : sndq' = [sndq EXCEPT ![Me] = Append(@, u)]
  BY <1>1 DEF Emit
<1>3. /\ phase \in Serving /\ phase' \in {"deliver", "dispatch"}
      /\ UNCHANGED <<handlers, polled, cur, sigVars, wq>>
      /\ \E E \in SUBSET pending[cur] : pending' = [pending EXCEPT ![cur] = E]
      /\ isOpen' \in {isOpen, [isOpen EXCEPT ![Me] = FALSE]}
      /\ rq' \in {rq, <<>>}
  BY CallReturns
<1> QED
  BY <1>2, <1>3 DEF CallFrame, Serving

\* It ends with a closed stream.
Shuts == phase \in Serving /\ isOpen[Me] /\ Closes(Me)

LEMMA ReturnShuts ==
  ASSUME CallInv, NEW s, InCall(s), Eof \/ Throw,
         UNCHANGED peerVars, errors' \in BOOLEAN,
         \/ inbox' = inbox
         \/ inbox[Sock] # <<>> /\ inbox' = [inbox EXCEPT ![Sock] = Tail(@)],
         \/ UNCHANGED <<sndq, state, ssl>>
         \/ /\ s \in {"HANDSHAKE", "DATA"}
            /\ sndq' = sndq \/ (Goes /\ Emit(Alert))
            /\ ssl' = [ssl EXCEPT ![Me] = "failed"]
            /\ UNCHANGED state
         \/ /\ s = "SHUTDOWN"
            /\ Goes /\ Emit(Bye)
            /\ state' = [state EXCEPT ![Me] = "STOP"]
            /\ UNCHANGED ssl
  PROVE  Shuts
<1>1. /\ phase \in {"read", "write"} /\ phase \in Serving
      /\ Sock = Me /\ isOpen[Me] /\ state[Me] = s
      /\ phase = "write" => rq = <<>>
  BY OwnCall
<1>2. /\ UNCHANGED <<handlers, wq, cur>>
      /\ isOpen' = [isOpen EXCEPT ![Me] = FALSE]
  BY DEF Eof, Throw, Back
<1>3. \/ phase' = "deliver" /\ rq' = rq
      \/ phase' = "dispatch" /\ rq' = <<>>
  BY <1>1 DEF Eof, Throw, Back
<1>4. \/ UNCHANGED inbox
      \/ inbox[Me] # <<>> /\ inbox' = [inbox EXCEPT ![Me] = Tail(@)]
  BY <1>1
<1>5. \/ UNCHANGED <<sndq, state, ssl>>
      \/ /\ state[Me] \in {"HANDSHAKE", "DATA"}
         /\ \/ UNCHANGED sndq
            \/ /\ peer[Me] \in {"up", "fin"}
               /\ sndq' = [sndq EXCEPT ![Me] = Append(@, Alert)]
         /\ ssl' = [ssl EXCEPT ![Me] = "failed"]
         /\ UNCHANGED state
      \/ /\ state[Me] = "SHUTDOWN" /\ peer[Me] \in {"up", "fin"}
         /\ sndq' = [sndq EXCEPT ![Me] = Append(@, Bye)]
         /\ state' = [state EXCEPT ![Me] = "STOP"]
         /\ UNCHANGED ssl
  BY <1>1 DEF Emit, Goes
<1> QED
  BY <1>1, <1>2, <1>3, <1>4, <1>5 DEF Shuts, Closes

LEMMA ShutsKeeps == ASSUME TlsInv, Shuts PROVE Sessions'
<1>1. PICK m \in Conn : m = Me
  BY ServedIsOwn DEF Shuts, TlsInv
<1> QED
  BY <1>1, ClosesKeeps DEF Shuts

\* It blocks, and nothing of the stream has changed.
LEMMA ReturnIdle ==
  ASSUME CallInv, NEW s, InCall(s), Blocked, UNCHANGED <<sockVars, state, ssl>>,
         errors' \in BOOLEAN
  PROVE  Idle
<1>1. /\ phase \in {"read", "write"} /\ phase \in Serving
      /\ phase = "write" => rq = <<>>
  BY OwnCall
<1> QED
  BY <1>1 DEF Idle, Blocked, Back, sockVars, peerVars

-----------------------------------------------------------------------------
(* The calls of TcpStream.                                                 *)

\* The close_notify of the client starts the shutdown.
TakesLeave ==
  ReadBye /\ UNCHANGED loopVars /\ state' = [state EXCEPT ![Me] = "SHUTDOWN"]

\* What each of them comes to: the end of the process; nothing, or a closed
\* stream; or one record read or written.
Returns ==
  \/ \E how \in Ended : Exit(how) /\ UNCHANGED tlsVars
  \/ /\ CallFrame
     /\ \/ Idle
        \/ Shuts
        \/ HandshakeRead
        \/ HandshakeWrite
        \/ ReadRecord
        \/ WriteRecord
        \/ TakesLeave

LEMMA KilledReturns == Killed => Returns
BY DEF Killed, Returns, Ended

\* A fatal record, or the end of the connection where one is expected.
LEMMA FatalReturns ==
  ASSUME CallInv, NEW s \in {"HANDSHAKE", "DATA"}, InCall(s), Fatal, Eof \/ Throw
  PROVE  Returns
<1>1. Sock = Me
  BY OwnCall
<1>2. /\ UNCHANGED <<fdTable, peerVars, state>> /\ errors' = TRUE
      /\ ssl' = [ssl EXCEPT ![Me] = "failed"]
      /\ sndq' = sndq \/ (Goes /\ Emit(Alert))
  BY DEF Fatal
<1>3. \/ inbox' = inbox
      \/ inbox[Sock] # <<>> /\ inbox' = [inbox EXCEPT ![Sock] = Tail(@)]
  <2>1. CASE inbox[Sock] = <<>>
    <3>1. inbox' = [inbox EXCEPT ![Sock] = inbox[Sock]]
      BY <2>1 DEF Fatal
    <3>2. inbox \in [Conn -> Seq(Unit)]
      BY DEF CallInv, IInv, TypeOK, SocketsTypeOK
    <3> QED
      BY <3>1, <3>2
  <2>2. CASE inbox[Sock] # <<>>
    BY <2>2 DEF Fatal
  <2> QED
    BY <2>1, <2>2
<1>4. Shuts
  BY <1>2, <1>3, ReturnShuts
<1>5. sndq' = sndq \/ \E u \in Unit : Emit(u)
  BY <1>2, ProtocolApart
<1>6. CallFrame
  BY <1>2, <1>3, <1>5, ReturnFrame
<1> QED
  BY <1>4, <1>6 DEF Returns

\* The connection failed, or the error queue of another one is in the way.
LEMMA FailsReturns ==
  ASSUME CallInv, NEW s, InCall(s), Eof \/ Throw,
         UNCHANGED <<sockVars, state, ssl>>, errors' \in BOOLEAN
  PROVE  Returns
<1>1. UNCHANGED <<fdTable, peerVars, inbox, sndq>>
  BY DEF sockVars, peerVars
<1>2. Shuts
  BY <1>1, ReturnShuts
<1>3. CallFrame
  BY <1>1, ReturnFrame
<1> QED
  BY <1>2, <1>3 DEF Returns

LEMMA BlockedReturns ==
  ASSUME CallInv, NEW s, InCall(s), Blocked, UNCHANGED <<sockVars, state, ssl>>,
         errors' \in BOOLEAN
  PROVE  Returns
<1>1. UNCHANGED <<fdTable, peerVars, inbox, sndq>>
  BY DEF sockVars, peerVars
<1>2. Idle
  BY ReturnIdle
<1>3. CallFrame
  BY <1>1, ReturnFrame
<1> QED
  BY <1>2, <1>3 DEF Returns

LEMMA HandshakeReturns ==
  ASSUME CallInv,
         \/ HandshakeRead \/ HandshakeWrite \/ HandshakeBlocked
         \/ HandshakeFatal \/ HandshakeFault \/ HandshakeKilled
  PROVE  Returns
<1>1. CASE HandshakeRead
  <2>1. InCall("HANDSHAKE")
    BY <1>1 DEF HandshakeRead
  <2>2. phase \in Serving /\ Sock = Me
    BY <2>1, OwnCall
  <2>3. /\ inbox[Me] # <<>> /\ inbox' = [inbox EXCEPT ![Me] = Tail(@)]
        /\ UNCHANGED <<fdTable, peerVars, sndq, loopVars>>
    BY <1>1, <2>2 DEF HandshakeRead, Take, Begins
  <2>4. pending' = [pending EXCEPT ![cur] = pending[cur]]
    BY <2>3 DEF loopVars, CallInv, IInv, TypeOK
  <2>5. CallFrame
    BY <2>2, <2>3, <2>4 DEF CallFrame, loopVars, sigVars
  <2> QED
    BY <1>1, <2>5 DEF Returns
<1>2. CASE HandshakeWrite
  <2>1. InCall("HANDSHAKE")
    BY <1>2 DEF HandshakeWrite
  <2>2. phase \in Serving /\ Sock = Me
    BY <2>1, OwnCall
  <2>3. /\ \E u \in Unit : sndq' = [sndq EXCEPT ![Me] = Append(@, u)]
        /\ UNCHANGED <<fdTable, peerVars, inbox, loopVars>>
    BY <1>2, <2>2, ProtocolApart DEF HandshakeWrite, Emit
  <2>4. pending' = [pending EXCEPT ![cur] = pending[cur]]
    BY <2>3 DEF loopVars, CallInv, IInv, TypeOK
  <2>5. CallFrame
    BY <2>2, <2>3, <2>4 DEF CallFrame, loopVars, sigVars
  <2> QED
    BY <1>2, <2>5 DEF Returns
<1>3. CASE HandshakeBlocked
  <2>1. /\ InCall("HANDSHAKE") /\ Blocked /\ UNCHANGED <<sockVars, state, ssl>>
        /\ errors' \in BOOLEAN
    BY <1>3 DEF HandshakeBlocked
  <2> QED
    BY <2>1, BlockedReturns
<1>4. CASE HandshakeFatal
  <2>1. InCall("HANDSHAKE") /\ Fatal /\ Throw
    BY <1>4 DEF HandshakeFatal
  <2> QED
    BY <2>1, FatalReturns
<1>5. CASE HandshakeFault
  <2>1. /\ InCall("HANDSHAKE") /\ Throw /\ UNCHANGED <<sockVars, state, ssl>>
        /\ errors' \in BOOLEAN
    BY <1>5 DEF HandshakeFault
  <2> QED
    BY <2>1, FailsReturns
<1>6. CASE HandshakeKilled
  BY <1>6, KilledReturns DEF HandshakeKilled
<1> QED
  BY <1>1, <1>2, <1>3, <1>4, <1>5, <1>6

LEMMA ReadingReturns ==
  ASSUME CallInv,
         \/ ReadRecord \/ ReadWouldBlock \/ ReadBye
         \/ ReadFatal \/ ReadFault \/ ReadKilled
  PROVE  Returns
<1>0. errors \in BOOLEAN
  BY DEF CallInv
<1>1. CASE ReadRecord
  <2>1. InCall("DATA") /\ phase = "read"
    BY <1>1 DEF ReadRecord, Reading
  <2>2. phase \in Serving /\ Sock = Me
    BY <2>1, OwnCall
  <2>3. PICK u \in Data : Take(u) /\ rq' = Append(rq, <<u>>)
    BY <1>1 DEF ReadRecord
  <2>4. /\ inbox[Me] # <<>> /\ inbox' = [inbox EXCEPT ![Me] = Tail(@)]
        /\ UNCHANGED <<fdTable, peerVars, sndq, phase, cur, pending, handlers,
                       isOpen, wq, sigVars, polled>>
    BY <1>1, <2>2, <2>3 DEF ReadRecord, Take, Begins, regVars
  <2>5. pending' = [pending EXCEPT ![cur] = pending[cur]]
    BY <2>4 DEF CallInv, IInv, TypeOK
  <2>6. CallFrame
    BY <2>2, <2>3, <2>4, <2>5, ProtocolApart DEF CallFrame
  <2> QED
    BY <1>1, <2>6 DEF Returns
<1>2. CASE ReadWouldBlock
  <2>1. /\ InCall("DATA") /\ UNCHANGED <<sockVars, state, ssl>>
        /\ errors' \in BOOLEAN
        /\ Eof \/ Blocked
    BY <1>0, <1>2 DEF ReadWouldBlock, Reading, tlsVars
  <2> QED
    BY <2>1, BlockedReturns, FailsReturns
<1>3. CASE ReadBye
  <2>1. InCall("DATA") /\ phase = "read"
    BY <1>3 DEF ReadBye, Reading
  <2>2. phase \in Serving /\ Sock = Me
    BY <2>1, OwnCall
  <2>3. /\ inbox[Me] # <<>> /\ inbox' = [inbox EXCEPT ![Me] = Tail(@)]
        /\ UNCHANGED <<fdTable, peerVars, sndq, ssl, errors>>
    BY <1>3, <2>2 DEF ReadBye, Take, Begins
  <2>4. CASE UNCHANGED loopVars /\ state' = [state EXCEPT ![Me] = "SHUTDOWN"]
    <3>1. pending' = [pending EXCEPT ![cur] = pending[cur]]
      BY <2>4 DEF loopVars, CallInv, IInv, TypeOK
    <3>2. CallFrame
      BY <2>2, <2>3, <2>4, <3>1 DEF CallFrame, loopVars, sigVars
    <3> QED
      BY <1>3, <2>4, <3>2 DEF Returns, TakesLeave
  <2>5. CASE Eof /\ UNCHANGED state
    <3>1. Shuts
      BY <1>0, <2>1, <2>2, <2>3, <2>5, ReturnShuts
    <3>2. CallFrame
      BY <2>1, <2>2, <2>3, <2>5, ReturnFrame
    <3> QED
      BY <3>1, <3>2 DEF Returns
  <2> QED
    BY <1>3, <2>4, <2>5 DEF ReadBye
<1>4. CASE ReadFatal
  <2>1. InCall("DATA") /\ Fatal /\ Eof
    BY <1>4 DEF ReadFatal, Reading
  <2> QED
    BY <2>1, FatalReturns
<1>5. CASE ReadFault
  <2>1. /\ InCall("DATA") /\ Eof /\ UNCHANGED <<sockVars, state, ssl>>
        /\ errors' \in BOOLEAN
    BY <1>0, <1>5 DEF ReadFault, Reading, tlsVars
  <2> QED
    BY <2>1, FailsReturns
<1>6. CASE ReadKilled
  BY <1>6, KilledReturns DEF ReadKilled
<1> QED
  BY <1>1, <1>2, <1>3, <1>4, <1>5, <1>6

LEMMA WritingReturns ==
  ASSUME CallInv, WriteRecord \/ WriteWouldBlock \/ WriteFails \/ WriteKilled
  PROVE  Returns
<1>0. errors \in BOOLEAN
  BY DEF CallInv
<1>1. CASE WriteRecord
  <2>1. InCall("DATA") /\ CanWrite
    BY <1>1 DEF WriteRecord, Sending
  <2>2. phase \in Serving /\ Sock = Me /\ Me \in Conn /\ wq[Me] # <<>>
    BY <2>1, OwnCall DEF CanWrite
  <2>3. Head(Head(wq[Me])) \in Unit
    <3>1. wq[Me] \in Seq(Buf)
      BY <2>2 DEF CallInv, IInv, TypeOK
    <3>2. Head(wq[Me]) \in Buf
      BY <2>2, <3>1
    <3> QED
      BY <3>2 DEF Buf
  <2>4. /\ sndq' = [sndq EXCEPT ![Me] = Append(@, Head(Head(wq[Me])))]
        /\ wq' = [wq EXCEPT ![Me] = Tail(@)]
        /\ UNCHANGED <<fdTable, peerVars, inbox, phase, cur, pending, rq,
                       handlers, isOpen, sigVars, polled>>
    BY <1>1, <2>2 DEF WriteRecord, Emit
  <2>5. pending' = [pending EXCEPT ![cur] = pending[cur]]
    BY <2>4 DEF CallInv, IInv, TypeOK
  <2>6. CallFrame
    BY <2>2, <2>3, <2>4, <2>5 DEF CallFrame
  <2> QED
    BY <1>1, <2>6 DEF Returns
<1>2. CASE WriteWouldBlock
  <2>1. /\ InCall("DATA") /\ UNCHANGED <<sockVars, state, ssl>>
        /\ errors' \in BOOLEAN
        /\ Throw \/ Eof \/ Blocked
    BY <1>0, <1>2 DEF WriteWouldBlock, Sending, tlsVars
  <2> QED
    BY <2>1, BlockedReturns, FailsReturns
<1>3. CASE WriteFails
  <2>1. /\ InCall("DATA") /\ Throw /\ UNCHANGED <<sockVars, state, ssl>>
        /\ errors' \in BOOLEAN
    BY <1>0, <1>3 DEF WriteFails, Sending, tlsVars
  <2> QED
    BY <2>1, FailsReturns
<1>4. CASE WriteKilled
  BY <1>4, KilledReturns DEF WriteKilled
<1> QED
  BY <1>1, <1>2, <1>3, <1>4

LEMMA ShutdownReturns ==
  ASSUME CallInv,
         ShutdownDone \/ ShutdownBlocked \/ ShutdownFails \/ ShutdownKilled
  PROVE  Returns
<1>0. errors \in BOOLEAN
  BY DEF CallInv
<1>1. CASE ShutdownDone
  <2>1. /\ InCall("SHUTDOWN") /\ Eof /\ Goes /\ Emit(Bye)
        /\ state' = [state EXCEPT ![Me] = "STOP"]
        /\ UNCHANGED <<fdTable, peerVars, inbox, ssl, errors>>
    BY <1>1 DEF ShutdownDone
  <2>2. Shuts
    BY <1>0, <2>1, ReturnShuts
  <2>3. CallFrame
    BY <2>1, ProtocolApart, ReturnFrame
  <2> QED
    BY <2>2, <2>3 DEF Returns
<1>2. CASE ShutdownBlocked
  <2>1. /\ InCall("SHUTDOWN") /\ UNCHANGED <<sockVars, state, ssl>>
        /\ errors' \in BOOLEAN
        /\ Throw \/ Blocked
    BY <1>0, <1>2 DEF ShutdownBlocked, tlsVars
  <2> QED
    BY <2>1, BlockedReturns, FailsReturns
<1>3. CASE ShutdownFails
  <2>1. /\ InCall("SHUTDOWN") /\ Throw /\ UNCHANGED <<sockVars, state, ssl>>
        /\ errors' \in BOOLEAN
    BY <1>0, <1>3 DEF ShutdownFails, tlsVars
  <2> QED
    BY <2>1, FailsReturns
<1>4. CASE ShutdownKilled
  BY <1>4, KilledReturns DEF ShutdownKilled
<1> QED
  BY <1>1, <1>2, <1>3, <1>4

-----------------------------------------------------------------------------
(* The invariant is inductive.                                             *)

LEMMA ExitKeepsLoop ==
  ASSUME IInv, NEW how \in Ended, Exit(how) PROVE IInv'
<1>1. TypeOK /\ SocketsTypeOK
  BY DEF IInv, TypeOK
<1>2. TypeOK'
  <2>1. fdTable' \in [Fd -> Conn \cup {NoConn}]
    BY DEF Exit
  <2>2. SocketsTypeOK'
    BY <1>1, <2>1 DEF Exit, SocketsTypeOK
  <2>3. /\ phase' \in Phases /\ cur' \in AllFd
        /\ pending' \in [AllFd -> SUBSET {"IN", "OUT"}]
        /\ isOpen' \in [Conn -> BOOLEAN]
        /\ handlers' \in [Fd -> Conn \cup {NoConn}]
    BY DEF Exit, Phases, AllFd, NoEvents
  <2>4. rq' \in Seq(Buf) /\ wq' \in [Conn -> Seq(Buf)]
    BY EmptySeq DEF Exit
  <2> QED
    BY <1>1, <2>2, <2>3, <2>4 DEF TypeOK, Exit, sigVars
<1>3. Fresh'
  BY <1>1, FreshFrame DEF Exit
<1>4. Straight'
  BY ExitStraight
<1> QED
  BY <1>2, <1>3, <1>4 DEF IInv, Straight

LEMMA TlsExitKeeps ==
  ASSUME TlsInv, NEW how \in Ended, Exit(how), UNCHANGED tlsVars
  PROVE  TlsInv'
BY ExitKeepsLoop, ExitSessions DEF TlsInv

LEMMA StreamStepReturns == ASSUME CallInv, StreamStep PROVE Returns
BY HandshakeReturns, ReadingReturns, WritingReturns, ShutdownReturns
   DEF StreamStep

LEMMA StreamStepKeeps == ASSUME TlsInv, StreamStep PROVE TlsInv'
<1>1. CallInv /\ Returns
  BY StreamStepReturns, TlsCallInv
<1>2. CASE \E how \in Ended : Exit(how) /\ UNCHANGED tlsVars
  BY <1>2, TlsExitKeeps
<1>3. CASE CallFrame /\ (Idle \/ Shuts)
  BY <1>1, <1>3, CallFrameKeeps, IdleKeeps, ShutsKeeps DEF TlsInv
<1>4. CASE CallFrame /\ (HandshakeRead \/ HandshakeWrite)
  BY <1>1, <1>4, CallFrameKeeps, HandshakeReadKeeps, HandshakeWriteKeeps
     DEF TlsInv
<1>5. CASE CallFrame /\ (ReadRecord \/ WriteRecord \/ TakesLeave)
  <2>1. Sessions'
    BY <1>5, ReadRecordKeeps, WriteRecordKeeps, ReadByeKeeps DEF TakesLeave
  <2> QED
    BY <1>1, <1>5, <2>1, CallFrameKeeps DEF TlsInv
<1> QED
  BY <1>1, <1>2, <1>3, <1>4, <1>5 DEF Returns

\* The steps of the loop itself call no stream.
LEMMA OtherStepIdle ==
  ASSUME CallInv, UNCHANGED tlsVars,
         \/ EnterPoll \/ PollReturns \/ PollTimeout
         \/ \E f \in Fd : DispatchRead(f) \/ DispatchWrite(f)
         \/ NoSignal \/ DispatchDone \/ ReadClosed \/ Delivered \/ WriteEnds
  PROVE  Idle
<1>1. errors' \in BOOLEAN /\ UNCHANGED <<state, ssl>>
  BY DEF CallInv, tlsVars
<1>2. phase \notin {"read", "deliver"} => rq = <<>>
  BY DEF CallInv, NoChunksLeft
<1> USE <1>1, <1>2 DEF Idle, sockVars, peerVars, regVars, Serving
<1>3. CASE EnterPoll
  BY <1>3 DEF EnterPoll
<1>4. CASE PollReturns \/ PollTimeout
  BY <1>4 DEF PollReturns, PollTimeout, PollEnds
<1>5. ASSUME NEW f \in Fd, DispatchRead(f) \/ DispatchWrite(f) PROVE Idle
  BY <1>5 DEF DispatchRead, DispatchWrite, Serve, IsNext
<1>6. CASE NoSignal \/ DispatchDone
  BY <1>6 DEF NoSignal, DispatchDone
<1>7. CASE ReadClosed
  BY <1>7 DEF ReadClosed
<1>8. CASE Delivered
  BY <1>8 DEF Delivered
<1>9. CASE WriteEnds
  BY <1>9 DEF WriteEnds, EndServing
<1> QED
  BY <1>3, <1>4, <1>5, <1>6, <1>7, <1>8, <1>9

LEMMA OtherStepKeeps ==
  ASSUME TlsInv, OtherStep, UNCHANGED tlsVars PROVE Sessions'
<1>1. CASE AcceptFails
  BY <1>1, ExitSessions DEF AcceptFails, Ended
<1>2. ASSUME NEW f \in Fd, Accept(f) PROVE Sessions'
  BY <1>2, TlsAcceptKeeps
<1>3. CASE EchoOnRead
  BY <1>3, TlsOnReadKeeps
<1> QED
  BY <1>1, <1>2, <1>3, OtherStepIdle, IdleKeeps, TlsCallInv DEF OtherStep

LEMMA TlsPeersKeep == ASSUME TlsInv, TlsPeers PROVE Sessions'
<1>1. UNCHANGED <<loopVars, tlsVars>>
  BY DEF TlsPeers
<1>2. PICK c \in Conn :
        \/ Connect(c) \/ Abort(c) \/ Fin(c)
        \/ \E u \in Unit : Send(c, u)
        \/ Recv(c)
        \/ Reset(c)
  BY DEF TlsPeers, Peers
<1> QED
  BY <1>1, <1>2, TlsPeerMovesKeep, TlsSendKeeps, TlsRecvKeeps, TlsResetKeeps

\* Outside of the streams the server takes the steps of the event loop.
LEMMA OtherIsNext ==
  ASSUME TlsInv, OtherStep \/ TlsCleanup \/ TlsPeers \/ UNCHANGED allVars
  PROVE  [Next]_vars
<1>1. CASE OtherStep
  BY <1>1, EchoOnReadIsOnRead
     DEF TlsInv, OtherStep, Next, LoopStep, QuietStep
<1>2. CASE TlsCleanup
  BY <1>2 DEF TlsCleanup, Next, LoopStep
<1>3. CASE TlsPeers
  BY <1>3 DEF TlsPeers, Next, Environment
<1>4. CASE UNCHANGED allVars
  BY <1>4 DEF allVars
<1> QED
  BY <1>1, <1>2, <1>3, <1>4

LEMMA TlsInvStep == TlsInv /\ [TlsNext]_allVars => TlsInv'
<1> SUFFICES ASSUME TlsInv, [TlsNext]_allVars PROVE TlsInv'
  OBVIOUS
<1>1. CASE StreamStep
  BY <1>1, StreamStepKeeps
<1>2. CASE \/ OtherStep /\ UNCHANGED tlsVars
           \/ TlsCleanup
           \/ TlsPeers
           \/ UNCHANGED allVars
  <2>1. [Next]_vars
    BY <1>2, OtherIsNext
  <2>2. IInv'
    BY <2>1, TypeStep, FreshStep, StraightStep DEF TlsInv, IInv, Straight
  <2>3. CASE UNCHANGED allVars
    <3>1. Idle
      BY <2>3 DEF Idle, TlsInv, Sessions, NoChunksLeft, allVars, vars,
                  sockVars, loopVars, tlsVars, peerVars, Serving
    <3> QED
      BY <2>2, <3>1, IdleKeeps DEF TlsInv
  <2>4. Sessions'
    BY <1>2, <2>3, OtherStepKeeps, TlsCleanupKeeps, TlsPeersKeep DEF TlsInv
  <2> QED
    BY <2>2, <2>4 DEF TlsInv
<1> QED
  BY <1>1, <1>2 DEF TlsNext, TlsStep

LEMMA TlsInvInit == TlsInit => TlsInv
<1> SUFFICES ASSUME TlsInit PROVE TlsInv
  OBVIOUS
<1>1. IInv
  BY InitIInv DEF TlsInit
<1>2. /\ peer = [c \in Conn |-> "new"] /\ sent = [c \in Conn |-> <<>>]
      /\ received = [c \in Conn |-> <<>>] /\ inbox = [c \in Conn |-> <<>>]
      /\ sndq = [c \in Conn |-> <<>>] /\ wq = [c \in Conn |-> <<>>]
      /\ isOpen = [c \in Conn |-> FALSE] /\ rq = <<>> /\ phase = "poll"
      /\ state = [c \in Conn |-> "HANDSHAKE"]
      /\ ssl = [c \in Conn |-> "hello"] /\ errors = FALSE
  BY DEF TlsInit, Init, SocketsInit
<1>3. ASSUME NEW c \in Conn PROVE Proper(c)
  <2>1. FreshSession(c) /\ Session(c) /\ Heard(c) /\ Complete(c)
    BY <1>2 DEF FreshSession, Session, Heard, Complete
  <2>2. Records(c)
    BY <1>2, EmptySeq DEF Records, Chunks, Serving
  <2>3. Out(c) = <<>>
    BY <1>2 DEF Out
  <2>4. ByeIsLast(c) /\ TicketsFirst(c)
    BY <1>2, <2>3 DEF ByeIsLast, TicketsFirst, Begun, InOrder
  <2> QED
    BY <2>1, <2>2, <2>4 DEF Proper
<1>4. /\ state \in [Conn -> States] /\ ssl \in [Conn -> SslStates]
      /\ errors \in BOOLEAN /\ NoChunksLeft /\ rq \in Seq(Record)
  BY <1>2, EmptySeq DEF States, SslStates, Awaiting, NoChunksLeft
<1> QED
  BY <1>1, <1>3, <1>4 DEF TlsInv, Sessions

THEOREM TlsAlways == TlsSpec => []TlsInv
BY TlsInvInit, TlsInvStep, PTL DEF TlsSpec

\* A record is pending on a connection: a write that finds no room leaves it
\* there, and the write that sends it takes it away.
LEMMA StalledStep ==
  ASSUME TlsInv, [TlsNext]_allVars, stalled \subseteq Conn
  PROVE  stalled' \subseteq Conn
<1>1. CASE WriteWouldBlock
  <2>1. Me \in Conn /\ stalled' = stalled \cup {Me}
    BY <1>1, CallIsOwn DEF WriteWouldBlock, Sending
  <2> QED
    BY <2>1
<1>2. CASE WriteRecord
  BY <1>2 DEF WriteRecord
<1>3. CASE StreamStep /\ ~WriteWouldBlock /\ ~WriteRecord
  BY <1>3 DEF StreamStep, HandshakeRead, HandshakeWrite, HandshakeBlocked,
       HandshakeFatal, HandshakeFault, HandshakeKilled, ReadRecord,
       ReadWouldBlock, ReadBye, ReadFatal, ReadFault, ReadKilled, WriteFails,
       WriteKilled, ShutdownDone, ShutdownBlocked, ShutdownFails,
       ShutdownKilled, Killed, Fatal, tlsVars
<1>4. CASE TlsCleanup \/ (OtherStep /\ UNCHANGED tlsVars) \/ TlsPeers
  BY <1>4 DEF TlsCleanup, TlsPeers, tlsVars
<1>5. CASE UNCHANGED allVars
  BY <1>5 DEF allVars, tlsVars
<1> QED
  BY <1>1, <1>2, <1>3, <1>4, <1>5 DEF TlsNext, TlsStep

Stalled == stalled \subseteq Conn

LEMMA TlsStalled == TlsSpec => []Stalled
<1>1. TlsInit => Stalled
  BY DEF TlsInit, Stalled
<1>2. TlsInv /\ Stalled /\ [TlsNext]_allVars => Stalled'
  BY StalledStep DEF Stalled
<1> QED
  BY <1>1, <1>2, TlsAlways, PTL DEF TlsSpec

\* Every variable keeps its type, and a stream only says that it carries data
\* or is shut down when its SSL object has finished the handshake.
THEOREM TlsTypes == TlsSpec => []TlsTypeOK
<1>1. TlsInv /\ Stalled => TlsTypeOK
  <2> SUFFICES ASSUME TlsInv, Stalled PROVE TlsTypeOK
    OBVIOUS
  <2>1. TypeOK /\ Sessions
    BY DEF TlsInv, IInv
  <2>2. \A c \in Conn : Session(c)
    BY <2>1 DEF Sessions, Proper
  <2>3. ASSUME NEW f \in Fd, Live(f), state[handlers[f]] = "DATA"
        PROVE  ssl[handlers[f]] = "ok"
    BY <2>1, <2>2, <2>3, NoConnAssumption DEF Session, Live, Registered, TypeOK
  <2> QED
    BY <2>1, <2>2, <2>3 DEF TlsTypeOK, Sessions, Session, SslStates, Stalled
<1> QED
  BY <1>1, TlsAlways, TlsStalled, PTL

LEMMA TlsIsComplete == TlsInv => NoRecordLost
<1> SUFFICES ASSUME TlsInv, NEW f \in Fd, Live(f),
                    peer[handlers[f]] \in {"up", "fin"}
             PROVE  RepliesOnTheirWay(handlers[f])
  BY DEF NoRecordLost
<1>1. handlers[f] \in Conn /\ isOpen[handlers[f]]
  BY DEF TlsInv, IInv, TypeOK, Live, Registered
<1>2. RegisteredConn(handlers[f])
  BY DEF RegisteredConn
<1> QED
  BY <1>1, <1>2 DEF TlsInv, Sessions, Proper, Complete

\* As long as a stream is open every record of its client is answered or on
\* its way round, once and in order: through the handshake, the retries after
\* a full send buffer, and a shutdown that waits for room.
THEOREM TlsLosesNothing == TlsSpec => []NoRecordLost
BY TlsIsComplete, TlsAlways, PTL

\* A session sends its flight first and once, then its tickets, and only then
\* data; close_notify comes after these, last and only in answer to one; and
\* nothing follows a fatal alert: whatever the other streams do to the error
\* queue they share.
THEOREM TlsIsPolite == TlsSpec => []Polite
<1>1. TlsInv => Polite
  <2> SUFFICES ASSUME TlsInv, NEW c \in Conn PROVE
        \A i \in DOMAIN Out(c) :
          /\ Out(c)[i] = Flight => i = 1
          /\ Out(c)[i] = Tickets => i = 2 /\ Out(c)[1] = Flight
          /\ Out(c)[i] \in Data \cup {Bye} => i > 2 /\ Out(c)[2] = Tickets
          /\ Out(c)[i] \in {Bye, Alert} => i = Len(Out(c))
          /\ Out(c)[i] = Bye => Bye \in ToSet(sent[c])
    BY DEF Polite, Out
  <2>1. ByeIsLast(c) /\ TicketsFirst(c)
    BY DEF TlsInv, Sessions, Proper
  <2> QED
    BY <2>1 DEF ByeIsLast, TicketsFirst, InOrder
<1> QED
  BY <1>1, TlsAlways, PTL

\* TLS streams use the descriptors as plain ones do: an open handler's is that
\* of its own connection and every open descriptor has its handler.
THEOREM TlsFdOwnership == TlsSpec => []FdOwnership
<1>1. TlsInv => FdOwnership
  BY DEF TlsInv, IInv
<1> QED
  BY <1>1, TlsAlways, PTL

\* No event of a poll reaches another connection's stream.
THEOREM TlsNoStaleEvents == TlsSpec => []NoStaleEvents
<1>1. TlsInv => NoStaleEvents
  BY DEF TlsInv, IInv
<1> QED
  BY <1>1, TlsAlways, PTL

-----------------------------------------------------------------------------
(* Example 09: its echo server is the one above, its chat server joins the *)
(* conversation of ServerProofs with the sessions of TLS.                  *)

\* A connection without a handler has not begun its session.
NotBegun(c) ==
  Waits(c) => /\ received[c] = <<>> /\ sndq[c] = <<>> /\ wq[c] = <<>>
              /\ state[c] = "HANDSHAKE" /\ ssl[c] = "hello"

\* A read gives one record, and so all buffers are of one.
Single == {<<u>> : u \in Unit}

\* All that the server says to c.
Spoken(c) == Opening \o DueOf(log, joined[c], c)

Carried(c) == Whole(Spoken(c), Out(c), Greeting(c) \o wq[c], <<>>)

Reached(c) == RegisteredConn(c) /\ isOpen[c] /\ peer[c] \in {"up", "fin"}

Member(c) ==
  /\ NotBegun(c)
  /\ Session(c)
  /\ wq[c] \in Seq(Single)
  /\ Reached(c) => Carried(c)

Meeting ==
  /\ state \in [Conn -> States]
  /\ ssl \in [Conn -> SslStates]
  /\ errors \in BOOLEAN
  /\ NoChunksLeft
  /\ rq \in Seq(Single)
  /\ OneHandlerEach
  /\ LogInv
  /\ \A c \in Conn : Member(c)

MeetingInv == ChatInv /\ Meeting

Inv09 ==
  /\ program \in {"echo", "chat"}
  /\ program = "echo" => TlsInv
  /\ program = "chat" => MeetingInv

LEMMA SingleBufs == Single \subseteq Buf /\ Seq(Single) \subseteq Seq(Buf)
<1>1. Single \subseteq Buf
  BY SingleIsBuf DEF Single
<1> QED
  BY <1>1

\* Flight and Tickets, spoken and owed.
LEMMA AllToGreet ==
  /\ Opening \in Seq(Unit)
  /\ Whole(Opening, <<>>, << <<Flight>>, <<Tickets>> >>, <<>>)
<1> DEFINE f == <<Flight>>
           t == <<Tickets>>
<1>0. Flight \in Unit /\ Tickets \in Unit
  BY ProtocolApart
<1>1. /\ f \in Buf /\ t \in Buf /\ f \in Seq(Unit) /\ t \in Seq(Unit)
      /\ Opening \in Seq(Unit) /\ f \o t = Opening
  <2>1. f \in Buf /\ t \in Buf
    BY <1>0, SingleIsBuf
  <2>2. f \in Seq(Unit) /\ t \in Seq(Unit) /\ Opening \in Seq(Unit)
    BY <1>0 DEF Opening
  <2>3. Append(f, Tickets) = Opening
    BY <1>0, AppendToFew DEF Opening
  <2>4. Append(f, Tickets) = f \o t
    BY <1>0, <2>2, AppendIsConcat
  <2> QED
    BY <2>1, <2>2, <2>3, <2>4
<1>2. /\ Append(<<>>, f) = <<f>> /\ Append(<<f>>, t) = <<f, t>>
  BY <1>1, AppendToFew
<1>3. \A b \in Buf : <<b>> \in Seq(Buf)
  OBVIOUS
<1>4. /\ <<>> \in Seq(Unit) /\ <<>> \in Seq(Buf) /\ <<f>> \in Seq(Buf)
      /\ <<>> \o f = f /\ <<>> \o <<>> = <<>>
  BY <1>1, <1>3, EmptySeq, ConcatEmptySeq
<1>5. Whole(<<>>, <<>> \o <<>>, <<>> \o <<>>, <<>>)
  BY <1>4, WholeFresh
<1> HIDE DEF f, t
<1>6. Whole(<<>>, <<>>, <<>>, <<>>)
  <2>1. <<>> \o <<>> = <<>>
    OBVIOUS
  <2> QED
    BY <1>5, <2>1
<1>7. Whole(<<>> \o f, <<>>, Append(<<>>, f), <<>>)
  BY <1>1, <1>4, <1>6, WholeMore
<1>8. Whole(f, <<>>, <<f>>, <<>>)
  BY <1>2, <1>4, <1>7
<1>9. Whole(f \o t, <<>>, Append(<<f>>, t), <<>>)
  BY <1>1, <1>4, <1>8, WholeMore
<1>10. Whole(Opening, <<>>, <<f, t>>, <<>>)
  BY <1>1, <1>2, <1>9
<1> QED
  BY <1>1, <1>10 DEF f, t

LEMMA GreetingType ==
  ASSUME NEW c PROVE Greeting(c) \in Seq(Buf)
<1>1. <<Flight>> \in Buf /\ <<Tickets>> \in Buf
  BY SingleIsBuf, ProtocolApart
<1>2. /\ << <<Flight>>, <<Tickets>> >> \in Seq(Buf)
      /\ << <<Tickets>> >> \in Seq(Buf) /\ <<>> \in Seq(Buf)
  BY <1>1
<1> QED
  BY <1>2 DEF Greeting

LEMMA CarriedTypes ==
  ASSUME TypeOK, LogInv, NEW c \in Conn
  PROVE  /\ Spoken(c) \in Seq(Unit) /\ Out(c) \in Seq(Unit)
         /\ wq[c] \in Seq(Buf) /\ Greeting(c) \in Seq(Buf)
         /\ Greeting(c) \o wq[c] \in Seq(Buf)
<1>1. /\ DueOf(log, joined[c], c) \in Seq(Unit) /\ wq[c] \in Seq(Buf)
      /\ Out(c) \in Seq(Unit) /\ Opening \in Seq(Unit)
      /\ Greeting(c) \in Seq(Buf)
  BY ChatDataTypes, AllToGreet, GreetingType DEF Out
<1>2. \A x, y \in Seq(Unit) : x \o y \in Seq(Unit)
  OBVIOUS
<1>3. \A x, y \in Seq(Buf) : x \o y \in Seq(Buf)
  OBVIOUS
<1> QED
  BY <1>1, <1>2, <1>3 DEF Spoken

\* Nothing has been said or owed to d meanwhile, or it is out of reach.
LEMMA MemberStays ==
  ASSUME NEW d \in Conn, Member(d),
         Waits(d)' => Waits(d) /\ UNCHANGED <<received[d], sndq[d]>>,
         UNCHANGED <<state[d], ssl[d]>>, isOpen'[d] => isOpen[d],
         wq'[d] \in {wq[d], <<>>},
         Reached(d)' => /\ Reached(d)
                        /\ Out(d)' = Out(d) /\ wq'[d] = wq[d]
                        /\ Spoken(d)' = Spoken(d)
  PROVE  Member(d)'
<1>1. NotBegun(d)'
  BY DEF Member, NotBegun
<1>2. Session(d)'
  BY DEF Member, Session
<1>3. wq'[d] \in Seq(Single)
  BY EmptySeq DEF Member
<1>4. Greeting(d)' = Greeting(d)
  BY DEF Greeting
<1>5. Reached(d)' => Carried(d)'
  BY <1>4 DEF Member, Carried
<1> QED
  BY <1>1, <1>2, <1>3, <1>5 DEF Member

\* Of the conversation itself nothing changes.
LEMMA MeetingFrame ==
  ASSUME Meeting, UNCHANGED <<handlers, log, joined>>,
         state' \in [Conn -> States], ssl' \in [Conn -> SslStates],
         errors' \in BOOLEAN, NoChunksLeft', rq' \in Seq(Single),
         \A c \in Conn : Member(c)'
  PROVE  Meeting'
BY DEF Meeting, OneHandlerEach, Registered, LogInv

LEMMA MeetingIdle ==
  ASSUME MeetingInv, Idle, UNCHANGED chatOnly
  PROVE  Meeting'
<1>1. NoChunksLeft' /\ rq' \in Seq(Single) /\ UNCHANGED <<handlers, log, joined>>
  BY DEF Idle, NoChunksLeft, MeetingInv, Meeting, chatOnly
<1>2. ASSUME NEW d \in Conn PROVE Member(d)'
  <2>1. /\ UNCHANGED <<received[d], sndq[d], state[d], ssl[d], isOpen[d], wq[d]>>
        /\ Waits(d)' = Waits(d) /\ Reached(d)' = Reached(d)
        /\ Out(d)' = Out(d) /\ Spoken(d)' = Spoken(d)
    BY DEF Idle, peerVars, Waits, Reached, RegisteredConn, Out, Spoken, chatOnly
  <2>2. Member(d)
    BY DEF MeetingInv, Meeting
  <2> QED
    BY <2>1, <2>2, MemberStays
<1>3. /\ state' \in [Conn -> States] /\ ssl' \in [Conn -> SslStates]
      /\ errors' \in BOOLEAN
  BY DEF Idle, MeetingInv, Meeting
<1> QED
  BY <1>1, <1>2, <1>3, MeetingFrame DEF MeetingInv

\* A call concerns the connection m that is served.
LEMMA MeetingCall ==
  ASSUME MeetingInv, UNCHANGED chatOnly, NEW m \in Conn, Local(m), Member(m)',
         state' \in [Conn -> States], ssl' \in [Conn -> SslStates],
         errors' \in BOOLEAN, NoChunksLeft', rq' \in Seq(Single)
  PROVE  Meeting'
<1>1. ASSUME NEW d \in Conn \ {m} PROVE Member(d)'
  <2>1. UNCHANGED <<received[d], sndq[d], state[d], ssl[d], isOpen[d], wq[d],
                    peer[d]>>
    BY DEF Local
  <2>2. /\ Waits(d)' = Waits(d) /\ Reached(d)' = Reached(d)
        /\ Out(d)' = Out(d) /\ Spoken(d)' = Spoken(d)
    BY <2>1 DEF Local, Waits, Reached, RegisteredConn, Out, Spoken, chatOnly
  <2>3. Member(d)
    BY DEF MeetingInv, Meeting
  <2> QED
    BY <2>1, <2>2, <2>3, MemberStays
<1>2. \A d \in Conn : Member(d)'
  BY <1>1
<1>3. UNCHANGED <<handlers, log, joined>>
  BY DEF Local, chatOnly
<1> QED
  BY <1>2, <1>3, MeetingFrame DEF MeetingInv

\* The stream of the connection that is served has begun.
LEMMA ServedInMeeting ==
  ASSUME MeetingInv, phase \in Serving, isOpen[Me]
  PROVE  \E m \in Conn :
           /\ m = Me /\ m = Sock /\ ~Waits(m) /\ RegisteredConn(m)
           /\ Member(m) /\ state[m] \in States /\ ssl[m] \in SslStates
           /\ (UNCHANGED <<backlog, peer, handlers>>
                 => ~Waits(m)' /\ RegisteredConn(m)')
<1>1. IInv
  BY DEF MeetingInv, ChatInv
<1>2. PICK m \in Conn : m = Me /\ Sock = m /\ cur \in Fd
  BY <1>1, ServedIsOwn
<1>3. ~Waits(m)
  BY <1>1, <1>2, FreshNotServed DEF Waits
<1>4. RegisteredConn(m)
  BY <1>2 DEF RegisteredConn, Me
<1>5. /\ Member(m) /\ state[m] \in States /\ ssl[m] \in SslStates
  BY DEF MeetingInv, Meeting
<1>6. UNCHANGED <<backlog, peer, handlers>> => ~Waits(m)' /\ RegisteredConn(m)'
  BY <1>3, <1>4 DEF Waits, RegisteredConn
<1> QED
  BY <1>2, <1>3, <1>4, <1>5, <1>6

LEMMA MeetingTypes ==
  ASSUME MeetingInv
  PROVE  /\ TypeOK /\ IInv /\ LogInv /\ OneHandlerEach /\ errors \in BOOLEAN
         /\ NoChunksLeft
         /\ state \in [Conn -> States] /\ ssl \in [Conn -> SslStates]
         /\ isOpen \in [Conn -> BOOLEAN] /\ inbox \in [Conn -> Seq(Unit)]
         /\ sndq \in [Conn -> Seq(Unit)] /\ wq \in [Conn -> Seq(Buf)]
         /\ backlog \in Seq(Conn) /\ peer \in [Conn -> PeerStates]
         /\ received \in [Conn -> Seq(Unit)]
         /\ rq \in Seq(Single) /\ <<>> \in Seq(Single)
BY EmptySeq DEF MeetingInv, Meeting, ChatInv, IInv, TypeOK, SocketsTypeOK

LEMMA MeetingShuts ==
  ASSUME MeetingInv, Shuts, UNCHANGED chatOnly
  PROVE  Meeting'
<1>1. phase \in Serving /\ isOpen[Me] /\ Closes(Me)
  BY DEF Shuts
<1>2. PICK m \in Conn :
        /\ m = Me /\ ~Waits(m) /\ Member(m)
        /\ (UNCHANGED <<backlog, peer, handlers>> => ~Waits(m)')
  BY <1>1, ServedInMeeting
<1>3. /\ state \in [Conn -> States] /\ ssl \in [Conn -> SslStates]
      /\ isOpen \in [Conn -> BOOLEAN] /\ inbox \in [Conn -> Seq(Unit)]
      /\ sndq \in [Conn -> Seq(Unit)]
      /\ rq \in Seq(Single) /\ <<>> \in Seq(Single)
  BY MeetingTypes
<1>4. Closes(m)
  BY <1>1, <1>2
<1>5. Local(m) /\ ~isOpen'[m] /\ wq'[m] = wq[m]
  BY <1>3, <1>4 DEF Closes, Local, peerVars
<1>6. Session(m)'
  BY <1>2, <1>3, <1>4 DEF Closes, Member, Session
<1>7. Member(m)'
  BY <1>2, <1>5, <1>6 DEF Member, NotBegun, Reached, Local
<1>8. /\ state' \in [Conn -> States] /\ ssl' \in [Conn -> SslStates]
      /\ errors' \in BOOLEAN /\ rq' \in Seq(Single) /\ NoChunksLeft'
  BY <1>3, <1>4 DEF Closes, States, SslStates, NoChunksLeft
<1> QED
  BY <1>5, <1>7, <1>8, MeetingCall

LEMMA ConcatFirst ==
  ASSUME NEW S, NEW a \in S, NEW r \in Seq(S), NEW q \in Seq(S)
  PROVE  LET x == (<<a>> \o r) \o q
         IN  x # <<>> /\ Head(x) = a /\ Tail(x) = r \o q
<1> DEFINE y == <<a>> \o (r \o q)
<1>1. <<a>> \in Seq(S) /\ r \o q \in Seq(S) /\ (<<a>> \o r) \o q = y
  BY ConcatAssociative
<1>2. y # <<>> /\ Head(y) = a /\ Tail(y) = r \o q
  <2>1. \A s \in Seq(S) : /\ <<a>> \o s # <<>> /\ Head(<<a>> \o s) = a
                          /\ Tail(<<a>> \o s) = s
    OBVIOUS
  <2> QED
    BY <1>1, <2>1
<1> QED
  BY <1>1, <1>2

\* What is owed to c in state s of its session, before the queue q.
LEMMA GreetingFirst ==
  ASSUME NEW q \in Seq(Buf)
  PROVE  /\ LET x == << <<Flight>>, <<Tickets>> >> \o q
            IN  x # <<>> /\ Head(x) = <<Flight>> /\ Tail(x) = << <<Tickets>> >> \o q
         /\ LET x == << <<Tickets>> >> \o q
            IN  x # <<>> /\ Head(x) = <<Tickets>> /\ Tail(x) = q
         /\ <<>> \o q = q
<1> DEFINE f == <<Flight>>
           t == <<Tickets>>
<1>1. f \in Buf /\ t \in Buf
  BY SingleIsBuf, ProtocolApart
<1> HIDE DEF f, t
<1>2. <<f>> \o <<t>> = <<f, t>> /\ <<t>> \in Seq(Buf) /\ <<>> \in Seq(Buf)
  <2>1. <<f>> \in Seq(Buf) /\ <<t>> \in Seq(Buf) /\ <<>> \in Seq(Buf)
    BY <1>1
  <2>2. Append(<<f>>, t) = <<f, t>>
    BY <1>1, AppendToFew
  <2> QED
    BY <1>1, <2>1, <2>2, AppendIsConcat
<1>3. <<>> \o q = q
  BY ConcatEmptySeq
<1>4. <<t>> \o <<>> = <<t>>
  BY <1>2, ConcatEmptySeq
<1>5. LET x == (<<f>> \o <<t>>) \o q
      IN  x # <<>> /\ Head(x) = f /\ Tail(x) = <<t>> \o q
  BY <1>1, <1>2, ConcatFirst
<1>6. LET x == (<<t>> \o <<>>) \o q
      IN  x # <<>> /\ Head(x) = t /\ Tail(x) = <<>> \o q
  BY <1>1, <1>2, ConcatFirst
<1> QED
  BY <1>2, <1>3, <1>4, <1>5, <1>6 DEF f, t

\* The first record that is held for c has gone out.
LEMMA CarriesOn ==
  ASSUME TypeOK, LogInv, NEW c \in Conn, Carried(c), NEW u \in Unit,
         Greeting(c) \o wq[c] # <<>>, Head(Greeting(c) \o wq[c]) = <<u>>,
         Out(c)' = Append(Out(c), u), Spoken(c)' = Spoken(c),
         (Greeting(c) \o wq[c])' = Tail(Greeting(c) \o wq[c])
  PROVE  Carried(c)'
<1> DEFINE s == Spoken(c)
           o == Out(c)
           q == Greeting(c) \o wq[c]
<1>1. s \in Seq(Unit) /\ o \in Seq(Unit) /\ q \in Seq(Buf) /\ <<>> \in Seq(Unit)
  BY CarriedTypes
<1>2. Whole(s, o, q, <<>>)
  BY DEF Carried
<1>3. s' = s /\ o' = Append(o, u) /\ q' = Tail(q) /\ q # <<>> /\ Head(q) = <<u>>
  OBVIOUS
<1>4. Carried(c)' <=> Whole(s', o', q', <<>>)
  BY DEF Carried
<1> HIDE DEF s, o, q
<1>5. Whole(s, Append(o, u), Tail(q), <<>>)
  BY <1>1, <1>2, <1>3, WholeGive
<1> QED
  BY <1>3, <1>4, <1>5

LEMMA MeetingHandshakeRead ==
  ASSUME MeetingInv, HandshakeRead, UNCHANGED chatOnly
  PROVE  Meeting'
<1>1. CallInv
  BY MeetingTypes DEF CallInv
<1>2. phase \in Serving /\ isOpen[Me] /\ state[Me] = "HANDSHAKE"
  BY <1>1, OwnCall DEF HandshakeRead
<1>3. PICK m \in Conn :
        /\ m = Me /\ m = Sock /\ Member(m)
        /\ (UNCHANGED <<backlog, peer, handlers>> => ~Waits(m)')
  BY <1>2, ServedInMeeting
<1>4. /\ ssl[m] \in Awaiting
      /\ ssl' = [ssl EXCEPT ![m] = IF @ = "hello" THEN "flight" ELSE "tickets"]
      /\ inbox' = [inbox EXCEPT ![m] = Tail(@)] /\ errors' = FALSE
      /\ UNCHANGED <<fdTable, peerVars, sndq, loopVars, state>>
  BY <1>3 DEF HandshakeRead, Take
<1>5. UNCHANGED <<backlog, peer, sent, received, sndq, phase, cur, rq, handlers,
                  isOpen, wq, state>>
  BY <1>4 DEF peerVars, loopVars
<1>6. ssl \in [Conn -> SslStates] /\ inbox \in [Conn -> Seq(Unit)]
  BY MeetingTypes
<1>7. Local(m) /\ ssl' \in [Conn -> SslStates]
  BY <1>4, <1>5, <1>6 DEF Local, SslStates, Answering
<1>8. \/ ssl[m] = "hello" /\ ssl'[m] = "flight"
      \/ ssl[m] = "finished" /\ ssl'[m] = "tickets"
  BY <1>4, <1>6 DEF Awaiting
<1>9. /\ Greeting(m)' = Greeting(m) /\ Out(m)' = Out(m)
      /\ Spoken(m)' = Spoken(m) /\ Reached(m)' = Reached(m)
  BY <1>5, <1>8 DEF Greeting, Out, Spoken, Reached, RegisteredConn, chatOnly
<1>10. NotBegun(m)' /\ Session(m)'
  BY <1>2, <1>3, <1>5, <1>8 DEF NotBegun, Session
<1>11. Member(m)'
  BY <1>3, <1>5, <1>9, <1>10 DEF Member, Carried
<1>12. NoChunksLeft' /\ rq' \in Seq(Single) /\ state' \in [Conn -> States]
  BY <1>5, MeetingTypes DEF NoChunksLeft
<1> QED
  BY <1>4, <1>7, <1>11, <1>12, MeetingCall

LEMMA MeetingHandshakeWrite ==
  ASSUME MeetingInv, HandshakeWrite, UNCHANGED chatOnly
  PROVE  Meeting'
<1>1. CallInv
  BY MeetingTypes DEF CallInv
<1>2. phase \in Serving /\ isOpen[Me] /\ state[Me] = "HANDSHAKE"
  BY <1>1, OwnCall DEF HandshakeWrite
<1>3. PICK m \in Conn :
        /\ m = Me /\ m = Sock /\ Member(m)
        /\ (UNCHANGED <<backlog, peer, handlers>> => ~Waits(m)')
  BY <1>2, ServedInMeeting
<1> DEFINE u == IF ssl[m] = "flight" THEN Flight ELSE Tickets
<1>4. /\ ssl[m] \in Answering
      /\ ssl' = [ssl EXCEPT ![m] = IF @ = "flight" THEN "finished" ELSE "ok"]
      /\ state' = [state EXCEPT ![m] = IF ssl[m] = "tickets" THEN "DATA" ELSE @]
      /\ sndq' = [sndq EXCEPT ![m] = Append(@, u)] /\ errors' = FALSE
      /\ UNCHANGED <<fdTable, peerVars, inbox, loopVars>>
  BY <1>3 DEF HandshakeWrite, Emit
<1>5. UNCHANGED <<backlog, peer, sent, received, inbox, phase, cur, rq, handlers,
                  isOpen, wq>>
  BY <1>4 DEF peerVars, loopVars
<1>6. /\ ssl \in [Conn -> SslStates] /\ state \in [Conn -> States]
      /\ sndq \in [Conn -> Seq(Unit)] /\ TypeOK /\ LogInv
      /\ wq \in [Conn -> Seq(Buf)]
  BY MeetingTypes
<1>7. /\ Local(m) /\ ssl' \in [Conn -> SslStates]
      /\ state' \in [Conn -> States]
  BY <1>4, <1>5, <1>6 DEF Local, SslStates, Awaiting, States
<1>8. \/ ssl[m] = "flight" /\ ssl'[m] = "finished" /\ state'[m] = "HANDSHAKE"
      \/ ssl[m] = "tickets" /\ ssl'[m] = "ok" /\ state'[m] = "DATA"
  BY <1>2, <1>3, <1>4, <1>6 DEF Answering
<1>9. u \in Unit /\ Out(m)' = Append(Out(m), u)
  <2>1. u \in Unit
    BY ProtocolApart
  <2> HIDE DEF u
  <2>2. sndq'[m] = Append(sndq[m], u)
    BY <1>4, <1>6
  <2> QED
    BY <1>5, <1>6, <2>1, <2>2, OutGrows
<1>10. /\ Greeting(m) \o wq[m] # <<>> /\ Head(Greeting(m) \o wq[m]) = <<u>>
       /\ (Greeting(m) \o wq[m])' = Tail(Greeting(m) \o wq[m])
  <2>0. wq[m] \in Seq(Buf) /\ wq'[m] = wq[m]
    BY <1>5, <1>6
  <2>1. CASE ssl[m] = "flight" /\ ssl'[m] = "finished"
    <3>1. Greeting(m) = << <<Flight>>, <<Tickets>> >>
          /\ Greeting(m)' = << <<Tickets>> >>
      BY <2>1 DEF Greeting
    <3> QED
      BY <2>0, <2>1, <3>1, GreetingFirst
  <2>2. CASE ssl[m] = "tickets" /\ ssl'[m] = "ok"
    <3>1. Greeting(m) = << <<Tickets>> >> /\ Greeting(m)' = <<>>
      BY <2>2 DEF Greeting
    <3> QED
      BY <2>0, <2>2, <3>1, GreetingFirst
  <2> QED
    BY <1>8, <2>1, <2>2
<1> HIDE DEF u
<1>11. Spoken(m)' = Spoken(m) /\ Reached(m)' = Reached(m)
  BY <1>5 DEF Spoken, Reached, RegisteredConn, chatOnly
<1>12. Reached(m)' => Carried(m)'
  BY <1>3, <1>6, <1>9, <1>10, <1>11, CarriesOn DEF Member
<1>13. NotBegun(m)' /\ Session(m)'
  BY <1>2, <1>3, <1>5, <1>8 DEF NotBegun, Session
<1>14. Member(m)'
  BY <1>3, <1>5, <1>12, <1>13 DEF Member
<1>15. NoChunksLeft' /\ rq' \in Seq(Single)
  BY <1>5, MeetingTypes DEF NoChunksLeft
<1> QED
  BY <1>4, <1>7, <1>14, <1>15, MeetingCall

LEMMA MeetingReadRecord ==
  ASSUME MeetingInv, ReadRecord, UNCHANGED chatOnly
  PROVE  Meeting'
<1>1. CallInv
  BY MeetingTypes DEF CallInv
<1>2. phase \in Serving /\ isOpen[Me]
  BY <1>1, OwnCall DEF ReadRecord, Reading
<1>3. PICK m \in Conn :
        /\ m = Me /\ m = Sock /\ Member(m)
        /\ (UNCHANGED <<backlog, peer, handlers>> => ~Waits(m)')
  BY <1>2, ServedInMeeting
<1>4. PICK u \in Data : /\ inbox' = [inbox EXCEPT ![m] = Tail(@)]
                        /\ rq' = Append(rq, <<u>>)
  BY <1>3 DEF ReadRecord, Take
<1>5. UNCHANGED <<backlog, peer, sent, received, sndq, phase, cur, handlers,
                  isOpen, wq, state, ssl, errors>>
  BY DEF ReadRecord, peerVars, regVars, tlsVars
<1>6. /\ ssl' \in [Conn -> SslStates] /\ state' \in [Conn -> States]
      /\ errors' \in BOOLEAN /\ inbox \in [Conn -> Seq(Unit)]
      /\ rq \in Seq(Single)
  BY <1>5, MeetingTypes
<1>7. Local(m)
  BY <1>4, <1>5, <1>6 DEF Local
<1>8. rq' \in Seq(Single)
  <2>1. <<u>> \in Single
    BY ProtocolApart DEF Single
  <2> QED
    BY <1>4, <1>6, <2>1
<1>9. /\ Greeting(m)' = Greeting(m) /\ Out(m)' = Out(m)
      /\ Spoken(m)' = Spoken(m) /\ Reached(m)' = Reached(m)
  BY <1>5 DEF Greeting, Out, Spoken, Reached, RegisteredConn, chatOnly
<1>10. Member(m)'
  BY <1>3, <1>5, <1>9 DEF Member, Carried, NotBegun, Session
<1>11. NoChunksLeft'
  BY <1>5 DEF NoChunksLeft, ReadRecord, Reading
<1> QED
  BY <1>6, <1>7, <1>8, <1>10, <1>11, MeetingCall

LEMMA MeetingLeave ==
  ASSUME MeetingInv, TakesLeave, UNCHANGED chatOnly
  PROVE  Meeting'
<1>1. CallInv
  BY MeetingTypes DEF CallInv
<1>2. phase \in Serving /\ isOpen[Me] /\ state[Me] = "DATA"
  BY <1>1, OwnCall DEF TakesLeave, ReadBye, Reading
<1>3. PICK m \in Conn :
        /\ m = Me /\ m = Sock /\ Member(m)
        /\ (UNCHANGED <<backlog, peer, handlers>> => ~Waits(m)')
  BY <1>2, ServedInMeeting
<1>4. /\ inbox' = [inbox EXCEPT ![m] = Tail(@)]
      /\ state' = [state EXCEPT ![m] = "SHUTDOWN"]
  BY <1>3 DEF TakesLeave, ReadBye, Take
<1>5. UNCHANGED <<backlog, peer, sent, received, sndq, phase, cur, handlers,
                  isOpen, wq, rq, ssl, errors>>
  BY DEF TakesLeave, ReadBye, peerVars, loopVars
<1>6. /\ ssl' \in [Conn -> SslStates] /\ state \in [Conn -> States]
      /\ errors' \in BOOLEAN /\ inbox \in [Conn -> Seq(Unit)]
      /\ rq' \in Seq(Single) /\ NoChunksLeft'
  BY <1>5, MeetingTypes DEF NoChunksLeft
<1>7. Local(m) /\ state' \in [Conn -> States] /\ state'[m] = "SHUTDOWN"
  BY <1>4, <1>5, <1>6 DEF Local, States
<1>8. ssl[m] = "ok"
  BY <1>2, <1>3 DEF Member, Session
<1>9. /\ Greeting(m)' = Greeting(m) /\ Out(m)' = Out(m)
      /\ Spoken(m)' = Spoken(m) /\ Reached(m)' = Reached(m)
  BY <1>5 DEF Greeting, Out, Spoken, Reached, RegisteredConn, chatOnly
<1>10. Member(m)'
  BY <1>3, <1>5, <1>7, <1>8, <1>9 DEF Member, Carried, NotBegun, Session
<1> QED
  BY <1>6, <1>7, <1>10, MeetingCall

LEMMA MeetingWriteRecord ==
  ASSUME MeetingInv, WriteRecord, UNCHANGED chatOnly
  PROVE  Meeting'
<1>1. CallInv
  BY MeetingTypes DEF CallInv
<1>2. /\ phase \in Serving /\ phase = "write" /\ isOpen[Me]
      /\ state[Me] = "DATA" /\ wq[Me] # <<>>
  BY <1>1, OwnCall DEF WriteRecord, Sending, CanWrite
<1>3. PICK m \in Conn :
        /\ m = Me /\ m = Sock /\ Member(m)
        /\ (UNCHANGED <<backlog, peer, handlers>> => ~Waits(m)')
  BY <1>2, ServedInMeeting
<1>4. /\ wq[m] \in Seq(Single) /\ wq[m] # <<>> /\ Tail(wq[m]) \in Seq(Single)
      /\ Head(wq[m]) \in Single
  BY <1>2, <1>3 DEF Member
<1>5. PICK u \in Unit : Head(wq[m]) = <<u>> /\ Head(Head(wq[m])) = u
  <2>1. \A u \in Unit : Head(<<u>>) = u
    OBVIOUS
  <2> QED
    BY <1>4, <2>1 DEF Single
<1>6. /\ sndq' = [sndq EXCEPT ![m] = Append(@, u)]
      /\ wq' = [wq EXCEPT ![m] = Tail(@)]
  BY <1>3, <1>5 DEF WriteRecord, Emit
<1>7. UNCHANGED <<backlog, peer, sent, received, inbox, phase, cur, handlers,
                  isOpen, rq, state, ssl, errors>>
  BY DEF WriteRecord, peerVars, tlsVars
<1>8. /\ ssl' \in [Conn -> SslStates] /\ state' \in [Conn -> States]
      /\ errors' \in BOOLEAN /\ rq' \in Seq(Single) /\ NoChunksLeft'
      /\ sndq \in [Conn -> Seq(Unit)] /\ wq \in [Conn -> Seq(Buf)]
      /\ TypeOK /\ LogInv
  BY <1>7, MeetingTypes DEF NoChunksLeft
<1>9. /\ Local(m) /\ sndq'[m] = Append(sndq[m], u) /\ wq'[m] = Tail(wq[m])
  BY <1>6, <1>7, <1>8 DEF Local
<1>10. Out(m)' = Append(Out(m), u)
  BY <1>7, <1>8, <1>9, OutGrows
<1>11. Greeting(m) = <<>> /\ Greeting(m)' = <<>>
  BY <1>2, <1>3, <1>7 DEF Greeting, Member, Session
<1>12. <<>> \o wq[m] = wq[m] /\ <<>> \o Tail(wq[m]) = Tail(wq[m])
  BY <1>4, ConcatEmptySeq
<1>13. Spoken(m)' = Spoken(m) /\ Reached(m)' = Reached(m)
  BY <1>7 DEF Spoken, Reached, RegisteredConn, chatOnly
<1>14. Reached(m)' => Carried(m)'
  BY <1>3, <1>4, <1>5, <1>8, <1>9, <1>10, <1>11, <1>12, <1>13, CarriesOn
     DEF Member
<1>15. Member(m)'
  BY <1>3, <1>4, <1>7, <1>9, <1>14 DEF Member, NotBegun, Session
<1> QED
  BY <1>8, <1>9, <1>15, MeetingCall

LEMMA MeetingExit ==
  ASSUME MeetingInv, NEW how \in Ended, Exit(how), UNCHANGED <<tlsVars, chatOnly>>
  PROVE  Meeting'
<1>1. /\ UNCHANGED <<backlog, peer, received, sndq, state, ssl, errors, log,
                     joined>>
      /\ rq' = <<>> /\ wq' = [c \in Conn |-> <<>>]
      /\ isOpen' = [c \in Conn |-> FALSE]
      /\ handlers' = [f \in Fd |-> NoConn]
  BY DEF Exit, tlsVars, chatOnly
<1>2. ASSUME NEW d \in Conn PROVE Member(d)'
  <2>1. wq'[d] = <<>> /\ ~isOpen'[d] /\ Waits(d)' = Waits(d) /\ ~Reached(d)'
    BY <1>1 DEF Waits, Reached
  <2>2. Member(d)
    BY DEF MeetingInv, Meeting
  <2> QED
    BY <1>1, <2>1, <2>2, MemberStays
<1>3. OneHandlerEach' /\ LogInv'
  BY <1>1, MeetingTypes DEF OneHandlerEach, Registered, LogInv
<1>4. rq' \in Seq(Single) /\ NoChunksLeft'
  BY <1>1, MeetingTypes DEF NoChunksLeft
<1>5. state' \in [Conn -> States] /\ ssl' \in [Conn -> SslStates] /\ errors' \in BOOLEAN
  BY <1>1, MeetingTypes
<1> QED
  BY <1>2, <1>3, <1>4, <1>5 DEF Meeting

\* Whoever is accepted is owed the opening, and nothing that was said before.
LEMMA MeetingAccept ==
  ASSUME MeetingInv, NEW f \in Fd, ChatAccept(f), UNCHANGED tlsVars
  PROVE  Meeting'
<1>1. /\ TypeOK /\ IInv /\ LogInv /\ OneHandlerEach
      /\ handlers \in [Fd -> Conn \cup {NoConn}]
  BY MeetingTypes DEF TypeOK
<1>2. PICK c0 \in Conn :
        /\ backlog # <<>> /\ backlog' = Tail(backlog)
        /\ \E i \in DOMAIN backlog : backlog[i] = c0
        /\ \A c \in Conn : (\E i \in DOMAIN backlog' : backlog'[i] = c)
                            => \E i \in DOMAIN backlog : backlog[i] = c
        /\ handlers'[f] = c0 /\ \A g \in Fd : g # f => handlers'[g] = handlers[g]
        /\ \A g \in Fd : handlers[g] # c0
        /\ isOpen'[c0] /\ \A c \in Conn : c # c0 => isOpen'[c] = isOpen[c]
        /\ \A c \in Conn : c # c0 => joined'[c] = joined[c]
        /\ DueOf(log, joined'[c0], c0) = <<>>
  BY <1>1, ChatAcceptJoins
<1>3. /\ UNCHANGED <<peer, received, sndq, wq, log, rq, phase>>
      /\ UNCHANGED <<state, ssl, errors>>
  BY DEF ChatAccept, Accept, tlsVars
<1>4. \A d \in Conn : Member(d)
  BY DEF MeetingInv, Meeting
<1>5. ASSUME NEW d \in Conn, d # c0 PROVE Member(d)'
  <2>1. Waits(d)' => Waits(d)
    BY <1>2, <1>3 DEF Waits
  <2>2. Reached(d)' => Reached(d)
    BY <1>2, <1>3, <1>5 DEF Reached, RegisteredConn
  <2>3. Out(d)' = Out(d) /\ Spoken(d)' = Spoken(d)
    BY <1>2, <1>3, <1>5 DEF Out, Spoken
  <2> QED
    BY <1>2, <1>3, <1>4, <1>5, <2>1, <2>2, <2>3, MemberStays
<1>6. Member(c0)'
  <2>1. /\ received[c0] = <<>> /\ sndq[c0] = <<>> /\ wq[c0] = <<>>
        /\ state[c0] = "HANDSHAKE" /\ ssl[c0] = "hello"
    BY <1>2, <1>4 DEF Member, NotBegun, Waits
  <2>2. NotBegun(c0)' /\ Session(c0)' /\ wq'[c0] \in Seq(Single)
    BY <1>3, <2>1, EmptySeq DEF NotBegun, Session
  <2>3. /\ Opening \o <<>> = Opening /\ <<>> \o <<>> = <<>>
        /\ Greeting(c0) \o <<>> = Greeting(c0)
    <3>1. Opening \in Seq(Unit) /\ Greeting(c0) \in Seq(Buf)
      BY AllToGreet, GreetingType
    <3>2. <<>> \in Seq(Unit)
      OBVIOUS
    <3> QED
      BY <3>1, <3>2, ConcatEmptySeq
  <2>4. /\ Out(c0)' = <<>> /\ Spoken(c0)' = Opening
        /\ (Greeting(c0) \o wq[c0])' = << <<Flight>>, <<Tickets>> >>
    BY <1>2, <1>3, <2>1, <2>3 DEF Out, Spoken, Greeting
  <2>5. Carried(c0)'
    BY <2>4, AllToGreet DEF Carried
  <2> QED
    BY <2>2, <2>5 DEF Member
<1>7. OneHandlerEach' /\ LogInv'
  <2>1. LogInv'
    BY <1>1, ChatAcceptJoins
  <2> QED
    BY <1>1, <1>2, <2>1 DEF OneHandlerEach, Registered
<1>8. /\ state' \in [Conn -> States] /\ ssl' \in [Conn -> SslStates]
      /\ errors' \in BOOLEAN /\ NoChunksLeft' /\ rq' \in Seq(Single)
  BY <1>3, MeetingTypes DEF NoChunksLeft
<1> QED
  BY <1>5, <1>6, <1>7, <1>8 DEF Meeting

\* What was read is owed to everyone else, in whatever state his session is.
LEMMA MeetingOnRead ==
  ASSUME MeetingInv, ChatOnRead, UNCHANGED tlsVars
  PROVE  Meeting'
<1>1. TypeOK /\ IInv /\ LogInv /\ OneHandlerEach /\ ChatInv /\ rq \in Seq(Single)
  BY MeetingTypes DEF MeetingInv
<1>2. /\ phase = "deliver" /\ rq # <<>> /\ rq' = Tail(rq)
      /\ UNCHANGED <<backlog, peer, received, sndq, handlers, joined, phase>>
      /\ UNCHANGED <<state, ssl, errors>>
      /\ \A c \in Conn : isOpen'[c] => isOpen[c]
  BY DEF ChatOnRead, OnRead, peerVars, tlsVars
<1>3. LogInv'
  BY <1>1, ChatOnReadRelays
<1>4. PICK m \in Conn, b \in Buf :
        /\ b = Head(rq) /\ b \in Seq(Unit)
        /\ \A c \in Conn : (\E f \in Fd : handlers[f] = c) /\ c # m
                            => wq'[c] = Append(wq[c], b)
        /\ wq'[m] = wq[m]
        /\ \A c \in Conn : (\A f \in Fd : handlers[f] # c) => wq'[c] = wq[c]
        /\ \A c \in Conn :
             DueOf(log', joined[c], c) =
               IF c = m THEN DueOf(log, joined[c], c)
                        ELSE DueOf(log, joined[c], c) \o b
  BY <1>1, ChatOnReadRelays
<1>5. b \in Single /\ rq' \in Seq(Single)
  BY <1>1, <1>2, <1>4
<1>6. \A d \in Conn : Member(d)
  BY DEF MeetingInv, Meeting
<1>7. ASSUME NEW d \in Conn, d = m \/ ~RegisteredConn(d) PROVE Member(d)'
  <2>1. wq'[d] = wq[d]
    BY <1>4, <1>7 DEF RegisteredConn
  <2>2. Waits(d)' = Waits(d) /\ (Reached(d)' => Reached(d)) /\ Out(d)' = Out(d)
    BY <1>2 DEF Waits, Reached, RegisteredConn, Out
  <2>3. Reached(d) => Spoken(d)' = Spoken(d)
    BY <1>2, <1>4, <1>7 DEF Reached, Spoken
  <2> QED
    BY <1>2, <1>6, <2>1, <2>2, <2>3, MemberStays
<1>8. ASSUME NEW d \in Conn, d # m, RegisteredConn(d) PROVE Member(d)'
  <2>1. wq'[d] = Append(wq[d], b)
    BY <1>4, <1>8 DEF RegisteredConn
  <2>2. ~Waits(d)'
    BY <1>1, <1>2, <1>8 DEF IInv, Fresh, Waits, RegisteredConn
  <2>3. wq'[d] \in Seq(Single)
    BY <1>5, <1>6, <2>1 DEF Member
  <2>4. Session(d)'
    BY <1>2, <1>6 DEF Member, Session
  <2>5. (Reached(d)' => Reached(d)) /\ Out(d)' = Out(d) /\ Greeting(d)' = Greeting(d)
    BY <1>2 DEF Reached, RegisteredConn, Out, Greeting
  <2>6. Spoken(d)' = Spoken(d) \o b
    <3>1. /\ DueOf(log, joined[d], d) \in Seq(Unit) /\ Opening \in Seq(Unit)
      BY <1>1, ChatDataTypes, AllToGreet
    <3>2. Spoken(d)' = Opening \o (DueOf(log, joined[d], d) \o b)
      BY <1>2, <1>4, <1>8 DEF Spoken
    <3>3. ASSUME NEW x \in Seq(Unit), NEW y \in Seq(Unit), NEW z \in Seq(Unit)
          PROVE  (x \o y) \o z = x \o (y \o z)
      BY ConcatAssociative
    <3>4. Spoken(d)' = (Opening \o DueOf(log, joined[d], d)) \o b
      BY <1>4, <3>1, <3>2, <3>3, Zenon
    <3> QED
      BY <3>4 DEF Spoken
  <2>7. Carried(d) => Carried(d)'
    <3> DEFINE s == Spoken(d)
               o == Out(d)
               q == Greeting(d) \o wq[d]
    <3>1. /\ s \in Seq(Unit) /\ o \in Seq(Unit) /\ q \in Seq(Buf)
          /\ wq[d] \in Seq(Buf) /\ Greeting(d) \in Seq(Buf)
      BY <1>1, CarriedTypes
    <3>2. q' = Append(q, b)
      <4>1. Greeting(d) \o Append(wq[d], b) = Append(Greeting(d) \o wq[d], b)
        BY <3>1, AppendConcat, Zenon
      <4> QED
        BY <2>1, <2>5, <4>1
    <3>3. Carried(d)' <=> Whole(s', o', q', <<>>)
      BY DEF Carried
    <3>4. Carried(d) <=> Whole(s, o, q, <<>>)
      BY DEF Carried
    <3>5. s' = s \o b /\ o' = o
      BY <2>5, <2>6
    <3> HIDE DEF s, o, q
    <3>6. Whole(s, o, q, <<>>) => Whole(s \o b, o, Append(q, b), <<>>)
      BY <3>1, WholeMore
    <3> QED
      BY <3>2, <3>3, <3>4, <3>5, <3>6
  <2> QED
    BY <1>6, <2>2, <2>3, <2>4, <2>5, <2>7 DEF Member, NotBegun
<1>9. \A d \in Conn : Member(d)'
  BY <1>7, <1>8
<1>10. /\ state' \in [Conn -> States] /\ ssl' \in [Conn -> SslStates]
       /\ errors' \in BOOLEAN /\ NoChunksLeft'
  BY <1>2, MeetingTypes DEF NoChunksLeft
<1>11. OneHandlerEach'
  BY <1>1, <1>2 DEF OneHandlerEach, Registered
<1> QED
  BY <1>3, <1>5, <1>9, <1>10, <1>11 DEF Meeting

LEMMA MeetingCleanup ==
  ASSUME MeetingInv, TlsCleanup, UNCHANGED <<log, joined>>
  PROVE  Meeting'
<1>1. /\ phase = "cleanup" /\ phase' = "poll"
      /\ UNCHANGED <<backlog, peer, received, sndq, rq, isOpen, state, ssl>>
      /\ handlers' = [f \in Fd |-> IF Closed(f) THEN NoConn ELSE handlers[f]]
      /\ wq' = [c \in Conn |-> IF \E f \in Fd : Closed(f) /\ handlers[f] = c
                               THEN <<>> ELSE wq[c]]
  BY DEF TlsCleanup, Cleanup, peerVars
<1>2. ASSUME NEW d \in Conn PROVE Member(d)'
  <2>1. wq'[d] \in {wq[d], <<>>} /\ (isOpen[d] => wq'[d] = wq[d])
    BY <1>1 DEF Closed
  <2>2. Waits(d)' = Waits(d) /\ (Reached(d)' => Reached(d)) /\ Out(d)' = Out(d)
    BY <1>1, NoConnAssumption DEF Waits, Reached, RegisteredConn, Out
  <2>3. Spoken(d)' = Spoken(d) /\ (Reached(d) => isOpen[d])
    BY DEF Spoken, Reached
  <2>4. Member(d)
    BY DEF MeetingInv, Meeting
  <2> QED
    BY <1>1, <2>1, <2>2, <2>3, <2>4, MemberStays
<1>3. errors' \in BOOLEAN
  <2>1. \A x, y \in BOOLEAN : (x \/ y) \in BOOLEAN
    OBVIOUS
  <2> QED
    BY MeetingTypes DEF TlsCleanup
<1>4. OneHandlerEach' /\ LogInv'
  BY <1>1, MeetingTypes DEF OneHandlerEach, Registered, LogInv
<1>5. /\ state' \in [Conn -> States] /\ ssl' \in [Conn -> SslStates]
      /\ NoChunksLeft' /\ rq' \in Seq(Single)
  BY <1>1, MeetingTypes DEF NoChunksLeft
<1> QED
  BY <1>2, <1>3, <1>4, <1>5 DEF Meeting

\* What the peers do takes nothing away from anyone but who resets.
LEMMA MeetingPeers ==
  ASSUME MeetingInv, TlsPeers, UNCHANGED chatOnly
  PROVE  Meeting'
<1>1. /\ UNCHANGED <<handlers, wq, rq, isOpen, phase, cur, state, ssl, errors,
                     log, joined>>
  BY DEF TlsPeers, loopVars, tlsVars, chatOnly
<1>2. /\ TypeOK /\ IInv /\ peer \in [Conn -> PeerStates] /\ backlog \in Seq(Conn)
      /\ sndq \in [Conn -> Seq(Unit)] /\ received \in [Conn -> Seq(Unit)]
  BY MeetingTypes
<1>3. PICK c \in Conn :
        \/ Connect(c) \/ Abort(c) \/ Fin(c)
        \/ \E u \in Unit : Send(c, u)
        \/ Recv(c)
        \/ Reset(c)
  BY DEF TlsPeers, Peers
<1>4. \A d \in Conn : Member(d)
  BY DEF MeetingInv, Meeting
<1>5. ASSUME NEW d \in Conn, \E i \in DOMAIN backlog' : backlog'[i] = d
      PROVE  Waits(d)
  <2>1. CASE Connect(c)
    <3>1. peer[c] = "new" /\ backlog' = Append(backlog, c)
      BY <2>1 DEF Connect
    <3>2. \A q \in Seq(Conn) : \A i \in DOMAIN Append(q, c) :
            \/ Append(q, c)[i] = c
            \/ i \in DOMAIN q /\ Append(q, c)[i] = q[i]
      BY AppendProperties
    <3> QED
      BY <1>2, <1>5, <3>1, <3>2 DEF Waits
  <2>2. CASE Abort(c)
    BY <1>2, <1>5, <2>2, TailOfBacklog DEF Abort, Waits
  <2>3. CASE backlog' = backlog
    BY <1>5, <2>3 DEF Waits
  <2> QED
    BY <1>3, <2>1, <2>2, <2>3 DEF Fin, Send, Recv, Reset
<1>6. \A d \in Conn : /\ peer'[d] = "new" => peer[d] = "new"
                      /\ peer'[d] \in {"up", "fin"}
                           => peer[d] \in {"up", "fin"} \/ peer[d] = "new"
  BY <1>2, <1>3 DEF Connect, Abort, Fin, Send, Recv, Reset
<1>7. ASSUME NEW d \in Conn
      PROVE  /\ Waits(d)' => Waits(d)
             /\ Reached(d)' => Reached(d)
  <2>1. peer[d] = "new" => ~RegisteredConn(d)
    BY <1>2 DEF IInv, Fresh, RegisteredConn
  <2> QED
    BY <1>1, <1>5, <1>6, <2>1 DEF Waits, Reached, RegisteredConn
<1>8. ASSUME NEW d \in Conn
      PROVE  /\ Waits(d) => UNCHANGED <<received[d], sndq[d]>>
             /\ Reached(d)' => Out(d)' = Out(d)
  <2>1. CASE Recv(c)
    <3>1. /\ sndq[c] # <<>>
          /\ received'[c] = Append(received[c], Head(sndq[c]))
          /\ sndq'[c] = Tail(sndq[c])
          /\ d # c => received'[d] = received[d] /\ sndq'[d] = sndq[d]
      BY <1>2, <2>1 DEF Recv
    <3>2. ~Waits(c)
      BY <1>4, <3>1 DEF Member, NotBegun
    <3>3. received[c] \in Seq(Unit) /\ sndq[c] \in Seq(Unit)
      BY <1>2
    <3>4. Append(received[c], Head(sndq[c])) \o Tail(sndq[c]) = received[c] \o sndq[c]
      BY <3>1, <3>3, ShiftConcat, Zenon
    <3> QED
      BY <3>1, <3>2, <3>4 DEF Out
  <2>2. CASE Reset(c)
    <3>1. /\ received' = received /\ sndq'[c] = <<>>
          /\ peer'[c] \notin {"up", "fin"}
          /\ d # c => sndq'[d] = sndq[d]
      BY <1>2, <2>2 DEF Reset
    <3>2. Waits(c) => sndq[c] = <<>>
      BY <1>4 DEF Member, NotBegun
    <3> QED
      BY <3>1, <3>2 DEF Reached, Out
  <2>3. CASE UNCHANGED <<received, sndq>>
    BY <2>3 DEF Out
  <2> QED
    BY <1>3, <2>1, <2>2, <2>3 DEF Connect, Abort, Fin, Send
<1>9. ASSUME NEW d \in Conn PROVE Member(d)'
  <2>1. UNCHANGED <<state[d], ssl[d], isOpen[d], wq[d]>> /\ Spoken(d)' = Spoken(d)
    BY <1>1 DEF Spoken
  <2> QED
    BY <1>4, <1>7, <1>8, <2>1, MemberStays
<1>10. /\ state' \in [Conn -> States] /\ ssl' \in [Conn -> SslStates]
       /\ errors' \in BOOLEAN /\ NoChunksLeft' /\ rq' \in Seq(Single)
  BY <1>1, MeetingTypes DEF NoChunksLeft
<1> QED
  BY <1>1, <1>9, <1>10, MeetingFrame DEF MeetingInv

\* A call leaves the program's clients alone, unless it ends the process.
LEMMA StreamKeepsChat ==
  ASSUME MeetingInv, Returns, UNCHANGED chatOnly
  PROVE  ChatInv'
<1>1. CallInv /\ IInv
  BY MeetingTypes DEF CallInv
<1>2. clients' = clients /\ clients \in SUBSET Fd /\ ClientsAreHandlers
  BY DEF MeetingInv, ChatInv, chatOnly
<1>3. CASE \E how \in Ended : Exit(how) /\ UNCHANGED tlsVars
  <2>1. IInv'
    BY <1>1, <1>3, ExitKeepsLoop
  <2>2. ClientsAreHandlers'
    BY <1>3 DEF Exit, ClientsAreHandlers, Running
  <2> QED
    BY <1>2, <2>1, <2>2 DEF ChatInv
<1>4. CASE CallFrame
  <2>1. IInv'
    BY <1>1, <1>4, CallFrameKeeps
  <2>2. UNCHANGED handlers /\ Running
    BY <1>4 DEF CallFrame, Running, Serving, Ended
  <2>3. ClientsAreHandlers'
    BY <1>2, <2>2 DEF ClientsAreHandlers, Registered
  <2> QED
    BY <1>2, <2>1, <2>3 DEF ChatInv
<1> QED
  BY <1>3, <1>4 DEF Returns

LEMMA MeetingStream ==
  ASSUME MeetingInv, StreamStep, UNCHANGED chatOnly
  PROVE  MeetingInv'
<1>1. CallInv
  BY MeetingTypes DEF CallInv
<1>2. Returns
  BY <1>1, StreamStepReturns
<1>3. ChatInv'
  BY <1>2, StreamKeepsChat
<1>4. CASE \E how \in Ended : Exit(how) /\ UNCHANGED tlsVars
  BY <1>3, <1>4, MeetingExit DEF MeetingInv
<1>5. CASE Idle \/ Shuts
  BY <1>3, <1>5, MeetingIdle, MeetingShuts DEF MeetingInv
<1>6. CASE HandshakeRead \/ HandshakeWrite
  BY <1>3, <1>6, MeetingHandshakeRead, MeetingHandshakeWrite DEF MeetingInv
<1>7. CASE ReadRecord \/ WriteRecord \/ TakesLeave
  BY <1>3, <1>7, MeetingReadRecord, MeetingWriteRecord, MeetingLeave
     DEF MeetingInv
<1> QED
  BY <1>2, <1>4, <1>5, <1>6, <1>7 DEF Returns

\* The steps of the event loop between the calls and the callbacks.
Between ==
  \/ EnterPoll \/ PollReturns \/ NoSignal
  \/ \E f \in Fd : DispatchRead(f) \/ DispatchWrite(f)
  \/ DispatchDone \/ ReadClosed \/ Delivered \/ WriteEnds

\* What the main functions of example 09 do, in the terms of the servers.
LEMMA StepsOf09 ==
  ASSUME Step09
  PROVE  /\ program' = program
         /\ \/ StreamStep /\ UNCHANGED chatOnly
            \/ (Between \/ AcceptFails) /\ UNCHANGED <<tlsVars, chatOnly>>
            \/ TlsCleanup /\ UNCHANGED <<log, joined>>
               /\ clients' = IF program = "chat" THEN {f \in clients : ~Closed(f)}
                                                 ELSE clients
            \/ /\ program = "echo"
               /\ EchoOnRead \/ \E f \in Fd : Accept(f)
               /\ UNCHANGED <<tlsVars, chatOnly>>
            \/ /\ program = "chat"
               /\ ChatOnRead \/ \E f \in Fd : ChatAccept(f)
               /\ UNCHANGED tlsVars
<1>1. StreamRead \/ StreamWrite => StreamStep
  BY DEF StreamRead, StreamWrite, DoHandshake, HandleShutdown, SslDoHandshake,
         SslShutdown, StreamStep
<1>2. EventLoop => \/ StreamStep
                   \/ (Between \/ AcceptFails) /\ UNCHANGED tlsVars
  BY <1>1 DEF EventLoop, MakePollFds, Poll09, ListenerFails, HandleEvent,
              HandlerRead, HandleRead, HandleWrite, HandlerWrite, Between
<1> QED
  BY <1>2 DEF Step09, EchoMain, ChatMain, LoopStep09, EchoOnRead09,
              ChatOnRead09, ListenerRead, RemoveClosedHandlers, chatOnly

\* In the chat server these are steps of ChatServer.
LEMMA ChatStep09 ==
  ASSUME MeetingInv, program = "chat", Step09 PROVE MeetingInv'
<1>1. ChatInv /\ CallInv
  BY MeetingTypes DEF MeetingInv, CallInv
<1>2. CASE StreamStep /\ UNCHANGED chatOnly
  BY <1>2, MeetingStream
<1>3. CASE Between /\ UNCHANGED <<tlsVars, chatOnly>>
  <2>1. Meeting'
    BY <1>1, <1>3, OtherStepIdle, MeetingIdle DEF Between
  <2>2. ChatNext
    BY <1>3 DEF Between, ChatNext, ChatStep, QuietStep, chatOnly
  <2> QED
    BY <1>1, <2>1, <2>2, ChatInvStep DEF MeetingInv
<1>4. CASE AcceptFails /\ UNCHANGED <<tlsVars, chatOnly>>
  <2>1. Meeting'
    BY <1>4, MeetingExit DEF AcceptFails, Ended
  <2>2. ChatNext
    BY <1>4 DEF ChatNext, ChatStep, QuietStep, chatOnly
  <2> QED
    BY <1>1, <2>1, <2>2, ChatInvStep DEF MeetingInv
<1>5. CASE /\ TlsCleanup /\ UNCHANGED <<log, joined>>
           /\ clients' = {f \in clients : ~Closed(f)}
  <2>1. Meeting'
    BY <1>5, MeetingCleanup
  <2>2. ChatNext
    BY <1>5 DEF TlsCleanup, ChatNext, ChatStep, ChatCleanup
  <2> QED
    BY <1>1, <2>1, <2>2, ChatInvStep DEF MeetingInv
<1>6. CASE (ChatOnRead \/ \E f \in Fd : ChatAccept(f)) /\ UNCHANGED tlsVars
  <2>1. Meeting'
    BY <1>6, MeetingOnRead, MeetingAccept
  <2>2. ChatNext
    BY <1>6 DEF ChatNext, ChatStep
  <2> QED
    BY <1>1, <2>1, <2>2, ChatInvStep DEF MeetingInv
<1> QED
  BY StepsOf09, <1>2, <1>3, <1>4, <1>5, <1>6

\* In the echo server they are those of TlsServer.
LEMMA EchoStep09 ==
  ASSUME TlsInv, program = "echo", Step09 PROVE TlsInv'
<1>1. TlsNext
  BY StepsOf09 DEF Between, OtherStep, TlsStep, TlsNext
<1> QED
  BY <1>1, TlsInvStep

LEMMA Inv09Step == Inv09 /\ [Next09]_vars09 => Inv09'
<1> SUFFICES ASSUME Inv09, [Next09]_vars09 PROVE Inv09'
  OBVIOUS
<1>1. program' = program
  BY DEF Next09, Step09, Peers09, vars09
<1>2. CASE program = "echo"
  <2> SUFFICES TlsInv'
    BY <1>1, <1>2 DEF Inv09
  <2>1. TlsInv
    BY <1>2 DEF Inv09
  <2>2. CASE Step09
    BY <1>2, <2>1, <2>2, EchoStep09
  <2>3. CASE Peers09 \/ UNCHANGED vars09
    BY <2>1, <2>3, TlsInvStep DEF Peers09, TlsNext, vars09
  <2> QED
    BY <2>2, <2>3 DEF Next09
<1>3. CASE program = "chat"
  <2> SUFFICES MeetingInv'
    BY <1>1, <1>3 DEF Inv09
  <2>1. MeetingInv /\ ChatInv
    BY <1>3 DEF Inv09, MeetingInv
  <2>2. CASE Step09
    BY <1>3, <2>1, <2>2, ChatStep09
  <2>3. CASE Peers09
    <3>1. Meeting'
      BY <2>1, <2>3, MeetingPeers DEF Peers09
    <3>2. ChatNext
      BY <2>3 DEF Peers09, TlsPeers, Environment, ChatNext, chatOnly
    <3> QED
      BY <2>1, <3>1, <3>2, ChatInvStep DEF MeetingInv
  <2>4. CASE UNCHANGED vars09
    <3>1. UNCHANGED chatVars /\ UNCHANGED <<tlsVars, chatOnly>>
      BY <2>4 DEF vars09, allVars, chatOnly, chatVars
    <3>2. Idle
      BY <2>1, <2>4, MeetingTypes
         DEF Idle, NoChunksLeft, vars09, allVars, vars, sockVars, loopVars,
             regVars, tlsVars, peerVars, Serving
    <3> QED
      BY <2>1, <3>1, <3>2, MeetingIdle, ChatInvStep DEF MeetingInv
  <2> QED
    BY <2>2, <2>3, <2>4 DEF Next09
<1> QED
  BY <1>2, <1>3 DEF Inv09

LEMMA Inv09Init == Init09 => Inv09
<1> SUFFICES ASSUME Init09 PROVE Inv09
  OBVIOUS
<1>1. TlsInv /\ ChatInv /\ program \in {"echo", "chat"}
  BY TlsInvInit, ChatInvInit DEF Init09
<1>2. /\ clients = {} /\ log = <<>> /\ joined = [c \in Conn |-> 0]
      /\ \A f \in Fd : handlers[f] = NoConn
      /\ rq = <<>> /\ wq = [c \in Conn |-> <<>>]
      /\ isOpen = [c \in Conn |-> FALSE]
  BY DEF Init09, ChatInit, TlsInit, Init
<1>3. ASSUME NEW c \in Conn PROVE Member(c)
  <2>1. FreshSession(c) /\ Session(c)
    BY <1>1 DEF TlsInv, Sessions, Proper
  <2>2. NotBegun(c)
    BY <2>1 DEF FreshSession, NotBegun
  <2>3. wq[c] \in Seq(Single) /\ ~Reached(c)
    BY <1>2, EmptySeq DEF Reached
  <2> QED
    BY <2>1, <2>2, <2>3 DEF Member
<1>4. LogInv
  <2>1. log \in Seq(Entry) /\ Len(log) = 0 /\ joined \in [Conn -> Nat]
    BY <1>2, EmptySeq
  <2>2. ASSUME NEW c \in Conn PROVE joined[c] <= Len(log) /\ Counted(log, joined[c], c)
    <3>1. joined[c] = Len(log) /\ joined[c] <= Len(log)
      BY <1>2, <2>1
    <3>2. Counted(log, Len(log), c)
      BY <2>1, DueFromNow
    <3> QED
      BY <3>1, <3>2
  <2> QED
    BY <2>1, <2>2 DEF LogInv
<1>5. OneHandlerEach /\ rq \in Seq(Single)
  BY <1>2, EmptySeq DEF OneHandlerEach, Registered
<1>6. Meeting
  BY <1>1, <1>3, <1>4, <1>5 DEF TlsInv, Sessions, Meeting
<1> QED
  BY <1>1, <1>6 DEF Inv09, MeetingInv

THEOREM Always09 == Spec09 => []Inv09
BY Inv09Init, Inv09Step, PTL DEF Spec09

\* Example 09 loses, repeats and reorders nothing either: its echo server
\* answers every record, and its chat server has on the way to everyone who is
\* open, handshake first, all that the others said since he was accepted, even
\* what was said before his handshake was over.
THEOREM BothIntact09 == Spec09 => []Intact09
<1>1. Inv09 => Intact09
  <2> SUFFICES ASSUME Inv09 PROVE Intact09
    OBVIOUS
  <2>1. CASE program = "echo"
    BY <2>1, TlsIsComplete DEF Inv09, Intact09
  <2>2. CASE program = "chat"
    <3>1. ASSUME NEW f \in Fd, Live(f), peer[handlers[f]] \in {"up", "fin"}
          PROVE  RelayedOverTls(handlers[f])
      <4>1. MeetingInv /\ TypeOK
        BY <2>2, MeetingTypes DEF Inv09
      <4>2. PICK c \in Conn : c = handlers[f]
        BY <3>1, <4>1 DEF TypeOK, Live, Registered
      <4>3. Reached(c)
        BY <3>1, <4>2 DEF Reached, RegisteredConn, Live
      <4>4. Member(c)
        BY <4>1 DEF MeetingInv, Meeting
      <4>5. Carried(c)
        BY <4>3, <4>4 DEF Member
      <4>6. RelayedOverTls(c)
        BY <4>5, DueIsDueOf DEF Carried, RelayedOverTls, Spoken, Out
      <4> QED
        BY <4>2, <4>6
    <3> QED
      BY <2>2, <3>1 DEF Intact09
  <2> QED
    BY <2>1, <2>2 DEF Inv09
<1> QED
  BY <1>1, Always09, PTL

\* In both its servers a descriptor is its own handler's.
THEOREM FdOwnership09 == Spec09 => []FdOwnership
<1>1. Inv09 => FdOwnership
  BY DEF Inv09, TlsInv, MeetingInv, ChatInv, IInv
<1> QED
  BY <1>1, Always09, PTL
=============================================================================
