----------------------------- MODULE TlsClient ------------------------------
(***************************************************************************)
(* The client of example 10 with or without the option --ssl.  With it the *)
(* TcpStream of the socket makes the client's side of a TLS session, and   *)
(* the server has to show a certificate that the program trusts.  A unit   *)
(* on the socket is then a record; what OpenSSL does is as in TlsServer.   *)
(* The handshake is made by the calls of read and write, so that it begins *)
(* with the first line typed: only then is there something to write.       *)
(***************************************************************************)
EXTENDS Client, Buffers

CONSTANTS Hello, Finished,   \* the program's part of the handshake
          Flight,            \* the server's, with a certificate that is trusted
          Forged,            \* the same, with one that is not
          Bye,               \* the close_notify alert
          Alert              \* a fatal alert of the program

Protocol == {Hello, Finished, Flight, Forged, Bye, Alert}
Data == Unit \ Protocol

ASSUME ClientProtocolAssumption == Protocol \subseteq Unit /\ Close \in Data

\* How TcpStream's constructors leave state_, without and with a context.
FirstStates == {"START", "HANDSHAKE"}

VARIABLES
  state,    \* TcpStream::state_
  ssl,      \* how far the SSL object is with the handshake
  stalled,  \* a record is pending in the SSL object: its write would block
  closed    \* File::close has closed the socket

tlsVars == <<state, ssl, stalled, closed>>
allVars == <<vars, tlsVars>>

Answering == {"hello", "finished"}   \* the handshake writes next

TlsClientTypeOK ==
  /\ ClientTypeOK
  /\ state \in FirstStates \cup {"DATA", "SHUTDOWN", "STOP"}
  /\ ssl \in Answering \cup {"flight", "ok", "failed"}
  /\ stalled \in BOOLEAN /\ closed \in BOOLEAN
  /\ state \in {"DATA", "SHUTDOWN", "STOP"} => ssl \in {"ok", "failed"}
  /\ state = "STOP" \/ closed => ~isOpen["socket"]

TlsInit ==
  /\ Init
  /\ state \in FirstStates
  /\ ssl = "hello"
  /\ stalled = FALSE /\ closed = FALSE
  /\ state = "HANDSHAKE" => tty   \* bound: pipes are left to plain TCP
-----------------------------------------------------------------------------
(* How a call of TcpStream::read or write ends.                            *)

\* The reads and writes of the socket's stream that TLS has a part in.
InStream ==
  /\ state # "START" /\ cur = "socket" /\ isOpen["socket"]
  /\ phase = "read" \/ CanWrite

InCall(s) == InStream /\ state = s

Back ==
  /\ phase' = IF phase = "read" THEN "deliver" ELSE "dispatch"
  /\ UNCHANGED <<cur, handlers, wq>>

\* blocked: the handler is still open.
Blocked ==
  /\ pending' = [pending EXCEPT !["socket"] = IF phase = "read" THEN @ \ {"IN"}
                                                                ELSE {}]
  /\ UNCHANGED <<rq, isOpen>>
  /\ Back

Dropped ==
  /\ isOpen' = [isOpen EXCEPT !["socket"] = FALSE]
  /\ pending' = [pending EXCEPT !["socket"] = {}]

\* eof: the socket has been marked closed.
Eof == Dropped /\ Back /\ UNCHANGED rq

\* An exception: it goes to on_error, and what was read before is dropped.
Throw ==
  /\ Dropped
  /\ phase' = "dispatch"
  /\ rq' = <<>>
  /\ UNCHANGED <<cur, handlers, wq>>

Reset == "socket" \in gone \ over
Goes == "socket" \notin gone
CanEmit == Goes /\ Room("socket") > 0
Emit(u) == output' = [output EXCEPT !["socket"] = Append(@, u)]

Received == input["socket"]
Begins(U) == Received # <<>> /\ Head(Received) \in U
TakeRecord == input' = [input EXCEPT !["socket"] = Tail(@)]
NothingThere == Received = <<>> /\ ~AtEnd("socket")

\* A record that is not the expected one, an end without close_notify, or a
\* certificate that does not verify: OpenSSL sends an alert if it can, and
\* if no record is pending.
Fatal(U) ==
  /\ stalled \/ "socket" \notin gone \cap over
  /\ ~Begins(U) /\ (Received # <<>> \/ "socket" \in over)
  /\ ssl' = "failed"
  /\ IF Received = <<>> THEN UNCHANGED input ELSE TakeRecord
  /\ IF CanEmit /\ ~stalled THEN Emit(Alert) ELSE UNCHANGED output
  /\ UNCHANGED <<tty, over, gone, given, taken, state, stalled, closed>>

\* SIGPIPE, from an alert or any other write.
Killed ==
  /\ "socket" \in gone \cap over
  /\ Exit("killed")
  /\ UNCHANGED tlsVars
-----------------------------------------------------------------------------
(* HANDSHAKE: SSL_do_handshake, and then the verification.                 *)

HandshakeWrite ==
  /\ InCall("HANDSHAKE") /\ ssl \in Answering
  /\ CanEmit
  /\ Emit(IF ssl = "hello" THEN Hello ELSE Finished)
  /\ ssl' = IF ssl = "hello" THEN "flight" ELSE "ok"
  /\ state' = IF ssl = "finished" THEN "DATA" ELSE state
  /\ UNCHANGED <<progVars, tty, input, over, gone, given, taken, stalled, closed>>

\* Mutant: the certificate is not verified.
AnyCertificate == {Flight, Forged}

\* What main lets the context trust.
Trusted == {Flight}

\* SSL_VERIFY_PEER has the handshake itself verify the certificate and its
\* host, so that what verify() asks afterwards has been answered.
Verified == Begins(Trusted)

HandshakeRead ==
  /\ InCall("HANDSHAKE") /\ ssl = "flight"
  /\ Verified
  /\ TakeRecord
  /\ ssl' = "finished"
  /\ UNCHANGED <<progVars, tty, over, output, gone, given, taken, state,
                 stalled, closed>>

\* WANT_READ or WANT_WRITE.
HandshakeBlocked ==
  /\ InCall("HANDSHAKE")
  /\ IF ssl \in Answering THEN Goes /\ Room("socket") = 0 ELSE NothingThere
  /\ Blocked
  /\ UNCHANGED <<worldVars, tlsVars>>

HandshakeFatal ==
  /\ InCall("HANDSHAKE") /\ ssl = "flight"
  /\ Fatal(Trusted)
  /\ Throw

HandshakeFault ==
  /\ InCall("HANDSHAKE")
  /\ Reset /\ (ssl = "flight" => Received = <<>>)
  /\ Throw
  /\ UNCHANGED <<worldVars, tlsVars>>

HandshakeKilled ==
  /\ InCall("HANDSHAKE")
  /\ ssl = "flight" => ~Verified
  /\ Killed
-----------------------------------------------------------------------------
(* DATA: BIO_read_ex and BIO_write_ex on the SSL BIO.                      *)

Reading == phase = "read" /\ InCall("DATA")

ReadRecord ==
  /\ Reading
  /\ Begins(Data)
  /\ TakeRecord
  /\ rq' = Append(rq, <<Head(Received)>>)
  /\ UNCHANGED <<phase, cur, pending, handlers, isOpen, wq, tty, over, output,
                 gone, given, taken, tlsVars>>

ReadWouldBlock ==
  /\ Reading /\ NothingThere
  /\ Blocked
  /\ UNCHANGED <<worldVars, tlsVars>>

\* close_notify: ZERO_RETURN starts the shutdown.
ReadBye ==
  /\ Reading
  /\ Begins({Bye})
  /\ TakeRecord
  /\ state' = "SHUTDOWN"
  /\ UNCHANGED <<progVars, tty, over, output, gone, given, taken, ssl, stalled,
                 closed>>

ReadFatal == Reading /\ Fatal(Data \cup {Bye}) /\ Eof

ReadFault ==
  /\ Reading /\ Received = <<>> /\ Reset
  /\ Eof
  /\ ssl' = "failed"
  /\ UNCHANGED <<worldVars, state, stalled, closed>>

ReadKilled == Reading /\ ~stalled /\ ~Begins(Data \cup {Bye}) /\ Killed

Sending == CanWrite /\ InCall("DATA")

\* A record of its own for each call, or the one that is pending.
WriteRecord ==
  /\ Sending
  /\ CanEmit
  /\ Emit(Head(Head(wq["socket"])))
  /\ wq' = [wq EXCEPT !["socket"] = Rest(Head(@), 1) \o Tail(@)]
  /\ stalled' = FALSE
  /\ UNCHANGED <<phase, cur, pending, handlers, isOpen, rq, tty, input, over,
                 gone, given, taken, state, ssl, closed>>

\* WANT_WRITE, which leaves the record pending, and then the write of nothing,
\* whose count is what happens to be there: zero closes the stream.
WriteWouldBlock ==
  /\ Sending
  /\ Goes /\ Room("socket") = 0
  /\ Blocked \/ Eof
  /\ stalled' = TRUE
  /\ UNCHANGED <<worldVars, state, ssl, closed>>

WriteFails ==
  /\ Sending /\ Reset
  /\ Throw
  /\ ssl' = "failed"
  /\ UNCHANGED <<worldVars, state, stalled, closed>>

WriteKilled == Sending /\ Killed
-----------------------------------------------------------------------------
(* SHUTDOWN: SSL_shutdown answers the server's close_notify.               *)

ShutdownDone ==
  /\ InCall("SHUTDOWN") /\ ~stalled
  /\ CanEmit
  /\ Emit(Bye)
  /\ state' = "STOP"
  /\ Eof
  /\ UNCHANGED <<tty, input, over, gone, given, taken, ssl, stalled, closed>>

ShutdownBlocked ==
  /\ InCall("SHUTDOWN") /\ ~stalled
  /\ Goes /\ Room("socket") = 0
  /\ Blocked
  /\ UNCHANGED <<worldVars, tlsVars>>

\* A reset; or a record that is pending, with which SSL_shutdown does nothing
\* and reports ZERO_RETURN.  What the same call of read had returned before
\* goes with the exception.
ShutdownFails ==
  /\ InCall("SHUTDOWN") /\ (stalled \/ Reset)
  /\ Throw
  /\ UNCHANGED <<worldVars, tlsVars>>

ShutdownKilled == InCall("SHUTDOWN") /\ ~stalled /\ Killed
-----------------------------------------------------------------------------

\* Destroying the stream calls SSL_shutdown once more if the stream has not
\* faulted.  main still holds the socket, unless CLOSE has closed it: with no
\* record pending the alert is tried again, where it has met a reset before.
Retries ==
  /\ "socket" \in handlers /\ ~isOpen["socket"] /\ ~closed
  /\ state = "SHUTDOWN" /\ ~stalled

TlsCleanup == RemoveClosedHandlers /\ ~Retries /\ UNCHANGED <<worldVars, tlsVars>>

CleanupKilled ==
  /\ phase = "cleanup" /\ Retries
  /\ Exit("killed")
  /\ UNCHANGED tlsVars

StreamStep ==
  \/ HandshakeWrite
  \/ HandshakeRead
  \/ HandshakeBlocked
  \/ HandshakeFatal
  \/ HandshakeFault
  \/ HandshakeKilled
  \/ ReadRecord
  \/ ReadWouldBlock
  \/ ReadBye
  \/ ReadFatal
  \/ ReadFault
  \/ ReadKilled
  \/ WriteRecord
  \/ WriteWouldBlock
  \/ WriteFails
  \/ WriteKilled
  \/ ShutdownDone
  \/ ShutdownBlocked
  \/ ShutdownFails
  \/ ShutdownKilled
  \/ CleanupKilled

\* The handler's close(), from on_read.
Closes == phase = "deliver" /\ isOpen["socket"] /\ ~isOpen'["socket"]

\* The steps that make no call of a stream with TLS.
OtherStep ==
  /\ Step /\ ~InStream
  /\ closed' = (closed \/ Closes)
  /\ UNCHANGED <<state, ssl, stalled>>

TlsStep == StreamStep \/ TlsCleanup \/ OtherStep

\* What a server says: its part of the handshake, and data until close_notify.
IsServer ==
  LET said == given["socket"]
      now == given'["socket"]
  IN  now # said =>
        IF state = "START" THEN Last(now) \in Data
        ELSE IF said = <<>>
        THEN Last(now) \in {Flight, Forged} /\ Hello \in ToSet(taken["socket"])
        ELSE /\ Last(now) \in Data \cup {Bye} /\ Bye \notin ToSet(said)
             /\ Finished \in ToSet(taken["socket"])

TlsWorld == World /\ IsServer /\ UNCHANGED tlsVars

TlsNext == TlsStep \/ TlsWorld

TlsSpec == TlsInit /\ [][TlsNext]_allVars

\* The loop runs on.
FairSpec == TlsSpec /\ WF_allVars(TlsStep)

\* What is written is read, and a server that is asked for a handshake
\* answers, or leaves.
OthersPlayTheirPart ==
  /\ \A s \in Sink : WF_allVars(Consume(s) /\ UNCHANGED <<progVars, tlsVars>>)
  /\ WF_allVars(TlsWorld /\ state = "HANDSHAKE" /\ given["socket"] = <<>>
                  /\ Arrive("socket"))
-----------------------------------------------------------------------------

\* With TLS the connection carries the program's part of the handshake, then
\* what is typed.
Opening == IF state = "START" THEN <<>> ELSE <<Hello, Finished>>

\* What is still to come of it.
Due ==
  IF state = "START" THEN <<>>
  ELSE CASE ssl = "hello" -> << <<Hello>>, <<Finished>> >>
         [] ssl \in {"flight", "finished"} -> << <<Finished>> >>
         [] OTHER -> <<>>

\* The server's part of the handshake and its close_notify, once they were
\* read: neither is printed.
Heard ==
  IF state = "START" \/ Len(input["socket"]) = Len(given["socket"]) THEN <<>>
  ELSE <<Head(given["socket"])>>

Farewell == IF state \in {"SHUTDOWN", "STOP"} THEN << <<Bye>> >> ELSE <<>>

\* Read from s and not yet given to on_read.
InHand(s) == IF phase \in Serving /\ cur = s THEN rq ELSE <<>>

Out(s) == taken[s] \o output[s]

\* A close_notify was read with a record pending.
CutShort == state = "SHUTDOWN" /\ stalled

TypedIsOnItsWay ==
  Whole(Opening \o given["stdin"], Out("socket"),
        (Due \o wq["socket"]) \o InHand("stdin"), input["stdin"])

SaidIsOnItsWay ==
  Whole(given["socket"], Heard \o Out("stdout"),
        (wq["stdout"] \o InHand("socket")) \o Farewell, input["socket"])

\* Either way, what came from a source is in exactly one place, in order, as
\* long as its sink is open and read: taken, in the sink's buffer, queued, in
\* hand or not yet read, whatever closes and ends at the other handlers, and
\* through the handshake and the retries of TLS.  With TLS there are two
\* exceptions that drop what was in hand, and nothing else does: that of a
\* reset, and that of a close_notify that comes while a record is pending.
Relayed ==
  /\ Live("socket") /\ "socket" \notin gone => TypedIsOnItsWay
  /\ Live("stdout") /\ "stdout" \notin gone
       /\ ("socket" \in gone => state = "START") /\ ~CutShort => SaidIsOnItsWay

\* Of what is typed at a terminal, the server gets neither the line CLOSE nor
\* anything after it, though it was read, queued or ready to be written.
CloseIsLast ==
  tty => \A i \in DOMAIN given["stdin"], j \in DOMAIN Out("socket") :
           given["stdin"][i] = Close /\ Out("socket")[j] \in Data
             => j < i + Len(Opening)

\* With TLS, a server without a certificate that is trusted gets nothing of
\* what is typed, whenever the handshake is made and however often it is
\* tried.
StrangersGetNothing ==
  state # "START" /\ (\E j \in DOMAIN Out("socket") : Out("socket")[j] \in Data) =>
    \E i \in DOMAIN given["socket"] : given["socket"][i] = Flight


Payload(s) == SelectSeq(s, LAMBDA u : u \in Data)

\* Each way is an echo service of its own: all that is typed reaches the
\* server as long as the connection is open, and all that the server said is
\* printed, also after it has closed or reset the connection, but for a
\* close_notify that comes while a record is pending.
Relay ==
  INSTANCE EchoService WITH
    Client <- Source, Item <- Data,
    sent <- [s \in Source |-> Payload(given[s])],
    received <- [s \in Source |-> Payload(taken[To(s)])],
    served <- {s \in Source :
                 /\ Running /\ To(s) \notin gone
                 /\ isOpen["socket"] \/ (s = "socket" /\ input[s] = <<>>)
                 /\ s = "stdin" => {Close, Bye} \cap ToSet(given["stdin"]
                                                \o given["socket"]) = {}
                 /\ s \in gone => state = "START"
                 /\ s = "socket" => ~CutShort}

RelaysBothWays ==
  Relay!ServiceSafety /\ (OthersPlayTheirPart => Relay!ServiceLiveness)
=============================================================================
