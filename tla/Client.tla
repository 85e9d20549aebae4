------------------------------- MODULE Client -------------------------------
(***************************************************************************)
(* client.cpp of example 10: a Poller with one handler for the standard    *)
(* input, one for the standard output and one for the socket.              *)
(* What is typed goes to the server, what the server says is printed, and  *)
(* the line CLOSE closes the connection.  The program keeps its Files in   *)
(* main, so that removing a handler closes no descriptor.  The socket's    *)
(* stream is the plain one here; TlsClient adds that with TLS, and the     *)
(* properties of both.                                                     *)
(***************************************************************************)
EXTENDS Naturals, Sequences, SequencesExt

CONSTANTS
  Unit,       \* what is typed and said: lines, or parts of them
  Close,      \* the line CLOSE
  Says,       \* Says[s][n]: what may come from the source s as its n-th unit
  MaxSend,    \* bound: units that come from one source
  Capacity,   \* Capacity[s]: units that the buffer of the sink s holds
  ReadBuf,    \* read_bufsiz, in units
  WriteBuf    \* write_bufsiz, in units

Source == {"stdin", "socket"}
Sink == {"socket", "stdout"}
Handler == Source \cup Sink
Buf == Seq(Unit) \ {<<>>}

ASSUME CloseAssumption == Close \in Unit
ASSUME ClientSaysAssumption ==
  MaxSend \in Nat /\ Says \in [Source -> [1 .. MaxSend -> SUBSET Unit]]
ASSUME ClientBufAssumption ==
  /\ Capacity \in [Sink -> Nat \ {0}]
  /\ ReadBuf \in Nat \ {0} /\ WriteBuf \in Nat \ {0}

VARIABLES
  phase,     \* where the program is
  cur,       \* the handler whose events are being handled
  pending,   \* the events poll returned and the loop has not handled yet
  handlers,  \* handlers_
  isOpen,    \* File::is_open_ of each handler's file
  rq,        \* read_queue_ of cur, then the bufs of on_read
  wq,        \* write_queue_: what is left of each buffer
  tty,       \* the standard input is a terminal, not a pipe
  input,     \* what the kernel has for the program and it has not read
  over,      \* the sources that have ended: end of file, or FIN
  output,    \* what the program has written and nobody has taken
  gone,      \* the sinks that nobody reads: a reset, a closed pipe
  given,     \* history: all that came from each source
  taken      \* history: all that was taken from each sink

progVars == <<phase, cur, pending, handlers, isOpen, rq, wq>>
worldVars == <<tty, input, over, output, gone, given, taken>>
vars == <<progVars, worldVars>>

Serving == {"read", "deliver", "write"}
Ended == {"stopped", "killed"}
Running == phase \notin Ended

ClientTypeOK ==
  /\ phase \in {"connect", "poll", "dispatch", "cleanup"} \cup Serving \cup Ended
  /\ cur \in Handler
  /\ pending \in [Handler -> SUBSET {"IN", "OUT"}]
  /\ handlers \in SUBSET Handler
  /\ isOpen \in [Handler -> BOOLEAN]
  /\ rq \in Seq(Buf)
  /\ wq \in [Sink -> Seq(Buf)]
  /\ tty \in BOOLEAN
  /\ input \in [Source -> Seq(Unit)] /\ given \in [Source -> Seq(Unit)]
  /\ output \in [Sink -> Seq(Unit)] /\ taken \in [Sink -> Seq(Unit)]
  /\ over \in SUBSET Source /\ gone \in SUBSET Sink

NoEvents == [h \in Handler |-> {}]

Init ==
  /\ phase = "connect"
  /\ cur = "stdin"
  /\ pending = NoEvents
  /\ handlers = {}
  /\ isOpen = [h \in Handler |-> TRUE]
  /\ rq = <<>>
  /\ wq = [s \in Sink |-> <<>>]
  /\ tty \in BOOLEAN
  /\ input = [s \in Source |-> <<>>] /\ given = input
  /\ output = [s \in Sink |-> <<>>] /\ taken = output
  /\ over = {} /\ gone = {}

Exit(how) ==
  /\ phase' = how
  /\ cur' = "stdin"
  /\ pending' = NoEvents
  /\ handlers' = {}
  /\ isOpen' = [h \in Handler |-> FALSE]
  /\ rq' = <<>>
  /\ wq' = [s \in Sink |-> <<>>]
  /\ UNCHANGED worldVars
-----------------------------------------------------------------------------
(* The world: the user, the server, and the buffers of the kernel.         *)

\* What the server says after the program has given up is not seen by it.
Connected == phase # "connect" /\ isOpen["socket"] /\ "socket" \notin gone

\* Data of a source arrives.
Arrive(s) ==
  /\ s = "socket" => Connected
  /\ s \notin over /\ Len(given[s]) < MaxSend
  /\ \E u \in Says[s][Len(given[s]) + 1] :
       /\ given' = [given EXCEPT ![s] = Append(@, u)]
       /\ input' = [input EXCEPT ![s] = Append(@, u)]
  /\ UNCHANGED <<tty, over, output, gone, taken>>

Finish(s) ==
  /\ s = "socket" => Connected
  /\ s \notin over
  /\ over' = over \cup {s}
  /\ UNCHANGED <<tty, input, output, gone, given, taken>>

Consume(s) ==
  /\ s \notin gone /\ output[s] # <<>>
  /\ output' = [output EXCEPT ![s] = Tail(@)]
  /\ taken' = [taken EXCEPT ![s] = Append(@, Head(output[s]))]
  /\ UNCHANGED <<tty, input, over, gone, given>>

Vanish(s) ==
  /\ s \notin gone
  /\ s = "socket" => s \in handlers
  /\ s = "stdout" => ~tty
  /\ gone' = gone \cup {s}
  /\ output' = IF s = "socket" THEN [output EXCEPT ![s] = <<>>] ELSE output
  /\ UNCHANGED <<tty, input, over, given, taken>>

World ==
  /\ Running
  /\ \/ \E s \in Source : Arrive(s) \/ Finish(s)
     \/ \E s \in Sink : Consume(s) \/ Vanish(s)
  /\ UNCHANGED progVars

-----------------------------------------------------------------------------
(* main connects, and then lets nothing block.                             *)

Connect ==
  /\ phase = "connect"
  /\ phase' = "poll"
  /\ handlers' = Handler
  /\ UNCHANGED <<cur, pending, isOpen, rq, wq, worldVars>>

\* No address, or nobody listens: the exception ends main.
ConnectFails == phase = "connect" /\ given["socket"] = <<>> /\ Exit("stopped")

-----------------------------------------------------------------------------
(* poll and dispatch.                                                      *)

Live(h) == h \in handlers /\ isOpen[h]

AtEnd(s) ==
  /\ input[s] = <<>>
  /\ s \in over \/ (s = "socket" /\ "socket" \in gone)

\* A pipe that has ended and is empty has POLLHUP and no POLLIN.
WantsRead(s) ==
  Live(s) /\ (input[s] # <<>> \/ (AtEnd(s) /\ (s = "stdin" => tty)))

Room(s) == Capacity[s] - Len(output[s])

\* A pipe that is full stays so when its reader has gone.
WantsWrite(s) ==
  Live(s) /\ wq[s] # <<>> /\ (Room(s) > 0 \/ (s = "socket" /\ s \in gone))

Ready(h) == {e \in {"IN"} : h \in Source /\ WantsRead(h)}
              \cup {e \in {"OUT"} : h \in Sink /\ WantsWrite(h)}

\* poll waits until something can be done; its timeout changes nothing here,
\* nor does a POLLHUP that comes alone.
Poll ==
  /\ phase = "poll"
  /\ \E h \in handlers : Ready(h) # {}
  /\ pending' = [h \in Handler |-> Ready(h)]
  /\ phase' = "dispatch"
  /\ UNCHANGED <<cur, handlers, isOpen, rq, wq, worldVars>>

\* The descriptors are 0, 1 and a later one.
Before(g, h) == <<g, h>> \in {<<"stdin", "stdout">>, <<"stdin", "socket">>,
                              <<"stdout", "socket">>}

Dispatch(h) ==
  /\ phase = "dispatch"
  /\ pending[h] # {} /\ \A g \in Handler : Before(g, h) => pending[g] = {}
  /\ cur' = h
  /\ phase' = IF "IN" \in pending[h] THEN "read" ELSE "write"
  /\ UNCHANGED <<pending, handlers, isOpen, rq, wq, worldVars>>

DispatchDone ==
  /\ phase = "dispatch" /\ pending = NoEvents
  /\ phase' = "cleanup"
  /\ UNCHANGED <<cur, pending, handlers, isOpen, rq, wq, worldVars>>

-----------------------------------------------------------------------------
(* read() of FilePollHandler and of TcpSocketPollHandler: until the source *)
(* blocks or ends.                                                         *)

\* A terminal gives a line at a time.
ChunkLen == IF tty /\ cur = "stdin" THEN 1
            ELSE Min({ReadBuf, Len(input[cur])})

ReadSome ==
  /\ phase = "read" /\ isOpen[cur] /\ input[cur] # <<>>
  /\ rq' = Append(rq, SubSeq(input[cur], 1, ChunkLen))
  /\ input' = [input EXCEPT ![cur] = SubSeq(@, ChunkLen + 1, Len(@))]
  /\ UNCHANGED <<phase, cur, pending, handlers, isOpen, wq, tty, over, output,
                 gone, given, taken>>

ReadBlocked ==
  /\ phase = "read" /\ isOpen[cur] /\ input[cur] = <<>> /\ ~AtEnd(cur)
  /\ phase' = "deliver"
  /\ pending' = [pending EXCEPT ![cur] = @ \ {"IN"}]
  /\ UNCHANGED <<cur, handlers, isOpen, rq, wq, worldVars>>

ReadEnds ==
  /\ phase = "read" /\ (~isOpen[cur] \/ AtEnd(cur))
  /\ phase' = "deliver"
  /\ isOpen' = [isOpen EXCEPT ![cur] = FALSE]
  /\ pending' = [pending EXCEPT ![cur] = {}]
  /\ UNCHANGED <<cur, handlers, rq, wq, worldVars>>

-----------------------------------------------------------------------------
(* on_read.                                                                *)

To(s) == IF s = "stdin" THEN "socket" ELSE "stdout"

\* Mutant: the bytes are compared without their newline.
IsNeverClose == FALSE

IsClose == cur = "stdin" /\ Head(rq) = <<Close>>

\* Poller::write finds no handler once that of the socket is gone.
OnRead ==
  /\ phase = "deliver" /\ rq # <<>>
  /\ rq' = Tail(rq)
  /\ isOpen' = [h \in Handler |-> isOpen[h] /\ ~(h = "socket" /\ IsClose)]
  /\ wq' = [s \in Sink |->
              IF s = To(cur) /\ s \in handlers /\ ~IsClose
              THEN Append(wq[s], Head(rq)) ELSE wq[s]]
  /\ UNCHANGED <<phase, cur, pending, handlers, worldVars>>

Delivered ==
  /\ phase = "deliver" /\ rq = <<>>
  /\ phase' = IF "OUT" \in pending[cur] THEN "write" ELSE "dispatch"
  /\ UNCHANGED <<cur, pending, handlers, isOpen, rq, wq, worldVars>>

-----------------------------------------------------------------------------
(* write(): until write_queue_ is empty or the sink blocks.                *)

CanWrite == phase = "write" /\ isOpen[cur] /\ wq[cur] # <<>>

WriteReturns ==
  /\ phase' = "dispatch"
  /\ pending' = [pending EXCEPT ![cur] = {}]
  /\ UNCHANGED <<cur, handlers, rq, worldVars>>

\* Mutants: a buffer that is used up is kept, or one that is not is dropped.
RestKept(buf, n) == <<SubSeq(buf, n + 1, Len(buf))>>
RestDropped(buf, n) == <<>>

\* What is left in write_queue_ of a buffer of which n units were written.
Rest(buf, n) == IF n = Len(buf) THEN <<>> ELSE <<SubSeq(buf, n + 1, Len(buf))>>

WriteSome ==
  /\ CanWrite /\ cur \notin gone /\ Room(cur) > 0
  /\ LET buf == Head(wq[cur])
         n == Min({Len(buf), WriteBuf, Room(cur)})
     IN  /\ output' = [output EXCEPT ![cur] = @ \o SubSeq(buf, 1, n)]
         /\ wq' = [wq EXCEPT ![cur] = Rest(buf, n) \o Tail(@)]
  /\ UNCHANGED <<phase, cur, pending, handlers, isOpen, rq, tty, input, over,
                 gone, given, taken>>

\* Mutant: the stream is closed, whatever it is.
WriteBlockedEnds ==
  /\ CanWrite /\ cur \notin gone /\ Room(cur) = 0
  /\ isOpen' = [isOpen EXCEPT ![cur] = FALSE]
  /\ UNCHANGED wq
  /\ WriteReturns

\* A full pipe or terminal is left for later; the socket's stream is closed
\* by the write of nothing that follows (see WriteBlocked of Poller).
WriteBlocked ==
  /\ CanWrite /\ cur \notin gone /\ Room(cur) = 0
  /\ isOpen' = [isOpen EXCEPT ![cur] = cur # "socket"]
  /\ UNCHANGED wq
  /\ WriteReturns

\* ECONNRESET.
WriteFault ==
  /\ CanWrite /\ cur = "socket" /\ cur \in gone \ over
  /\ isOpen' = [isOpen EXCEPT ![cur] = FALSE]
  /\ UNCHANGED wq
  /\ WriteReturns

\* EPIPE, from the pipe or from a socket that was reset after its FIN.
WriteSigpipe ==
  /\ CanWrite /\ cur \in gone /\ (cur = "socket" => cur \in over)
  /\ Exit("killed")

WriteEnds ==
  /\ phase = "write" /\ (~isOpen[cur] \/ wq[cur] = <<>>)
  /\ UNCHANGED <<isOpen, wq>>
  /\ WriteReturns

-----------------------------------------------------------------------------


RemoveClosedHandlers ==
  /\ phase = "cleanup"
  /\ handlers' = {h \in handlers : isOpen[h]}
  /\ wq' = [s \in Sink |-> IF isOpen[s] THEN wq[s] ELSE <<>>]
  /\ phase' = "poll"
  /\ UNCHANGED <<cur, pending, isOpen, rq>>

\* All but RemoveClosedHandlers, which destroys streams.
Step ==
  \/ Connect
  \/ ConnectFails
  \/ Poll
  \/ \E h \in Handler : Dispatch(h)
  \/ DispatchDone
  \/ ReadSome
  \/ ReadBlocked
  \/ ReadEnds
  \/ OnRead
  \/ Delivered
  \/ WriteSome
  \/ WriteBlocked
  \/ WriteFault
  \/ WriteSigpipe
  \/ WriteEnds
=============================================================================
