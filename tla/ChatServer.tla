----------------------------- MODULE ChatServer -----------------------------
(***************************************************************************)
(* chat-server.cpp of example 10: the Poller with an on_read that writes   *)
(* every chunk to all clients but the one it came from.  on_open and       *)
(* on_close keep the set of clients.                                       *)
(***************************************************************************)
EXTENDS Poller, Buffers, SequencesExt

VARIABLES
  clients,   \* the descriptors on_open has added and on_close not removed
  log,       \* history: every unit relayed, with the connection it is from
  joined     \* history: the length of log at each connection's on_open

chatVars == <<vars, clients, log, joined>>

ChatTypeOK ==
  /\ TypeOK
  /\ clients \in SUBSET Fd
  /\ log \in Seq([from : Conn, item : Unit])
  /\ joined \in [Conn -> Nat]

ChatInit ==
  /\ Init
  /\ clients = {}
  /\ log = <<>>
  /\ joined = [c \in Conn |-> 0]

\* on_open runs inside add_handler.
ChatAccept(f) ==
  /\ Accept(f)
  /\ clients' = clients \cup {f}
  /\ joined' = [joined EXCEPT ![Head(backlog)] = Len(log)]
  /\ UNCHANGED log

\* Mutant: on_close does not erase the client.
ForgetfulCleanup == Cleanup /\ UNCHANGED <<clients, log, joined>>

ChatCleanup ==
  /\ Cleanup
  /\ clients' = {f \in clients : ~Closed(f)}
  /\ UNCHANGED <<log, joined>>

\* Mutant: a chunk is also sent back to where it came from.
AllClients == clients

\* The clients a chunk is relayed to.
Recipients == clients \ {cur}

\* read_queue_ may hold several chunks; each is relayed in a step.
ChatOnRead ==
  /\ OnRead(Recipients, {})
  /\ log' = log \o [i \in DOMAIN Head(rq) |->
                      [from |-> handlers[cur], item |-> Head(rq)[i]]]
  /\ UNCHANGED <<clients, joined>>

ChatStep ==
  \/ QuietStep /\ UNCHANGED <<clients, log, joined>>
  \/ \E f \in Fd : ChatAccept(f)
  \/ ChatCleanup
  \/ ChatOnRead

ChatNext ==
  \/ ChatStep
  \/ Environment /\ UNCHANGED <<clients, log, joined>>

ChatSpec == ChatInit /\ [][ChatNext]_chatVars

\* The loop runs on, and a peer that is up reads what it is sent.
FairChatSpec ==
  /\ ChatSpec
  /\ WF_chatVars(ChatStep)
  /\ \A c \in Conn :
       WF_chatVars(/\ peer[c] = "up" /\ Recv(c)
                   /\ UNCHANGED <<loopVars, clients, log, joined>>)

-----------------------------------------------------------------------------

\* The program's set of clients and the Poller's map of handlers, kept apart
\* and joined only by the callbacks, name the same descriptors, so that a
\* chunk is neither kept from a client nor relayed to a reused descriptor.
ClientsAreHandlers == Running => clients = {f \in Fd : Registered(f)}

\* The server keeps one conversation: a client that joined hears, in the one
\* order of relaying, all that the others said since; it stays so until the
\* client is gone or falls behind by more than its send buffer.
Talk ==
  INSTANCE ChatService WITH
    Client <- Conn, Item <- Unit, heard <- received,
    present <- {c \in Conn : /\ Running /\ peer[c] = "up"
                             /\ \E f \in Fd : handlers[f] = c /\ isOpen[c]}

Conversation == Talk!ServiceSpec

\* Wherever it waits, write_queue_, send buffer or network.
RelayedTo(c) == Whole(Talk!Due(c), received[c] \o sndq[c], wq[c], <<>>)

\* Nothing relayed is lost, repeated or reordered on its way to a client
\* that is open.
RelayedInOrder ==
  \A f \in Fd : Live(f) /\ peer[handlers[f]] \in {"up", "fin"}
                  => RelayedTo(handlers[f])
=============================================================================
