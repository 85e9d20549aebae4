---------------------------- MODULE EchoService ----------------------------
(***************************************************************************)
(* What an echo server promises each of its clients, with no word of       *)
(* descriptors, buffers or polling: the client receives what it has sent,  *)
(* in order and once, and all of it as long as it is served.               *)
(***************************************************************************)
EXTENDS Naturals, Sequences

CONSTANTS Client, Item

VARIABLES
  sent,       \* what each client has sent
  received,   \* what each client has got back
  served      \* the clients that are owed an answer

echoVars == <<sent, received, served>>

ServiceInit ==
  /\ sent = [c \in Client |-> <<>>]
  /\ received = [c \in Client |-> <<>>]
  /\ served = Client

Ask(c) ==
  /\ \E u \in Item : sent' = [sent EXCEPT ![c] = Append(@, u)]
  /\ served' \in {served, served \ {c}}
  /\ UNCHANGED received

Answer(c) ==
  /\ Len(received[c]) < Len(sent[c])
  /\ received' = [received EXCEPT ![c] =
                    Append(@, sent[c][Len(@) + 1])]
  /\ UNCHANGED <<sent, served>>

\* A client leaves or misbehaves, or the server ends for all of them.
Forsake ==
  /\ served' \in SUBSET served
  /\ UNCHANGED <<sent, received>>

ServiceNext == (\E c \in Client : Ask(c) \/ Answer(c)) \/ Forsake

\* What the service may never do, and what it must do in the end.
ServiceSafety == ServiceInit /\ [][ServiceNext]_echoVars

ServiceLiveness == \A c \in Client : WF_echoVars(c \in served /\ Answer(c))

ServiceSpec == ServiceSafety /\ ServiceLiveness
=============================================================================
