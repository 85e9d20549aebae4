---------------------------- MODULE ChatService ----------------------------
(***************************************************************************)
(* What a chat server promises: there is one conversation, and everyone    *)
(* who joins hears all of it from there on, in the same order, except      *)
(* what he said himself.                                                   *)
(***************************************************************************)
EXTENDS Naturals, Sequences, FiniteSets

CONSTANTS Client, Item

VARIABLES
  log,       \* the conversation: who said what, in the order it was relayed
  joined,    \* how long the conversation was when each client joined
  heard,     \* what each client has received
  present    \* the clients that are owed the conversation

chatVars == <<log, joined, heard, present>>

\* The places in the log of what the others said after c joined.
Others(c) == {i \in DOMAIN log : i > joined[c] /\ log[i].from # c}

\* Place i is the n-th of them.
IsNth(c, n, i) == n = Cardinality({j \in Others(c) : j <= i})

\* What c is to hear, in the order of the log.
Due(c) ==
  [n \in 1 .. Cardinality(Others(c)) |->
     log[CHOOSE i \in Others(c) : IsNth(c, n, i)].item]

ServiceInit ==
  /\ log = <<>>
  /\ joined = [c \in Client |-> 0]
  /\ heard = [c \in Client |-> <<>>]
  /\ present = {}

\* c joins, if only to leave at once.
Join(c) ==
  /\ c \notin present /\ heard[c] = <<>>
  /\ joined' = [joined EXCEPT ![c] = Len(log)]
  /\ present' \in {present, present \cup {c}}
  /\ UNCHANGED <<log, heard>>

\* Several items of one client may be relayed at once.
Say(c) ==
  /\ Len(log') > Len(log)
  /\ SubSeq(log', 1, Len(log)) = log
  /\ \A i \in Len(log) + 1 .. Len(log') : log'[i].from = c
  /\ UNCHANGED <<joined, heard, present>>

Hear(c) ==
  /\ \E i \in Others(c) :
       /\ IsNth(c, Len(heard[c]) + 1, i)
       /\ heard' = [heard EXCEPT ![c] = Append(@, log[i].item)]
  /\ UNCHANGED <<log, joined, present>>

Leave ==
  /\ present' \in SUBSET present
  /\ UNCHANGED <<log, joined, heard>>

ServiceNext == (\E c \in Client : Join(c) \/ Say(c) \/ Hear(c)) \/ Leave

\* What the service may never do, and what it must do in the end.
ServiceSafety == ServiceInit /\ [][ServiceNext]_chatVars

ServiceSpec ==
  /\ ServiceSafety
  /\ \A c \in Client : WF_chatVars(c \in present /\ Hear(c))
=============================================================================
