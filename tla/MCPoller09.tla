----------------------------- MODULE MCPoller09 -----------------------------
(* Small instances of Poller09.                                            *)
EXTENDS Poller09

CONSTANTS c1, c2, hello, finished, flight, tickets, bye, alert, junk, d1,
          killme

MCFd == {4, 5}
MCUnit == {hello, finished, flight, tickets, bye, alert, junk, d1, killme}

\* c1 says something; c2 listens, may send junk, and says goodbye.
MCSays == [c \in Conn |-> [n \in 1 .. MaxSend |->
             CASE n = 1 -> IF c = c1 THEN {hello} ELSE {hello, junk}
               [] n = 2 -> {finished}
               [] OTHER -> IF c = c1 THEN {d1} ELSE {bye}]]

\* Only c2 fails.
MCFaults == [c \in Conn |-> IF c = c2 THEN {"fin", "reset"} ELSE {}]
=============================================================================
