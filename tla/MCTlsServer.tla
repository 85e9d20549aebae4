---------------------------- MODULE MCTlsServer ----------------------------
(* Small instances of TlsServer.                                           *)
EXTENDS TlsServer

CONSTANTS c1, c2, hello, finished, flight, tickets, bye, alert, junk,
          d1, d2, killme

MCFd == {4, 5}
MCUnit == {hello, finished, flight, tickets, bye, alert, junk, d1, d2, killme}

\* c1 holds a conversation; c2 only comes and goes, and may send junk.
MCTalk == <<{hello}, {finished}, {d1, bye}, {d2, bye}>>
MCVisit == <<{hello, junk}, {finished}, {}, {}>>
MCSays == [c \in Conn |-> [n \in 1 .. MaxSend |->
             IF c = c1 THEN MCTalk[n] ELSE MCVisit[n]]]

\* The same failures for every connection.
MCNoFaults == [c \in Conn |-> {}]
MCFaults == [c \in Conn |-> {"fin", "reset"}]
=============================================================================
