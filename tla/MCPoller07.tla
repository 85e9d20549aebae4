----------------------------- MODULE MCPoller07 -----------------------------
(* Small instances of Poller07.                                            *)
EXTENDS Poller07

CONSTANTS c1, c2

MCFd == {4, 5}

\* c1 says 1, 2, ... and c2 says 11 only.
MCUnits == 1 .. MaxSend \cup {11}
MCSays == [c \in Conn |-> [n \in 1 .. MaxSend |->
             IF c = c1 THEN {n} ELSE IF n = 1 THEN {11} ELSE {}]]

\* The same failures for every connection.
MCFaults == [c \in Conn |-> FaultKinds]
=============================================================================
