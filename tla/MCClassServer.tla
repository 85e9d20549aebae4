--------------------------- MODULE MCClassServer ---------------------------
(* Small instances of ClassServer.                                         *)
EXTENDS ClassServer

CONSTANTS c1, c2, c3

MCFd == {4, 5}

\* c1 numbers the units it sends, c2 sends one, and c3 only connects.
MCNumbers == 1 .. MaxSend
MCSays == [c \in Conn |-> [n \in 1 .. MaxSend |->
            IF c = c1 \/ (c = c2 /\ n = 1) THEN {n} ELSE {}]]

\* The same failures for every connection.
MCNoFaults == [c \in Conn |-> {}]
MCFaults == [c \in Conn |-> {"fin", "reset"}]
=============================================================================
