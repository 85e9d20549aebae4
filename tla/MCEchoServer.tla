----------------------------- MODULE MCEchoServer -----------------------------
(* Small instances of EchoServer.                                          *)
EXTENDS EchoServer

CONSTANTS c1, c2, KILLME

MCFd == {4, 5}

\* Numbered units, so that loss, repetition and reordering all show; the last
\* thing that c1 says may be KILLME.
MCUnits == 1 .. MaxSend \cup {KILLME}
MCSays == [c \in Conn |-> [n \in 1 .. MaxSend |->
             IF c = c1 /\ n = MaxSend THEN {n, KILLME} ELSE {n}]]

\* The same failures for every connection.
MCNoFaults == [c \in Conn |-> {}]
MCFaults == [c \in Conn |-> {"fin", "reset"}]
=============================================================================
