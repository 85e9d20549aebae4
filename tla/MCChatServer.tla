---------------------------- MODULE MCChatServer ----------------------------
(* Small instances of ChatServer.                                          *)
EXTENDS ChatServer

CONSTANTS c1, c2, c3

MCFd == {4, 5, 6}

\* Numbered units: c1 says 11 and 12, c2 says 21, and c3 only listens.
MCUnits == {11, 12, 21}
MCSays == [c \in Conn |-> [n \in 1 .. MaxSend |->
             CASE c = c1 -> {10 + n} [] c = c2 /\ n = 1 -> {21}
               [] OTHER -> {}]]

\* Only c2 leaves.
MCFaults == [c \in Conn |-> IF c = c2 THEN {"fin"} ELSE {}]
=============================================================================
