--------------------------- MODULE MCFirstServers ---------------------------
(* Small instances of FirstServers.                                        *)
EXTENDS FirstServers

CONSTANTS c1, c2, c3

MCFd == {4, 5}

\* c1 is a client program; c2 sends ahead, and does not read; c3 connects to
\* whatever listens, and may send urgent data.
MCUnits == 1 .. MaxSend \cup {99}
MCSays == [c \in Conn |-> [n \in 1 .. MaxSend |->
            CASE c = c1 -> IF n <= 2 THEN {n} ELSE {}
              [] c = c2 -> IF n = 3 THEN {99} ELSE {n}
              [] c = c3 -> IF n = 1 THEN {n} ELSE {}]]
MCFaults == [c \in Conn |->
              CASE c = c1 -> {"fin"} [] c = c2 -> {"reset"}
                [] c = c3 -> {"abort"}]
=============================================================================
