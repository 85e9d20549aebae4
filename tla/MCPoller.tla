------------------------------ MODULE MCPoller ------------------------------
(* Small instances of Poller: what peers send carries no meaning here.     *)
EXTENDS Poller

CONSTANTS c1, c2, c3, data

\* Three connections share two descriptors, so that numbers are reused, and
\* accept runs out of them.
MCFd == {4, 5}

\* c1 speaks and leaves, c2 may vanish from the queue, and c3 stays.
MCSays == [c \in Conn |-> [n \in 1 .. MaxSend |->
             IF c = c1 THEN Unit ELSE {}]]
MCFaults == [c \in Conn |->
               CASE c = c1 -> {"fin"} [] c = c2 -> {"abort", "fin"}
                 [] c = c3 -> {}]
=============================================================================
