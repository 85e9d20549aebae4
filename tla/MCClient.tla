------------------------------ MODULE MCClient ------------------------------
(* Small instances of TlsClient.                                           *)
EXTENDS TlsClient

CONSTANTS CLOSE, hello, finished, flight, forged, bye, alert

\* Two numbered lines are typed, either of which may be CLOSE, and the
\* server says two, or with TLS its certificate, one and close_notify; each is
\* more than the next buffer holds.
MCUnit == {1, 2, CLOSE, hello, finished, flight, forged, bye, alert}
MCSays == [s \in Source |->
             IF s = "stdin" THEN <<{1, CLOSE}, {2, CLOSE}, {}>>
                            ELSE <<{1, flight, forged}, {2, bye}, {bye}>>]
MCCapacity == [s \in Sink |-> 1]
=============================================================================
