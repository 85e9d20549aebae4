------------------------------- MODULE Buffers -------------------------------
(***************************************************************************)
(* How a sequence of units is laid out over the places where it waits: the *)
(* terms in which the servers' modules say that nothing is lost, repeated  *)
(* or reordered, however reads and writes split it into buffers.           *)
(***************************************************************************)
EXTENDS Naturals, Sequences

\* Buffer b is what s has after its first a units.
StandsAt(b, s, a) == \A i \in DOMAIN b : a + i \in DOMAIN s /\ b[i] = s[a + i]

\* The buffers bufs are, one after the other, the units of s after the first
\* "from" up to and with the first "to"; at[i] is where the i-th begins.
Cuts(bufs, s, from, to) ==
  \E at \in [1 .. Len(bufs) + 1 -> 0 .. Len(s)] :
    /\ at[1] = from
    /\ at[Len(bufs) + 1] = to
    /\ \A i \in DOMAIN bufs : /\ at[i + 1] = at[i] + Len(bufs[i])
                              /\ StandsAt(bufs[i], s, at[i])

\* The units of s are, in their order and each once, those of out, then those
\* of the buffers bufs, then those of in.
Whole(s, out, bufs, in) ==
  \E read \in 0 .. Len(s) :
    /\ StandsAt(out, s, 0)
    /\ Cuts(bufs, s, Len(out), read)
    /\ StandsAt(in, s, read)
    /\ read + Len(in) = Len(s)
=============================================================================
