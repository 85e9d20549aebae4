---------------------------- MODULE BufferProofs ----------------------------
(***************************************************************************)
(* What reads, writes and queues do to the layout of a sequence of units   *)
(* over buffers, for all kinds of units: the lemmas of the proofs that     *)
(* nothing is lost.                                                        *)
(***************************************************************************)
EXTENDS Buffers, SequenceTheorems, TLAPS

Bufs(U) == Seq(U) \ {<<>>}

\* What is left of the buffers q when n units of the first have been written.
Left(q, n) ==
  IF n = Len(Head(q)) THEN Tail(q)
  ELSE <<SubSeq(Head(q), n + 1, Len(Head(q)))>> \o Tail(q)

\* Cutting a non-empty sequence after its first n elements.
LEMMA CutSeq ==
  ASSUME NEW S, NEW s \in Seq(S), NEW n \in Nat, n <= Len(s)
  PROVE  /\ SubSeq(s, 1, n) \in Seq(S)
         /\ Len(SubSeq(s, 1, n)) = n
         /\ SubSeq(s, n + 1, Len(s)) \in Seq(S)
         /\ Len(SubSeq(s, n + 1, Len(s))) = Len(s) - n
OBVIOUS

-----------------------------------------------------------------------------
(* Buffers, and the units they stand for.                                  *)

LEMMA StandsAtConcat ==
  ASSUME NEW S, NEW b \in Seq(S), NEW d \in Seq(S), NEW s \in Seq(S),
         NEW a \in Nat
  PROVE  StandsAt(b \o d, s, a)
           <=> StandsAt(b, s, a) /\ StandsAt(d, s, a + Len(b))
<1>1. /\ Len(b) \in Nat /\ Len(d) \in Nat
      /\ DOMAIN b = 1 .. Len(b) /\ DOMAIN d = 1 .. Len(d)
      /\ DOMAIN (b \o d) = 1 .. Len(b) + Len(d)
      /\ \A i \in 1 .. Len(b) : (b \o d)[i] = b[i]
      /\ \A i \in 1 .. Len(d) : (b \o d)[Len(b) + i] = d[i]
  OBVIOUS
<1>2. ASSUME StandsAt(b \o d, s, a)
      PROVE  StandsAt(b, s, a) /\ StandsAt(d, s, a + Len(b))
  <2>1. ASSUME NEW i \in DOMAIN b PROVE a + i \in DOMAIN s /\ b[i] = s[a + i]
    BY <1>1, <1>2 DEF StandsAt
  <2>2. ASSUME NEW i \in DOMAIN d
        PROVE  a + Len(b) + i \in DOMAIN s /\ d[i] = s[a + Len(b) + i]
    <3>1. Len(b) + i \in DOMAIN (b \o d) /\ a + (Len(b) + i) = a + Len(b) + i
      BY <1>1
    <3>2. /\ a + (Len(b) + i) \in DOMAIN s
          /\ (b \o d)[Len(b) + i] = s[a + (Len(b) + i)]
      BY <1>2, <3>1 DEF StandsAt
    <3> QED
      BY <1>1, <3>1, <3>2
  <2> QED
    BY <2>1, <2>2 DEF StandsAt
<1>3. ASSUME StandsAt(b, s, a), StandsAt(d, s, a + Len(b)),
             NEW i \in DOMAIN (b \o d)
      PROVE  a + i \in DOMAIN s /\ (b \o d)[i] = s[a + i]
  <2>1. CASE i <= Len(b)
    BY <1>1, <1>3, <2>1 DEF StandsAt
  <2>2. CASE i > Len(b)
    <3> DEFINE j == i - Len(b)
    <3>1. j \in DOMAIN d /\ i = Len(b) + j /\ a + Len(b) + j = a + i
      BY <1>1, <2>2
    <3> HIDE DEF j
    <3> QED
      BY <1>1, <1>3, <3>1 DEF StandsAt
  <2> QED
    BY <1>1, <2>1, <2>2
<1> QED
  BY <1>2, <1>3 DEF StandsAt

LEMMA StandsAtGrows ==
  ASSUME NEW S, NEW b \in Seq(S), NEW s \in Seq(S), NEW u \in S, NEW a \in Nat,
         StandsAt(b, s, a)
  PROVE  StandsAt(b, Append(s, u), a)
BY DEF StandsAt

\* A buffer that is cut after n units stands where it stood, in two parts.
LEMMA StandsAtCut ==
  ASSUME NEW S, NEW b \in Seq(S), NEW s \in Seq(S), NEW a \in Nat,
         StandsAt(b, s, a), NEW n \in Nat, n <= Len(b)
  PROVE  /\ StandsAt(SubSeq(b, 1, n), s, a)
         /\ StandsAt(SubSeq(b, n + 1, Len(b)), s, a + n)
<1>1. /\ Len(b) \in Nat /\ DOMAIN b = 1 .. Len(b)
      /\ DOMAIN SubSeq(b, 1, n) = 1 .. n
      /\ \A i \in 1 .. n : SubSeq(b, 1, n)[i] = b[i]
      /\ DOMAIN SubSeq(b, n + 1, Len(b)) = 1 .. Len(b) - n
      /\ \A i \in 1 .. Len(b) - n : SubSeq(b, n + 1, Len(b))[i] = b[n + i]
  OBVIOUS
<1>2. \A i \in 1 .. Len(b) : a + i \in DOMAIN s /\ b[i] = s[a + i]
  BY <1>1 DEF StandsAt
<1>3. StandsAt(SubSeq(b, 1, n), s, a)
  BY <1>1, <1>2 DEF StandsAt
<1>4. ASSUME NEW i \in 1 .. Len(b) - n
      PROVE  a + n + i \in DOMAIN s /\ b[n + i] = s[a + n + i]
  <2>1. n + i \in 1 .. Len(b) /\ a + (n + i) = a + n + i
    BY <1>1
  <2> QED
    BY <1>2, <2>1
<1> QED
  BY <1>1, <1>3, <1>4 DEF StandsAt

\* A buffer that stands somewhere fits there.
LEMMA StandsAtFits ==
  ASSUME NEW S, NEW b \in Seq(S), NEW s \in Seq(S), NEW a \in 0 .. Len(s),
         StandsAt(b, s, a)
  PROVE  a + Len(b) \in 0 .. Len(s)
<1>1. CASE b = <<>>
  BY <1>1
<1>2. CASE b # <<>>
  <2>1. Len(b) \in DOMAIN b /\ Len(b) \in Nat
    BY <1>2
  <2> QED
    BY <2>1 DEF StandsAt
<1> QED
  BY <1>1, <1>2

LEMMA CutsNone ==
  ASSUME NEW U, NEW s \in Seq(U), NEW a \in 0 .. Len(s)
  PROVE  Cuts(<<>>, s, a, a)
<1> DEFINE at == [i \in 1 .. 1 |-> a]
<1>1. /\ at \in [1 .. Len(<<>>) + 1 -> 0 .. Len(s)]
      /\ at[1] = a /\ at[Len(<<>>) + 1] = a
      /\ DOMAIN <<>> = {}
  OBVIOUS
<1> HIDE DEF at
<1> QED
  BY <1>1 DEF Cuts

\* A buffer that stands where the others end is the next of them.
LEMMA CutsAppend ==
  ASSUME NEW U, NEW q \in Seq(Bufs(U)), NEW s \in Seq(U), NEW a \in Nat,
         NEW z \in Nat,
         Cuts(q, s, a, z), NEW b \in Bufs(U), StandsAt(b, s, z)
  PROVE  /\ z + Len(b) \in 0 .. Len(s)
         /\ Cuts(Append(q, b), s, a, z + Len(b))
<1>1. PICK at \in [1 .. Len(q) + 1 -> 0 .. Len(s)] :
        /\ at[1] = a /\ at[Len(q) + 1] = z
        /\ \A i \in DOMAIN q : /\ at[i + 1] = at[i] + Len(q[i])
                               /\ StandsAt(q[i], s, at[i])
  BY DEF Cuts
<1>2. Len(q) \in Nat /\ DOMAIN q = 1 .. Len(q) /\ Len(s) \in Nat
  OBVIOUS
<1>3. z \in 0 .. Len(s)
  BY <1>1, <1>2
<1>4. z + Len(b) \in 0 .. Len(s)
  BY <1>3, StandsAtFits DEF Bufs
<1> DEFINE on == [i \in 1 .. Len(q) + 2 |->
                   IF i = Len(q) + 2 THEN z + Len(b) ELSE at[i]]
<1>5. /\ Len(Append(q, b)) = Len(q) + 1
      /\ DOMAIN Append(q, b) = 1 .. Len(q) + 1
      /\ \A i \in 1 .. Len(q) : Append(q, b)[i] = q[i]
      /\ Append(q, b)[Len(q) + 1] = b
  OBVIOUS
<1>6. on \in [1 .. Len(q) + 2 -> 0 .. Len(s)]
  BY <1>1, <1>2, <1>4
<1>7. /\ \A i \in 1 .. Len(q) + 1 : on[i] = at[i]
      /\ on[Len(q) + 2] = z + Len(b)
  BY <1>2
<1> HIDE DEF on
<1>8. ASSUME NEW i \in 1 .. Len(q) + 1
      PROVE  /\ on[i + 1] = on[i] + Len(Append(q, b)[i])
             /\ StandsAt(Append(q, b)[i], s, on[i])
  <2>1. CASE i \in 1 .. Len(q)
    <3>1. /\ i + 1 \in 1 .. Len(q) + 1 /\ i \in 1 .. Len(q) + 1
      BY <1>2, <2>1
    <3>2. on[i + 1] = at[i + 1] /\ on[i] = at[i] /\ Append(q, b)[i] = q[i]
      BY <1>5, <1>7, <2>1, <3>1
    <3> QED
      BY <1>1, <1>2, <2>1, <3>2
  <2>2. CASE i = Len(q) + 1
    BY <1>1, <1>2, <1>5, <1>7, <2>2
  <2> QED
    BY <1>2, <2>1, <2>2
<1>9. on[1] = a /\ on[Len(Append(q, b)) + 1] = z + Len(b)
  BY <1>1, <1>2, <1>5, <1>7
<1>10. on \in [1 .. Len(Append(q, b)) + 1 -> 0 .. Len(s)]
  BY <1>2, <1>5, <1>6
<1>11. Cuts(Append(q, b), s, a, z + Len(b))
  BY <1>5, <1>8, <1>9, <1>10 DEF Cuts
<1> QED
  BY <1>4, <1>11

LEMMA CutsGrow ==
  ASSUME NEW U, NEW q \in Seq(Bufs(U)), NEW s \in Seq(U), NEW a \in Nat,
         NEW z \in Nat,
         Cuts(q, s, a, z), NEW u \in U
  PROVE  Cuts(q, Append(s, u), a, z)
<1>1. PICK at \in [1 .. Len(q) + 1 -> 0 .. Len(s)] :
        /\ at[1] = a /\ at[Len(q) + 1] = z
        /\ \A i \in DOMAIN q : /\ at[i + 1] = at[i] + Len(q[i])
                               /\ StandsAt(q[i], s, at[i])
  BY DEF Cuts
<1>2. at \in [1 .. Len(q) + 1 -> 0 .. Len(Append(s, u))]
  BY <1>1
<1>3. ASSUME NEW i \in DOMAIN q PROVE StandsAt(q[i], Append(s, u), at[i])
  <2>1. i \in 1 .. Len(q) + 1 /\ q[i] \in Seq(U)
    BY DEF Bufs
  <2> QED
    BY <1>1, <2>1, StandsAtGrows
<1> QED
  BY <1>1, <1>2, <1>3 DEF Cuts

\* A non-empty queue begins with units that are still to come.
LEMMA CutsHead ==
  ASSUME NEW U, NEW q \in Seq(Bufs(U)), q # <<>>,
         NEW s \in Seq(U), NEW a \in Nat,
         NEW z \in Nat, Cuts(q, s, a, z)
  PROVE  StandsAt(Head(q), s, a) /\ a < Len(s)
<1>1. StandsAt(q[1], s, a) /\ q[1] = Head(q) /\ q[1] \in Bufs(U)
  <2>1. 1 \in DOMAIN q /\ q[1] = Head(q)
    OBVIOUS
  <2>2. q[1] \in Bufs(U)
    BY <2>1
  <2>3. PICK at \in [1 .. Len(q) + 1 -> 0 .. Len(s)] :
          at[1] = a /\ \A i \in DOMAIN q : StandsAt(q[i], s, at[i])
    BY DEF Cuts
  <2> QED
    BY <2>1, <2>2, <2>3
<1>2. 1 \in DOMAIN q[1]
  BY <1>1 DEF Bufs
<1>3. a + 1 \in DOMAIN s
  BY <1>1, <1>2 DEF StandsAt
<1> QED
  BY <1>1, <1>3

\* A write takes its units from the front and leaves the rest where it was.
LEMMA CutsWritten ==
  ASSUME NEW U, NEW q \in Seq(Bufs(U)), q # <<>>,
         NEW s \in Seq(U), NEW a \in Nat,
         NEW z \in Nat, Cuts(q, s, a, z), NEW n \in Nat, n <= Len(Head(q))
  PROVE  Cuts(Left(q, n), s, a + n, z)
<1>1. PICK at \in [1 .. Len(q) + 1 -> 0 .. Len(s)] :
        /\ at[1] = a /\ at[Len(q) + 1] = z
        /\ \A i \in DOMAIN q : /\ at[i + 1] = at[i] + Len(q[i])
                               /\ StandsAt(q[i], s, at[i])
  BY DEF Cuts
<1> DEFINE L == Len(q)
<1>2. /\ L \in Nat /\ L >= 1 /\ DOMAIN q = 1 .. L /\ Len(s) \in Nat
      /\ Head(q) = q[1] /\ Head(q) \in Seq(U) /\ Len(Head(q)) \in Nat
      /\ Tail(q) \in Seq(Bufs(U)) /\ Len(Tail(q)) = L - 1
      /\ \A i \in 1 .. L - 1 : Tail(q)[i] = q[i + 1]
  BY DEF Bufs
<1>3. at[2] = a + Len(Head(q)) /\ StandsAt(Head(q), s, a) /\ at[2] \in 0 .. Len(s)
  <2>1. 1 \in DOMAIN q /\ 2 \in 1 .. Len(q) + 1
    BY <1>2
  <2>2. at[1 + 1] = at[1] + Len(q[1]) /\ StandsAt(q[1], s, at[1])
    BY <1>1, <2>1
  <2> QED
    BY <1>1, <1>2, <2>1, <2>2
<1> HIDE DEF L
<1>4. CASE n = Len(Head(q))
  <2> DEFINE on == [i \in 1 .. L |-> at[i + 1]]
  <2>1. on \in [1 .. L -> 0 .. Len(s)]
    BY <1>1, <1>2 DEF L
  <2>2. \A i \in 1 .. L : on[i] = at[i + 1]
    OBVIOUS
  <2> HIDE DEF on
  <2>3. on[1] = a + n /\ on[L] = z
    <3>1. on[1] = at[1 + 1] /\ on[L] = at[L + 1]
      BY <1>2, <2>2
    <3> QED
      BY <1>1, <1>3, <1>4, <3>1 DEF L
  <2>4. ASSUME NEW i \in 1 .. L - 1
        PROVE  /\ on[i + 1] = on[i] + Len(Tail(q)[i])
               /\ StandsAt(Tail(q)[i], s, on[i])
    <3>1. i \in 1 .. L /\ i + 1 \in 1 .. L
      BY <1>2
    <3>2. /\ at[(i + 1) + 1] = at[i + 1] + Len(q[i + 1])
          /\ StandsAt(q[i + 1], s, at[i + 1])
      BY <1>1, <1>2, <3>1
    <3> QED
      BY <1>2, <2>2, <3>1, <3>2
  <2>5. /\ on \in [1 .. Len(Tail(q)) + 1 -> 0 .. Len(s)]
        /\ on[Len(Tail(q)) + 1] = z
        /\ DOMAIN Tail(q) = 1 .. L - 1
    BY <1>2, <2>1, <2>3
  <2>6. Cuts(Tail(q), s, a + n, z)
    BY <2>3, <2>4, <2>5 DEF Cuts
  <2> QED
    BY <1>4, <2>6 DEF Left
<1>5. CASE n # Len(Head(q))
  <2> DEFINE rest == SubSeq(Head(q), n + 1, Len(Head(q)))
             w == <<rest>> \o Tail(q)
             on == [at EXCEPT ![1] = a + n]
  <2>1. StandsAt(rest, s, a + n)
    BY <1>2, <1>3, StandsAtCut
  <2>2. rest \in Seq(U) /\ Len(rest) = Len(Head(q)) - n
    BY <1>2, CutSeq
  <2> HIDE DEF rest
  <2>3. /\ Len(w) = L /\ DOMAIN w = 1 .. L /\ w[1] = rest
        /\ \A i \in 2 .. L : w[i] = q[i]
    <3>1. <<rest>> \in Seq(Seq(U)) /\ Tail(q) \in Seq(Seq(U))
      BY <1>2, <2>2 DEF Bufs
    <3>2. /\ Len(w) = 1 + Len(Tail(q)) /\ DOMAIN w = 1 .. Len(w)
          /\ w[1] = rest
          /\ \A j \in 1 .. Len(Tail(q)) : w[1 + j] = Tail(q)[j]
      <4>1. ASSUME NEW S, NEW r \in S, NEW t \in Seq(S)
            PROVE  /\ Len(<<r>> \o t) = 1 + Len(t)
                   /\ DOMAIN (<<r>> \o t) = 1 .. Len(<<r>> \o t)
                   /\ (<<r>> \o t)[1] = r
                   /\ \A j \in 1 .. Len(t) : (<<r>> \o t)[1 + j] = t[j]
        OBVIOUS
      <4> QED
        BY <2>2, <3>1, <4>1, SMTT(30)
    <3>3. ASSUME NEW i \in 2 .. L PROVE w[i] = q[i]
      <4> DEFINE j == i - 1
      <4>1. j \in 1 .. L - 1 /\ i = 1 + j /\ i = j + 1
        BY <1>2
      <4> HIDE DEF j, w
      <4> QED
        BY <1>2, <3>2, <4>1
    <3> HIDE DEF w
    <3> QED
      BY <1>2, <3>2, <3>3
  <2> HIDE DEF w
  <2>4. a + n \in 0 .. Len(s)
    BY <1>2, <1>3
  <2>5. /\ on \in [1 .. L + 1 -> 0 .. Len(s)] /\ on[1] = a + n
        /\ \A i \in 2 .. L + 1 : on[i] = at[i]
    BY <1>1, <1>2, <2>4 DEF L
  <2> HIDE DEF on
  <2>6. ASSUME NEW i \in 1 .. L
        PROVE  on[i + 1] = on[i] + Len(w[i]) /\ StandsAt(w[i], s, on[i])
    <3>1. CASE i = 1
      <4>1. on[i + 1] = at[2] /\ on[i] = a + n /\ w[i] = rest
        BY <1>2, <2>3, <2>5, <3>1
      <4>2. a + Len(Head(q)) = (a + n) + Len(rest)
        BY <1>2, <2>2
      <4> QED
        BY <1>3, <2>1, <4>1, <4>2
    <3>2. CASE i \in 2 .. L
      <4>1. i \in DOMAIN q /\ i \in 2 .. L + 1 /\ i + 1 \in 2 .. L + 1
        BY <1>2, <3>2
      <4>2. on[i + 1] = at[i + 1] /\ on[i] = at[i] /\ w[i] = q[i]
        BY <2>3, <2>5, <3>2, <4>1
      <4> QED
        BY <1>1, <4>1, <4>2
    <3> QED
      BY <1>2, <3>1, <3>2
  <2>7. on[L + 1] = z
    BY <1>1, <1>2, <2>5 DEF L
  <2>8. Cuts(w, s, a + n, z)
    BY <2>3, <2>5, <2>6, <2>7 DEF Cuts
  <2> QED
    BY <1>5, <2>8 DEF Left, w, rest
<1> QED
  BY <1>4, <1>5

-----------------------------------------------------------------------------
(* All that was sent, on its way round.                                    *)

\* The first of a queue goes to the end of the one before it.
LEMMA ShiftConcat ==
  ASSUME NEW S
  PROVE  \A r, q \in Seq(S) :
           q # <<>> => Append(r, Head(q)) \o Tail(q) = r \o q
<1> SUFFICES ASSUME NEW r \in Seq(S), NEW q \in Seq(S), q # <<>>
             PROVE  Append(r, Head(q)) \o Tail(q) = r \o q
  OBVIOUS
<1>1. Head(q) \in S /\ Tail(q) \in Seq(S) /\ <<Head(q)>> \in Seq(S)
  BY HeadTailProperties
<1>2. <<Head(q)>> \o Tail(q) = q
  OBVIOUS
<1>3. Append(r, Head(q)) = r \o <<Head(q)>>
  BY <1>1, AppendIsConcat
<1>4. (r \o <<Head(q)>>) \o Tail(q) = r \o (<<Head(q)>> \o Tail(q))
  BY <1>1, ConcatAssociative
<1> QED
  BY <1>2, <1>3, <1>4

LEMMA ConcatAppend ==
  ASSUME NEW S
  PROVE  \A r, q \in Seq(S) : \A e \in S :
           r \o Append(q, e) = Append(r \o q, e)
OBVIOUS

LEMMA AppendToFew ==
  ASSUME NEW S, NEW a \in S, NEW b \in S
  PROVE  Append(<<>>, a) = <<a>> /\ Append(<<a>>, b) = <<a, b>>
<1> DEFINE none == <<>>
           one == <<a>>
           two == <<a, b>>
<1>1. /\ none \in Seq(S) /\ Len(none) = 0
      /\ one \in Seq(S) /\ Len(one) = 1 /\ one[1] = a
      /\ two \in Seq(S) /\ Len(two) = 2 /\ two[1] = a /\ two[2] = b
  OBVIOUS
<1> HIDE DEF none, one, two
<1>2. Append(none, a) = one
  BY <1>1, AppendProperties, SeqEqual
<1>3. ASSUME NEW q \in Seq(S), Len(q) = 1, q[1] = a,
             NEW r \in Seq(S), Len(r) = 2, r[1] = a, r[2] = b
      PROVE  Append(q, b) = r
  <2> DEFINE x == Append(q, b)
  <2>4. /\ x \in Seq(S) /\ Len(x) = Len(q) + 1 /\ x[Len(q) + 1] = b
        /\ \A i \in 1 .. Len(q) : x[i] = q[i]
    BY AppendProperties
  <2> HIDE DEF x
  <2>1. x \in Seq(S) /\ Len(x) = 2
    BY <1>3, <2>4
  <2>2. x[1] = a /\ x[2] = b
    BY <1>3, <2>4
  <2>3. ASSUME NEW i \in 1 .. Len(r) PROVE x[i] = r[i]
    <3>1. i = 1 \/ i = 2
      BY <1>3
    <3> QED
      BY <1>3, <2>2, <3>1
  <2> QED
    BY <1>3, <2>1, <2>3, SeqEqual DEF x
<1>4. Append(one, b) = two
  BY <1>1, <1>3
<1> QED
  BY <1>2, <1>4 DEF none, one, two

\* Before anything has been read.
LEMMA FreshWhole ==
  ASSUME NEW U, NEW s \in Seq(U)
  PROVE  Whole(s, <<>> \o <<>>, <<>> \o <<>>, s)
<1>1. <<>> \o <<>> = <<>> /\ 0 \in 0 .. Len(s) /\ 0 + Len(s) = Len(s) /\ Len(<<>>) = 0
  OBVIOUS
<1>2. StandsAt(<<>>, s, 0) /\ StandsAt(s, s, 0)
  BY DEF StandsAt
<1>3. Cuts(<<>>, s, 0, 0)
  BY <1>1, CutsNone
<1> QED
  BY <1>1, <1>2, <1>3 DEF Whole

LEMMA SentWhole ==
  ASSUME NEW U, NEW s \in Seq(U), NEW out \in Seq(U),
         NEW bufs \in Seq(Bufs(U)),
         NEW in \in Seq(U), Whole(s, out, bufs, in), NEW u \in U
  PROVE  Whole(Append(s, u), out, bufs, Append(in, u))
<1>1. PICK z \in 0 .. Len(s) :
        /\ StandsAt(out, s, 0) /\ Cuts(bufs, s, Len(out), z)
        /\ StandsAt(in, s, z) /\ z + Len(in) = Len(s)
  BY DEF Whole
<1>2. /\ Len(s) \in Nat /\ Len(in) \in Nat /\ Len(out) \in Nat /\ z \in Nat
      /\ Append(s, u) \in Seq(U) /\ Len(Append(s, u)) = Len(s) + 1
      /\ Len(Append(in, u)) = Len(in) + 1
  OBVIOUS
<1>3. StandsAt(out, Append(s, u), 0) /\ StandsAt(in, Append(s, u), z)
  BY <1>1, <1>2, StandsAtGrows
<1>4. Cuts(bufs, Append(s, u), Len(out), z)
  BY <1>1, <1>2, CutsGrow
<1>5. StandsAt(Append(in, u), Append(s, u), z)
  <2>1. ASSUME NEW i \in 1 .. Len(in) + 1
        PROVE  z + i \in DOMAIN Append(s, u)
               /\ Append(in, u)[i] = Append(s, u)[z + i]
    <3>1. CASE i \in 1 .. Len(in)
      BY <1>2, <1>3, <3>1 DEF StandsAt
    <3>2. CASE i = Len(in) + 1
      <4>1. z + i = Len(s) + 1
        BY <1>1, <1>2, <3>2
      <4>2. /\ Len(s) + 1 \in DOMAIN Append(s, u)
            /\ Append(s, u)[Len(s) + 1] = u
        BY AppendProperties, LenProperties
      <4>3. Append(in, u)[i] = u
        BY <3>2, AppendProperties
      <4> QED
        BY <4>1, <4>2, <4>3
    <3>3. i \in 1 .. Len(in) \/ i = Len(in) + 1
      BY <1>2
    <3> QED
      BY <3>1, <3>2, <3>3
  <2>2. DOMAIN Append(in, u) = 1 .. Len(in) + 1
    BY <1>2, AppendProperties, LenProperties
  <2> QED
    BY <2>1, <2>2 DEF StandsAt
<1>6. z \in 0 .. Len(Append(s, u)) /\ z + Len(Append(in, u)) = Len(Append(s, u))
  BY <1>1, <1>2
<1> QED
  BY <1>3, <1>4, <1>5, <1>6 DEF Whole

LEMMA ReadWhole ==
  ASSUME NEW U, NEW s \in Seq(U), NEW out \in Seq(U),
         NEW bufs \in Seq(Bufs(U)),
         NEW in \in Seq(U), Whole(s, out, bufs, in), NEW n \in 1 .. Len(in)
  PROVE  Whole(s, out, Append(bufs, SubSeq(in, 1, n)), SubSeq(in, n + 1, Len(in)))
<1> DEFINE b == SubSeq(in, 1, n)
           rest == SubSeq(in, n + 1, Len(in))
<1>1. PICK z \in 0 .. Len(s) :
        /\ StandsAt(out, s, 0) /\ Cuts(bufs, s, Len(out), z)
        /\ StandsAt(in, s, z) /\ z + Len(in) = Len(s)
  BY DEF Whole
<1>2. n \in Nat /\ n <= Len(in) /\ z \in Nat /\ Len(out) \in Nat /\ Len(in) \in Nat
  OBVIOUS
<1>3. /\ b \in Seq(U) /\ Len(b) = n /\ rest \in Seq(U)
      /\ Len(rest) = Len(in) - n
  BY <1>2, CutSeq
<1>4. StandsAt(b, s, z) /\ StandsAt(rest, s, z + n)
  BY <1>1, <1>2, StandsAtCut
<1> HIDE DEF b, rest
<1>5. b \in Bufs(U)
  BY <1>3 DEF Bufs
<1>6. z + n \in 0 .. Len(s) /\ Cuts(Append(bufs, b), s, Len(out), z + n)
  BY <1>1, <1>2, <1>3, <1>4, <1>5, CutsAppend
<1>7. (z + n) + Len(rest) = Len(s)
  <2>1. \A x, y, m, l \in Nat : x + y = l /\ m <= y => (x + m) + (y - m) = l
    OBVIOUS
  <2>2. Len(s) \in Nat /\ z + Len(in) = Len(s)
    BY <1>1, LenProperties
  <2>3. (z + n) + (Len(in) - n) = Len(s)
    BY <1>2, <2>1, <2>2
  <2> QED
    BY <1>3, <2>3
<1>8. Whole(s, out, Append(bufs, b), rest)
  BY <1>1, <1>4, <1>6, <1>7 DEF Whole
<1> QED
  BY <1>8 DEF b, rest

LEMMA WrittenWhole ==
  ASSUME NEW U, NEW s \in Seq(U), NEW out \in Seq(U),
         NEW bufs \in Seq(Bufs(U)),
         bufs # <<>>, NEW in \in Seq(U), Whole(s, out, bufs, in),
         NEW n \in Nat, n <= Len(Head(bufs))
  PROVE  Whole(s, out \o SubSeq(Head(bufs), 1, n), Left(bufs, n), in)
<1> DEFINE b == SubSeq(Head(bufs), 1, n)
<1>1. PICK z \in 0 .. Len(s) :
        /\ StandsAt(out, s, 0) /\ Cuts(bufs, s, Len(out), z)
        /\ StandsAt(in, s, z) /\ z + Len(in) = Len(s)
  BY DEF Whole
<1>2. z \in Nat /\ Len(out) \in Nat /\ Head(bufs) \in Seq(U)
  BY DEF Bufs
<1>3. b \in Seq(U) /\ Len(b) = n
  BY <1>2, CutSeq
<1>4. StandsAt(Head(bufs), s, Len(out))
  BY <1>1, <1>2, CutsHead
<1>5. StandsAt(b, s, Len(out))
  BY <1>2, <1>4, StandsAtCut
<1>6. Cuts(Left(bufs, n), s, Len(out) + n, z)
  BY <1>1, <1>2, CutsWritten
<1> HIDE DEF b
<1>7. 0 + Len(out) = Len(out) /\ Len(out \o b) = Len(out) + n
  <2>1. Len(out \o b) = Len(out) + Len(b)
    BY <1>3, ConcatProperties
  <2> QED
    BY <1>2, <1>3, <2>1
<1>8. StandsAt(out \o b, s, 0)
  BY <1>1, <1>3, <1>5, <1>7, StandsAtConcat
<1>9. Whole(s, out \o b, Left(bufs, n), in)
  BY <1>1, <1>6, <1>7, <1>8 DEF Whole
<1> QED
  BY <1>9 DEF b

LEMMA FirstOf ==
  ASSUME NEW S, NEW s \in Seq(S), 1 \in 1 .. Len(s)
  PROVE  SubSeq(s, 1, 1) = <<s[1]>>
<1> DEFINE a == SubSeq(s, 1, 1)
           b == <<s[1]>>
<1>1. s[1] \in S /\ \A i \in 1 .. 1 : s[i] \in S
  OBVIOUS
<1>2. a \in Seq(S) /\ Len(a) = 1 /\ a[1] = s[1]
  BY <1>1, SubSeqProperties
<1>3. b \in Seq(S) /\ Len(b) = 1 /\ b[1] = s[1]
  BY <1>1
<1> HIDE DEF a, b
<1>4. a = b
  BY <1>2, <1>3, SeqEqual
<1> QED
  BY <1>4 DEF a, b

\* The first of what is to be read joins what is held.
LEMMA TakeWhole ==
  ASSUME NEW U, NEW s \in Seq(U), NEW out \in Seq(U),
         NEW bufs \in Seq(Bufs(U)),
         NEW in \in Seq(U), Whole(s, out, bufs, in), in # <<>>
  PROVE  Whole(s, out, Append(bufs, <<Head(in)>>), Tail(in))
<1>1. SubSeq(in, 1 + 1, Len(in)) = Tail(in)
  BY TailIsSubSeq
<1>2. 1 \in 1 .. Len(in) /\ Head(in) = in[1]
  OBVIOUS
<1>4. SubSeq(in, 1, 1) = <<Head(in)>>
  BY <1>2, FirstOf
<1>3. Whole(s, out, Append(bufs, SubSeq(in, 1, 1)), SubSeq(in, 1 + 1, Len(in)))
  BY <1>2, ReadWhole
<1> QED
  BY <1>1, <1>3, <1>4

\* The first of what is held, a single record, goes out.
LEMMA GiveWhole ==
  ASSUME NEW U, NEW s \in Seq(U), NEW out \in Seq(U),
         NEW bufs \in Seq(Bufs(U)),
         NEW in \in Seq(U), Whole(s, out, bufs, in), bufs # <<>>,
         NEW u \in U, Head(bufs) = <<u>>
  PROVE  Whole(s, Append(out, u), Tail(bufs), in)
<1> DEFINE one == <<u>>
<1>0. one \in Seq(U) /\ Len(one) = 1 /\ one[1] = u
  OBVIOUS
<1> HIDE DEF one
<1>1. Head(bufs) = one
  BY DEF one
<1>2. Whole(s, out \o <<u>>, Left(bufs, 1), in)
  <2>0. \A k : k = 1 => 1 \in 1 .. k /\ 1 <= k /\ 1 \in Nat
    OBVIOUS
  <2>1. 1 \in Nat /\ 1 <= Len(Head(bufs)) /\ 1 \in 1 .. Len(one)
    BY <1>0, <1>1, <2>0, Zenon
  <2>2. Whole(s, out \o SubSeq(Head(bufs), 1, 1), Left(bufs, 1), in)
    BY <2>1, WrittenWhole
  <2>3. SubSeq(one, 1, 1) = <<one[1]>>
    BY <1>0, <2>1, FirstOf
  <2>4. SubSeq(Head(bufs), 1, 1) = <<u>>
    BY <1>0, <1>1, <2>3
  <2> QED
    BY <2>2, <2>4
<1>3. Left(bufs, 1) = Tail(bufs)
  BY <1>0, <1>1 DEF Left
<1>4. out \o <<u>> = Append(out, u)
  BY AppendIsConcat
<1> QED
  BY <1>2, <1>3, <1>4

\* What is in a buffer has been sent.
LEMMA WholeHolds ==
  ASSUME NEW s, NEW out, NEW bufs, NEW in, Whole(s, out, bufs, in),
         NEW i \in DOMAIN bufs, NEW j \in DOMAIN bufs[i]
  PROVE  \E k \in DOMAIN s : s[k] = bufs[i][j]
BY DEF Whole, Cuts, StandsAt

-----------------------------------------------------------------------------
(* What is to be sent grows by a whole buffer, which is queued.            *)

LEMMA StandsAtMore ==
  ASSUME NEW S, NEW b \in Seq(S), NEW s \in Seq(S), NEW d \in Seq(S),
         NEW a \in Nat, StandsAt(b, s, a)
  PROVE  StandsAt(b, s \o d, a)
<1>1. \A i \in DOMAIN s : i \in DOMAIN (s \o d) /\ (s \o d)[i] = s[i]
  OBVIOUS
<1> QED
  BY <1>1 DEF StandsAt

LEMMA CutsMore ==
  ASSUME NEW U, NEW q \in Seq(Bufs(U)), NEW s \in Seq(U), NEW a \in Nat,
         NEW z \in Nat,
         Cuts(q, s, a, z), NEW d \in Seq(U)
  PROVE  Cuts(q, s \o d, a, z)
<1>1. PICK at \in [1 .. Len(q) + 1 -> 0 .. Len(s)] :
        /\ at[1] = a /\ at[Len(q) + 1] = z
        /\ \A i \in DOMAIN q : /\ at[i + 1] = at[i] + Len(q[i])
                               /\ StandsAt(q[i], s, at[i])
  BY DEF Cuts
<1>2. /\ Len(s \o d) = Len(s) + Len(d) /\ Len(s) \in Nat /\ Len(d) \in Nat
      /\ s \o d \in Seq(U)
  OBVIOUS
<1>3. at \in [1 .. Len(q) + 1 -> 0 .. Len(s \o d)]
  BY <1>1, <1>2
<1>4. ASSUME NEW i \in DOMAIN q PROVE StandsAt(q[i], s \o d, at[i])
  <2>1. i \in 1 .. Len(q) + 1 /\ q[i] \in Seq(U)
    BY DEF Bufs
  <2>2. at[i] \in Nat /\ StandsAt(q[i], s, at[i])
    BY <1>1, <2>1
  <2> QED
    BY <2>1, <2>2, StandsAtMore
<1> QED
  BY <1>1, <1>3, <1>4 DEF Cuts

LEMMA MoreWhole ==
  ASSUME NEW U, NEW s \in Seq(U), NEW out \in Seq(U),
         NEW bufs \in Seq(Bufs(U)),
         Whole(s, out, bufs, <<>>), NEW b \in Bufs(U)
  PROVE  Whole(s \o b, out, Append(bufs, b), <<>>)
<1>1. b \in Seq(U)
  BY DEF Bufs
<1>2. /\ s \o b \in Seq(U) /\ Len(s \o b) = Len(s) + Len(b)
      /\ Len(s) \in Nat /\ Len(b) \in Nat /\ Len(out) \in Nat
      /\ Len(<<>>) = 0 /\ DOMAIN <<>> = {}
  BY <1>1
<1>3. StandsAt(out, s, 0) /\ Cuts(bufs, s, Len(out), Len(s))
  <2>1. PICK z \in 0 .. Len(s) :
          /\ StandsAt(out, s, 0) /\ Cuts(bufs, s, Len(out), z)
          /\ z + Len(<<>>) = Len(s)
    BY DEF Whole
  <2>2. z = Len(s)
    BY <1>2, <2>1
  <2> QED
    BY <2>1, <2>2
<1>4. StandsAt(out, s \o b, 0) /\ Cuts(bufs, s \o b, Len(out), Len(s))
  BY <1>1, <1>2, <1>3, StandsAtMore, CutsMore
<1>5. StandsAt(b, s \o b, Len(s))
  <2>1. \A i \in DOMAIN b : /\ Len(s) + i \in DOMAIN (s \o b)
                            /\ b[i] = (s \o b)[Len(s) + i]
    BY <1>1
  <2> QED
    BY <2>1 DEF StandsAt
<1> DEFINE t == s \o b
<1> HIDE DEF t
<1>6. /\ t \in Seq(U) /\ StandsAt(out, t, 0) /\ StandsAt(b, t, Len(s))
      /\ Cuts(bufs, t, Len(out), Len(s)) /\ Len(t) = Len(s) + Len(b)
  BY <1>2, <1>4, <1>5 DEF t
<1>7. Cuts(Append(bufs, b), t, Len(out), Len(t))
  BY <1>2, <1>6, CutsAppend
<1>8. StandsAt(<<>>, t, Len(t)) /\ Len(t) \in 0 .. Len(t) /\ Len(t) + 0 = Len(t)
  BY <1>2, <1>6 DEF StandsAt
<1>9. Whole(t, out, Append(bufs, b), <<>>)
  BY <1>2, <1>6, <1>7, <1>8 DEF Whole
<1> QED
  BY <1>9 DEF t
=============================================================================
