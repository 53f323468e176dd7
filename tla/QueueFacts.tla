------------------------------ MODULE QueueFacts ------------------------------
(***************************************************************************)
(* Sequences of frames, and of numbers of messages: what is in one, and    *)
(* what in it comes before what.                                           *)
(***************************************************************************)
EXTENDS Integers, SequencesExt, SequenceTheorems, TLAPS

\* An f is in q at a place before one of g.
Before(q, f, g) == \E i, j \in DOMAIN q : i < j /\ q[i] = f /\ q[j] = g

\* Nothing is in the empty sequence.
LEMMA EmptyFacts == ToSet(<<>>) = {} /\ \A f, g : ~Before(<<>>, f, g)
BY DEF ToSet, Before

\* One element is before nothing.
LEMMA OneFacts ==
  ASSUME NEW e PROVE ToSet(<<e>>) = {e} /\ \A f, g : ~Before(<<e>>, f, g)
BY DEF ToSet, Before

\* What is left when the first is taken away.
LEMMA TailFacts ==
  ASSUME NEW S, NEW q \in Seq(S), q # <<>>
  PROVE  /\ Tail(q) \in Seq(S) /\ Head(q) \in S /\ ToSet(q) = {Head(q)} \cup ToSet(Tail(q))
         /\ \A f, g : Before(Tail(q), f, g) => Before(q, f, g)
         /\ \A g \in ToSet(Tail(q)) : Before(q, Head(q), g)
         /\ \A f, g : Before(q, f, g) => f = Head(q) \/ Before(Tail(q), f, g)
<1> DEFINE p == Tail(q)
<1>1. /\ p \in Seq(S) /\ Head(q) = q[1] /\ 1 \in DOMAIN q /\ Head(q) \in S
      /\ DOMAIN q = 1 .. Len(q) /\ DOMAIN p = 1 .. (Len(q) - 1) /\ Len(q) \in Nat
      /\ \A i \in 1 .. (Len(q) - 1) : p[i] = q[i + 1]
  BY HeadTailProperties
<1> HIDE DEF p
<1>2. \A i \in DOMAIN p : i \in Nat /\ i + 1 \in DOMAIN q /\ p[i] = q[i + 1] /\ 1 < i + 1
  BY <1>1
<1>3. \A i \in DOMAIN q : i \in Nat /\ (i = 1 \/ (i > 1 /\ i - 1 \in DOMAIN p /\ p[i - 1] = q[i]))
  <2> SUFFICES ASSUME NEW i \in DOMAIN q, i # 1 PROVE i > 1 /\ i - 1 \in DOMAIN p /\ p[i - 1] = q[i]
    BY <1>1
  <2>1. i \in Nat /\ i > 1 /\ i - 1 \in 1 .. (Len(q) - 1)
    BY <1>1
  <2> QED BY <1>1, <2>1
<1>4. ToSet(q) = {Head(q)} \cup ToSet(p)
  BY <1>1, <1>2, <1>3 DEF ToSet
<1>5. ASSUME NEW f, NEW g, Before(p, f, g) PROVE Before(q, f, g)
  <2>1. PICK i, j \in DOMAIN p : i < j /\ p[i] = f /\ p[j] = g
    BY <1>5 DEF Before
  <2>2. i + 1 < j + 1
    BY <1>2, <2>1
  <2> QED BY <1>2, <2>1, <2>2 DEF Before
<1>6. \A g \in ToSet(p) : Before(q, Head(q), g)
  BY <1>1, <1>2 DEF ToSet, Before
<1>7. ASSUME NEW f, NEW g, Before(q, f, g), f # Head(q) PROVE Before(p, f, g)
  <2>1. PICK i, j \in DOMAIN q : i < j /\ q[i] = f /\ q[j] = g
    BY <1>7 DEF Before
  <2>2. i # 1 /\ j # 1
    BY <1>1, <1>3, <1>7, <2>1
  <2>3. i - 1 < j - 1
    BY <1>3, <2>1
  <2> QED BY <1>3, <2>1, <2>2, <2>3 DEF Before
<1> QED BY <1>1, <1>4, <1>5, <1>6, <1>7 DEF p

\* What comes behind what is there.
LEMMA JoinFacts ==
  ASSUME NEW S, NEW p \in Seq(S), NEW q \in Seq(S)
  PROVE  /\ p \o q \in Seq(S) /\ ToSet(p \o q) = ToSet(p) \cup ToSet(q)
         /\ \A f, g : Before(p \o q, f, g) <=>
              Before(p, f, g) \/ Before(q, f, g) \/ (f \in ToSet(p) /\ g \in ToSet(q))
<1> DEFINE c == p \o q
           m == Len(p)
<1>1. /\ c \in Seq(S) /\ Len(c) = m + Len(q) /\ m \in Nat /\ Len(q) \in Nat
      /\ \A i \in 1 .. (m + Len(q)) : c[i] = IF i <= m THEN p[i] ELSE q[i - m]
  BY ConcatProperties
<1>2. DOMAIN p = 1 .. m /\ DOMAIN q = 1 .. Len(q)
  OBVIOUS
<1> HIDE DEF c, m
<1>3. \A i \in DOMAIN p : i \in Nat /\ i <= m /\ i \in DOMAIN c /\ c[i] = p[i]
  BY <1>1, <1>2
<1>4. ASSUME NEW i \in DOMAIN q PROVE i \in Nat /\ i > 0 /\ m + i \in DOMAIN c /\ c[m + i] = q[i]
  BY <1>1, <1>2
<1>5. ASSUME NEW i \in DOMAIN c
      PROVE  /\ i \in Nat
             /\ \/ i <= m /\ i \in DOMAIN p /\ c[i] = p[i]
                \/ i > m /\ i - m \in DOMAIN q /\ c[i] = q[i - m]
  BY <1>1, <1>2
<1>6. ToSet(c) = ToSet(p) \cup ToSet(q)
  <2>1. \A i \in DOMAIN c : c[i] \in ToSet(p) \cup ToSet(q)
    BY <1>5 DEF ToSet
  <2>2. \A i \in DOMAIN p : p[i] \in ToSet(c)
    BY <1>3 DEF ToSet
  <2>3. \A i \in DOMAIN q : q[i] \in ToSet(c)
    BY <1>4 DEF ToSet
  <2> QED BY <2>1, <2>2, <2>3 DEF ToSet
<1>7. ASSUME NEW f, NEW g, Before(c, f, g)
      PROVE  Before(p, f, g) \/ Before(q, f, g) \/ (f \in ToSet(p) /\ g \in ToSet(q))
  <2>1. PICK i, j \in DOMAIN c : i < j /\ c[i] = f /\ c[j] = g
    BY <1>7 DEF Before
  <2>2. CASE j <= m
    <3>1. i \in Nat /\ j \in Nat /\ i <= m /\ ~(i > m) /\ ~(j > m)
      BY <1>1, <1>5, <2>1, <2>2
    <3>2. i \in DOMAIN p /\ p[i] = f /\ j \in DOMAIN p /\ p[j] = g
      BY <1>5, <2>1, <3>1
    <3> QED BY <2>1, <3>2 DEF Before
  <2>3. CASE i <= m /\ j > m
    BY <1>1, <1>5, <2>1, <2>3 DEF ToSet
  <2>4. CASE i > m
    <3>1. i - m \in DOMAIN q /\ j - m \in DOMAIN q /\ i - m < j - m
      BY <1>1, <1>5, <2>1, <2>4
    <3>2. q[i - m] = f /\ q[j - m] = g
      BY <1>1, <1>5, <2>1, <2>4
    <3> QED BY <3>1, <3>2 DEF Before
  <2> QED BY <1>1, <1>5, <2>2, <2>3, <2>4
<1>8. ASSUME NEW f, NEW g, Before(p, f, g) PROVE Before(c, f, g)
  BY <1>3, <1>8 DEF Before
<1>9. ASSUME NEW f, NEW g, Before(q, f, g) PROVE Before(c, f, g)
  <2>1. PICK i, j \in DOMAIN q : i < j /\ q[i] = f /\ q[j] = g
    BY <1>9 DEF Before
  <2>2. m + i < m + j
    BY <1>1, <1>4, <2>1
  <2> QED BY <1>4, <2>1, <2>2 DEF Before
<1>10. ASSUME NEW i \in DOMAIN p, NEW j \in DOMAIN q PROVE Before(c, p[i], q[j])
  <2>1. i < m + j
    BY <1>1, <1>3, <1>4
  <2> QED BY <1>3, <1>4, <2>1 DEF Before
<1> QED BY <1>1, <1>6, <1>7, <1>8, <1>9, <1>10 DEF c, ToSet

\* What comes behind it when one is added.
LEMMA AppendFacts ==
  ASSUME NEW S, NEW q \in Seq(S), NEW e \in S
  PROVE  /\ Append(q, e) \in Seq(S) /\ ToSet(Append(q, e)) = ToSet(q) \cup {e}
         /\ \A f, g : Before(Append(q, e), f, g) <=> Before(q, f, g) \/ (f \in ToSet(q) /\ g = e)
<1> DEFINE one == <<e>>
<1>1. one \in Seq(S) /\ Append(q, e) = q \o one
  BY AppendIsConcat
<1>2. ToSet(one) = {e} /\ \A f, g : ~Before(one, f, g)
  BY OneFacts
<1> HIDE DEF one
<1>3. /\ q \o one \in Seq(S) /\ ToSet(q \o one) = ToSet(q) \cup ToSet(one)
      /\ \A f, g : Before(q \o one, f, g) <=>
            Before(q, f, g) \/ Before(one, f, g) \/ (f \in ToSet(q) /\ g \in ToSet(one))
  BY <1>1, JoinFacts
<1> QED BY <1>1, <1>2, <1>3

\* What is left when the end is cut off.
LEMMA PrefixFacts ==
  ASSUME NEW S, NEW q \in Seq(S), NEW n \in 0 .. Len(q)
  PROVE  /\ SubSeq(q, 1, n) \in Seq(S) /\ ToSet(SubSeq(q, 1, n)) \subseteq ToSet(q)
         /\ \A f, g : Before(SubSeq(q, 1, n), f, g) => Before(q, f, g)
         /\ \A f, g : Before(q, f, g) /\ ~Before(q, g, g) /\ g \in ToSet(SubSeq(q, 1, n))
                        => Before(SubSeq(q, 1, n), f, g)
<1> DEFINE p == SubSeq(q, 1, n)
<1>1. p \in Seq(S) /\ Len(p) = n /\ \A i \in 1 .. n : p[i] = q[i]
  OBVIOUS
<1> HIDE DEF p
<1>2. DOMAIN p = 1 .. n /\ n \in Nat
  BY <1>1
<1>3. /\ \A i \in DOMAIN p : i \in DOMAIN q /\ i \in Nat /\ i <= n /\ p[i] = q[i]
      /\ \A i \in DOMAIN q : i \in Nat /\ (i <= n => i \in DOMAIN p)
  BY <1>1, <1>2
<1>4. ASSUME NEW f, NEW g, Before(q, f, g), ~Before(q, g, g), g \in ToSet(p) PROVE Before(p, f, g)
  <2>1. PICK i, j \in DOMAIN q : i < j /\ q[i] = f /\ q[j] = g
    BY <1>4 DEF Before
  <2>2. PICK h \in DOMAIN p : p[h] = g
    BY <1>4 DEF ToSet
  <2>3. h = j
    <3>1. q[h] = g /\ h \in DOMAIN q /\ h \in Nat /\ j \in Nat
      BY <1>3, <2>2
    <3> QED BY <1>4, <2>1, <3>1 DEF Before
  <2>4. i \in DOMAIN p
    BY <1>2, <1>3, <2>1, <2>2, <2>3
  <2> QED BY <1>3, <2>1, <2>2, <2>3, <2>4 DEF Before
<1> QED BY <1>1, <1>3, <1>4 DEF p, ToSet, Before
=============================================================================
