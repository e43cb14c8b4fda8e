-------------------------- MODULE TranscriptsProofs --------------------------
(***************************************************************************)
(* Theorems about transcripts, for any lines, gaps, caps, repositories and *)
(* configurations: however a file grows, its slices are stable, and what   *)
(* is made of them is complete, paid once and redacted.                    *)
(***************************************************************************)
EXTENDS Transcripts, DeskProofs, SequenceTheorems

-----------------------------------------------------------------------------
\* Sequences, whatever their elements are.

IsSeq(s) == Len(s) \in Nat /\ s = [k \in 1 .. Len(s) |-> s[k]]
Elements(s) == {s[k] : k \in 1 .. Len(s)}

LEMMA InSeq == ASSUME NEW n \in Nat, NEW V, NEW s \in [1 .. n -> V] PROVE s \in Seq(V)
  OBVIOUS

LEMMA ElementsSeq == ASSUME NEW s, IsSeq(s) PROVE s \in Seq(Elements(s))
  <1>1. s \in [1 .. Len(s) -> Elements(s)]
    BY DEF IsSeq, Elements
  <1>2. PICK n \in Nat : n = Len(s)
    BY DEF IsSeq
  <1>3. PICK V : V = Elements(s)
    OBVIOUS
  <1>4. s \in [1 .. n -> V]
    BY <1>1, <1>2, <1>3
  <1>5. s \in Seq(V)
    BY <1>4, InSeq
  <1>6. QED
    BY <1>3, <1>5

LEMMA SeqIs == ASSUME NEW S, NEW s \in Seq(S) PROVE IsSeq(s) /\ \A k \in 1 .. Len(s) : s[k] \in S
  BY DEF IsSeq

LEMMA FunIsSeq ==
    ASSUME NEW n \in Nat, NEW s, s = [k \in 1 .. n |-> s[k]]
    PROVE  IsSeq(s) /\ Len(s) = n /\ DOMAIN s = 1 .. n
  <1> DEFINE V == {s[k] : k \in 1 .. n}
  <1>1. s \in [1 .. n -> V]
    OBVIOUS
  <1>2. s \in Seq(V)
    BY <1>1
  <1>3. DOMAIN s = 1 .. n /\ DOMAIN s = 1 .. Len(s) /\ Len(s) \in Nat
    BY <1>1, <1>2
  <1>4. Len(s) = n
    BY <1>3
  <1>5. QED
    BY <1>2, <1>3, <1>4, SeqIs

LEMMA Joined ==
    ASSUME NEW s, NEW t, IsSeq(s), IsSeq(t)
    PROVE  /\ IsSeq(s \o t) /\ Len(s \o t) = Len(s) + Len(t)
           /\ \A k \in 1 .. Len(s) : (s \o t)[k] = s[k]
           /\ \A k \in 1 .. Len(t) : (s \o t)[Len(s) + k] = t[k]
  <1> DEFINE V == Elements(s) \cup Elements(t)
  <1>1. s \in [1 .. Len(s) -> V] /\ t \in [1 .. Len(t) -> V] /\ Len(s) \in Nat /\ Len(t) \in Nat
    BY DEF Elements, IsSeq
  <1> HIDE DEF V
  <1>a. s \in Seq(V) /\ t \in Seq(V)
    BY <1>1, InSeq
  <1>2. s \o t \in Seq(V)
    BY <1>a
  <1>3. Len(s) \in Nat /\ Len(t) \in Nat
    BY DEF IsSeq
  <1>4. Len(s \o t) = Len(s) + Len(t) /\ \A k \in 1 .. Len(s) + Len(t) : (s \o t)[k] = IF k <= Len(s) THEN s[k] ELSE t[k - Len(s)]
    BY <1>a, ConcatProperties
  <1>5. IsSeq(s \o t)
    BY <1>2, SeqIs
  <1>6. ASSUME NEW k \in 1 .. Len(s) PROVE (s \o t)[k] = s[k]
    BY <1>3, <1>4
  <1>7. ASSUME NEW k \in 1 .. Len(t) PROVE (s \o t)[Len(s) + k] = t[k]
    <2>1. Len(s) + k \in 1 .. Len(s) + Len(t) /\ ~(Len(s) + k <= Len(s)) /\ (Len(s) + k) - Len(s) = k
      BY <1>3
    <2>2. QED
      BY <1>4, <2>1
  <1>8. QED
    BY <1>4, <1>5, <1>6, <1>7

LEMMA Appended ==
    ASSUME NEW s, NEW x, IsSeq(s)
    PROVE  /\ IsSeq(Append(s, x)) /\ Len(Append(s, x)) = Len(s) + 1
           /\ \A k \in 1 .. Len(s) : Append(s, x)[k] = s[k]
           /\ Append(s, x)[Len(s) + 1] = x
  <1> DEFINE V == Elements(s) \cup {x}
  <1>1. s \in Seq(V) /\ x \in V
    BY DEF Elements, IsSeq
  <1> HIDE DEF V
  <1>2. Append(s, x) \in Seq(V) /\ Len(Append(s, x)) = Len(s) + 1 /\ \A k \in 1 .. Len(s) : Append(s, x)[k] = s[k]
    BY <1>1, AppendProperties
  <1>3. Append(s, x)[Len(s) + 1] = x
    BY <1>1, AppendProperties
  <1>4. QED
    BY <1>2, <1>3, SeqIs

LEMMA Sliced ==
    ASSUME NEW s, IsSeq(s), NEW a \in 1 .. Len(s) + 1, NEW b \in a - 1 .. Len(s)
    PROVE  /\ IsSeq(SubSeq(s, a, b)) /\ Len(SubSeq(s, a, b)) = b - a + 1
           /\ \A k \in 1 .. b - a + 1 : SubSeq(s, a, b)[k] = s[a + k - 1]
  <1> DEFINE V == Elements(s)
  <1>1. s \in Seq(V)
    BY ElementsSeq
  <1> HIDE DEF V
  <1>2. Len(s) \in Nat
    BY DEF IsSeq
  <1>3. /\ SubSeq(s, a, b) \in Seq(V) /\ Len(SubSeq(s, a, b)) = b - a + 1
        /\ \A k \in 1 .. b - a + 1 : SubSeq(s, a, b)[k] = s[a + k - 1]
    BY <1>1, <1>2, SubSeqProperties
  <1>4. QED
    BY <1>3, SeqIs

-----------------------------------------------------------------------------
\* Sums

LEMMA SumsAre ==
    ASSUME NEW v, Len(v) \in Nat
    PROVE  Sums(v)[0] = 0 /\ \A n \in 1 .. Len(v) : Sums(v)[n] = Sums(v)[n - 1] + v[n]
  <1> DEFINE L == Len(v)
             Rule(g, m) == DOMAIN g = 0 .. m /\ g = [n \in 0 .. m |-> IF n = 0 THEN 0 ELSE g[n - 1] + v[n]]
             W == {m \in Nat : \E g : Rule(g, m)}
  <1>1. 0 \in W
    <2>1. Rule([n \in 0 .. 0 |-> 0], 0)
      OBVIOUS
    <2>2. QED
      BY <2>1
  <1>2. ASSUME NEW m \in Nat, m \in W PROVE m + 1 \in W
    <2>1. PICK g : Rule(g, m)
      BY <1>2
    <2> DEFINE h == [n \in 0 .. m + 1 |-> IF n = m + 1 THEN g[m] + v[m + 1] ELSE g[n]]
    <2>2. \A n \in 0 .. m : h[n] = g[n]
      OBVIOUS
    <2>3. ASSUME NEW n \in 0 .. m + 1 PROVE h[n] = IF n = 0 THEN 0 ELSE h[n - 1] + v[n]
      <3>1. CASE n = m + 1
        BY <2>2, <3>1
      <3>2. CASE n # m + 1
        <4>1. n \in 0 .. m /\ (n # 0 => n - 1 \in 0 .. m)
          BY <3>2
        <4>2. h[n] = g[n] /\ (n # 0 => h[n - 1] = g[n - 1])
          BY <2>2, <4>1
        <4>3. g[n] = IF n = 0 THEN 0 ELSE g[n - 1] + v[n]
          BY <2>1, <4>1
        <4>4. QED
          BY <4>2, <4>3
      <3>3. QED
        BY <3>1, <3>2
    <2>4. DOMAIN h = 0 .. m + 1 /\ h = [n \in 0 .. m + 1 |-> h[n]]
      OBVIOUS
    <2> HIDE DEF h
    <2>5. Rule(h, m + 1)
      BY <2>3, <2>4
    <2>6. QED
      BY <2>5
  <1>3. L \in W
    <2> HIDE DEF W
    <2>1. QED
      BY <1>1, <1>2, NatSteps
  <1>4. PICK g : Rule(g, L)
    BY <1>3
  <1>5. Sums(v) = CHOOSE sum : sum = [n \in 0 .. Len(v) |-> IF n = 0 THEN 0 ELSE sum[n - 1] + v[n]]
    BY DEF Sums
  <1>6. Sums(v) = [n \in 0 .. Len(v) |-> IF n = 0 THEN 0 ELSE Sums(v)[n - 1] + v[n]]
    BY <1>4, <1>5
  <1>7. QED
    BY <1>6

Nats(v) == Len(v) \in Nat /\ \A k \in 1 .. Len(v) : v[k] \in Nat

LEMMA SumsNat == ASSUME NEW v, Nats(v) PROVE \A n \in 0 .. Len(v) : Sums(v)[n] \in Nat
  <1> DEFINE W == {n \in Nat : n <= Len(v) => Sums(v)[n] \in Nat}
  <1>1. Len(v) \in Nat /\ \A k \in 1 .. Len(v) : v[k] \in Nat
    BY DEF Nats
  <1>2. Sums(v)[0] = 0 /\ \A n \in 1 .. Len(v) : Sums(v)[n] = Sums(v)[n - 1] + v[n]
    BY <1>1, SumsAre
  <1>3. 0 \in W
    BY <1>2
  <1>4. ASSUME NEW n \in Nat, n \in W PROVE n + 1 \in W
    <2>1. SUFFICES ASSUME n + 1 <= Len(v) PROVE Sums(v)[n + 1] \in Nat
      OBVIOUS
    <2>2. n + 1 \in 1 .. Len(v) /\ (n + 1) - 1 = n /\ Sums(v)[n] \in Nat
      BY <1>1, <1>4, <2>1
    <2>3. Sums(v)[n + 1] = Sums(v)[(n + 1) - 1] + v[n + 1] /\ v[n + 1] \in Nat
      BY <1>1, <1>2, <2>2
    <2>4. QED
      BY <2>2, <2>3
  <1>5. Nat \subseteq W
    <2> HIDE DEF W
    <2>1. QED
      BY <1>3, <1>4, NatSteps
  <1>6. QED
    BY <1>1, <1>5

LEMMA TotalNat == ASSUME NEW v, Nats(v) PROVE Total(v) \in Nat
  BY SumsNat DEF Total, Nats

\* Sequences that begin alike sum up alike.
LEMMA PrefixSums ==
    ASSUME NEW v, NEW w, Len(v) \in Nat, Len(w) \in Nat,
           NEW m \in Nat, m <= Len(v), m <= Len(w), \A k \in 1 .. m : v[k] = w[k]
    PROVE  \A n \in 0 .. m : Sums(v)[n] = Sums(w)[n]
  <1> DEFINE W == {n \in Nat : n <= m => Sums(v)[n] = Sums(w)[n]}
  <1>1. Sums(v)[0] = 0 /\ \A n \in 1 .. Len(v) : Sums(v)[n] = Sums(v)[n - 1] + v[n]
    BY SumsAre
  <1>2. Sums(w)[0] = 0 /\ \A n \in 1 .. Len(w) : Sums(w)[n] = Sums(w)[n - 1] + w[n]
    BY SumsAre
  <1>3. 0 \in W
    BY <1>1, <1>2
  <1>4. ASSUME NEW n \in Nat, n \in W PROVE n + 1 \in W
    <2>1. SUFFICES ASSUME n + 1 <= m PROVE Sums(v)[n + 1] = Sums(w)[n + 1]
      OBVIOUS
    <2>2. n + 1 \in 1 .. Len(v) /\ n + 1 \in 1 .. Len(w) /\ n + 1 \in 1 .. m /\ (n + 1) - 1 = n /\ Sums(v)[n] = Sums(w)[n]
      BY <1>4, <2>1
    <2>3. Sums(v)[n + 1] = Sums(v)[(n + 1) - 1] + v[n + 1] /\ Sums(w)[n + 1] = Sums(w)[(n + 1) - 1] + w[n + 1]
      BY <1>1, <1>2, <2>2
    <2>4. QED
      BY <2>2, <2>3
  <1>5. Nat \subseteq W
    <2> HIDE DEF W
    <2>1. QED
      BY <1>3, <1>4, NatSteps
  <1>6. QED
    BY <1>5

\* What adds nothing, adds nothing.
LEMMA ZeroSums ==
    ASSUME NEW v, Nats(v), NEW a \in 0 .. Len(v), \A k \in a + 1 .. Len(v) : v[k] = 0
    PROVE  Total(v) = Sums(v)[a]
  <1> DEFINE W == {n \in Nat : a + n <= Len(v) => Sums(v)[a + n] = Sums(v)[a]}
  <1>1. Len(v) \in Nat /\ a \in Nat /\ a <= Len(v)
    BY DEF Nats
  <1>2. \A n \in 1 .. Len(v) : Sums(v)[n] = Sums(v)[n - 1] + v[n]
    BY <1>1, SumsAre
  <1>3. Sums(v)[a] \in Nat
    BY SumsNat
  <1>4. 0 \in W
    BY <1>1
  <1>5. ASSUME NEW n \in Nat, n \in W PROVE n + 1 \in W
    <2>1. SUFFICES ASSUME a + (n + 1) <= Len(v) PROVE Sums(v)[a + (n + 1)] = Sums(v)[a]
      OBVIOUS
    <2>2. PICK k \in Nat : k = a + (n + 1)
      BY <1>1
    <2>3. k \in 1 .. Len(v) /\ k \in a + 1 .. Len(v) /\ k - 1 = a + n /\ Sums(v)[a + n] = Sums(v)[a]
      BY <1>1, <1>5, <2>1, <2>2
    <2>4. Sums(v)[k] = Sums(v)[k - 1] + v[k] /\ v[k] = 0
      BY <1>2, <2>3
    <2>5. QED
      BY <1>3, <2>2, <2>3, <2>4
  <1>6. Nat \subseteq W
    <2> HIDE DEF W
    <2>1. QED
      BY <1>4, <1>5, NatSteps
  <1>7. PICK d \in Nat : a + d = Len(v)
    <2>1. Len(v) - a \in Nat /\ a + (Len(v) - a) = Len(v)
      BY <1>1
    <2>2. QED
      BY <2>1
  <1>8. d \in W
    BY <1>6
  <1>9. QED
    BY <1>1, <1>7, <1>8 DEF Total

\* One more at one place is one more in the sum.
LEMMA ChangedSum ==
    ASSUME NEW v, NEW w, Nats(v), Nats(w), Len(w) = Len(v), NEW a \in 1 .. Len(v), NEW u \in Nat,
           w[a] = v[a] + u, \A k \in 1 .. Len(v) : k # a => w[k] = v[k]
    PROVE  Total(w) = Total(v) + u
  <1> DEFINE W == {n \in Nat : n <= Len(v) => Sums(w)[n] = IF n < a THEN Sums(v)[n] ELSE Sums(v)[n] + u}
  <1>1. Len(v) \in Nat /\ a \in Nat /\ 1 <= a /\ a <= Len(v)
    BY DEF Nats
  <1>2. Sums(v)[0] = 0 /\ \A n \in 1 .. Len(v) : Sums(v)[n] = Sums(v)[n - 1] + v[n]
    BY <1>1, SumsAre
  <1>3. Sums(w)[0] = 0 /\ \A n \in 1 .. Len(v) : Sums(w)[n] = Sums(w)[n - 1] + w[n]
    BY <1>1, SumsAre
  <1>4. \A n \in 0 .. Len(v) : Sums(v)[n] \in Nat
    BY SumsNat
  <1>5. 0 \in W
    BY <1>1, <1>2, <1>3
  <1>6. ASSUME NEW n \in Nat, n \in W PROVE n + 1 \in W
    <2>1. SUFFICES ASSUME n + 1 <= Len(v)
                   PROVE  Sums(w)[n + 1] = IF n + 1 < a THEN Sums(v)[n + 1] ELSE Sums(v)[n + 1] + u
      OBVIOUS
    <2>2. n + 1 \in 1 .. Len(v) /\ n \in 0 .. Len(v) /\ (n + 1) - 1 = n
      BY <1>1, <2>1
    <2>3. Sums(w)[n] = IF n < a THEN Sums(v)[n] ELSE Sums(v)[n] + u
      BY <1>6, <2>2
    <2>4. Sums(v)[n + 1] = Sums(v)[n] + v[n + 1] /\ Sums(w)[n + 1] = Sums(w)[n] + w[n + 1]
      BY <1>2, <1>3, <2>2
    <2>5. Sums(v)[n] \in Nat /\ v[n + 1] \in Nat
      BY <1>4, <2>2 DEF Nats
    <2>6. CASE n + 1 = a
      <3>1. w[n + 1] = v[n + 1] + u /\ n < a
        BY <1>1, <2>6
      <3>2. QED
        BY <1>1, <2>3, <2>4, <2>5, <2>6, <3>1
    <2>7. CASE n + 1 # a
      <3>1. w[n + 1] = v[n + 1] /\ (n < a <=> n + 1 < a)
        BY <1>1, <2>2, <2>7
      <3>2. QED
        BY <2>3, <2>4, <2>5, <3>1
    <2>8. QED
      BY <2>6, <2>7
  <1>7. Nat \subseteq W
    <2> HIDE DEF W
    <2>1. QED
      BY <1>5, <1>6, NatSteps
  <1>8. Len(v) \in W
    BY <1>1, <1>7
  <1>9. QED
    BY <1>1, <1>8 DEF Total

\* The part of a sum.
LEMMA PartSum ==
    ASSUME NEW v, Nats(v), NEW x, Nats(x), NEW a \in 1 .. Len(v) + 1, a + Len(x) <= Len(v) + 1,
           \A k \in 1 .. Len(x) : x[k] = v[a + k - 1]
    PROVE  Sums(v)[a - 1 + Len(x)] = Sums(v)[a - 1] + Total(x)
  <1> DEFINE W == {n \in Nat : n <= Len(x) => Sums(v)[a - 1 + n] = Sums(v)[a - 1] + Sums(x)[n]}
  <1>1. Len(v) \in Nat /\ a \in Nat /\ 1 <= a /\ Len(x) \in Nat /\ a - 1 \in 0 .. Len(v)
    BY DEF Nats
  <1>2. \A n \in 1 .. Len(v) : Sums(v)[n] = Sums(v)[n - 1] + v[n]
    BY <1>1, SumsAre
  <1>3. Sums(x)[0] = 0 /\ \A n \in 1 .. Len(x) : Sums(x)[n] = Sums(x)[n - 1] + x[n]
    BY <1>1, SumsAre
  <1>4. Sums(v)[a - 1] \in Nat /\ \A n \in 0 .. Len(x) : Sums(x)[n] \in Nat
    BY <1>1, SumsNat
  <1>5. 0 \in W
    BY <1>1, <1>3, <1>4
  <1>6. ASSUME NEW n \in Nat, n \in W PROVE n + 1 \in W
    <2>1. SUFFICES ASSUME n + 1 <= Len(x)
                   PROVE  Sums(v)[a - 1 + (n + 1)] = Sums(v)[a - 1] + Sums(x)[n + 1]
      OBVIOUS
    <2>2. PICK j \in Nat : j = a - 1 + (n + 1)
      BY <1>1
    <2>3. /\ n + 1 \in 1 .. Len(x) /\ n \in 0 .. Len(x) /\ (n + 1) - 1 = n /\ j \in 1 .. Len(v)
          /\ j - 1 = a - 1 + n /\ j = a + (n + 1) - 1
      BY <1>1, <2>1, <2>2
    <2>4. Sums(v)[j - 1] = Sums(v)[a - 1] + Sums(x)[n]
      BY <1>6, <2>3
    <2>5. Sums(v)[j] = Sums(v)[j - 1] + v[j] /\ Sums(x)[n + 1] = Sums(x)[n] + x[n + 1] /\ x[n + 1] = v[j]
      BY <1>2, <1>3, <2>3
    <2>6. Sums(x)[n] \in Nat /\ x[n + 1] \in Nat
      BY <1>4, <2>3 DEF Nats
    <2>7. QED
      BY <1>4, <2>2, <2>4, <2>5, <2>6
  <1>7. Nat \subseteq W
    <2> HIDE DEF W
    <2>1. QED
      BY <1>5, <1>6, NatSteps
  <1>8. Len(x) \in W
    BY <1>1, <1>7
  <1>9. QED
    BY <1>1, <1>8 DEF Total

-----------------------------------------------------------------------------
\* Slices

LEMMA SegmentsAre ==
    ASSUME NEW turns, Len(turns) \in Nat
    PROVE  /\ Segments(turns)[0] = NoSlice
           /\ \A n \in 1 .. Len(turns) : Segments(turns)[n] = Placed(Segments(turns)[n - 1], n, turns[n])
  <1> DEFINE Rule(g, m) == DOMAIN g = 0 .. m /\ g = [n \in 0 .. m |-> IF n = 0 THEN NoSlice ELSE Placed(g[n - 1], n, turns[n])]
             W == {m \in Nat : \E g : Rule(g, m)}
  <1>1. 0 \in W
    <2>1. Rule([n \in 0 .. 0 |-> NoSlice], 0)
      OBVIOUS
    <2>2. QED
      BY <2>1
  <1>2. ASSUME NEW m \in Nat, m \in W PROVE m + 1 \in W
    <2>1. PICK g : Rule(g, m)
      BY <1>2
    <2> DEFINE h == [n \in 0 .. m + 1 |-> IF n = m + 1 THEN Placed(g[m], m + 1, turns[m + 1]) ELSE g[n]]
    <2>2. \A n \in 0 .. m : h[n] = g[n]
      OBVIOUS
    <2>3. ASSUME NEW n \in 0 .. m + 1 PROVE h[n] = IF n = 0 THEN NoSlice ELSE Placed(h[n - 1], n, turns[n])
      <3>1. CASE n = m + 1
        BY <2>2, <3>1
      <3>2. CASE n # m + 1
        <4>1. n \in 0 .. m /\ (n # 0 => n - 1 \in 0 .. m)
          BY <3>2
        <4>2. h[n] = g[n] /\ (n # 0 => h[n - 1] = g[n - 1])
          BY <2>2, <4>1
        <4>3. g[n] = IF n = 0 THEN NoSlice ELSE Placed(g[n - 1], n, turns[n])
          BY <2>1, <4>1
        <4>4. QED
          BY <4>2, <4>3
      <3>3. QED
        BY <3>1, <3>2
    <2>4. DOMAIN h = 0 .. m + 1 /\ h = [n \in 0 .. m + 1 |-> h[n]]
      OBVIOUS
    <2> HIDE DEF h
    <2>5. Rule(h, m + 1)
      BY <2>3, <2>4
    <2>6. QED
      BY <2>5
  <1>3. Len(turns) \in W
    <2> HIDE DEF W
    <2>1. QED
      BY <1>1, <1>2, NatSteps
  <1>4. PICK g : Rule(g, Len(turns))
    BY <1>3
  <1>5. Segments(turns) = CHOOSE after :
          after = [n \in 0 .. Len(turns) |-> IF n = 0 THEN NoSlice ELSE Placed(after[n - 1], n, turns[n])]
    BY DEF Segments
  <1>6. Segments(turns) = [n \in 0 .. Len(turns) |-> IF n = 0 THEN NoSlice ELSE Placed(Segments(turns)[n - 1], n, turns[n])]
    BY <1>4, <1>5
  <1>7. QED
    BY <1>6

\* Slices start at ever later turns, the first at the first.
SegOK(seg, n) ==
    /\ IsSeq(seg.starts) /\ IsSeq(seg.reasons)
    /\ \A i \in 1 .. Len(seg.starts) : seg.starts[i] \in 1 .. n
    /\ \A i, j \in 1 .. Len(seg.starts) : i < j => seg.starts[i] < seg.starts[j]
    /\ n = 0 => Len(seg.starts) = 0 /\ Len(seg.reasons) = 0
    /\ n # 0 => Len(seg.starts) # 0 /\ seg.starts[1] = 1 /\ Len(seg.reasons) = Len(seg.starts) - 1

\* Slices that were met stay as they are, others start later.
SegGrew(old, new, n) ==
    /\ Len(old.starts) <= Len(new.starts) /\ Len(old.reasons) <= Len(new.reasons)
    /\ \A i \in 1 .. Len(old.starts) : new.starts[i] = old.starts[i]
    /\ \A i \in 1 .. Len(old.reasons) : new.reasons[i] = old.reasons[i]
    /\ \A i \in Len(old.starts) + 1 .. Len(new.starts) : new.starts[i] > n

LEMMA EmptySeqIs == IsSeq(<<>>) /\ Len(<<>>) = 0
  BY DEF IsSeq

LEMMA NoneLeft == ASSUME NEW s, IsSeq(s) PROVE s = <<>> <=> Len(s) = 0
  <1>1. Len(s) = 0 => s = <<>>
    <2>1. SUFFICES ASSUME Len(s) = 0 PROVE s = <<>>
      OBVIOUS
    <2>2. s = [k \in 1 .. 0 |-> s[k]]
      BY <2>1 DEF IsSeq
    <2>3. s \in Seq(Elements(s))
      BY ElementsSeq
    <2>4. QED
      BY <2>1, <2>3, EmptySeq
  <1>2. QED
    BY <1>1, EmptySeqIs

LEMMA PlacedOK ==
    ASSUME NEW seg, NEW n \in Nat, NEW turn, SegOK(seg, n)
    PROVE  SegOK(Placed(seg, n + 1, turn), n + 1) /\ SegGrew(seg, Placed(seg, n + 1, turn), n)
  <1> DEFINE ts == IF turn.at # None THEN turn.at ELSE seg.last
             next == Placed(seg, n + 1, turn)
  <1>1. PICK cut : cut = Cut(seg, ts)
    OBVIOUS
  <1>2. /\ next.starts = IF cut # None \/ seg.starts = <<>> THEN Append(seg.starts, n + 1) ELSE seg.starts
        /\ next.reasons = IF cut = None THEN seg.reasons ELSE Append(seg.reasons, cut)
    BY <1>1 DEF Placed
  <1>3. seg.starts = <<>> => cut = None
    BY <1>1 DEF Cut
  <1>4. seg.starts = <<>> <=> Len(seg.starts) = 0
    BY NoneLeft DEF SegOK
  <1>5. Len(seg.starts) \in Nat /\ Len(seg.reasons) \in Nat /\ IsSeq(seg.starts) /\ IsSeq(seg.reasons)
    BY DEF SegOK, IsSeq
  <1> HIDE DEF ts, next
  <1>6. CASE cut = None /\ seg.starts # <<>>
    <2>1. next.starts = seg.starts /\ next.reasons = seg.reasons /\ n # 0
      BY <1>2, <1>4, <1>6 DEF SegOK
    <2>2. SegOK(next, n + 1)
      BY <1>4, <1>5, <1>6, <2>1 DEF SegOK
    <2>3. SegGrew(seg, next, n)
      BY <1>5, <2>1 DEF SegGrew
    <2>4. QED
      BY <2>2, <2>3 DEF next
  <1>7. CASE cut # None \/ seg.starts = <<>>
    <2> DEFINE l == Len(seg.starts)
               s == Append(seg.starts, n + 1)
    <2>1. next.starts = s
      BY <1>2, <1>7
    <2>2. IsSeq(s) /\ Len(s) = l + 1 /\ s[l + 1] = n + 1 /\ \A i \in 1 .. l : s[i] = seg.starts[i]
      BY <1>5, Appended
    <2>3. /\ IsSeq(next.reasons) /\ \A i \in 1 .. Len(seg.reasons) : next.reasons[i] = seg.reasons[i]
          /\ Len(next.reasons) = IF cut = None THEN Len(seg.reasons) ELSE Len(seg.reasons) + 1
      BY <1>2, <1>5, Appended
    <2> HIDE DEF s
    <2>4. \A i \in 1 .. l : seg.starts[i] \in 1 .. n
      BY DEF SegOK
    <2>5. ASSUME NEW i \in 1 .. l + 1 PROVE s[i] \in 1 .. n + 1
      <3>1. CASE i = l + 1
        BY <2>2, <3>1
      <3>2. CASE i # l + 1
        <4>1. i \in 1 .. l
          BY <1>5, <3>2
        <4>2. s[i] = seg.starts[i] /\ seg.starts[i] \in 1 .. n
          BY <2>2, <2>4, <4>1
        <4>3. QED
          BY <4>2
      <3>3. QED
        BY <3>1, <3>2
    <2>6. \A i, j \in 1 .. l + 1 : i < j => s[i] < s[j]
      <3>1. SUFFICES ASSUME NEW i \in 1 .. l + 1, NEW j \in 1 .. l + 1, i < j PROVE s[i] < s[j]
        OBVIOUS
      <3>2. i \in 1 .. l /\ s[i] = seg.starts[i] /\ seg.starts[i] \in 1 .. n
        BY <1>5, <2>2, <2>4, <3>1
      <3>3. CASE j = l + 1
        BY <2>2, <3>2, <3>3
      <3>4. CASE j # l + 1
        <4>1. j \in 1 .. l /\ s[j] = seg.starts[j]
          BY <1>5, <2>2, <3>4
        <4>2. QED
          BY <3>1, <3>2, <4>1 DEF SegOK
      <3>5. QED
        BY <3>3, <3>4
    <2>7. s[1] = 1
      <3>1. CASE l = 0
        <4>1. n = 0
          BY <3>1 DEF SegOK
        <4>2. QED
          BY <2>2, <3>1, <4>1
      <3>2. CASE l # 0
        <4>1. 1 \in 1 .. l /\ n # 0
          BY <1>5, <3>2 DEF SegOK
        <4>2. QED
          BY <2>2, <4>1 DEF SegOK
      <3>3. QED
        BY <3>1, <3>2
    <2>8. Len(next.reasons) = l
      <3>1. CASE l = 0
        <4>1. n = 0 /\ Len(seg.reasons) = 0 /\ cut = None
          BY <1>3, <1>4, <3>1 DEF SegOK
        <4>2. QED
          BY <2>3, <3>1, <4>1
      <3>2. CASE l # 0
        <4>1. n # 0 /\ cut # None /\ Len(seg.reasons) = l - 1
          BY <1>4, <1>7, <3>2 DEF SegOK
        <4>2. QED
          BY <1>5, <2>3, <4>1
      <3>3. QED
        BY <3>1, <3>2
    <2>9. SegOK(next, n + 1)
      BY <1>5, <2>1, <2>2, <2>3, <2>5, <2>6, <2>7, <2>8 DEF SegOK
    <2>10. \A i \in l + 1 .. l + 1 : s[i] > n
      BY <1>5, <2>2
    <2>11. Len(seg.reasons) <= Len(next.reasons)
      BY <1>5, <2>3
    <2>12. SegGrew(seg, next, n)
      BY <1>5, <2>1, <2>2, <2>3, <2>10, <2>11 DEF SegGrew
    <2>13. QED
      BY <2>9, <2>12 DEF next
  <1>8. QED
    BY <1>6, <1>7

LEMMA SegmentsOK ==
    ASSUME NEW turns, Len(turns) \in Nat
    PROVE  \A n \in 0 .. Len(turns) : SegOK(Segments(turns)[n], n)
  <1> DEFINE W == {n \in Nat : n <= Len(turns) => SegOK(Segments(turns)[n], n)}
  <1>1. /\ Segments(turns)[0] = NoSlice
        /\ \A n \in 1 .. Len(turns) : Segments(turns)[n] = Placed(Segments(turns)[n - 1], n, turns[n])
    BY SegmentsAre
  <1>2. 0 \in W
    <2>1. SegOK(NoSlice, 0)
      BY EmptySeqIs DEF SegOK, NoSlice
    <2>2. QED
      BY <1>1, <2>1
  <1>3. ASSUME NEW n \in Nat, n \in W PROVE n + 1 \in W
    <2>1. SUFFICES ASSUME n + 1 <= Len(turns) PROVE SegOK(Segments(turns)[n + 1], n + 1)
      OBVIOUS
    <2>2. n + 1 \in 1 .. Len(turns) /\ (n + 1) - 1 = n /\ SegOK(Segments(turns)[n], n)
      BY <1>3, <2>1
    <2>3. Segments(turns)[n + 1] = Placed(Segments(turns)[n], n + 1, turns[n + 1])
      BY <1>1, <2>2
    <2>4. QED
      BY <2>2, <2>3, PlacedOK
  <1>4. Nat \subseteq W
    <2> HIDE DEF W
    <2>1. QED
      BY <1>2, <1>3, NatSteps
  <1>5. QED
    BY <1>4

LEMMA SegmentsGrow ==
    ASSUME NEW turns, Len(turns) \in Nat, NEW n \in Nat, n <= Len(turns)
    PROVE  SegGrew(Segments(turns)[n], Segments(turns)[Len(turns)], n)
  <1> DEFINE S(m) == Segments(turns)[m]
             W == {d \in Nat : n + d <= Len(turns) => SegGrew(S(n), S(n + d), n)}
  <1>1. \A m \in 1 .. Len(turns) : S(m) = Placed(S(m - 1), m, turns[m])
    BY SegmentsAre
  <1>2. \A m \in 0 .. Len(turns) : SegOK(S(m), m)
    BY SegmentsOK
  <1> HIDE DEF S
  <1>3. 0 \in W
    <2>1. SegOK(S(n), n) /\ n + 0 = n
      BY <1>2
    <2>2. SegGrew(S(n), S(n), n)
      BY <2>1 DEF SegGrew, SegOK, IsSeq
    <2>3. QED
      BY <2>1, <2>2
  <1>4. ASSUME NEW d \in Nat, d \in W PROVE d + 1 \in W
    <2>1. SUFFICES ASSUME n + (d + 1) <= Len(turns) PROVE SegGrew(S(n), S(n + (d + 1)), n)
      OBVIOUS
    <2>2. PICK m \in Nat : m = n + d
      OBVIOUS
    <2>3. n + (d + 1) = m + 1 /\ m \in 0 .. Len(turns) /\ m + 1 \in 1 .. Len(turns) /\ (m + 1) - 1 = m /\ n <= m
      BY <2>1, <2>2
    <2>4. S(m + 1) = Placed(S(m), m + 1, turns[m + 1]) /\ SegOK(S(m), m) /\ SegOK(S(n), n)
      BY <1>1, <1>2, <2>3
    <2>5. SegGrew(S(m), S(m + 1), m) /\ SegOK(S(m + 1), m + 1)
      BY <2>4, PlacedOK
    <2>6. SegGrew(S(n), S(m), n)
      BY <1>4, <2>2, <2>3
    <2>7. PICK a, b, c : a = S(n) /\ b = S(m) /\ c = S(m + 1)
      OBVIOUS
    <2>8. SegGrew(a, b, n) /\ SegGrew(b, c, m) /\ SegOK(a, n) /\ SegOK(b, m) /\ SegOK(c, m + 1)
      BY <2>4, <2>5, <2>6, <2>7
    <2>9. /\ Len(a.starts) \in Nat /\ Len(b.starts) \in Nat /\ Len(c.starts) \in Nat
          /\ Len(a.reasons) \in Nat /\ Len(b.reasons) \in Nat /\ Len(c.reasons) \in Nat
      BY <2>8 DEF SegOK, IsSeq
    <2>10. ASSUME NEW i \in Len(a.starts) + 1 .. Len(c.starts) PROVE c.starts[i] > n
      <3>1. CASE i <= Len(b.starts)
        <4>1. i \in 1 .. Len(b.starts) /\ i \in Len(a.starts) + 1 .. Len(b.starts)
          BY <2>9, <3>1
        <4>2. QED
          BY <2>8, <4>1 DEF SegGrew
      <3>2. CASE ~(i <= Len(b.starts))
        <4>1. i \in Len(b.starts) + 1 .. Len(c.starts) /\ i \in 1 .. Len(c.starts)
          BY <2>9, <3>2
        <4>2. c.starts[i] > m /\ c.starts[i] \in 1 .. m + 1
          BY <2>8, <4>1 DEF SegGrew, SegOK
        <4>3. QED
          BY <2>3, <4>2
      <3>3. QED
        BY <3>1, <3>2
    <2>11. \A i \in 1 .. Len(a.starts) : c.starts[i] = a.starts[i]
      BY <2>8, <2>9 DEF SegGrew
    <2>12. \A i \in 1 .. Len(a.reasons) : c.reasons[i] = a.reasons[i]
      BY <2>8, <2>9 DEF SegGrew
    <2>13. Len(a.starts) <= Len(c.starts) /\ Len(a.reasons) <= Len(c.reasons)
      BY <2>8, <2>9 DEF SegGrew
    <2>14. SegGrew(a, c, n)
      BY <2>10, <2>11, <2>12, <2>13 DEF SegGrew
    <2>15. QED
      BY <2>3, <2>7, <2>14
  <1>5. Nat \subseteq W
    <2> HIDE DEF W
    <2>1. QED
      BY <1>3, <1>4, NatSteps
  <1>6. PICK d \in Nat : n + d = Len(turns)
    <2>1. Len(turns) - n \in Nat /\ n + (Len(turns) - n) = Len(turns)
      OBVIOUS
    <2>2. QED
      BY <2>1
  <1>7. d \in W
    BY <1>5
  <1>8. QED
    BY <1>6, <1>7 DEF S

\* Where slices start depends on the times of the turns so far.
LEMMA SegmentsAgree ==
    ASSUME NEW old, NEW new, Len(old) \in Nat, Len(new) \in Nat, Len(old) <= Len(new),
           \A k \in 1 .. Len(old) : new[k].at = old[k].at
    PROVE  Segments(new)[Len(old)] = Segments(old)[Len(old)]
  <1> DEFINE W == {n \in Nat : n <= Len(old) => Segments(new)[n] = Segments(old)[n]}
  <1>1. /\ Segments(old)[0] = NoSlice
        /\ \A n \in 1 .. Len(old) : Segments(old)[n] = Placed(Segments(old)[n - 1], n, old[n])
    BY SegmentsAre
  <1>2. /\ Segments(new)[0] = NoSlice
        /\ \A n \in 1 .. Len(new) : Segments(new)[n] = Placed(Segments(new)[n - 1], n, new[n])
    BY SegmentsAre
  <1>3. 0 \in W
    BY <1>1, <1>2
  <1>4. ASSUME NEW n \in Nat, n \in W PROVE n + 1 \in W
    <2>1. SUFFICES ASSUME n + 1 <= Len(old) PROVE Segments(new)[n + 1] = Segments(old)[n + 1]
      OBVIOUS
    <2>2. /\ n + 1 \in 1 .. Len(old) /\ n + 1 \in 1 .. Len(new) /\ (n + 1) - 1 = n
          /\ Segments(new)[n] = Segments(old)[n] /\ new[n + 1].at = old[n + 1].at
      BY <1>4, <2>1
    <2>3. /\ Segments(new)[n + 1] = Placed(Segments(old)[n], n + 1, new[n + 1])
          /\ Segments(old)[n + 1] = Placed(Segments(old)[n], n + 1, old[n + 1])
      BY <1>1, <1>2, <2>2
    <2>4. \A acc, k, t, u : t.at = u.at => Placed(acc, k, t) = Placed(acc, k, u)
      BY DEF Placed
    <2>5. QED
      BY <2>2, <2>3, <2>4
  <1>5. Nat \subseteq W
    <2> HIDE DEF W
    <2>1. QED
      BY <1>3, <1>4, NatSteps
  <1>6. Len(old) \in W
    BY <1>5
  <1>7. QED
    BY <1>6

\* The slices lie side by side from the first turn to the last.
SideBySide(parts, l) ==
    /\ IsSeq(parts)
    /\ \A i \in 1 .. Len(parts) : parts[i].from \in 1 .. l /\ parts[i].to \in parts[i].from .. l
    /\ \A i \in 1 .. Len(parts) : i + 1 \in 1 .. Len(parts) => parts[i + 1].from = parts[i].to + 1
    /\ \A i, j \in 1 .. Len(parts) : i < j => parts[i].to < parts[j].from
    /\ l = 0 <=> Len(parts) = 0
    /\ l # 0 => parts[1].from = 1 /\ parts[Len(parts)].to = l

LEMMA PartsAre ==
    ASSUME NEW turns, Len(turns) \in Nat
    PROVE  LET seg == Segments(turns)[Len(turns)]
           IN  /\ IsSeq(_segment(turns)) /\ Len(_segment(turns)) = Len(seg.starts)
               /\ \A i \in 1 .. Len(seg.starts) :
                    _segment(turns)[i] = [from |-> seg.starts[i], to |-> Ends(seg, i, Len(turns)),
                                          reason |-> IF i < Len(seg.starts) THEN seg.reasons[i] ELSE "open"]
  <1> DEFINE seg == Segments(turns)[Len(turns)]
             n == Len(seg.starts)
             parts == _segment(turns)
  <1>1. n \in Nat
    <2>1. SegOK(seg, Len(turns))
      BY SegmentsOK
    <2>2. QED
      BY <2>1 DEF SegOK, IsSeq
  <1>2. parts = [i \in 1 .. n |-> [from |-> seg.starts[i], to |-> Ends(seg, i, Len(turns)),
                                  reason |-> IF i < n THEN seg.reasons[i] ELSE "open"]]
    BY DEF _segment
  <1>3. parts = [i \in 1 .. n |-> parts[i]]
    BY <1>2
  <1>4. IsSeq(parts) /\ Len(parts) = n
    <2> HIDE DEF parts, n
    <2>1. QED
      BY <1>1, <1>3, FunIsSeq
  <1>5. QED
    BY <1>2, <1>4

LEMMA SlicesSideBySide ==
    ASSUME NEW turns, Len(turns) \in Nat
    PROVE  SideBySide(_segment(turns), Len(turns))
  <1>1. PICK l \in Nat : l = Len(turns)
    OBVIOUS
  <1>2. PICK seg : seg = Segments(turns)[Len(turns)]
    OBVIOUS
  <1>3. PICK parts : parts = _segment(turns)
    OBVIOUS
  <1>4. PICK n : n = Len(seg.starts)
    OBVIOUS
  <1>5. SegOK(seg, l)
    BY <1>1, <1>2, SegmentsOK
  <1>6. /\ n \in Nat /\ \A i \in 1 .. n : seg.starts[i] \in 1 .. l
        /\ \A i, j \in 1 .. n : i < j => seg.starts[i] < seg.starts[j]
        /\ l = 0 => n = 0
        /\ l # 0 => n # 0 /\ seg.starts[1] = 1
    BY <1>4, <1>5 DEF SegOK, IsSeq
  <1>7. /\ IsSeq(parts) /\ Len(parts) = n
        /\ \A i \in 1 .. n : parts[i] = [from |-> seg.starts[i], to |-> Ends(seg, i, l),
                                        reason |-> IF i < n THEN seg.reasons[i] ELSE "open"]
    BY <1>1, <1>2, <1>3, <1>4, PartsAre
  <1>8. \A i \in 1 .. n : parts[i].from = seg.starts[i] /\ parts[i].to = IF i < n THEN seg.starts[i + 1] - 1 ELSE l
    <2>1. \A i \in 1 .. n : parts[i].from = seg.starts[i] /\ parts[i].to = Ends(seg, i, l)
      BY <1>7
    <2>2. QED
      BY <1>4, <2>1 DEF Ends
  <1>9. ASSUME NEW i \in 1 .. n PROVE parts[i].from \in 1 .. l /\ parts[i].to \in parts[i].from .. l
    <2>1. seg.starts[i] \in 1 .. l
      BY <1>6
    <2>2. CASE i < n
      <3>1. i + 1 \in 1 .. n /\ i < i + 1
        BY <1>6, <2>2
      <3>2. seg.starts[i + 1] \in 1 .. l /\ seg.starts[i] < seg.starts[i + 1]
        BY <1>6, <3>1
      <3>3. QED
        BY <1>8, <2>1, <2>2, <3>2
    <2>3. CASE ~(i < n)
      BY <1>8, <2>1, <2>3
    <2>4. QED
      BY <2>2, <2>3
  <1>10. ASSUME NEW i \in 1 .. n, i + 1 \in 1 .. n PROVE parts[i + 1].from = parts[i].to + 1
    <2>1. i < n /\ seg.starts[i + 1] \in 1 .. l
      BY <1>6, <1>10
    <2>2. parts[i].to = seg.starts[i + 1] - 1 /\ parts[i + 1].from = seg.starts[i + 1]
      BY <1>8, <1>10, <2>1
    <2>3. QED
      BY <2>1, <2>2
  <1>11. ASSUME NEW i \in 1 .. n, NEW j \in 1 .. n, i < j PROVE parts[i].to < parts[j].from
    <2>1. i < n /\ i + 1 \in 1 .. n /\ (i + 1 = j \/ i + 1 < j)
      BY <1>6, <1>11
    <2>2. seg.starts[i + 1] \in 1 .. l /\ seg.starts[j] \in 1 .. l /\ (i + 1 < j => seg.starts[i + 1] < seg.starts[j])
      BY <1>6, <2>1
    <2>3. parts[i].to = seg.starts[i + 1] - 1 /\ parts[j].from = seg.starts[j]
      BY <1>8, <2>1
    <2>4. QED
      BY <2>1, <2>2, <2>3
  <1>12. l # 0 => parts[1].from = 1 /\ parts[n].to = l
    <2>1. SUFFICES ASSUME l # 0 PROVE parts[1].from = 1 /\ parts[n].to = l
      OBVIOUS
    <2>2. 1 \in 1 .. n /\ n \in 1 .. n /\ ~(n < n) /\ seg.starts[1] = 1
      BY <1>6, <2>1
    <2>3. QED
      BY <1>8, <2>2
  <1>13. SideBySide(parts, l)
    BY <1>6, <1>7, <1>9, <1>10, <1>11, <1>12 DEF SideBySide
  <1>14. QED
    BY <1>1, <1>3, <1>13

\* What is added up slice by slice is added up.
LEMMA SumOfParts ==
    ASSUME NEW v, Nats(v), NEW parts, SideBySide(parts, Len(v)), NEW y, Nats(y), Len(y) = Len(parts),
           \A i \in 1 .. Len(parts) : Sums(v)[parts[i].to] = Sums(v)[parts[i].from - 1] + y[i]
    PROVE  Total(y) = Total(v)
  <1>1. PICK l \in Nat : l = Len(v)
    BY DEF Nats
  <1>2. PICK n \in Nat : n = Len(parts)
    BY DEF Nats
  <1>3. /\ \A i \in 1 .. n : i + 1 \in 1 .. n => parts[i + 1].from = parts[i].to + 1
        /\ \A i \in 1 .. n : parts[i].from \in 1 .. l /\ parts[i].to \in parts[i].from .. l
        /\ l = 0 <=> n = 0
        /\ l # 0 => parts[1].from = 1 /\ parts[n].to = l
    BY <1>1, <1>2 DEF SideBySide
  <1>4. Sums(y)[0] = 0 /\ \A i \in 1 .. n : Sums(y)[i] = Sums(y)[i - 1] + y[i]
    BY <1>2, SumsAre
  <1>5. Sums(v)[0] = 0 /\ \A i \in 1 .. n : Sums(v)[parts[i].to] = Sums(v)[parts[i].from - 1] + y[i]
    BY <1>1, <1>2, SumsAre
  <1> DEFINE W == {i \in Nat : i + 1 <= n => Sums(y)[i + 1] = Sums(v)[parts[i + 1].to]}
  <1>6. 0 \in W
    <2>1. SUFFICES ASSUME 1 <= n PROVE Sums(y)[0 + 1] = Sums(v)[parts[0 + 1].to]
      OBVIOUS
    <2>2. 1 \in 1 .. n /\ 0 + 1 = 1 /\ 1 - 1 = 0 /\ parts[1].from = 1
      BY <1>3, <2>1
    <2>3. Sums(y)[1] = Sums(y)[1 - 1] + y[1] /\ Sums(v)[parts[1].to] = Sums(v)[parts[1].from - 1] + y[1]
      BY <1>4, <1>5, <2>2
    <2>4. QED
      BY <1>4, <1>5, <2>2, <2>3
  <1>7. ASSUME NEW i \in Nat, i \in W PROVE i + 1 \in W
    <2>1. SUFFICES ASSUME (i + 1) + 1 <= n PROVE Sums(y)[(i + 1) + 1] = Sums(v)[parts[(i + 1) + 1].to]
      OBVIOUS
    <2>2. PICK j \in Nat : j = i + 1
      OBVIOUS
    <2>3. j \in 1 .. n /\ j + 1 \in 1 .. n /\ (j + 1) - 1 = j /\ Sums(y)[j] = Sums(v)[parts[j].to]
      BY <1>7, <2>1, <2>2
    <2>4. parts[j + 1].from = parts[j].to + 1 /\ parts[j].to \in Nat /\ parts[j + 1].from - 1 = parts[j].to
      <3>1. parts[j + 1].from = parts[j].to + 1
        BY <1>3, <2>3
      <3>2. parts[j].to \in parts[j].from .. l /\ parts[j].from \in 1 .. l
        BY <1>3, <2>3
      <3>3. QED
        BY <3>1, <3>2
    <2>5. Sums(y)[j + 1] = Sums(y)[(j + 1) - 1] + y[j + 1] /\ Sums(v)[parts[j + 1].to] = Sums(v)[parts[j + 1].from - 1] + y[j + 1]
      BY <1>4, <1>5, <2>3
    <2>6. QED
      BY <2>2, <2>3, <2>4, <2>5
  <1>8. Nat \subseteq W
    <2> HIDE DEF W
    <2>1. QED
      BY <1>6, <1>7, NatSteps
  <1>9. CASE n = 0
    BY <1>1, <1>2, <1>3, <1>4, <1>5, <1>9 DEF Total
  <1>10. CASE n # 0
    <2>1. PICK i \in Nat : i + 1 = n
      <3>1. n - 1 \in Nat /\ (n - 1) + 1 = n
        BY <1>10
      <3>2. QED
        BY <3>1
    <2>2. i \in W
      BY <1>8
    <2>3. Sums(y)[n] = Sums(v)[l]
      BY <1>3, <1>10, <2>1, <2>2
    <2>4. QED
      BY <1>1, <1>2, <2>3 DEF Total
  <1>11. QED
    BY <1>9, <1>10

\* Every turn is in one slice.
Holders(parts, t) == {j \in 1 .. Len(parts) : t \in parts[j].from .. parts[j].to}

LEMMA OneSlice ==
    ASSUME NEW parts, NEW l \in Nat, SideBySide(parts, l), NEW t \in 1 .. l
    PROVE  \E i \in 1 .. Len(parts) : Holders(parts, t) = {i}
  <1>1. PICK n \in Nat : n = Len(parts)
    BY DEF SideBySide, IsSeq
  <1>2. /\ \A i \in 1 .. n : i + 1 \in 1 .. n => parts[i + 1].from = parts[i].to + 1
        /\ \A i \in 1 .. n : parts[i].from \in 1 .. l /\ parts[i].to \in parts[i].from .. l
        /\ \A i, j \in 1 .. n : i < j => parts[i].to < parts[j].from
        /\ n # 0 /\ parts[1].from = 1 /\ parts[n].to = l
    BY <1>1 DEF SideBySide
  <1> DEFINE S == {i \in 1 .. n : parts[i].from <= t}
  <1>3. S \subseteq Nat /\ S # {} /\ \A x \in S : x <= n
    <2>1. 1 \in S
      BY <1>2
    <2>2. QED
      BY <2>1
  <1>4. PICK i : i = Max(S)
    OBVIOUS
  <1>5. i \in S /\ \A x \in S : x <= i
    <2> HIDE DEF S
    <2>1. QED
      BY <1>3, <1>4, MaxOf
  <1>6. i \in 1 .. n /\ parts[i].from <= t
    BY <1>5
  <1>7. t <= parts[i].to
    <2>1. CASE i = n
      BY <1>2, <2>1
    <2>2. CASE i # n
      <3>1. i + 1 \in 1 .. n /\ ~(i + 1 <= i)
        BY <1>6, <2>2
      <3>2. ~(parts[i + 1].from <= t)
        BY <1>5, <3>1
      <3>3. parts[i + 1].from = parts[i].to + 1 /\ parts[i].to \in Nat
        BY <1>2, <1>6, <3>1
      <3>4. QED
        BY <3>2, <3>3
    <2>3. QED
      BY <2>1, <2>2
  <1>8. ASSUME NEW j \in 1 .. n, t \in parts[j].from .. parts[j].to PROVE j = i
    <2>1. /\ parts[j].from \in Nat /\ parts[j].to \in Nat /\ parts[i].from \in Nat /\ parts[i].to \in Nat
          /\ parts[j].from <= t /\ t <= parts[j].to
      BY <1>2, <1>6, <1>8
    <2>2. ~(j < i)
      BY <1>2, <1>6, <2>1
    <2>3. ~(i < j)
      BY <1>2, <1>6, <1>7, <2>1
    <2>4. QED
      BY <1>6, <2>2, <2>3
  <1>9. t \in parts[i].from .. parts[i].to
    <2>1. parts[i].from \in Nat /\ parts[i].to \in Nat
      BY <1>2, <1>6
    <2>2. QED
      BY <1>6, <1>7, <2>1
  <1>10. Holders(parts, t) = {i}
    BY <1>1, <1>6, <1>8, <1>9 DEF Holders
  <1>11. QED
    BY <1>1, <1>6, <1>10

\* Slices stay where they are when turns follow.
LEMMA PartsStable ==
    ASSUME NEW old, NEW new, Len(old) \in Nat, Len(new) \in Nat, Len(old) <= Len(new),
           \A k \in 1 .. Len(old) : new[k].at = old[k].at
    PROVE  /\ Len(_segment(old)) <= Len(_segment(new))
           /\ \A i \in 1 .. Len(_segment(old)) :
                /\ _segment(new)[i].from = _segment(old)[i].from
                /\ _segment(old)[i].to <= _segment(new)[i].to
                /\ i < Len(_segment(old)) =>
                     _segment(new)[i].to = _segment(old)[i].to /\ _segment(new)[i].reason = _segment(old)[i].reason
  <1>1. PICK l, m : l = Len(old) /\ m = Len(new)
    OBVIOUS
  <1>2. PICK a, b : a = Segments(old)[l] /\ b = Segments(new)[m]
    OBVIOUS
  <1>3. PICK p, q : p = _segment(old) /\ q = _segment(new)
    OBVIOUS
  <1>4. PICK n, o : n = Len(a.starts) /\ o = Len(b.starts)
    OBVIOUS
  <1>5. SegOK(a, l) /\ SegOK(b, m) /\ l \in Nat /\ m \in Nat /\ l <= m
    BY <1>1, <1>2, SegmentsOK
  <1>6. SegGrew(a, b, l)
    <2>1. a = Segments(new)[l]
      BY <1>1, <1>2, SegmentsAgree
    <2>2. QED
      BY <1>1, <1>2, <2>1, SegmentsGrow
  <1>7. n \in Nat /\ o \in Nat /\ n <= o
    BY <1>4, <1>5, <1>6 DEF SegOK, SegGrew, IsSeq
  <1>8. /\ Len(p) = n /\ \A i \in 1 .. n : p[i] = [from |-> a.starts[i], to |-> Ends(a, i, l),
                                                 reason |-> IF i < n THEN a.reasons[i] ELSE "open"]
        /\ Len(q) = o /\ \A i \in 1 .. o : q[i] = [from |-> b.starts[i], to |-> Ends(b, i, m),
                                                 reason |-> IF i < o THEN b.reasons[i] ELSE "open"]
    BY <1>1, <1>2, <1>3, <1>4, PartsAre
  <1>9. \A i \in 1 .. n : /\ p[i].from = a.starts[i] /\ p[i].to = Ends(a, i, l)
                          /\ p[i].reason = IF i < n THEN a.reasons[i] ELSE "open"
    BY <1>8
  <1>10. \A i \in 1 .. o : /\ q[i].from = b.starts[i] /\ q[i].to = Ends(b, i, m)
                           /\ q[i].reason = IF i < o THEN b.reasons[i] ELSE "open"
    BY <1>8
  <1>11. \A i \in 1 .. n : p[i].to = IF i < n THEN a.starts[i + 1] - 1 ELSE l
    BY <1>4, <1>9 DEF Ends
  <1>12. \A i \in 1 .. o : q[i].to = IF i < o THEN b.starts[i + 1] - 1 ELSE m
    BY <1>4, <1>10 DEF Ends
  <1>13. /\ \A i \in 1 .. n : b.starts[i] = a.starts[i]
         /\ \A i \in 1 .. n : i < n => b.reasons[i] = a.reasons[i]
         /\ \A i \in n + 1 .. o : b.starts[i] > l
    <2>1. n # 0 => Len(a.reasons) = n - 1
      BY <1>4, <1>5 DEF SegOK
    <2>2. ASSUME NEW i \in 1 .. n, i < n PROVE b.reasons[i] = a.reasons[i]
      <3>1. i \in 1 .. Len(a.reasons)
        BY <1>7, <2>1, <2>2
      <3>2. QED
        BY <1>6, <3>1 DEF SegGrew
    <2>3. QED
      BY <1>4, <1>6, <2>2 DEF SegGrew
  <1>14. ASSUME NEW i \in 1 .. n
         PROVE  /\ q[i].from = p[i].from /\ p[i].to <= q[i].to
                /\ i < n => q[i].to = p[i].to /\ q[i].reason = p[i].reason
    <2>1. i \in 1 .. o /\ q[i].from = p[i].from
      BY <1>7, <1>9, <1>10, <1>13
    <2>2. CASE i < n
      <3>1. i + 1 \in 1 .. n /\ i < o
        BY <1>7, <2>2
      <3>2. a.starts[i + 1] \in Nat /\ b.starts[i + 1] = a.starts[i + 1]
        BY <1>4, <1>5, <1>13, <3>1 DEF SegOK
      <3>3. p[i].to = a.starts[i + 1] - 1 /\ q[i].to = a.starts[i + 1] - 1
        BY <1>11, <1>12, <2>1, <2>2, <3>1, <3>2
      <3>4. q[i].reason = p[i].reason
        BY <1>9, <1>10, <1>13, <2>1, <2>2, <3>1
      <3>5. QED
        BY <2>1, <2>2, <3>2, <3>3, <3>4
    <2>3. CASE ~(i < n)
      <3>1. i = n /\ p[i].to = l
        BY <1>7, <1>11, <2>3
      <3>2. CASE i < o
        <4>1. n + 1 \in n + 1 .. o /\ n + 1 \in 1 .. o
          BY <1>7, <3>1, <3>2
        <4>2. b.starts[n + 1] > l /\ b.starts[n + 1] \in Nat
          BY <1>4, <1>5, <1>13, <4>1 DEF SegOK
        <4>3. q[i].to = b.starts[n + 1] - 1
          BY <1>12, <2>1, <3>1, <3>2
        <4>4. QED
          BY <1>5, <2>1, <2>3, <3>1, <4>2, <4>3
      <3>3. CASE ~(i < o)
        <4>1. q[i].to = m
          BY <1>12, <2>1, <3>3
        <4>2. QED
          BY <1>5, <2>1, <2>3, <3>1, <4>1
      <3>4. QED
        BY <3>2, <3>3
    <2>4. QED
      BY <2>2, <2>3
  <1>15. QED
    BY <1>3, <1>7, <1>8, <1>14

-----------------------------------------------------------------------------
\* Turns

IsTurn(t) == DOMAIN t = DOMAIN EmptyTurn /\ t.usage \in Nat
IsTurns(turns) == IsSeq(turns) /\ \A k \in 1 .. Len(turns) : IsTurn(turns[k])
\* What of a turn stays when more lines are read.
Same(t, u) == t.role = u.role /\ t.content = u.content /\ t.tool = u.tool /\ t.output = u.output /\ t.at = u.at
Grew(old, new) == Len(old) <= Len(new) /\ \A k \in 1 .. Len(old) : Same(new[k], old[k])

LEMMA DomainOf == ASSUME NEW s, IsSeq(s) PROVE DOMAIN s = 1 .. Len(s) /\ Len(s) \in Nat
  <1>1. s = [k \in 1 .. Len(s) |-> s[k]] /\ Len(s) \in Nat
    BY DEF IsSeq
  <1>2. DOMAIN [k \in 1 .. Len(s) |-> s[k]] = 1 .. Len(s)
    OBVIOUS
  <1>3. QED
    BY <1>1, <1>2

LEMMA TokensAre ==
    ASSUME NEW turns, IsTurns(turns)
    PROVE  /\ IsSeq(Tokens(turns)) /\ Len(Tokens(turns)) = Len(turns) /\ Nats(Tokens(turns))
           /\ \A k \in 1 .. Len(turns) : Tokens(turns)[k] = turns[k].usage
  <1>1. PICK n \in Nat : n = Len(turns) /\ DOMAIN turns = 1 .. n
    BY DomainOf DEF IsTurns
  <1>2. PICK v : v = Tokens(turns)
    OBVIOUS
  <1>3. v = [k \in 1 .. n |-> turns[k].usage]
    BY <1>1, <1>2 DEF Tokens
  <1>4. v = [k \in 1 .. n |-> v[k]] /\ \A k \in 1 .. n : v[k] = turns[k].usage
    BY <1>3
  <1>5. IsSeq(v) /\ Len(v) = n
    BY <1>4, FunIsSeq
  <1>6. \A k \in 1 .. n : turns[k].usage \in Nat
    BY <1>1 DEF IsTurns, IsTurn
  <1>7. QED
    BY <1>1, <1>2, <1>4, <1>5, <1>6 DEF Nats

LEMMA GrewMore ==
    ASSUME NEW a, NEW b, NEW c, Len(a) \in Nat, Len(b) \in Nat, Len(c) \in Nat, Grew(a, b), Grew(b, c)
    PROVE  Grew(a, c)
  <1>1. Len(a) <= Len(c)
    BY DEF Grew
  <1>2. ASSUME NEW k \in 1 .. Len(a) PROVE Same(c[k], a[k])
    <2>1. k \in 1 .. Len(b)
      BY DEF Grew
    <2>2. Same(b[k], a[k]) /\ Same(c[k], b[k])
      BY <2>1 DEF Grew
    <2>3. QED
      BY <2>2 DEF Same
  <1>3. QED
    BY <1>1, <1>2 DEF Grew

LEMMA GrewNot == ASSUME NEW a, Len(a) \in Nat PROVE Grew(a, a)
  BY DEF Grew, Same

\* Turns that are added, the first with all the usage.
Adds(made, u) ==
    /\ IsTurns(made) /\ \A k \in 2 .. Len(made) : made[k].usage = 0
    /\ IF Len(made) = 0 THEN u = 0 ELSE made[1].usage = u

LEMMA TurnsAdded ==
    ASSUME NEW turns, NEW made, NEW u, IsTurns(turns), Adds(made, u)
    PROVE  /\ IsTurns(turns \o made) /\ Grew(turns, turns \o made) /\ Len(turns \o made) = Len(turns) + Len(made)
           /\ \A k \in 1 .. Len(turns) : (turns \o made)[k] = turns[k]
           /\ \A k \in 1 .. Len(made) : (turns \o made)[Len(turns) + k] = made[k]
           /\ Total(Tokens(turns \o made)) = Total(Tokens(turns)) + u
  <1>1. PICK all : all = turns \o made
    OBVIOUS
  <1>2. PICK l \in Nat, m \in Nat : l = Len(turns) /\ m = Len(made)
    BY DomainOf DEF IsTurns, Adds
  <1>3. /\ IsSeq(all) /\ Len(all) = l + m
        /\ \A k \in 1 .. l : all[k] = turns[k]
        /\ \A k \in 1 .. m : all[l + k] = made[k]
    BY <1>1, <1>2, Joined DEF IsTurns, Adds
  <1>4. ASSUME NEW k \in 1 .. l + m, ~(k \in 1 .. l) PROVE k - l \in 1 .. m /\ l + (k - l) = k
    BY <1>4
  <1>5. ASSUME NEW k \in 1 .. l + m PROVE IsTurn(all[k])
    <2>1. CASE k \in 1 .. l
      BY <1>2, <1>3, <2>1 DEF IsTurns
    <2>2. CASE ~(k \in 1 .. l)
      <3>1. k - l \in 1 .. m /\ all[k] = made[k - l]
        BY <1>3, <1>4, <2>2
      <3>2. QED
        BY <1>2, <3>1 DEF IsTurns, Adds
    <2>3. QED
      BY <2>1, <2>2
  <1>6. IsTurns(all)
    BY <1>3, <1>5 DEF IsTurns
  <1>7. Grew(turns, all)
    BY <1>2, <1>3 DEF Grew, Same
  <1>8. PICK v, w : v = Tokens(turns) /\ w = Tokens(all)
    OBVIOUS
  <1>9. /\ Len(v) = l /\ Nats(v) /\ \A k \in 1 .. l : v[k] = turns[k].usage
        /\ Len(w) = l + m /\ Nats(w) /\ \A k \in 1 .. l + m : w[k] = all[k].usage
    BY <1>2, <1>3, <1>6, <1>8, TokensAre
  <1>10. \A k \in 1 .. l : v[k] = w[k]
    BY <1>3, <1>9
  <1>11. Sums(w)[l] = Total(v) /\ Total(v) \in Nat
    <2>1. l \in 0 .. l /\ Len(v) \in Nat /\ Len(w) \in Nat /\ l <= Len(v) /\ l <= Len(w)
      BY <1>9
    <2>2. \A n \in 0 .. l : Sums(v)[n] = Sums(w)[n]
      BY <1>10, <2>1, PrefixSums
    <2>3. QED
      BY <1>9, <2>1, <2>2, TotalNat DEF Total
  <1>12. CASE m = 0
    <2>1. u = 0 /\ Total(w) = Sums(w)[l]
      BY <1>2, <1>9, <1>12 DEF Adds, Total
    <2>2. QED
      BY <1>1, <1>2, <1>3, <1>6, <1>7, <1>8, <1>11, <2>1
  <1>13. CASE m # 0
    <2>1. u = made[1].usage /\ 1 \in 1 .. m /\ l + 1 \in 1 .. l + m /\ (l + 1) - 1 = l
      BY <1>2, <1>13 DEF Adds
    <2>2. w[l + 1] = u /\ u \in Nat
      BY <1>2, <1>3, <1>9, <2>1 DEF Adds, IsTurns, IsTurn
    <2>3. Sums(w)[l + 1] = Sums(w)[l] + u
      <3>1. Len(w) \in Nat /\ l + 1 \in 1 .. Len(w)
        BY <1>9, <2>1
      <3>2. Sums(w)[l + 1] = Sums(w)[(l + 1) - 1] + w[l + 1]
        BY <3>1, SumsAre
      <3>3. QED
        BY <2>1, <2>2, <3>2
    <2>4. ASSUME NEW k \in (l + 1) + 1 .. Len(w) PROVE w[k] = 0
      <3>1. k \in 1 .. l + m /\ ~(k \in 1 .. l) /\ k - l \in 2 .. m
        BY <1>9, <2>4
      <3>2. all[k] = made[k - l]
        BY <1>3, <1>4, <3>1
      <3>3. QED
        BY <1>2, <1>9, <3>1, <3>2 DEF Adds
    <2>5. l + 1 \in 0 .. Len(w)
      BY <1>9, <2>1
    <2>6. Total(w) = Sums(w)[l + 1]
      BY <1>9, <2>4, <2>5, ZeroSums
    <2>7. QED
      BY <1>1, <1>2, <1>3, <1>6, <1>7, <1>8, <1>11, <2>3, <2>6
  <1>14. QED
    BY <1>12, <1>13

\* A usage put where none was.
LEMMA UsageAdded ==
    ASSUME NEW turns, IsTurns(turns), NEW a \in 1 .. Len(turns), turns[a].usage = 0, NEW u \in Nat
    PROVE  LET new == [turns EXCEPT ![a].usage = u]
           IN  /\ IsTurns(new) /\ Grew(turns, new) /\ Len(new) = Len(turns)
               /\ Total(Tokens(new)) = Total(Tokens(turns)) + u
  <1>1. PICK new : new = [turns EXCEPT ![a].usage = u]
    OBVIOUS
  <1>2. PICK n \in Nat : n = Len(turns) /\ DOMAIN turns = 1 .. n
    BY DomainOf DEF IsTurns
  <1>3. /\ new = [k \in 1 .. n |-> new[k]]
        /\ \A k \in 1 .. n : new[k] = IF k = a THEN [turns[a] EXCEPT !.usage = u] ELSE turns[k]
    BY <1>1, <1>2
  <1>4. IsSeq(new) /\ Len(new) = n
    BY <1>3, FunIsSeq
  <1>5. ASSUME NEW k \in 1 .. n
        PROVE  /\ IsTurn(new[k]) /\ Same(new[k], turns[k])
               /\ new[k].usage = IF k = a THEN u ELSE turns[k].usage
    <2>1. IsTurn(turns[k])
      BY <1>2 DEF IsTurns
    <2>2. CASE k = a
      <3>1. new[k] = [turns[k] EXCEPT !.usage = u]
        BY <1>3, <2>2
      <3>2. QED
        BY <2>1, <2>2, <3>1 DEF IsTurn, Same, EmptyTurn
    <2>3. CASE k # a
      BY <1>3, <2>1, <2>3 DEF Same
    <2>4. QED
      BY <2>2, <2>3
  <1>6. IsTurns(new) /\ Grew(turns, new)
    BY <1>2, <1>4, <1>5 DEF IsTurns, Grew
  <1>7. PICK v, w : v = Tokens(turns) /\ w = Tokens(new)
    OBVIOUS
  <1>8. /\ Len(v) = n /\ Nats(v) /\ \A k \in 1 .. n : v[k] = turns[k].usage
        /\ Len(w) = n /\ Nats(w) /\ \A k \in 1 .. n : w[k] = new[k].usage
    BY <1>2, <1>4, <1>6, <1>7, TokensAre
  <1>9. a \in 1 .. Len(v) /\ w[a] = v[a] + u /\ \A k \in 1 .. Len(v) : k # a => w[k] = v[k]
    BY <1>2, <1>5, <1>8
  <1>10. Total(w) = Total(v) + u
    BY <1>8, <1>9, ChangedSum
  <1>11. QED
    BY <1>1, <1>2, <1>4, <1>6, <1>7, <1>10

-----------------------------------------------------------------------------
\* Lines

IsLine(line) ==
    /\ DOMAIN line = DOMAIN Line /\ line.usage \in Nat
    /\ Len(line.blocks) \in Nat /\ DOMAIN line.blocks = 1 .. Len(line.blocks)

\* Turns read so far: in a Codex file, no usage since the last report.
TurnsOK(f, turns, boundary) ==
    /\ IsTurns(turns) /\ boundary \in 0 .. Len(turns)
    /\ f # "claude" => \A k \in boundary + 1 .. Len(turns) : turns[k].usage = 0

\* What reading a line of usage u and summary s does.
Advances(f, acc, next, u, s) ==
    /\ DOMAIN next = DOMAIN ReadNothing
    /\ TurnsOK(f, next.turns, next.boundary) /\ Grew(acc.turns, next.turns)
    /\ Total(Tokens(next.turns)) = Total(Tokens(acc.turns)) + u
    /\ next.summary = (IF s = "" THEN acc.summary ELSE s)
    /\ next.summary_at = (IF s = "" THEN acc.summary_at ELSE Len(acc.turns))

LEMMA PickedIs ==
    ASSUME NEW line, IsLine(line), NEW S \in SUBSET DOMAIN line.blocks
    PROVE  \E n \in Nat : DOMAIN Picked(line.blocks, S) = 1 .. n /\ (n = 0 <=> Picked(line.blocks, S) = <<>>)
  <1>1. IsFiniteSet(1 .. Len(line.blocks))
    BY FS_Interval DEF IsLine
  <1>2. IsFiniteSet(S)
    BY <1>1, FS_Subset DEF IsLine
  <1>3. PICK n \in Nat : n = Cardinality(S)
    BY <1>2, FS_CardinalityType
  <1>4. PICK p : p = Picked(line.blocks, S)
    OBVIOUS
  <1>5. DOMAIN p = 1 .. n /\ p = [k \in 1 .. n |-> p[k]]
    BY <1>3, <1>4 DEF Picked
  <1>6. IsSeq(p) /\ Len(p) = n
    BY <1>5, FunIsSeq
  <1>7. QED
    BY <1>4, <1>5, <1>6, NoneLeft

\* Turns without usage.
LEMMA AddsFree ==
    ASSUME NEW made, NEW n \in Nat, made = [k \in 1 .. n |-> made[k]],
           \A k \in 1 .. n : IsTurn(made[k]) /\ made[k].usage = 0
    PROVE  Adds(made, 0) /\ \A k \in 1 .. Len(made) : made[k].usage = 0
  <1>1. IsSeq(made) /\ Len(made) = n
    BY FunIsSeq
  <1>2. QED
    BY <1>1 DEF Adds, IsTurns

LEMMA UserTurns ==
    ASSUME NEW line, IsLine(line), NEW names
    PROVE  Adds(_user_turns(line, names), 0)
  <1> DEFINE S == {k \in DOMAIN line.blocks : line.blocks[k].type \in {"text", "tool_result"}}
  <1>1. PICK kept : kept = Picked(line.blocks, S)
    OBVIOUS
  <1>2. PICK n \in Nat : DOMAIN kept = 1 .. n
    BY <1>1, PickedIs
  <1>3. PICK made : made = _user_turns(line, names)
    OBVIOUS
  <1>4. \A b : LET t == [EmptyTurn EXCEPT !.content = b.text, !.at = line.at] IN IsTurn(t) /\ t.usage = 0
    BY DEF IsTurn, EmptyTurn
  <1>5. \A b : LET t == [EmptyTurn EXCEPT !.role = "tool", !.output = b.text, !.error = b.bad, !.tid = b.tid,
                                         !.tool = ToolName(names, b.tid), !.at = line.at]
               IN  IsTurn(t) /\ t.usage = 0
    BY DEF IsTurn, EmptyTurn
  <1>6. made = [k \in DOMAIN kept |->
                 IF kept[k].type = "text" THEN [EmptyTurn EXCEPT !.content = kept[k].text, !.at = line.at]
                 ELSE [EmptyTurn EXCEPT !.role = "tool", !.output = kept[k].text, !.error = kept[k].bad,
                                        !.tid = kept[k].tid, !.tool = ToolName(names, kept[k].tid), !.at = line.at]]
    BY <1>1, <1>3 DEF _user_turns
  <1>7. made = [k \in 1 .. n |-> made[k]] /\ \A k \in 1 .. n : IsTurn(made[k]) /\ made[k].usage = 0
    <2>1. made = [k \in 1 .. n |-> made[k]]
      BY <1>2, <1>6
    <2>2. ASSUME NEW k \in 1 .. n PROVE IsTurn(made[k]) /\ made[k].usage = 0
      <3>1. CASE kept[k].type = "text"
        <4>1. made[k] = [EmptyTurn EXCEPT !.content = kept[k].text, !.at = line.at]
          BY <1>2, <1>6, <3>1
        <4>2. QED
          BY <1>4, <4>1
      <3>2. CASE kept[k].type # "text"
        <4>1. made[k] = [EmptyTurn EXCEPT !.role = "tool", !.output = kept[k].text, !.error = kept[k].bad,
                                        !.tid = kept[k].tid, !.tool = ToolName(names, kept[k].tid), !.at = line.at]
          BY <1>2, <1>6, <3>2
        <4>2. QED
          BY <1>5, <4>1
      <3>3. QED
        BY <3>1, <3>2
    <2>3. QED
      BY <2>1, <2>2
  <1>8. QED
    BY <1>3, <1>7, AddsFree

LEMMA AssistantTurns ==
    ASSUME NEW line, IsLine(line)
    PROVE  Adds(_assistant_turns(line), line.usage)
  <1> DEFINE S == {k \in DOMAIN line.blocks :
                     \/ line.blocks[k].type = "tool_use"
                     \/ line.blocks[k].type = "text" /\ line.blocks[k].text # ""}
             blank == [EmptyTurn EXCEPT !.role = "assistant", !.model = line.model, !.at = line.at]
  <1>1. PICK kept : kept = Picked(line.blocks, S)
    OBVIOUS
  <1>2. PICK n \in Nat : DOMAIN kept = 1 .. n /\ (n = 0 <=> kept = <<>>)
    BY <1>1, PickedIs
  <1>3. PICK u \in Nat : u = line.usage
    BY DEF IsLine
  <1>4. PICK made : made = IF kept = <<>> /\ u # 0 THEN <<blank>>
                           ELSE [k \in DOMAIN kept |-> [blank EXCEPT !.content = kept[k].text, !.tool = kept[k].tool,
                                                                     !.path = kept[k].path, !.tid = kept[k].tid]]
    OBVIOUS
  <1>5. PICK turns : turns = _assistant_turns(line)
    OBVIOUS
  <1>6. turns = [k \in DOMAIN made |-> IF k = 1 THEN [made[k] EXCEPT !.usage = u] ELSE made[k]]
    BY <1>1, <1>3, <1>4, <1>5 DEF _assistant_turns
  <1>7. IsTurn(blank) /\ blank.usage = 0
    BY DEF IsTurn, EmptyTurn
  <1>8. \A b : LET t == [blank EXCEPT !.content = b.text, !.tool = b.tool, !.path = b.path, !.tid = b.tid]
               IN  IsTurn(t) /\ t.usage = 0
    BY <1>7 DEF IsTurn, EmptyTurn
  <1> HIDE DEF blank
  <1>9. PICK m \in Nat : DOMAIN made = 1 .. m /\ (m = 0 => u = 0) /\ \A k \in 1 .. m : IsTurn(made[k]) /\ made[k].usage = 0
    <2>1. CASE kept = <<>> /\ u # 0
      <3>1. DOMAIN made = 1 .. 1 /\ \A k \in 1 .. 1 : made[k] = blank
        BY <1>4, <2>1
      <3>2. QED
        BY <1>7, <3>1
    <2>2. CASE ~(kept = <<>> /\ u # 0)
      <3>1. made = [k \in 1 .. n |-> [blank EXCEPT !.content = kept[k].text, !.tool = kept[k].tool,
                                                  !.path = kept[k].path, !.tid = kept[k].tid]]
        BY <1>2, <1>4, <2>2
      <3>2. DOMAIN made = 1 .. n /\ (n = 0 => u = 0)
        BY <1>2, <2>2, <3>1
      <3>3. \A k \in 1 .. n : IsTurn(made[k]) /\ made[k].usage = 0
        BY <1>8, <3>1
      <3>4. QED
        BY <3>2, <3>3
    <2>3. QED
      BY <2>1, <2>2
  <1>10. turns = [k \in 1 .. m |-> turns[k]]
    BY <1>6, <1>9
  <1>11. IsSeq(turns) /\ Len(turns) = m
    BY <1>10, FunIsSeq
  <1>12. ASSUME NEW k \in 1 .. m PROVE IsTurn(turns[k]) /\ turns[k].usage = IF k = 1 THEN u ELSE 0
    <2>1. IsTurn(made[k]) /\ made[k].usage = 0
      BY <1>9
    <2>2. CASE k = 1
      <3>1. turns[k] = [made[k] EXCEPT !.usage = u]
        BY <1>6, <1>9, <2>2
      <3>2. QED
        BY <2>1, <2>2, <3>1 DEF IsTurn, EmptyTurn
    <2>3. CASE k # 1
      BY <1>6, <1>9, <2>1, <2>3
    <2>4. QED
      BY <2>2, <2>3
  <1>13. Adds(turns, u)
    BY <1>9, <1>11, <1>12 DEF Adds, IsTurns
  <1>14. QED
    BY <1>3, <1>5, <1>13

LEMMA PlusNothing == ASSUME NEW n \in Nat PROVE n = n + 0
  OBVIOUS

\* Reading on: nothing is added, or turns are.
LEMMA StillAdvances ==
    ASSUME NEW f, NEW acc, NEW next, NEW s, TurnsOK(f, acc.turns, acc.boundary),
           DOMAIN next = DOMAIN ReadNothing, next.turns = acc.turns, next.boundary = acc.boundary,
           next.summary = (IF s = "" THEN acc.summary ELSE s),
           next.summary_at = (IF s = "" THEN acc.summary_at ELSE Len(acc.turns))
    PROVE  Advances(f, acc, next, 0, s)
  <1>1. IsTurns(acc.turns) /\ Len(acc.turns) \in Nat
    BY DomainOf DEF TurnsOK, IsTurns
  <1>2. Total(Tokens(acc.turns)) \in Nat /\ Grew(acc.turns, acc.turns)
    BY <1>1, TokensAre, TotalNat, GrewNot
  <1>3. PICK n \in Nat : n = Total(Tokens(acc.turns))
    BY <1>2
  <1>4. TurnsOK(f, next.turns, next.boundary) /\ Grew(acc.turns, next.turns)
    BY <1>2
  <1>5. Total(Tokens(next.turns)) = Total(Tokens(acc.turns)) + 0
    <2>1. Total(Tokens(next.turns)) = n
      BY <1>3
    <2>2. n = n + 0
      BY <1>3, PlusNothing
    <2>3. QED
      BY <1>3, <2>1, <2>2
  <1>6. QED
    BY <1>4, <1>5 DEF Advances

LEMMA AddingAdvances ==
    ASSUME NEW f, NEW acc, NEW next, NEW made, NEW u, TurnsOK(f, acc.turns, acc.boundary),
           DOMAIN next = DOMAIN ReadNothing, next.turns = acc.turns \o made, next.boundary = acc.boundary,
           next.summary = acc.summary, next.summary_at = acc.summary_at,
           Adds(made, u), f # "claude" => u = 0
    PROVE  Advances(f, acc, next, u, "")
  <1>1. PICK turns, b : turns = acc.turns /\ b = acc.boundary
    OBVIOUS
  <1>2. IsTurns(turns) /\ TurnsOK(f, turns, b)
    BY <1>1 DEF TurnsOK
  <1>3. PICK l \in Nat, m \in Nat : l = Len(turns) /\ m = Len(made)
    BY <1>2, DomainOf DEF IsTurns, Adds
  <1>4. PICK all : all = turns \o made
    OBVIOUS
  <1>5. /\ IsTurns(all) /\ Grew(turns, all) /\ Len(all) = l + m
        /\ \A k \in 1 .. l : all[k] = turns[k]
        /\ \A k \in 1 .. m : all[l + k] = made[k]
        /\ Total(Tokens(all)) = Total(Tokens(turns)) + u
    BY <1>2, <1>3, <1>4, TurnsAdded
  <1>6. b \in 0 .. l /\ (f # "claude" => \A k \in b + 1 .. l : turns[k].usage = 0)
    BY <1>2, <1>3 DEF TurnsOK
  <1>7. ASSUME f # "claude", NEW k \in b + 1 .. l + m PROVE all[k].usage = 0
    <2>1. CASE k <= l
      <3>1. k \in 1 .. l /\ k \in b + 1 .. l
        BY <1>6, <1>7, <2>1
      <3>2. QED
        BY <1>5, <1>6, <1>7, <3>1
    <2>2. CASE ~(k <= l)
      <3>1. PICK j \in 1 .. m : k = l + j
        <4>1. k - l \in 1 .. m /\ k = l + (k - l)
          BY <1>6, <1>7, <2>2
        <4>2. QED
          BY <4>1
      <3>2. made[j].usage = 0
        <4>1. CASE j = 1
          BY <1>3, <1>7, <4>1 DEF Adds
        <4>2. CASE j # 1
          <5>1. j \in 2 .. Len(made)
            BY <1>3, <4>2
          <5>2. QED
            BY <5>1 DEF Adds
        <4>3. QED
          BY <4>1, <4>2
      <3>3. QED
        BY <1>5, <3>1, <3>2
    <2>3. QED
      BY <2>1, <2>2
  <1>8. b \in 0 .. l + m
    BY <1>6
  <1>9. TurnsOK(f, all, b)
    BY <1>5, <1>7, <1>8 DEF TurnsOK
  <1>10. QED
    BY <1>1, <1>4, <1>5, <1>9 DEF Advances

\* A Claude Code line.
LEMMA ClaudeAdvances ==
    ASSUME NEW line, IsLine(line), NEW acc, DOMAIN acc = DOMAIN ReadNothing,
           TurnsOK("claude", acc.turns, acc.boundary)
    PROVE  Advances("claude", acc, ClaudeLine(acc, line), UsageOf("claude", line), SummaryOf("claude", line))
  <1>1. PICK a : a = [acc EXCEPT !.cwd = IF acc.cwd = None THEN line.cwd ELSE acc.cwd]
    OBVIOUS
  <1>2. /\ DOMAIN a = DOMAIN ReadNothing /\ a.turns = acc.turns /\ a.boundary = acc.boundary
        /\ a.summary = acc.summary /\ a.summary_at = acc.summary_at
    BY <1>1 DEF ReadNothing
  <1>3. PICK next : next = ClaudeLine(acc, line)
    OBVIOUS
  <1>4. CASE line.kind = "summary"
    <2>1. next = IF line.text = "" THEN a ELSE [a EXCEPT !.summary = line.text, !.summary_at = Len(a.turns)]
      <3>1. CASE line.text = ""
        BY <1>1, <1>3, <1>4, <3>1 DEF ClaudeLine
      <3>2. CASE line.text # ""
        <4>1. ClaudeLine(acc, line) =
                LET b == [acc EXCEPT !.cwd = IF acc.cwd = None THEN line.cwd ELSE acc.cwd]
                IN  [b EXCEPT !.summary = line.text, !.summary_at = Len(b.turns)]
          BY ONLY <1>4, <3>2 DEF ClaudeLine
        <4>2. QED
          BY <1>1, <1>3, <3>2, <4>1
      <3>3. QED
        BY <3>1, <3>2
    <2>2. /\ DOMAIN next = DOMAIN ReadNothing /\ next.turns = acc.turns /\ next.boundary = acc.boundary
          /\ next.summary = (IF line.text = "" THEN acc.summary ELSE line.text)
          /\ next.summary_at = (IF line.text = "" THEN acc.summary_at ELSE Len(acc.turns))
      BY <1>2, <2>1 DEF ReadNothing
    <2>3. Advances("claude", acc, next, 0, line.text)
      BY <2>2, StillAdvances
    <2>4. UsageOf("claude", line) = 0 /\ SummaryOf("claude", line) = line.text
      BY <1>4 DEF UsageOf, SummaryOf
    <2>5. QED
      BY <1>3, <2>3, <2>4
  <1>5. CASE line.kind = "user"
    <2>1. PICK made : made = _user_turns(line, a.names)
      OBVIOUS
    <2>2. Adds(made, 0)
      BY <2>1, UserTurns
    <2>3. next = [a EXCEPT !.turns = a.turns \o made]
      BY <1>1, <1>3, <1>5, <2>1 DEF ClaudeLine
    <2>4. /\ DOMAIN next = DOMAIN ReadNothing /\ next.turns = acc.turns \o made /\ next.boundary = acc.boundary
          /\ next.summary = acc.summary /\ next.summary_at = acc.summary_at
      BY <1>2, <2>3 DEF ReadNothing
    <2>5. Advances("claude", acc, next, 0, "")
      BY <2>2, <2>4, AddingAdvances
    <2>6. UsageOf("claude", line) = 0 /\ SummaryOf("claude", line) = ""
      BY <1>5 DEF UsageOf, SummaryOf
    <2>7. QED
      BY <1>3, <2>5, <2>6
  <1>6. CASE line.kind = "assistant"
    <2>1. PICK made : made = _assistant_turns(line)
      OBVIOUS
    <2>2. Adds(made, line.usage)
      BY <2>1, AssistantTurns
    <2>3. next = [a EXCEPT !.turns = a.turns \o made, !.names = ToolNames(line) @@ a.names]
      BY <1>1, <1>3, <1>6, <2>1 DEF ClaudeLine
    <2>4. /\ DOMAIN next = DOMAIN ReadNothing /\ next.turns = acc.turns \o made /\ next.boundary = acc.boundary
          /\ next.summary = acc.summary /\ next.summary_at = acc.summary_at
      BY <1>2, <2>3 DEF ReadNothing
    <2>5. Advances("claude", acc, next, line.usage, "")
      BY <2>2, <2>4, AddingAdvances
    <2>6. UsageOf("claude", line) = line.usage /\ SummaryOf("claude", line) = ""
      BY <1>6 DEF UsageOf, SummaryOf
    <2>7. QED
      BY <1>3, <2>5, <2>6
  <1>7. CASE line.kind \notin {"summary", "user", "assistant"}
    <2>1. next = a
      BY <1>1, <1>3, <1>7 DEF ClaudeLine
    <2>2. Advances("claude", acc, next, 0, "")
      BY <1>2, <2>1, StillAdvances
    <2>3. UsageOf("claude", line) = 0 /\ SummaryOf("claude", line) = ""
      BY <1>7 DEF UsageOf, SummaryOf
    <2>4. QED
      BY <1>3, <2>2, <2>3
  <1>8. QED
    BY <1>4, <1>5, <1>6, <1>7

-----------------------------------------------------------------------------
\* A Codex line.

\* Nothing changes that the turns or the summary depend on.
Keeps(acc, next) ==
    /\ DOMAIN next = DOMAIN ReadNothing /\ next.turns = acc.turns /\ next.boundary = acc.boundary
    /\ next.summary = acc.summary /\ next.summary_at = acc.summary_at

LEMMA PreferKeeps ==
    ASSUME NEW acc, NEW dir, NEW rank, DOMAIN acc = DOMAIN ReadNothing
    PROVE  Keeps(acc, _prefer_cwd(acc, dir, rank))
  <1>1. _prefer_cwd(acc, dir, rank) \in {acc, [acc EXCEPT !.cwd = dir, !.rank = rank]}
    BY DEF _prefer_cwd
  <1>2. Keeps(acc, acc) /\ Keeps(acc, [acc EXCEPT !.cwd = dir, !.rank = rank])
    BY DEF Keeps, ReadNothing
  <1>3. QED
    BY <1>1, <1>2

LEMMA KeepsAdvances ==
    ASSUME NEW acc, NEW next, NEW mid, TurnsOK("codex", acc.turns, acc.boundary), Keeps(acc, mid), Keeps(mid, next)
    PROVE  Advances("codex", acc, next, 0, "")
  <1>1. /\ DOMAIN next = DOMAIN ReadNothing /\ next.turns = acc.turns /\ next.boundary = acc.boundary
        /\ next.summary = acc.summary /\ next.summary_at = acc.summary_at
    BY DEF Keeps
  <1>2. QED
    BY <1>1, StillAdvances

\* Turns without usage are added.
LEMMA TurnAdvances ==
    ASSUME NEW acc, NEW next, NEW n \in Nat, NEW made, TurnsOK("codex", acc.turns, acc.boundary),
           DOMAIN next = DOMAIN ReadNothing, next.turns = acc.turns \o made, next.boundary = acc.boundary,
           next.summary = acc.summary, next.summary_at = acc.summary_at,
           made = [k \in 1 .. n |-> made[k]], \A k \in 1 .. n : IsTurn(made[k]) /\ made[k].usage = 0
    PROVE  Advances("codex", acc, next, 0, "")
  <1>1. Adds(made, 0)
    BY AddsFree
  <1>2. QED
    BY <1>1, AddingAdvances

LEMMA AppendIs ==
    ASSUME NEW s, NEW x, IsSeq(s)
    PROVE  Append(s, x) = s \o <<x>> /\ <<x>> = [k \in 1 .. 1 |-> <<x>>[k]] /\ <<x>>[1] = x
  <1> DEFINE V == Elements(s) \cup {x}
  <1>1. s \in Seq(V) /\ x \in V
    BY ElementsSeq DEF Elements, IsSeq
  <1>2. <<x>> = [k \in 1 .. 1 |-> <<x>>[k]] /\ <<x>>[1] = x
    OBVIOUS
  <1> HIDE DEF V
  <1>3. Append(s, x) = s \o <<x>>
    BY <1>1, AppendIsConcat
  <1>4. QED
    BY <1>2, <1>3

LEMMA BareTurn ==
    ASSUME NEW line, NEW role, NEW model
    PROVE  /\ IsTurn(_make_turn(line, role, model)) /\ _make_turn(line, role, model).usage = 0
           /\ DOMAIN _make_turn(line, role, model) = DOMAIN EmptyTurn
  <1>1. PICK t : t = _make_turn(line, role, model)
    OBVIOUS
  <1>2. t = [EmptyTurn EXCEPT !.role = role, !.model = model, !.at = line.at]
    BY <1>1 DEF _make_turn
  <1>3. IsTurn(t) /\ t.usage = 0
    BY <1>2 DEF IsTurn, EmptyTurn
  <1>4. QED
    BY <1>1, <1>3 DEF IsTurn

\* The lines that say where and with which model.
LEMMA ContextAdvances ==
    ASSUME NEW line, NEW acc, DOMAIN acc = DOMAIN ReadNothing, TurnsOK("codex", acc.turns, acc.boundary),
           line.kind \in {"session_meta", "turn_context", "world_state", "thread_settings"}
    PROVE  Advances("codex", acc, CodexLine(acc, line), 0, "")
  <1>1. PICK next : next = CodexLine(acc, line)
    OBVIOUS
  <1>2. PICK mid, dir, rank : next = _prefer_cwd(mid, dir, rank) /\ Keeps(acc, mid)
    <2>1. CASE line.kind = "session_meta"
      <3>1. PICK mid : mid = [acc EXCEPT !.id = IF line.id = None THEN acc.id ELSE line.id]
        OBVIOUS
      <3>2. next = _prefer_cwd(mid, line.cwd, 1)
        BY <1>1, <2>1, <3>1 DEF CodexLine, SessionMeta
      <3>3. Keeps(acc, mid)
        BY <3>1 DEF Keeps, ReadNothing
      <3>4. QED
        BY <3>2, <3>3
    <2>2. CASE line.kind = "turn_context"
      <3>1. PICK mid : mid = [acc EXCEPT !.model = IF line.model = None THEN acc.model ELSE line.model]
        OBVIOUS
      <3>2. PICK placed : placed = _prefer_cwd(mid, line.cwd, 4)
        OBVIOUS
      <3>3. next = _prefer_cwd(placed, WorkspaceRoot(line.roots), 5)
        BY <1>1, <2>2, <3>1, <3>2 DEF CodexLine, TurnContext
      <3>4. Keeps(acc, mid) /\ DOMAIN mid = DOMAIN ReadNothing
        BY <3>1 DEF Keeps, ReadNothing
      <3>5. Keeps(mid, placed)
        BY <3>2, <3>4, PreferKeeps
      <3>6. Keeps(acc, placed)
        BY <3>4, <3>5 DEF Keeps
      <3>7. QED
        BY <3>3, <3>6
    <2>3. CASE line.kind = "world_state"
      <3>1. next = _prefer_cwd(acc, line.cwd, 2)
        BY <1>1, <2>3 DEF CodexLine, WorldState
      <3>2. Keeps(acc, acc)
        BY DEF Keeps
      <3>3. QED
        BY <3>1, <3>2
    <2>4. CASE line.kind = "thread_settings"
      <3>1. PICK mid : mid = [acc EXCEPT !.model = IF line.model = None THEN acc.model ELSE line.model]
        OBVIOUS
      <3>2. next = _prefer_cwd(mid, line.cwd, 3)
        BY <1>1, <2>4, <3>1 DEF CodexLine, ThreadSettings
      <3>3. Keeps(acc, mid)
        BY <3>1 DEF Keeps, ReadNothing
      <3>4. QED
        BY <3>2, <3>3
    <2>5. QED
      BY <2>1, <2>2, <2>3, <2>4
  <1>3. DOMAIN mid = DOMAIN ReadNothing
    BY <1>2 DEF Keeps
  <1>4. Keeps(mid, next)
    BY <1>2, <1>3, PreferKeeps
  <1>5. Advances("codex", acc, next, 0, "")
    BY <1>2, <1>4, KeepsAdvances
  <1>6. QED
    BY <1>1, <1>5

LEMMA CompactedAdvances ==
    ASSUME NEW line, NEW acc, DOMAIN acc = DOMAIN ReadNothing, TurnsOK("codex", acc.turns, acc.boundary),
           line.kind = "compacted"
    PROVE  Advances("codex", acc, CodexLine(acc, line), 0, line.text)
  <1>1. PICK next : next = CodexLine(acc, line)
    OBVIOUS
  <1>2. CASE line.text = ""
    <2>1. next = acc
      BY <1>1, <1>2 DEF CodexLine, Compacted, _summary_from_entry
    <2>2. Advances("codex", acc, next, 0, line.text)
      BY <1>2, <2>1, StillAdvances
    <2>3. QED
      BY <1>1, <2>2
  <1>3. CASE line.text # ""
    <2>1. next = [acc EXCEPT !.summary = line.text, !.summary_at = Len(acc.turns)]
      BY <1>1, <1>3 DEF CodexLine, Compacted, _summary_from_entry
    <2>2. /\ DOMAIN next = DOMAIN ReadNothing /\ next.turns = acc.turns /\ next.boundary = acc.boundary
          /\ next.summary = line.text /\ next.summary_at = Len(acc.turns)
      BY <2>1 DEF ReadNothing
    <2>3. Advances("codex", acc, next, 0, line.text)
      BY <1>3, <2>2, StillAdvances
    <2>4. QED
      BY <1>1, <2>3
  <1>4. QED
    BY <1>2, <1>3

LEMMA PatchAdvances ==
    ASSUME NEW line, IsLine(line), NEW acc, DOMAIN acc = DOMAIN ReadNothing,
           TurnsOK("codex", acc.turns, acc.boundary), line.kind = "patch_apply_end"
    PROVE  Advances("codex", acc, CodexLine(acc, line), 0, "")
  <1>1. PICK next : next = CodexLine(acc, line)
    OBVIOUS
  <1>2. PICK n \in Nat : DOMAIN line.blocks = 1 .. n
    BY DEF IsLine
  <1>3. PICK t : t = _make_turn(line, "assistant", acc.model)
    OBVIOUS
  <1>4. DOMAIN t = DOMAIN EmptyTurn /\ t.usage = 0
    BY <1>3, BareTurn
  <1>5. PICK made : made = [k \in DOMAIN line.blocks |->
                             [t EXCEPT !.tool = "apply_patch", !.path = line.blocks[k].path,
                                       !.error = line.blocks[k].bad]]
    OBVIOUS
  <1>6. next = [acc EXCEPT !.turns = acc.turns \o made]
    <2>1. next = PatchApplyEnd(acc, line)
      BY <1>1 DEF CodexLine
    <2>2. QED
      BY <1>3, <1>5, <2>1 DEF PatchApplyEnd
  <1>7. /\ DOMAIN next = DOMAIN ReadNothing /\ next.turns = acc.turns \o made /\ next.boundary = acc.boundary
        /\ next.summary = acc.summary /\ next.summary_at = acc.summary_at
    BY <1>6 DEF ReadNothing
  <1>8. made = [k \in 1 .. n |-> made[k]]
    BY <1>2, <1>5
  <1>9. \A b : LET s == [t EXCEPT !.tool = "apply_patch", !.path = b.path, !.error = b.bad]
               IN  IsTurn(s) /\ s.usage = 0
    BY <1>4 DEF IsTurn, EmptyTurn
  <1>10. \A k \in 1 .. n : IsTurn(made[k]) /\ made[k].usage = 0
    BY <1>2, <1>5, <1>9
  <1>11. Advances("codex", acc, next, 0, "")
    BY <1>7, <1>8, <1>10, TurnAdvances
  <1>12. QED
    BY <1>1, <1>11

LEMMA MessageAdvances ==
    ASSUME NEW line, IsLine(line), NEW acc, DOMAIN acc = DOMAIN ReadNothing,
           TurnsOK("codex", acc.turns, acc.boundary), line.kind = "message"
    PROVE  Advances("codex", acc, CodexLine(acc, line), 0, "")
  <1>1. PICK next : next = CodexLine(acc, line)
    OBVIOUS
  <1>2. next = Message(acc, line)
    BY <1>1 DEF CodexLine
  <1>3. CASE line.role \notin {"user", "assistant"}
    <2>1. next = acc
      BY <1>2, <1>3 DEF Message
    <2>2. Advances("codex", acc, next, 0, "")
      BY <2>1, StillAdvances
    <2>3. QED
      BY <1>1, <2>2
  <1>4. CASE line.role \in {"user", "assistant"}
    <2>1. PICK texts : texts = _text_blocks(line.blocks)
      OBVIOUS
    <2>2. PICK n \in Nat : DOMAIN texts = 1 .. n
      BY <2>1, PickedIs DEF _text_blocks
    <2>3. PICK model : model = IF line.model # None THEN line.model ELSE acc.model
      OBVIOUS
    <2>4. PICK t : t = _make_turn(line, line.role, IF line.role = "assistant" THEN model ELSE None)
      OBVIOUS
    <2>5. DOMAIN t = DOMAIN EmptyTurn /\ t.usage = 0
      BY <2>4, BareTurn
    <2>6. PICK made : made = [k \in DOMAIN texts |-> [t EXCEPT !.content = texts[k].text]]
      OBVIOUS
    <2>7. next = [acc EXCEPT !.turns = acc.turns \o made]
      BY <1>2, <1>4, <2>1, <2>3, <2>4, <2>6 DEF Message
    <2>8. /\ DOMAIN next = DOMAIN ReadNothing /\ next.turns = acc.turns \o made /\ next.boundary = acc.boundary
          /\ next.summary = acc.summary /\ next.summary_at = acc.summary_at
      BY <2>7 DEF ReadNothing
    <2>9. made = [k \in 1 .. n |-> made[k]]
      BY <2>2, <2>6
    <2>10. \A b : LET s == [t EXCEPT !.content = b.text] IN IsTurn(s) /\ s.usage = 0
      BY <2>5 DEF IsTurn, EmptyTurn
    <2>11. \A k \in 1 .. n : IsTurn(made[k]) /\ made[k].usage = 0
      BY <2>2, <2>6, <2>10
    <2>12. Advances("codex", acc, next, 0, "")
      BY <2>8, <2>9, <2>11, TurnAdvances
    <2>13. QED
      BY <1>1, <2>12
  <1>5. QED
    BY <1>3, <1>4

LEMMA ToolAdvances ==
    ASSUME NEW line, NEW acc, DOMAIN acc = DOMAIN ReadNothing,
           TurnsOK("codex", acc.turns, acc.boundary), line.kind \in {"tool_call", "tool_output"}
    PROVE  Advances("codex", acc, CodexLine(acc, line), 0, "")
  <1>1. PICK next : next = CodexLine(acc, line)
    OBVIOUS
  <1>2. PICK turn : /\ IsTurn(turn) /\ turn.usage = 0
                    /\ DOMAIN next = DOMAIN ReadNothing /\ next.turns = Append(acc.turns, turn)
                    /\ next.boundary = acc.boundary
                    /\ next.summary = acc.summary /\ next.summary_at = acc.summary_at
    <2>1. CASE line.kind = "tool_call"
      <3>1. PICK b, t : b = line.blocks[1] /\ t = _make_turn(line, "assistant", acc.model)
        OBVIOUS
      <3>2. PICK turn : turn = [t EXCEPT !.tool = b.tool, !.path = b.path, !.tid = b.tid]
        OBVIOUS
      <3>3. IsTurn(turn) /\ turn.usage = 0
        <4>1. DOMAIN t = DOMAIN EmptyTurn /\ t.usage = 0
          BY <3>1, BareTurn
        <4>2. QED
          BY <3>2, <4>1 DEF IsTurn, EmptyTurn
      <3>4. PICK names : next = [acc EXCEPT !.names = names, !.turns = Append(acc.turns, turn)]
        <4>1. next = ToolCall(acc, line)
          BY <1>1, <2>1 DEF CodexLine
        <4>2. PICK names : names = IF b.tid = None THEN acc.names ELSE [i \in {b.tid} |-> b.tool] @@ acc.names
          OBVIOUS
        <4>3. next = [acc EXCEPT !.names = names, !.turns = Append(acc.turns, turn)]
          BY <3>1, <3>2, <4>1, <4>2 DEF ToolCall
        <4>4. QED
          BY <4>3
      <3>5. /\ DOMAIN next = DOMAIN ReadNothing /\ next.turns = Append(acc.turns, turn)
            /\ next.boundary = acc.boundary /\ next.summary = acc.summary /\ next.summary_at = acc.summary_at
        BY <3>4 DEF ReadNothing
      <3>6. QED
        BY <3>3, <3>5
    <2>2. CASE line.kind = "tool_output"
      <3>1. PICK b, t : b = line.blocks[1] /\ t = _make_turn(line, "tool", None)
        OBVIOUS
      <3>2. PICK turn : turn = [t EXCEPT !.tool = ToolName(acc.names, b.tid), !.output = b.text, !.tid = b.tid,
                                         !.error = b.bad]
        OBVIOUS
      <3>3. IsTurn(turn) /\ turn.usage = 0
        <4>1. DOMAIN t = DOMAIN EmptyTurn /\ t.usage = 0
          BY <3>1, BareTurn
        <4>2. QED
          BY <3>2, <4>1 DEF IsTurn, EmptyTurn
      <3>4. next = [acc EXCEPT !.turns = Append(acc.turns, turn)]
        <4>1. next = ToolOutput(acc, line)
          BY <1>1, <2>2 DEF CodexLine
        <4>2. QED
          BY <3>1, <3>2, <4>1 DEF ToolOutput
      <3>5. /\ DOMAIN next = DOMAIN ReadNothing /\ next.turns = Append(acc.turns, turn)
            /\ next.boundary = acc.boundary /\ next.summary = acc.summary /\ next.summary_at = acc.summary_at
        BY <3>4 DEF ReadNothing
      <3>6. QED
        BY <3>3, <3>5
    <2>3. QED
      BY <2>1, <2>2
  <1>3. IsSeq(acc.turns)
    BY DEF TurnsOK, IsTurns
  <1>4. next.turns = acc.turns \o <<turn>> /\ <<turn>> = [k \in 1 .. 1 |-> <<turn>>[k]] /\ <<turn>>[1] = turn
    BY <1>2, <1>3, AppendIs
  <1>5. PICK made : made = <<turn>>
    OBVIOUS
  <1>a. PICK n \in Nat : n = 1
    OBVIOUS
  <1>6. /\ next.turns = acc.turns \o made /\ made = [k \in 1 .. n |-> made[k]]
        /\ \A k \in 1 .. n : IsTurn(made[k]) /\ made[k].usage = 0
    BY <1>2, <1>4, <1>5, <1>a
  <1>7. Advances("codex", acc, next, 0, "")
    BY <1>2, <1>6, TurnAdvances
  <1>8. QED
    BY <1>1, <1>7

\* A usage report goes to a turn that has none yet.
LEMMA TokenAdvances ==
    ASSUME NEW line, IsLine(line), NEW acc, DOMAIN acc = DOMAIN ReadNothing,
           TurnsOK("codex", acc.turns, acc.boundary), line.kind = "token_count"
    PROVE  Advances("codex", acc, CodexLine(acc, line), line.usage, "")
  <1>1. PICK next : next = CodexLine(acc, line)
    OBVIOUS
  <1>2. next = TokenCount(acc, line)
    BY <1>1 DEF CodexLine
  <1>3. PICK u \in Nat : u = line.usage
    BY DEF IsLine
  <1>4. PICK old, b : old = acc.turns /\ b = acc.boundary
    OBVIOUS
  <1>5. PICK l \in Nat : l = Len(old)
    BY <1>4, DomainOf DEF TurnsOK, IsTurns
  <1>6. IsTurns(old) /\ b \in 0 .. l /\ \A k \in b + 1 .. l : old[k].usage = 0
    BY <1>4, <1>5 DEF TurnsOK
  <1>7. PICK A : A = Anchors(acc)
    OBVIOUS
  <1>8. A = {k \in b + 1 .. l : old[k].role = "assistant"}
    BY <1>4, <1>5, <1>7 DEF Anchors
  <1>9. CASE u = 0
    <2>1. next = acc
      BY <1>2, <1>3, <1>9 DEF TokenCount
    <2>2. Advances("codex", acc, next, 0, "")
      BY <2>1, StillAdvances
    <2>3. QED
      BY <1>1, <1>3, <1>9, <2>2
  <1>10. CASE u # 0
    <2>1. PICK blank : blank = _make_turn(line, "assistant", acc.model)
      OBVIOUS
    <2>2. PICK turns : turns = IF A # {} THEN old ELSE Append(old, blank)
      OBVIOUS
    <2>3. PICK anchor : anchor = IF A # {} THEN Max(A) ELSE Len(turns)
      OBVIOUS
    <2>4. PICK new : new = [turns EXCEPT ![anchor].usage = u]
      OBVIOUS
    <2>5. next = [acc EXCEPT !.turns = new, !.boundary = Len(turns)]
      <3>1. TokenCount(acc, line) =
              LET old2 == IF Anchors(acc) # {} THEN acc.turns
                          ELSE Append(acc.turns, _make_turn(line, "assistant", acc.model))
                  a == IF Anchors(acc) # {} THEN Max(Anchors(acc)) ELSE Len(old2)
              IN  [acc EXCEPT !.turns = [old2 EXCEPT ![a].usage = line.usage], !.boundary = Len(old2)]
        BY <1>3, <1>10 DEF TokenCount
      <3>2. turns = IF Anchors(acc) # {} THEN acc.turns
                    ELSE Append(acc.turns, _make_turn(line, "assistant", acc.model))
        BY <1>4, <1>7, <2>1, <2>2
      <3>3. anchor = IF Anchors(acc) # {} THEN Max(Anchors(acc)) ELSE Len(turns)
        BY <1>7, <2>3
      <3>4. TokenCount(acc, line) =
              [acc EXCEPT !.turns = [turns EXCEPT ![anchor].usage = line.usage], !.boundary = Len(turns)]
        BY <3>1, <3>2, <3>3
      <3>5. QED
        BY <1>2, <1>3, <2>4, <3>4
    <2>6. /\ IsTurns(turns) /\ Grew(old, turns) /\ Total(Tokens(turns)) = Total(Tokens(old))
          /\ anchor \in 1 .. Len(turns) /\ turns[anchor].usage = 0
      <3>1. CASE A # {}
        <4>1. turns = old /\ anchor = Max(A)
          BY <2>2, <2>3, <3>1
        <4>2. A \subseteq Nat /\ \A x \in A : x <= l
          BY <1>6, <1>8
        <4>3. Max(A) \in A
          BY <3>1, <4>2, MaxOf
        <4>4. anchor \in 1 .. l /\ old[anchor].usage = 0
          BY <1>6, <1>8, <4>1, <4>3
        <4>5. Grew(old, old)
          BY <1>5, GrewNot
        <4>6. QED
          BY <1>5, <1>6, <4>1, <4>4, <4>5
      <3>2. CASE A = {}
        <4>1. PICK made : made = <<blank>>
          OBVIOUS
        <4>2. IsTurn(blank) /\ blank.usage = 0
          BY <2>1, BareTurn
        <4>3. PICK n \in Nat : n = 1
          OBVIOUS
        <4>4. turns = old \o made /\ made = [k \in 1 .. n |-> made[k]] /\ made[1] = blank
          BY <1>6, <2>2, <3>2, <4>1, <4>3, AppendIs DEF IsTurns
        <4>5. \A k \in 1 .. n : IsTurn(made[k]) /\ made[k].usage = 0
          BY <4>2, <4>3, <4>4
        <4>6. Adds(made, 0)
          BY <4>4, <4>5, AddsFree
        <4>7. Len(made) = 1
          BY <4>3, <4>4, FunIsSeq
        <4>8. PICK x \in Nat : x = Total(Tokens(old))
          BY <1>6, TokensAre, TotalNat
        <4>9. /\ IsTurns(old \o made) /\ Grew(old, old \o made) /\ Len(old \o made) = l + 1
              /\ (old \o made)[l + 1] = blank
              /\ Total(Tokens(old \o made)) = Total(Tokens(old)) + 0
          <5>1. /\ IsTurns(old \o made) /\ Grew(old, old \o made) /\ Len(old \o made) = Len(old) + Len(made)
                /\ \A k \in 1 .. Len(made) : (old \o made)[Len(old) + k] = made[k]
                /\ Total(Tokens(old \o made)) = Total(Tokens(old)) + 0
            BY <1>6, <4>6, TurnsAdded
          <5>2. 1 \in 1 .. Len(made)
            BY <4>7
          <5>3. QED
            BY <1>5, <4>4, <4>7, <5>1, <5>2
        <4>10. Total(Tokens(turns)) = Total(Tokens(old))
          BY <4>4, <4>8, <4>9, PlusNothing
        <4>11. Len(turns) = l + 1 /\ anchor = l + 1 /\ turns[anchor] = blank
          BY <2>3, <3>2, <4>4, <4>9
        <4>12. anchor \in 1 .. Len(turns)
          BY <1>5, <4>11
        <4>13. QED
          BY <4>2, <4>4, <4>9, <4>10, <4>11, <4>12
      <3>3. QED
        BY <3>1, <3>2
    <2>7. /\ IsTurns(new) /\ Grew(turns, new) /\ Len(new) = Len(turns)
          /\ Total(Tokens(new)) = Total(Tokens(turns)) + u
      BY ZenonT(60), <2>4, <2>6, UsageAdded
    <2>8. PICK m \in Nat : m = Len(turns)
      BY <2>6, DomainOf DEF IsTurns
    <2>9. Grew(old, new)
      BY <1>5, <2>6, <2>7, <2>8, GrewMore
    <2>10. TurnsOK("codex", new, m)
      <3>1. m \in 0 .. Len(new) /\ m + 1 .. Len(new) = {}
        BY <2>7, <2>8
      <3>2. QED
        BY <2>7, <3>1 DEF TurnsOK
    <2>11. /\ DOMAIN next = DOMAIN ReadNothing /\ next.turns = new /\ next.boundary = m
           /\ next.summary = acc.summary /\ next.summary_at = acc.summary_at
      BY <2>5, <2>8 DEF ReadNothing
    <2>12. Total(Tokens(next.turns)) = Total(Tokens(acc.turns)) + line.usage
      BY <1>3, <1>4, <2>6, <2>7, <2>11
    <2>13. Grew(acc.turns, next.turns) /\ TurnsOK("codex", next.turns, next.boundary)
      BY <1>4, <2>9, <2>10, <2>11
    <2>14. QED
      BY <1>1, <2>11, <2>12, <2>13 DEF Advances
  <1>11. QED
    BY <1>9, <1>10

LEMMA CodexAdvances ==
    ASSUME NEW line, IsLine(line), NEW acc, DOMAIN acc = DOMAIN ReadNothing,
           TurnsOK("codex", acc.turns, acc.boundary)
    PROVE  Advances("codex", acc, CodexLine(acc, line), UsageOf("codex", line), SummaryOf("codex", line))
  <1> DEFINE Silent == UsageOf("codex", line) = 0 /\ SummaryOf("codex", line) = ""
  <1>1. CASE line.kind \in {"session_meta", "turn_context", "world_state", "thread_settings"}
    <2>1. Silent
      BY <1>1 DEF UsageOf, SummaryOf, _summary_from_entry
    <2>2. QED
      BY <1>1, <2>1, ContextAdvances
  <1>2. CASE line.kind = "compacted"
    <2>1. UsageOf("codex", line) = 0 /\ SummaryOf("codex", line) = line.text
      BY <1>2 DEF UsageOf, SummaryOf, _summary_from_entry
    <2>2. QED
      BY <1>2, <2>1, CompactedAdvances
  <1>3. CASE line.kind = "patch_apply_end"
    <2>1. Silent
      BY <1>3 DEF UsageOf, SummaryOf, _summary_from_entry
    <2>2. QED
      BY <1>3, <2>1, PatchAdvances
  <1>4. CASE line.kind = "token_count"
    <2>1. UsageOf("codex", line) = line.usage /\ SummaryOf("codex", line) = ""
      BY <1>4 DEF UsageOf, SummaryOf, _summary_from_entry
    <2>2. QED
      BY <1>4, <2>1, TokenAdvances
  <1>5. CASE line.kind = "message"
    <2>1. Silent
      BY <1>5 DEF UsageOf, SummaryOf, _summary_from_entry
    <2>2. QED
      BY <1>5, <2>1, MessageAdvances
  <1>6. CASE line.kind \in {"tool_call", "tool_output"}
    <2>1. Silent
      BY <1>6 DEF UsageOf, SummaryOf, _summary_from_entry
    <2>2. QED
      BY <1>6, <2>1, ToolAdvances
  <1>7. CASE line.kind \notin {"session_meta", "turn_context", "world_state", "thread_settings", "compacted",
                              "patch_apply_end", "token_count", "message", "tool_call", "tool_output"}
    <2>1. Silent
      BY <1>7 DEF UsageOf, SummaryOf, _summary_from_entry
    <2>2. CodexLine(acc, line) = acc
      BY <1>7 DEF CodexLine
    <2>3. Advances("codex", acc, acc, 0, "")
      BY StillAdvances
    <2>4. QED
      BY <2>1, <2>2, <2>3
  <1>8. QED
    BY <1>1, <1>2, <1>3, <1>4, <1>5, <1>6, <1>7

LEMMA LineAdvances ==
    ASSUME NEW f \in {"claude", "codex"}, NEW line, IsLine(line), NEW acc, DOMAIN acc = DOMAIN ReadNothing,
           TurnsOK(f, acc.turns, acc.boundary)
    PROVE  Advances(f, acc, ReadLine(f, acc, line), UsageOf(f, line), SummaryOf(f, line))
  <1>1. CASE f = "claude"
    BY <1>1, ClaudeAdvances DEF ReadLine
  <1>2. CASE f = "codex"
    BY <1>2, CodexAdvances DEF ReadLine
  <1>3. QED
    BY <1>1, <1>2

-----------------------------------------------------------------------------
\* Reading line by line

AreLines(lines) == IsSeq(lines) /\ \A k \in 1 .. Len(lines) : IsLine(lines[k])

LEMMA ReadsAre ==
    ASSUME NEW f, NEW lines, Len(lines) \in Nat
    PROVE  /\ Reads(f, lines)[0] = ReadNothing
           /\ \A n \in 1 .. Len(lines) : Reads(f, lines)[n] = ReadLine(f, Reads(f, lines)[n - 1], lines[n])
  <1> DEFINE Rule(g, m) == DOMAIN g = 0 .. m /\ g = [n \in 0 .. m |-> IF n = 0 THEN ReadNothing ELSE ReadLine(f, g[n - 1], lines[n])]
             W == {m \in Nat : \E g : Rule(g, m)}
  <1>1. 0 \in W
    <2>1. Rule([n \in 0 .. 0 |-> ReadNothing], 0)
      OBVIOUS
    <2>2. QED
      BY <2>1
  <1>2. ASSUME NEW m \in Nat, m \in W PROVE m + 1 \in W
    <2>1. PICK g : Rule(g, m)
      BY <1>2
    <2> DEFINE h == [n \in 0 .. m + 1 |-> IF n = m + 1 THEN ReadLine(f, g[m], lines[m + 1]) ELSE g[n]]
    <2>2. \A n \in 0 .. m : h[n] = g[n]
      OBVIOUS
    <2>3. ASSUME NEW n \in 0 .. m + 1 PROVE h[n] = IF n = 0 THEN ReadNothing ELSE ReadLine(f, h[n - 1], lines[n])
      <3>1. CASE n = m + 1
        BY <2>2, <3>1
      <3>2. CASE n # m + 1
        <4>1. n \in 0 .. m /\ (n # 0 => n - 1 \in 0 .. m)
          BY <3>2
        <4>2. h[n] = g[n] /\ (n # 0 => h[n - 1] = g[n - 1])
          BY <2>2, <4>1
        <4>3. g[n] = IF n = 0 THEN ReadNothing ELSE ReadLine(f, g[n - 1], lines[n])
          BY <2>1, <4>1
        <4>4. QED
          BY <4>2, <4>3
      <3>3. QED
        BY <3>1, <3>2
    <2>4. DOMAIN h = 0 .. m + 1 /\ h = [n \in 0 .. m + 1 |-> h[n]]
      OBVIOUS
    <2> HIDE DEF h
    <2>5. Rule(h, m + 1)
      BY <2>3, <2>4
    <2>6. QED
      BY <2>5
  <1>3. Len(lines) \in W
    <2> HIDE DEF W
    <2>1. QED
      BY <1>1, <1>2, NatSteps
  <1>4. PICK g : Rule(g, Len(lines))
    BY <1>3
  <1>5. Reads(f, lines) = CHOOSE after :
          after = [n \in 0 .. Len(lines) |-> IF n = 0 THEN ReadNothing ELSE ReadLine(f, after[n - 1], lines[n])]
    BY DEF Reads
  <1>6. Reads(f, lines) = [n \in 0 .. Len(lines) |-> IF n = 0 THEN ReadNothing ELSE ReadLine(f, Reads(f, lines)[n - 1], lines[n])]
    BY <1>4, <1>5
  <1>7. QED
    BY <1>6

LEMMA UsagesAre ==
    ASSUME NEW f, NEW lines, AreLines(lines)
    PROVE  /\ Len(Usages(f, lines)) = Len(lines) /\ Nats(Usages(f, lines)) /\ Len(lines) \in Nat
           /\ \A k \in 1 .. Len(lines) : Usages(f, lines)[k] = UsageOf(f, lines[k])
  <1>1. PICK n \in Nat : n = Len(lines) /\ DOMAIN lines = 1 .. n
    BY DomainOf DEF AreLines
  <1>2. PICK v : v = Usages(f, lines)
    OBVIOUS
  <1>3. v = [k \in 1 .. n |-> UsageOf(f, lines[k])]
    BY <1>1, <1>2 DEF Usages
  <1>4. v = [k \in 1 .. n |-> v[k]] /\ \A k \in 1 .. n : v[k] = UsageOf(f, lines[k])
    BY <1>3
  <1>5. IsSeq(v) /\ Len(v) = n
    BY <1>4, FunIsSeq
  <1>6. ASSUME NEW k \in 1 .. n PROVE UsageOf(f, lines[k]) \in Nat
    <2>1. lines[k].usage \in Nat
      BY <1>1 DEF AreLines, IsLine
    <2>2. QED
      BY <2>1 DEF UsageOf
  <1>7. QED
    BY <1>1, <1>2, <1>4, <1>5, <1>6 DEF Nats

\* s is the last summary among the first n lines.
LastSaid(f, lines, n, s) ==
    \/ s = "" /\ \A k \in 1 .. n : SummaryOf(f, lines[k]) = ""
    \/ s # "" /\ \E k \in 1 .. n : /\ SummaryOf(f, lines[k]) = s
                                   /\ \A j \in k + 1 .. n : SummaryOf(f, lines[j]) = ""

\* What the first n lines make of a file.
ReadOK(f, lines, n, acc) ==
    /\ DOMAIN acc = DOMAIN ReadNothing
    /\ TurnsOK(f, acc.turns, acc.boundary)
    /\ Total(Tokens(acc.turns)) = Sums(Usages(f, lines))[n]
    /\ LastSaid(f, lines, n, acc.summary)
    /\ IF acc.summary = "" THEN acc.summary_at = None ELSE acc.summary_at \in 0 .. Len(acc.turns)

LEMMA SaidNext ==
    ASSUME NEW f, NEW lines, NEW n \in Nat, NEW s, LastSaid(f, lines, n, s), NEW t,
           t = SummaryOf(f, lines[n + 1])
    PROVE  LastSaid(f, lines, n + 1, IF t = "" THEN s ELSE t)
  <1>1. CASE t = ""
    <2>1. CASE s = ""
      <3>1. \A k \in 1 .. n : SummaryOf(f, lines[k]) = ""
        BY <2>1 DEF LastSaid
      <3>2. \A k \in 1 .. n + 1 : k \in 1 .. n \/ k = n + 1
        OBVIOUS
      <3>3. \A k \in 1 .. n + 1 : SummaryOf(f, lines[k]) = ""
        BY <1>1, <3>1, <3>2
      <3>4. QED
        BY <1>1, <2>1, <3>3 DEF LastSaid
    <2>2. CASE s # ""
      <3>1. PICK k \in 1 .. n : SummaryOf(f, lines[k]) = s /\ \A j \in k + 1 .. n : SummaryOf(f, lines[j]) = ""
        BY <2>2 DEF LastSaid
      <3>2. \A j \in k + 1 .. n + 1 : j \in k + 1 .. n \/ j = n + 1
        OBVIOUS
      <3>3. ASSUME NEW j \in k + 1 .. n + 1 PROVE SummaryOf(f, lines[j]) = ""
        <4>1. CASE j = n + 1
          BY <1>1, <4>1
        <4>2. CASE j # n + 1
          BY <3>1, <3>2, <4>2
        <4>3. QED
          BY <4>1, <4>2
      <3>4. k \in 1 .. n + 1
        OBVIOUS
      <3>5. QED
        BY <1>1, <2>2, <3>1, <3>3, <3>4 DEF LastSaid
    <2>3. QED
      BY <2>1, <2>2
  <1>2. CASE t # ""
    <2>1. n + 1 \in 1 .. n + 1 /\ (n + 1) + 1 .. n + 1 = {}
      OBVIOUS
    <2>2. QED
      BY <1>2, <2>1 DEF LastSaid
  <1>3. QED
    BY <1>1, <1>2

LEMMA NothingRead == ASSUME NEW f, NEW lines, AreLines(lines) PROVE ReadOK(f, lines, 0, ReadNothing)
  <1>1. ReadNothing.turns = <<>> /\ ReadNothing.boundary = 0 /\ ReadNothing.summary = "" /\ ReadNothing.summary_at = None
    BY DEF ReadNothing
  <1>2. IsTurns(<<>>) /\ Len(<<>>) = 0
    BY EmptySeqIs DEF IsTurns
  <1>3. TurnsOK(f, <<>>, 0)
    BY <1>2 DEF TurnsOK
  <1>4. Total(Tokens(<<>>)) = 0
    <2>1. Len(Tokens(<<>>)) = 0
      BY <1>2, TokensAre
    <2>2. Sums(Tokens(<<>>))[0] = 0
      BY <2>1, SumsAre
    <2>3. QED
      BY <2>1, <2>2 DEF Total
  <1>5. Sums(Usages(f, lines))[0] = 0
    <2>1. Len(Usages(f, lines)) \in Nat
      BY UsagesAre
    <2>2. QED
      BY <2>1, SumsAre
  <1>6. LastSaid(f, lines, 0, "")
    BY DEF LastSaid
  <1>7. QED
    BY <1>1, <1>3, <1>4, <1>5, <1>6 DEF ReadOK

LEMMA NextRead ==
    ASSUME NEW f \in {"claude", "codex"}, NEW lines, AreLines(lines), NEW n \in Nat, n + 1 <= Len(lines),
           NEW acc, ReadOK(f, lines, n, acc)
    PROVE  LET next == ReadLine(f, acc, lines[n + 1])
           IN  ReadOK(f, lines, n + 1, next) /\ Grew(acc.turns, next.turns)
  <1>1. PICK next : next = ReadLine(f, acc, lines[n + 1])
    OBVIOUS
  <1>2. Len(lines) \in Nat /\ n + 1 \in 1 .. Len(lines) /\ (n + 1) - 1 = n /\ n \in 0 .. Len(lines)
    BY DEF AreLines, IsSeq
  <1>3. PICK line : line = lines[n + 1]
    OBVIOUS
  <1>4. IsLine(line)
    BY <1>2, <1>3 DEF AreLines
  <1>5. PICK u, s : u = UsageOf(f, line) /\ s = SummaryOf(f, line)
    OBVIOUS
  <1>6. Advances(f, acc, next, u, s)
    BY <1>1, <1>3, <1>4, <1>5, LineAdvances DEF ReadOK
  <1>7. /\ DOMAIN next = DOMAIN ReadNothing
        /\ TurnsOK(f, next.turns, next.boundary) /\ Grew(acc.turns, next.turns)
        /\ Total(Tokens(next.turns)) = Total(Tokens(acc.turns)) + u
        /\ next.summary = (IF s = "" THEN acc.summary ELSE s)
        /\ next.summary_at = (IF s = "" THEN acc.summary_at ELSE Len(acc.turns))
    BY <1>6 DEF Advances
  <1>8. LastSaid(f, lines, n + 1, next.summary)
    <2>1. LastSaid(f, lines, n, acc.summary) /\ s = SummaryOf(f, lines[n + 1])
      BY <1>3, <1>5 DEF ReadOK
    <2>2. QED
      BY <1>7, <2>1, SaidNext
  <1>9. Total(Tokens(next.turns)) = Sums(Usages(f, lines))[n + 1]
    <2>1. PICK v : v = Usages(f, lines)
      OBVIOUS
    <2>2. Len(v) = Len(lines) /\ v[n + 1] = u
      BY <1>2, <1>3, <1>5, <2>1, UsagesAre
    <2>3. Sums(v)[n + 1] = Sums(v)[(n + 1) - 1] + v[n + 1]
      BY <1>2, <2>2, SumsAre
    <2>4. Total(Tokens(acc.turns)) = Sums(v)[n]
      BY <2>1 DEF ReadOK
    <2>5. QED
      BY <1>2, <1>7, <2>1, <2>2, <2>3, <2>4
  <1>10. IF next.summary = "" THEN next.summary_at = None ELSE next.summary_at \in 0 .. Len(next.turns)
    <2>1. /\ Len(acc.turns) \in Nat /\ Len(next.turns) \in Nat /\ Len(acc.turns) <= Len(next.turns)
      BY <1>7, DomainOf DEF ReadOK, TurnsOK, IsTurns, Grew
    <2>2. PICK l \in Nat, m \in Nat : l = Len(acc.turns) /\ m = Len(next.turns) /\ l <= m
      BY <2>1
    <2>3. PICK x, y : x = acc.summary_at /\ y = next.summary_at
      OBVIOUS
    <2>4. (acc.summary = "" => x = None) /\ (acc.summary # "" => x \in 0 .. l)
      BY <2>2, <2>3 DEF ReadOK
    <2>5. CASE s = ""
      <3>1. next.summary = acc.summary /\ y = x
        BY <1>7, <2>3, <2>5
      <3>2. x \in 0 .. l => x \in 0 .. m
        BY <2>2
      <3>3. QED
        BY <2>2, <2>3, <2>4, <3>1, <3>2
    <2>6. CASE s # ""
      <3>1. next.summary # "" /\ y = l
        BY <1>7, <2>2, <2>3, <2>6
      <3>2. l \in 0 .. m
        BY <2>2
      <3>3. QED
        BY <2>2, <2>3, <3>1, <3>2
    <2>7. QED
      BY <2>5, <2>6
  <1>11. ReadOK(f, lines, n + 1, next)
    BY <1>7, <1>8, <1>9, <1>10 DEF ReadOK
  <1>12. QED
    BY <1>1, <1>7, <1>11

LEMMA ReadsOK ==
    ASSUME NEW f \in {"claude", "codex"}, NEW lines, AreLines(lines)
    PROVE  \A n \in 0 .. Len(lines) : ReadOK(f, lines, n, Reads(f, lines)[n])
  <1> DEFINE W == {n \in Nat : n <= Len(lines) => ReadOK(f, lines, n, Reads(f, lines)[n])}
  <1>1. Len(lines) \in Nat
    BY DEF AreLines, IsSeq
  <1>2. /\ Reads(f, lines)[0] = ReadNothing
        /\ \A n \in 1 .. Len(lines) : Reads(f, lines)[n] = ReadLine(f, Reads(f, lines)[n - 1], lines[n])
    BY <1>1, ReadsAre
  <1>3. 0 \in W
    BY <1>2, NothingRead
  <1>4. ASSUME NEW n \in Nat, n \in W PROVE n + 1 \in W
    <2>1. SUFFICES ASSUME n + 1 <= Len(lines) PROVE ReadOK(f, lines, n + 1, Reads(f, lines)[n + 1])
      OBVIOUS
    <2>2. PICK acc : acc = Reads(f, lines)[n]
      OBVIOUS
    <2>3. n + 1 \in 1 .. Len(lines) /\ (n + 1) - 1 = n /\ ReadOK(f, lines, n, acc)
      BY <1>1, <1>4, <2>1, <2>2
    <2>4. Reads(f, lines)[n + 1] = ReadLine(f, acc, lines[n + 1])
      BY <1>2, <2>2, <2>3
    <2>5. QED
      BY <2>1, <2>3, <2>4, NextRead
  <1>5. Nat \subseteq W
    <2> HIDE DEF W
    <2>1. QED
      BY <1>3, <1>4, NatSteps
  <1>6. QED
    BY <1>1, <1>5

\* The turns of a file that is read on.
LEMMA ReadsGrow ==
    ASSUME NEW f \in {"claude", "codex"}, NEW lines, AreLines(lines), NEW n \in Nat, n <= Len(lines)
    PROVE  Grew(Reads(f, lines)[n].turns, Reads(f, lines)[Len(lines)].turns)
  <1> DEFINE S(m) == Reads(f, lines)[m]
             W == {d \in Nat : n + d <= Len(lines) => Grew(S(n).turns, S(n + d).turns)}
  <1>1. Len(lines) \in Nat
    BY DEF AreLines, IsSeq
  <1>2. \A m \in 1 .. Len(lines) : S(m) = ReadLine(f, S(m - 1), lines[m])
    BY <1>1, ReadsAre
  <1>3. \A m \in 0 .. Len(lines) : ReadOK(f, lines, m, S(m)) /\ Len(S(m).turns) \in Nat
    <2>1. \A m \in 0 .. Len(lines) : ReadOK(f, lines, m, S(m))
      BY ReadsOK
    <2>2. QED
      BY <2>1, DomainOf DEF ReadOK, TurnsOK, IsTurns
  <1> HIDE DEF S
  <1>4. 0 \in W
    <2>1. n \in 0 .. Len(lines) /\ n + 0 = n
      BY <1>1
    <2>2. Grew(S(n).turns, S(n).turns)
      BY <1>3, <2>1, GrewNot
    <2>3. QED
      BY <2>1, <2>2
  <1>5. ASSUME NEW d \in Nat, d \in W PROVE d + 1 \in W
    <2>1. SUFFICES ASSUME n + (d + 1) <= Len(lines) PROVE Grew(S(n).turns, S(n + (d + 1)).turns)
      OBVIOUS
    <2>2. PICK m \in Nat : m = n + d
      OBVIOUS
    <2>3. /\ n + (d + 1) = m + 1 /\ m \in 0 .. Len(lines) /\ m + 1 \in 1 .. Len(lines) /\ m + 1 \in 0 .. Len(lines)
          /\ (m + 1) - 1 = m /\ n \in 0 .. Len(lines) /\ m + 1 <= Len(lines)
      BY <1>1, <2>1, <2>2
    <2>4. S(m + 1) = ReadLine(f, S(m), lines[m + 1])
      BY <1>2, <2>3
    <2>5. Grew(S(m).turns, S(m + 1).turns)
      <3>1. PICK acc : acc = S(m)
        OBVIOUS
      <3>2. ReadOK(f, lines, m, acc)
        BY <1>3, <2>3, <3>1
      <3>3. QED
        BY <2>3, <2>4, <3>1, <3>2, NextRead
    <2>6. Grew(S(n).turns, S(m).turns)
      BY <1>5, <2>2, <2>3
    <2>7. PICK a, b, c : a = S(n).turns /\ b = S(m).turns /\ c = S(m + 1).turns
      OBVIOUS
    <2>8. Grew(a, b) /\ Grew(b, c) /\ Len(a) \in Nat /\ Len(b) \in Nat /\ Len(c) \in Nat
      BY <1>3, <2>3, <2>5, <2>6, <2>7
    <2>9. Grew(a, c)
      BY <2>8, GrewMore
    <2>10. QED
      BY <2>3, <2>7, <2>9
  <1>6. Nat \subseteq W
    <2> HIDE DEF W
    <2>1. QED
      BY <1>4, <1>5, NatSteps
  <1>7. PICK d \in Nat : n + d = Len(lines)
    <2>1. Len(lines) - n \in Nat /\ n + (Len(lines) - n) = Len(lines)
      BY <1>1
    <2>2. QED
      BY <2>1
  <1>8. d \in W
    BY <1>6
  <1>9. QED
    BY <1>7, <1>8 DEF S

\* Lines that begin alike are read alike.
BeginsWith(q, p) == Len(p) <= Len(q) /\ \A k \in 1 .. Len(p) : q[k] = p[k]

LEMMA ReadsAgree ==
    ASSUME NEW f, NEW p, NEW q, AreLines(p), AreLines(q), BeginsWith(q, p)
    PROVE  Reads(f, q)[Len(p)] = Reads(f, p)[Len(p)]
  <1> DEFINE W == {n \in Nat : n <= Len(p) => Reads(f, q)[n] = Reads(f, p)[n]}
  <1>0. Len(p) \in Nat /\ Len(q) \in Nat /\ Len(p) <= Len(q)
    BY DEF AreLines, IsSeq, BeginsWith
  <1>1. Reads(f, p)[0] = ReadNothing /\ \A n \in 1 .. Len(p) : Reads(f, p)[n] = ReadLine(f, Reads(f, p)[n - 1], p[n])
    BY <1>0, ReadsAre
  <1>2. Reads(f, q)[0] = ReadNothing /\ \A n \in 1 .. Len(q) : Reads(f, q)[n] = ReadLine(f, Reads(f, q)[n - 1], q[n])
    BY <1>0, ReadsAre
  <1>3. 0 \in W
    BY <1>1, <1>2
  <1>4. ASSUME NEW n \in Nat, n \in W PROVE n + 1 \in W
    <2>1. SUFFICES ASSUME n + 1 <= Len(p) PROVE Reads(f, q)[n + 1] = Reads(f, p)[n + 1]
      OBVIOUS
    <2>2. /\ n + 1 \in 1 .. Len(p) /\ n + 1 \in 1 .. Len(q) /\ (n + 1) - 1 = n
          /\ Reads(f, q)[n] = Reads(f, p)[n]
      BY <1>0, <1>4, <2>1
    <2>3. q[n + 1] = p[n + 1]
      BY <2>2 DEF BeginsWith
    <2>4. /\ Reads(f, q)[n + 1] = ReadLine(f, Reads(f, q)[n], q[n + 1])
          /\ Reads(f, p)[n + 1] = ReadLine(f, Reads(f, p)[n], p[n + 1])
      BY <1>1, <1>2, <2>2
    <2>5. QED
      BY <2>2, <2>3, <2>4
  <1>5. Nat \subseteq W
    <2> HIDE DEF W
    <2>1. QED
      BY <1>3, <1>4, NatSteps
  <1>6. Len(p) \in W
    BY <1>0, <1>5
  <1>7. QED
    BY <1>0, <1>6

-----------------------------------------------------------------------------
\* What a reader returns

\* The turns read, numbered.
LEMMA ReaderTurns ==
    ASSUME NEW f \in {"claude", "codex"}, NEW lines, AreLines(lines)
    PROVE  LET acc == Reads(f, lines)[Len(lines)]
               meta == reader(f, lines)
           IN  /\ IsTurns(meta.turns) /\ IsTurns(acc.turns) /\ Len(meta.turns) = Len(acc.turns)
               /\ meta.summary = acc.summary /\ meta.summary_at = acc.summary_at
               /\ \A k \in 1 .. Len(acc.turns) :
                    /\ meta.turns[k].id = <<meta.id, k - 1>> /\ meta.turns[k].usage = acc.turns[k].usage
                    /\ Same(meta.turns[k], acc.turns[k])
  <1>1. PICK acc, meta : acc = Reads(f, lines)[Len(lines)] /\ meta = reader(f, lines)
    OBVIOUS
  <1>2. ReadOK(f, lines, Len(lines), acc)
    <2>1. Len(lines) \in 0 .. Len(lines)
      BY DEF AreLines, IsSeq
    <2>2. QED
      BY <1>1, <2>1, ReadsOK
  <1>3. DOMAIN acc = DOMAIN ReadNothing /\ IsTurns(acc.turns)
    BY <1>2 DEF ReadOK, TurnsOK
  <1>4. PICK old : old = acc.turns
    OBVIOUS
  <1>5. PICK n \in Nat : n = Len(old) /\ DOMAIN old = 1 .. n
    BY <1>3, <1>4, DomainOf DEF IsTurns
  <1> DEFINE Meta(turns, i) == meta = [acc EXCEPT !.turns = turns, !.id = i]
             Named(turns, i) ==
               /\ turns = [k \in 1 .. n |-> turns[k]]
               /\ \A k \in 1 .. n : \E m : turns[k] = [old[k] EXCEPT !.id = <<i, k - 1>>, !.model = m]
  <1>6. PICK new, id : Meta(new, id) /\ Named(new, id)
    <2>1. CASE f = "claude"
      <3>1. PICK new : new = Numbered(old, Stem)
        OBVIOUS
      <3>2. meta = [acc EXCEPT !.turns = new, !.id = Stem]
        BY <1>1, <1>4, <2>1, <3>1 DEF reader, claude_read
      <3>3. new = [k \in 1 .. n |-> [old[k] EXCEPT !.id = <<Stem, k - 1>>]]
        BY <1>5, <3>1 DEF Numbered
      <3>4. new = [k \in 1 .. n |-> new[k]]
        BY <3>3
      <3>5. ASSUME NEW k \in 1 .. n PROVE \E m : new[k] = [old[k] EXCEPT !.id = <<Stem, k - 1>>, !.model = m]
        <4>1. PICK t, x : t = old[k] /\ x = <<Stem, k - 1>>
          OBVIOUS
        <4>2. DOMAIN t = DOMAIN EmptyTurn
          BY <1>3, <1>4, <1>5, <4>1 DEF IsTurns, IsTurn
        <4>3. [t EXCEPT !.id = x] = [t EXCEPT !.id = x, !.model = t.model]
          BY <4>2 DEF EmptyTurn
        <4>4. new[k] = [t EXCEPT !.id = x]
          BY <3>3, <4>1
        <4>5. QED
          BY <4>1, <4>3, <4>4
      <3>6. Meta(new, Stem) /\ Named(new, Stem)
        BY <3>2, <3>4, <3>5
      <3> HIDE DEF Meta, Named
      <3>7. QED
        BY <3>6
    <2>2. CASE f = "codex"
      <3>1. PICK id : id = IF acc.id = None THEN Stem ELSE acc.id
        OBVIOUS
      <3>2. PICK named : named = Numbered(old, id)
        OBVIOUS
      <3>3. named = [k \in 1 .. n |-> [old[k] EXCEPT !.id = <<id, k - 1>>]]
        BY <1>5, <3>2 DEF Numbered
      <3>4. PICK new : new = [k \in DOMAIN named |-> IF named[k].role = "assistant" /\ named[k].model = None
                                             THEN [named[k] EXCEPT !.model = acc.model] ELSE named[k]]
        OBVIOUS
      <3>5. meta = [acc EXCEPT !.id = id, !.turns = new]
        BY <1>1, <1>4, <2>2, <3>1, <3>2, <3>4 DEF reader, codex_read
      <3>6. meta = [acc EXCEPT !.turns = new, !.id = id]
        BY <1>3, <3>5 DEF ReadNothing
      <3>7. new = [k \in 1 .. n |-> new[k]]
        BY <3>3, <3>4
      <3>8. ASSUME NEW k \in 1 .. n PROVE \E m : new[k] = [old[k] EXCEPT !.id = <<id, k - 1>>, !.model = m]
        <4>1. PICK t, x : t = old[k] /\ x = <<id, k - 1>>
          OBVIOUS
        <4>2. DOMAIN t = DOMAIN EmptyTurn
          BY <1>3, <1>4, <1>5, <4>1 DEF IsTurns, IsTurn
        <4>3. PICK u : u = [t EXCEPT !.id = x]
          OBVIOUS
        <4>4. named[k] = u
          BY <3>3, <4>1, <4>3
        <4>5. new[k] = [u EXCEPT !.model = acc.model] \/ new[k] = u
          BY <3>3, <3>4, <4>4
        <4>6. \A m : [u EXCEPT !.model = m] = [t EXCEPT !.id = x, !.model = m]
          BY <4>2, <4>3 DEF EmptyTurn
        <4>7. u = [u EXCEPT !.model = u.model]
          BY <4>2, <4>3 DEF EmptyTurn
        <4>8. QED
          BY <4>1, <4>5, <4>6, <4>7
      <3>9. Meta(new, id) /\ Named(new, id)
        BY <3>6, <3>7, <3>8
      <3> HIDE DEF Meta, Named
      <3>10. QED
        BY <3>9
    <2>3. QED
      BY <2>1, <2>2
  <1>7. /\ meta.turns = new /\ meta.id = id /\ meta.summary = acc.summary /\ meta.summary_at = acc.summary_at
    BY <1>3, <1>6 DEF ReadNothing
  <1>8. IsSeq(new) /\ Len(new) = n
    BY <1>6, FunIsSeq
  <1>9. ASSUME NEW k \in 1 .. n
        PROVE  /\ IsTurn(new[k]) /\ new[k].id = <<id, k - 1>> /\ new[k].usage = old[k].usage
               /\ Same(new[k], old[k])
    <2>1. PICK t, x : t = old[k] /\ x = <<id, k - 1>>
      OBVIOUS
    <2>2. DOMAIN t = DOMAIN EmptyTurn /\ t.usage \in Nat
      BY <1>3, <1>4, <1>5, <2>1 DEF IsTurns, IsTurn
    <2>3. PICK m : new[k] = [t EXCEPT !.id = x, !.model = m]
      BY <1>6, <2>1
    <2>4. IsTurn(new[k]) /\ new[k].id = x /\ new[k].usage = t.usage /\ Same(new[k], t)
      BY <2>2, <2>3 DEF IsTurn, EmptyTurn, Same
    <2>5. QED
      BY <2>1, <2>4
  <1>10. IsTurns(new)
    BY <1>8, <1>9 DEF IsTurns
  <1>11. QED
    BY <1>1, <1>3, <1>4, <1>5, <1>7, <1>8, <1>9, <1>10

LEMMA UsageRead ==
    ASSUME NEW f \in {"claude", "codex"}, NEW lines, AreLines(lines)
    PROVE  Total(Tokens(reader(f, lines).turns)) = Total(Usages(f, lines))
  <1>1. PICK acc, new : acc = Reads(f, lines)[Len(lines)] /\ new = reader(f, lines).turns
    OBVIOUS
  <1>2. PICK old : old = acc.turns
    OBVIOUS
  <1>3. /\ IsTurns(new) /\ IsTurns(old) /\ Len(new) = Len(old)
        /\ \A k \in 1 .. Len(old) : new[k].usage = old[k].usage
    BY <1>1, <1>2, ReaderTurns
  <1>4. PICK v, w : v = Tokens(old) /\ w = Tokens(new)
    OBVIOUS
  <1>5. PICK n \in Nat : n = Len(old)
    BY <1>3, DomainOf DEF IsTurns
  <1>6. Len(v) = n /\ Len(w) = n /\ \A k \in 1 .. n : v[k] = w[k]
    BY <1>3, <1>4, <1>5, TokensAre
  <1>7. Total(v) = Total(w)
    <2>1. Len(v) \in Nat /\ Len(w) \in Nat /\ n <= Len(v) /\ n <= Len(w) /\ n \in 0 .. n
      BY <1>6
    <2>2. \A i \in 0 .. n : Sums(v)[i] = Sums(w)[i]
      BY <1>6, <2>1, PrefixSums
    <2>3. QED
      BY <1>6, <2>1, <2>2 DEF Total
  <1>8. Total(v) = Sums(Usages(f, lines))[Len(lines)]
    <2>1. Len(lines) \in 0 .. Len(lines)
      BY DEF AreLines, IsSeq
    <2>2. ReadOK(f, lines, Len(lines), acc)
      BY <1>1, <2>1, ReadsOK
    <2>3. QED
      BY <1>2, <1>4, <2>2 DEF ReadOK
  <1>9. Total(Usages(f, lines)) = Sums(Usages(f, lines))[Len(lines)]
    BY UsagesAre DEF Total
  <1>10. QED
    BY <1>1, <1>4, <1>7, <1>8, <1>9

LEMMA LastOne ==
    ASSUME NEW l \in Nat, NEW k \in 1 .. l, NEW m \in 1 .. l, k <= m, ~(m \in k + 1 .. l)
    PROVE  m = k
  OBVIOUS

\* What the raw file is asked for is what the read of the turns met.
LEMMA SummaryRead ==
    ASSUME NEW f \in {"claude", "codex"}, NEW lines, AreLines(lines)
    PROVE  LET meta == reader(f, lines)
           IN  /\ read_summary(f, lines) = meta.summary
               /\ meta.summary = "" => meta.summary_at = None
               /\ meta.summary # "" => meta.summary_at \in 0 .. Len(meta.turns)
  <1>1. PICK acc, meta : acc = Reads(f, lines)[Len(lines)] /\ meta = reader(f, lines)
    OBVIOUS
  <1>2. PICK l \in Nat : l = Len(lines) /\ DOMAIN lines = 1 .. l
    BY DomainOf DEF AreLines
  <1>3. ReadOK(f, lines, l, acc)
    <2>1. l \in 0 .. Len(lines)
      BY <1>2
    <2>2. QED
      BY <1>1, <1>2, <2>1, ReadsOK
  <1>4. meta.summary = acc.summary /\ meta.summary_at = acc.summary_at /\ Len(meta.turns) = Len(acc.turns)
    BY <1>1, ReaderTurns
  <1>5. LastSaid(f, lines, l, meta.summary)
    BY <1>3, <1>4 DEF ReadOK
  <1>6. /\ meta.summary = "" => meta.summary_at = None
        /\ meta.summary # "" => meta.summary_at \in 0 .. Len(meta.turns)
    BY <1>3, <1>4 DEF ReadOK
  <1>7. PICK found : found = {k \in 1 .. l : SummaryOf(f, lines[k]) # ""}
    OBVIOUS
  <1>8. read_summary(f, lines) = IF found = {} THEN "" ELSE SummaryOf(f, lines[Max(found)])
    BY <1>2, <1>7 DEF read_summary
  <1>9. CASE meta.summary = ""
    <2>1. found = {}
      BY <1>5, <1>7, <1>9 DEF LastSaid
    <2>2. QED
      BY <1>1, <1>6, <1>8, <1>9, <2>1
  <1>10. CASE meta.summary # ""
    <2>1. PICK k \in 1 .. l : /\ SummaryOf(f, lines[k]) = meta.summary
                              /\ \A j \in k + 1 .. l : SummaryOf(f, lines[j]) = ""
      BY <1>5, <1>10 DEF LastSaid
    <2>2. k \in found /\ found \subseteq Nat /\ \A x \in found : x <= l
      <3>1. \A x \in 1 .. l : x \in Nat /\ x <= l
        BY <1>2
      <3>2. found \subseteq 1 .. l /\ k \in found
        BY <1>7, <1>10, <2>1
      <3>3. QED
        BY <3>1, <3>2
    <2>3. Max(found) \in found /\ \A x \in found : x <= Max(found)
      BY <2>2, MaxOf
    <2>4. PICK m : m = Max(found)
      OBVIOUS
    <2>5. m \in 1 .. l /\ SummaryOf(f, lines[m]) # "" /\ k <= m
      BY <1>7, <2>2, <2>3, <2>4
    <2>6. m = k
      <3>1. ~(m \in k + 1 .. l)
        BY <2>1, <2>5, <1>2
      <3>2. m \in 1 .. l /\ k <= m
        BY <2>5
      <3>3. QED
        BY <3>1, <3>2, LastOne
    <2>7. read_summary(f, lines) = meta.summary
      BY <1>8, <2>1, <2>2, <2>4, <2>6
    <2>8. QED
      BY <1>1, <1>6, <2>7
  <1>11. QED
    BY <1>9, <1>10

\* A file that is read again, longer.
LEMMA ReadAgain ==
    ASSUME NEW f \in {"claude", "codex"}, NEW p, NEW q, AreLines(p), AreLines(q), BeginsWith(q, p)
    PROVE  LET old == reader(f, p).turns
               new == reader(f, q).turns
           IN  Len(old) <= Len(new) /\ \A k \in 1 .. Len(old) : Same(new[k], old[k])
  <1>1. PICK old, new : old = reader(f, p).turns /\ new = reader(f, q).turns
    OBVIOUS
  <1>2. PICK a, b : a = Reads(f, p)[Len(p)].turns /\ b = Reads(f, q)[Len(q)].turns
    OBVIOUS
  <1>3. Len(old) = Len(a) /\ \A k \in 1 .. Len(a) : Same(old[k], a[k])
    BY <1>1, <1>2, ReaderTurns
  <1>4. Len(new) = Len(b) /\ \A k \in 1 .. Len(b) : Same(new[k], b[k])
    BY <1>1, <1>2, ReaderTurns
  <1>5. Len(a) \in Nat /\ Len(b) \in Nat
    BY <1>2, ReaderTurns, DomainOf DEF IsTurns
  <1>6. Grew(a, b)
    <2>1. PICK n \in Nat : n = Len(p)
      BY DEF AreLines, IsSeq
    <2>2. n <= Len(q)
      BY <2>1 DEF BeginsWith
    <2>3. Grew(Reads(f, q)[n].turns, b)
      BY <1>2, <2>1, <2>2, ReadsGrow
    <2>4. Reads(f, q)[n] = Reads(f, p)[n]
      BY <2>1, ReadsAgree
    <2>5. QED
      BY <1>2, <2>1, <2>3, <2>4
  <1>7. Len(old) <= Len(new)
    BY <1>3, <1>4, <1>6 DEF Grew
  <1>8. ASSUME NEW k \in 1 .. Len(old) PROVE Same(new[k], old[k])
    <2>1. k \in 1 .. Len(a) /\ k \in 1 .. Len(b)
      BY <1>3, <1>5, <1>6 DEF Grew
    <2>2. Same(new[k], b[k]) /\ Same(b[k], a[k]) /\ Same(old[k], a[k])
      BY <1>3, <1>4, <1>6, <2>1 DEF Grew
    <2>3. QED
      BY <2>2 DEF Same
  <1>9. QED
    BY <1>1, <1>7, <1>8

-----------------------------------------------------------------------------
\* Slices

\* The turn a summary is credited to.
Target(meta) == IF meta.summary_at = None \/ meta.turns = <<>> THEN None
                ELSE 1 + Min({meta.summary_at, Len(meta.turns) - 1})

LEMMA SlicesAre ==
    ASSUME NEW meta, IsTurns(meta.turns)
    PROVE  LET slices == sessionize(meta)
               parts == _segment(meta.turns)
           IN  /\ IsSeq(slices) /\ Len(slices) = Len(parts) /\ DOMAIN slices = 1 .. Len(parts)
               /\ SideBySide(parts, Len(meta.turns))
               /\ \A i \in 1 .. Len(parts) :
                    /\ slices[i].id = <<meta.id, i>> /\ slices[i].reason = parts[i].reason
                    /\ slices[i].turns = SubSeq(meta.turns, parts[i].from, parts[i].to)
                    /\ slices[i].has_compact_summary <=>
                         Target(meta) # None /\ Target(meta) \in parts[i].from .. parts[i].to
  <1>1. PICK slices, parts : slices = sessionize(meta) /\ parts = _segment(meta.turns)
    OBVIOUS
  <1>2. Len(meta.turns) \in Nat
    BY DomainOf DEF IsTurns
  <1>3. SideBySide(parts, Len(meta.turns))
    BY <1>1, <1>2, SlicesSideBySide
  <1>4. PICK n \in Nat : n = Len(parts) /\ DOMAIN parts = 1 .. n
    BY <1>3, DomainOf DEF SideBySide
  <1>5. PICK t : t = Target(meta)
    OBVIOUS
  <1>6. slices = [i \in 1 .. n |->
          [id |-> <<meta.id, i>>, turns |-> SubSeq(meta.turns, parts[i].from, parts[i].to), reason |-> parts[i].reason,
           project |-> infer_project(meta.cwd),
           resumed_from |-> IF i = 1 THEN None ELSE <<meta.id, i - 1>>,
           has_compact_summary |-> t # None /\ t \in parts[i].from .. parts[i].to]]
    BY <1>1, <1>4, <1>5 DEF sessionize, Target
  <1>7. slices = [i \in 1 .. n |-> slices[i]]
    BY <1>6
  <1>8. IsSeq(slices) /\ Len(slices) = n /\ DOMAIN slices = 1 .. n
    BY <1>7, FunIsSeq
  <1>9. ASSUME NEW i \in 1 .. n
        PROVE  /\ slices[i].id = <<meta.id, i>> /\ slices[i].reason = parts[i].reason
               /\ slices[i].turns = SubSeq(meta.turns, parts[i].from, parts[i].to)
               /\ slices[i].has_compact_summary <=> t # None /\ t \in parts[i].from .. parts[i].to
    BY <1>6
  <1>10. QED
    BY <1>1, <1>3, <1>4, <1>5, <1>8, <1>9

LEMMA SliceTurns ==
    ASSUME NEW meta, IsTurns(meta.turns), NEW i \in 1 .. Len(_segment(meta.turns))
    PROVE  LET turns == sessionize(meta)[i].turns
               part == _segment(meta.turns)[i]
           IN  /\ IsTurns(turns) /\ part.from \in 1 .. Len(meta.turns) /\ part.to \in part.from .. Len(meta.turns)
               /\ Len(turns) = part.to - part.from + 1
               /\ \A k \in 1 .. Len(turns) : turns[k] = meta.turns[part.from + k - 1]
  <1>1. PICK turns, part, all : turns = sessionize(meta)[i].turns /\ part = _segment(meta.turns)[i] /\ all = meta.turns
    OBVIOUS
  <1>2. PICK l \in Nat : l = Len(all) /\ IsTurns(all)
    BY <1>1, DomainOf DEF IsTurns
  <1>3. turns = SubSeq(all, part.from, part.to)
    BY <1>1, SlicesAre
  <1>4. SideBySide(_segment(meta.turns), Len(meta.turns))
    BY SlicesAre
  <1>5. part.from \in 1 .. l /\ part.to \in part.from .. l
    BY <1>1, <1>2, <1>4 DEF SideBySide
  <1>6. PICK a, b : a = part.from /\ b = part.to
    OBVIOUS
  <1>7. a \in 1 .. l + 1 /\ b \in a - 1 .. l /\ a \in 1 .. l /\ b \in a .. l
    BY <1>2, <1>5, <1>6
  <1>8. /\ IsSeq(turns) /\ Len(turns) = b - a + 1
        /\ \A k \in 1 .. b - a + 1 : turns[k] = all[a + k - 1]
    <2>1. IsSeq(all) /\ a \in 1 .. Len(all) + 1 /\ b \in a - 1 .. Len(all)
      BY <1>2, <1>7 DEF IsTurns
    <2>2. turns = SubSeq(all, a, b)
      BY <1>3, <1>6
    <2>3. QED
      BY <2>1, <2>2, Sliced
  <1>9. ASSUME NEW k \in 1 .. b - a + 1 PROVE IsTurn(turns[k])
    <2>1. a + k - 1 \in 1 .. l
      BY <1>2, <1>7
    <2>2. QED
      BY <1>2, <1>8, <2>1 DEF IsTurns
  <1>10. IsTurns(turns)
    BY <1>8, <1>9 DEF IsTurns
  <1>11. QED
    BY <1>1, <1>2, <1>5, <1>6, <1>8, <1>10

LEMMA PricesAre ==
    ASSUME NEW turns, IsTurns(turns)
    PROVE  /\ Len(Prices(turns)) = Len(turns) /\ Nats(Prices(turns))
           /\ \A k \in 1 .. Len(turns) : Prices(turns)[k] = turns[k].usage * get_rates(turns[k].model)
  <1>1. PICK n \in Nat : n = Len(turns) /\ DOMAIN turns = 1 .. n
    BY DomainOf DEF IsTurns
  <1>2. PICK v : v = Prices(turns)
    OBVIOUS
  <1>3. v = [k \in 1 .. n |-> turns[k].usage * get_rates(turns[k].model)]
    BY <1>1, <1>2 DEF Prices
  <1>4. v = [k \in 1 .. n |-> v[k]] /\ \A k \in 1 .. n : v[k] = turns[k].usage * get_rates(turns[k].model)
    BY <1>3
  <1>5. IsSeq(v) /\ Len(v) = n
    BY <1>4, FunIsSeq
  <1>6. ASSUME NEW k \in 1 .. n PROVE v[k] \in Nat
    <2>1. PICK u \in Nat : u = turns[k].usage
      BY <1>1 DEF IsTurns, IsTurn
    <2>2. PICK r : r = get_rates(turns[k].model)
      OBVIOUS
    <2>3. r \in {1, 4, 19}
      BY <2>2 DEF get_rates
    <2>4. u * 1 \in Nat /\ u * 4 \in Nat /\ u * 19 \in Nat
      BY <2>1
    <2>5. v[k] = u * r
      BY <1>4, <2>1, <2>2
    <2>6. QED
      BY <2>3, <2>4, <2>5
  <1>7. QED
    BY <1>1, <1>2, <1>4, <1>5, <1>6 DEF Nats

LEMMA SpanIs ==
    ASSUME NEW l \in Nat, NEW a \in 1 .. l, NEW b \in a .. l, NEW w, w = b - a + 1
    PROVE  w \in Nat /\ a \in 1 .. l + 1 /\ a + w <= l + 1 /\ a - 1 + w = b
  OBVIOUS

\* X[i] is what v says of the turns of slice i, and y[i] its total.
Worth(meta, v, y, X) ==
    \A i \in 1 .. Len(_segment(meta.turns)) :
      /\ Nats(X[i]) /\ Len(X[i]) = Len(sessionize(meta)[i].turns) /\ y[i] = Total(X[i])
      /\ \A k \in 1 .. Len(X[i]) : X[i][k] = v[_segment(meta.turns)[i].from + k - 1]

\* What a slice is worth is what its turns are worth.
LEMMA PaidBySlices ==
    ASSUME NEW meta, IsTurns(meta.turns), NEW v, Nats(v), Len(v) = Len(meta.turns),
           NEW y, Len(y) = Len(_segment(meta.turns)), NEW X,
           Worth(meta, v, y, X)
    PROVE  Total(y) = Total(v)
  <1>1. PICK parts, slices : parts = _segment(meta.turns) /\ slices = sessionize(meta)
    OBVIOUS
  <1>2. SideBySide(parts, Len(v))
    BY <1>1, SlicesAre
  <1>3. PICK l \in Nat, n \in Nat : l = Len(v) /\ n = Len(parts)
    BY <1>2 DEF Nats, SideBySide, IsSeq
  <1>4. ASSUME NEW i \in 1 .. n PROVE y[i] \in Nat /\ Sums(v)[parts[i].to] = Sums(v)[parts[i].from - 1] + y[i]
    <2>1. PICK x : x = X[i]
      OBVIOUS
    <2>2. PICK a, b : a = parts[i].from /\ b = parts[i].to
      OBVIOUS
    <2>3. /\ Nats(x) /\ Len(x) = Len(slices[i].turns) /\ y[i] = Total(x)
          /\ \A k \in 1 .. Len(x) : x[k] = v[a + k - 1]
      BY <1>1, <1>3, <2>1, <2>2 DEF Worth
    <2>4. a \in 1 .. l /\ b \in a .. l /\ Len(x) = b - a + 1
      BY <1>1, <1>3, <2>2, <2>3, SliceTurns
    <2>5. a \in 1 .. Len(v) + 1 /\ a + Len(x) <= Len(v) + 1 /\ a - 1 + Len(x) = b
      <3>1. a \in 1 .. l + 1 /\ a + Len(x) <= l + 1 /\ a - 1 + Len(x) = b
        BY <2>4, SpanIs
      <3>2. QED
        BY <1>3, <3>1
    <2>6. Sums(v)[a - 1 + Len(x)] = Sums(v)[a - 1] + Total(x)
      <3>1. PICK c : c = a
        OBVIOUS
      <3>2. /\ Nats(x) /\ c \in 1 .. Len(v) + 1 /\ c + Len(x) <= Len(v) + 1
            /\ \A k \in 1 .. Len(x) : x[k] = v[c + k - 1]
        BY <2>3, <2>5, <3>1
      <3>3. Nats(v)
        OBVIOUS
      <3>4. Sums(v)[c - 1 + Len(x)] = Sums(v)[c - 1] + Total(x)
        BY ONLY <3>2, <3>3, PartSum
      <3>5. QED
        BY ONLY <3>1, <3>4
    <2>7. Total(x) \in Nat
      BY <2>3, TotalNat
    <2>8. QED
      BY <2>2, <2>3, <2>5, <2>6, <2>7
  <1>5. Nats(y)
    BY <1>1, <1>3, <1>4 DEF Nats
  <1>6. QED
    BY <1>1, <1>2, <1>3, <1>4, <1>5, SumOfParts

\* What a file reports is paid, and paid once.
LEMMA PaidOnce ==
    ASSUME NEW meta, IsTurns(meta.turns)
    PROVE  LET slices == sessionize(meta)
           IN  /\ Total([i \in DOMAIN slices |-> compact(slices[i]).cost.total_tokens]) = Total(Tokens(meta.turns))
               /\ Total([i \in DOMAIN slices |-> compact(slices[i]).cost.usd]) = estimate_cost(meta.turns).usd
  <1>1. PICK all, slices, parts : all = meta.turns /\ slices = sessionize(meta) /\ parts = _segment(meta.turns)
    OBVIOUS
  <1>2. PICK n \in Nat : n = Len(parts) /\ DOMAIN slices = 1 .. n
    BY <1>1, SlicesAre DEF SideBySide, IsSeq
  <1>3. IsTurns(all)
    BY <1>1
  <1>4. ASSUME NEW i \in 1 .. n
        PROVE  LET turns == slices[i].turns
               IN  /\ IsTurns(turns) /\ Len(turns) \in Nat
                   /\ \A k \in 1 .. Len(turns) : /\ parts[i].from + k - 1 \in 1 .. Len(all)
                                                 /\ turns[k] = all[parts[i].from + k - 1]
    <2>1. PICK turns, a, b, l : turns = slices[i].turns /\ a = parts[i].from /\ b = parts[i].to /\ l = Len(all)
      OBVIOUS
    <2>2. /\ IsTurns(turns) /\ a \in 1 .. l /\ b \in a .. l /\ Len(turns) = b - a + 1
          /\ \A k \in 1 .. Len(turns) : turns[k] = all[a + k - 1]
      <3>1. i \in 1 .. Len(_segment(meta.turns))
        BY <1>1, <1>2
      <3>2. LET ts == sessionize(meta)[i].turns
                part == _segment(meta.turns)[i]
            IN  /\ IsTurns(ts) /\ part.from \in 1 .. Len(meta.turns) /\ part.to \in part.from .. Len(meta.turns)
                /\ Len(ts) = part.to - part.from + 1
                /\ \A k \in 1 .. Len(ts) : ts[k] = meta.turns[part.from + k - 1]
        BY <3>1, SliceTurns
      <3>3. QED
        BY <1>1, <2>1, <3>2
    <2>3. l \in Nat
      BY <1>3, <2>1, DomainOf DEF IsTurns
    <2>4. \A k \in 1 .. Len(turns) : a + k - 1 \in 1 .. l
      BY <2>2, <2>3
    <2>5. Len(turns) \in Nat
      BY <2>2, <2>3
    <2>6. QED
      BY <2>1, <2>2, <2>4, <2>5
  <1>5. \A s : compact(s).cost.total_tokens = Total(Tokens(s.turns)) /\ compact(s).cost.usd = Total(Prices(s.turns))
    BY DEF compact, estimate_cost
  <1>6. Total([i \in DOMAIN slices |-> compact(slices[i]).cost.total_tokens]) = Total(Tokens(all))
    <2>1. PICK v : v = Tokens(all)
      OBVIOUS
    <2>2. PICK y : y = [i \in DOMAIN slices |-> compact(slices[i]).cost.total_tokens]
      OBVIOUS
    <2>3. PICK X : X = [i \in 1 .. n |-> Tokens(slices[i].turns)]
      OBVIOUS
    <2>4. y = [i \in 1 .. n |-> y[i]] /\ \A i \in 1 .. n : y[i] = Total(Tokens(slices[i].turns))
      BY <1>2, <1>5, <2>2
    <2>5. Len(y) = n
      BY <2>4, FunIsSeq
    <2>6. Nats(v) /\ Len(v) = Len(all) /\ \A k \in 1 .. Len(all) : v[k] = all[k].usage
      BY <1>3, <2>1, TokensAre
    <2>7. ASSUME NEW i \in 1 .. n
          PROVE  /\ Nats(X[i]) /\ Len(X[i]) = Len(slices[i].turns) /\ y[i] = Total(X[i])
                 /\ \A k \in 1 .. Len(X[i]) : X[i][k] = v[parts[i].from + k - 1]
      <3>1. PICK turns, x, a : turns = slices[i].turns /\ x = X[i] /\ a = parts[i].from
        OBVIOUS
      <3>2. x = Tokens(turns) /\ y[i] = Total(x)
        BY <2>3, <2>4, <3>1
      <3>3. /\ IsTurns(turns)
            /\ \A k \in 1 .. Len(turns) : a + k - 1 \in 1 .. Len(all) /\ turns[k] = all[a + k - 1]
        BY <1>4, <3>1
      <3>4. Len(x) = Len(turns) /\ Nats(x) /\ \A k \in 1 .. Len(turns) : x[k] = turns[k].usage
        BY <3>2, <3>3, TokensAre
      <3>5. \A k \in 1 .. Len(x) : x[k] = v[a + k - 1]
        BY <2>6, <3>3, <3>4
      <3>6. QED
        BY <3>1, <3>2, <3>4, <3>5
    <2>8. Total(y) = Total(v)
      <3>1. Nats(v) /\ Len(v) = Len(meta.turns) /\ Len(y) = Len(_segment(meta.turns))
        BY <1>1, <1>2, <2>5, <2>6
      <3>2. Worth(meta, v, y, X)
        BY <1>1, <1>2, <2>7 DEF Worth
      <3>3. QED
        BY <3>1, <3>2, PaidBySlices
    <2>9. QED
      BY <2>1, <2>2, <2>8
  <1>7. Total([i \in DOMAIN slices |-> compact(slices[i]).cost.usd]) = Total(Prices(all))
    <2>1. PICK v : v = Prices(all)
      OBVIOUS
    <2>2. PICK y : y = [i \in DOMAIN slices |-> compact(slices[i]).cost.usd]
      OBVIOUS
    <2>3. PICK X : X = [i \in 1 .. n |-> Prices(slices[i].turns)]
      OBVIOUS
    <2>4. y = [i \in 1 .. n |-> y[i]] /\ \A i \in 1 .. n : y[i] = Total(Prices(slices[i].turns))
      BY <1>2, <1>5, <2>2
    <2>5. Len(y) = n
      BY <2>4, FunIsSeq
    <2>6. /\ Nats(v) /\ Len(v) = Len(all)
          /\ \A k \in 1 .. Len(all) : v[k] = all[k].usage * get_rates(all[k].model)
      BY <1>3, <2>1, PricesAre
    <2>7. ASSUME NEW i \in 1 .. n
          PROVE  /\ Nats(X[i]) /\ Len(X[i]) = Len(slices[i].turns) /\ y[i] = Total(X[i])
                 /\ \A k \in 1 .. Len(X[i]) : X[i][k] = v[parts[i].from + k - 1]
      <3>1. PICK turns, x, a : turns = slices[i].turns /\ x = X[i] /\ a = parts[i].from
        OBVIOUS
      <3>2. x = Prices(turns) /\ y[i] = Total(x)
        BY <2>3, <2>4, <3>1
      <3>3. /\ IsTurns(turns)
            /\ \A k \in 1 .. Len(turns) : a + k - 1 \in 1 .. Len(all) /\ turns[k] = all[a + k - 1]
        BY <1>4, <3>1
      <3>4. /\ Len(x) = Len(turns) /\ Nats(x)
            /\ \A k \in 1 .. Len(turns) : x[k] = turns[k].usage * get_rates(turns[k].model)
        BY <3>2, <3>3, PricesAre
      <3>5. \A k \in 1 .. Len(x) : x[k] = v[a + k - 1]
        BY <2>6, <3>3, <3>4
      <3>6. QED
        BY <3>1, <3>2, <3>4, <3>5
    <2>8. Total(y) = Total(v)
      <3>1. Nats(v) /\ Len(v) = Len(meta.turns) /\ Len(y) = Len(_segment(meta.turns))
        BY <1>1, <1>2, <2>5, <2>6
      <3>2. Worth(meta, v, y, X)
        BY <1>1, <1>2, <2>7 DEF Worth
      <3>3. QED
        BY <3>1, <3>2, PaidBySlices
    <2>9. QED
      BY <2>1, <2>2, <2>8
  <1>8. estimate_cost(all).usd = Total(Prices(all))
    BY DEF estimate_cost
  <1>9. QED
    BY <1>1, <1>6, <1>7, <1>8

Lower(a, b) == Min({a, b})

LEMMA LowerIs == ASSUME NEW a \in Nat, NEW b \in Nat PROVE Lower(a, b) \in Nat /\ Lower(a, b) <= b
  <1>1. \E x \in {a, b} : \A y \in {a, b} : x <= y
    OBVIOUS
  <1>2. Min({a, b}) \in {a, b} /\ \A y \in {a, b} : Min({a, b}) <= y
    BY <1>1 DEF Min
  <1>3. Min({a, b}) \in Nat /\ Min({a, b}) <= b
    <2>1. b \in {a, b}
      OBVIOUS
    <2>2. Min({a, b}) <= b
      BY <1>2, <2>1
    <2>3. Min({a, b}) = a \/ Min({a, b}) = b
      BY <1>2
    <2>4. QED
      BY <2>2, <2>3
  <1>4. QED
    BY <1>3 DEF Lower

LEMMA TargetIs ==
    ASSUME NEW l \in Nat, l # 0, NEW a \in 0 .. l
    PROVE  1 + Lower(a, l - 1) \in 1 .. l
  <1>1. a \in Nat /\ l - 1 \in Nat
    OBVIOUS
  <1>2. Lower(a, l - 1) \in Nat /\ Lower(a, l - 1) <= l - 1
    BY <1>1, LowerIs
  <1>3. QED
    BY <1>2

\* Where a summary was met.
Credited(meta) ==
    /\ meta.summary = "" => meta.summary_at = None
    /\ meta.summary # "" => meta.summary_at \in 0 .. Len(meta.turns)

\* A summary is credited once, if there are turns to credit.
LEMMA CreditedOnce ==
    ASSUME NEW meta, IsTurns(meta.turns), Credited(meta)
    PROVE  LET slices == sessionize(meta)
           IN  Cardinality({i \in DOMAIN slices : slices[i].has_compact_summary}) =
                 IF meta.summary # "" /\ meta.turns # <<>> THEN 1 ELSE 0
  <1>1. PICK slices, parts : slices = sessionize(meta) /\ parts = _segment(meta.turns)
    OBVIOUS
  <1>2. PICK l \in Nat : l = Len(meta.turns) /\ (meta.turns = <<>> <=> l = 0)
    BY DomainOf, NoneLeft DEF IsTurns
  <1>3. PICK t : t = Target(meta)
    OBVIOUS
  <1>4. /\ DOMAIN slices = 1 .. Len(parts) /\ SideBySide(parts, l)
        /\ \A i \in 1 .. Len(parts) : slices[i].has_compact_summary <=> t # None /\ t \in parts[i].from .. parts[i].to
    BY <1>1, <1>2, <1>3, SlicesAre
  <1>5. PICK C : C = {i \in DOMAIN slices : slices[i].has_compact_summary}
    OBVIOUS
  <1>6. C = {i \in 1 .. Len(parts) : t # None /\ t \in parts[i].from .. parts[i].to}
    BY <1>4, <1>5
  <1>7. CASE meta.summary # "" /\ meta.turns # <<>>
    <2>1. PICK at : at = meta.summary_at
      OBVIOUS
    <2>a. at \in 0 .. l /\ l # 0
      BY <1>2, <1>7, <2>1 DEF Credited
    <2>b. None \notin Nat
      BY TranscriptsAssumption
    <2>c. at # None
      BY <2>a, <2>b
    <2>2. t = 1 + Lower(at, l - 1)
      BY <1>2, <1>3, <1>7, <2>1, <2>c DEF Target, Lower
    <2>3. t \in 1 .. l
      BY <2>a, <2>2, TargetIs
    <2>4. t # None
      BY <2>3, <2>b
    <2>5. PICK i \in 1 .. Len(parts) : Holders(parts, t) = {i}
      BY <1>4, <2>3, OneSlice
    <2>6. C = {i}
      BY <1>6, <2>4, <2>5 DEF Holders
    <2>7. Cardinality(C) = 1
      BY <2>6, FS_Singleton
    <2>8. QED
      BY <1>1, <1>5, <1>7, <2>7
  <1>8. CASE ~(meta.summary # "" /\ meta.turns # <<>>)
    <2>1. t = None
      BY <1>3, <1>8 DEF Target, Credited
    <2>2. C = {}
      BY <1>6, <2>1
    <2>3. Cardinality(C) = 0
      BY <2>2, FS_EmptySet
    <2>4. QED
      BY <1>1, <1>5, <1>8, <2>3
  <1>9. QED
    BY <1>7, <1>8

\* What two reads make of a file, the second of more of it.
LEMMA SlicesAgain ==
    ASSUME NEW f \in {"claude", "codex"}, NEW p, NEW q, AreLines(p), AreLines(q), BeginsWith(q, p)
    PROVE  LET old == sessionize(reader(f, p))
               new == sessionize(reader(f, q))
           IN  \A i \in DOMAIN old : new[1].id = old[1].id =>
                 /\ i \in DOMAIN new /\ new[i].id = old[i].id /\ Len(new[i].turns) >= Len(old[i].turns)
                 /\ \A k \in DOMAIN old[i].turns : Outline(new[i].turns[k]) = Outline(old[i].turns[k])
                 /\ i < Len(old) => Len(new[i].turns) = Len(old[i].turns) /\ new[i].reason = old[i].reason
  <1>1. PICK x, y : x = reader(f, p) /\ y = reader(f, q)
    OBVIOUS
  <1>2. PICK a, b : a = x.turns /\ b = y.turns
    OBVIOUS
  <1>3. IsTurns(a) /\ IsTurns(b)
    BY <1>1, <1>2, ReaderTurns
  <1>4. PICK l \in Nat, m \in Nat : l = Len(a) /\ m = Len(b)
    BY <1>3, DomainOf DEF IsTurns
  <1>5. l <= m /\ \A k \in 1 .. l : Same(b[k], a[k])
    BY <1>1, <1>2, <1>4, ReadAgain
  <1>6. /\ \A k \in 1 .. l : a[k].id = <<x.id, k - 1>>
        /\ \A k \in 1 .. m : b[k].id = <<y.id, k - 1>>
    <2>1. \A k \in 1 .. l : a[k].id = <<x.id, k - 1>>
      BY SMTT(30), <1>1, <1>2, <1>4, ReaderTurns
    <2>2. \A k \in 1 .. m : b[k].id = <<y.id, k - 1>>
      BY SMTT(30), <1>1, <1>2, <1>4, ReaderTurns
    <2>3. QED
      BY <2>1, <2>2
  <1>7. PICK old, new, s, r : old = sessionize(x) /\ new = sessionize(y) /\ s = _segment(a) /\ r = _segment(b)
    OBVIOUS
  <1>8. /\ DOMAIN old = 1 .. Len(s) /\ Len(old) = Len(s) /\ SideBySide(s, l)
        /\ \A i \in 1 .. Len(s) : old[i].id = <<x.id, i>> /\ old[i].reason = s[i].reason
    BY <1>2, <1>3, <1>4, <1>7, SlicesAre
  <1>9. /\ DOMAIN new = 1 .. Len(r) /\ Len(new) = Len(r) /\ SideBySide(r, m)
        /\ \A i \in 1 .. Len(r) : new[i].id = <<y.id, i>> /\ new[i].reason = r[i].reason
    BY <1>2, <1>3, <1>4, <1>7, SlicesAre
  <1>10. PICK c \in Nat, d \in Nat : c = Len(s) /\ d = Len(r)
    BY <1>8, <1>9 DEF SideBySide, IsSeq
  <1>11. /\ c <= d
         /\ \A i \in 1 .. c : /\ r[i].from = s[i].from /\ s[i].to <= r[i].to
                              /\ i < c => r[i].to = s[i].to /\ r[i].reason = s[i].reason
    <2>1. /\ Len(a) \in Nat /\ Len(b) \in Nat /\ Len(a) <= Len(b)
          /\ \A k \in 1 .. Len(a) : b[k].at = a[k].at
      BY <1>4, <1>5 DEF Same
    <2>2. QED
      BY <1>7, <1>10, <2>1, PartsStable
  <1>12. ASSUME NEW i \in 1 .. c, new[1].id = old[1].id
         PROVE  /\ i \in DOMAIN new /\ new[i].id = old[i].id /\ Len(new[i].turns) >= Len(old[i].turns)
                /\ \A k \in DOMAIN old[i].turns : Outline(new[i].turns[k]) = Outline(old[i].turns[k])
                /\ i < Len(old) => Len(new[i].turns) = Len(old[i].turns) /\ new[i].reason = old[i].reason
    <2>1. i \in 1 .. d /\ 1 \in 1 .. c /\ 1 \in 1 .. d
      BY <1>10, <1>11
    <2>2. x.id = y.id
      BY <1>8, <1>9, <1>10, <1>12, <2>1
    <2>3. PICK t, u : t = old[i].turns /\ u = new[i].turns
      OBVIOUS
    <2>4. PICK from, s2, r2 : from = s[i].from /\ s2 = s[i].to /\ r2 = r[i].to
      OBVIOUS
    <2>5. /\ IsTurns(t) /\ from \in 1 .. l /\ s2 \in from .. l /\ Len(t) = s2 - from + 1
          /\ \A k \in 1 .. Len(t) : t[k] = a[from + k - 1]
      <3>1. i \in 1 .. Len(_segment(x.turns))
        BY <1>2, <1>7, <1>10
      <3>2. QED
        BY SMTT(30), <1>2, <1>3, <1>4, <1>7, <2>3, <2>4, <3>1, SliceTurns
    <2>6. /\ IsTurns(u) /\ r2 \in from .. m /\ Len(u) = r2 - from + 1
          /\ \A k \in 1 .. Len(u) : u[k] = b[from + k - 1]
      <3>1. i \in 1 .. Len(_segment(y.turns)) /\ r[i].from = from
        BY <1>2, <1>7, <1>10, <1>11, <2>1, <2>4
      <3>2. QED
        <4>1. LET ts == sessionize(y)[i].turns
                  part == _segment(y.turns)[i]
              IN  /\ IsTurns(ts) /\ part.from \in 1 .. Len(y.turns) /\ part.to \in part.from .. Len(y.turns)
                  /\ Len(ts) = part.to - part.from + 1
                  /\ \A k \in 1 .. Len(ts) : ts[k] = y.turns[part.from + k - 1]
          BY <1>2, <1>3, <3>1, SliceTurns
        <4>2. QED
          BY <1>2, <1>4, <1>7, <2>3, <2>4, <3>1, <4>1
    <2>7. s2 <= r2 /\ (i < c => r2 = s2)
      BY <1>11, <2>4
    <2>8. PICK n \in Nat, o \in Nat : n = Len(t) /\ o = Len(u)
      BY <2>5, <2>6, DomainOf DEF IsTurns
    <2>9. n <= o /\ (i < c => n = o) /\ \A k \in 1 .. n : from + k - 1 \in 1 .. l /\ from + k - 1 \in 1 .. m
      BY <1>4, <1>5, <2>5, <2>6, <2>7, <2>8
    <2>10. ASSUME NEW k \in 1 .. n PROVE Outline(u[k]) = Outline(t[k])
      <3>1. PICK j : j = from + k - 1
        OBVIOUS
      <3>2. j \in 1 .. l /\ j \in 1 .. m /\ k \in 1 .. o
        BY <2>8, <2>9, <3>1
      <3>3. t[k] = a[j] /\ u[k] = b[j]
        BY <2>5, <2>6, <2>8, <3>1, <3>2
      <3>4. Same(u[k], t[k]) /\ u[k].id = t[k].id
        BY <1>5, <1>6, <2>2, <3>2, <3>3
      <3>5. QED
        BY <3>4 DEF Same, Outline
    <2>11. DOMAIN t = 1 .. n
      BY <2>5, <2>8, DomainOf DEF IsTurns
    <2>12. new[i].id = old[i].id /\ (i < c => new[i].reason = old[i].reason)
      <3>1. new[i].id = <<y.id, i>> /\ new[i].reason = r[i].reason
        BY <1>9, <1>10, <2>1
      <3>2. old[i].id = <<x.id, i>> /\ old[i].reason = s[i].reason
        BY <1>8, <1>10
      <3>3. QED
        BY <1>11, <2>2, <3>1, <3>2
    <2>13. QED
      BY <1>8, <1>9, <1>10, <2>1, <2>3, <2>8, <2>9, <2>10, <2>11, <2>12
  <1>13. QED
    BY <1>1, <1>7, <1>8, <1>10, <1>12

-----------------------------------------------------------------------------
\* Redaction

Get(saved, key, default) == IF \E e \in saved : e[1] = key THEN (CHOOSE e \in saved : e[1] = key)[2] ELSE default

LEMMA GetIs ==
    ASSUME NEW S, NEW key, NEW v, NEW d, <<key, v>> \in S, \A e \in S : e[1] = key => e[2] = v
    PROVE  Get(S, key, d) = v
  <1>1. \E e \in S : e[1] = key
    <2>1. <<key, v>>[1] = key
      OBVIOUS
    <2>2. QED
      BY <2>1
  <1>2. PICK c : c = CHOOSE e \in S : e[1] = key
    OBVIOUS
  <1>3. c \in S /\ c[1] = key
    BY <1>1, <1>2
  <1>4. Get(S, key, d) = c[2]
    BY <1>1, <1>2 DEF Get
  <1>5. QED
    BY <1>3, <1>4

LEMMA GetNot == ASSUME NEW S, NEW key, NEW d, \A e \in S : e[1] # key PROVE Get(S, key, d) = d
  BY DEF Get

\* A configuration is read back as it was saved.
LEMMA ConfigKept == ASSUME NEW c \in Configs PROVE load_config(save_config(c)) = c
  <1>1. /\ c = [secrets |-> c.secrets, url |-> c.url, notifier |-> c.notifier, solo |-> c.solo]
        /\ c.notifier \in BOOLEAN /\ c.solo \in BOOLEAN
    BY TranscriptsAssumption
  <1>2. PICK S : S = save_config(c)
    OBVIOUS
  <1>3. PICK a, b, n, s : a = c.secrets /\ b = c.url /\ n = c.notifier /\ s = c.solo
    OBVIOUS
  <1>4. S = {<<"redaction.secrets", a>>}
            \cup (IF b = None THEN {} ELSE {<<"server.url", b>>})
            \cup (IF n THEN {} ELSE {<<"update.notifier", FALSE>>})
            \cup (IF s THEN {<<"mode.solo", TRUE>>} ELSE {})
    BY <1>2, <1>3 DEF save_config
  <1>5. load_config(S) = [secrets |-> Get(S, "redaction.secrets", TRUE), url |-> Get(S, "server.url", None),
                          notifier |-> Get(S, "update.notifier", TRUE), solo |-> Get(S, "mode.solo", FALSE)]
    BY DEF load_config, Get
  <1>a. PICK no, yes : no = FALSE /\ yes = TRUE
    OBVIOUS
  <1>b. PICK P, U, N, M : /\ P = <<"redaction.secrets", a>> /\ U = <<"server.url", b>>
                          /\ N = <<"update.notifier", no>> /\ M = <<"mode.solo", yes>>
    OBVIOUS
  <1>c. /\ P[1] = "redaction.secrets" /\ P[2] = a /\ U[1] = "server.url" /\ U[2] = b
        /\ N[1] = "update.notifier" /\ N[2] = no /\ M[1] = "mode.solo" /\ M[2] = yes
    BY <1>b
  <1>d. /\ P \in S /\ (b # None => U \in S) /\ (n = FALSE => N \in S) /\ (s = TRUE => M \in S)
    BY <1>4, <1>a, <1>b
  <1>e. \A e \in S : \/ e = P \/ (e = U /\ b # None) \/ (e = N /\ n # TRUE) \/ (e = M /\ s # FALSE)
    BY <1>1, <1>3, <1>4, <1>a, <1>b
  <1>6. Get(S, "redaction.secrets", TRUE) = a
    <2>1. \A e \in S : e[1] = "redaction.secrets" => e[2] = a
      BY <1>c, <1>e
    <2>2. <<"redaction.secrets", a>> \in S
      BY <1>b, <1>d
    <2>3. Get(S, "redaction.secrets", yes) = a
      BY <2>1, <2>2, GetIs
    <2>4. QED
      BY <1>a, <2>3
  <1>7. Get(S, "server.url", None) = b
    <2>1. CASE b = None
      <3>1. \A e \in S : e[1] # "server.url"
        BY <1>c, <1>e, <2>1
      <3>2. QED
        BY <2>1, <3>1, GetNot
    <2>2. CASE b # None
      <3>1. \A e \in S : e[1] = "server.url" => e[2] = b
        BY <1>c, <1>e
      <3>2. <<"server.url", b>> \in S
        BY <1>b, <1>d, <2>2
      <3>3. QED
        BY <3>1, <3>2, GetIs
    <2>3. QED
      BY <2>1, <2>2
  <1>8. Get(S, "update.notifier", TRUE) = n
    <2>1. CASE n = TRUE
      <3>1. \A e \in S : e[1] # "update.notifier"
        BY <1>c, <1>e, <2>1
      <3>2. QED
        BY <2>1, <3>1, GetNot
    <2>2. CASE n = FALSE
      <3>1. \A e \in S : e[1] = "update.notifier" => e[2] = no
        BY <1>c, <1>e
      <3>2. <<"update.notifier", no>> \in S
        BY <1>b, <1>d, <2>2
      <3>3. Get(S, "update.notifier", yes) = no
        BY <3>1, <3>2, GetIs
      <3>4. QED
        BY <1>a, <2>2, <3>3
    <2>3. QED
      BY <1>1, <1>3, <2>1, <2>2
  <1>9. Get(S, "mode.solo", FALSE) = s
    <2>1. CASE s = FALSE
      <3>1. \A e \in S : e[1] # "mode.solo"
        BY <1>c, <1>e, <2>1
      <3>2. QED
        BY <2>1, <3>1, GetNot
    <2>2. CASE s = TRUE
      <3>1. \A e \in S : e[1] = "mode.solo" => e[2] = yes
        BY <1>c, <1>e
      <3>2. <<"mode.solo", yes>> \in S
        BY <1>b, <1>d, <2>2
      <3>3. Get(S, "mode.solo", no) = yes
        BY <3>1, <3>2, GetIs
      <3>4. QED
        BY <1>a, <2>2, <3>3
    <2>3. QED
      BY <1>1, <1>3, <2>1, <2>2
  <1>10. load_config(S) = [secrets |-> a, url |-> b, notifier |-> n, solo |-> s]
    BY <1>5, <1>6, <1>7, <1>8, <1>9
  <1>11. QED
    BY <1>1, <1>2, <1>3, <1>10

LEMMA Redacts == ASSUME NEW patterns \in Redactors PROVE patterns = {"secret"}
  <1>1. PICK c \in Configs : c.secrets /\ patterns = build_redactor(c)
    BY DEF Redactors
  <1>2. load_config(save_config(c)) = c
    BY ConfigKept
  <1>3. patterns = _active_patterns(c)
    BY <1>1, <1>2 DEF build_redactor
  <1>4. QED
    BY <1>1, <1>3 DEF _active_patterns

LEMMA TextRedacted == ASSUME NEW text PROVE redact_text({"secret"}, text) # "secret"
  BY DEF redact_text

LEMMA DigestRedacted ==
    ASSUME NEW slice
    PROVE  LET c == redact_compaction({"secret"}, compact(slice))
           IN  "secret" \notin {c.task_intent, c.native_summary} \cup c.files_touched
  <1>1. PICK d, c : d = compact(slice) /\ c = redact_compaction({"secret"}, compact(slice))
    OBVIOUS
  <1>2. DOMAIN d = {"id", "project", "task_intent", "native_summary", "files_touched", "cost"}
    BY <1>1 DEF compact
  <1>3. c = [d EXCEPT !.task_intent = redact_text({"secret"}, d.task_intent),
                      !.native_summary = redact_text({"secret"}, d.native_summary),
                      !.files_touched = {redact_text({"secret"}, f) : f \in d.files_touched}]
    BY <1>1 DEF redact_compaction
  <1>4. /\ c.task_intent = redact_text({"secret"}, d.task_intent)
        /\ c.native_summary = redact_text({"secret"}, d.native_summary)
        /\ c.files_touched = {redact_text({"secret"}, f) : f \in d.files_touched}
    BY <1>2, <1>3
  <1>5. c.task_intent # "secret" /\ c.native_summary # "secret"
    BY <1>4, TextRedacted
  <1>6. ASSUME "secret" \in c.files_touched PROVE FALSE
    <2>1. PICK f \in d.files_touched : redact_text({"secret"}, f) = "secret"
      BY <1>4, <1>6
    <2>2. QED
      BY <2>1, TextRedacted
  <1>7. QED
    BY <1>1, <1>5, <1>6

LEMMA TurnRedacted ==
    ASSUME NEW turn, DOMAIN turn = DOMAIN EmptyTurn
    PROVE  LET t == redact_turn({"secret"}, turn) IN "secret" \notin {t.content, t.output, t.path}
  <1>1. PICK t : t = redact_turn({"secret"}, turn)
    OBVIOUS
  <1>2. t = [turn EXCEPT !.content = redact_text({"secret"}, turn.content),
                         !.output = redact_text({"secret"}, turn.output),
                         !.path = redact_text({"secret"}, turn.path)]
    BY <1>1 DEF redact_turn
  <1>3. /\ t.content = redact_text({"secret"}, turn.content) /\ t.output = redact_text({"secret"}, turn.output)
        /\ t.path = redact_text({"secret"}, turn.path)
    BY <1>2 DEF EmptyTurn
  <1>4. QED
    BY <1>1, <1>3, TextRedacted

-----------------------------------------------------------------------------
\* The invariant

WholeOf(lines, cut) == IF cut THEN SubSeq(lines, 1, Len(lines) - 1) ELSE lines

\* r and n are what two reads made of p and then of q, both the file's beginning.
ReadTwice(f, all, n, r, p, q) ==
    /\ AreLines(p) /\ AreLines(q) /\ BeginsWith(q, p) /\ BeginsWith(all, q)
    /\ (n = <<>> /\ r = <<>>) \/ n = sessionize(reader(f, q))
    /\ r = <<>> \/ (r = sessionize(reader(f, p)) /\ n = sessionize(reader(f, q)))

Recorded(lines, f, cut, n, r) ==
    /\ AreLines(lines) /\ f \in {"claude", "codex"} /\ cut \in BOOLEAN /\ (cut => Len(lines) # 0)
    /\ \E p, q : ReadTwice(f, WholeOf(lines, cut), n, r, p, q)

TranscriptsInv == Recorded(file, format, torn, now, prior)

LEMMA WholeLines ==
    ASSUME NEW lines, AreLines(lines), NEW cut \in BOOLEAN, cut => Len(lines) # 0
    PROVE  AreLines(WholeOf(lines, cut)) /\ BeginsWith(lines, WholeOf(lines, cut))
  <1>1. PICK l \in Nat : l = Len(lines) /\ IsSeq(lines)
    BY DEF AreLines, IsSeq
  <1>2. PICK w : w = WholeOf(lines, cut)
    OBVIOUS
  <1>3. CASE cut = TRUE
    <2>1. w = SubSeq(lines, 1, l - 1) /\ l # 0
      BY <1>1, <1>2, <1>3 DEF WholeOf
    <2>2. PICK m \in Nat : m = l - 1
      BY <1>1, <2>1
    <2>3. m \in 0 .. Len(lines) /\ m <= Len(lines) /\ 1 \in 1 .. Len(lines) + 1 /\ m \in 1 - 1 .. Len(lines) /\ m - 1 + 1 = m
      BY <1>1, <2>1, <2>2
    <2>4. /\ IsSeq(SubSeq(lines, 1, m)) /\ Len(SubSeq(lines, 1, m)) = m - 1 + 1
          /\ \A k \in 1 .. m - 1 + 1 : SubSeq(lines, 1, m)[k] = lines[1 + k - 1]
      BY <1>1, <2>3, Sliced
    <2>5. IsSeq(w) /\ Len(w) = m /\ \A k \in 1 .. m : w[k] = lines[1 + k - 1]
      BY <2>1, <2>2, <2>3, <2>4
    <2>6. \A k \in 1 .. m : 1 + k - 1 = k /\ k \in 1 .. Len(lines)
      BY <1>1, <2>1, <2>2
    <2>7. \A k \in 1 .. m : w[k] = lines[k] /\ IsLine(lines[k])
      BY <2>5, <2>6 DEF AreLines
    <2>8. AreLines(w) /\ BeginsWith(lines, w)
      BY <2>3, <2>5, <2>7 DEF AreLines, BeginsWith
    <2>9. QED
      BY <1>2, <2>8
  <1>4. CASE cut = FALSE
    <2>1. w = lines
      BY <1>2, <1>4 DEF WholeOf
    <2>2. AreLines(w) /\ BeginsWith(lines, w)
      BY <1>1, <2>1 DEF BeginsWith
    <2>3. QED
      BY <1>2, <2>2
  <1>5. QED
    BY <1>3, <1>4

LEMMA BeginsMore ==
    ASSUME NEW a, NEW b, NEW c, AreLines(a), AreLines(b), AreLines(c), BeginsWith(b, a), BeginsWith(c, b)
    PROVE  BeginsWith(c, a)
  <1>1. Len(a) \in Nat /\ Len(b) \in Nat /\ Len(c) \in Nat /\ Len(a) <= Len(b) /\ Len(b) <= Len(c)
    BY DEF AreLines, IsSeq, BeginsWith
  <1>2. ASSUME NEW k \in 1 .. Len(a) PROVE c[k] = a[k]
    <2>1. k \in 1 .. Len(b)
      BY <1>1
    <2>2. QED
      BY <2>1 DEF BeginsWith
  <1>3. Len(a) <= Len(c)
    BY <1>1
  <1>4. QED
    BY <1>2, <1>3 DEF BeginsWith

\* More of the file is there.
LEMMA MoreToRead ==
    ASSUME NEW lines, NEW cut, NEW f, NEW n, NEW r, Recorded(lines, f, cut, n, r),
           NEW lines2, AreLines(lines2), NEW cut2 \in BOOLEAN, cut2 => Len(lines2) # 0,
           BeginsWith(WholeOf(lines2, cut2), WholeOf(lines, cut))
    PROVE  Recorded(lines2, f, cut2, n, r)
  <1>1. PICK a, b : a = WholeOf(lines, cut) /\ b = WholeOf(lines2, cut2)
    OBVIOUS
  <1>2. AreLines(a) /\ AreLines(b) /\ BeginsWith(b, a)
    BY <1>1, WholeLines DEF Recorded
  <1>3. PICK p, q : ReadTwice(f, a, n, r, p, q)
    BY <1>1 DEF Recorded
  <1>4. AreLines(q) /\ BeginsWith(a, q)
    BY <1>3 DEF ReadTwice
  <1>5. BeginsWith(b, q)
    BY <1>2, <1>4, BeginsMore
  <1>6. ReadTwice(f, b, n, r, p, q)
    BY <1>3, <1>5 DEF ReadTwice
  <1>7. QED
    BY <1>1, <1>6 DEF Recorded

LEMMA NewLine ==
    ASSUME NEW line \in ClaudeLines \cup CodexLines, NEW at
    PROVE  IsLine([line EXCEPT !.at = at])
  <1>1. /\ DOMAIN line = DOMAIN Line /\ line.usage \in Nat
        /\ Len(line.blocks) \in Nat /\ DOMAIN line.blocks = 1 .. Len(line.blocks)
    BY TranscriptsAssumption
  <1>2. PICK new : new = [line EXCEPT !.at = at]
    OBVIOUS
  <1>3. DOMAIN new = DOMAIN Line /\ new.usage = line.usage /\ new.blocks = line.blocks
    BY <1>1, <1>2 DEF Line
  <1>4. IsLine(new)
    BY <1>1, <1>3 DEF IsLine
  <1>5. QED
    BY <1>2, <1>4

\* Nothing is read of an empty file.
LEMMA RecordedFirst == TranscriptsInit => TranscriptsInv
  <1>1. SUFFICES ASSUME TranscriptsInit PROVE TranscriptsInv
    OBVIOUS
  <1>2. file = <<>> /\ format \in {"claude", "codex"} /\ torn = FALSE /\ now = <<>> /\ prior = <<>>
    BY <1>1 DEF TranscriptsInit
  <1>3. AreLines(<<>>) /\ BeginsWith(<<>>, <<>>)
    BY EmptySeqIs DEF AreLines, BeginsWith
  <1>4. WholeOf(<<>>, FALSE) = <<>>
    BY DEF WholeOf
  <1>5. ReadTwice(format, <<>>, <<>>, <<>>, <<>>, <<>>)
    BY <1>3 DEF ReadTwice
  <1>6. Recorded(<<>>, format, FALSE, <<>>, <<>>)
    BY <1>2, <1>3, <1>4, <1>5 DEF Recorded
  <1>7. QED
    BY <1>2, <1>6 DEF TranscriptsInv

LEMMA RecordedNext == TranscriptsInv /\ [TranscriptsNext]_tvars => TranscriptsInv'
  <1>1. SUFFICES ASSUME TranscriptsInv, [TranscriptsNext]_tvars PROVE TranscriptsInv'
    OBVIOUS
  <1>2. Recorded(file, format, torn, now, prior)
    BY <1>1 DEF TranscriptsInv
  <1>3. AreLines(file) /\ format \in {"claude", "codex"} /\ torn \in BOOLEAN /\ (torn => Len(file) # 0)
    BY <1>2 DEF Recorded
  <1>4. CASE Grow
    <2>1. PICK line, at : line \in ClaudeLines \cup CodexLines /\ file' = Append(file, [line EXCEPT !.at = at])
      BY <1>4 DEF Grow
    <2>2. torn = FALSE /\ torn' \in BOOLEAN /\ format' = format /\ now' = now /\ prior' = prior
      BY <1>3, <1>4 DEF Grow
    <2>3. PICK x : x = [line EXCEPT !.at = at]
      OBVIOUS
    <2>4. PICK l \in Nat : l = Len(file) /\ IsSeq(file)
      BY <1>3 DEF AreLines, IsSeq
    <2>5. PICK more : more = Append(file, x)
      OBVIOUS
    <2>6. /\ IsSeq(more) /\ Len(more) = l + 1 /\ more[l + 1] = x
          /\ \A k \in 1 .. l : more[k] = file[k]
      BY <2>4, <2>5, Appended
    <2>7. ASSUME NEW k \in 1 .. l + 1 PROVE IsLine(more[k])
      <3>1. CASE k = l + 1
        <4>1. line \in ClaudeLines \cup CodexLines
          BY <2>1
        <4>2. IsLine([line EXCEPT !.at = at])
          BY <4>1, NewLine
        <4>3. QED
          BY <2>3, <2>6, <3>1, <4>2
      <3>2. CASE k # l + 1
        <4>1. k \in 1 .. l
          BY <2>4, <3>2
        <4>2. QED
          BY <1>3, <2>4, <2>6, <4>1 DEF AreLines
      <3>3. QED
        BY <3>1, <3>2
    <2>8. AreLines(more)
      BY <2>6, <2>7 DEF AreLines
    <2>9. PICK cut : cut = torn'
      OBVIOUS
    <2>10. cut \in BOOLEAN /\ Len(more) # 0 /\ WholeOf(file, torn) = file
      BY <2>2, <2>4, <2>6, <2>9 DEF WholeOf
    <2>11. BeginsWith(WholeOf(more, cut), file)
      <3>1. CASE cut = FALSE
        <4>1. WholeOf(more, cut) = more /\ l <= l + 1
          BY <2>4, <3>1 DEF WholeOf
        <4>2. QED
          BY <2>4, <2>6, <4>1 DEF BeginsWith
      <3>2. CASE cut = TRUE
        <4>1. WholeOf(more, cut) = SubSeq(more, 1, l)
          <5>1. (l + 1) - 1 = l
            BY <2>4
          <5>2. QED
            BY <2>6, <3>2, <5>1 DEF WholeOf
        <4>2. 1 \in 1 .. Len(more) + 1 /\ l \in 1 - 1 .. Len(more) /\ l - 1 + 1 = l
          BY <2>4, <2>6
        <4>3. /\ Len(SubSeq(more, 1, l)) = l - 1 + 1
              /\ \A k \in 1 .. l - 1 + 1 : SubSeq(more, 1, l)[k] = more[1 + k - 1]
          BY <2>6, <4>2, Sliced
        <4>4. \A k \in 1 .. l : 1 + k - 1 = k
          BY <2>4
        <4>5. Len(SubSeq(more, 1, l)) = l /\ \A k \in 1 .. l : SubSeq(more, 1, l)[k] = file[k]
          BY <2>6, <4>2, <4>3, <4>4
        <4>6. l <= l
          BY <2>4
        <4>7. QED
          BY <2>4, <4>1, <4>5, <4>6 DEF BeginsWith
      <3>3. QED
        BY <2>10, <3>1, <3>2
    <2>12. Recorded(more, format, cut, now, prior)
      BY <1>2, <2>8, <2>10, <2>11, MoreToRead
    <2>13. QED
      BY <2>1, <2>2, <2>3, <2>5, <2>9, <2>12 DEF TranscriptsInv
  <1>5. CASE Complete
    <2>1. torn = TRUE /\ torn' = FALSE /\ file' = file /\ format' = format /\ now' = now /\ prior' = prior
      BY <1>3, <1>5 DEF Complete
    <2>2. BeginsWith(file, WholeOf(file, torn)) /\ WholeOf(file, FALSE) = file
      BY <1>3, WholeLines DEF WholeOf
    <2>3. Recorded(file, format, FALSE, now, prior)
      BY <1>2, <1>3, <2>2, MoreToRead
    <2>4. QED
      BY <2>1, <2>3 DEF TranscriptsInv
  <1>6. CASE ingest_file
    <2>1. /\ prior = <<>> /\ now' = sessionize(reader(format, Whole)) /\ prior' = now
          /\ file' = file /\ format' = format /\ torn' = torn
      BY <1>6 DEF ingest_file
    <2>2. PICK w : w = WholeOf(file, torn)
      OBVIOUS
    <2>3. Whole = w
      BY <2>2 DEF Whole, WholeOf
    <2>4. AreLines(w) /\ BeginsWith(w, w)
      <3>1. AreLines(w)
        BY <1>3, <2>2, WholeLines
      <3>2. QED
        BY <3>1 DEF AreLines, IsSeq, BeginsWith
    <2>5. PICK p, q : ReadTwice(format, w, now, prior, p, q)
      BY <1>2, <2>2 DEF Recorded
    <2>6. AreLines(q) /\ BeginsWith(w, q) /\ (now = <<>> \/ now = sessionize(reader(format, q)))
      BY <2>5 DEF ReadTwice
    <2>7. PICK new : new = sessionize(reader(format, w))
      OBVIOUS
    <2>8. ReadTwice(format, w, new, now, q, w)
      BY <2>4, <2>6, <2>7 DEF ReadTwice
    <2>9. Recorded(file, format, torn, new, now)
      BY <1>3, <2>2, <2>8 DEF Recorded
    <2>10. QED
      BY <2>1, <2>3, <2>7, <2>9 DEF TranscriptsInv
  <1>7. CASE UNCHANGED tvars
    BY <1>1, <1>7 DEF TranscriptsInv, tvars
  <1>8. QED
    BY <1>1, <1>4, <1>5, <1>6, <1>7 DEF TranscriptsNext

-----------------------------------------------------------------------------
\* What follows from it

LEMMA ReadsWhole == TranscriptsInv => AreLines(Whole) /\ format \in {"claude", "codex"}
  <1>1. SUFFICES ASSUME TranscriptsInv PROVE AreLines(Whole) /\ format \in {"claude", "codex"}
    OBVIOUS
  <1>2. AreLines(file) /\ format \in {"claude", "codex"} /\ torn \in BOOLEAN /\ (torn => Len(file) # 0)
    BY <1>1 DEF TranscriptsInv, Recorded
  <1>3. AreLines(WholeOf(file, torn))
    BY <1>2, WholeLines
  <1>4. WholeOf(file, torn) = Whole
    BY DEF Whole, WholeOf
  <1>5. QED
    BY <1>2, <1>3, <1>4

LEMMA KeptSlicesStable == TranscriptsInv => SlicesStable
  <1>1. SUFFICES ASSUME TranscriptsInv, prior # <<>> PROVE SlicesStable
    BY DEF SlicesStable
  <1>2. PICK p, q : ReadTwice(format, WholeOf(file, torn), now, prior, p, q)
    BY <1>1 DEF TranscriptsInv, Recorded
  <1>3. AreLines(p) /\ AreLines(q) /\ BeginsWith(q, p) /\ format \in {"claude", "codex"}
    BY <1>1, <1>2, ReadsWhole DEF ReadTwice
  <1>4. prior = sessionize(reader(format, p)) /\ now = sessionize(reader(format, q))
    BY <1>1, <1>2 DEF ReadTwice
  <1>5. \A i \in DOMAIN prior : now[1].id = prior[1].id =>
          /\ i \in DOMAIN now /\ now[i].id = prior[i].id /\ Len(now[i].turns) >= Len(prior[i].turns)
          /\ \A k \in DOMAIN prior[i].turns : Outline(now[i].turns[k]) = Outline(prior[i].turns[k])
          /\ i < Len(prior) => Len(now[i].turns) = Len(prior[i].turns) /\ now[i].reason = prior[i].reason
    BY <1>3, <1>4, SlicesAgain
  <1>6. QED
    BY <1>5 DEF SlicesStable

LEMMA KeptOneSummary == TranscriptsInv => OneSummary
  <1>1. SUFFICES ASSUME TranscriptsInv PROVE OneSummary
    OBVIOUS
  <1>2. AreLines(Whole) /\ format \in {"claude", "codex"}
    BY <1>1, ReadsWhole
  <1>3. PICK meta : meta = reader(format, Whole)
    OBVIOUS
  <1>4. IsTurns(meta.turns)
    BY <1>2, <1>3, ReaderTurns
  <1>5. read_summary(format, Whole) = meta.summary /\ Credited(meta)
    BY <1>2, <1>3, SummaryRead DEF Credited
  <1>6. LET slices == sessionize(meta)
        IN  Cardinality({i \in DOMAIN slices : slices[i].has_compact_summary}) =
              IF meta.summary # "" /\ meta.turns # <<>> THEN 1 ELSE 0
    BY <1>4, <1>5, CreditedOnce
  <1>7. QED
    BY <1>3, <1>5, <1>6 DEF OneSummary

LEMMA KeptTokensConserved == TranscriptsInv => TokensConserved
  <1>1. SUFFICES ASSUME TranscriptsInv PROVE TokensConserved
    OBVIOUS
  <1>2. AreLines(Whole) /\ format \in {"claude", "codex"}
    BY <1>1, ReadsWhole
  <1>3. PICK meta : meta = reader(format, Whole)
    OBVIOUS
  <1>4. IsTurns(meta.turns) /\ Total(Tokens(meta.turns)) = Total(Usages(format, Whole))
    BY <1>2, <1>3, ReaderTurns, UsageRead
  <1>5. LET slices == sessionize(meta)
        IN  /\ Total([i \in DOMAIN slices |-> compact(slices[i]).cost.total_tokens]) = Total(Tokens(meta.turns))
            /\ Total([i \in DOMAIN slices |-> compact(slices[i]).cost.usd]) = estimate_cost(meta.turns).usd
    BY <1>4, PaidOnce
  <1>6. QED
    BY <1>3, <1>4, <1>5 DEF TokensConserved

LEMMA KeptSecret == TranscriptsInv => NothingLeaks
  <1>1. SUFFICES ASSUME TranscriptsInv PROVE NothingLeaks
    OBVIOUS
  <1>2. PICK p, q : ReadTwice(format, WholeOf(file, torn), now, prior, p, q)
    BY <1>1 DEF TranscriptsInv, Recorded
  <1>3. format \in {"claude", "codex"} /\ AreLines(q)
    BY <1>1, <1>2, ReadsWhole DEF ReadTwice
  <1>4. \A c \in Configs : load_config(save_config(c)) = c
    BY ConfigKept
  <1>5. ASSUME NEW patterns \in Redactors, NEW i \in DOMAIN now
        PROVE  LET c == redact_compaction(patterns, compact(now[i])) IN
               /\ "secret" \notin {c.task_intent, c.native_summary} \cup c.files_touched
               /\ \A k \in DOMAIN now[i].turns :
                    LET t == redact_turn(patterns, now[i].turns[k]) IN "secret" \notin {t.content, t.output, t.path}
    <2>1. patterns = {"secret"}
      BY Redacts
    <2>2. PICK slice : slice = now[i]
      OBVIOUS
    <2>3. LET c == redact_compaction({"secret"}, compact(slice))
          IN  "secret" \notin {c.task_intent, c.native_summary} \cup c.files_touched
      BY DigestRedacted
    <2>4. IsTurns(slice.turns)
      <3>1. PICK meta : meta = reader(format, q)
        OBVIOUS
      <3>2. IsTurns(meta.turns)
        BY <1>3, <3>1, ReaderTurns
      <3>3. now # <<>>
        <4>1. DOMAIN <<>> = {}
          OBVIOUS
        <4>2. QED
          BY <1>5, <4>1
      <3>4. now = sessionize(meta)
        BY <1>2, <3>1, <3>3 DEF ReadTwice
      <3>5. i \in 1 .. Len(_segment(meta.turns))
        BY <1>5, <3>2, <3>4, SlicesAre
      <3>6. QED
        BY <2>2, <3>2, <3>4, <3>5, SliceTurns
    <2>5. ASSUME NEW k \in DOMAIN slice.turns
          PROVE  LET t == redact_turn({"secret"}, slice.turns[k]) IN "secret" \notin {t.content, t.output, t.path}
      <3>1. k \in 1 .. Len(slice.turns)
        BY <2>4, <2>5, DomainOf DEF IsTurns
      <3>2. DOMAIN slice.turns[k] = DOMAIN EmptyTurn
        BY <2>4, <3>1 DEF IsTurns, IsTurn
      <3>3. QED
        BY <3>2, TurnRedacted
    <2>6. QED
      BY <2>1, <2>2, <2>3, <2>5
  <1>6. QED
    BY <1>4, <1>5 DEF NothingLeaks

\* However a transcript grows and whenever it is read, torn lines included: its
\* slices are stable, a summary is credited once, what it reports is paid once and
\* nothing that leaves holds a secret.
THEOREM ReadHonestly == TranscriptsSpec => []TranscriptsHonest
  <1>1. TranscriptsInv => TranscriptsHonest
    BY KeptSlicesStable, KeptOneSummary, KeptTokensConserved, KeptSecret DEF TranscriptsHonest
  <1>2. QED
    BY RecordedFirst, RecordedNext, <1>1, PTL DEF TranscriptsSpec
=============================================================================
