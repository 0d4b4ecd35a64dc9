------------------------ MODULE MaltlineReplayProofs ------------------------
(***************************************************************************)
(* That the record is the play, proved for any campaign, any engine that   *)
(* keeps RpAssumption and any limits: what is recorded tick by tick is     *)
(* what both verifiers accept (proof.ts, cabinet-proof.ts), and what the   *)
(* replay shows of the retained proof (playback.ts, replay-scrubber.ts).   *)
(* In order: induction for the folds of the model; what a list of runs     *)
(* stands for; each verifier, a run, a stage and a proof at a time; that   *)
(* they agree, and say what the play was; the recorder; the envelope kept  *)
(* and the one opened; the inputs and the frames the playback finds by     *)
(* bisection; the cursor; the scrubber's actions; the theorem.             *)
(***************************************************************************)
EXTENDS MaltlineReplay, SequenceTheorems, WellFoundedInduction, NaturalsInduction, FiniteSetTheorems, TLAPS

\* Induction over numbers up to a bound, for a set in the place of a predicate.
NatOrder == {p \in Nat \X Nat : p[1] < p[2]}

\* What holds at 0 and is kept by a step up holds up to the bound.
LEMMA Upwards ==
  ASSUME NEW n \in Nat, NEW T, 0 \in T, \A k \in 0 .. n - 1 : k \in T => k + 1 \in T
  PROVE  0 .. n \subseteq T
<1> DEFINE Left == {k \in 0 .. n : k \notin T}
<1>1. IsWellFoundedOn(NatOrder, Nat)
  <2>1. IsWellFoundedOn(OpToRel(<, Nat), Nat)
    BY NatLessThanWellFounded
  <2> QED BY <2>1 DEF OpToRel, NatOrder
<1>2. CASE Left # {}
  <2>1. PICK m \in Left : \A k \in Left : ~ (<<k, m>> \in NatOrder)
    <3>1. Left \subseteq Nat
      OBVIOUS
    <3> HIDE DEF Left
    <3> QED BY <1>1, <1>2, <3>1, WFMin
  <2>2. m \in 0 .. n /\ m \notin T /\ m # 0
    BY <2>1
  <2>3. m - 1 \in 0 .. n - 1 /\ m - 1 \in Nat /\ m \in Nat /\ m - 1 < m
    BY <2>2
  <2>4. <<m - 1, m>> \in NatOrder
    BY <2>3 DEF NatOrder
  <2>5. m - 1 \notin Left
    BY <2>1, <2>4
  <2>6. m - 1 \in T
    BY <2>2, <2>3, <2>5
  <2>7. (m - 1) + 1 \in T
    BY <2>3, <2>6
  <2> QED BY <2>2, <2>7
<1> QED BY <1>2

\* Induction over sequences that grow at the end.
LEMMA Growing ==
  ASSUME NEW S, NEW T, <<>> \in T, \A s \in Seq(S), e \in S : s \in T => Append(s, e) \in T
  PROVE  Seq(S) \subseteq T
<1> SUFFICES ASSUME NEW q \in Seq(S) PROVE q \in T
  OBVIOUS
<1> DEFINE n == Len(q)
           U == {k \in 0 .. n : SubSeq(q, 1, k) \in T}
<1>1. n \in Nat
  BY LenProperties
<1>2. 0 .. n \subseteq U
  <2>1. 0 \in U
    <3>1. SubSeq(q, 1, 0) = <<>>
      <4>1. \A i \in 1 .. 0 : q[i] \in S
        OBVIOUS
      <4>2. SubSeq(q, 1, 0) \in Seq(S) /\ Len(SubSeq(q, 1, 0)) = 0
        BY <4>1, SubSeqProperties
      <4> DEFINE z == SubSeq(q, 1, 0)
      <4> HIDE DEF z
      <4>3. z # <<>> => Len(z) \in Nat \ {0}
        BY <4>2, EmptySeq DEF z
      <4>4. z = <<>>
        BY <4>2, <4>3 DEF z
      <4> QED BY <4>4, Zenon DEF z
    <3>2. SubSeq(q, 1, 0) \in T
      BY <3>1, Zenon
    <3>3. 0 \in 0 .. n
      BY <1>1
    <3> QED BY <3>2, <3>3, Zenon
  <2>2. ASSUME NEW k \in 0 .. n - 1, k \in U PROVE k + 1 \in U
    <3>1. k + 1 \in 1 .. n /\ 1 \in 1 .. n /\ (k + 1) - 1 = k
      BY <1>1
    <3>2. q[k + 1] \in S
      BY <3>1, ElementOfSeq
    <3>3. SubSeq(q, 1, k) \in Seq(S)
      BY <1>1, ElementOfSeq, SubSeqProperties
    <3>4. SubSeq(q, 1, k + 1) = SubSeq(q, 1, k) \o <<q[k + 1]>>
      <4>1. k + 1 \in 1 .. Len(q)
        BY <3>1
      <4> QED BY <1>1, <3>1, <4>1, SubSeqRecursiveSecond
    <3>5. SubSeq(q, 1, k + 1) = Append(SubSeq(q, 1, k), q[k + 1])
      BY <3>2, <3>3, <3>4, AppendIsConcat
    <3>6. Append(SubSeq(q, 1, k), q[k + 1]) \in T
      <4> DEFINE a == SubSeq(q, 1, k)
                 b == q[k + 1]
      <4>1. a \in T /\ a \in Seq(S) /\ b \in S
        BY <2>2, <3>2, <3>3
      <4> HIDE DEF a, b, U
      <4>2. Append(a, b) \in T
        BY <4>1, Zenon
      <4> QED BY <4>2 DEF a, b
    <3>7. SubSeq(q, 1, k + 1) \in T
      BY <3>5, <3>6, Zenon
    <3>8. k + 1 \in 0 .. n
      BY <1>1, <3>1
    <3> QED BY <3>7, <3>8, Zenon
  <2> HIDE DEF U
  <2> QED BY <1>1, <2>1, <2>2, Upwards
<1>3. SubSeq(q, 1, n) = q
  BY SubSeqFull
<1>4. n \in U
  BY <1>1, <1>2
<1> QED BY <1>3, <1>4

\* The inputs of one run more.
RpFeeds(seq, g, n) == g = [k \in 0 .. n |-> IF k = 0 THEN <<>> ELSE g[k - 1] \o [i \in 1 .. seq[k].ticks |-> seq[k].input]]

\* There is such a function for the inputs of a list of runs.
LEMMA RpFeedsExists ==
  ASSUME NEW seq, NEW n \in Nat
  PROVE  \E g : RpFeeds(seq, g, n)
<1> DEFINE T == {m \in Nat : \E g : RpFeeds(seq, g, m)}
<1>1. 0 \in T
  <2>1. RpFeeds(seq, [k \in 0 .. 0 |-> <<>>], 0)
    BY DEF RpFeeds
  <2> QED BY <2>1
<1>2. ASSUME NEW m \in 0 .. n - 1, m \in T PROVE m + 1 \in T
  <2>1. PICK g : RpFeeds(seq, g, m)
    BY <1>2
  <2> DEFINE Next(x, k) == x \o [i \in 1 .. seq[k].ticks |-> seq[k].input]
             h == [k \in 0 .. m + 1 |-> IF k = m + 1 THEN Next(g[m], m + 1) ELSE g[k]]
  <2>2. g = [k \in 0 .. m |-> IF k = 0 THEN <<>> ELSE Next(g[k - 1], k)]
    BY <2>1 DEF RpFeeds
  <2> HIDE DEF Next
  <2>3. ASSUME NEW k \in 0 .. m + 1 PROVE h[k] = IF k = 0 THEN <<>> ELSE Next(h[k - 1], k)
    <3>1. CASE k = m + 1
      BY <3>1
    <3>2. CASE k # m + 1
      <4>1. k \in 0 .. m /\ h[k] = g[k] /\ (k # 0 => h[k - 1] = g[k - 1])
        BY <3>2
      <4>2. g[k] = IF k = 0 THEN <<>> ELSE Next(g[k - 1], k)
        BY <2>2, <4>1
      <4> QED BY <4>1, <4>2
    <3> QED BY <3>1, <3>2
  <2>4. h = [k \in 0 .. m + 1 |-> h[k]]
    OBVIOUS
  <2> HIDE DEF h
  <2>5. [k \in 0 .. m + 1 |-> h[k]] = [k \in 0 .. m + 1 |-> IF k = 0 THEN <<>> ELSE Next(h[k - 1], k)]
    BY <2>3
  <2>6. RpFeeds(seq, h, m + 1)
    BY <2>4, <2>5 DEF RpFeeds, Next
  <2> QED BY <2>6
<1> HIDE DEF T
<1>3. 0 .. n \subseteq T
  BY <1>1, <1>2, Upwards
<1>4. n \in T
  BY <1>3
<1> QED BY <1>4 DEF T

\* What one more adds to the inputs of a list of runs.
LEMMA ExpandedGrows ==
  ASSUME NEW S, NEW seq \in Seq(S), NEW e \in S
  PROVE  /\ Expanded(<<>>) = <<>>
         /\ Expanded(Append(seq, e)) = Expanded(seq) \o [i \in 1 .. e.ticks |-> e.input]
<1> DEFINE t == Append(seq, e)
           n == Len(seq)
           g == CHOOSE g : RpFeeds(seq, g, n)
           h == CHOOSE h : RpFeeds(t, h, n + 1)
           z == CHOOSE z : RpFeeds(<<>>, z, 0)
<1>1. n \in Nat /\ n + 1 \in Nat /\ Len(t) = n + 1 /\ t[n + 1] = e /\ \A k \in 1 .. n : t[k] = seq[k]
  BY AppendProperties
<1>2. RpFeeds(seq, g, n) /\ RpFeeds(t, h, n + 1) /\ RpFeeds(<<>>, z, 0)
  BY <1>1, RpFeedsExists
<1>3. Expanded(<<>>) = z[0] /\ Len(<<>>) = 0
  BY DEF Expanded, RpFeeds
<1>4. Expanded(seq) = g[n]
  BY DEF Expanded, RpFeeds
<1>5. Expanded(t) = h[n + 1]
  BY <1>1 DEF Expanded, RpFeeds
<1> DEFINE Next(x, y, k) == x \o [i \in 1 .. y.ticks |-> y.input]
<1> HIDE DEF g, h, z, t
<1>6. /\ g = [k \in 0 .. n |-> IF k = 0 THEN <<>> ELSE Next(g[k - 1], seq[k], k)]
      /\ h = [k \in 0 .. n + 1 |-> IF k = 0 THEN <<>> ELSE Next(h[k - 1], t[k], k)]
      /\ z[0] = <<>>
  <2>1. z = [k \in 0 .. 0 |-> IF k = 0 THEN <<>> ELSE Next(z[k - 1], <<>>[k], k)]
    BY <1>2 DEF RpFeeds
  <2>2. z[0] = <<>>
    <3> HIDE DEF Next
    <3> QED BY <2>1
  <2> QED BY <1>2, <2>2 DEF RpFeeds
<1> HIDE DEF Next
<1>7. g[0] = <<>> /\ \A k \in 1 .. n : g[k] = Next(g[k - 1], seq[k], k)
  BY <1>1, <1>6
<1>8. h[0] = <<>> /\ \A k \in 1 .. n + 1 : h[k] = Next(h[k - 1], t[k], k)
  BY <1>1, <1>6
<1> DEFINE U == {k \in 0 .. n : g[k] = h[k]}
<1>9. 0 .. n \subseteq U
  <2>1. 0 \in U
    BY <1>1, <1>7, <1>8
  <2>2. ASSUME NEW k \in 0 .. n - 1, k \in U PROVE k + 1 \in U
    <3>1. k + 1 \in 1 .. n /\ k + 1 \in 1 .. n + 1 /\ (k + 1) - 1 = k /\ k + 1 \in 0 .. n
      BY <1>1
    <3>2. g[k + 1] = Next(g[k], seq[k + 1], k + 1) /\ h[k + 1] = Next(h[k], t[k + 1], k + 1)
      BY <1>7, <1>8, <3>1
    <3> QED BY <1>1, <2>2, <3>1, <3>2
  <2> HIDE DEF U
  <2> QED BY <1>1, <2>1, <2>2, Upwards
<1>10. g[n] = h[n] /\ h[n + 1] = Next(h[n], e, n + 1)
  <2>1. n \in U /\ n + 1 \in 1 .. n + 1 /\ (n + 1) - 1 = n
    BY <1>1, <1>9
  <2> QED BY <1>1, <1>8, <2>1
<1>11. Expanded(t) = Next(Expanded(seq), e, n + 1)
  BY <1>4, <1>5, <1>10
<1> QED BY <1>3, <1>6, <1>11 DEF Next, t

\* With none: the inputs of a list of runs.
LEMMA RpFeedsBegins ==
  Expanded(<<>>) = <<>>
<1> DEFINE S == {0}
<1>1. <<>> \in Seq(S) /\ 0 \in S
  BY EmptySeq
<1> HIDE DEF S
<1> QED BY <1>1, ExpandedGrows

\* The runs of one input more.
RpEncodes(seq, g, n) == g = [k \in 0 .. n |-> IF k = 0 THEN <<>> ELSE AppendRun(g[k - 1], [input |-> seq[k], ticks |-> 1])]

\* There is such a function for the runs of a list of inputs.
LEMMA RpEncodesExists ==
  ASSUME NEW seq, NEW n \in Nat
  PROVE  \E g : RpEncodes(seq, g, n)
<1> DEFINE T == {m \in Nat : \E g : RpEncodes(seq, g, m)}
<1>1. 0 \in T
  <2>1. RpEncodes(seq, [k \in 0 .. 0 |-> <<>>], 0)
    BY DEF RpEncodes
  <2> QED BY <2>1
<1>2. ASSUME NEW m \in 0 .. n - 1, m \in T PROVE m + 1 \in T
  <2>1. PICK g : RpEncodes(seq, g, m)
    BY <1>2
  <2> DEFINE Next(x, k) == AppendRun(x, [input |-> seq[k], ticks |-> 1])
             h == [k \in 0 .. m + 1 |-> IF k = m + 1 THEN Next(g[m], m + 1) ELSE g[k]]
  <2>2. g = [k \in 0 .. m |-> IF k = 0 THEN <<>> ELSE Next(g[k - 1], k)]
    BY <2>1 DEF RpEncodes
  <2> HIDE DEF Next
  <2>3. ASSUME NEW k \in 0 .. m + 1 PROVE h[k] = IF k = 0 THEN <<>> ELSE Next(h[k - 1], k)
    <3>1. CASE k = m + 1
      BY <3>1
    <3>2. CASE k # m + 1
      <4>1. k \in 0 .. m /\ h[k] = g[k] /\ (k # 0 => h[k - 1] = g[k - 1])
        BY <3>2
      <4>2. g[k] = IF k = 0 THEN <<>> ELSE Next(g[k - 1], k)
        BY <2>2, <4>1
      <4> QED BY <4>1, <4>2
    <3> QED BY <3>1, <3>2
  <2>4. h = [k \in 0 .. m + 1 |-> h[k]]
    OBVIOUS
  <2> HIDE DEF h
  <2>5. [k \in 0 .. m + 1 |-> h[k]] = [k \in 0 .. m + 1 |-> IF k = 0 THEN <<>> ELSE Next(h[k - 1], k)]
    BY <2>3
  <2>6. RpEncodes(seq, h, m + 1)
    BY <2>4, <2>5 DEF RpEncodes, Next
  <2> QED BY <2>6
<1> HIDE DEF T
<1>3. 0 .. n \subseteq T
  BY <1>1, <1>2, Upwards
<1>4. n \in T
  BY <1>3
<1> QED BY <1>4 DEF T

\* What one more adds to the runs of a list of inputs.
LEMMA EncodeGrows ==
  ASSUME NEW S, NEW seq \in Seq(S), NEW e \in S
  PROVE  /\ EncodeRuns(<<>>) = <<>>
         /\ EncodeRuns(Append(seq, e)) = AppendRun(EncodeRuns(seq), [input |-> e, ticks |-> 1])
<1> DEFINE t == Append(seq, e)
           n == Len(seq)
           g == CHOOSE g : RpEncodes(seq, g, n)
           h == CHOOSE h : RpEncodes(t, h, n + 1)
           z == CHOOSE z : RpEncodes(<<>>, z, 0)
<1>1. n \in Nat /\ n + 1 \in Nat /\ Len(t) = n + 1 /\ t[n + 1] = e /\ \A k \in 1 .. n : t[k] = seq[k]
  BY AppendProperties
<1>2. RpEncodes(seq, g, n) /\ RpEncodes(t, h, n + 1) /\ RpEncodes(<<>>, z, 0)
  BY <1>1, RpEncodesExists
<1>3. EncodeRuns(<<>>) = z[0] /\ Len(<<>>) = 0
  BY DEF EncodeRuns, RpEncodes
<1>4. EncodeRuns(seq) = g[n]
  BY DEF EncodeRuns, RpEncodes
<1>5. EncodeRuns(t) = h[n + 1]
  BY <1>1 DEF EncodeRuns, RpEncodes
<1> DEFINE Next(x, y, k) == AppendRun(x, [input |-> y, ticks |-> 1])
<1> HIDE DEF g, h, z, t
<1>6. /\ g = [k \in 0 .. n |-> IF k = 0 THEN <<>> ELSE Next(g[k - 1], seq[k], k)]
      /\ h = [k \in 0 .. n + 1 |-> IF k = 0 THEN <<>> ELSE Next(h[k - 1], t[k], k)]
      /\ z[0] = <<>>
  <2>1. z = [k \in 0 .. 0 |-> IF k = 0 THEN <<>> ELSE Next(z[k - 1], <<>>[k], k)]
    BY <1>2 DEF RpEncodes
  <2>2. z[0] = <<>>
    <3> HIDE DEF Next
    <3> QED BY <2>1
  <2> QED BY <1>2, <2>2 DEF RpEncodes
<1> HIDE DEF Next
<1>7. g[0] = <<>> /\ \A k \in 1 .. n : g[k] = Next(g[k - 1], seq[k], k)
  BY <1>1, <1>6
<1>8. h[0] = <<>> /\ \A k \in 1 .. n + 1 : h[k] = Next(h[k - 1], t[k], k)
  BY <1>1, <1>6
<1> DEFINE U == {k \in 0 .. n : g[k] = h[k]}
<1>9. 0 .. n \subseteq U
  <2>1. 0 \in U
    BY <1>1, <1>7, <1>8
  <2>2. ASSUME NEW k \in 0 .. n - 1, k \in U PROVE k + 1 \in U
    <3>1. k + 1 \in 1 .. n /\ k + 1 \in 1 .. n + 1 /\ (k + 1) - 1 = k /\ k + 1 \in 0 .. n
      BY <1>1
    <3>2. g[k + 1] = Next(g[k], seq[k + 1], k + 1) /\ h[k + 1] = Next(h[k], t[k + 1], k + 1)
      BY <1>7, <1>8, <3>1
    <3> QED BY <1>1, <2>2, <3>1, <3>2
  <2> HIDE DEF U
  <2> QED BY <1>1, <2>1, <2>2, Upwards
<1>10. g[n] = h[n] /\ h[n + 1] = Next(h[n], e, n + 1)
  <2>1. n \in U /\ n + 1 \in 1 .. n + 1 /\ (n + 1) - 1 = n
    BY <1>1, <1>9
  <2> QED BY <1>1, <1>8, <2>1
<1>11. EncodeRuns(t) = Next(EncodeRuns(seq), e, n + 1)
  BY <1>4, <1>5, <1>10
<1> QED BY <1>3, <1>6, <1>11 DEF Next, t

\* With none: the runs of a list of inputs.
LEMMA RpEncodesBegins ==
  EncodeRuns(<<>>) = <<>>
<1> DEFINE S == {0}
<1>1. <<>> \in Seq(S) /\ 0 \in S
  BY EmptySeq
<1> HIDE DEF S
<1> QED BY <1>1, EncodeGrows

\* One run more for the ranked verifier.
RpRunByRun(v, seq, g, n) == g = [k \in 0 .. n |-> IF k = 0 THEN v ELSE VerifyRun(g[k - 1], seq[k])]

\* There is such a function for the ranked verifier on a list of runs.
LEMMA RpRunByRunExists ==
  ASSUME NEW v, NEW seq, NEW n \in Nat
  PROVE  \E g : RpRunByRun(v, seq, g, n)
<1> DEFINE T == {m \in Nat : \E g : RpRunByRun(v, seq, g, m)}
<1>1. 0 \in T
  <2>1. RpRunByRun(v, seq, [k \in 0 .. 0 |-> v], 0)
    BY DEF RpRunByRun
  <2> QED BY <2>1
<1>2. ASSUME NEW m \in 0 .. n - 1, m \in T PROVE m + 1 \in T
  <2>1. PICK g : RpRunByRun(v, seq, g, m)
    BY <1>2
  <2> DEFINE Next(x, k) == VerifyRun(x, seq[k])
             h == [k \in 0 .. m + 1 |-> IF k = m + 1 THEN Next(g[m], m + 1) ELSE g[k]]
  <2>2. g = [k \in 0 .. m |-> IF k = 0 THEN v ELSE Next(g[k - 1], k)]
    BY <2>1 DEF RpRunByRun
  <2> HIDE DEF Next
  <2>3. ASSUME NEW k \in 0 .. m + 1 PROVE h[k] = IF k = 0 THEN v ELSE Next(h[k - 1], k)
    <3>1. CASE k = m + 1
      BY <3>1
    <3>2. CASE k # m + 1
      <4>1. k \in 0 .. m /\ h[k] = g[k] /\ (k # 0 => h[k - 1] = g[k - 1])
        BY <3>2
      <4>2. g[k] = IF k = 0 THEN v ELSE Next(g[k - 1], k)
        BY <2>2, <4>1
      <4> QED BY <4>1, <4>2
    <3> QED BY <3>1, <3>2
  <2>4. h = [k \in 0 .. m + 1 |-> h[k]]
    OBVIOUS
  <2> HIDE DEF h
  <2>5. [k \in 0 .. m + 1 |-> h[k]] = [k \in 0 .. m + 1 |-> IF k = 0 THEN v ELSE Next(h[k - 1], k)]
    BY <2>3
  <2>6. RpRunByRun(v, seq, h, m + 1)
    BY <2>4, <2>5 DEF RpRunByRun, Next
  <2> QED BY <2>6
<1> HIDE DEF T
<1>3. 0 .. n \subseteq T
  BY <1>1, <1>2, Upwards
<1>4. n \in T
  BY <1>3
<1> QED BY <1>4 DEF T

\* What one more adds to the ranked verifier on a list of runs.
LEMMA VerifyRunsGrow ==
  ASSUME NEW v, NEW S, NEW seq \in Seq(S), NEW e \in S
  PROVE  /\ VerifyRuns(v, <<>>) = v
         /\ VerifyRuns(v, Append(seq, e)) = VerifyRun(VerifyRuns(v, seq), e)
<1> DEFINE t == Append(seq, e)
           n == Len(seq)
           g == CHOOSE g : RpRunByRun(v, seq, g, n)
           h == CHOOSE h : RpRunByRun(v, t, h, n + 1)
           z == CHOOSE z : RpRunByRun(v, <<>>, z, 0)
<1>1. n \in Nat /\ n + 1 \in Nat /\ Len(t) = n + 1 /\ t[n + 1] = e /\ \A k \in 1 .. n : t[k] = seq[k]
  BY AppendProperties
<1>2. RpRunByRun(v, seq, g, n) /\ RpRunByRun(v, t, h, n + 1) /\ RpRunByRun(v, <<>>, z, 0)
  BY <1>1, RpRunByRunExists
<1>3. VerifyRuns(v, <<>>) = z[0] /\ Len(<<>>) = 0
  BY DEF VerifyRuns, RpRunByRun
<1>4. VerifyRuns(v, seq) = g[n]
  BY DEF VerifyRuns, RpRunByRun
<1>5. VerifyRuns(v, t) = h[n + 1]
  BY <1>1 DEF VerifyRuns, RpRunByRun
<1> DEFINE Next(x, y, k) == VerifyRun(x, y)
<1> HIDE DEF g, h, z, t
<1>6. /\ g = [k \in 0 .. n |-> IF k = 0 THEN v ELSE Next(g[k - 1], seq[k], k)]
      /\ h = [k \in 0 .. n + 1 |-> IF k = 0 THEN v ELSE Next(h[k - 1], t[k], k)]
      /\ z[0] = v
  <2>1. z = [k \in 0 .. 0 |-> IF k = 0 THEN v ELSE Next(z[k - 1], <<>>[k], k)]
    BY <1>2 DEF RpRunByRun
  <2>2. z[0] = v
    <3> HIDE DEF Next
    <3> QED BY <2>1
  <2> QED BY <1>2, <2>2 DEF RpRunByRun
<1> HIDE DEF Next
<1>7. g[0] = v /\ \A k \in 1 .. n : g[k] = Next(g[k - 1], seq[k], k)
  BY <1>1, <1>6
<1>8. h[0] = v /\ \A k \in 1 .. n + 1 : h[k] = Next(h[k - 1], t[k], k)
  BY <1>1, <1>6
<1> DEFINE U == {k \in 0 .. n : g[k] = h[k]}
<1>9. 0 .. n \subseteq U
  <2>1. 0 \in U
    BY <1>1, <1>7, <1>8
  <2>2. ASSUME NEW k \in 0 .. n - 1, k \in U PROVE k + 1 \in U
    <3>1. k + 1 \in 1 .. n /\ k + 1 \in 1 .. n + 1 /\ (k + 1) - 1 = k /\ k + 1 \in 0 .. n
      BY <1>1
    <3>2. g[k + 1] = Next(g[k], seq[k + 1], k + 1) /\ h[k + 1] = Next(h[k], t[k + 1], k + 1)
      BY <1>7, <1>8, <3>1
    <3> QED BY <1>1, <2>2, <3>1, <3>2
  <2> HIDE DEF U
  <2> QED BY <1>1, <2>1, <2>2, Upwards
<1>10. g[n] = h[n] /\ h[n + 1] = Next(h[n], e, n + 1)
  <2>1. n \in U /\ n + 1 \in 1 .. n + 1 /\ (n + 1) - 1 = n
    BY <1>1, <1>9
  <2> QED BY <1>1, <1>8, <2>1
<1>11. VerifyRuns(v, t) = Next(VerifyRuns(v, seq), e, n + 1)
  BY <1>4, <1>5, <1>10
<1> QED BY <1>3, <1>6, <1>11 DEF Next, t

\* With none: the ranked verifier on a list of runs.
LEMMA RpRunByRunBegins ==
  ASSUME NEW v
  PROVE  VerifyRuns(v, <<>>) = v
<1> DEFINE S == {0}
<1>1. <<>> \in Seq(S) /\ 0 \in S
  BY EmptySeq
<1> HIDE DEF S
<1> QED BY <1>1, VerifyRunsGrow

\* One stage more.
RpStageByStage(v, seq, g, n) == g = [k \in 0 .. n |-> IF k = 0 THEN v ELSE VerifyStage(g[k - 1], seq[k])]

\* There is such a function for the ranked verifier on a list of stages.
LEMMA RpStageByStageExists ==
  ASSUME NEW v, NEW seq, NEW n \in Nat
  PROVE  \E g : RpStageByStage(v, seq, g, n)
<1> DEFINE T == {m \in Nat : \E g : RpStageByStage(v, seq, g, m)}
<1>1. 0 \in T
  <2>1. RpStageByStage(v, seq, [k \in 0 .. 0 |-> v], 0)
    BY DEF RpStageByStage
  <2> QED BY <2>1
<1>2. ASSUME NEW m \in 0 .. n - 1, m \in T PROVE m + 1 \in T
  <2>1. PICK g : RpStageByStage(v, seq, g, m)
    BY <1>2
  <2> DEFINE Next(x, k) == VerifyStage(x, seq[k])
             h == [k \in 0 .. m + 1 |-> IF k = m + 1 THEN Next(g[m], m + 1) ELSE g[k]]
  <2>2. g = [k \in 0 .. m |-> IF k = 0 THEN v ELSE Next(g[k - 1], k)]
    BY <2>1 DEF RpStageByStage
  <2> HIDE DEF Next
  <2>3. ASSUME NEW k \in 0 .. m + 1 PROVE h[k] = IF k = 0 THEN v ELSE Next(h[k - 1], k)
    <3>1. CASE k = m + 1
      BY <3>1
    <3>2. CASE k # m + 1
      <4>1. k \in 0 .. m /\ h[k] = g[k] /\ (k # 0 => h[k - 1] = g[k - 1])
        BY <3>2
      <4>2. g[k] = IF k = 0 THEN v ELSE Next(g[k - 1], k)
        BY <2>2, <4>1
      <4> QED BY <4>1, <4>2
    <3> QED BY <3>1, <3>2
  <2>4. h = [k \in 0 .. m + 1 |-> h[k]]
    OBVIOUS
  <2> HIDE DEF h
  <2>5. [k \in 0 .. m + 1 |-> h[k]] = [k \in 0 .. m + 1 |-> IF k = 0 THEN v ELSE Next(h[k - 1], k)]
    BY <2>3
  <2>6. RpStageByStage(v, seq, h, m + 1)
    BY <2>4, <2>5 DEF RpStageByStage, Next
  <2> QED BY <2>6
<1> HIDE DEF T
<1>3. 0 .. n \subseteq T
  BY <1>1, <1>2, Upwards
<1>4. n \in T
  BY <1>3
<1> QED BY <1>4 DEF T

\* What one more adds to the ranked verifier on a list of stages.
LEMMA VerifyStagesGrow ==
  ASSUME NEW v, NEW S, NEW seq \in Seq(S), NEW e \in S
  PROVE  /\ VerifyStages(v, <<>>) = v
         /\ VerifyStages(v, Append(seq, e)) = VerifyStage(VerifyStages(v, seq), e)
<1> DEFINE t == Append(seq, e)
           n == Len(seq)
           g == CHOOSE g : RpStageByStage(v, seq, g, n)
           h == CHOOSE h : RpStageByStage(v, t, h, n + 1)
           z == CHOOSE z : RpStageByStage(v, <<>>, z, 0)
<1>1. n \in Nat /\ n + 1 \in Nat /\ Len(t) = n + 1 /\ t[n + 1] = e /\ \A k \in 1 .. n : t[k] = seq[k]
  BY AppendProperties
<1>2. RpStageByStage(v, seq, g, n) /\ RpStageByStage(v, t, h, n + 1) /\ RpStageByStage(v, <<>>, z, 0)
  BY <1>1, RpStageByStageExists
<1>3. VerifyStages(v, <<>>) = z[0] /\ Len(<<>>) = 0
  BY DEF VerifyStages, RpStageByStage
<1>4. VerifyStages(v, seq) = g[n]
  BY DEF VerifyStages, RpStageByStage
<1>5. VerifyStages(v, t) = h[n + 1]
  BY <1>1 DEF VerifyStages, RpStageByStage
<1> DEFINE Next(x, y, k) == VerifyStage(x, y)
<1> HIDE DEF g, h, z, t
<1>6. /\ g = [k \in 0 .. n |-> IF k = 0 THEN v ELSE Next(g[k - 1], seq[k], k)]
      /\ h = [k \in 0 .. n + 1 |-> IF k = 0 THEN v ELSE Next(h[k - 1], t[k], k)]
      /\ z[0] = v
  <2>1. z = [k \in 0 .. 0 |-> IF k = 0 THEN v ELSE Next(z[k - 1], <<>>[k], k)]
    BY <1>2 DEF RpStageByStage
  <2>2. z[0] = v
    <3> HIDE DEF Next
    <3> QED BY <2>1
  <2> QED BY <1>2, <2>2 DEF RpStageByStage
<1> HIDE DEF Next
<1>7. g[0] = v /\ \A k \in 1 .. n : g[k] = Next(g[k - 1], seq[k], k)
  BY <1>1, <1>6
<1>8. h[0] = v /\ \A k \in 1 .. n + 1 : h[k] = Next(h[k - 1], t[k], k)
  BY <1>1, <1>6
<1> DEFINE U == {k \in 0 .. n : g[k] = h[k]}
<1>9. 0 .. n \subseteq U
  <2>1. 0 \in U
    BY <1>1, <1>7, <1>8
  <2>2. ASSUME NEW k \in 0 .. n - 1, k \in U PROVE k + 1 \in U
    <3>1. k + 1 \in 1 .. n /\ k + 1 \in 1 .. n + 1 /\ (k + 1) - 1 = k /\ k + 1 \in 0 .. n
      BY <1>1
    <3>2. g[k + 1] = Next(g[k], seq[k + 1], k + 1) /\ h[k + 1] = Next(h[k], t[k + 1], k + 1)
      BY <1>7, <1>8, <3>1
    <3> QED BY <1>1, <2>2, <3>1, <3>2
  <2> HIDE DEF U
  <2> QED BY <1>1, <2>1, <2>2, Upwards
<1>10. g[n] = h[n] /\ h[n + 1] = Next(h[n], e, n + 1)
  <2>1. n \in U /\ n + 1 \in 1 .. n + 1 /\ (n + 1) - 1 = n
    BY <1>1, <1>9
  <2> QED BY <1>1, <1>8, <2>1
<1>11. VerifyStages(v, t) = Next(VerifyStages(v, seq), e, n + 1)
  BY <1>4, <1>5, <1>10
<1> QED BY <1>3, <1>6, <1>11 DEF Next, t

\* With none: the ranked verifier on a list of stages.
LEMMA RpStageByStageBegins ==
  ASSUME NEW v
  PROVE  VerifyStages(v, <<>>) = v
<1> DEFINE S == {0}
<1>1. <<>> \in Seq(S) /\ 0 \in S
  BY EmptySeq
<1> HIDE DEF S
<1> QED BY <1>1, VerifyStagesGrow

\* One run more for the cabinet's verifier.
RpParsesRuns(v, seq, g, n) == g = [k \in 0 .. n |-> IF k = 0 THEN v ELSE ParseRun(g[k - 1], seq[k])]

\* There is such a function for the cabinet's parser on a list of runs.
LEMMA RpParsesRunsExists ==
  ASSUME NEW v, NEW seq, NEW n \in Nat
  PROVE  \E g : RpParsesRuns(v, seq, g, n)
<1> DEFINE T == {m \in Nat : \E g : RpParsesRuns(v, seq, g, m)}
<1>1. 0 \in T
  <2>1. RpParsesRuns(v, seq, [k \in 0 .. 0 |-> v], 0)
    BY DEF RpParsesRuns
  <2> QED BY <2>1
<1>2. ASSUME NEW m \in 0 .. n - 1, m \in T PROVE m + 1 \in T
  <2>1. PICK g : RpParsesRuns(v, seq, g, m)
    BY <1>2
  <2> DEFINE Next(x, k) == ParseRun(x, seq[k])
             h == [k \in 0 .. m + 1 |-> IF k = m + 1 THEN Next(g[m], m + 1) ELSE g[k]]
  <2>2. g = [k \in 0 .. m |-> IF k = 0 THEN v ELSE Next(g[k - 1], k)]
    BY <2>1 DEF RpParsesRuns
  <2> HIDE DEF Next
  <2>3. ASSUME NEW k \in 0 .. m + 1 PROVE h[k] = IF k = 0 THEN v ELSE Next(h[k - 1], k)
    <3>1. CASE k = m + 1
      BY <3>1
    <3>2. CASE k # m + 1
      <4>1. k \in 0 .. m /\ h[k] = g[k] /\ (k # 0 => h[k - 1] = g[k - 1])
        BY <3>2
      <4>2. g[k] = IF k = 0 THEN v ELSE Next(g[k - 1], k)
        BY <2>2, <4>1
      <4> QED BY <4>1, <4>2
    <3> QED BY <3>1, <3>2
  <2>4. h = [k \in 0 .. m + 1 |-> h[k]]
    OBVIOUS
  <2> HIDE DEF h
  <2>5. [k \in 0 .. m + 1 |-> h[k]] = [k \in 0 .. m + 1 |-> IF k = 0 THEN v ELSE Next(h[k - 1], k)]
    BY <2>3
  <2>6. RpParsesRuns(v, seq, h, m + 1)
    BY <2>4, <2>5 DEF RpParsesRuns, Next
  <2> QED BY <2>6
<1> HIDE DEF T
<1>3. 0 .. n \subseteq T
  BY <1>1, <1>2, Upwards
<1>4. n \in T
  BY <1>3
<1> QED BY <1>4 DEF T

\* What one more adds to the cabinet's parser on a list of runs.
LEMMA ParseRunsGrow ==
  ASSUME NEW v, NEW S, NEW seq \in Seq(S), NEW e \in S
  PROVE  /\ ParseRuns(v, <<>>) = v
         /\ ParseRuns(v, Append(seq, e)) = ParseRun(ParseRuns(v, seq), e)
<1> DEFINE t == Append(seq, e)
           n == Len(seq)
           g == CHOOSE g : RpParsesRuns(v, seq, g, n)
           h == CHOOSE h : RpParsesRuns(v, t, h, n + 1)
           z == CHOOSE z : RpParsesRuns(v, <<>>, z, 0)
<1>1. n \in Nat /\ n + 1 \in Nat /\ Len(t) = n + 1 /\ t[n + 1] = e /\ \A k \in 1 .. n : t[k] = seq[k]
  BY AppendProperties
<1>2. RpParsesRuns(v, seq, g, n) /\ RpParsesRuns(v, t, h, n + 1) /\ RpParsesRuns(v, <<>>, z, 0)
  BY <1>1, RpParsesRunsExists
<1>3. ParseRuns(v, <<>>) = z[0] /\ Len(<<>>) = 0
  BY DEF ParseRuns, RpParsesRuns
<1>4. ParseRuns(v, seq) = g[n]
  BY DEF ParseRuns, RpParsesRuns
<1>5. ParseRuns(v, t) = h[n + 1]
  BY <1>1 DEF ParseRuns, RpParsesRuns
<1> DEFINE Next(x, y, k) == ParseRun(x, y)
<1> HIDE DEF g, h, z, t
<1>6. /\ g = [k \in 0 .. n |-> IF k = 0 THEN v ELSE Next(g[k - 1], seq[k], k)]
      /\ h = [k \in 0 .. n + 1 |-> IF k = 0 THEN v ELSE Next(h[k - 1], t[k], k)]
      /\ z[0] = v
  <2>1. z = [k \in 0 .. 0 |-> IF k = 0 THEN v ELSE Next(z[k - 1], <<>>[k], k)]
    BY <1>2 DEF RpParsesRuns
  <2>2. z[0] = v
    <3> HIDE DEF Next
    <3> QED BY <2>1
  <2> QED BY <1>2, <2>2 DEF RpParsesRuns
<1> HIDE DEF Next
<1>7. g[0] = v /\ \A k \in 1 .. n : g[k] = Next(g[k - 1], seq[k], k)
  BY <1>1, <1>6
<1>8. h[0] = v /\ \A k \in 1 .. n + 1 : h[k] = Next(h[k - 1], t[k], k)
  BY <1>1, <1>6
<1> DEFINE U == {k \in 0 .. n : g[k] = h[k]}
<1>9. 0 .. n \subseteq U
  <2>1. 0 \in U
    BY <1>1, <1>7, <1>8
  <2>2. ASSUME NEW k \in 0 .. n - 1, k \in U PROVE k + 1 \in U
    <3>1. k + 1 \in 1 .. n /\ k + 1 \in 1 .. n + 1 /\ (k + 1) - 1 = k /\ k + 1 \in 0 .. n
      BY <1>1
    <3>2. g[k + 1] = Next(g[k], seq[k + 1], k + 1) /\ h[k + 1] = Next(h[k], t[k + 1], k + 1)
      BY <1>7, <1>8, <3>1
    <3> QED BY <1>1, <2>2, <3>1, <3>2
  <2> HIDE DEF U
  <2> QED BY <1>1, <2>1, <2>2, Upwards
<1>10. g[n] = h[n] /\ h[n + 1] = Next(h[n], e, n + 1)
  <2>1. n \in U /\ n + 1 \in 1 .. n + 1 /\ (n + 1) - 1 = n
    BY <1>1, <1>9
  <2> QED BY <1>1, <1>8, <2>1
<1>11. ParseRuns(v, t) = Next(ParseRuns(v, seq), e, n + 1)
  BY <1>4, <1>5, <1>10
<1> QED BY <1>3, <1>6, <1>11 DEF Next, t

\* With none: the cabinet's parser on a list of runs.
LEMMA RpParsesRunsBegins ==
  ASSUME NEW v
  PROVE  ParseRuns(v, <<>>) = v
<1> DEFINE S == {0}
<1>1. <<>> \in Seq(S) /\ 0 \in S
  BY EmptySeq
<1> HIDE DEF S
<1> QED BY <1>1, ParseRunsGrow

\* One stage more.
RpParsesStages(v, seq, g, n) == g = [k \in 0 .. n |-> IF k = 0 THEN v ELSE ParseStage(g[k - 1], seq[k])]

\* There is such a function for the cabinet's parser on a list of stages.
LEMMA RpParsesStagesExists ==
  ASSUME NEW v, NEW seq, NEW n \in Nat
  PROVE  \E g : RpParsesStages(v, seq, g, n)
<1> DEFINE T == {m \in Nat : \E g : RpParsesStages(v, seq, g, m)}
<1>1. 0 \in T
  <2>1. RpParsesStages(v, seq, [k \in 0 .. 0 |-> v], 0)
    BY DEF RpParsesStages
  <2> QED BY <2>1
<1>2. ASSUME NEW m \in 0 .. n - 1, m \in T PROVE m + 1 \in T
  <2>1. PICK g : RpParsesStages(v, seq, g, m)
    BY <1>2
  <2> DEFINE Next(x, k) == ParseStage(x, seq[k])
             h == [k \in 0 .. m + 1 |-> IF k = m + 1 THEN Next(g[m], m + 1) ELSE g[k]]
  <2>2. g = [k \in 0 .. m |-> IF k = 0 THEN v ELSE Next(g[k - 1], k)]
    BY <2>1 DEF RpParsesStages
  <2> HIDE DEF Next
  <2>3. ASSUME NEW k \in 0 .. m + 1 PROVE h[k] = IF k = 0 THEN v ELSE Next(h[k - 1], k)
    <3>1. CASE k = m + 1
      BY <3>1
    <3>2. CASE k # m + 1
      <4>1. k \in 0 .. m /\ h[k] = g[k] /\ (k # 0 => h[k - 1] = g[k - 1])
        BY <3>2
      <4>2. g[k] = IF k = 0 THEN v ELSE Next(g[k - 1], k)
        BY <2>2, <4>1
      <4> QED BY <4>1, <4>2
    <3> QED BY <3>1, <3>2
  <2>4. h = [k \in 0 .. m + 1 |-> h[k]]
    OBVIOUS
  <2> HIDE DEF h
  <2>5. [k \in 0 .. m + 1 |-> h[k]] = [k \in 0 .. m + 1 |-> IF k = 0 THEN v ELSE Next(h[k - 1], k)]
    BY <2>3
  <2>6. RpParsesStages(v, seq, h, m + 1)
    BY <2>4, <2>5 DEF RpParsesStages, Next
  <2> QED BY <2>6
<1> HIDE DEF T
<1>3. 0 .. n \subseteq T
  BY <1>1, <1>2, Upwards
<1>4. n \in T
  BY <1>3
<1> QED BY <1>4 DEF T

\* What one more adds to the cabinet's parser on a list of stages.
LEMMA ParseStagesGrow ==
  ASSUME NEW v, NEW S, NEW seq \in Seq(S), NEW e \in S
  PROVE  /\ ParseStages(v, <<>>) = v
         /\ ParseStages(v, Append(seq, e)) = ParseStage(ParseStages(v, seq), e)
<1> DEFINE t == Append(seq, e)
           n == Len(seq)
           g == CHOOSE g : RpParsesStages(v, seq, g, n)
           h == CHOOSE h : RpParsesStages(v, t, h, n + 1)
           z == CHOOSE z : RpParsesStages(v, <<>>, z, 0)
<1>1. n \in Nat /\ n + 1 \in Nat /\ Len(t) = n + 1 /\ t[n + 1] = e /\ \A k \in 1 .. n : t[k] = seq[k]
  BY AppendProperties
<1>2. RpParsesStages(v, seq, g, n) /\ RpParsesStages(v, t, h, n + 1) /\ RpParsesStages(v, <<>>, z, 0)
  BY <1>1, RpParsesStagesExists
<1>3. ParseStages(v, <<>>) = z[0] /\ Len(<<>>) = 0
  BY DEF ParseStages, RpParsesStages
<1>4. ParseStages(v, seq) = g[n]
  BY DEF ParseStages, RpParsesStages
<1>5. ParseStages(v, t) = h[n + 1]
  BY <1>1 DEF ParseStages, RpParsesStages
<1> DEFINE Next(x, y, k) == ParseStage(x, y)
<1> HIDE DEF g, h, z, t
<1>6. /\ g = [k \in 0 .. n |-> IF k = 0 THEN v ELSE Next(g[k - 1], seq[k], k)]
      /\ h = [k \in 0 .. n + 1 |-> IF k = 0 THEN v ELSE Next(h[k - 1], t[k], k)]
      /\ z[0] = v
  <2>1. z = [k \in 0 .. 0 |-> IF k = 0 THEN v ELSE Next(z[k - 1], <<>>[k], k)]
    BY <1>2 DEF RpParsesStages
  <2>2. z[0] = v
    <3> HIDE DEF Next
    <3> QED BY <2>1
  <2> QED BY <1>2, <2>2 DEF RpParsesStages
<1> HIDE DEF Next
<1>7. g[0] = v /\ \A k \in 1 .. n : g[k] = Next(g[k - 1], seq[k], k)
  BY <1>1, <1>6
<1>8. h[0] = v /\ \A k \in 1 .. n + 1 : h[k] = Next(h[k - 1], t[k], k)
  BY <1>1, <1>6
<1> DEFINE U == {k \in 0 .. n : g[k] = h[k]}
<1>9. 0 .. n \subseteq U
  <2>1. 0 \in U
    BY <1>1, <1>7, <1>8
  <2>2. ASSUME NEW k \in 0 .. n - 1, k \in U PROVE k + 1 \in U
    <3>1. k + 1 \in 1 .. n /\ k + 1 \in 1 .. n + 1 /\ (k + 1) - 1 = k /\ k + 1 \in 0 .. n
      BY <1>1
    <3>2. g[k + 1] = Next(g[k], seq[k + 1], k + 1) /\ h[k + 1] = Next(h[k], t[k + 1], k + 1)
      BY <1>7, <1>8, <3>1
    <3> QED BY <1>1, <2>2, <3>1, <3>2
  <2> HIDE DEF U
  <2> QED BY <1>1, <2>1, <2>2, Upwards
<1>10. g[n] = h[n] /\ h[n + 1] = Next(h[n], e, n + 1)
  <2>1. n \in U /\ n + 1 \in 1 .. n + 1 /\ (n + 1) - 1 = n
    BY <1>1, <1>9
  <2> QED BY <1>1, <1>8, <2>1
<1>11. ParseStages(v, t) = Next(ParseStages(v, seq), e, n + 1)
  BY <1>4, <1>5, <1>10
<1> QED BY <1>3, <1>6, <1>11 DEF Next, t

\* With none: the cabinet's parser on a list of stages.
LEMMA RpParsesStagesBegins ==
  ASSUME NEW v
  PROVE  ParseStages(v, <<>>) = v
<1> DEFINE S == {0}
<1>1. <<>> \in Seq(S) /\ 0 \in S
  BY EmptySeq
<1> HIDE DEF S
<1> QED BY <1>1, ParseStagesGrow

\* One stage more for its execution.
RpExecutes(v, last, seq, g, n) == g = [k \in 0 .. n |-> IF k = 0 THEN v ELSE ExecuteNext(g[k - 1], seq[k], seq[k].id = last)]

\* There is such a function for the cabinet's execution of a list of stages.
LEMMA RpExecutesExists ==
  ASSUME NEW v, NEW last, NEW seq, NEW n \in Nat
  PROVE  \E g : RpExecutes(v, last, seq, g, n)
<1> DEFINE T == {m \in Nat : \E g : RpExecutes(v, last, seq, g, m)}
<1>1. 0 \in T
  <2>1. RpExecutes(v, last, seq, [k \in 0 .. 0 |-> v], 0)
    BY DEF RpExecutes
  <2> QED BY <2>1
<1>2. ASSUME NEW m \in 0 .. n - 1, m \in T PROVE m + 1 \in T
  <2>1. PICK g : RpExecutes(v, last, seq, g, m)
    BY <1>2
  <2> DEFINE Next(x, k) == ExecuteNext(x, seq[k], seq[k].id = last)
             h == [k \in 0 .. m + 1 |-> IF k = m + 1 THEN Next(g[m], m + 1) ELSE g[k]]
  <2>2. g = [k \in 0 .. m |-> IF k = 0 THEN v ELSE Next(g[k - 1], k)]
    BY <2>1 DEF RpExecutes
  <2> HIDE DEF Next
  <2>3. ASSUME NEW k \in 0 .. m + 1 PROVE h[k] = IF k = 0 THEN v ELSE Next(h[k - 1], k)
    <3>1. CASE k = m + 1
      BY <3>1
    <3>2. CASE k # m + 1
      <4>1. k \in 0 .. m /\ h[k] = g[k] /\ (k # 0 => h[k - 1] = g[k - 1])
        BY <3>2
      <4>2. g[k] = IF k = 0 THEN v ELSE Next(g[k - 1], k)
        BY <2>2, <4>1
      <4> QED BY <4>1, <4>2
    <3> QED BY <3>1, <3>2
  <2>4. h = [k \in 0 .. m + 1 |-> h[k]]
    OBVIOUS
  <2> HIDE DEF h
  <2>5. [k \in 0 .. m + 1 |-> h[k]] = [k \in 0 .. m + 1 |-> IF k = 0 THEN v ELSE Next(h[k - 1], k)]
    BY <2>3
  <2>6. RpExecutes(v, last, seq, h, m + 1)
    BY <2>4, <2>5 DEF RpExecutes, Next
  <2> QED BY <2>6
<1> HIDE DEF T
<1>3. 0 .. n \subseteq T
  BY <1>1, <1>2, Upwards
<1>4. n \in T
  BY <1>3
<1> QED BY <1>4 DEF T

\* What one more adds to the cabinet's execution of a list of stages.
LEMMA ExecuteStagesGrow ==
  ASSUME NEW v, NEW last, NEW S, NEW seq \in Seq(S), NEW e \in S
  PROVE  /\ ExecuteStages(v, <<>>, last) = v
         /\ ExecuteStages(v, Append(seq, e), last) = ExecuteNext(ExecuteStages(v, seq, last), e, e.id = last)
<1> DEFINE t == Append(seq, e)
           n == Len(seq)
           g == CHOOSE g : RpExecutes(v, last, seq, g, n)
           h == CHOOSE h : RpExecutes(v, last, t, h, n + 1)
           z == CHOOSE z : RpExecutes(v, last, <<>>, z, 0)
<1>1. n \in Nat /\ n + 1 \in Nat /\ Len(t) = n + 1 /\ t[n + 1] = e /\ \A k \in 1 .. n : t[k] = seq[k]
  BY AppendProperties
<1>2. RpExecutes(v, last, seq, g, n) /\ RpExecutes(v, last, t, h, n + 1) /\ RpExecutes(v, last, <<>>, z, 0)
  BY <1>1, RpExecutesExists
<1>3. ExecuteStages(v, <<>>, last) = z[0] /\ Len(<<>>) = 0
  BY DEF ExecuteStages, RpExecutes
<1>4. ExecuteStages(v, seq, last) = g[n]
  BY DEF ExecuteStages, RpExecutes
<1>5. ExecuteStages(v, t, last) = h[n + 1]
  BY <1>1 DEF ExecuteStages, RpExecutes
<1> DEFINE Next(x, y, k) == ExecuteNext(x, y, y.id = last)
<1> HIDE DEF g, h, z, t
<1>6. /\ g = [k \in 0 .. n |-> IF k = 0 THEN v ELSE Next(g[k - 1], seq[k], k)]
      /\ h = [k \in 0 .. n + 1 |-> IF k = 0 THEN v ELSE Next(h[k - 1], t[k], k)]
      /\ z[0] = v
  <2>1. z = [k \in 0 .. 0 |-> IF k = 0 THEN v ELSE Next(z[k - 1], <<>>[k], k)]
    BY <1>2 DEF RpExecutes
  <2>2. z[0] = v
    <3> HIDE DEF Next
    <3> QED BY <2>1
  <2> QED BY <1>2, <2>2 DEF RpExecutes
<1> HIDE DEF Next
<1>7. g[0] = v /\ \A k \in 1 .. n : g[k] = Next(g[k - 1], seq[k], k)
  BY <1>1, <1>6
<1>8. h[0] = v /\ \A k \in 1 .. n + 1 : h[k] = Next(h[k - 1], t[k], k)
  BY <1>1, <1>6
<1> DEFINE U == {k \in 0 .. n : g[k] = h[k]}
<1>9. 0 .. n \subseteq U
  <2>1. 0 \in U
    BY <1>1, <1>7, <1>8
  <2>2. ASSUME NEW k \in 0 .. n - 1, k \in U PROVE k + 1 \in U
    <3>1. k + 1 \in 1 .. n /\ k + 1 \in 1 .. n + 1 /\ (k + 1) - 1 = k /\ k + 1 \in 0 .. n
      BY <1>1
    <3>2. g[k + 1] = Next(g[k], seq[k + 1], k + 1) /\ h[k + 1] = Next(h[k], t[k + 1], k + 1)
      BY <1>7, <1>8, <3>1
    <3> QED BY <1>1, <2>2, <3>1, <3>2
  <2> HIDE DEF U
  <2> QED BY <1>1, <2>1, <2>2, Upwards
<1>10. g[n] = h[n] /\ h[n + 1] = Next(h[n], e, n + 1)
  <2>1. n \in U /\ n + 1 \in 1 .. n + 1 /\ (n + 1) - 1 = n
    BY <1>1, <1>9
  <2> QED BY <1>1, <1>8, <2>1
<1>11. ExecuteStages(v, t, last) = Next(ExecuteStages(v, seq, last), e, n + 1)
  BY <1>4, <1>5, <1>10
<1> QED BY <1>3, <1>6, <1>11 DEF Next, t

\* With none: the cabinet's execution of a list of stages.
LEMMA RpExecutesBegins ==
  ASSUME NEW v, NEW last
  PROVE  ExecuteStages(v, <<>>, last) = v
<1> DEFINE S == {0}
<1>1. <<>> \in Seq(S) /\ 0 \in S
  BY EmptySeq
<1> HIDE DEF S
<1> QED BY <1>1, ExecuteStagesGrow

\* One frame more.
RpFilters(tick, seq, g, n) == g = [k \in 0 .. n |-> IF k = 0 THEN <<>> ELSE IF seq[k].tick > tick - RpHistory THEN Append(g[k - 1], seq[k]) ELSE g[k - 1]]

\* There is such a function for the frames that are not too old.
LEMMA RpFiltersExists ==
  ASSUME NEW tick, NEW seq, NEW n \in Nat
  PROVE  \E g : RpFilters(tick, seq, g, n)
<1> DEFINE T == {m \in Nat : \E g : RpFilters(tick, seq, g, m)}
<1>1. 0 \in T
  <2>1. RpFilters(tick, seq, [k \in 0 .. 0 |-> <<>>], 0)
    BY DEF RpFilters
  <2> QED BY <2>1
<1>2. ASSUME NEW m \in 0 .. n - 1, m \in T PROVE m + 1 \in T
  <2>1. PICK g : RpFilters(tick, seq, g, m)
    BY <1>2
  <2> DEFINE Next(x, k) == IF seq[k].tick > tick - RpHistory THEN Append(x, seq[k]) ELSE x
             h == [k \in 0 .. m + 1 |-> IF k = m + 1 THEN Next(g[m], m + 1) ELSE g[k]]
  <2>2. g = [k \in 0 .. m |-> IF k = 0 THEN <<>> ELSE Next(g[k - 1], k)]
    BY <2>1 DEF RpFilters
  <2> HIDE DEF Next
  <2>3. ASSUME NEW k \in 0 .. m + 1 PROVE h[k] = IF k = 0 THEN <<>> ELSE Next(h[k - 1], k)
    <3>1. CASE k = m + 1
      BY <3>1
    <3>2. CASE k # m + 1
      <4>1. k \in 0 .. m /\ h[k] = g[k] /\ (k # 0 => h[k - 1] = g[k - 1])
        BY <3>2
      <4>2. g[k] = IF k = 0 THEN <<>> ELSE Next(g[k - 1], k)
        BY <2>2, <4>1
      <4> QED BY <4>1, <4>2
    <3> QED BY <3>1, <3>2
  <2>4. h = [k \in 0 .. m + 1 |-> h[k]]
    OBVIOUS
  <2> HIDE DEF h
  <2>5. [k \in 0 .. m + 1 |-> h[k]] = [k \in 0 .. m + 1 |-> IF k = 0 THEN <<>> ELSE Next(h[k - 1], k)]
    BY <2>3
  <2>6. RpFilters(tick, seq, h, m + 1)
    BY <2>4, <2>5 DEF RpFilters, Next
  <2> QED BY <2>6
<1> HIDE DEF T
<1>3. 0 .. n \subseteq T
  BY <1>1, <1>2, Upwards
<1>4. n \in T
  BY <1>3
<1> QED BY <1>4 DEF T

\* What one more adds to the frames that are not too old.
LEMMA RecentGrows ==
  ASSUME NEW tick, NEW S, NEW seq \in Seq(S), NEW e \in S
  PROVE  /\ Recent(<<>>, tick) = <<>>
         /\ Recent(Append(seq, e), tick) = IF e.tick > tick - RpHistory THEN Append(Recent(seq, tick), e) ELSE Recent(seq, tick)
<1> DEFINE t == Append(seq, e)
           n == Len(seq)
           g == CHOOSE g : RpFilters(tick, seq, g, n)
           h == CHOOSE h : RpFilters(tick, t, h, n + 1)
           z == CHOOSE z : RpFilters(tick, <<>>, z, 0)
<1>1. n \in Nat /\ n + 1 \in Nat /\ Len(t) = n + 1 /\ t[n + 1] = e /\ \A k \in 1 .. n : t[k] = seq[k]
  BY AppendProperties
<1>2. RpFilters(tick, seq, g, n) /\ RpFilters(tick, t, h, n + 1) /\ RpFilters(tick, <<>>, z, 0)
  BY <1>1, RpFiltersExists
<1>3. Recent(<<>>, tick) = z[0] /\ Len(<<>>) = 0
  BY DEF Recent, RpFilters
<1>4. Recent(seq, tick) = g[n]
  BY DEF Recent, RpFilters
<1>5. Recent(t, tick) = h[n + 1]
  BY <1>1 DEF Recent, RpFilters
<1> DEFINE Next(x, y, k) == IF y.tick > tick - RpHistory THEN Append(x, y) ELSE x
<1> HIDE DEF g, h, z, t
<1>6. /\ g = [k \in 0 .. n |-> IF k = 0 THEN <<>> ELSE Next(g[k - 1], seq[k], k)]
      /\ h = [k \in 0 .. n + 1 |-> IF k = 0 THEN <<>> ELSE Next(h[k - 1], t[k], k)]
      /\ z[0] = <<>>
  <2>1. z = [k \in 0 .. 0 |-> IF k = 0 THEN <<>> ELSE Next(z[k - 1], <<>>[k], k)]
    BY <1>2 DEF RpFilters
  <2>2. z[0] = <<>>
    <3> HIDE DEF Next
    <3> QED BY <2>1
  <2> QED BY <1>2, <2>2 DEF RpFilters
<1> HIDE DEF Next
<1>7. g[0] = <<>> /\ \A k \in 1 .. n : g[k] = Next(g[k - 1], seq[k], k)
  BY <1>1, <1>6
<1>8. h[0] = <<>> /\ \A k \in 1 .. n + 1 : h[k] = Next(h[k - 1], t[k], k)
  BY <1>1, <1>6
<1> DEFINE U == {k \in 0 .. n : g[k] = h[k]}
<1>9. 0 .. n \subseteq U
  <2>1. 0 \in U
    BY <1>1, <1>7, <1>8
  <2>2. ASSUME NEW k \in 0 .. n - 1, k \in U PROVE k + 1 \in U
    <3>1. k + 1 \in 1 .. n /\ k + 1 \in 1 .. n + 1 /\ (k + 1) - 1 = k /\ k + 1 \in 0 .. n
      BY <1>1
    <3>2. g[k + 1] = Next(g[k], seq[k + 1], k + 1) /\ h[k + 1] = Next(h[k], t[k + 1], k + 1)
      BY <1>7, <1>8, <3>1
    <3> QED BY <1>1, <2>2, <3>1, <3>2
  <2> HIDE DEF U
  <2> QED BY <1>1, <2>1, <2>2, Upwards
<1>10. g[n] = h[n] /\ h[n + 1] = Next(h[n], e, n + 1)
  <2>1. n \in U /\ n + 1 \in 1 .. n + 1 /\ (n + 1) - 1 = n
    BY <1>1, <1>9
  <2> QED BY <1>1, <1>8, <2>1
<1>11. Recent(t, tick) = Next(Recent(seq, tick), e, n + 1)
  BY <1>4, <1>5, <1>10
<1> QED BY <1>3, <1>6, <1>11 DEF Next, t

\* With none: the frames that are not too old.
LEMMA RpFiltersBegins ==
  ASSUME NEW tick
  PROVE  Recent(<<>>, tick) = <<>>
<1> DEFINE S == {0}
<1>1. <<>> \in Seq(S) /\ 0 \in S
  BY EmptySeq
<1> HIDE DEF S
<1> QED BY <1>1, RecentGrows

\* One number more.
RpSums(seq, g, n) == g = [k \in 0 .. n |-> IF k = 0 THEN 0 ELSE g[k - 1] + seq[k]]

\* There is such a function for the sum of a list of numbers.
LEMMA RpSumsExists ==
  ASSUME NEW seq, NEW n \in Nat
  PROVE  \E g : RpSums(seq, g, n)
<1> DEFINE T == {m \in Nat : \E g : RpSums(seq, g, m)}
<1>1. 0 \in T
  <2>1. RpSums(seq, [k \in 0 .. 0 |-> 0], 0)
    BY DEF RpSums
  <2> QED BY <2>1
<1>2. ASSUME NEW m \in 0 .. n - 1, m \in T PROVE m + 1 \in T
  <2>1. PICK g : RpSums(seq, g, m)
    BY <1>2
  <2> DEFINE Next(x, k) == x + seq[k]
             h == [k \in 0 .. m + 1 |-> IF k = m + 1 THEN Next(g[m], m + 1) ELSE g[k]]
  <2>2. g = [k \in 0 .. m |-> IF k = 0 THEN 0 ELSE Next(g[k - 1], k)]
    BY <2>1 DEF RpSums
  <2> HIDE DEF Next
  <2>3. ASSUME NEW k \in 0 .. m + 1 PROVE h[k] = IF k = 0 THEN 0 ELSE Next(h[k - 1], k)
    <3>1. CASE k = m + 1
      BY <3>1
    <3>2. CASE k # m + 1
      <4>1. k \in 0 .. m /\ h[k] = g[k] /\ (k # 0 => h[k - 1] = g[k - 1])
        BY <3>2
      <4>2. g[k] = IF k = 0 THEN 0 ELSE Next(g[k - 1], k)
        BY <2>2, <4>1
      <4> QED BY <4>1, <4>2
    <3> QED BY <3>1, <3>2
  <2>4. h = [k \in 0 .. m + 1 |-> h[k]]
    OBVIOUS
  <2> HIDE DEF h
  <2>5. [k \in 0 .. m + 1 |-> h[k]] = [k \in 0 .. m + 1 |-> IF k = 0 THEN 0 ELSE Next(h[k - 1], k)]
    BY <2>3
  <2>6. RpSums(seq, h, m + 1)
    BY <2>4, <2>5 DEF RpSums, Next
  <2> QED BY <2>6
<1> HIDE DEF T
<1>3. 0 .. n \subseteq T
  BY <1>1, <1>2, Upwards
<1>4. n \in T
  BY <1>3
<1> QED BY <1>4 DEF T

\* What one more adds to the sum of a list of numbers.
LEMMA TotalGrows ==
  ASSUME NEW S, NEW seq \in Seq(S), NEW e \in S
  PROVE  /\ Total(<<>>) = 0
         /\ Total(Append(seq, e)) = Total(seq) + e
<1> DEFINE t == Append(seq, e)
           n == Len(seq)
           g == CHOOSE g : RpSums(seq, g, n)
           h == CHOOSE h : RpSums(t, h, n + 1)
           z == CHOOSE z : RpSums(<<>>, z, 0)
<1>1. n \in Nat /\ n + 1 \in Nat /\ Len(t) = n + 1 /\ t[n + 1] = e /\ \A k \in 1 .. n : t[k] = seq[k]
  BY AppendProperties
<1>2. RpSums(seq, g, n) /\ RpSums(t, h, n + 1) /\ RpSums(<<>>, z, 0)
  BY <1>1, RpSumsExists
<1>3. Total(<<>>) = z[0] /\ Len(<<>>) = 0
  BY DEF Total, RpSums
<1>4. Total(seq) = g[n]
  BY DEF Total, RpSums
<1>5. Total(t) = h[n + 1]
  BY <1>1 DEF Total, RpSums
<1> DEFINE Next(x, y, k) == x + y
<1> HIDE DEF g, h, z, t
<1>6. /\ g = [k \in 0 .. n |-> IF k = 0 THEN 0 ELSE Next(g[k - 1], seq[k], k)]
      /\ h = [k \in 0 .. n + 1 |-> IF k = 0 THEN 0 ELSE Next(h[k - 1], t[k], k)]
      /\ z[0] = 0
  <2>1. z = [k \in 0 .. 0 |-> IF k = 0 THEN 0 ELSE Next(z[k - 1], <<>>[k], k)]
    BY <1>2 DEF RpSums
  <2>2. z[0] = 0
    <3> HIDE DEF Next
    <3> QED BY <2>1
  <2> QED BY <1>2, <2>2 DEF RpSums
<1> HIDE DEF Next
<1>7. g[0] = 0 /\ \A k \in 1 .. n : g[k] = Next(g[k - 1], seq[k], k)
  BY <1>1, <1>6
<1>8. h[0] = 0 /\ \A k \in 1 .. n + 1 : h[k] = Next(h[k - 1], t[k], k)
  BY <1>1, <1>6
<1> DEFINE U == {k \in 0 .. n : g[k] = h[k]}
<1>9. 0 .. n \subseteq U
  <2>1. 0 \in U
    BY <1>1, <1>7, <1>8
  <2>2. ASSUME NEW k \in 0 .. n - 1, k \in U PROVE k + 1 \in U
    <3>1. k + 1 \in 1 .. n /\ k + 1 \in 1 .. n + 1 /\ (k + 1) - 1 = k /\ k + 1 \in 0 .. n
      BY <1>1
    <3>2. g[k + 1] = Next(g[k], seq[k + 1], k + 1) /\ h[k + 1] = Next(h[k], t[k + 1], k + 1)
      BY <1>7, <1>8, <3>1
    <3> QED BY <1>1, <2>2, <3>1, <3>2
  <2> HIDE DEF U
  <2> QED BY <1>1, <2>1, <2>2, Upwards
<1>10. g[n] = h[n] /\ h[n + 1] = Next(h[n], e, n + 1)
  <2>1. n \in U /\ n + 1 \in 1 .. n + 1 /\ (n + 1) - 1 = n
    BY <1>1, <1>9
  <2> QED BY <1>1, <1>8, <2>1
<1>11. Total(t) = Next(Total(seq), e, n + 1)
  BY <1>4, <1>5, <1>10
<1> QED BY <1>3, <1>6, <1>11 DEF Next, t

\* With none: the sum of a list of numbers.
LEMMA RpSumsBegins ==
  Total(<<>>) = 0
<1> DEFINE S == {0}
<1>1. <<>> \in Seq(S) /\ 0 \in S
  BY EmptySeq
<1> HIDE DEF S
<1> QED BY <1>1, TotalGrows

\* The lives one stage further.
RpLives(seq, g, n) == g = [k \in 0 .. n |-> IF k = 0 THEN PfLives ELSE PfOutcome(k, g[k - 1], seq[k]).lives]

\* There is such a function for the lives left by a list of plays.
LEMMA RpLivesExists ==
  ASSUME NEW seq, NEW n \in Nat
  PROVE  \E g : RpLives(seq, g, n)
<1> DEFINE T == {m \in Nat : \E g : RpLives(seq, g, m)}
<1>1. 0 \in T
  <2>1. RpLives(seq, [k \in 0 .. 0 |-> PfLives], 0)
    BY DEF RpLives
  <2> QED BY <2>1
<1>2. ASSUME NEW m \in 0 .. n - 1, m \in T PROVE m + 1 \in T
  <2>1. PICK g : RpLives(seq, g, m)
    BY <1>2
  <2> DEFINE Next(x, k) == PfOutcome(k, x, seq[k]).lives
             h == [k \in 0 .. m + 1 |-> IF k = m + 1 THEN Next(g[m], m + 1) ELSE g[k]]
  <2>2. g = [k \in 0 .. m |-> IF k = 0 THEN PfLives ELSE Next(g[k - 1], k)]
    BY <2>1 DEF RpLives
  <2> HIDE DEF Next
  <2>3. ASSUME NEW k \in 0 .. m + 1 PROVE h[k] = IF k = 0 THEN PfLives ELSE Next(h[k - 1], k)
    <3>1. CASE k = m + 1
      BY <3>1
    <3>2. CASE k # m + 1
      <4>1. k \in 0 .. m /\ h[k] = g[k] /\ (k # 0 => h[k - 1] = g[k - 1])
        BY <3>2
      <4>2. g[k] = IF k = 0 THEN PfLives ELSE Next(g[k - 1], k)
        BY <2>2, <4>1
      <4> QED BY <4>1, <4>2
    <3> QED BY <3>1, <3>2
  <2>4. h = [k \in 0 .. m + 1 |-> h[k]]
    OBVIOUS
  <2> HIDE DEF h
  <2>5. [k \in 0 .. m + 1 |-> h[k]] = [k \in 0 .. m + 1 |-> IF k = 0 THEN PfLives ELSE Next(h[k - 1], k)]
    BY <2>3
  <2>6. RpLives(seq, h, m + 1)
    BY <2>4, <2>5 DEF RpLives, Next
  <2> QED BY <2>6
<1> HIDE DEF T
<1>3. 0 .. n \subseteq T
  BY <1>1, <1>2, Upwards
<1>4. n \in T
  BY <1>3
<1> QED BY <1>4 DEF T

\* What one more adds to the lives left by a list of plays.
LEMMA LivesGrow ==
  ASSUME NEW S, NEW seq \in Seq(S), NEW e \in S
  PROVE  /\ LivesLeft(<<>>) = PfLives
         /\ LivesLeft(Append(seq, e)) = PfOutcome(Len(seq) + 1, LivesLeft(seq), e).lives
<1> DEFINE t == Append(seq, e)
           n == Len(seq)
           g == CHOOSE g : RpLives(seq, g, n)
           h == CHOOSE h : RpLives(t, h, n + 1)
           z == CHOOSE z : RpLives(<<>>, z, 0)
<1>1. n \in Nat /\ n + 1 \in Nat /\ Len(t) = n + 1 /\ t[n + 1] = e /\ \A k \in 1 .. n : t[k] = seq[k]
  BY AppendProperties
<1>2. RpLives(seq, g, n) /\ RpLives(t, h, n + 1) /\ RpLives(<<>>, z, 0)
  BY <1>1, RpLivesExists
<1>3. LivesLeft(<<>>) = z[0] /\ Len(<<>>) = 0
  BY DEF LivesLeft, RpLives
<1>4. LivesLeft(seq) = g[n]
  BY DEF LivesLeft, RpLives
<1>5. LivesLeft(t) = h[n + 1]
  BY <1>1 DEF LivesLeft, RpLives
<1> DEFINE Next(x, y, k) == PfOutcome(k, x, y).lives
<1> HIDE DEF g, h, z, t
<1>6. /\ g = [k \in 0 .. n |-> IF k = 0 THEN PfLives ELSE Next(g[k - 1], seq[k], k)]
      /\ h = [k \in 0 .. n + 1 |-> IF k = 0 THEN PfLives ELSE Next(h[k - 1], t[k], k)]
      /\ z[0] = PfLives
  <2>1. z = [k \in 0 .. 0 |-> IF k = 0 THEN PfLives ELSE Next(z[k - 1], <<>>[k], k)]
    BY <1>2 DEF RpLives
  <2>2. z[0] = PfLives
    <3> HIDE DEF Next
    <3> QED BY <2>1
  <2> QED BY <1>2, <2>2 DEF RpLives
<1> HIDE DEF Next
<1>7. g[0] = PfLives /\ \A k \in 1 .. n : g[k] = Next(g[k - 1], seq[k], k)
  BY <1>1, <1>6
<1>8. h[0] = PfLives /\ \A k \in 1 .. n + 1 : h[k] = Next(h[k - 1], t[k], k)
  BY <1>1, <1>6
<1> DEFINE U == {k \in 0 .. n : g[k] = h[k]}
<1>9. 0 .. n \subseteq U
  <2>1. 0 \in U
    BY <1>1, <1>7, <1>8
  <2>2. ASSUME NEW k \in 0 .. n - 1, k \in U PROVE k + 1 \in U
    <3>1. k + 1 \in 1 .. n /\ k + 1 \in 1 .. n + 1 /\ (k + 1) - 1 = k /\ k + 1 \in 0 .. n
      BY <1>1
    <3>2. g[k + 1] = Next(g[k], seq[k + 1], k + 1) /\ h[k + 1] = Next(h[k], t[k + 1], k + 1)
      BY <1>7, <1>8, <3>1
    <3> QED BY <1>1, <2>2, <3>1, <3>2
  <2> HIDE DEF U
  <2> QED BY <1>1, <2>1, <2>2, Upwards
<1>10. g[n] = h[n] /\ h[n + 1] = Next(h[n], e, n + 1)
  <2>1. n \in U /\ n + 1 \in 1 .. n + 1 /\ (n + 1) - 1 = n
    BY <1>1, <1>9
  <2> QED BY <1>1, <1>8, <2>1
<1>11. LivesLeft(t) = Next(LivesLeft(seq), e, n + 1)
  BY <1>4, <1>5, <1>10
<1> QED BY <1>3, <1>6, <1>11 DEF Next, t

\* With none: the lives left by a list of plays.
LEMMA RpLivesBegins ==
  LivesLeft(<<>>) = PfLives
<1> DEFINE S == {0}
<1>1. <<>> \in Seq(S) /\ 0 \in S
  BY EmptySeq
<1> HIDE DEF S
<1> QED BY <1>1, LivesGrow

\* One stage more to show.
RpShows(v, seq, g, n) == g = [k \in 0 .. n |-> IF k = 0 THEN v ELSE SourceAfter(g[k - 1], seq[k])]

\* There is such a function for the sources of a list of stages.
LEMMA RpShowsExists ==
  ASSUME NEW v, NEW seq, NEW n \in Nat
  PROVE  \E g : RpShows(v, seq, g, n)
<1> DEFINE T == {m \in Nat : \E g : RpShows(v, seq, g, m)}
<1>1. 0 \in T
  <2>1. RpShows(v, seq, [k \in 0 .. 0 |-> v], 0)
    BY DEF RpShows
  <2> QED BY <2>1
<1>2. ASSUME NEW m \in 0 .. n - 1, m \in T PROVE m + 1 \in T
  <2>1. PICK g : RpShows(v, seq, g, m)
    BY <1>2
  <2> DEFINE Next(x, k) == SourceAfter(x, seq[k])
             h == [k \in 0 .. m + 1 |-> IF k = m + 1 THEN Next(g[m], m + 1) ELSE g[k]]
  <2>2. g = [k \in 0 .. m |-> IF k = 0 THEN v ELSE Next(g[k - 1], k)]
    BY <2>1 DEF RpShows
  <2> HIDE DEF Next
  <2>3. ASSUME NEW k \in 0 .. m + 1 PROVE h[k] = IF k = 0 THEN v ELSE Next(h[k - 1], k)
    <3>1. CASE k = m + 1
      BY <3>1
    <3>2. CASE k # m + 1
      <4>1. k \in 0 .. m /\ h[k] = g[k] /\ (k # 0 => h[k - 1] = g[k - 1])
        BY <3>2
      <4>2. g[k] = IF k = 0 THEN v ELSE Next(g[k - 1], k)
        BY <2>2, <4>1
      <4> QED BY <4>1, <4>2
    <3> QED BY <3>1, <3>2
  <2>4. h = [k \in 0 .. m + 1 |-> h[k]]
    OBVIOUS
  <2> HIDE DEF h
  <2>5. [k \in 0 .. m + 1 |-> h[k]] = [k \in 0 .. m + 1 |-> IF k = 0 THEN v ELSE Next(h[k - 1], k)]
    BY <2>3
  <2>6. RpShows(v, seq, h, m + 1)
    BY <2>4, <2>5 DEF RpShows, Next
  <2> QED BY <2>6
<1> HIDE DEF T
<1>3. 0 .. n \subseteq T
  BY <1>1, <1>2, Upwards
<1>4. n \in T
  BY <1>3
<1> QED BY <1>4 DEF T

\* What one more adds to the sources of a list of stages.
LEMMA SourcesGrow ==
  ASSUME NEW v, NEW S, NEW seq \in Seq(S), NEW e \in S
  PROVE  /\ SourcesFrom(v, <<>>) = v
         /\ SourcesFrom(v, Append(seq, e)) = SourceAfter(SourcesFrom(v, seq), e)
<1> DEFINE t == Append(seq, e)
           n == Len(seq)
           g == CHOOSE g : RpShows(v, seq, g, n)
           h == CHOOSE h : RpShows(v, t, h, n + 1)
           z == CHOOSE z : RpShows(v, <<>>, z, 0)
<1>1. n \in Nat /\ n + 1 \in Nat /\ Len(t) = n + 1 /\ t[n + 1] = e /\ \A k \in 1 .. n : t[k] = seq[k]
  BY AppendProperties
<1>2. RpShows(v, seq, g, n) /\ RpShows(v, t, h, n + 1) /\ RpShows(v, <<>>, z, 0)
  BY <1>1, RpShowsExists
<1>3. SourcesFrom(v, <<>>) = z[0] /\ Len(<<>>) = 0
  BY DEF SourcesFrom, RpShows
<1>4. SourcesFrom(v, seq) = g[n]
  BY DEF SourcesFrom, RpShows
<1>5. SourcesFrom(v, t) = h[n + 1]
  BY <1>1 DEF SourcesFrom, RpShows
<1> DEFINE Next(x, y, k) == SourceAfter(x, y)
<1> HIDE DEF g, h, z, t
<1>6. /\ g = [k \in 0 .. n |-> IF k = 0 THEN v ELSE Next(g[k - 1], seq[k], k)]
      /\ h = [k \in 0 .. n + 1 |-> IF k = 0 THEN v ELSE Next(h[k - 1], t[k], k)]
      /\ z[0] = v
  <2>1. z = [k \in 0 .. 0 |-> IF k = 0 THEN v ELSE Next(z[k - 1], <<>>[k], k)]
    BY <1>2 DEF RpShows
  <2>2. z[0] = v
    <3> HIDE DEF Next
    <3> QED BY <2>1
  <2> QED BY <1>2, <2>2 DEF RpShows
<1> HIDE DEF Next
<1>7. g[0] = v /\ \A k \in 1 .. n : g[k] = Next(g[k - 1], seq[k], k)
  BY <1>1, <1>6
<1>8. h[0] = v /\ \A k \in 1 .. n + 1 : h[k] = Next(h[k - 1], t[k], k)
  BY <1>1, <1>6
<1> DEFINE U == {k \in 0 .. n : g[k] = h[k]}
<1>9. 0 .. n \subseteq U
  <2>1. 0 \in U
    BY <1>1, <1>7, <1>8
  <2>2. ASSUME NEW k \in 0 .. n - 1, k \in U PROVE k + 1 \in U
    <3>1. k + 1 \in 1 .. n /\ k + 1 \in 1 .. n + 1 /\ (k + 1) - 1 = k /\ k + 1 \in 0 .. n
      BY <1>1
    <3>2. g[k + 1] = Next(g[k], seq[k + 1], k + 1) /\ h[k + 1] = Next(h[k], t[k + 1], k + 1)
      BY <1>7, <1>8, <3>1
    <3> QED BY <1>1, <2>2, <3>1, <3>2
  <2> HIDE DEF U
  <2> QED BY <1>1, <2>1, <2>2, Upwards
<1>10. g[n] = h[n] /\ h[n + 1] = Next(h[n], e, n + 1)
  <2>1. n \in U /\ n + 1 \in 1 .. n + 1 /\ (n + 1) - 1 = n
    BY <1>1, <1>9
  <2> QED BY <1>1, <1>8, <2>1
<1>11. SourcesFrom(v, t) = Next(SourcesFrom(v, seq), e, n + 1)
  BY <1>4, <1>5, <1>10
<1> QED BY <1>3, <1>6, <1>11 DEF Next, t

\* With none: the sources of a list of stages.
LEMMA RpShowsBegins ==
  ASSUME NEW v
  PROVE  SourcesFrom(v, <<>>) = v
<1> DEFINE S == {0}
<1>1. <<>> \in Seq(S) /\ 0 \in S
  BY EmptySeq
<1> HIDE DEF S
<1> QED BY <1>1, SourcesGrow

\* One turn more of the search for a run.
RpSearches(source, tick, g, n) == g = [k \in 0 .. n |-> IF k = 0 THEN [low |-> 1, high |-> Len(source.ends)] ELSE Halved(source, tick, g[k - 1])]

\* There is such a function for the search for a run.
LEMMA RpSearchesExists ==
  ASSUME NEW source, NEW tick, NEW n \in Nat
  PROVE  \E g : RpSearches(source, tick, g, n)
<1> DEFINE T == {m \in Nat : \E g : RpSearches(source, tick, g, m)}
<1>1. 0 \in T
  <2>1. RpSearches(source, tick, [k \in 0 .. 0 |-> [low |-> 1, high |-> Len(source.ends)]], 0)
    BY DEF RpSearches
  <2> QED BY <2>1
<1>2. ASSUME NEW m \in 0 .. n - 1, m \in T PROVE m + 1 \in T
  <2>1. PICK g : RpSearches(source, tick, g, m)
    BY <1>2
  <2> DEFINE Next(x) == Halved(source, tick, x)
             h == [k \in 0 .. m + 1 |-> IF k = m + 1 THEN Next(g[m]) ELSE g[k]]
  <2>2. g = [k \in 0 .. m |-> IF k = 0 THEN [low |-> 1, high |-> Len(source.ends)] ELSE Next(g[k - 1])]
    BY <2>1 DEF RpSearches
  <2> HIDE DEF Next
  <2>3. ASSUME NEW k \in 0 .. m + 1 PROVE h[k] = IF k = 0 THEN [low |-> 1, high |-> Len(source.ends)] ELSE Next(h[k - 1])
    <3>1. CASE k = m + 1
      BY <3>1
    <3>2. CASE k # m + 1
      <4>1. k \in 0 .. m /\ h[k] = g[k] /\ (k # 0 => h[k - 1] = g[k - 1])
        BY <3>2
      <4>2. g[k] = IF k = 0 THEN [low |-> 1, high |-> Len(source.ends)] ELSE Next(g[k - 1])
        BY <2>2, <4>1
      <4> QED BY <4>1, <4>2
    <3> QED BY <3>1, <3>2
  <2>4. h = [k \in 0 .. m + 1 |-> h[k]]
    OBVIOUS
  <2> HIDE DEF h
  <2>5. [k \in 0 .. m + 1 |-> h[k]] = [k \in 0 .. m + 1 |-> IF k = 0 THEN [low |-> 1, high |-> Len(source.ends)] ELSE Next(h[k - 1])]
    BY <2>3
  <2>6. RpSearches(source, tick, h, m + 1)
    BY <2>4, <2>5 DEF RpSearches, Next
  <2> QED BY <2>6
<1> HIDE DEF T
<1>3. 0 .. n \subseteq T
  BY <1>1, <1>2, Upwards
<1>4. n \in T
  BY <1>3
<1> QED BY <1>4 DEF T

\* One turn more of the search for a run.
LEMMA SearchedGrows ==
  ASSUME NEW source, NEW tick, NEW n \in Nat
  PROVE  Searched(source, tick, 0) = [low |-> 1, high |-> Len(source.ends)] /\ Searched(source, tick, n + 1) = Halved(source, tick, Searched(source, tick, n))
<1> DEFINE g == CHOOSE g : RpSearches(source, tick, g, n)
           h == CHOOSE h : RpSearches(source, tick, h, n + 1)
           z == CHOOSE z : RpSearches(source, tick, z, 0)
<1>2. RpSearches(source, tick, g, n) /\ RpSearches(source, tick, h, n + 1) /\ RpSearches(source, tick, z, 0)
  BY RpSearchesExists
<1>3. Searched(source, tick, 0) = z[0]
  BY DEF Searched, RpSearches
<1>4. Searched(source, tick, n) = g[n]
  BY DEF Searched, RpSearches
<1>5. Searched(source, tick, n + 1) = h[n + 1]
  BY DEF Searched, RpSearches
<1> DEFINE Next(x) == Halved(source, tick, x)
<1> HIDE DEF g, h, z
<1>6. /\ g = [k \in 0 .. n |-> IF k = 0 THEN [low |-> 1, high |-> Len(source.ends)] ELSE Next(g[k - 1])]
      /\ h = [k \in 0 .. n + 1 |-> IF k = 0 THEN [low |-> 1, high |-> Len(source.ends)] ELSE Next(h[k - 1])]
      /\ z[0] = [low |-> 1, high |-> Len(source.ends)]
  BY <1>2 DEF RpSearches
<1> HIDE DEF Next
<1>7. g[0] = [low |-> 1, high |-> Len(source.ends)] /\ \A k \in 1 .. n : g[k] = Next(g[k - 1])
  BY <1>6
<1>8. h[0] = [low |-> 1, high |-> Len(source.ends)] /\ \A k \in 1 .. n + 1 : h[k] = Next(h[k - 1])
  BY <1>6
<1> DEFINE U == {k \in 0 .. n : g[k] = h[k]}
<1>9. 0 .. n \subseteq U
  <2>1. 0 \in U
    BY <1>7, <1>8
  <2>2. ASSUME NEW k \in 0 .. n - 1, k \in U PROVE k + 1 \in U
    <3>1. k + 1 \in 1 .. n /\ k + 1 \in 1 .. n + 1 /\ (k + 1) - 1 = k /\ k + 1 \in 0 .. n
      OBVIOUS
    <3>2. g[k + 1] = Next(g[k]) /\ h[k + 1] = Next(h[k])
      BY <1>7, <1>8, <3>1
    <3> QED BY <2>2, <3>1, <3>2
  <2> HIDE DEF U
  <2> QED BY <2>1, <2>2, Upwards
<1>10. g[n] = h[n] /\ h[n + 1] = Next(h[n])
  <2>1. n \in U /\ n + 1 \in 1 .. n + 1 /\ (n + 1) - 1 = n
    BY <1>9
  <2> QED BY <1>8, <2>1
<1>11. Searched(source, tick, n + 1) = Next(Searched(source, tick, n))
  BY <1>4, <1>5, <1>10
<1> QED BY <1>3, <1>6, <1>11 DEF Next

\* One turn more of the search for a stage.
RpLocates(sources, ordinal, g, n) == g = [k \in 0 .. n |-> IF k = 0 THEN [low |-> 1, high |-> Len(sources)] ELSE Narrowed(sources, ordinal, g[k - 1])]

\* There is such a function for the search for a stage.
LEMMA RpLocatesExists ==
  ASSUME NEW sources, NEW ordinal, NEW n \in Nat
  PROVE  \E g : RpLocates(sources, ordinal, g, n)
<1> DEFINE T == {m \in Nat : \E g : RpLocates(sources, ordinal, g, m)}
<1>1. 0 \in T
  <2>1. RpLocates(sources, ordinal, [k \in 0 .. 0 |-> [low |-> 1, high |-> Len(sources)]], 0)
    BY DEF RpLocates
  <2> QED BY <2>1
<1>2. ASSUME NEW m \in 0 .. n - 1, m \in T PROVE m + 1 \in T
  <2>1. PICK g : RpLocates(sources, ordinal, g, m)
    BY <1>2
  <2> DEFINE Next(x) == Narrowed(sources, ordinal, x)
             h == [k \in 0 .. m + 1 |-> IF k = m + 1 THEN Next(g[m]) ELSE g[k]]
  <2>2. g = [k \in 0 .. m |-> IF k = 0 THEN [low |-> 1, high |-> Len(sources)] ELSE Next(g[k - 1])]
    BY <2>1 DEF RpLocates
  <2> HIDE DEF Next
  <2>3. ASSUME NEW k \in 0 .. m + 1 PROVE h[k] = IF k = 0 THEN [low |-> 1, high |-> Len(sources)] ELSE Next(h[k - 1])
    <3>1. CASE k = m + 1
      BY <3>1
    <3>2. CASE k # m + 1
      <4>1. k \in 0 .. m /\ h[k] = g[k] /\ (k # 0 => h[k - 1] = g[k - 1])
        BY <3>2
      <4>2. g[k] = IF k = 0 THEN [low |-> 1, high |-> Len(sources)] ELSE Next(g[k - 1])
        BY <2>2, <4>1
      <4> QED BY <4>1, <4>2
    <3> QED BY <3>1, <3>2
  <2>4. h = [k \in 0 .. m + 1 |-> h[k]]
    OBVIOUS
  <2> HIDE DEF h
  <2>5. [k \in 0 .. m + 1 |-> h[k]] = [k \in 0 .. m + 1 |-> IF k = 0 THEN [low |-> 1, high |-> Len(sources)] ELSE Next(h[k - 1])]
    BY <2>3
  <2>6. RpLocates(sources, ordinal, h, m + 1)
    BY <2>4, <2>5 DEF RpLocates, Next
  <2> QED BY <2>6
<1> HIDE DEF T
<1>3. 0 .. n \subseteq T
  BY <1>1, <1>2, Upwards
<1>4. n \in T
  BY <1>3
<1> QED BY <1>4 DEF T

\* One turn more of the search for a stage.
LEMMA LocatedGrows ==
  ASSUME NEW sources, NEW ordinal, NEW n \in Nat
  PROVE  Located(sources, ordinal, 0) = [low |-> 1, high |-> Len(sources)] /\ Located(sources, ordinal, n + 1) = Narrowed(sources, ordinal, Located(sources, ordinal, n))
<1> DEFINE g == CHOOSE g : RpLocates(sources, ordinal, g, n)
           h == CHOOSE h : RpLocates(sources, ordinal, h, n + 1)
           z == CHOOSE z : RpLocates(sources, ordinal, z, 0)
<1>2. RpLocates(sources, ordinal, g, n) /\ RpLocates(sources, ordinal, h, n + 1) /\ RpLocates(sources, ordinal, z, 0)
  BY RpLocatesExists
<1>3. Located(sources, ordinal, 0) = z[0]
  BY DEF Located, RpLocates
<1>4. Located(sources, ordinal, n) = g[n]
  BY DEF Located, RpLocates
<1>5. Located(sources, ordinal, n + 1) = h[n + 1]
  BY DEF Located, RpLocates
<1> DEFINE Next(x) == Narrowed(sources, ordinal, x)
<1> HIDE DEF g, h, z
<1>6. /\ g = [k \in 0 .. n |-> IF k = 0 THEN [low |-> 1, high |-> Len(sources)] ELSE Next(g[k - 1])]
      /\ h = [k \in 0 .. n + 1 |-> IF k = 0 THEN [low |-> 1, high |-> Len(sources)] ELSE Next(h[k - 1])]
      /\ z[0] = [low |-> 1, high |-> Len(sources)]
  BY <1>2 DEF RpLocates
<1> HIDE DEF Next
<1>7. g[0] = [low |-> 1, high |-> Len(sources)] /\ \A k \in 1 .. n : g[k] = Next(g[k - 1])
  BY <1>6
<1>8. h[0] = [low |-> 1, high |-> Len(sources)] /\ \A k \in 1 .. n + 1 : h[k] = Next(h[k - 1])
  BY <1>6
<1> DEFINE U == {k \in 0 .. n : g[k] = h[k]}
<1>9. 0 .. n \subseteq U
  <2>1. 0 \in U
    BY <1>7, <1>8
  <2>2. ASSUME NEW k \in 0 .. n - 1, k \in U PROVE k + 1 \in U
    <3>1. k + 1 \in 1 .. n /\ k + 1 \in 1 .. n + 1 /\ (k + 1) - 1 = k /\ k + 1 \in 0 .. n
      OBVIOUS
    <3>2. g[k + 1] = Next(g[k]) /\ h[k + 1] = Next(h[k])
      BY <1>7, <1>8, <3>1
    <3> QED BY <2>2, <3>1, <3>2
  <2> HIDE DEF U
  <2> QED BY <2>1, <2>2, Upwards
<1>10. g[n] = h[n] /\ h[n + 1] = Next(h[n])
  <2>1. n \in U /\ n + 1 \in 1 .. n + 1 /\ (n + 1) - 1 = n
    BY <1>9
  <2> QED BY <1>8, <2>1
<1>11. Located(sources, ordinal, n + 1) = Next(Located(sources, ordinal, n))
  BY <1>4, <1>5, <1>10
<1> QED BY <1>3, <1>6, <1>11 DEF Next

\* One frame more on the way to one.
RpGoes(sources, first, g, n) == g = [k \in 0 .. n |-> IF k = 0 THEN first ELSE Onward(sources, g[k - 1])]

\* There is such a function for the way to a frame.
LEMMA RpGoesExists ==
  ASSUME NEW sources, NEW first, NEW n \in Nat
  PROVE  \E g : RpGoes(sources, first, g, n)
<1> DEFINE T == {m \in Nat : \E g : RpGoes(sources, first, g, m)}
<1>1. 0 \in T
  <2>1. RpGoes(sources, first, [k \in 0 .. 0 |-> first], 0)
    BY DEF RpGoes
  <2> QED BY <2>1
<1>2. ASSUME NEW m \in 0 .. n - 1, m \in T PROVE m + 1 \in T
  <2>1. PICK g : RpGoes(sources, first, g, m)
    BY <1>2
  <2> DEFINE Next(x) == Onward(sources, x)
             h == [k \in 0 .. m + 1 |-> IF k = m + 1 THEN Next(g[m]) ELSE g[k]]
  <2>2. g = [k \in 0 .. m |-> IF k = 0 THEN first ELSE Next(g[k - 1])]
    BY <2>1 DEF RpGoes
  <2> HIDE DEF Next
  <2>3. ASSUME NEW k \in 0 .. m + 1 PROVE h[k] = IF k = 0 THEN first ELSE Next(h[k - 1])
    <3>1. CASE k = m + 1
      BY <3>1
    <3>2. CASE k # m + 1
      <4>1. k \in 0 .. m /\ h[k] = g[k] /\ (k # 0 => h[k - 1] = g[k - 1])
        BY <3>2
      <4>2. g[k] = IF k = 0 THEN first ELSE Next(g[k - 1])
        BY <2>2, <4>1
      <4> QED BY <4>1, <4>2
    <3> QED BY <3>1, <3>2
  <2>4. h = [k \in 0 .. m + 1 |-> h[k]]
    OBVIOUS
  <2> HIDE DEF h
  <2>5. [k \in 0 .. m + 1 |-> h[k]] = [k \in 0 .. m + 1 |-> IF k = 0 THEN first ELSE Next(h[k - 1])]
    BY <2>3
  <2>6. RpGoes(sources, first, h, m + 1)
    BY <2>4, <2>5 DEF RpGoes, Next
  <2> QED BY <2>6
<1> HIDE DEF T
<1>3. 0 .. n \subseteq T
  BY <1>1, <1>2, Upwards
<1>4. n \in T
  BY <1>3
<1> QED BY <1>4 DEF T

\* One turn more of the way to a frame.
LEMMA OnwardsGrows ==
  ASSUME NEW sources, NEW first, NEW n \in Nat
  PROVE  Onwards(sources, first, 0) = first /\ Onwards(sources, first, n + 1) = Onward(sources, Onwards(sources, first, n))
<1> DEFINE g == CHOOSE g : RpGoes(sources, first, g, n)
           h == CHOOSE h : RpGoes(sources, first, h, n + 1)
           z == CHOOSE z : RpGoes(sources, first, z, 0)
<1>2. RpGoes(sources, first, g, n) /\ RpGoes(sources, first, h, n + 1) /\ RpGoes(sources, first, z, 0)
  BY RpGoesExists
<1>3. Onwards(sources, first, 0) = z[0]
  BY DEF Onwards, RpGoes
<1>4. Onwards(sources, first, n) = g[n]
  BY DEF Onwards, RpGoes
<1>5. Onwards(sources, first, n + 1) = h[n + 1]
  BY DEF Onwards, RpGoes
<1> DEFINE Next(x) == Onward(sources, x)
<1> HIDE DEF g, h, z
<1>6. /\ g = [k \in 0 .. n |-> IF k = 0 THEN first ELSE Next(g[k - 1])]
      /\ h = [k \in 0 .. n + 1 |-> IF k = 0 THEN first ELSE Next(h[k - 1])]
      /\ z[0] = first
  BY <1>2 DEF RpGoes
<1> HIDE DEF Next
<1>7. g[0] = first /\ \A k \in 1 .. n : g[k] = Next(g[k - 1])
  BY <1>6
<1>8. h[0] = first /\ \A k \in 1 .. n + 1 : h[k] = Next(h[k - 1])
  BY <1>6
<1> DEFINE U == {k \in 0 .. n : g[k] = h[k]}
<1>9. 0 .. n \subseteq U
  <2>1. 0 \in U
    BY <1>7, <1>8
  <2>2. ASSUME NEW k \in 0 .. n - 1, k \in U PROVE k + 1 \in U
    <3>1. k + 1 \in 1 .. n /\ k + 1 \in 1 .. n + 1 /\ (k + 1) - 1 = k /\ k + 1 \in 0 .. n
      OBVIOUS
    <3>2. g[k + 1] = Next(g[k]) /\ h[k + 1] = Next(h[k])
      BY <1>7, <1>8, <3>1
    <3> QED BY <2>2, <3>1, <3>2
  <2> HIDE DEF U
  <2> QED BY <2>1, <2>2, Upwards
<1>10. g[n] = h[n] /\ h[n + 1] = Next(h[n])
  <2>1. n \in U /\ n + 1 \in 1 .. n + 1 /\ (n + 1) - 1 = n
    BY <1>9
  <2> QED BY <1>8, <2>1
<1>11. Onwards(sources, first, n + 1) = Next(Onwards(sources, first, n))
  BY <1>4, <1>5, <1>10
<1> QED BY <1>3, <1>6, <1>11 DEF Next

\* One frame more of the play.
RpPlaysOn(sources, shown, g, n) == g = [k \in 0 .. n |-> IF k = 0 THEN shown ELSE RpStep(sources, g[k - 1])]

\* There is such a function for the play of some ticks.
LEMMA RpPlaysOnExists ==
  ASSUME NEW sources, NEW shown, NEW n \in Nat
  PROVE  \E g : RpPlaysOn(sources, shown, g, n)
<1> DEFINE T == {m \in Nat : \E g : RpPlaysOn(sources, shown, g, m)}
<1>1. 0 \in T
  <2>1. RpPlaysOn(sources, shown, [k \in 0 .. 0 |-> shown], 0)
    BY DEF RpPlaysOn
  <2> QED BY <2>1
<1>2. ASSUME NEW m \in 0 .. n - 1, m \in T PROVE m + 1 \in T
  <2>1. PICK g : RpPlaysOn(sources, shown, g, m)
    BY <1>2
  <2> DEFINE Next(x) == RpStep(sources, x)
             h == [k \in 0 .. m + 1 |-> IF k = m + 1 THEN Next(g[m]) ELSE g[k]]
  <2>2. g = [k \in 0 .. m |-> IF k = 0 THEN shown ELSE Next(g[k - 1])]
    BY <2>1 DEF RpPlaysOn
  <2> HIDE DEF Next
  <2>3. ASSUME NEW k \in 0 .. m + 1 PROVE h[k] = IF k = 0 THEN shown ELSE Next(h[k - 1])
    <3>1. CASE k = m + 1
      BY <3>1
    <3>2. CASE k # m + 1
      <4>1. k \in 0 .. m /\ h[k] = g[k] /\ (k # 0 => h[k - 1] = g[k - 1])
        BY <3>2
      <4>2. g[k] = IF k = 0 THEN shown ELSE Next(g[k - 1])
        BY <2>2, <4>1
      <4> QED BY <4>1, <4>2
    <3> QED BY <3>1, <3>2
  <2>4. h = [k \in 0 .. m + 1 |-> h[k]]
    OBVIOUS
  <2> HIDE DEF h
  <2>5. [k \in 0 .. m + 1 |-> h[k]] = [k \in 0 .. m + 1 |-> IF k = 0 THEN shown ELSE Next(h[k - 1])]
    BY <2>3
  <2>6. RpPlaysOn(sources, shown, h, m + 1)
    BY <2>4, <2>5 DEF RpPlaysOn, Next
  <2> QED BY <2>6
<1> HIDE DEF T
<1>3. 0 .. n \subseteq T
  BY <1>1, <1>2, Upwards
<1>4. n \in T
  BY <1>3
<1> QED BY <1>4 DEF T

\* One turn more of the play of some ticks.
LEMMA AdvancedGrows ==
  ASSUME NEW sources, NEW shown, NEW n \in Nat
  PROVE  Advanced(sources, shown, 0) = shown /\ Advanced(sources, shown, n + 1) = RpStep(sources, Advanced(sources, shown, n))
<1> DEFINE g == CHOOSE g : RpPlaysOn(sources, shown, g, n)
           h == CHOOSE h : RpPlaysOn(sources, shown, h, n + 1)
           z == CHOOSE z : RpPlaysOn(sources, shown, z, 0)
<1>2. RpPlaysOn(sources, shown, g, n) /\ RpPlaysOn(sources, shown, h, n + 1) /\ RpPlaysOn(sources, shown, z, 0)
  BY RpPlaysOnExists
<1>3. Advanced(sources, shown, 0) = z[0]
  BY DEF Advanced, RpPlaysOn
<1>4. Advanced(sources, shown, n) = g[n]
  BY DEF Advanced, RpPlaysOn
<1>5. Advanced(sources, shown, n + 1) = h[n + 1]
  BY DEF Advanced, RpPlaysOn
<1> DEFINE Next(x) == RpStep(sources, x)
<1> HIDE DEF g, h, z
<1>6. /\ g = [k \in 0 .. n |-> IF k = 0 THEN shown ELSE Next(g[k - 1])]
      /\ h = [k \in 0 .. n + 1 |-> IF k = 0 THEN shown ELSE Next(h[k - 1])]
      /\ z[0] = shown
  BY <1>2 DEF RpPlaysOn
<1> HIDE DEF Next
<1>7. g[0] = shown /\ \A k \in 1 .. n : g[k] = Next(g[k - 1])
  BY <1>6
<1>8. h[0] = shown /\ \A k \in 1 .. n + 1 : h[k] = Next(h[k - 1])
  BY <1>6
<1> DEFINE U == {k \in 0 .. n : g[k] = h[k]}
<1>9. 0 .. n \subseteq U
  <2>1. 0 \in U
    BY <1>7, <1>8
  <2>2. ASSUME NEW k \in 0 .. n - 1, k \in U PROVE k + 1 \in U
    <3>1. k + 1 \in 1 .. n /\ k + 1 \in 1 .. n + 1 /\ (k + 1) - 1 = k /\ k + 1 \in 0 .. n
      OBVIOUS
    <3>2. g[k + 1] = Next(g[k]) /\ h[k + 1] = Next(h[k])
      BY <1>7, <1>8, <3>1
    <3> QED BY <2>2, <3>1, <3>2
  <2> HIDE DEF U
  <2> QED BY <2>1, <2>2, Upwards
<1>10. g[n] = h[n] /\ h[n + 1] = Next(h[n])
  <2>1. n \in U /\ n + 1 \in 1 .. n + 1 /\ (n + 1) - 1 = n
    BY <1>9
  <2> QED BY <1>8, <2>1
<1>11. Advanced(sources, shown, n + 1) = Next(Advanced(sources, shown, n))
  BY <1>4, <1>5, <1>10
<1> QED BY <1>3, <1>6, <1>11 DEF Next

RpRun == [input : RpInputs, ticks : Nat]
RpRunLists == Seq(RpRun)
RpCanon == Seq([input : RpInputs, ticks : Nat \ {0}])
RpFed == Seq(RpInputs)
Ticks(run) == [i \in 1 .. run.ticks |-> run.input]

\* A run stands for its input, as many times as it has ticks.
LEMMA RpTicked ==
  ASSUME NEW run \in RpRun
  PROVE  Ticks(run) \in RpFed /\ Len(Ticks(run)) = run.ticks /\ \A i \in 1 .. run.ticks : Ticks(run)[i] = run.input
<1>1. run.ticks \in Nat /\ run.input \in RpInputs
  BY DEF RpRun
<1>2. Ticks(run) \in [1 .. run.ticks -> RpInputs]
  BY <1>1 DEF Ticks
<1>3. Ticks(run) \in Seq(RpInputs)
  BY <1>1, <1>2, SeqDef
<1>4. Len(Ticks(run)) = run.ticks
  BY <1>1 DEF Ticks
<1> QED BY <1>1, <1>3, <1>4 DEF Ticks, RpFed

\* What runs stand for is inputs, run after run.
LEMMA RpExpands ==
  ASSUME NEW runs \in RpRunLists, NEW run \in RpRun
  PROVE  /\ Expanded(<<>>) = <<>> /\ Expanded(runs) \in RpFed
         /\ Expanded(Append(runs, run)) = Expanded(runs) \o Ticks(run)
<1> DEFINE T == {s \in RpRunLists : Expanded(s) \in RpFed}
<1>1. ASSUME NEW s \in RpRunLists, NEW e \in RpRun
      PROVE  Expanded(<<>>) = <<>> /\ Expanded(Append(s, e)) = Expanded(s) \o Ticks(e)
  BY ExpandedGrows DEF Ticks, RpRunLists
<1>2. Seq(RpRun) \subseteq T
  <2>1. <<>> \in T
    BY <1>1, EmptySeq DEF RpRunLists, RpFed
  <2>2. ASSUME NEW s \in Seq(RpRun), NEW e \in RpRun, s \in T PROVE Append(s, e) \in T
    <3>1. Expanded(s) \in RpFed /\ Ticks(e) \in RpFed
      BY <2>2, RpTicked
    <3>2. Expanded(s) \o Ticks(e) \in RpFed
      BY <3>1, ConcatProperties DEF RpFed
    <3>3. Append(s, e) \in RpRunLists
      BY AppendProperties DEF RpRunLists
    <3> QED BY <1>1, <3>2, <3>3 DEF RpRunLists
  <2> HIDE DEF T
  <2> QED BY <2>1, <2>2, Growing
<1> QED BY <1>1, <1>2 DEF RpRunLists

\* A run joined to the one before it.
Joined(last, run) == [input |-> last.input, ticks |-> last.ticks + run.ticks]

\* Two runs of one input are the run of both their ticks.
LEMMA RpJoined ==
  ASSUME NEW last \in RpRun, NEW run \in RpRun, last.input = run.input
  PROVE  Joined(last, run) \in RpRun /\ Ticks(Joined(last, run)) = Ticks(last) \o Ticks(run)
<1> DEFINE j == Joined(last, run)
<1>1. /\ last.ticks \in Nat /\ run.ticks \in Nat /\ last.input \in RpInputs
      /\ j.input = last.input /\ j.ticks = last.ticks + run.ticks /\ j \in RpRun
  BY DEF RpRun, Joined
<1>2. Ticks(last) \in RpFed /\ Ticks(run) \in RpFed /\ Ticks(j) \in RpFed
  BY <1>1, RpTicked
<1>3. /\ Len(Ticks(last)) = last.ticks /\ Len(Ticks(run)) = run.ticks /\ Len(Ticks(j)) = last.ticks + run.ticks
      /\ \A i \in 1 .. last.ticks : Ticks(last)[i] = last.input
      /\ \A i \in 1 .. run.ticks : Ticks(run)[i] = last.input
      /\ \A i \in 1 .. last.ticks + run.ticks : Ticks(j)[i] = last.input
  BY <1>1, RpTicked
<1> DEFINE c == Ticks(last) \o Ticks(run)
<1>4. /\ c \in RpFed /\ Len(c) = last.ticks + run.ticks
      /\ \A i \in 1 .. last.ticks + run.ticks :
           c[i] = IF i <= last.ticks THEN Ticks(last)[i] ELSE Ticks(run)[i - last.ticks]
  BY <1>2, <1>3, ConcatProperties DEF RpFed
<1> HIDE DEF c, j
<1>5. ASSUME NEW i \in 1 .. last.ticks + run.ticks PROVE c[i] = Ticks(j)[i]
  <2>1. CASE i <= last.ticks
    <3>1. i \in 1 .. last.ticks
      BY <1>1, <2>1
    <3> QED BY <1>3, <1>4, <2>1, <3>1
  <2>2. CASE ~ (i <= last.ticks)
    <3>1. i - last.ticks \in 1 .. run.ticks
      BY <1>1, <2>2
    <3> QED BY <1>3, <1>4, <2>2, <3>1
  <2> QED BY <2>1, <2>2
<1>6. Ticks(j) = c
  BY <1>2, <1>3, <1>4, <1>5, SeqEqual DEF RpFed
<1> QED BY <1>1, <1>6 DEF c, j

\* What appendCanonicalRun makes of a list that has a last run.
LEMMA RpAppends ==
  ASSUME NEW R, R \subseteq RpRun, NEW front \in Seq(R), NEW last \in R, NEW run \in RpRun
  PROVE  AppendRun(Append(front, last), run) =
           IF last.input = run.input THEN Append(front, Joined(last, run)) ELSE Append(Append(front, last), run)
<1> DEFINE runs == Append(front, last)
           n == Len(front)
<1>1. /\ runs \in Seq(RpRun) /\ runs # <<>> /\ Len(runs) = n + 1 /\ n \in Nat /\ front \in Seq(RpRun)
      /\ \A k \in 1 .. n : runs[k] = front[k]
      /\ runs[n + 1] = last
  <2>1. front \in Seq(RpRun) /\ last \in RpRun
    BY SeqMonotonic
  <2> QED BY <2>1, AppendProperties, LenProperties
<1>2. Last(runs) = last
  BY <1>1 DEF Last
<1>3. CASE last.input = run.input
  <2> DEFINE e == [runs EXCEPT ![n + 1].ticks = @ + run.ticks]
             j == Joined(last, run)
             f == Append(front, j)
  <2>0. last \in RpRun
    OBVIOUS
  <2>1. j \in RpRun
    BY <1>3, <2>0, RpJoined
  <2>2. [last EXCEPT !.ticks = @ + run.ticks] = j
    BY <2>0 DEF Joined, RpRun
  <2>3. e = [runs EXCEPT ![n + 1] = j]
    BY <1>1, <2>2
  <2> HIDE DEF j, runs
  <2>4. e \in Seq(RpRun) /\ Len(e) = n + 1 /\ \A k \in 1 .. n + 1 : e[k] = IF k = n + 1 THEN j ELSE runs[k]
    <3>1. n + 1 \in 1 .. Len(runs)
      BY <1>1
    <3> QED BY <1>1, <2>1, <2>3, <3>1, ExceptSeq
  <2>5. f \in Seq(RpRun) /\ Len(f) = n + 1 /\ f[n + 1] = j /\ \A k \in 1 .. n : f[k] = front[k]
    BY <1>1, <2>1, AppendProperties
  <2> HIDE DEF e, f
  <2>6. ASSUME NEW k \in 1 .. n + 1 PROVE e[k] = f[k]
    <3>1. CASE k = n + 1
      BY <1>1, <2>4, <2>5, <3>1
    <3>2. CASE k # n + 1
      <4>1. k \in 1 .. n
        BY <1>1, <3>2
      <4> QED BY <1>1, <2>4, <2>5, <3>2, <4>1
    <3> QED BY <3>1, <3>2
  <2>7. e = f
    BY <2>4, <2>5, <2>6, SeqEqual
  <2>8. AppendRun(runs, run) = e
    BY <1>1, <1>2, <1>3 DEF AppendRun, e
  <2> QED BY <1>3, <2>7, <2>8 DEF f, j, runs
<1>4. CASE last.input # run.input
  BY <1>1, <1>2, <1>4 DEF AppendRun
<1> QED BY <1>3, <1>4

\* One more run in its canonical form stands for the inputs and one run more.
LEMMA RpAppended ==
  ASSUME NEW runs \in RpRunLists, NEW run \in RpRun
  PROVE  /\ AppendRun(runs, run) \in RpRunLists /\ AppendRun(runs, run) # <<>>
         /\ Expanded(AppendRun(runs, run)) = Expanded(runs) \o Ticks(run)
         /\ runs \in RpCanon /\ run.ticks >= 1 => AppendRun(runs, run) \in RpCanon
<1> DEFINE C == [input : RpInputs, ticks : Nat \ {0}]
<1>0. C \subseteq RpRun
  BY DEF RpRun
<1>1. CASE runs = <<>>
  <2>1. AppendRun(runs, run) = Append(runs, run)
    BY <1>1 DEF AppendRun
  <2>2. run.ticks >= 1 => run \in C
    BY DEF RpRun
  <2>3. Append(runs, run) \in RpRunLists /\ Append(runs, run) # <<>>
    BY AppendProperties DEF RpRunLists
  <2>4. runs \in RpCanon /\ run.ticks >= 1 => Append(runs, run) \in RpCanon
    <3> HIDE DEF C
    <3>1. RpCanon = Seq(C)
      BY DEF RpCanon, C
    <3> QED BY <2>2, <3>1, AppendProperties
  <2> QED BY <2>1, <2>3, <2>4, RpExpands
<1>2. CASE runs # <<>>
  <2>1. PICK front \in Seq(RpRun), last \in RpRun : runs = Append(front, last)
    BY <1>2, SequenceEmptyOrAppend DEF RpRunLists
  <2>2. AppendRun(runs, run) =
           IF last.input = run.input THEN Append(front, Joined(last, run)) ELSE Append(runs, run)
    BY <2>1, RpAppends
  <2>3. Expanded(runs) = Expanded(front) \o Ticks(last) /\ Expanded(front) \in RpFed
    BY <2>1, RpExpands DEF RpRunLists
  <2>4. Ticks(last) \in RpFed /\ Ticks(run) \in RpFed
    BY RpTicked
  <2>5. ASSUME runs \in RpCanon PROVE front \in Seq(C) /\ last \in C
    <3> HIDE DEF C
    <3>1. runs \in Seq(C)
      BY <2>5 DEF RpCanon, C
    <3>2. PICK g \in Seq(C), y \in C : runs = Append(g, y)
      BY <1>2, <3>1, SequenceEmptyOrAppend
    <3>3. g \in Seq(RpRun) /\ y \in RpRun
      BY <1>0, SeqMonotonic
    <3>4. Append(front, last) = Append(g, y)
      BY <2>1, <3>2
    <3>5. front = g /\ last = y
      BY <3>3, <3>4, AppendInjective
    <3> QED BY <3>5
  <2>6. CASE last.input = run.input
    <3> DEFINE j == Joined(last, run)
    <3>1. j \in RpRun /\ Ticks(j) = Ticks(last) \o Ticks(run)
      BY <2>6, RpJoined
    <3>2. AppendRun(runs, run) = Append(front, j)
      BY <2>2, <2>6
    <3>3. last \in C => j \in C
      BY DEF Joined, RpRun
    <3> HIDE DEF j
    <3>4. Expanded(Append(front, j)) = Expanded(front) \o Ticks(j)
      BY <3>1, RpExpands DEF RpRunLists
    <3>5. Expanded(front) \o Ticks(j) = Expanded(runs) \o Ticks(run)
      BY <2>3, <2>4, <3>1, ConcatAssociative DEF RpFed
    <3>6. Append(front, j) \in RpRunLists /\ Append(front, j) # <<>>
      BY <3>1, AppendProperties DEF RpRunLists
    <3>7. ASSUME runs \in RpCanon PROVE Append(front, j) \in RpCanon
      <4> HIDE DEF C
      <4>1. Append(front, j) \in Seq(C)
        BY <2>5, <3>3, <3>7, AppendProperties
      <4> QED BY <4>1 DEF RpCanon, C
    <3> QED BY <3>2, <3>4, <3>5, <3>6, <3>7
  <2>7. CASE last.input # run.input
    <3>1. AppendRun(runs, run) = Append(runs, run)
      BY <2>2, <2>7
    <3>2. Append(runs, run) \in RpRunLists /\ Append(runs, run) # <<>>
      BY AppendProperties DEF RpRunLists
    <3>3. run.ticks >= 1 => run \in C
      BY DEF RpRun
    <3>4. runs \in RpCanon /\ run.ticks >= 1 => Append(runs, run) \in RpCanon
      <4> HIDE DEF C
      <4>1. RpCanon = Seq(C)
        BY DEF RpCanon, C
      <4> QED BY <3>3, <4>1, AppendProperties
    <3> QED BY <3>1, <3>2, <3>4, RpExpands
  <2> QED BY <2>6, <2>7
<1> QED BY <1>1, <1>2

\* Joining twice is joining once.
LEMMA RpAppendsTwice ==
  ASSUME NEW runs \in RpRunLists, NEW x \in RpInputs, NEW n \in Nat
  PROVE  AppendRun(AppendRun(runs, [input |-> x, ticks |-> n]), [input |-> x, ticks |-> 1])
           = AppendRun(runs, [input |-> x, ticks |-> n + 1])
<1> DEFINE a == [input |-> x, ticks |-> n]
           b == [input |-> x, ticks |-> 1]
           c == [input |-> x, ticks |-> n + 1]
<1>1. a \in RpRun /\ b \in RpRun /\ c \in RpRun /\ a.input = x /\ b.input = x /\ c.input = x /\ Joined(a, b) = c
  BY DEF RpRun, Joined
<1>2. \A front \in Seq(RpRun), last \in RpRun, run \in RpRun :
        AppendRun(Append(front, last), run) =
          IF last.input = run.input THEN Append(front, Joined(last, run)) ELSE Append(Append(front, last), run)
  <2>1. RpRun \subseteq RpRun
    OBVIOUS
  <2> QED BY <2>1, RpAppends
<1>3. ASSUME NEW last \in RpRun, last.input = x
      PROVE  /\ Joined(last, a) \in RpRun /\ Joined(last, a).input = x
             /\ Joined(Joined(last, a), b) = Joined(last, c)
  BY <1>3 DEF RpRun, Joined
<1> HIDE DEF a, b, c
<1>4. CASE runs = <<>>
  <2>1. AppendRun(runs, a) = Append(<<>>, a) /\ AppendRun(runs, c) = Append(<<>>, c)
    BY <1>4 DEF AppendRun
  <2>2. <<>> \in Seq(RpRun)
    BY EmptySeq
  <2>3. AppendRun(Append(<<>>, a), b) = Append(<<>>, c)
    BY <1>1, <1>2, <2>2
  <2> QED BY <2>1, <2>3 DEF a, b, c
<1>5. CASE runs # <<>>
  <2>1. PICK front \in Seq(RpRun), last \in RpRun : runs = Append(front, last)
    BY <1>5, SequenceEmptyOrAppend DEF RpRunLists
  <2>2. CASE last.input = x
    <3>1. AppendRun(runs, a) = Append(front, Joined(last, a)) /\ AppendRun(runs, c) = Append(front, Joined(last, c))
      BY <1>1, <1>2, <2>1, <2>2
    <3>2. AppendRun(Append(front, Joined(last, a)), b) = Append(front, Joined(Joined(last, a), b))
      <4> DEFINE j == Joined(last, a)
      <4>1. j \in RpRun /\ j.input = b.input
        BY <1>1, <1>3, <2>2
      <4> HIDE DEF j
      <4>2. AppendRun(Append(front, j), b) = Append(front, Joined(j, b))
        BY <1>1, <1>2, <2>1, <4>1
      <4> QED BY <4>2 DEF j
    <3>3. AppendRun(AppendRun(runs, a), b) = AppendRun(runs, c)
      BY <1>3, <2>2, <3>1, <3>2
    <3> QED BY <3>3 DEF a, b, c
  <2>3. CASE last.input # x
    <3>1. AppendRun(runs, a) = Append(runs, a) /\ AppendRun(runs, c) = Append(runs, c)
      BY <1>1, <1>2, <2>1, <2>3
    <3>2. AppendRun(Append(runs, a), b) = Append(runs, c)
      BY <1>1, <1>2 DEF RpRunLists
    <3>3. AppendRun(AppendRun(runs, a), b) = AppendRun(runs, c)
      BY <3>1, <3>2
    <3> QED BY <3>3 DEF a, b, c
  <2> QED BY <2>2, <2>3
<1> QED BY <1>4, <1>5

\* The recorder's runs are canonical and stand for what it recorded.
LEMMA RpEncoded ==
  ASSUME NEW s \in RpFed
  PROVE  /\ EncodeRuns(s) \in RpCanon /\ EncodeRuns(s) \in RpRunLists /\ Expanded(EncodeRuns(s)) = s
         /\ (s # <<>> => EncodeRuns(s) # <<>>) /\ EncodeRuns(<<>>) = <<>>
<1> DEFINE T == {q \in RpFed : /\ EncodeRuns(q) \in RpCanon /\ EncodeRuns(q) \in RpRunLists
                               /\ Expanded(EncodeRuns(q)) = q /\ (q # <<>> => EncodeRuns(q) # <<>>)}
<1>0. EncodeRuns(<<>>) = <<>>
  BY RpEncodesBegins
<1>1. ASSUME NEW q \in RpFed, NEW e \in RpInputs
      PROVE  EncodeRuns(Append(q, e)) = AppendRun(EncodeRuns(q), [input |-> e, ticks |-> 1])
  BY EncodeGrows DEF RpFed
<1>2. Seq(RpInputs) \subseteq T
  <2>1. <<>> \in T
    <3>1. <<>> \in RpFed /\ <<>> \in RpCanon /\ <<>> \in RpRunLists
      BY EmptySeq DEF RpFed, RpCanon, RpRunLists
    <3>2. Expanded(<<>>) = <<>>
      BY RpFeedsBegins
    <3> QED BY <1>0, <3>1, <3>2
  <2>2. ASSUME NEW q \in Seq(RpInputs), NEW e \in RpInputs, q \in T PROVE Append(q, e) \in T
    <3> DEFINE run == [input |-> e, ticks |-> 1]
    <3>1. run \in RpRun /\ run.ticks >= 1 /\ run.ticks = 1 /\ run.input = e
      BY DEF RpRun
    <3>2. Ticks(run) = <<e>>
      BY <3>1 DEF Ticks
    <3> HIDE DEF run
    <3>3. EncodeRuns(q) \in RpCanon /\ EncodeRuns(q) \in RpRunLists /\ Expanded(EncodeRuns(q)) = q
      BY <2>2
    <3>4. EncodeRuns(Append(q, e)) = AppendRun(EncodeRuns(q), run)
      BY <1>1 DEF run, RpFed
    <3>5. q \o <<e>> = Append(q, e)
      BY AppendIsConcat
    <3>6. Append(q, e) \in RpFed
      BY AppendProperties DEF RpFed
    <3>7. /\ EncodeRuns(Append(q, e)) \in RpCanon /\ EncodeRuns(Append(q, e)) \in RpRunLists
          /\ Expanded(EncodeRuns(Append(q, e))) = Append(q, e) /\ EncodeRuns(Append(q, e)) # <<>>
      BY <3>1, <3>2, <3>3, <3>4, <3>5, RpAppended
    <3> QED BY <3>6, <3>7
  <2> HIDE DEF T
  <2> QED BY <2>1, <2>2, Growing
<1> QED BY <1>0, <1>2 DEF RpFed

\* A run held for some ticks is encoded as that run.
LEMMA RpEncodesRun ==
  ASSUME NEW s \in RpFed, NEW run \in RpRun, run.ticks >= 1
  PROVE  EncodeRuns(s \o Ticks(run)) = AppendRun(EncodeRuns(s), run)
<1> DEFINE x == run.input
           Held(n) == [input |-> x, ticks |-> n + 1]
           m == run.ticks - 1
           T == {n \in Nat : EncodeRuns(s \o Ticks(Held(n))) = AppendRun(EncodeRuns(s), Held(n))}
<1>1. x \in RpInputs /\ m \in Nat /\ run = Held(m)
  BY DEF RpRun
<1>2. ASSUME NEW n \in Nat
      PROVE  /\ Held(n) \in RpRun /\ Ticks(Held(n)) \in RpFed
             /\ Ticks(Held(n + 1)) = Append(Ticks(Held(n)), x)
  <2>1. Held(n) \in RpRun /\ Held(n + 1) \in RpRun /\ Held(n).ticks = n + 1 /\ Held(n).input = x
        /\ Held(n + 1).ticks = n + 2 /\ Held(n + 1).input = x
    BY <1>1 DEF RpRun
  <2> HIDE DEF Held
  <2> DEFINE a == Ticks(Held(n))
             b == Ticks(Held(n + 1))
  <2>2. /\ a \in RpFed /\ Len(a) = n + 1 /\ \A i \in 1 .. n + 1 : a[i] = x
        /\ b \in RpFed /\ Len(b) = n + 2 /\ \A i \in 1 .. n + 2 : b[i] = x
    BY <2>1, RpTicked
  <2> HIDE DEF a, b
  <2>3. /\ Append(a, x) \in RpFed /\ Len(Append(a, x)) = n + 2
        /\ \A i \in 1 .. n + 1 : Append(a, x)[i] = a[i]
        /\ Append(a, x)[n + 2] = x
    <3>1. (n + 1) + 1 = n + 2
      OBVIOUS
    <3> QED BY <1>1, <2>2, <3>1, AppendProperties DEF RpFed
  <2>4. ASSUME NEW i \in 1 .. n + 2 PROVE Append(a, x)[i] = b[i]
    <3>1. i \in 1 .. n + 1 \/ i = n + 2
      OBVIOUS
    <3> QED BY <2>2, <2>3, <3>1
  <2>5. Append(a, x) = b
    BY <2>2, <2>3, <2>4, SeqEqual DEF RpFed
  <2> QED BY <2>1, <2>2, <2>5 DEF a, b
<1> HIDE DEF Held
<1>3. 0 .. m \subseteq T
  <2>1. ASSUME NEW q \in RpFed PROVE EncodeRuns(Append(q, x)) = AppendRun(EncodeRuns(q), [input |-> x, ticks |-> 1])
    BY <1>1, EncodeGrows DEF RpFed
  <2>2. 0 \in T
    <3>1. Ticks(Held(0)) = <<x>> /\ Held(0) = [input |-> x, ticks |-> 1]
      BY DEF Held, Ticks
    <3>2. s \o <<x>> = Append(s, x)
      BY <1>1, AppendIsConcat DEF RpFed
    <3> QED BY <2>1, <3>1, <3>2
  <2>3. ASSUME NEW n \in 0 .. m - 1, n \in T PROVE n + 1 \in T
    <3> DEFINE q == s \o Ticks(Held(n))
    <3>0. n \in Nat
      BY <1>1
    <3>1. q \in RpFed
      BY <1>2, <3>0, ConcatProperties DEF RpFed
    <3>2. s \o Ticks(Held(n + 1)) = Append(q, x)
      <4>1. Append(Ticks(Held(n)), x) = Ticks(Held(n)) \o <<x>> /\ Append(q, x) = q \o <<x>>
        BY <1>1, <1>2, <3>0, <3>1, AppendIsConcat DEF RpFed
      <4>2. <<x>> \in RpFed
        BY <1>1 DEF RpFed
      <4>3. q \o <<x>> = s \o (Ticks(Held(n)) \o <<x>>)
        <5>1. s \in Seq(RpInputs) /\ Ticks(Held(n)) \in Seq(RpInputs) /\ <<x>> \in Seq(RpInputs)
          BY <1>2, <3>0, <4>2 DEF RpFed
        <5> QED BY <5>1, ConcatAssociative
      <4> QED BY <1>2, <3>0, <4>1, <4>3
    <3>3. EncodeRuns(q) = AppendRun(EncodeRuns(s), Held(n))
      BY <2>3
    <3> HIDE DEF q
    <3>4. EncodeRuns(Append(q, x)) = AppendRun(AppendRun(EncodeRuns(s), Held(n)), [input |-> x, ticks |-> 1])
      BY <2>1, <3>1, <3>3
    <3>5. EncodeRuns(s) \in RpRunLists
      BY RpEncoded
    <3>6. n + 1 \in Nat /\ Held(n) = [input |-> x, ticks |-> n + 1]
          /\ Held(n + 1) = [input |-> x, ticks |-> (n + 1) + 1]
      BY <3>0 DEF Held
    <3>7. AppendRun(AppendRun(EncodeRuns(s), Held(n)), [input |-> x, ticks |-> 1]) = AppendRun(EncodeRuns(s), Held(n + 1))
      BY <1>1, <3>5, <3>6, RpAppendsTwice
    <3> QED BY <3>2, <3>4, <3>6, <3>7
  <2> HIDE DEF T
  <2> QED BY <1>1, <2>2, <2>3, Upwards
<1>4. m \in T
  BY <1>1, <1>3
<1> QED BY <1>1, <1>4

\* A stage that still runs before every one of these inputs.
GoesOn(stage, lives, s) == \A n \in 0 .. Len(s) - 1 : PfOutcome(stage, lives, SubSeq(s, 1, n)).status = "running"

\* ... and before one run more.
LEMMA RpGoesOn ==
  ASSUME NEW stage, NEW lives, NEW s \in RpFed, NEW run \in RpRun
  PROVE  GoesOn(stage, lives, s \o Ticks(run)) <=>
           /\ GoesOn(stage, lives, s)
           /\ \A n \in 0 .. run.ticks - 1 :
                PfOutcome(stage, lives, s \o [i \in 1 .. n |-> run.input]).status = "running"
<1> DEFINE t == s \o Ticks(run)
           m == Len(s)
<1>1. /\ Ticks(run) \in Seq(RpInputs) /\ s \in Seq(RpInputs) /\ run.ticks \in Nat /\ m \in Nat /\ run.input \in RpInputs
      /\ Len(Ticks(run)) = run.ticks /\ \A i \in 1 .. run.ticks : Ticks(run)[i] = run.input
  BY RpTicked, LenProperties DEF RpFed, RpRun
<1>2. /\ t \in Seq(RpInputs) /\ Len(t) = m + run.ticks
      /\ \A i \in 1 .. m + run.ticks : t[i] = IF i <= m THEN s[i] ELSE Ticks(run)[i - m]
  BY <1>1, ConcatProperties
<1> HIDE DEF t
<1>3. ASSUME NEW n \in 0 .. m PROVE SubSeq(t, 1, n) = SubSeq(s, 1, n)
  <2>1. /\ SubSeq(s, 1, n) \in Seq(RpInputs) /\ Len(SubSeq(s, 1, n)) = n
        /\ \A i \in 1 .. n : SubSeq(s, 1, n)[i] = s[i]
    <3>1. \A i \in 1 .. n : s[i] \in RpInputs
      BY <1>1, ElementOfSeq
    <3> QED BY <1>1, <3>1, SubSeqProperties
  <2>2. /\ SubSeq(t, 1, n) \in Seq(RpInputs) /\ Len(SubSeq(t, 1, n)) = n
        /\ \A i \in 1 .. n : SubSeq(t, 1, n)[i] = t[i]
    <3>1. \A i \in 1 .. n : t[i] \in RpInputs
      BY <1>1, <1>2, ElementOfSeq
    <3> QED BY <1>1, <3>1, SubSeqProperties
  <2>3. ASSUME NEW i \in 1 .. n PROVE t[i] = s[i]
    <3>1. i \in 1 .. m + run.ticks /\ i <= m
      BY <1>1
    <3> QED BY <1>2, <3>1
  <2> DEFINE a == SubSeq(t, 1, n)
             b == SubSeq(s, 1, n)
  <2>4. a \in Seq(RpInputs) /\ b \in Seq(RpInputs) /\ Len(a) = n /\ Len(b) = n /\ \A i \in 1 .. n : a[i] = b[i]
    BY <2>1, <2>2, <2>3
  <2> HIDE DEF a, b
  <2>5. a = b
    BY <2>4, SeqEqual
  <2> QED BY <2>5 DEF a, b
<1>4. ASSUME NEW n \in 0 .. run.ticks PROVE SubSeq(t, 1, m + n) = s \o [i \in 1 .. n |-> run.input]
  <2> DEFINE a == SubSeq(t, 1, m + n)
             r == [i \in 1 .. n |-> run.input]
             b == s \o r
  <2>1. a \in Seq(RpInputs) /\ Len(a) = m + n /\ \A i \in 1 .. m + n : a[i] = t[i]
    <3>1. \A i \in 1 .. m + n : t[i] \in RpInputs
      BY <1>1, <1>2, ElementOfSeq
    <3> QED BY <1>1, <3>1, SubSeqProperties
  <2>2. r \in Seq(RpInputs) /\ Len(r) = n /\ \A i \in 1 .. n : r[i] = run.input
    <3>1. r \in [1 .. n -> RpInputs] /\ n \in Nat
      BY <1>1
    <3> QED BY <3>1, SeqDef
  <2> HIDE DEF r
  <2>3. b \in Seq(RpInputs) /\ Len(b) = m + n /\ \A i \in 1 .. m + n : b[i] = IF i <= m THEN s[i] ELSE r[i - m]
    BY <1>1, <2>2, ConcatProperties
  <2> HIDE DEF a, b
  <2>4. ASSUME NEW i \in 1 .. m + n PROVE a[i] = b[i]
    <3>1. CASE i <= m
      <4>1. i \in 1 .. m + run.ticks
        BY <1>1
      <4> QED BY <1>2, <2>1, <2>3, <3>1, <4>1
    <3>2. CASE ~ (i <= m)
      <4>1. i - m \in 1 .. n /\ i - m \in 1 .. run.ticks /\ i \in 1 .. m + run.ticks
        BY <1>1, <3>2
      <4> QED BY <1>1, <1>2, <2>1, <2>2, <2>3, <3>2, <4>1
    <3> QED BY <3>1, <3>2
  <2>5. a = b
    BY <2>1, <2>3, <2>4, SeqEqual
  <2> QED BY <2>5 DEF a, b, r
<1> DEFINE Runs(q) == PfOutcome(stage, lives, q).status = "running"
<1>5. ASSUME \A n \in 0 .. Len(t) - 1 : Runs(SubSeq(t, 1, n))
      PROVE  /\ \A n \in 0 .. m - 1 : Runs(SubSeq(s, 1, n))
             /\ \A n \in 0 .. run.ticks - 1 : Runs(s \o [i \in 1 .. n |-> run.input])
  <2> HIDE DEF Runs
  <2>1. ASSUME NEW n \in 0 .. m - 1 PROVE Runs(SubSeq(s, 1, n))
    <3>1. n \in 0 .. m /\ n \in 0 .. Len(t) - 1
      BY <1>1, <1>2
    <3> QED BY <1>3, <1>5, <3>1
  <2>2. ASSUME NEW n \in 0 .. run.ticks - 1 PROVE Runs(s \o [i \in 1 .. n |-> run.input])
    <3>1. n \in 0 .. run.ticks /\ m + n \in 0 .. Len(t) - 1
      BY <1>1, <1>2
    <3> QED BY <1>4, <1>5, <3>1
  <2> QED BY <2>1, <2>2
<1>6. ASSUME \A n \in 0 .. m - 1 : Runs(SubSeq(s, 1, n)),
             \A n \in 0 .. run.ticks - 1 : Runs(s \o [i \in 1 .. n |-> run.input]),
             NEW n \in 0 .. Len(t) - 1
      PROVE  Runs(SubSeq(t, 1, n))
  <2> HIDE DEF Runs
  <2>1. CASE n < m
    <3>1. n \in 0 .. m /\ n \in 0 .. m - 1
      BY <1>1, <2>1
    <3> QED BY <1>3, <1>6, <3>1
  <2>2. CASE ~ (n < m)
    <3>1. n - m \in 0 .. run.ticks - 1 /\ n - m \in 0 .. run.ticks /\ m + (n - m) = n
      BY <1>1, <1>2, <2>2
    <3> QED BY <1>4, <1>6, <3>1
  <2> QED BY <2>1, <2>2
<1> QED BY <1>5, <1>6 DEF GoesOn, t

-----------------------------------------------------------------------------
(* The ranked verifier                                                     *)

RpEngines == [stage : Nat, lives : 0 .. PfLives, fed : RpFed]
RpStage == [id : Nat, runs : RpRunLists]
RpStages == Seq(RpStage)
RpVerifying ==
  [ok : BOOLEAN, engine : RpEngines, last : {"none", "won", "lost"}, stages : RpStages, runs : Nat,
   ticks : 0 .. PfMaxTotalTicks, cleared : Nat, lives : 0 .. PfLives, canonical : RpRunLists]

\* What the runs of a stage must be: a tick each, within the limits, of a
\* stage that goes on.
AllTicked(runs) == \A k \in 1 .. Len(runs) : runs[k].ticks >= 1
RunsPass(v, runs) ==
  /\ AllTicked(runs) /\ Len(Expanded(runs)) <= PfMaxStageTicks
  /\ v.ticks + Len(Expanded(runs)) <= PfMaxTotalTicks
  /\ GoesOn(v.engine.stage, v.engine.lives, Expanded(runs))

\* ... and what the verifier is left with then.
RunsLeave(v, runs, w) ==
  /\ w.engine = [stage |-> v.engine.stage, lives |-> v.engine.lives, fed |-> Expanded(runs)]
  /\ w.ticks = v.ticks + Len(Expanded(runs)) /\ w.canonical = EncodeRuns(Expanded(runs))
  /\ w.last = v.last /\ w.stages = v.stages /\ w.runs = v.runs /\ w.cleared = v.cleared /\ w.lives = v.lives

\* The limits are numbers; there are stages, lives and a history.
LEMMA RpLimits ==
  /\ PfStages \in Nat \ {0} /\ PfLives \in Nat \ {0} /\ RpHistory \in Nat \ {0}
  /\ PfMaxRuns \in Nat /\ PfMaxStageTicks \in Nat /\ PfMaxTotalTicks \in Nat
BY RpAssumption DEF RpAssumption

\* Every run of a longer list has a tick if all before it and the new one have.
LEMMA RpAllTicked ==
  ASSUME NEW runs \in RpRunLists, NEW run \in RpRun
  PROVE  AllTicked(Append(runs, run)) <=> AllTicked(runs) /\ run.ticks >= 1
<1> DEFINE t == Append(runs, run)
           m == Len(runs)
<1>1. Len(t) = m + 1 /\ m \in Nat /\ t[m + 1] = run /\ \A k \in 1 .. m : t[k] = runs[k]
  BY AppendProperties, LenProperties DEF RpRunLists
<1> HIDE DEF t
<1>2. ASSUME AllTicked(t) PROVE AllTicked(runs) /\ run.ticks >= 1
  <2>1. m + 1 \in 1 .. Len(t) /\ \A k \in 1 .. m : k \in 1 .. Len(t)
    BY <1>1
  <2> QED BY <1>1, <1>2, <2>1 DEF AllTicked
<1>3. ASSUME AllTicked(runs), run.ticks >= 1, NEW k \in 1 .. Len(t) PROVE t[k].ticks >= 1
  <2>1. k \in 1 .. m \/ k = m + 1
    BY <1>1
  <2> QED BY <1>1, <1>3, <2>1 DEF AllTicked
<1> QED BY <1>2, <1>3 DEF AllTicked, t

\* One run: the verifier takes it if it is one of a stage that goes on.
LEMMA RpVerifiesRun ==
  ASSUME NEW w \in RpVerifying, NEW run \in RpRun
  PROVE  LET u == VerifyRun(w, run)
             t == w.engine.fed \o Ticks(run)
         IN /\ u \in RpVerifying
            /\ u.ok <=> /\ w.ok /\ run.ticks >= 1 /\ Len(t) <= PfMaxStageTicks
                        /\ w.ticks + run.ticks <= PfMaxTotalTicks
                        /\ \A n \in 0 .. run.ticks - 1 :
                             PfOutcome(w.engine.stage, w.engine.lives, w.engine.fed \o [i \in 1 .. n |-> run.input]).status = "running"
            /\ u.ok => /\ u.engine = [stage |-> w.engine.stage, lives |-> w.engine.lives, fed |-> t]
                       /\ u.ticks = w.ticks + run.ticks /\ u.canonical = AppendRun(w.canonical, run)
                       /\ u.last = w.last /\ u.stages = w.stages /\ u.runs = w.runs /\ u.cleared = w.cleared
                       /\ u.lives = w.lives
<1> DEFINE t == w.engine.fed \o Ticks(run)
           e == [stage |-> w.engine.stage, lives |-> w.engine.lives, fed |-> t]
           c == AppendRun(w.canonical, run)
           m == w.ticks + run.ticks
<1>1. /\ w.ok \in BOOLEAN /\ w.engine \in RpEngines /\ w.ticks \in 0 .. PfMaxTotalTicks /\ w.canonical \in RpRunLists
      /\ run.ticks \in Nat /\ run.input \in RpInputs /\ w.engine.fed \in RpFed
  BY DEF RpVerifying, RpRun, RpEngines
<1>2. Ticks(run) \in RpFed /\ Len(Ticks(run)) = run.ticks
  BY RpTicked
<1>3. t \in RpFed /\ Len(t) = Len(w.engine.fed) + run.ticks /\ Len(w.engine.fed) \in Nat
  <2> DEFINE f == w.engine.fed
  <2>1. f \in Seq(RpInputs) /\ Ticks(run) \in Seq(RpInputs)
    BY <1>1, <1>2 DEF RpFed
  <2> HIDE DEF f
  <2>2. f \o Ticks(run) \in Seq(RpInputs) /\ Len(f \o Ticks(run)) = Len(f) + run.ticks /\ Len(f) \in Nat
    BY <1>2, <2>1, ConcatProperties, LenProperties
  <2> QED BY <2>2 DEF f, RpFed
<1>4. e \in RpEngines /\ c \in RpRunLists
  BY <1>1, <1>3, RpAppended DEF RpEngines
<1>5. ASSUME NEW n \in Nat
      PROVE  Outcome(Fed(w.engine, run.input, n)) =
               PfOutcome(w.engine.stage, w.engine.lives, w.engine.fed \o [i \in 1 .. n |-> run.input])
  BY <1>1 DEF Outcome, Fed, RpEngines
<1>6. Fed(w.engine, run.input, run.ticks) = e
  <2>1. \A x : [w.engine EXCEPT !.fed = x] = [stage |-> w.engine.stage, lives |-> w.engine.lives, fed |-> x]
    BY <1>1 DEF RpEngines
  <2>2. Fed(w.engine, run.input, run.ticks) = [w.engine EXCEPT !.fed = t]
    BY DEF Fed, Ticks
  <2> HIDE DEF t
  <2> QED BY <2>1, <2>2
<1> DEFINE Runs(n) == PfOutcome(w.engine.stage, w.engine.lives, w.engine.fed \o [i \in 1 .. n |-> run.input]).status = "running"
           Bad == \/ ~w.ok \/ run.ticks \notin 1 .. PfMaxStageTicks
                  \/ Len(w.engine.fed) + run.ticks > PfMaxStageTicks \/ w.ticks + run.ticks > PfMaxTotalTicks
                  \/ \E n \in 0 .. (run.ticks - 1) : Outcome(Fed(w.engine, run.input, n)).status # "running"
           Good == /\ w.ok /\ run.ticks >= 1 /\ Len(t) <= PfMaxStageTicks
                   /\ w.ticks + run.ticks <= PfMaxTotalTicks /\ \A n \in 0 .. run.ticks - 1 : Runs(n)
<1>7. (\E n \in 0 .. (run.ticks - 1) : Outcome(Fed(w.engine, run.input, n)).status # "running")
        <=> ~ (\A n \in 0 .. run.ticks - 1 : Runs(n))
  <2>1. \A n \in 0 .. (run.ticks - 1) : n \in Nat
    BY <1>1
  <2> QED BY <1>5, <2>1
<1>8. Bad <=> ~Good
  <2>1. run.ticks \in 1 .. PfMaxStageTicks <=> run.ticks >= 1 /\ run.ticks <= PfMaxStageTicks
    BY <1>1, RpLimits
  <2>2. Len(t) <= PfMaxStageTicks => run.ticks <= PfMaxStageTicks
    BY <1>1, <1>3, RpLimits
  <2>3. /\ (Len(w.engine.fed) + run.ticks > PfMaxStageTicks) <=> ~ (Len(t) <= PfMaxStageTicks)
        /\ (w.ticks + run.ticks > PfMaxTotalTicks) <=> ~ (w.ticks + run.ticks <= PfMaxTotalTicks)
    BY <1>1, <1>3, RpLimits
  <2> QED BY <1>7, <2>1, <2>2, <2>3
<1> DEFINE u == [w EXCEPT !.engine = e, !.ticks = m, !.canonical = c]
<1>9. VerifyRun(w, run) = IF Bad THEN Reject(w) ELSE u
  BY <1>6 DEF VerifyRun
<1>10. ASSUME Good
       PROVE  /\ u \in RpVerifying /\ u.ok = w.ok /\ u.engine = e /\ u.ticks = m /\ u.canonical = c
              /\ u.last = w.last /\ u.stages = w.stages /\ u.runs = w.runs /\ u.cleared = w.cleared
              /\ u.lives = w.lives
  <2>1. m \in 0 .. PfMaxTotalTicks
    BY <1>1, <1>10, RpLimits
  <2> HIDE DEF e, c, m, Good, t
  <2> QED BY <1>4, <2>1 DEF RpVerifying
<1>11. Reject(w) \in RpVerifying /\ Reject(w).ok = FALSE
  BY DEF Reject, RpVerifying
<1> HIDE DEF u, Bad, Good
<1>12. CASE Good
  <2>1. VerifyRun(w, run) = u /\ w.ok
    BY <1>8, <1>9, <1>12 DEF Good
  <2> QED BY <1>10, <1>12, <2>1 DEF Good
<1>13. CASE ~Good
  <2>1. VerifyRun(w, run) = Reject(w)
    BY <1>8, <1>9, <1>13
  <2> QED BY <1>11, <1>13, <2>1 DEF Good
<1> QED BY <1>12, <1>13

\* All the runs of a stage.
LEMMA RpVerifiesRuns ==
  ASSUME NEW v \in RpVerifying, v.ok, v.engine.fed = <<>>, v.canonical = <<>>, NEW runs \in RpRunLists
  PROVE  LET w == VerifyRuns(v, runs)
         IN w \in RpVerifying /\ (w.ok <=> RunsPass(v, runs)) /\ (w.ok => RunsLeave(v, runs, w))
<1> DEFINE T == {q \in RpRunLists : /\ VerifyRuns(v, q) \in RpVerifying /\ (VerifyRuns(v, q).ok <=> RunsPass(v, q))
                                    /\ (VerifyRuns(v, q).ok => RunsLeave(v, q, VerifyRuns(v, q)))}
<1>1. Seq(RpRun) \subseteq T
  <2>1. <<>> \in T
    <3>1. VerifyRuns(v, <<>>) = v /\ Expanded(<<>>) = <<>> /\ EncodeRuns(<<>>) = <<>>
      BY RpRunByRunBegins, RpFeedsBegins, RpEncodesBegins
    <3>2. <<>> \in RpRunLists /\ Len(<<>>) = 0
      BY EmptySeq DEF RpRunLists
    <3>3. v.engine = [stage |-> v.engine.stage, lives |-> v.engine.lives, fed |-> <<>>] /\ v.ticks \in 0 .. PfMaxTotalTicks
      BY DEF RpVerifying, RpEngines
    <3>4. RunsPass(v, <<>>)
      BY <3>1, <3>2, <3>3, RpLimits DEF RunsPass, AllTicked, GoesOn
    <3>5. RunsLeave(v, <<>>, v)
      BY <3>1, <3>2, <3>3, RpLimits DEF RunsLeave
    <3> QED BY <3>1, <3>2, <3>4, <3>5
  <2>2. ASSUME NEW q \in Seq(RpRun), NEW run \in RpRun, q \in T PROVE Append(q, run) \in T
    <3> DEFINE w == VerifyRuns(v, q)
               u == VerifyRuns(v, Append(q, run))
               s == Expanded(q)
               t == s \o Ticks(run)
    <3>1. u = VerifyRun(w, run)
      BY VerifyRunsGrow
    <3>2. w \in RpVerifying /\ (w.ok <=> RunsPass(v, q)) /\ (w.ok => RunsLeave(v, q, w)) /\ q \in RpRunLists
      BY <2>2
    <3>3. s \in RpFed /\ Expanded(Append(q, run)) = t
      BY <3>2, RpExpands
    <3>4. /\ Len(t) = Len(s) + run.ticks /\ Len(s) \in Nat /\ run.ticks \in Nat /\ t \in RpFed
          /\ v.ticks \in Nat /\ run.input \in RpInputs
      <4>1. Ticks(run) \in RpFed /\ Len(Ticks(run)) = run.ticks
        BY RpTicked
      <4>2. run.ticks \in Nat /\ run.input \in RpInputs /\ v.ticks \in Nat
        BY RpLimits DEF RpRun, RpVerifying
      <4> QED BY <3>3, <4>1, <4>2, ConcatProperties, LenProperties DEF RpFed
    <3>5. Append(q, run) \in RpRunLists
      BY AppendProperties DEF RpRunLists
    <3> DEFINE Here == \A n \in 0 .. run.ticks - 1 :
                         PfOutcome(v.engine.stage, v.engine.lives, s \o [i \in 1 .. n |-> run.input]).status = "running"
    <3>6. RunsPass(v, Append(q, run)) <=>
            /\ RunsPass(v, q) /\ run.ticks >= 1 /\ Len(t) <= PfMaxStageTicks
            /\ v.ticks + Len(t) <= PfMaxTotalTicks /\ Here
      <4>1. AllTicked(Append(q, run)) <=> AllTicked(q) /\ run.ticks >= 1
        BY <3>2, RpAllTicked
      <4>2. GoesOn(v.engine.stage, v.engine.lives, t) <=> GoesOn(v.engine.stage, v.engine.lives, s) /\ Here
        <5> HIDE DEF s
        <5>1. \A stage, lives : GoesOn(stage, lives, s \o Ticks(run)) <=>
                /\ GoesOn(stage, lives, s)
                /\ \A n \in 0 .. run.ticks - 1 :
                     PfOutcome(stage, lives, s \o [i \in 1 .. n |-> run.input]).status = "running"
          BY <3>3, RpGoesOn
        <5> QED BY <5>1
      <4> HIDE DEF Here, t, s
      <4>3. /\ Len(t) <= PfMaxStageTicks => Len(s) <= PfMaxStageTicks
            /\ v.ticks + Len(t) <= PfMaxTotalTicks => v.ticks + Len(s) <= PfMaxTotalTicks
        BY <3>4, RpLimits
      <4> QED BY <3>3, <4>1, <4>2, <4>3 DEF RunsPass, s
    <3> HIDE DEF w, u
    <3>7. CASE ~w.ok
      <4>1. u \in RpVerifying /\ ~u.ok
        BY <3>1, <3>2, <3>7, RpVerifiesRun
      <4>2. ~RunsPass(v, Append(q, run))
        BY <3>2, <3>6, <3>7
      <4> QED BY <3>5, <4>1, <4>2 DEF u
    <3>8. CASE w.ok
      <4>1. /\ w.engine = [stage |-> v.engine.stage, lives |-> v.engine.lives, fed |-> s]
            /\ w.ticks = v.ticks + Len(s) /\ w.canonical = EncodeRuns(s)
            /\ w.last = v.last /\ w.stages = v.stages /\ w.runs = v.runs /\ w.cleared = v.cleared /\ w.lives = v.lives
        BY <3>2, <3>8 DEF RunsLeave
      <4>2. w.engine.fed = s /\ w.engine.stage = v.engine.stage /\ w.engine.lives = v.engine.lives
        BY <4>1
      <4>3. /\ u \in RpVerifying
            /\ u.ok <=> /\ run.ticks >= 1 /\ Len(t) <= PfMaxStageTicks /\ w.ticks + run.ticks <= PfMaxTotalTicks /\ Here
            /\ u.ok => /\ u.engine = [stage |-> v.engine.stage, lives |-> v.engine.lives, fed |-> t]
                       /\ u.ticks = w.ticks + run.ticks /\ u.canonical = AppendRun(w.canonical, run)
                       /\ u.last = w.last /\ u.stages = w.stages /\ u.runs = w.runs /\ u.cleared = w.cleared
                       /\ u.lives = w.lives
        <5> HIDE DEF s
        <5>1. LET z == VerifyRun(w, run)
                  y == w.engine.fed \o Ticks(run)
              IN /\ z \in RpVerifying
                 /\ z.ok <=> /\ w.ok /\ run.ticks >= 1 /\ Len(y) <= PfMaxStageTicks
                        /\ w.ticks + run.ticks <= PfMaxTotalTicks
                        /\ \A n \in 0 .. run.ticks - 1 :
                             PfOutcome(w.engine.stage, w.engine.lives, w.engine.fed \o [i \in 1 .. n |-> run.input]).status = "running"
                 /\ z.ok => /\ z.engine = [stage |-> w.engine.stage, lives |-> w.engine.lives, fed |-> y]
                       /\ z.ticks = w.ticks + run.ticks /\ z.canonical = AppendRun(w.canonical, run)
                       /\ z.last = w.last /\ z.stages = w.stages /\ z.runs = w.runs /\ z.cleared = w.cleared
                       /\ z.lives = w.lives
          BY <3>2, RpVerifiesRun
        <5> QED BY <3>1, <3>8, <4>2, <5>1
      <4> HIDE DEF t, s, Here
      <4>4. w.ticks + run.ticks = v.ticks + Len(t)
        BY <3>4, <4>1
      <4>5. u.ok <=> RunsPass(v, Append(q, run))
        BY <3>2, <3>6, <3>8, <4>3, <4>4
      <4>6. ASSUME u.ok PROVE RunsLeave(v, Append(q, run), u)
        <5>1. EncodeRuns(t) = AppendRun(EncodeRuns(s), run)
          BY <3>3, <4>3, <4>6, RpEncodesRun DEF t
        <5>2. /\ u.ticks = v.ticks + Len(t) /\ u.canonical = EncodeRuns(t)
              /\ u.engine = [stage |-> v.engine.stage, lives |-> v.engine.lives, fed |-> t]
          BY <4>1, <4>3, <4>4, <4>6, <5>1
        <5> QED BY <3>3, <4>1, <4>3, <4>6, <5>2 DEF RunsLeave
      <4> QED BY <3>5, <4>3, <4>5, <4>6 DEF u
    <3> QED BY <3>7, <3>8
  <2> HIDE DEF T
  <2> QED BY <2>1, <2>2, Growing
<1> QED BY <1>1 DEF RpRunLists

\* The one form of a stage, and of a proof.
CanonOf(stage) == [id |-> stage.id, runs |-> EncodeRuns(Expanded(stage.runs))]
Canon(proof) == [i \in DOMAIN proof |-> CanonOf(proof[i])]
RunLists(proof) == [i \in DOMAIN proof |-> proof[i].runs]
Sizes(seqs) == [i \in DOMAIN seqs |-> Len(seqs[i])]

\* A function on 1..n is a sequence of n elements.
LEMMA RpSeqOf ==
  ASSUME NEW R, NEW n \in Nat, NEW a \in [1 .. n -> R]
  PROVE  a \in Seq(R) /\ Len(a) = n
BY SeqDef, LenProperties

\* What runs stand for is a sequence of inputs.
LEMMA RpExpandedIsFed ==
  ASSUME NEW runs \in RpRunLists
  PROVE  Expanded(runs) \in RpFed
<1> DEFINE T == {s \in RpRunLists : Expanded(s) \in RpFed}
<1>1. Seq(RpRun) \subseteq T
  <2>1. <<>> \in T
    BY RpFeedsBegins, EmptySeq DEF RpRunLists, RpFed
  <2>2. ASSUME NEW s \in Seq(RpRun), NEW e \in RpRun, s \in T PROVE Append(s, e) \in T
    <3>1. s \in RpRunLists /\ Append(s, e) \in RpRunLists
      BY AppendProperties DEF RpRunLists
    <3>2. Expanded(Append(s, e)) = Expanded(s) \o Ticks(e) /\ Expanded(s) \in RpFed /\ Ticks(e) \in RpFed
      BY <3>1, RpExpands, RpTicked
    <3>3. Expanded(s) \o Ticks(e) \in RpFed
      BY <3>2, ConcatProperties DEF RpFed
    <3> QED BY <3>1, <3>2, <3>3
  <2> HIDE DEF T
  <2> QED BY <2>1, <2>2, Growing
<1> QED BY <1>1 DEF RpRunLists

\* The inputs of the stages of a proof.
LEMMA RpPlays ==
  ASSUME NEW p \in Seq(RpStage), NEW e \in RpStage
  PROVE  /\ Plays(p) \in Seq(RpFed) /\ Len(Plays(p)) = Len(p) /\ \A i \in 1 .. Len(p) : Plays(p)[i] = Expanded(p[i].runs)
         /\ Plays(<<>>) = <<>> /\ Plays(Append(p, e)) = Append(Plays(p), Expanded(e.runs))
<1> DEFINE n == Len(p)
           t == Append(p, e)
           a == Plays(p)
           b == Plays(t)
           c == Append(a, Expanded(e.runs))
<1>1. /\ n \in Nat /\ p = [i \in 1 .. n |-> p[i]] /\ \A i \in 1 .. n : p[i] \in RpStage
      /\ DOMAIN p = 1 .. n
  BY LenProperties, ElementOfSeq
<1>2. t \in Seq(RpStage) /\ Len(t) = n + 1 /\ t[n + 1] = e /\ (\A i \in 1 .. n : t[i] = p[i]) /\ DOMAIN t = 1 .. n + 1
  BY <1>1, AppendProperties, LenProperties
<1>3. ASSUME NEW x \in RpStage PROVE Expanded(x.runs) \in RpFed
  BY RpExpandedIsFed DEF RpStage
<1>4. DOMAIN a = 1 .. n /\ \A i \in 1 .. n : a[i] = Expanded(p[i].runs)
  BY <1>1 DEF Plays
<1>5. a \in Seq(RpFed) /\ Len(a) = n
  <2>1. a \in [1 .. n -> RpFed]
    BY <1>1, <1>3, <1>4 DEF Plays
  <2> DEFINE R == RpFed
  <2>2. a \in [1 .. n -> R]
    BY <2>1
  <2> HIDE DEF a, R, n
  <2>3. a \in Seq(R) /\ Len(a) = n
    BY <1>1, <2>2, RpSeqOf
  <2> QED BY <2>3 DEF R
<1>6. DOMAIN b = 1 .. n + 1 /\ \A i \in 1 .. n + 1 : b[i] = Expanded(t[i].runs)
  <2> HIDE DEF t
  <2> QED BY <1>2 DEF Plays
<1>7. b \in Seq(RpFed) /\ Len(b) = n + 1
  <2>1. \A i \in 1 .. n + 1 : t[i] \in RpStage
    BY <1>1, <1>2, ElementOfSeq
  <2> HIDE DEF t
  <2>2. b \in [1 .. n + 1 -> RpFed]
    BY <1>2, <1>3, <1>6, <2>1 DEF Plays
  <2>3. n + 1 \in Nat
    BY <1>1
  <2> HIDE DEF b
  <2> QED BY <2>2, <2>3, SeqDef, LenProperties
<1>8. c \in Seq(RpFed) /\ Len(c) = n + 1 /\ c[n + 1] = Expanded(e.runs) /\ \A i \in 1 .. n : c[i] = a[i]
  <2>1. Expanded(e.runs) \in RpFed
    BY <1>3
  <2> DEFINE y == Expanded(e.runs)
  <2> HIDE DEF a, y
  <2>2. Append(a, y) \in Seq(RpFed) /\ Len(Append(a, y)) = n + 1 /\ Append(a, y)[n + 1] = y /\ \A i \in 1 .. n : Append(a, y)[i] = a[i]
    BY <1>5, <2>1, AppendProperties DEF y
  <2> QED BY <2>2 DEF y
<1> HIDE DEF a, b, c
<1>9. b = c
  <2>1. ASSUME NEW i \in 1 .. n + 1 PROVE b[i] = c[i]
    <3>1. CASE i = n + 1
      BY <1>1, <1>2, <1>6, <1>8, <3>1
    <3>2. CASE i # n + 1
      <4>1. i \in 1 .. n
        BY <1>1, <3>2
      <4> QED BY <1>2, <1>4, <1>6, <1>8, <4>1
    <3> QED BY <3>1, <3>2
  <2> QED BY <1>7, <1>8, <2>1, SeqEqual
<1>10. Plays(<<>>) = <<>>
  <2>1. DOMAIN <<>> = {}
    OBVIOUS
  <2> DEFINE z == <<>>
  <2> HIDE DEF z
  <2>2. Plays(z) = [i \in DOMAIN z |-> Expanded(z[i].runs)]
    BY DEF Plays
  <2>3. Plays(z) = [i \in {} |-> Expanded(z[i].runs)]
    BY <2>1, <2>2 DEF z
  <2>4. [i \in {} |-> Expanded(z[i].runs)] = <<>>
    OBVIOUS
  <2> QED BY <2>3, <2>4 DEF z
<1>11. Plays(Append(p, e)) = Append(Plays(p), Expanded(e.runs))
  BY <1>9, Zenon DEF a, b, c, t
<1>12. Plays(p) \in Seq(RpFed) /\ Len(Plays(p)) = n /\ \A i \in 1 .. n : Plays(p)[i] = Expanded(p[i].runs)
  BY <1>4, <1>5 DEF a
<1> QED BY <1>10, <1>11, <1>12, Zenon

\* The one form of the stages of a proof.
LEMMA RpCanons ==
  ASSUME NEW p \in Seq(RpStage), NEW e \in RpStage
  PROVE  /\ Canon(p) \in Seq(RpStage) /\ Len(Canon(p)) = Len(p) /\ \A i \in 1 .. Len(p) : Canon(p)[i] = CanonOf(p[i])
         /\ Canon(<<>>) = <<>> /\ Canon(Append(p, e)) = Append(Canon(p), CanonOf(e))
<1> DEFINE n == Len(p)
           t == Append(p, e)
           a == Canon(p)
           b == Canon(t)
           c == Append(a, CanonOf(e))
<1>1. /\ n \in Nat /\ p = [i \in 1 .. n |-> p[i]] /\ \A i \in 1 .. n : p[i] \in RpStage
      /\ DOMAIN p = 1 .. n
  BY LenProperties, ElementOfSeq
<1>2. t \in Seq(RpStage) /\ Len(t) = n + 1 /\ t[n + 1] = e /\ (\A i \in 1 .. n : t[i] = p[i]) /\ DOMAIN t = 1 .. n + 1
  BY <1>1, AppendProperties, LenProperties
<1>3. ASSUME NEW x \in RpStage PROVE CanonOf(x) \in RpStage
  BY RpExpandedIsFed, RpEncoded DEF RpStage, CanonOf
<1>4. DOMAIN a = 1 .. n /\ \A i \in 1 .. n : a[i] = CanonOf(p[i])
  BY <1>1 DEF Canon
<1>5. a \in Seq(RpStage) /\ Len(a) = n
  <2>1. a \in [1 .. n -> RpStage]
    BY <1>1, <1>3, <1>4 DEF Canon
  <2> DEFINE R == RpStage
  <2>2. a \in [1 .. n -> R]
    BY <2>1
  <2> HIDE DEF a, R, n
  <2>3. a \in Seq(R) /\ Len(a) = n
    BY <1>1, <2>2, RpSeqOf
  <2> QED BY <2>3 DEF R
<1>6. DOMAIN b = 1 .. n + 1 /\ \A i \in 1 .. n + 1 : b[i] = CanonOf(t[i])
  <2> HIDE DEF t
  <2> QED BY <1>2 DEF Canon
<1>7. b \in Seq(RpStage) /\ Len(b) = n + 1
  <2>1. \A i \in 1 .. n + 1 : t[i] \in RpStage
    BY <1>1, <1>2, ElementOfSeq
  <2> HIDE DEF t
  <2>2. b \in [1 .. n + 1 -> RpStage]
    BY <1>2, <1>3, <1>6, <2>1 DEF Canon
  <2>3. n + 1 \in Nat
    BY <1>1
  <2> HIDE DEF b
  <2> QED BY <2>2, <2>3, SeqDef, LenProperties
<1>8. c \in Seq(RpStage) /\ Len(c) = n + 1 /\ c[n + 1] = CanonOf(e) /\ \A i \in 1 .. n : c[i] = a[i]
  <2>1. CanonOf(e) \in RpStage
    BY <1>3
  <2> DEFINE y == CanonOf(e)
  <2> HIDE DEF a, y
  <2>2. Append(a, y) \in Seq(RpStage) /\ Len(Append(a, y)) = n + 1 /\ Append(a, y)[n + 1] = y /\ \A i \in 1 .. n : Append(a, y)[i] = a[i]
    BY <1>5, <2>1, AppendProperties DEF y
  <2> QED BY <2>2 DEF y
<1> HIDE DEF a, b, c
<1>9. b = c
  <2>1. ASSUME NEW i \in 1 .. n + 1 PROVE b[i] = c[i]
    <3>1. CASE i = n + 1
      BY <1>1, <1>2, <1>6, <1>8, <3>1
    <3>2. CASE i # n + 1
      <4>1. i \in 1 .. n
        BY <1>1, <3>2
      <4> QED BY <1>2, <1>4, <1>6, <1>8, <4>1
    <3> QED BY <3>1, <3>2
  <2> QED BY <1>7, <1>8, <2>1, SeqEqual
<1>10. Canon(<<>>) = <<>>
  <2>1. DOMAIN <<>> = {}
    OBVIOUS
  <2> DEFINE z == <<>>
  <2> HIDE DEF z
  <2>2. Canon(z) = [i \in DOMAIN z |-> CanonOf(z[i])]
    BY DEF Canon
  <2>3. Canon(z) = [i \in {} |-> CanonOf(z[i])]
    BY <2>1, <2>2 DEF z
  <2>4. [i \in {} |-> CanonOf(z[i])] = <<>>
    OBVIOUS
  <2> QED BY <2>3, <2>4 DEF z
<1>11. Canon(Append(p, e)) = Append(Canon(p), CanonOf(e))
  BY <1>9, Zenon DEF a, b, c, t
<1>12. Canon(p) \in Seq(RpStage) /\ Len(Canon(p)) = n /\ \A i \in 1 .. n : Canon(p)[i] = CanonOf(p[i])
  BY <1>4, <1>5 DEF a
<1> QED BY <1>10, <1>11, <1>12, Zenon

\* The runs of the stages of a proof.
LEMMA RpRunsOf ==
  ASSUME NEW p \in Seq(RpStage), NEW e \in RpStage
  PROVE  /\ RunLists(p) \in Seq(RpRunLists) /\ Len(RunLists(p)) = Len(p) /\ \A i \in 1 .. Len(p) : RunLists(p)[i] = p[i].runs
         /\ RunLists(<<>>) = <<>> /\ RunLists(Append(p, e)) = Append(RunLists(p), e.runs)
<1> DEFINE n == Len(p)
           t == Append(p, e)
           a == RunLists(p)
           b == RunLists(t)
           c == Append(a, e.runs)
<1>1. /\ n \in Nat /\ p = [i \in 1 .. n |-> p[i]] /\ \A i \in 1 .. n : p[i] \in RpStage
      /\ DOMAIN p = 1 .. n
  BY LenProperties, ElementOfSeq
<1>2. t \in Seq(RpStage) /\ Len(t) = n + 1 /\ t[n + 1] = e /\ (\A i \in 1 .. n : t[i] = p[i]) /\ DOMAIN t = 1 .. n + 1
  BY <1>1, AppendProperties, LenProperties
<1>3. ASSUME NEW x \in RpStage PROVE x.runs \in RpRunLists
  BY DEF RpStage
<1>4. DOMAIN a = 1 .. n /\ \A i \in 1 .. n : a[i] = p[i].runs
  BY <1>1 DEF RunLists
<1>5. a \in Seq(RpRunLists) /\ Len(a) = n
  <2>1. a \in [1 .. n -> RpRunLists]
    BY <1>1, <1>3, <1>4 DEF RunLists
  <2> DEFINE R == RpRunLists
  <2>2. a \in [1 .. n -> R]
    BY <2>1
  <2> HIDE DEF a, R, n
  <2>3. a \in Seq(R) /\ Len(a) = n
    BY <1>1, <2>2, RpSeqOf
  <2> QED BY <2>3 DEF R
<1>6. DOMAIN b = 1 .. n + 1 /\ \A i \in 1 .. n + 1 : b[i] = t[i].runs
  <2> HIDE DEF t
  <2> QED BY <1>2 DEF RunLists
<1>7. b \in Seq(RpRunLists) /\ Len(b) = n + 1
  <2>1. \A i \in 1 .. n + 1 : t[i] \in RpStage
    BY <1>1, <1>2, ElementOfSeq
  <2> HIDE DEF t
  <2>2. b \in [1 .. n + 1 -> RpRunLists]
    BY <1>2, <1>3, <1>6, <2>1 DEF RunLists
  <2>3. n + 1 \in Nat
    BY <1>1
  <2> HIDE DEF b
  <2> QED BY <2>2, <2>3, SeqDef, LenProperties
<1>8. c \in Seq(RpRunLists) /\ Len(c) = n + 1 /\ c[n + 1] = e.runs /\ \A i \in 1 .. n : c[i] = a[i]
  <2>1. e.runs \in RpRunLists
    BY <1>3
  <2> DEFINE y == e.runs
  <2> HIDE DEF a, y
  <2>2. Append(a, y) \in Seq(RpRunLists) /\ Len(Append(a, y)) = n + 1 /\ Append(a, y)[n + 1] = y /\ \A i \in 1 .. n : Append(a, y)[i] = a[i]
    BY <1>5, <2>1, AppendProperties DEF y
  <2> QED BY <2>2 DEF y
<1> HIDE DEF a, b, c
<1>9. b = c
  <2>1. ASSUME NEW i \in 1 .. n + 1 PROVE b[i] = c[i]
    <3>1. CASE i = n + 1
      BY <1>1, <1>2, <1>6, <1>8, <3>1
    <3>2. CASE i # n + 1
      <4>1. i \in 1 .. n
        BY <1>1, <3>2
      <4> QED BY <1>2, <1>4, <1>6, <1>8, <4>1
    <3> QED BY <3>1, <3>2
  <2> QED BY <1>7, <1>8, <2>1, SeqEqual
<1>10. RunLists(<<>>) = <<>>
  <2>1. DOMAIN <<>> = {}
    OBVIOUS
  <2> DEFINE z == <<>>
  <2> HIDE DEF z
  <2>2. RunLists(z) = [i \in DOMAIN z |-> z[i].runs]
    BY DEF RunLists
  <2>3. RunLists(z) = [i \in {} |-> z[i].runs]
    BY <2>1, <2>2 DEF z
  <2>4. [i \in {} |-> z[i].runs] = <<>>
    OBVIOUS
  <2> QED BY <2>3, <2>4 DEF z
<1>11. RunLists(Append(p, e)) = Append(RunLists(p), e.runs)
  BY <1>9, Zenon DEF a, b, c, t
<1>12. RunLists(p) \in Seq(RpRunLists) /\ Len(RunLists(p)) = n /\ \A i \in 1 .. n : RunLists(p)[i] = p[i].runs
  BY <1>4, <1>5 DEF a
<1> QED BY <1>10, <1>11, <1>12, Zenon

\* The lengths of plays, or of lists of runs.
LEMMA RpSizes ==
  ASSUME NEW S, NEW p \in Seq(Seq(S)), NEW e \in Seq(S)
  PROVE  /\ Sizes(p) \in Seq(Nat) /\ Len(Sizes(p)) = Len(p) /\ \A i \in 1 .. Len(p) : Sizes(p)[i] = Len(p[i])
         /\ Sizes(<<>>) = <<>> /\ Sizes(Append(p, e)) = Append(Sizes(p), Len(e))
<1> DEFINE n == Len(p)
           t == Append(p, e)
           a == Sizes(p)
           b == Sizes(t)
           c == Append(a, Len(e))
<1>1. /\ n \in Nat /\ p = [i \in 1 .. n |-> p[i]] /\ \A i \in 1 .. n : p[i] \in Seq(S)
      /\ DOMAIN p = 1 .. n
  BY LenProperties, ElementOfSeq
<1>2. t \in Seq(Seq(S)) /\ Len(t) = n + 1 /\ t[n + 1] = e /\ (\A i \in 1 .. n : t[i] = p[i]) /\ DOMAIN t = 1 .. n + 1
  BY <1>1, AppendProperties, LenProperties
<1>3. ASSUME NEW x \in Seq(S) PROVE Len(x) \in Nat
  BY LenProperties
<1>4. DOMAIN a = 1 .. n /\ \A i \in 1 .. n : a[i] = Len(p[i])
  BY <1>1 DEF Sizes
<1>5. a \in Seq(Nat) /\ Len(a) = n
  <2>1. a \in [1 .. n -> Nat]
    BY <1>1, <1>3, <1>4 DEF Sizes
  <2> DEFINE R == Nat
  <2>2. a \in [1 .. n -> R]
    BY <2>1
  <2> HIDE DEF a, R, n
  <2>3. a \in Seq(R) /\ Len(a) = n
    BY <1>1, <2>2, RpSeqOf
  <2> QED BY <2>3 DEF R
<1>6. DOMAIN b = 1 .. n + 1 /\ \A i \in 1 .. n + 1 : b[i] = Len(t[i])
  <2> HIDE DEF t
  <2> QED BY <1>2 DEF Sizes
<1>7. b \in Seq(Nat) /\ Len(b) = n + 1
  <2>1. \A i \in 1 .. n + 1 : t[i] \in Seq(S)
    BY <1>1, <1>2, ElementOfSeq
  <2> HIDE DEF t
  <2>2. b \in [1 .. n + 1 -> Nat]
    BY <1>2, <1>3, <1>6, <2>1 DEF Sizes
  <2>3. n + 1 \in Nat
    BY <1>1
  <2> HIDE DEF b
  <2> QED BY <2>2, <2>3, SeqDef, LenProperties
<1>8. c \in Seq(Nat) /\ Len(c) = n + 1 /\ c[n + 1] = Len(e) /\ \A i \in 1 .. n : c[i] = a[i]
  <2>1. Len(e) \in Nat
    BY <1>3
  <2> DEFINE y == Len(e)
  <2> HIDE DEF a, y
  <2>2. Append(a, y) \in Seq(Nat) /\ Len(Append(a, y)) = n + 1 /\ Append(a, y)[n + 1] = y /\ \A i \in 1 .. n : Append(a, y)[i] = a[i]
    BY <1>5, <2>1, AppendProperties DEF y
  <2> QED BY <2>2 DEF y
<1> HIDE DEF a, b, c
<1>9. b = c
  <2>1. ASSUME NEW i \in 1 .. n + 1 PROVE b[i] = c[i]
    <3>1. CASE i = n + 1
      BY <1>1, <1>2, <1>6, <1>8, <3>1
    <3>2. CASE i # n + 1
      <4>1. i \in 1 .. n
        BY <1>1, <3>2
      <4> QED BY <1>2, <1>4, <1>6, <1>8, <4>1
    <3> QED BY <3>1, <3>2
  <2> QED BY <1>7, <1>8, <2>1, SeqEqual
<1>10. Sizes(<<>>) = <<>>
  <2>1. DOMAIN <<>> = {}
    OBVIOUS
  <2> DEFINE z == <<>>
  <2> HIDE DEF z
  <2>2. Sizes(z) = [i \in DOMAIN z |-> Len(z[i])]
    BY DEF Sizes
  <2>3. Sizes(z) = [i \in {} |-> Len(z[i])]
    BY <2>1, <2>2 DEF z
  <2>4. [i \in {} |-> Len(z[i])] = <<>>
    OBVIOUS
  <2> QED BY <2>3, <2>4 DEF z
<1>11. Sizes(Append(p, e)) = Append(Sizes(p), Len(e))
  BY <1>9, Zenon DEF a, b, c, t
<1>12. Sizes(p) \in Seq(Nat) /\ Len(Sizes(p)) = n /\ \A i \in 1 .. n : Sizes(p)[i] = Len(p[i])
  BY <1>4, <1>5 DEF a
<1> QED BY <1>10, <1>11, <1>12, Zenon

\* The sum of numbers is a number.
LEMMA RpTotal ==
  ASSUME NEW q \in Seq(Nat)
  PROVE  Total(q) \in Nat
<1> DEFINE T == {s \in Seq(Nat) : Total(s) \in Nat}
<1>1. Seq(Nat) \subseteq T
  <2>1. <<>> \in T
    BY RpSumsBegins, EmptySeq
  <2>2. ASSUME NEW s \in Seq(Nat), NEW e \in Nat, s \in T PROVE Append(s, e) \in T
    <3>1. Append(s, e) \in Seq(Nat)
      BY AppendProperties
    <3>2. Total(Append(s, e)) = Total(s) + e /\ Total(s) \in Nat
      BY <2>2, TotalGrows
    <3> QED BY <3>1, <3>2
  <2> HIDE DEF T
  <2> QED BY <2>1, <2>2, Growing
<1> QED BY <1>1

\* The length of several plays.
LEMMA RpSized ==
  ASSUME NEW S, NEW p \in Seq(Seq(S)), NEW e \in Seq(S)
  PROVE  Sized(<<>>) = 0 /\ Sized(Append(p, e)) = Sized(p) + Len(e) /\ Sized(p) \in Nat
<1> DEFINE t == Append(p, e)
<1>1. /\ Sizes(p) \in Seq(Nat) /\ Sizes(<<>>) = <<>> /\ Sizes(t) = Append(Sizes(p), Len(e)) /\ Len(e) \in Nat
  BY RpSizes, LenProperties
<1>2. \A q : Sized(q) = Total(Sizes(q))
  BY DEF Sized, Sizes
<1> HIDE DEF t
<1>3. Total(Append(Sizes(p), Len(e))) = Total(Sizes(p)) + Len(e) /\ Total(<<>>) = 0
  BY <1>1, TotalGrows
<1>4. Total(Sizes(p)) \in Nat
  BY <1>1, RpTotal
<1>5. Sized(t) = Sized(p) + Len(e)
  BY <1>1, <1>2, <1>3
<1>6. Sized(<<>>) = 0 /\ Sized(p) \in Nat
  BY <1>1, <1>2, <1>3, <1>4
<1> QED BY <1>5, <1>6 DEF t

\* The lives a stage of a proof begins with, and what becomes of it.
Before(proof, i) == LivesLeft(SubSeq(Plays(proof), 1, i - 1))
End(proof, i) == PfOutcome(i, Before(proof, i), Plays(proof)[i])

\* What is appended does not change the beginning.
LEMMA RpPrefix ==
  ASSUME NEW S, NEW q \in Seq(S), NEW e \in S, NEW i \in 0 .. Len(q)
  PROVE  SubSeq(Append(q, e), 1, i) = SubSeq(q, 1, i)
<1> DEFINE t == Append(q, e)
           a == SubSeq(t, 1, i)
           b == SubSeq(q, 1, i)
<1>1. t \in Seq(S) /\ Len(t) = Len(q) + 1 /\ (\A k \in 1 .. Len(q) : t[k] = q[k]) /\ Len(q) \in Nat
  BY AppendProperties, LenProperties
<1> HIDE DEF t
<1>2. /\ b \in Seq(S) /\ Len(b) = i /\ \A k \in 1 .. i : b[k] = q[k]
  <2>1. \A k \in 1 .. i : q[k] \in S
    BY <1>1, ElementOfSeq
  <2> QED BY <1>1, <2>1, SubSeqProperties
<1>3. /\ a \in Seq(S) /\ Len(a) = i /\ \A k \in 1 .. i : a[k] = t[k]
  <2>1. \A k \in 1 .. i : t[k] \in S
    BY <1>1, ElementOfSeq
  <2> QED BY <1>1, <2>1, SubSeqProperties
<1>4. ASSUME NEW k \in 1 .. i PROVE a[k] = b[k]
  <2>1. k \in 1 .. Len(q)
    BY <1>1
  <2> QED BY <1>1, <1>2, <1>3, <2>1
<1> HIDE DEF a, b
<1>5. a = b
  BY <1>2, <1>3, <1>4, SeqEqual
<1> QED BY <1>5 DEF a, b, t

\* The lives a stage begins with depend on the stages before it only.
LEMMA RpMoreLives ==
  ASSUME NEW plays \in Seq(RpFed), NEW play \in RpFed
  PROVE  LET t == Append(plays, play)
             n == Len(plays)
         IN /\ \A i \in 1 .. n + 1 : LivesLeft(SubSeq(t, 1, i - 1)) = LivesLeft(SubSeq(plays, 1, i - 1))
            /\ LivesLeft(SubSeq(t, 1, n)) = LivesLeft(plays)
            /\ LivesLeft(t) = PfOutcome(n + 1, LivesLeft(plays), play).lives
<1> DEFINE t == Append(plays, play)
           n == Len(plays)
<1>1. ASSUME NEW i \in 0 .. n PROVE SubSeq(t, 1, i) = SubSeq(plays, 1, i)
  BY RpPrefix
<1>2. SubSeq(plays, 1, n) = plays /\ n \in Nat
  BY SubSeqFull, LenProperties
<1>3. LivesLeft(t) = PfOutcome(n + 1, LivesLeft(plays), play).lives
  BY LivesGrow
<1> HIDE DEF t, n
<1>4. ASSUME NEW i \in 1 .. n + 1 PROVE LivesLeft(SubSeq(t, 1, i - 1)) = LivesLeft(SubSeq(plays, 1, i - 1))
  <2>1. i - 1 \in 0 .. n
    BY <1>2
  <2> QED BY <1>1, <2>1
<1>5. LivesLeft(SubSeq(t, 1, n)) = LivesLeft(plays)
  <2>1. n \in 0 .. n
    BY <1>2
  <2> QED BY <1>1, <1>2, <2>1
<1> QED BY <1>3, <1>4, <1>5 DEF t, n

\* One stage more.
LEMMA RpStageMore ==
  ASSUME NEW p \in RpStages, NEW s \in RpStage
  PROVE  LET t == Append(p, s)
             n == Len(p)
         IN /\ t \in RpStages /\ Len(t) = n + 1 /\ n \in Nat /\ t[n + 1] = s
            /\ \A i \in 1 .. n : /\ t[i] = p[i] /\ Plays(t)[i] = Plays(p)[i]
                                 /\ Before(t, i) = Before(p, i) /\ End(t, i) = End(p, i)
            /\ Plays(t)[n + 1] = Expanded(s.runs) /\ Before(t, n + 1) = LivesLeft(Plays(p))
            /\ End(t, n + 1) = PfOutcome(n + 1, LivesLeft(Plays(p)), Expanded(s.runs))
            /\ LivesLeft(Plays(t)) = PfOutcome(n + 1, LivesLeft(Plays(p)), Expanded(s.runs)).lives
<1> DEFINE t == Append(p, s)
           n == Len(p)
           play == Expanded(s.runs)
           q == Plays(p)
<1>1. t \in RpStages /\ Len(t) = n + 1 /\ n \in Nat /\ t[n + 1] = s /\ \A i \in 1 .. n : t[i] = p[i]
  BY AppendProperties, LenProperties DEF RpStages
<1>2. q \in Seq(RpFed) /\ Len(q) = n /\ Plays(t) = Append(q, play) /\ play \in RpFed
  BY RpPlays, RpExpandedIsFed DEF RpStages, RpStage
<1> HIDE DEF q, t, play
<1> DEFINE u == Append(q, play)
<1>3. /\ \A i \in 1 .. n + 1 : LivesLeft(SubSeq(u, 1, i - 1)) = LivesLeft(SubSeq(q, 1, i - 1))
      /\ LivesLeft(SubSeq(u, 1, n)) = LivesLeft(q)
      /\ LivesLeft(u) = PfOutcome(n + 1, LivesLeft(q), play).lives
  BY <1>2, RpMoreLives
<1>4. u[n + 1] = play /\ \A i \in 1 .. n : u[i] = q[i]
  BY <1>2, AppendProperties
<1> HIDE DEF u, n
<1>5. Plays(t) = u
  BY <1>2 DEF u
<1>6. ASSUME NEW i \in 1 .. n
      PROVE  Plays(t)[i] = q[i] /\ Before(t, i) = Before(p, i) /\ End(t, i) = End(p, i)
  <2>1. i \in 1 .. n + 1
    BY <1>1
  <2> QED BY <1>3, <1>4, <1>5, <2>1 DEF Before, End, q
<1>7. (n + 1) - 1 = n
  BY <1>1
<1>8. /\ Plays(t)[n + 1] = play /\ Before(t, n + 1) = LivesLeft(q)
      /\ End(t, n + 1) = PfOutcome(n + 1, LivesLeft(q), play)
      /\ LivesLeft(Plays(t)) = PfOutcome(n + 1, LivesLeft(q), play).lives
  BY <1>3, <1>4, <1>5, <1>7 DEF Before, End
<1> QED BY <1>1, <1>6, <1>8 DEF t, n, q, play

\* A stage more: the lengths add up, and its one form is appended.
LEMMA RpStageSizes ==
  ASSUME NEW p \in RpStages, NEW s \in RpStage
  PROVE  LET t == Append(p, s)
         IN /\ Sized(Plays(t)) = Sized(Plays(p)) + Len(Expanded(s.runs)) /\ Sized(Plays(p)) \in Nat
            /\ Sized(RunLists(t)) = Sized(RunLists(p)) + Len(s.runs) /\ Sized(RunLists(p)) \in Nat
            /\ Canon(t) = Append(Canon(p), CanonOf(s)) /\ Canon(p) \in RpStages /\ Len(Canon(p)) = Len(p)
            /\ Len(Expanded(s.runs)) \in Nat /\ Len(s.runs) \in Nat
<1> DEFINE play == Expanded(s.runs)
           q == Plays(p)
           r == RunLists(p)
<1>1. q \in Seq(RpFed) /\ Plays(Append(p, s)) = Append(q, play) /\ play \in RpFed
  BY RpPlays, RpExpandedIsFed DEF RpStages, RpStage
<1>2. r \in Seq(RpRunLists) /\ RunLists(Append(p, s)) = Append(r, s.runs) /\ s.runs \in RpRunLists
  BY RpRunsOf DEF RpStages, RpStage
<1>3. Canon(Append(p, s)) = Append(Canon(p), CanonOf(s)) /\ Canon(p) \in RpStages /\ Len(Canon(p)) = Len(p)
  BY RpCanons DEF RpStages
<1> HIDE DEF q, r, play
<1>4. Sized(Append(q, play)) = Sized(q) + Len(play) /\ Sized(q) \in Nat
  BY <1>1, RpSized DEF RpFed
<1>5. Sized(Append(r, s.runs)) = Sized(r) + Len(s.runs) /\ Sized(r) \in Nat
  BY <1>2, RpSized DEF RpRunLists
<1>6. Len(play) \in Nat /\ Len(s.runs) \in Nat
  BY <1>1, <1>2, LenProperties DEF RpFed, RpRunLists
<1> QED BY <1>1, <1>2, <1>3, <1>4, <1>5, <1>6 DEF q, r, play

-----------------------------------------------------------------------------
(* What a proof must be: of a form within the limits, and of a run that    *)
(* goes on to the end of every stage.                                      *)

FormOf(n, s) ==
  /\ s.id = n /\ Len(s.runs) \in 1 .. PfMaxRuns /\ AllTicked(s.runs)
  /\ Len(Expanded(s.runs)) <= PfMaxStageTicks
PlayOf(n, lives, play) == GoesOn(n, lives, play) /\ PfOutcome(n, lives, play).status # "running"
FormOk(p) ==
  /\ \A i \in 1 .. Len(p) : FormOf(i, p[i])
  /\ Sized(Plays(p)) <= PfMaxTotalTicks /\ Sized(RunLists(p)) <= PfMaxRuns
PlayOk(p) ==
  /\ \A i \in 1 .. Len(p) : PlayOf(i, Before(p, i), Plays(p)[i])
  /\ \A i \in 1 .. Len(p) - 1 : End(p, i).status = "won"
WonSoFar(p) == Len(p) # 0 => End(p, Len(p)).status = "won"

\* The form of a proof with a stage more, from that of the proof without it.
LEMMA RpFormMore ==
  ASSUME NEW p \in RpStages, NEW s \in RpStage
  PROVE  FormOk(Append(p, s)) <=>
           /\ FormOk(p) /\ FormOf(Len(p) + 1, s)
           /\ Sized(Plays(p)) + Len(Expanded(s.runs)) <= PfMaxTotalTicks
           /\ Sized(RunLists(p)) + Len(s.runs) <= PfMaxRuns
<1> DEFINE t == Append(p, s)
           n == Len(p)
<1>1. Len(t) = n + 1 /\ n \in Nat /\ t[n + 1] = s /\ \A i \in 1 .. n : t[i] = p[i]
  BY RpStageMore
<1>2. /\ Sized(Plays(t)) = Sized(Plays(p)) + Len(Expanded(s.runs)) /\ Sized(Plays(p)) \in Nat
      /\ Sized(RunLists(t)) = Sized(RunLists(p)) + Len(s.runs) /\ Sized(RunLists(p)) \in Nat
      /\ Len(Expanded(s.runs)) \in Nat /\ Len(s.runs) \in Nat
  BY RpStageSizes
<1> HIDE DEF t, n
<1>3. (\A i \in 1 .. n + 1 : FormOf(i, t[i])) <=> (\A i \in 1 .. n : FormOf(i, p[i])) /\ FormOf(n + 1, s)
  <2>1. ASSUME \A i \in 1 .. n + 1 : FormOf(i, t[i]) PROVE (\A i \in 1 .. n : FormOf(i, p[i])) /\ FormOf(n + 1, s)
    <3>1. n + 1 \in 1 .. n + 1 /\ \A i \in 1 .. n : i \in 1 .. n + 1
      BY <1>1
    <3> QED BY <1>1, <2>1, <3>1
  <2>2. ASSUME \A i \in 1 .. n : FormOf(i, p[i]), FormOf(n + 1, s), NEW i \in 1 .. n + 1 PROVE FormOf(i, t[i])
    <3>1. i \in 1 .. n \/ i = n + 1
      BY <1>1
    <3> QED BY <1>1, <2>2, <3>1
  <2> QED BY <2>1, <2>2
<1>4. /\ Sized(Plays(t)) <= PfMaxTotalTicks => Sized(Plays(p)) <= PfMaxTotalTicks
      /\ Sized(RunLists(t)) <= PfMaxRuns => Sized(RunLists(p)) <= PfMaxRuns
  BY <1>2, RpLimits
<1>5. FormOk(t) <=> /\ \A i \in 1 .. n + 1 : FormOf(i, t[i])
                    /\ Sized(Plays(t)) <= PfMaxTotalTicks /\ Sized(RunLists(t)) <= PfMaxRuns
  BY <1>1 DEF FormOk
<1>6. FormOk(p) <=> /\ \A i \in 1 .. n : FormOf(i, p[i])
                    /\ Sized(Plays(p)) <= PfMaxTotalTicks /\ Sized(RunLists(p)) <= PfMaxRuns
  BY DEF FormOk, n
<1>7. FormOk(t) <=>
           /\ FormOk(p) /\ FormOf(n + 1, s)
           /\ Sized(Plays(p)) + Len(Expanded(s.runs)) <= PfMaxTotalTicks
           /\ Sized(RunLists(p)) + Len(s.runs) <= PfMaxRuns
  BY <1>2, <1>3, <1>4, <1>5, <1>6
<1> QED BY <1>7 DEF t, n

\* The play of a proof with a stage more, from that of the proof without it.
LEMMA RpPlayMore ==
  ASSUME NEW p \in RpStages, NEW s \in RpStage
  PROVE  PlayOk(Append(p, s)) <=>
           PlayOk(p) /\ WonSoFar(p) /\ PlayOf(Len(p) + 1, LivesLeft(Plays(p)), Expanded(s.runs))
<1> DEFINE t == Append(p, s)
           n == Len(p)
           lives == LivesLeft(Plays(p))
           play == Expanded(s.runs)
<1>1. Len(t) = n + 1 /\ n \in Nat
  BY RpStageMore
<1>2. \A i \in 1 .. n : Plays(t)[i] = Plays(p)[i] /\ Before(t, i) = Before(p, i) /\ End(t, i) = End(p, i)
  BY RpStageMore
<1>3. Plays(t)[n + 1] = play /\ Before(t, n + 1) = lives
  BY RpStageMore
<1> HIDE DEF t, n, lives, play
<1>4. (\A i \in 1 .. n + 1 : PlayOf(i, Before(t, i), Plays(t)[i])) <=>
        (\A i \in 1 .. n : PlayOf(i, Before(p, i), Plays(p)[i])) /\ PlayOf(n + 1, lives, play)
  <2>1. ASSUME \A i \in 1 .. n + 1 : PlayOf(i, Before(t, i), Plays(t)[i])
        PROVE  (\A i \in 1 .. n : PlayOf(i, Before(p, i), Plays(p)[i])) /\ PlayOf(n + 1, lives, play)
    <3>1. n + 1 \in 1 .. n + 1 /\ \A i \in 1 .. n : i \in 1 .. n + 1
      BY <1>1
    <3> QED BY <1>2, <1>3, <2>1, <3>1
  <2>2. ASSUME \A i \in 1 .. n : PlayOf(i, Before(p, i), Plays(p)[i]), PlayOf(n + 1, lives, play), NEW i \in 1 .. n + 1
        PROVE  PlayOf(i, Before(t, i), Plays(t)[i])
    <3>1. i \in 1 .. n \/ i = n + 1
      BY <1>1
    <3> QED BY <1>2, <1>3, <2>2, <3>1
  <2> QED BY <2>1, <2>2
<1>5. (\A i \in 1 .. n : End(t, i).status = "won") <=> (\A i \in 1 .. n - 1 : End(p, i).status = "won") /\ WonSoFar(p)
  <2>1. ASSUME \A i \in 1 .. n : End(t, i).status = "won"
        PROVE  (\A i \in 1 .. n - 1 : End(p, i).status = "won") /\ WonSoFar(p)
    <3>1. (n # 0 => n \in 1 .. n) /\ \A i \in 1 .. n - 1 : i \in 1 .. n
      BY <1>1
    <3> QED BY <1>2, <2>1, <3>1 DEF WonSoFar, n
  <2>2. ASSUME \A i \in 1 .. n - 1 : End(p, i).status = "won", WonSoFar(p), NEW i \in 1 .. n PROVE End(t, i).status = "won"
    <3>1. n # 0 /\ (i \in 1 .. n - 1 \/ i = n)
      BY <1>1
    <3> QED BY <1>2, <2>2, <3>1 DEF WonSoFar, n
  <2> QED BY <2>1, <2>2
<1>6. (n + 1) - 1 = n
  BY <1>1
<1>7. PlayOk(t) <=> /\ \A i \in 1 .. n + 1 : PlayOf(i, Before(t, i), Plays(t)[i])
                    /\ \A i \in 1 .. n : End(t, i).status = "won"
  BY <1>1, <1>6 DEF PlayOk
<1>8. PlayOk(p) <=> /\ \A i \in 1 .. n : PlayOf(i, Before(p, i), Plays(p)[i])
                    /\ \A i \in 1 .. n - 1 : End(p, i).status = "won"
  BY DEF PlayOk, n
<1>9. PlayOk(t) <=> PlayOk(p) /\ WonSoFar(p) /\ PlayOf(n + 1, lives, play)
  BY <1>4, <1>5, <1>7, <1>8
<1> QED BY <1>9 DEF t, n, lives, play

-----------------------------------------------------------------------------
(* What the engine makes of a stage                                        *)

\* What RpAssumption says of the outcome of a stage.
LEMMA RpOutcome ==
  ASSUME NEW stage \in 1 .. PfStages, NEW lives \in 1 .. PfLives, NEW fed \in RpFed, Len(fed) <= PfMaxStageTicks
  PROVE  LET o == PfOutcome(stage, lives, fed)
         IN /\ o.status \in {"running", "won", "lost"} /\ o.lives \in 0 .. PfLives
            /\ o = [status |-> o.status, lives |-> o.lives]
            /\ (fed = <<>> => o.status = "running") /\ (o.status = "won" => o.lives # 0)
<1> DEFINE o == PfOutcome(stage, lives, fed)
           n == Len(fed)
<1>1. n \in 0 .. PfMaxStageTicks /\ fed \in [1 .. n -> RpInputs] /\ (fed = <<>> => n = 0)
  <2>1. n \in Nat /\ fed \in [1 .. n -> RpInputs]
    BY LenProperties DEF RpFed
  <2>2. fed = <<>> => n = 0
    BY EmptySeq
  <2> QED BY <2>1, <2>2, RpLimits
<1>2. /\ o \in [status : {"running", "won", "lost"}, lives : 0 .. PfLives]
      /\ (n = 0 => o.status = "running") /\ (o.status = "won" => o.lives # 0)
  BY <1>1, RpAssumption DEF RpAssumption
<1> HIDE DEF o, n
<1>3. /\ o.status \in {"running", "won", "lost"} /\ o.lives \in 0 .. PfLives
      /\ o = [status |-> o.status, lives |-> o.lives]
  BY <1>2
<1> QED BY <1>1, <1>2, <1>3 DEF o

\* A run that went on so far has as many lives as the next stage needs.
LEMMA RpLively ==
  ASSUME NEW p \in RpStages
  PROVE  Len(p) <= PfStages /\ PlayOk(p) /\ (\A i \in 1 .. Len(p) : Len(Plays(p)[i]) <= PfMaxStageTicks) =>
           /\ LivesLeft(Plays(p)) \in 0 .. PfLives /\ (WonSoFar(p) => LivesLeft(Plays(p)) # 0)
           /\ Len(p) # 0 => End(p, Len(p)).status \in {"won", "lost"}
<1> DEFINE Short(q) == Len(q) <= PfStages /\ PlayOk(q) /\ (\A i \in 1 .. Len(q) : Len(Plays(q)[i]) <= PfMaxStageTicks)
           T == {q \in RpStages :
             Short(q) => /\ LivesLeft(Plays(q)) \in 0 .. PfLives /\ (WonSoFar(q) => LivesLeft(Plays(q)) # 0)
                         /\ Len(q) # 0 => End(q, Len(q)).status \in {"won", "lost"}}
<1>1. Seq(RpStage) \subseteq T
  <2>1. <<>> \in T
    <3>1. Plays(<<>>) = <<>> /\ Len(<<>>) = 0 /\ <<>> \in RpStages
      <4>1. DOMAIN <<>> = {}
        OBVIOUS
      <4> DEFINE z == <<>>
      <4> HIDE DEF z
      <4>2. Plays(z) = [i \in DOMAIN z |-> Expanded(z[i].runs)]
        BY DEF Plays
      <4>3. Plays(z) = [i \in {} |-> Expanded(z[i].runs)]
        BY <4>1, <4>2 DEF z
      <4>4. [i \in {} |-> Expanded(z[i].runs)] = <<>>
        OBVIOUS
      <4>5. Plays(<<>>) = <<>>
        BY <4>3, <4>4 DEF z
      <4> QED BY <4>5, EmptySeq DEF RpStages
    <3>2. LivesLeft(<<>>) = PfLives
      BY RpLivesBegins
    <3> QED BY <3>1, <3>2, RpLimits DEF WonSoFar
  <2>2. ASSUME NEW q \in Seq(RpStage), NEW s \in RpStage, q \in T PROVE Append(q, s) \in T
    <3> DEFINE t == Append(q, s)
               n == Len(q)
               lives == LivesLeft(Plays(q))
               play == Expanded(s.runs)
               o == PfOutcome(n + 1, lives, play)
    <3>1. q \in RpStages /\ play \in RpFed
      BY RpExpandedIsFed DEF RpStages, RpStage
    <3>2. t \in RpStages /\ Len(t) = n + 1 /\ n \in Nat
      BY <3>1, RpStageMore
    <3>3. \A i \in 1 .. n : Plays(t)[i] = Plays(q)[i]
      BY <3>1, RpStageMore
    <3>4. Plays(t)[n + 1] = play /\ End(t, n + 1) = o /\ LivesLeft(Plays(t)) = o.lives
      BY <3>1, RpStageMore
    <3>5. PlayOk(t) <=> PlayOk(q) /\ WonSoFar(q) /\ PlayOf(n + 1, lives, play)
      BY <3>1, RpPlayMore
    <3>6. Short(q) => /\ LivesLeft(Plays(q)) \in 0 .. PfLives /\ (WonSoFar(q) => LivesLeft(Plays(q)) # 0)
      BY <2>2
    <3> HIDE DEF t, T, o, play, n
    <3>7. ASSUME Short(t) PROVE /\ LivesLeft(Plays(t)) \in 0 .. PfLives /\ (WonSoFar(t) => LivesLeft(Plays(t)) # 0)
                                /\ Len(t) # 0 => End(t, Len(t)).status \in {"won", "lost"}
      <4>1. PlayOk(q) /\ WonSoFar(q) /\ PlayOf(n + 1, lives, play) /\ n + 1 <= PfStages
        BY <3>2, <3>5, <3>7
      <4>2. n + 1 \in 1 .. n + 1 /\ \A i \in 1 .. n : i \in 1 .. n + 1
        BY <3>2
      <4>3. Len(play) <= PfMaxStageTicks /\ \A i \in 1 .. n : Len(Plays(q)[i]) <= PfMaxStageTicks
        BY <3>2, <3>3, <3>4, <3>7, <4>2
      <4>4. Short(q)
        BY <3>2, <4>1, <4>3, RpLimits DEF n
      <4>5. lives \in 1 .. PfLives /\ n + 1 \in 1 .. PfStages
        <5>1. lives \in 0 .. PfLives /\ lives # 0
          BY <3>6, <4>1, <4>4
        <5> HIDE DEF lives
        <5> QED BY <3>2, <4>1, <5>1, RpLimits
      <4> HIDE DEF lives
      <4>6. o.status \in {"running", "won", "lost"} /\ o.lives \in 0 .. PfLives /\ (o.status = "won" => o.lives # 0)
        BY <3>1, <4>3, <4>5, RpOutcome DEF o
      <4>7. o.status # "running"
        BY <4>1 DEF PlayOf, o
      <4>8. WonSoFar(t) => o.status = "won"
        BY <3>2, <3>4 DEF WonSoFar
      <4> QED BY <3>2, <3>4, <4>6, <4>7, <4>8
    <3> QED BY <3>2, <3>7 DEF t, T
  <2> HIDE DEF T
  <2> QED BY <2>1, <2>2, Growing
<1>2. p \in T
  BY <1>1 DEF RpStages
<1> QED BY <1>2

\* A stage the ranked verifier takes.
StageTaken(v, s) ==
  LET n == Len(v.stages) + 1
      play == Expanded(s.runs)
  IN /\ v.last # "lost" /\ FormOf(n, s) /\ PlayOf(n, v.lives, play)
     /\ v.runs + Len(s.runs) <= PfMaxRuns /\ v.ticks + Len(play) <= PfMaxTotalTicks

\* The ranked verifier takes a stage exactly if it is one that may come next (proof.ts:540-640).
LEMMA RpVerifiesStage ==
  ASSUME NEW v \in RpVerifying, v.ok, NEW s \in RpStage, v.last # "lost" => v.lives # 0,
         Len(v.stages) + 1 \in 1 .. PfStages
  PROVE  LET u == VerifyStage(v, s)
             play == Expanded(s.runs)
             o == PfOutcome(Len(v.stages) + 1, v.lives, play)
         IN /\ u \in RpVerifying /\ (u.ok <=> StageTaken(v, s))
            /\ u.ok => /\ u.stages = Append(v.stages, CanonOf(s)) /\ u.last = o.status /\ u.lives = o.lives
                       /\ u.runs = v.runs + Len(s.runs) /\ u.ticks = v.ticks + Len(play)
                       /\ u.cleared = IF o.status = "won" THEN v.cleared + 1 ELSE v.cleared
<1> DEFINE runs == s.runs
           n == Len(v.stages) + 1
           play == Expanded(runs)
           o == PfOutcome(n, v.lives, play)
           e == Entered(v, runs)
           w == VerifyRuns(e, runs)
<1>1. /\ v.ticks \in 0 .. PfMaxTotalTicks /\ v.ticks \in Nat /\ v.lives \in 0 .. PfLives /\ v.runs \in Nat /\ v.cleared \in Nat
      /\ v.stages \in RpStages /\ v.last \in {"none", "won", "lost"} /\ v.canonical \in RpRunLists
      /\ n \in Nat /\ n \in 1 .. PfStages
  BY RpLimits DEF RpVerifying
<1>2. runs \in RpRunLists /\ s.id \in Nat /\ s = [id |-> s.id, runs |-> runs]
  BY DEF RpStage
<1>3. play \in RpFed /\ Len(play) \in Nat /\ Len(runs) \in Nat
  BY <1>2, RpExpandedIsFed, LenProperties DEF RpFed, RpRunLists
<1> HIDE DEF play, runs, n
<1>4. /\ e.ok /\ e.engine = [stage |-> n, lives |-> v.lives, fed |-> <<>>] /\ e.canonical = <<>>
      /\ e.runs = v.runs + Len(runs) /\ e.ticks = v.ticks /\ e.last = v.last /\ e.stages = v.stages
      /\ e.cleared = v.cleared /\ e.lives = v.lives /\ e \in RpVerifying
  <2> DEFINE g == [stage |-> n, lives |-> v.lives, fed |-> <<>>]
             m == v.runs + Len(runs)
             c == <<>>
  <2>1. g \in RpEngines
    <3>1. <<>> \in RpFed
      BY EmptySeq DEF RpFed
    <3> QED BY <1>1, <3>1 DEF RpEngines
  <2>2. c \in RpRunLists /\ m \in Nat
    BY <1>1, <1>3, EmptySeq DEF RpRunLists
  <2>3. e = [v EXCEPT !.engine = g, !.canonical = c, !.runs = m]
    <3>1. Fresh(n, v.lives) = g
      BY DEF Fresh
    <3>2. Fresh(Len(v.stages) + 1, v.lives) = g
      BY <3>1 DEF n
    <3> HIDE DEF g
    <3>3. v.runs \in Nat
      BY <1>1
    <3> QED BY <3>2 DEF Entered
  <2>4. g.stage = n /\ c = <<>>
    OBVIOUS
  <2> HIDE DEF g, m, c
  <2>5a. ASSUME NEW a \in RpEngines, NEW b \in RpRunLists, NEW d \in Nat
         PROVE  [v EXCEPT !.engine = a, !.canonical = b, !.runs = d] \in RpVerifying
    BY DEF RpVerifying
  <2>6. /\ e.ok = v.ok /\ e.engine = g /\ e.canonical = c /\ e.runs = m /\ e.ticks = v.ticks /\ e.last = v.last
        /\ e.stages = v.stages /\ e.cleared = v.cleared /\ e.lives = v.lives /\ e \in RpVerifying
    <3> DEFINE x == [v EXCEPT !.engine = g, !.canonical = c, !.runs = m]
    <3>1. /\ x.ok = v.ok /\ x.engine = g /\ x.canonical = c /\ x.runs = m /\ x.ticks = v.ticks /\ x.last = v.last
          /\ x.stages = v.stages /\ x.cleared = v.cleared /\ x.lives = v.lives
      BY DEF RpVerifying
    <3>3. x \in RpVerifying
      BY <2>1, <2>2, <2>5a
    <3>2. e = x
      BY <2>3
    <3> HIDE DEF x
    <3> QED BY <3>1, <3>2, <3>3
  <2> QED BY <2>6 DEF g, m, c
<1> HIDE DEF e
<1>5. w \in RpVerifying /\ (w.ok <=> RunsPass(e, runs)) /\ (w.ok => RunsLeave(e, runs, w))
  <2>1. e.ok /\ e.engine.fed = <<>> /\ e.canonical = <<>> /\ e \in RpVerifying
    BY <1>4
  <2> HIDE DEF w
  <2> QED BY <1>2, <2>1, RpVerifiesRuns DEF w
<1> HIDE DEF w
<1>6. RunsPass(e, runs) <=> /\ AllTicked(runs) /\ Len(play) <= PfMaxStageTicks
                            /\ v.ticks + Len(play) <= PfMaxTotalTicks /\ GoesOn(n, v.lives, play)
  <2>1. e.engine.stage = n /\ e.engine.lives = v.lives /\ e.ticks = v.ticks
    BY <1>4
  <2> QED BY <2>1 DEF RunsPass, play
<1>7. ASSUME w.ok
      PROVE  /\ Outcome(w.engine) = o /\ w.ticks = v.ticks + Len(play) /\ w.canonical = EncodeRuns(play)
             /\ w.last = v.last /\ w.stages = v.stages /\ w.runs = v.runs + Len(runs) /\ w.cleared = v.cleared
             /\ w.lives = v.lives
  <2>1. RunsLeave(e, runs, w)
    BY <1>5, <1>7
  <2>2. w.engine = [stage |-> n, lives |-> v.lives, fed |-> play]
    <3>1. e.engine.stage = n /\ e.engine.lives = v.lives
      BY <1>4
    <3> QED BY <2>1, <3>1 DEF RunsLeave, play
  <2>3. Outcome(w.engine) = o
    BY <2>2 DEF Outcome
  <2> QED BY <1>4, <2>1, <2>3 DEF RunsLeave, play
<1> DEFINE end == Outcome(w.engine)
           Bad == \/ ~v.ok \/ v.last = "lost" \/ s.id # Len(v.stages) + 1
                  \/ Len(s.runs) \notin 1..PfMaxRuns \/ w.runs > PfMaxRuns
                  \/ ~w.ok \/ end.status = "running"
           added == [id |-> s.id, runs |-> w.canonical]
           count == IF end.status = "won" THEN w.cleared + 1 ELSE w.cleared
           z == [w EXCEPT !.stages = Append(@, added), !.last = end.status,
                 !.cleared = IF end.status = "won" THEN @ + 1 ELSE @, !.lives = end.lives]
<1>8. VerifyStage(v, s) = IF Bad THEN Reject(v) ELSE z
  BY DEF VerifyStage, VerifyEnd, w, e, runs
<1>9. z = [w EXCEPT !.stages = Append(w.stages, added), !.last = end.status, !.cleared = count, !.lives = end.lives]
  BY <1>5 DEF RpVerifying
<1>10. Bad <=> ~StageTaken(v, s)
  <2>1. CASE w.ok
    <3>1. end = o /\ w.runs = v.runs + Len(runs)
      BY <1>7, <2>1
    <3>2. (w.runs > PfMaxRuns) <=> ~ (v.runs + Len(runs) <= PfMaxRuns)
      BY <1>1, <1>3, <3>1, RpLimits
    <3>3. /\ AllTicked(runs) /\ Len(play) <= PfMaxStageTicks
          /\ v.ticks + Len(play) <= PfMaxTotalTicks /\ GoesOn(n, v.lives, play)
      BY <1>5, <1>6, <2>1
    <3> HIDE DEF end, o
    <3>4. StageTaken(v, s) <=> /\ v.last # "lost" /\ s.id = n /\ Len(runs) \in 1 .. PfMaxRuns
                               /\ o.status # "running" /\ v.runs + Len(runs) <= PfMaxRuns
      BY <3>3 DEF StageTaken, FormOf, PlayOf, n, runs, play, o
    <3> QED BY <2>1, <3>1, <3>2, <3>4 DEF n, runs
  <2>2. CASE ~w.ok
    <3>1. ~RunsPass(e, runs)
      BY <1>5, <2>2
    <3>2. ~StageTaken(v, s)
      BY <1>6, <3>1 DEF StageTaken, FormOf, PlayOf, n, runs, play
    <3> QED BY <2>2, <3>2
  <2> QED BY <2>1, <2>2
<1>11. Reject(v) \in RpVerifying /\ Reject(v).ok = FALSE
  BY DEF Reject, RpVerifying
<1>12. CASE StageTaken(v, s)
  <2>1. w.ok /\ VerifyStage(v, s) = z /\ v.last # "lost" /\ Len(play) <= PfMaxStageTicks /\ o.status # "running"
    <3>1. ~Bad
      BY <1>10, <1>12
    <3>2. w.ok
      BY <3>1
    <3>3. VerifyStage(v, s) = z
      BY <1>8, <3>1
    <3>4. v.last # "lost" /\ Len(play) <= PfMaxStageTicks /\ o.status # "running"
      BY <1>12 DEF StageTaken, FormOf, PlayOf, n, runs, play
    <3> QED BY <3>2, <3>3, <3>4
  <2>2. v.lives \in 1 .. PfLives
    BY <1>1, <2>1, RpLimits
  <2>3. o.status \in {"won", "lost"} /\ o.lives \in 0 .. PfLives
    <3>1. o.status \in {"running", "won", "lost"} /\ o.lives \in 0 .. PfLives
      BY <1>1, <1>3, <2>1, <2>2, RpOutcome
    <3> QED BY <2>1, <3>1
  <2>4. end = o /\ added = CanonOf(s) /\ count = IF o.status = "won" THEN v.cleared + 1 ELSE v.cleared
    BY <1>7, <2>1 DEF CanonOf, play, runs
  <2>5. CanonOf(s) \in RpStage
    <3>1. EncodeRuns(play) \in RpRunLists
      BY <1>3, RpEncoded
    <3> QED BY <1>2, <3>1 DEF CanonOf, RpStage, play, runs
  <2>6. Append(v.stages, CanonOf(s)) \in RpStages
    BY <1>1, <2>5, AppendProperties DEF RpStages
  <2>7. count \in Nat
    BY <1>1, <2>4
  <2>8. \A a, b, d, f : LET x == [w EXCEPT !.stages = a, !.last = b, !.cleared = d, !.lives = f]
                     IN /\ x.ok = w.ok /\ x.stages = a /\ x.last = b /\ x.cleared = d /\ x.lives = f
                        /\ x.runs = w.runs /\ x.ticks = w.ticks
    BY <1>5 DEF RpVerifying
  <2>8a. ASSUME NEW a \in RpStages, NEW b \in {"none", "won", "lost"}, NEW d \in Nat, NEW f \in 0 .. PfLives
        PROVE  [w EXCEPT !.stages = a, !.last = b, !.cleared = d, !.lives = f] \in RpVerifying
    <3> HIDE DEF z, count, added, end, o
    <3> QED BY <1>5 DEF RpVerifying
  <2> DEFINE a == Append(v.stages, CanonOf(s))
  <2>9. z = [w EXCEPT !.stages = a, !.last = o.status, !.cleared = count, !.lives = o.lives]
    <3>1. Append(w.stages, added) = a
      BY <1>7, <2>1, <2>4
    <3> HIDE DEF z, count, added, end, o, a
    <3> QED BY <1>9, <2>4, <3>1
  <2> HIDE DEF z, count, added, end, o, a
  <2>10. a \in RpStages
    BY <2>6 DEF a
  <2>11. /\ z \in RpVerifying /\ z.ok = w.ok /\ z.stages = a /\ z.last = o.status /\ z.cleared = count /\ z.lives = o.lives
         /\ z.runs = w.runs /\ z.ticks = w.ticks
    <3>1. o.status \in {"none", "won", "lost"}
      BY <2>3
    <3>2. z \in RpVerifying
      BY <2>3, <2>7, <2>8a, <2>9, <2>10, <3>1
    <3>3. /\ z.ok = w.ok /\ z.stages = a /\ z.last = o.status /\ z.cleared = count /\ z.lives = o.lives
          /\ z.runs = w.runs /\ z.ticks = w.ticks
      BY <2>8, <2>9
    <3> QED BY <3>2, <3>3
  <2>12. z.runs = v.runs + Len(runs) /\ z.ticks = v.ticks + Len(play)
    BY <1>7, <2>1, <2>11
  <2> QED BY <1>12, <2>1, <2>4, <2>11, <2>12 DEF a, o, n, runs, play
<1>13. CASE ~StageTaken(v, s)
  <2>1. VerifyStage(v, s) = Reject(v)
    BY <1>8, <1>10, <1>13
  <2> QED BY <1>11, <1>13, <2>1
<1> QED BY <1>12, <1>13

-----------------------------------------------------------------------------
(* All the stages                                                          *)

Cleared(p) == IF WonSoFar(p) THEN Len(p) ELSE Len(p) - 1
Ranked(p, v) ==
  /\ v.stages = Canon(p) /\ v.ticks = Sized(Plays(p)) /\ v.runs = Sized(RunLists(p))
  /\ v.lives = LivesLeft(Plays(p)) /\ v.cleared = Cleared(p)
  /\ v.last = IF Len(p) = 0 THEN "none" ELSE End(p, Len(p)).status

\* Of no stage at all.
LEMMA RpNone0 ==
  /\ <<>> \in RpStages /\ Len(<<>>) = 0 /\ Plays(<<>>) = <<>> /\ Canon(<<>>) = <<>>
  /\ Sized(Plays(<<>>)) = 0 /\ Sized(RunLists(<<>>)) = 0 /\ LivesLeft(Plays(<<>>)) = PfLives
  /\ FormOk(<<>>) /\ PlayOk(<<>>) /\ WonSoFar(<<>>) /\ Cleared(<<>>) = 0
<1>1. <<>> \in RpStages /\ Len(<<>>) = 0
  BY EmptySeq DEF RpStages
<1> DEFINE stage == [id |-> 0, runs |-> <<>>]
<1>2. stage \in RpStage
  <2>1. <<>> \in RpRunLists
    BY EmptySeq DEF RpRunLists
  <2> QED BY <2>1 DEF RpStage
<1> HIDE DEF stage
<1>3. Plays(<<>>) = <<>> /\ Canon(<<>>) = <<>> /\ RunLists(<<>>) = <<>>
  BY <1>1, <1>2, RpPlays, RpCanons, RpRunsOf DEF RpStages
<1>4. Sized(<<>>) = 0
  <2>1. <<>> \in Seq(Seq({0})) /\ <<>> \in Seq({0})
    BY EmptySeq
  <2> QED BY <2>1, RpSized
<1>5. LivesLeft(<<>>) = PfLives
  BY RpLivesBegins
<1>6. FormOk(<<>>) /\ PlayOk(<<>>) /\ WonSoFar(<<>>) /\ Cleared(<<>>) = 0
  BY <1>1, <1>3, <1>4, RpLimits DEF FormOk, PlayOk, WonSoFar, Cleared
<1> QED BY <1>1, <1>3, <1>4, <1>5, <1>6

\* ... and the stages of a proof exactly if their form and their play are right.
LEMMA RpVerifiesStages ==
  ASSUME NEW p \in RpStages, Len(p) <= PfStages
  PROVE  LET v == VerifyStages(Begun, p)
         IN v \in RpVerifying /\ (v.ok <=> FormOk(p) /\ PlayOk(p)) /\ (v.ok => Ranked(p, v))
<1> DEFINE V(q) == VerifyStages(Begun, q)
           T == {q \in RpStages : Len(q) <= PfStages =>
                   /\ V(q) \in RpVerifying /\ (V(q).ok <=> FormOk(q) /\ PlayOk(q)) /\ (V(q).ok => Ranked(q, V(q)))}
<1>1. Seq(RpStage) \subseteq T
  <2>1. <<>> \in T
    <3>1. V(<<>>) = Begun
      BY RpStageByStageBegins
    <3>2. Begun \in RpVerifying
      <4>1. <<>> \in RpRunLists /\ <<>> \in RpStages /\ <<>> \in RpFed
        BY EmptySeq DEF RpRunLists, RpStages, RpFed
      <4> DEFINE g == Fresh(0, PfLives)
      <4>2. g \in RpEngines
        BY <4>1, RpLimits DEF RpEngines, Fresh
      <4> HIDE DEF g
      <4>3. 0 \in 0 .. PfMaxTotalTicks /\ PfLives \in 0 .. PfLives
        BY RpLimits
      <4>4. Begun = [ok |-> TRUE, engine |-> g, last |-> "none", stages |-> <<>>, runs |-> 0,
                     ticks |-> 0, cleared |-> 0, lives |-> PfLives, canonical |-> <<>>]
        BY DEF Begun, g
      <4> QED BY <4>1, <4>2, <4>3, <4>4 DEF RpVerifying
    <3>3. Ranked(<<>>, Begun)
      BY RpNone0 DEF Ranked, Begun
    <3>4. Begun.ok
      BY DEF Begun
    <3> QED BY <3>1, <3>2, <3>3, <3>4, RpNone0
  <2>2. ASSUME NEW q \in Seq(RpStage), NEW s \in RpStage, q \in T PROVE Append(q, s) \in T
    <3> DEFINE t == Append(q, s)
               n == Len(q)
               lives == LivesLeft(Plays(q))
               play == Expanded(s.runs)
               o == PfOutcome(n + 1, lives, play)
               v == V(q)
               u == V(t)
    <3>1. q \in RpStages /\ t \in RpStages /\ Len(t) = n + 1 /\ n \in Nat
      <4>1. q \in RpStages
        BY DEF RpStages
      <4> QED BY <4>1, RpStageMore
    <3>2. u = VerifyStage(v, s)
      BY VerifyStagesGrow
    <3>3. FormOk(t) <=> /\ FormOk(q) /\ FormOf(n + 1, s) /\ Sized(Plays(q)) + Len(play) <= PfMaxTotalTicks
                        /\ Sized(RunLists(q)) + Len(s.runs) <= PfMaxRuns
      BY <3>1, RpFormMore
    <3>4. PlayOk(t) <=> PlayOk(q) /\ WonSoFar(q) /\ PlayOf(n + 1, lives, play)
      BY <3>1, RpPlayMore
    <3>5. End(t, n + 1) = o /\ LivesLeft(Plays(t)) = o.lives
      BY <3>1, RpStageMore
    <3>6. /\ Sized(Plays(t)) = Sized(Plays(q)) + Len(play) /\ Sized(RunLists(t)) = Sized(RunLists(q)) + Len(s.runs)
          /\ Canon(t) = Append(Canon(q), CanonOf(s)) /\ Len(Canon(q)) = n
      BY <3>1, RpStageSizes
    <3>7. n + 1 <= PfStages => v \in RpVerifying /\ (v.ok <=> FormOk(q) /\ PlayOk(q)) /\ (v.ok => Ranked(q, v))
      <4>1. n + 1 <= PfStages => n <= PfStages
        BY <3>1, RpLimits
      <4> QED BY <2>2, <4>1
    <3>8. n <= PfStages /\ PlayOk(q) /\ (\A i \in 1 .. n : Len(Plays(q)[i]) <= PfMaxStageTicks) =>
            /\ lives \in 0 .. PfLives /\ (WonSoFar(q) => lives # 0)
            /\ n # 0 => End(q, n).status \in {"won", "lost"}
      BY <3>1, RpLively
    <3>9. FormOk(q) => \A i \in 1 .. n : Len(Plays(q)[i]) <= PfMaxStageTicks
      <4>1. ASSUME NEW i \in 1 .. n PROVE Plays(q)[i] = Expanded(q[i].runs)
        BY <3>1, RpPlays DEF RpStages
      <4> QED BY <4>1 DEF FormOk, FormOf
    <3> HIDE DEF T, t, n, lives, play, o, v, u, V
    <3>10. ASSUME n + 1 <= PfStages
           PROVE  u \in RpVerifying /\ (u.ok <=> FormOk(t) /\ PlayOk(t)) /\ (u.ok => Ranked(t, u))
      <4>1. CASE ~v.ok
        <5>1. u = Reject(v)
          BY <3>2, <4>1 DEF VerifyStage, VerifyEnd
        <5>2. u \in RpVerifying /\ ~u.ok
          BY <3>7, <3>10, <5>1 DEF Reject, RpVerifying
        <5> QED BY <3>3, <3>4, <3>7, <3>10, <4>1, <5>2
      <4>2. CASE v.ok
        <5>1. v \in RpVerifying /\ FormOk(q) /\ PlayOk(q) /\ Ranked(q, v)
          BY <3>7, <3>10, <4>2
        <5>2. /\ v.stages = Canon(q) /\ v.ticks = Sized(Plays(q)) /\ v.runs = Sized(RunLists(q))
              /\ v.lives = lives /\ v.cleared = Cleared(q) /\ v.last = IF n = 0 THEN "none" ELSE End(q, n).status
          BY <5>1 DEF Ranked, lives, n
        <5>3. /\ lives \in 0 .. PfLives /\ (WonSoFar(q) => lives # 0)
              /\ n # 0 => End(q, n).status \in {"won", "lost"}
          <6>1. n <= PfStages
            BY <3>1, <3>10, RpLimits
          <6> QED BY <3>8, <3>9, <5>1, <6>1
        <5>4. (v.last # "lost") <=> WonSoFar(q)
          BY <5>2, <5>3 DEF WonSoFar, n
        <5>5. Len(v.stages) = n
          BY <3>6, <5>2
        <5>6. n + 1 \in 1 .. PfStages
          BY <3>1, <3>10, RpLimits
        <5>7. /\ u \in RpVerifying /\ (u.ok <=> StageTaken(v, s))
              /\ u.ok => /\ u.stages = Append(v.stages, CanonOf(s)) /\ u.last = o.status /\ u.lives = o.lives
                         /\ u.runs = v.runs + Len(s.runs) /\ u.ticks = v.ticks + Len(play)
                         /\ u.cleared = IF o.status = "won" THEN v.cleared + 1 ELSE v.cleared
          <6>1. v.ok /\ (v.last # "lost" => v.lives # 0) /\ Len(v.stages) + 1 \in 1 .. PfStages
            BY <4>2, <5>2, <5>3, <5>4, <5>5, <5>6
          <6>2. LET x == VerifyStage(v, s)
                    y == Expanded(s.runs)
                    z == PfOutcome(Len(v.stages) + 1, v.lives, y)
                IN /\ x \in RpVerifying /\ (x.ok <=> StageTaken(v, s))
                   /\ x.ok => /\ x.stages = Append(v.stages, CanonOf(s)) /\ x.last = z.status /\ x.lives = z.lives
                              /\ x.runs = v.runs + Len(s.runs) /\ x.ticks = v.ticks + Len(y)
                              /\ x.cleared = IF z.status = "won" THEN v.cleared + 1 ELSE v.cleared
            BY <5>1, <6>1, RpVerifiesStage
          <6> QED BY <3>2, <5>2, <5>5, <6>2 DEF o, play
        <5>8. StageTaken(v, s) <=> FormOk(t) /\ PlayOk(t)
          BY <3>3, <3>4, <5>1, <5>2, <5>4, <5>5 DEF StageTaken, play
        <5>9. ASSUME u.ok PROVE Ranked(t, u)
          <6>1. /\ u.stages = Canon(t) /\ u.ticks = Sized(Plays(t)) /\ u.runs = Sized(RunLists(t))
                /\ u.lives = LivesLeft(Plays(t)) /\ u.last = End(t, Len(t)).status
            BY <3>1, <3>5, <3>6, <5>2, <5>7, <5>9
          <6>2. WonSoFar(q) /\ v.cleared = n
            <7>1. WonSoFar(q)
              BY <3>4, <5>7, <5>8, <5>9
            <7> QED BY <5>2, <7>1 DEF Cleared, n
          <6>3. WonSoFar(t) <=> o.status = "won"
            BY <3>1, <3>5 DEF WonSoFar
          <6>4. u.cleared = Cleared(t)
            <7>1. u.cleared = IF o.status = "won" THEN n + 1 ELSE n
              BY <5>7, <5>9, <6>2
            <7> QED BY <3>1, <6>3, <7>1 DEF Cleared
          <6>5. Len(t) # 0
            BY <3>1
          <6> QED BY <6>1, <6>4, <6>5 DEF Ranked
        <5> QED BY <5>7, <5>8, <5>9
      <4> QED BY <4>1, <4>2
    <3> QED BY <3>1, <3>10 DEF T, t, u
  <2> HIDE DEF T
  <2> QED BY <2>1, <2>2, Growing
<1>2. p \in T
  BY <1>1 DEF RpStages
<1> QED BY <1>2

\* What the ranked verifier says of any proof whatever.
Taken(p) == Len(p) \in 1 .. PfStages /\ FormOk(p) /\ PlayOk(p) /\ (Len(p) = PfStages \/ ~WonSoFar(p))
SummaryOf(p) ==
  [lives |-> LivesLeft(Plays(p)), reached |-> Len(p), cleared |-> Cleared(p), completed |-> WonSoFar(p),
   ticks |-> Sized(Plays(p))]
Judged(p) == IF Taken(p) THEN [ok |-> TRUE, proof |-> Canon(p), summary |-> SummaryOf(p)] ELSE Refusal

\* Its verdict on any proof, in one piece.
LEMMA RpVerified ==
  ASSUME NEW p \in RpStages
  PROVE  Verified(p) = Judged(p)
<1> DEFINE v == VerifyStages(Begun, p)
           n == Len(p)
<1>1. n \in Nat
  BY LenProperties DEF RpStages
<1>2. CASE n \notin 1 .. PfStages
  BY <1>2 DEF Verified, Judged, Taken
<1>3. CASE n \in 1 .. PfStages
  <2>1. v \in RpVerifying /\ (v.ok <=> FormOk(p) /\ PlayOk(p)) /\ (v.ok => Ranked(p, v))
    <3>1. n <= PfStages
      BY <1>3
    <3> QED BY <3>1, RpVerifiesStages
  <2>2. Verified(p) = Verdict(v)
    BY <1>3 DEF Verified
  <2> HIDE DEF v
  <2>3. CASE ~v.ok
    <3>1. Verdict(v) = Refusal
      BY <2>3 DEF Verdict
    <3>2. Judged(p) = Refusal
      BY <2>1, <2>3 DEF Judged, Taken
    <3> QED BY <2>2, <3>1, <3>2
  <2>4. CASE v.ok
    <3>1. /\ FormOk(p) /\ PlayOk(p) /\ v.stages = Canon(p) /\ v.ticks = Sized(Plays(p))
          /\ v.lives = LivesLeft(Plays(p)) /\ v.cleared = Cleared(p) /\ v.last = End(p, n).status /\ n # 0
      <4>1. n # 0
        BY <1>3, RpLimits
      <4> QED BY <2>1, <2>4, <4>1 DEF Ranked
    <3>2. Len(v.stages) = n
      BY <3>1, RpCanons, EmptySeq DEF RpStages
    <3>3. (v.last = "won") <=> WonSoFar(p)
      BY <3>1 DEF WonSoFar
    <3>4. (v.last = "won" /\ Len(v.stages) < PfStages) <=> ~Taken(p)
      <4>1. n < PfStages <=> n # PfStages
        BY <1>1, <1>3, RpLimits
      <4> QED BY <1>3, <3>1, <3>2, <3>3, <4>1 DEF Taken
    <3>5. CASE Taken(p)
      <4>1. Verdict(v) = [ok |-> TRUE, proof |-> v.stages,
               summary |-> [lives |-> v.lives, reached |-> Len(v.stages), cleared |-> v.cleared,
                            completed |-> v.last = "won", ticks |-> v.ticks]]
        BY <2>4, <3>4, <3>5 DEF Verdict
      <4>2. (v.last = "won") = WonSoFar(p)
        BY <3>3 DEF WonSoFar
      <4> QED BY <2>2, <3>1, <3>2, <3>5, <4>1, <4>2 DEF Judged, SummaryOf
    <3>6. CASE ~Taken(p)
      BY <2>2, <3>4, <3>6 DEF Verdict, Judged
    <3> QED BY <3>5, <3>6
  <2> QED BY <2>3, <2>4
<1> QED BY <1>2, <1>3

(* The cabinet's verifier: the form of a proof.                            *)

RpParsing ==
  [ok : BOOLEAN, stages : RpStages, stageTicks : Nat, ticks : 0 .. PfMaxTotalTicks, runs : 0 .. PfMaxRuns,
   canonical : RpRunLists]

\* One run.
LEMMA RpParsesRun ==
  ASSUME NEW v \in RpParsing, NEW run \in RpRun
  PROVE  LET u == ParseRun(v, run)
         IN /\ u \in RpParsing /\ u.stages = v.stages
            /\ u.ok <=> /\ v.ok /\ run.ticks >= 1 /\ v.stageTicks + run.ticks <= PfMaxStageTicks
                        /\ v.ticks + run.ticks <= PfMaxTotalTicks /\ v.runs + 1 <= PfMaxRuns
            /\ u.ok => /\ u.stageTicks = v.stageTicks + run.ticks /\ u.ticks = v.ticks + run.ticks
                       /\ u.runs = v.runs + 1 /\ u.canonical = AppendRun(v.canonical, run)
<1> DEFINE Good == /\ run.ticks >= 1 /\ v.stageTicks + run.ticks <= PfMaxStageTicks
                   /\ v.ticks + run.ticks <= PfMaxTotalTicks /\ v.runs + 1 <= PfMaxRuns
           c == AppendRun(v.canonical, run)
           a == v.stageTicks + run.ticks
           b == v.ticks + run.ticks
           d == v.runs + 1
           z == [v EXCEPT !.stageTicks = a, !.ticks = b, !.runs = d, !.canonical = c]
<1>1. /\ v.ok \in BOOLEAN /\ v.stageTicks \in Nat /\ v.ticks \in Nat /\ v.runs \in Nat /\ v.canonical \in RpRunLists
      /\ run.ticks \in Nat
  BY RpLimits DEF RpParsing, RpRun
<1>2. c \in RpRunLists
  BY <1>1, RpAppended
<1> HIDE DEF c
<1>3. ParseRun(v, run) = IF Good THEN z ELSE Reject(v)
  <2>1. ~Good <=> \/ run.ticks < 1 \/ v.stageTicks + run.ticks > PfMaxStageTicks
                  \/ v.ticks + run.ticks > PfMaxTotalTicks \/ v.runs + 1 > PfMaxRuns
    BY <1>1, RpLimits
  <2>2. [v EXCEPT !.stageTicks = @ + run.ticks, !.ticks = @ + run.ticks, !.runs = @ + 1,
                  !.canonical = AppendRun(@, run)] = z
    BY DEF RpParsing, c
  <2> HIDE DEF Good, z
  <2> QED BY <2>1, <2>2 DEF ParseRun
<1>4. ASSUME Good
      PROVE  /\ z \in RpParsing /\ z.ok = v.ok /\ z.stages = v.stages /\ z.stageTicks = a /\ z.ticks = b /\ z.runs = d
             /\ z.canonical = c
  <2>1. a \in Nat /\ b \in 0 .. PfMaxTotalTicks /\ d \in 0 .. PfMaxRuns
    BY <1>1, <1>4, RpLimits
  <2> HIDE DEF a, b, d, Good
  <2> QED BY <1>2, <2>1 DEF RpParsing
<1>5. Reject(v) \in RpParsing /\ Reject(v).ok = FALSE /\ Reject(v).stages = v.stages
  BY DEF Reject, RpParsing
<1> HIDE DEF z, Good, a, b, d
<1>6. CASE Good
  <2>1. ParseRun(v, run) = z
    BY <1>3, <1>6
  <2> QED BY <1>4, <1>6, <2>1 DEF Good, a, b, c, d
<1>7. CASE ~Good
  <2>1. ParseRun(v, run) = Reject(v)
    BY <1>3, <1>7
  <2> QED BY <1>5, <1>7, <2>1 DEF Good
<1> QED BY <1>6, <1>7

\* All the runs of a stage.
RunsFit(v, runs) ==
  /\ AllTicked(runs) /\ Len(Expanded(runs)) <= PfMaxStageTicks
  /\ v.ticks + Len(Expanded(runs)) <= PfMaxTotalTicks /\ v.runs + Len(runs) <= PfMaxRuns
RunsFill(v, runs, w) ==
  /\ w.stageTicks = Len(Expanded(runs)) /\ w.ticks = v.ticks + Len(Expanded(runs))
  /\ w.runs = v.runs + Len(runs) /\ w.canonical = EncodeRuns(Expanded(runs))

\* The runs of a stage, for the parser of the cabinet.
LEMMA RpParsesList ==
  ASSUME NEW v \in RpParsing, v.stageTicks = 0, v.canonical = <<>>, NEW runs \in RpRunLists
  PROVE  LET w == ParseRuns(v, runs)
         IN /\ w \in RpParsing /\ w.stages = v.stages
            /\ (w.ok <=> v.ok /\ RunsFit(v, runs)) /\ (w.ok => RunsFill(v, runs, w))
<1> DEFINE P(q) == ParseRuns(v, q)
           T == {q \in RpRunLists : /\ P(q) \in RpParsing /\ P(q).stages = v.stages
                                    /\ (P(q).ok <=> v.ok /\ RunsFit(v, q)) /\ (P(q).ok => RunsFill(v, q, P(q)))}
<1>0. v.ok \in BOOLEAN /\ v.ticks \in 0 .. PfMaxTotalTicks /\ v.runs \in 0 .. PfMaxRuns /\ v.ticks \in Nat /\ v.runs \in Nat
  BY RpLimits DEF RpParsing
<1>1. Seq(RpRun) \subseteq T
  <2>1. <<>> \in T
    <3>1. P(<<>>) = v /\ Expanded(<<>>) = <<>> /\ EncodeRuns(<<>>) = <<>>
      BY RpParsesRunsBegins, RpFeedsBegins, RpEncodesBegins
    <3>2. <<>> \in RpRunLists /\ Len(<<>>) = 0
      BY EmptySeq DEF RpRunLists
    <3>3. RunsFit(v, <<>>)
      BY <1>0, <3>1, <3>2, RpLimits DEF RunsFit, AllTicked
    <3>4. RunsFill(v, <<>>, v)
      BY <1>0, <3>1, <3>2, RpLimits DEF RunsFill
    <3> QED BY <3>1, <3>2, <3>3, <3>4
  <2>2. ASSUME NEW q \in Seq(RpRun), NEW run \in RpRun, q \in T PROVE Append(q, run) \in T
    <3> DEFINE t == Append(q, run)
               w == P(q)
               u == P(t)
               s == Expanded(q)
               m == Len(s)
    <3>1. u = ParseRun(w, run)
      BY ParseRunsGrow
    <3>2. w \in RpParsing /\ w.stages = v.stages /\ (w.ok <=> v.ok /\ RunsFit(v, q)) /\ (w.ok => RunsFill(v, q, w))
      BY <2>2
    <3>3. q \in RpRunLists /\ t \in RpRunLists /\ Len(t) = Len(q) + 1 /\ Len(q) \in Nat
      BY AppendProperties, LenProperties DEF RpRunLists
    <3>4. s \in RpFed /\ Expanded(t) = s \o Ticks(run) /\ run.ticks \in Nat /\ Ticks(run) \in RpFed /\ Len(Ticks(run)) = run.ticks
      BY <3>3, RpExpands, RpTicked DEF RpRun
    <3>5. Len(Expanded(t)) = m + run.ticks /\ m \in Nat
      <4> HIDE DEF s, t
      <4>1. s \in Seq(RpInputs) /\ Ticks(run) \in Seq(RpInputs)
        BY <3>4 DEF RpFed
      <4>2. Len(s \o Ticks(run)) = Len(s) + Len(Ticks(run)) /\ Len(s) \in Nat
        BY <4>1, ConcatProperties, LenProperties
      <4> QED BY <3>4, <4>2
    <3>6. AllTicked(t) <=> AllTicked(q) /\ run.ticks >= 1
      BY <3>3, RpAllTicked
    <3>7. RunsFit(v, t) <=> /\ RunsFit(v, q) /\ run.ticks >= 1 /\ m + run.ticks <= PfMaxStageTicks
                            /\ (v.ticks + m) + run.ticks <= PfMaxTotalTicks /\ (v.runs + Len(q)) + 1 <= PfMaxRuns
      <4> HIDE DEF t, s
      <4>1. RunsFit(v, t) <=> /\ AllTicked(t) /\ m + run.ticks <= PfMaxStageTicks
                              /\ v.ticks + (m + run.ticks) <= PfMaxTotalTicks /\ v.runs + (Len(q) + 1) <= PfMaxRuns
        BY <3>3, <3>5 DEF RunsFit
      <4>2. RunsFit(v, q) <=> /\ AllTicked(q) /\ m <= PfMaxStageTicks
                              /\ v.ticks + m <= PfMaxTotalTicks /\ v.runs + Len(q) <= PfMaxRuns
        BY DEF RunsFit, s
      <4> DEFINE k == run.ticks
                 a == v.ticks
                 c == v.runs
                 d == Len(q)
      <4>3. m \in Nat /\ k \in Nat /\ a \in Nat /\ c \in Nat /\ d \in Nat
        BY <1>0, <3>3, <3>4, <3>5
      <4> HIDE DEF m, k, a, c, d
      <4>4. /\ m + k <= PfMaxStageTicks => m <= PfMaxStageTicks
            /\ a + (m + k) <= PfMaxTotalTicks => a + m <= PfMaxTotalTicks
            /\ c + (d + 1) <= PfMaxRuns => c + d <= PfMaxRuns
            /\ a + (m + k) = (a + m) + k /\ c + (d + 1) = (c + d) + 1
        BY <4>3, RpLimits
      <4> QED BY <3>6, <4>1, <4>2, <4>4 DEF k, a, c, d
    <3>8. /\ u \in RpParsing /\ u.stages = w.stages
          /\ u.ok <=> /\ w.ok /\ run.ticks >= 1 /\ w.stageTicks + run.ticks <= PfMaxStageTicks
                      /\ w.ticks + run.ticks <= PfMaxTotalTicks /\ w.runs + 1 <= PfMaxRuns
          /\ u.ok => /\ u.stageTicks = w.stageTicks + run.ticks /\ u.ticks = w.ticks + run.ticks
                     /\ u.runs = w.runs + 1 /\ u.canonical = AppendRun(w.canonical, run)
      BY <3>1, <3>2, RpParsesRun
    <3> HIDE DEF T, t, w, u, P
    <3>9. ASSUME w.ok PROVE w.stageTicks = m /\ w.ticks = v.ticks + m /\ w.runs = v.runs + Len(q) /\ w.canonical = EncodeRuns(s)
      BY <3>2, <3>9 DEF RunsFill
    <3> HIDE DEF s, m
    <3>10. u.ok <=> v.ok /\ RunsFit(v, t)
      BY <3>2, <3>7, <3>8, <3>9
    <3>11. ASSUME u.ok PROVE RunsFill(v, t, u)
      <4>1. w.ok /\ run.ticks >= 1
        BY <3>8, <3>11
      <4>2. u.canonical = EncodeRuns(Expanded(t))
        <5>1. EncodeRuns(s \o Ticks(run)) = AppendRun(EncodeRuns(s), run)
          BY <3>4, <4>1, RpEncodesRun
        <5> QED BY <3>4, <3>8, <3>9, <3>11, <4>1, <5>1
      <4>3. u.stageTicks = m + run.ticks /\ u.ticks = v.ticks + (m + run.ticks) /\ u.runs = v.runs + (Len(q) + 1)
        <5>1. u.stageTicks = m + run.ticks /\ u.ticks = (v.ticks + m) + run.ticks /\ u.runs = (v.runs + Len(q)) + 1
          BY <3>8, <3>9, <3>11, <4>1
        <5>2. /\ m \in Nat /\ run.ticks \in Nat /\ v.ticks \in Nat /\ v.runs \in Nat /\ Len(q) \in Nat
          BY <1>0, <3>3, <3>4, <3>5
        <5> QED BY <5>1, <5>2
      <4> QED BY <3>3, <3>5, <4>2, <4>3 DEF RunsFill
    <3>12. t \in T
      BY <3>2, <3>3, <3>8, <3>10, <3>11 DEF T, u
    <3> QED BY <3>12 DEF t
  <2> HIDE DEF T
  <2> QED BY <2>1, <2>2, Growing
<1>2. runs \in T
  BY <1>1 DEF RpRunLists
<1>3. \A q \in T : /\ P(q) \in RpParsing /\ P(q).stages = v.stages
                  /\ (P(q).ok <=> v.ok /\ RunsFit(v, q)) /\ (P(q).ok => RunsFill(v, q, P(q)))
  OBVIOUS
<1>4. /\ P(runs) \in RpParsing /\ P(runs).stages = v.stages
      /\ (P(runs).ok <=> v.ok /\ RunsFit(v, runs)) /\ (P(runs).ok => RunsFill(v, runs, P(runs)))
  <2> HIDE DEF T, P
  <2> QED BY <1>2, <1>3
<1> QED BY <1>4

\* A stage.
StageFits(v, s) ==
  LET n == Len(v.stages) + 1
  IN /\ n <= PfStages /\ FormOf(n, s)
     /\ v.ticks + Len(Expanded(s.runs)) <= PfMaxTotalTicks /\ v.runs + Len(s.runs) <= PfMaxRuns

\* A stage, for the parser of the cabinet (cabinet-proof.ts, parse).
LEMMA RpParsesStage ==
  ASSUME NEW v \in RpParsing, NEW s \in RpStage
  PROVE  LET u == ParseStage(v, s)
         IN /\ u \in RpParsing /\ (u.ok <=> v.ok /\ StageFits(v, s))
            /\ u.ok => /\ u.stages = Append(v.stages, CanonOf(s)) /\ u.runs = v.runs + Len(s.runs)
                       /\ u.ticks = v.ticks + Len(Expanded(s.runs))
<1> DEFINE runs == s.runs
           n == Len(v.stages) + 1
           e == [v EXCEPT !.stageTicks = 0, !.canonical = <<>>]
           w == ParseRuns(e, runs)
           added == [id |-> n, runs |-> w.canonical]
           z == [w EXCEPT !.stages = Append(w.stages, added)]
           Bad == n > PfStages \/ s.id # n \/ Len(runs) \notin 1..PfMaxRuns
<1>1. runs \in RpRunLists /\ s.id \in Nat
  BY DEF RpStage
<1>2. v.stages \in RpStages /\ n \in Nat /\ v.ok \in BOOLEAN /\ n = Len(v.stages) + 1
  BY LenProperties DEF RpParsing, RpStages
<1> HIDE DEF n, runs
<1>3. /\ e \in RpParsing /\ e.stageTicks = 0 /\ e.canonical = <<>> /\ e.ok = v.ok /\ e.stages = v.stages
      /\ e.ticks = v.ticks /\ e.runs = v.runs
  <2> DEFINE c == <<>>
  <2>1. c \in RpRunLists
    BY EmptySeq DEF RpRunLists
  <2>2. e = [v EXCEPT !.stageTicks = 0, !.canonical = c]
    OBVIOUS
  <2> HIDE DEF c, e
  <2>3. e.canonical = c /\ e \in RpParsing /\ e.stageTicks = 0 /\ e.ok = v.ok /\ e.stages = v.stages
        /\ e.ticks = v.ticks /\ e.runs = v.runs
    BY <2>1, <2>2 DEF RpParsing
  <2> QED BY <2>3 DEF c
<1> HIDE DEF e
<1>4. w \in RpParsing /\ w.stages = v.stages /\ (w.ok <=> v.ok /\ RunsFit(e, runs)) /\ (w.ok => RunsFill(e, runs, w))
  <2>1. LET x == ParseRuns(e, runs)
        IN /\ x \in RpParsing /\ x.stages = e.stages
           /\ (x.ok <=> e.ok /\ RunsFit(e, runs)) /\ (x.ok => RunsFill(e, runs, x))
    <3> HIDE DEF w
    <3> QED BY <1>1, <1>3, RpParsesList
  <2> QED BY <1>3, <2>1
<1> HIDE DEF w
<1>5. ParseStage(v, s) = IF Bad THEN Reject(v) ELSE z
  <2>1. [w EXCEPT !.stages = Append(@, added)] = z
    BY <1>4 DEF RpParsing
  <2> HIDE DEF z
  <2> QED BY <2>1 DEF ParseStage, w, e, runs, n, added
<1>6. added \in RpStage /\ Append(w.stages, added) \in RpStages
  <2>1. w.canonical \in RpRunLists
    BY <1>4 DEF RpParsing
  <2>2. added \in RpStage
    BY <1>2, <2>1 DEF RpStage
  <2> HIDE DEF added
  <2> QED BY <1>2, <1>4, <2>2, AppendProperties DEF RpStages
<1>7. z \in RpParsing /\ z.ok = w.ok /\ z.ticks = w.ticks /\ z.runs = w.runs /\ z.stages = Append(v.stages, added)
  <2> DEFINE y == Append(w.stages, added)
  <2>1. y \in RpStages
    BY <1>6
  <2> HIDE DEF y
  <2>2. [w EXCEPT !.stages = y] \in RpParsing /\ [w EXCEPT !.stages = y].ok = w.ok /\ [w EXCEPT !.stages = y].ticks = w.ticks
        /\ [w EXCEPT !.stages = y].runs = w.runs /\ [w EXCEPT !.stages = y].stages = y
    BY <1>4, <2>1 DEF RpParsing
  <2> QED BY <1>4, <2>2 DEF y
<1>8. Reject(v) \in RpParsing /\ Reject(v).ok = FALSE
  BY DEF Reject, RpParsing
<1>9. v.ok /\ StageFits(v, s) <=> ~Bad /\ w.ok
  <2>1. RunsFit(e, runs) <=> /\ AllTicked(runs) /\ Len(Expanded(runs)) <= PfMaxStageTicks
                             /\ v.ticks + Len(Expanded(runs)) <= PfMaxTotalTicks /\ v.runs + Len(runs) <= PfMaxRuns
    BY <1>3 DEF RunsFit
  <2>2. n > PfStages <=> ~ (n <= PfStages)
    BY <1>2, RpLimits
  <2>3. StageFits(v, s) <=> /\ n <= PfStages /\ s.id = n /\ Len(runs) \in 1 .. PfMaxRuns /\ AllTicked(runs)
                            /\ Len(Expanded(runs)) <= PfMaxStageTicks
                            /\ v.ticks + Len(Expanded(runs)) <= PfMaxTotalTicks /\ v.runs + Len(runs) <= PfMaxRuns
    BY DEF StageFits, FormOf, n, runs
  <2> QED BY <1>4, <2>1, <2>2, <2>3
<1> HIDE DEF z, added, Bad
<1>10. CASE ~Bad /\ w.ok
  <2>1. ParseStage(v, s) = z /\ z.ok /\ s.id = n
    BY <1>5, <1>7, <1>10 DEF Bad
  <2>2. w.ticks = v.ticks + Len(Expanded(runs)) /\ w.runs = v.runs + Len(runs) /\ w.canonical = EncodeRuns(Expanded(runs))
    BY <1>3, <1>4, <1>10 DEF RunsFill
  <2>3. added = CanonOf(s)
    BY <2>1, <2>2 DEF added, CanonOf, runs
  <2> QED BY <1>7, <1>9, <1>10, <2>1, <2>2, <2>3 DEF runs
<1>11. CASE ~ (~Bad /\ w.ok)
  <2>1. ParseStage(v, s) \in RpParsing /\ ~ParseStage(v, s).ok
    BY <1>5, <1>7, <1>8, <1>11
  <2> QED BY <1>9, <1>11, <2>1
<1> QED BY <1>10, <1>11

\* A proof.
Opening(b) == [ok |-> b, stages |-> <<>>, stageTicks |-> 0, ticks |-> 0, runs |-> 0, canonical |-> <<>>]

\* The stages of a proof, for the parser of the cabinet.
LEMMA RpParsesProof ==
  ASSUME NEW b \in BOOLEAN, NEW p \in RpStages
  PROVE  LET v == ParseStages(Opening(b), p)
         IN /\ v \in RpParsing /\ (v.ok <=> b /\ Len(p) <= PfStages /\ FormOk(p))
            /\ v.ok => v.stages = Canon(p) /\ v.ticks = Sized(Plays(p)) /\ v.runs = Sized(RunLists(p))
<1> DEFINE V(q) == ParseStages(Opening(b), q)
           T == {q \in RpStages :
                   /\ V(q) \in RpParsing /\ (V(q).ok <=> b /\ Len(q) <= PfStages /\ FormOk(q))
                   /\ V(q).ok => V(q).stages = Canon(q) /\ V(q).ticks = Sized(Plays(q)) /\ V(q).runs = Sized(RunLists(q))}
<1>1. Seq(RpStage) \subseteq T
  <2>1. <<>> \in T
    <3>1. V(<<>>) = Opening(b)
      BY RpParsesStagesBegins
    <3>2. Opening(b) \in RpParsing
      <4>1. <<>> \in RpRunLists /\ <<>> \in RpStages
        BY EmptySeq DEF RpRunLists, RpStages
      <4>2. 0 \in 0 .. PfMaxTotalTicks /\ 0 \in 0 .. PfMaxRuns
        BY RpLimits
      <4> QED BY <4>1, <4>2 DEF RpParsing, Opening
    <3>3. Opening(b).ok = b /\ Opening(b).stages = <<>> /\ Opening(b).ticks = 0 /\ Opening(b).runs = 0
      BY DEF Opening
    <3> HIDE DEF V
    <3> QED BY <3>1, <3>2, <3>3, RpNone0, RpLimits
  <2>2. ASSUME NEW q \in Seq(RpStage), NEW s \in RpStage, q \in T PROVE Append(q, s) \in T
    <3> DEFINE t == Append(q, s)
               n == Len(q)
               play == Expanded(s.runs)
               v == V(q)
               u == V(t)
    <3>1. q \in RpStages /\ t \in RpStages /\ Len(t) = n + 1 /\ n \in Nat
      <4>1. q \in RpStages
        BY DEF RpStages
      <4> QED BY <4>1, RpStageMore
    <3>2. u = ParseStage(v, s)
      BY ParseStagesGrow
    <3>3. FormOk(t) <=> /\ FormOk(q) /\ FormOf(n + 1, s) /\ Sized(Plays(q)) + Len(play) <= PfMaxTotalTicks
                        /\ Sized(RunLists(q)) + Len(s.runs) <= PfMaxRuns
      BY <3>1, RpFormMore
    <3>4. /\ Sized(Plays(t)) = Sized(Plays(q)) + Len(play) /\ Sized(RunLists(t)) = Sized(RunLists(q)) + Len(s.runs)
          /\ Canon(t) = Append(Canon(q), CanonOf(s)) /\ Len(Canon(q)) = n
      BY <3>1, RpStageSizes
    <3>5. /\ v \in RpParsing /\ (v.ok <=> b /\ n <= PfStages /\ FormOk(q))
          /\ v.ok => v.stages = Canon(q) /\ v.ticks = Sized(Plays(q)) /\ v.runs = Sized(RunLists(q))
      BY <2>2
    <3>6. /\ u \in RpParsing /\ (u.ok <=> v.ok /\ StageFits(v, s))
          /\ u.ok => /\ u.stages = Append(v.stages, CanonOf(s)) /\ u.runs = v.runs + Len(s.runs)
                     /\ u.ticks = v.ticks + Len(play)
      BY <3>2, <3>5, RpParsesStage
    <3> HIDE DEF T, t, n, play, v, u, V
    <3>7. u.ok <=> b /\ Len(t) <= PfStages /\ FormOk(t)
      <4>1. n + 1 <= PfStages => n <= PfStages
        BY <3>1, RpLimits
      <4>2. CASE ~v.ok
        BY <3>1, <3>3, <3>5, <3>6, <4>1, <4>2
      <4>3. CASE v.ok
        <5>1. StageFits(v, s) <=> /\ n + 1 <= PfStages /\ FormOf(n + 1, s)
                                  /\ Sized(Plays(q)) + Len(play) <= PfMaxTotalTicks
                                  /\ Sized(RunLists(q)) + Len(s.runs) <= PfMaxRuns
          BY <3>4, <3>5, <4>3 DEF StageFits, play
        <5> QED BY <3>1, <3>3, <3>5, <3>6, <4>3, <5>1
      <4> QED BY <4>2, <4>3
    <3>8. ASSUME u.ok PROVE u.stages = Canon(t) /\ u.ticks = Sized(Plays(t)) /\ u.runs = Sized(RunLists(t))
      BY <3>4, <3>5, <3>6, <3>8
    <3> QED BY <3>1, <3>6, <3>7, <3>8 DEF T, u, t
  <2> HIDE DEF T
  <2> QED BY <2>1, <2>2, Growing
<1>2. p \in T
  BY <1>1 DEF RpStages
<1>3. \A q \in T :
        /\ V(q) \in RpParsing /\ (V(q).ok <=> b /\ Len(q) <= PfStages /\ FormOk(q))
        /\ V(q).ok => V(q).stages = Canon(q) /\ V(q).ticks = Sized(Plays(q)) /\ V(q).runs = Sized(RunLists(q))
  OBVIOUS
<1>4. /\ V(p) \in RpParsing /\ (V(p).ok <=> b /\ Len(p) <= PfStages /\ FormOk(p))
      /\ V(p).ok => V(p).stages = Canon(p) /\ V(p).ticks = Sized(Plays(p)) /\ V(p).runs = Sized(RunLists(p))
  <2> HIDE DEF T, V
  <2> QED BY <1>2, <1>3
<1> QED BY <1>4

\* It parses exactly what has the form, to the one form.
LEMMA RpParsed ==
  ASSUME NEW p \in RpStages
  PROVE  /\ Parsed(p).ok <=> Len(p) \in 1 .. PfStages /\ FormOk(p)
         /\ Parsed(p).ok => Parsed(p).stages = Canon(p)
<1> DEFINE b == Len(p) >= 1
<1>1. Len(p) \in Nat /\ b \in BOOLEAN
  BY LenProperties DEF RpStages
<1>2. Parsed(p) = ParseStages(Opening(b), p)
  BY DEF Parsed, Opening
<1>3. b /\ Len(p) <= PfStages <=> Len(p) \in 1 .. PfStages
  BY <1>1, RpLimits
<1> HIDE DEF b
<1> DEFINE v == ParseStages(Opening(b), p)
<1>4. (v.ok <=> b /\ Len(p) <= PfStages /\ FormOk(p)) /\ (v.ok => v.stages = Canon(p))
  BY <1>1, RpParsesProof
<1> HIDE DEF v
<1>5. Parsed(p) = v
  BY <1>2 DEF v
<1> QED BY <1>3, <1>4, <1>5

(* The cabinet's verifier: the engine.                                     *)

RpEnds == [status : {"running", "won", "lost"}, lives : 0 .. PfLives]
RpExecuting ==
  [ok : BOOLEAN, lives : 0 .. PfLives, reached : Nat, cleared : Nat, ticks : Nat, finals : Seq(RpEnds)]

\* One stage.
LEMMA RpExecutesNext ==
  ASSUME NEW v \in RpExecuting, v.ok, v.lives # 0, NEW s \in RpStage, s.id \in 1 .. PfStages,
         Len(Expanded(s.runs)) <= PfMaxStageTicks, NEW isLast \in BOOLEAN
  PROVE  LET u == ExecuteNext(v, s, isLast)
             play == Expanded(s.runs)
             o == PfOutcome(s.id, v.lives, play)
         IN /\ u \in RpExecuting /\ (u.ok <=> PlayOf(s.id, v.lives, play) /\ (o.status = "lost" => isLast))
            /\ u.ok => /\ u.lives = o.lives /\ u.reached = v.reached + 1 /\ u.ticks = v.ticks + Len(play)
                       /\ u.cleared = IF o.status = "won" THEN v.cleared + 1 ELSE v.cleared
                       /\ u.finals = Append(v.finals, o)
<1> DEFINE play == Expanded(s.runs)
           n == s.id
           lives == v.lives
           o == PfOutcome(n, lives, play)
           end == FedRuns(Fresh(s.id, v.lives), s.runs)
           a == v.reached + 1
           b == v.ticks + Len(play)
           c == IF o.status = "won" THEN v.cleared + 1 ELSE v.cleared
           d == Append(v.finals, o)
           z == [v EXCEPT !.lives = o.lives, !.reached = a, !.ticks = b, !.cleared = c, !.finals = d]
           Bad == \/ ~v.ok \/ o.status = "running" \/ (o.status = "lost" /\ ~isLast)
                  \/ \E k \in 0..(Len(end.fed) - 1) :
                       Outcome([end EXCEPT !.fed = SubSeq(@, 1, k)]).status # "running"
<1>1. play \in RpFed /\ Len(play) \in Nat /\ lives \in 1 .. PfLives
  <2>1. play \in RpFed
    BY RpExpandedIsFed DEF RpStage
  <2>2. lives \in 0 .. PfLives
    BY DEF RpExecuting
  <2> QED BY <2>1, <2>2, LenProperties, RpLimits DEF RpFed
<1>2. end = [stage |-> n, lives |-> lives, fed |-> play]
  <2>1. <<>> \o play = play
    BY <1>1, ConcatEmptySeq DEF RpFed
  <2> DEFINE y == <<>> \o play
  <2>2. end = [stage |-> n, lives |-> lives, fed |-> y]
    BY DEF FedRuns, Fresh
  <2> QED BY <2>1, <2>2
<1>3. /\ o.status \in {"running", "won", "lost"} /\ o.lives \in 0 .. PfLives /\ o = [status |-> o.status, lives |-> o.lives]
  <2> HIDE DEF o, lives, play
  <2> QED BY <1>1, RpOutcome DEF o, play
<1> HIDE DEF o, play, end
<1>4. o \in RpEnds
  BY <1>3 DEF RpEnds
<1>5. ASSUME NEW k \in 0 .. Len(play) - 1
      PROVE  Outcome([end EXCEPT !.fed = SubSeq(@, 1, k)]) = PfOutcome(n, lives, SubSeq(play, 1, k))
  <2> DEFINE y == SubSeq(play, 1, k)
  <2>1. [end EXCEPT !.fed = SubSeq(@, 1, k)] = [stage |-> n, lives |-> lives, fed |-> y]
    <3>1. \A x : [end EXCEPT !.fed = x] = [stage |-> n, lives |-> lives, fed |-> x]
      BY <1>2
    <3>2. end.fed = play
      BY <1>2
    <3>3. [end EXCEPT !.fed = SubSeq(end.fed, 1, k)] = [stage |-> n, lives |-> lives, fed |-> SubSeq(play, 1, k)]
      BY <3>1, <3>2, Zenon
    <3> QED BY <3>3, Zenon DEF y
  <2> HIDE DEF y
  <2> QED BY <2>1 DEF Outcome, y
<1>6. Outcome(end) = o
  BY <1>2 DEF Outcome, o, play
<1>7. ExecuteNext(v, s, isLast) = IF Bad THEN Reject(v) ELSE z
  <2>1. end.fed = play
    BY <1>2
  <2>2. [v EXCEPT !.lives = o.lives, !.reached = @ + 1, !.ticks = @ + Len(end.fed),
                 !.cleared = IF o.status = "won" THEN @ + 1 ELSE @, !.finals = Append(@, o)] = z
    BY <2>1 DEF RpExecuting
  <2>3. ExecuteNext(v, s, isLast) = ExecuteStage(v, end, o, isLast)
    BY <1>6 DEF ExecuteNext, end
  <2> HIDE DEF z
  <2> QED BY <2>2, <2>3 DEF ExecuteStage
<1>8. Bad <=> ~ (PlayOf(n, lives, play) /\ (o.status = "lost" => isLast))
  <2>1. end.fed = play
    BY <1>2
  <2>2. (\E k \in 0..(Len(end.fed) - 1) : Outcome([end EXCEPT !.fed = SubSeq(@, 1, k)]).status # "running")
          <=> ~GoesOn(n, lives, play)
    BY <1>5, <2>1 DEF GoesOn
  <2>3. PlayOf(n, lives, play) <=> GoesOn(n, lives, play) /\ o.status # "running"
    BY DEF PlayOf, o, play
  <2> QED BY <2>2, <2>3
<1>9. Reject(v) \in RpExecuting /\ Reject(v).ok = FALSE
  BY DEF Reject, RpExecuting
<1>10. /\ z \in RpExecuting /\ z.ok = v.ok /\ z.lives = o.lives /\ z.reached = a /\ z.ticks = b /\ z.cleared = c
       /\ z.finals = d
  <2>1. a \in Nat /\ b \in Nat /\ c \in Nat
    BY <1>1 DEF RpExecuting
  <2>2. d \in Seq(RpEnds)
    <3>1. v.finals \in Seq(RpEnds)
      BY DEF RpExecuting
    <3> QED BY <1>4, <3>1, AppendProperties
  <2> DEFINE l == o.lives
  <2>3. l \in 0 .. PfLives
    BY <1>3
  <2> HIDE DEF a, b, c, d, l
  <2>4. [v EXCEPT !.lives = l, !.reached = a, !.ticks = b, !.cleared = c, !.finals = d] \in RpExecuting
    BY <2>1, <2>2, <2>3 DEF RpExecuting
  <2>5. LET y == [v EXCEPT !.lives = l, !.reached = a, !.ticks = b, !.cleared = c, !.finals = d]
        IN y.ok = v.ok /\ y.lives = l /\ y.reached = a /\ y.ticks = b /\ y.cleared = c /\ y.finals = d
    BY DEF RpExecuting
  <2> QED BY <2>4, <2>5 DEF l
<1> HIDE DEF z, Bad, a, b, c, d
<1>11. CASE Bad
  <2>1. ExecuteNext(v, s, isLast) = Reject(v)
    BY <1>7, <1>11
  <2> QED BY <1>8, <1>9, <1>11, <2>1 DEF o, play
<1>12. CASE ~Bad
  <2>1. ExecuteNext(v, s, isLast) = z
    BY <1>7, <1>12
  <2> QED BY <1>8, <1>10, <1>12, <2>1 DEF o, play, a, b, c, d
<1> QED BY <1>11, <1>12

\* The stages of a proof so far, as to which is the last.
Run0 == [ok |-> TRUE, lives |-> PfLives, reached |-> 0, cleared |-> 0, ticks |-> 0, finals |-> <<>>]
Measured(q) ==
  /\ \A i \in 1 .. Len(q) : q[i].id = i
  /\ \A i \in 1 .. Len(q) : Len(Plays(q)[i]) <= PfMaxStageTicks
Ran(q, v) ==
  /\ v.lives = LivesLeft(Plays(q)) /\ v.reached = Len(q) /\ v.cleared = Cleared(q) /\ v.ticks = Sized(Plays(q))
  /\ Len(v.finals) = Len(q) /\ \A i \in 1 .. Len(q) : v.finals[i] = End(q, i)

\* The cabinet executes a proof to its end exactly if its play is right (cabinet-proof.ts, execute).
LEMMA RpRuns ==
  ASSUME NEW N \in 1 .. PfStages, NEW p \in RpStages, Len(p) <= N, Measured(p)
  PROVE  LET v == ExecuteStages(Run0, p, N)
         IN v \in RpExecuting /\ (v.ok <=> PlayOk(p) /\ (Len(p) < N => WonSoFar(p))) /\ (v.ok => Ran(p, v))
<1> DEFINE V(q) == ExecuteStages(Run0, q, N)
           T == {q \in RpStages : Len(q) <= N /\ Measured(q) =>
                   /\ V(q) \in RpExecuting /\ (V(q).ok <=> PlayOk(q) /\ (Len(q) < N => WonSoFar(q)))
                   /\ (V(q).ok => Ran(q, V(q)))}
<1>1. Seq(RpStage) \subseteq T
  <2>1. <<>> \in T
    <3>1. V(<<>>) = Run0
      BY RpExecutesBegins
    <3>2. Run0 \in RpExecuting
      <4>1. <<>> \in Seq(RpEnds) /\ PfLives \in 0 .. PfLives
        BY EmptySeq, RpLimits
      <4> QED BY <4>1 DEF RpExecuting, Run0
    <3>3. Ran(<<>>, Run0)
      BY RpNone0 DEF Ran, Run0
    <3>4. Run0.ok
      BY DEF Run0
    <3> HIDE DEF V
    <3> QED BY <3>1, <3>2, <3>3, <3>4, RpNone0
  <2>2. ASSUME NEW q \in Seq(RpStage), NEW s \in RpStage, q \in T PROVE Append(q, s) \in T
    <3> DEFINE t == Append(q, s)
               n == Len(q)
               lives == LivesLeft(Plays(q))
               play == Expanded(s.runs)
               o == PfOutcome(n + 1, lives, play)
               v == V(q)
               u == V(t)
    <3>1. q \in RpStages /\ t \in RpStages /\ Len(t) = n + 1 /\ n \in Nat /\ t[n + 1] = s
      <4>1. q \in RpStages
        BY DEF RpStages
      <4> QED BY <4>1, RpStageMore
    <3>1a. \A i \in 1 .. n : t[i] = q[i] /\ Plays(t)[i] = Plays(q)[i] /\ End(t, i) = End(q, i)
      BY <3>1, RpStageMore
    <3>2. u = ExecuteNext(v, s, s.id = N)
      BY ExecuteStagesGrow
    <3>4. PlayOk(t) <=> PlayOk(q) /\ WonSoFar(q) /\ PlayOf(n + 1, lives, play)
      BY <3>1, RpPlayMore
    <3>5. End(t, n + 1) = o /\ LivesLeft(Plays(t)) = o.lives /\ Plays(t)[n + 1] = play
      BY <3>1, RpStageMore
    <3>6. Sized(Plays(t)) = Sized(Plays(q)) + Len(play)
      BY <3>1, RpStageSizes
    <3>7. n <= N /\ Measured(q) => v \in RpExecuting /\ (v.ok <=> PlayOk(q) /\ (n < N => WonSoFar(q))) /\ (v.ok => Ran(q, v))
      BY <2>2
    <3>8. n <= PfStages /\ PlayOk(q) /\ (\A i \in 1 .. n : Len(Plays(q)[i]) <= PfMaxStageTicks) =>
            lives \in 0 .. PfLives /\ (WonSoFar(q) => lives # 0)
      BY <3>1, RpLively
    <3> HIDE DEF T, t, n, lives, play, o, v, u, V
    <3>9. ASSUME n + 1 <= N, Measured(t)
          PROVE  u \in RpExecuting /\ (u.ok <=> PlayOk(t) /\ (n + 1 < N => WonSoFar(t))) /\ (u.ok => Ran(t, u))
      <4>1. Measured(q) /\ s.id = n + 1 /\ Len(play) <= PfMaxStageTicks
        <5>1. n + 1 \in 1 .. n + 1 /\ \A i \in 1 .. n : i \in 1 .. n + 1
          BY <3>1
        <5> QED BY <3>1, <3>1a, <3>5, <3>9, <5>1 DEF Measured, n
      <4>2. n <= N /\ n < N /\ n + 1 \in 1 .. PfStages /\ n <= PfStages /\ (n + 1 = N <=> ~ (n + 1 < N))
        BY <3>1, <3>9, RpLimits
      <4>3. v \in RpExecuting /\ (v.ok <=> PlayOk(q) /\ WonSoFar(q)) /\ (v.ok => Ran(q, v))
        BY <3>7, <4>1, <4>2
      <4>4. CASE ~v.ok
        <5>1. u = Reject(v)
          BY <3>2, <4>4 DEF ExecuteNext, ExecuteStage
        <5>2. u \in RpExecuting /\ ~u.ok
          BY <4>3, <5>1 DEF Reject, RpExecuting
        <5> QED BY <3>4, <4>3, <4>4, <5>2
      <4>5. CASE v.ok
        <5>1. PlayOk(q) /\ WonSoFar(q) /\ Ran(q, v)
          BY <4>3, <4>5
        <5>2. v.lives = lives /\ v.reached = n /\ v.cleared = Cleared(q) /\ v.ticks = Sized(Plays(q))
              /\ Len(v.finals) = n /\ \A i \in 1 .. n : v.finals[i] = End(q, i)
          BY <5>1 DEF Ran, lives, n
        <5>3. lives \in 1 .. PfLives
          <6>1. lives \in 0 .. PfLives /\ lives # 0
            BY <3>8, <4>1, <4>2, <5>1 DEF Measured, n
          <6> QED BY <6>1, RpLimits
        <5>4. /\ u \in RpExecuting /\ (u.ok <=> PlayOf(n + 1, lives, play) /\ (o.status = "lost" => n + 1 = N))
              /\ u.ok => /\ u.lives = o.lives /\ u.reached = v.reached + 1 /\ u.ticks = v.ticks + Len(play)
                         /\ u.cleared = IF o.status = "won" THEN v.cleared + 1 ELSE v.cleared
                         /\ u.finals = Append(v.finals, o)
          <6> DEFINE last == s.id = N
          <6>1. v.ok /\ v.lives # 0 /\ s.id \in 1 .. PfStages /\ Len(Expanded(s.runs)) <= PfMaxStageTicks /\ last \in BOOLEAN
            BY <4>1, <4>2, <4>5, <5>2, <5>3 DEF play
          <6> HIDE DEF last
          <6>2. LET x == ExecuteNext(v, s, last)
                    y == Expanded(s.runs)
                    z == PfOutcome(s.id, v.lives, y)
                IN /\ x \in RpExecuting /\ (x.ok <=> PlayOf(s.id, v.lives, y) /\ (z.status = "lost" => last))
                   /\ x.ok => /\ x.lives = z.lives /\ x.reached = v.reached + 1 /\ x.ticks = v.ticks + Len(y)
                              /\ x.cleared = IF z.status = "won" THEN v.cleared + 1 ELSE v.cleared
                              /\ x.finals = Append(v.finals, z)
            BY <4>3, <6>1, RpExecutesNext
          <6>3. u = ExecuteNext(v, s, last) /\ (last <=> n + 1 = N)
            BY <3>2, <4>1 DEF last
          <6> QED BY <4>1, <5>2, <6>2, <6>3 DEF o, play
        <5>5. o.status \in {"running", "won", "lost"}
          <6>1. play \in RpFed
            BY RpExpandedIsFed DEF play, RpStage
          <6> QED BY <4>1, <4>2, <5>3, <6>1, RpOutcome DEF o
        <5>6. PlayOf(n + 1, lives, play) => o.status # "running"
          BY DEF PlayOf, o
        <5>7. WonSoFar(t) <=> o.status = "won"
          BY <3>1, <3>5 DEF WonSoFar
        <5>8. u.ok <=> PlayOk(t) /\ (n + 1 < N => WonSoFar(t))
          BY <3>4, <4>2, <5>1, <5>4, <5>5, <5>6, <5>7
        <5>9. ASSUME u.ok PROVE Ran(t, u)
          <6>1. u.lives = LivesLeft(Plays(t)) /\ u.reached = Len(t) /\ u.ticks = Sized(Plays(t))
            BY <3>1, <3>5, <3>6, <5>2, <5>4, <5>9
          <6>2. u.cleared = Cleared(t)
            <7>1. v.cleared = n
              BY <5>1, <5>2 DEF Cleared, n
            <7>2. u.cleared = IF o.status = "won" THEN n + 1 ELSE n
              BY <5>4, <5>9, <7>1
            <7> QED BY <3>1, <5>7, <7>2 DEF Cleared
          <6>3. Len(u.finals) = Len(t) /\ u.finals[n + 1] = o /\ \A i \in 1 .. n : u.finals[i] = v.finals[i]
            <7> DEFINE f == v.finals
            <7>1. f \in Seq(RpEnds) /\ o \in RpEnds /\ Len(f) = n
              <8>1. o = [status |-> o.status, lives |-> o.lives] /\ o.lives \in 0 .. PfLives
                <9>1. play \in RpFed
                  BY RpExpandedIsFed DEF play, RpStage
                <9> QED BY <4>1, <4>2, <5>3, <9>1, RpOutcome DEF o
              <8> QED BY <4>3, <5>2, <5>5, <8>1 DEF RpEnds, RpExecuting
            <7> HIDE DEF f
            <7>2. /\ Len(Append(f, o)) = Len(f) + 1 /\ Append(f, o)[Len(f) + 1] = o
                  /\ \A i \in 1 .. Len(f) : Append(f, o)[i] = f[i]
              BY <7>1, AppendProperties
            <7>3. u.finals = Append(f, o)
              BY <5>4, <5>9 DEF f
            <7> DEFINE w == Append(f, o)
            <7> HIDE DEF w
            <7>4. u.finals = w /\ Len(w) = Len(f) + 1 /\ w[Len(f) + 1] = o /\ \A i \in 1 .. Len(f) : w[i] = f[i]
              BY <7>2, <7>3 DEF w
            <7> QED BY <3>1, <7>1, <7>4 DEF f
          <6>4. ASSUME NEW i \in 1 .. Len(t) PROVE u.finals[i] = End(t, i)
            <7>1. i \in 1 .. n \/ i = n + 1
              BY <3>1
            <7> QED BY <3>1a, <3>5, <5>2, <6>3, <7>1
          <6> QED BY <6>1, <6>2, <6>3, <6>4 DEF Ran
        <5> QED BY <5>4, <5>8, <5>9
      <4> QED BY <4>4, <4>5
    <3>10. t \in T
      BY <3>1, <3>9 DEF T, u
    <3> QED BY <3>10 DEF t
  <2> HIDE DEF T
  <2> QED BY <2>1, <2>2, Growing
<1>2. p \in T
  BY <1>1 DEF RpStages
<1> QED BY <1>2

-----------------------------------------------------------------------------
(* The two verifiers                                                       *)

\* Stage by stage.
LEMMA RpEach ==
  ASSUME NEW p \in RpStages
  PROVE  /\ Plays(p) \in Seq(RpFed) /\ Len(Plays(p)) = Len(p) /\ \A i \in 1 .. Len(p) : Plays(p)[i] = Expanded(p[i].runs)
         /\ Canon(p) \in RpStages /\ Len(Canon(p)) = Len(p) /\ \A i \in 1 .. Len(p) : Canon(p)[i] = CanonOf(p[i])
         /\ RunLists(p) \in Seq(RpRunLists) /\ Len(RunLists(p)) = Len(p) /\ \A i \in 1 .. Len(p) : RunLists(p)[i] = p[i].runs
         /\ Len(p) \in Nat /\ \A i \in 1 .. Len(p) : p[i] \in RpStage /\ p[i].runs \in RpRunLists /\ p[i].id \in Nat
<1> DEFINE e == [id |-> 0, runs |-> <<>>]
<1>1. e \in RpStage
  <2>1. <<>> \in RpRunLists
    BY EmptySeq DEF RpRunLists
  <2> QED BY <2>1 DEF RpStage
<1> HIDE DEF e
<1>2. p \in Seq(RpStage)
  BY DEF RpStages
<1>3. Plays(p) \in Seq(RpFed) /\ Len(Plays(p)) = Len(p) /\ \A i \in 1 .. Len(p) : Plays(p)[i] = Expanded(p[i].runs)
  BY <1>1, <1>2, RpPlays
<1>4. Canon(p) \in Seq(RpStage) /\ Len(Canon(p)) = Len(p) /\ \A i \in 1 .. Len(p) : Canon(p)[i] = CanonOf(p[i])
  BY <1>1, <1>2, RpCanons
<1>5. RunLists(p) \in Seq(RpRunLists) /\ Len(RunLists(p)) = Len(p) /\ \A i \in 1 .. Len(p) : RunLists(p)[i] = p[i].runs
  BY <1>1, <1>2, RpRunsOf
<1>6. Len(p) \in Nat /\ \A i \in 1 .. Len(p) : p[i] \in RpStage
  BY <1>2, LenProperties, ElementOfSeq
<1>7. \A s \in RpStage : s.runs \in RpRunLists /\ s.id \in Nat
  BY DEF RpStage
<1> QED BY <1>3, <1>4, <1>5, <1>6, <1>7 DEF RpStages

\* The one form of a proof is of the same run.
LEMMA RpSameRun ==
  ASSUME NEW p \in RpStages
  PROVE  /\ Canon(p) \in RpStages /\ Len(Canon(p)) = Len(p) /\ Plays(Canon(p)) = Plays(p)
         /\ \A i \in 1 .. Len(p) : Canon(p)[i].id = p[i].id /\ End(Canon(p), i) = End(p, i)
         /\ PlayOk(Canon(p)) <=> PlayOk(p)
         /\ WonSoFar(Canon(p)) <=> WonSoFar(p)
         /\ Cleared(Canon(p)) = Cleared(p)
<1> DEFINE c == Canon(p)
           n == Len(p)
           a == Plays(c)
           b == Plays(p)
<1>1. /\ c \in RpStages /\ Len(c) = n /\ \A i \in 1 .. n : c[i] = CanonOf(p[i])
  BY RpEach
<1>1a. \A i \in 1 .. n : p[i] \in RpStage
  BY RpEach
<1> HIDE DEF c
<1>2. /\ b \in Seq(RpFed) /\ Len(b) = n /\ \A i \in 1 .. n : b[i] = Expanded(p[i].runs)
  BY RpEach
<1>3. a \in Seq(RpFed) /\ Len(a) = n /\ \A i \in 1 .. n : a[i] = Expanded(c[i].runs)
  <2> HIDE DEF a
  <2>1. Plays(c) \in Seq(RpFed) /\ Len(Plays(c)) = Len(c) /\ \A i \in 1 .. Len(c) : Plays(c)[i] = Expanded(c[i].runs)
    BY <1>1, RpEach
  <2> QED BY <1>1, <2>1 DEF a
<1> HIDE DEF a, b
<1>4. ASSUME NEW i \in 1 .. n PROVE a[i] = b[i]
  <2>1. Expanded(p[i].runs) \in RpFed
    BY <1>1a, RpExpandedIsFed DEF RpStage
  <2>2. Expanded(EncodeRuns(Expanded(p[i].runs))) = Expanded(p[i].runs)
    BY <2>1, RpEncoded
  <2>3. c[i].runs = EncodeRuns(Expanded(p[i].runs))
    <3>1. c[i] = CanonOf(p[i])
      BY <1>1
    <3>2. CanonOf(p[i]).runs = EncodeRuns(Expanded(p[i].runs))
      BY DEF CanonOf
    <3> QED BY <3>1, <3>2
  <2> QED BY <1>2, <1>3, <2>2, <2>3
<1>5. a = b
  BY <1>2, <1>3, <1>4, SeqEqual
<1>6. ASSUME NEW i \in 1 .. n PROVE c[i].id = p[i].id
  <2>1. c[i] = CanonOf(p[i])
    BY <1>1
  <2>2. CanonOf(p[i]).id = p[i].id
    BY DEF CanonOf
  <2> QED BY <2>1, <2>2
<1>7. \A i : Before(c, i) = Before(p, i) /\ End(c, i) = End(p, i)
  BY <1>5 DEF Before, End, a, b
<1>8. (PlayOk(c) <=> PlayOk(p)) /\ (WonSoFar(c) <=> WonSoFar(p)) /\ Cleared(c) = Cleared(p)
  <2>1. WonSoFar(c) <=> WonSoFar(p)
    BY <1>1, <1>7 DEF WonSoFar
  <2>2. Cleared(c) = Cleared(p)
    BY <1>1, <2>1 DEF Cleared
  <2>3. PlayOk(c) <=> PlayOk(p)
    BY <1>1, <1>5, <1>7 DEF PlayOk, a, b
  <2> QED BY <2>1, <2>2, <2>3
<1> QED BY <1>1, <1>5, <1>6, <1>7, <1>8 DEF a, b, c

\* What the cabinet's verifier makes of a proof: the same verdict, and the
\* state every stage ended in.
LEMMA RpCabinet ==
  ASSUME NEW p \in RpStages
  PROVE  LET e == ExecutedIf(Parsed(p))
         IN /\ Envelope(e) = Judged(p) /\ (e.ok <=> Taken(p)) /\ (e.ok => e.proof = Canon(p))
            /\ e.ok => \A i \in 1 .. Len(p) : e.finals[i] = End(p, i)
<1> DEFINE c == Canon(p)
           n == Len(p)
           v == ExecuteStages(Run0, c, n)
           e == ExecutedIf(Parsed(p))
<1>1. (Parsed(p).ok <=> n \in 1 .. PfStages /\ FormOk(p)) /\ (Parsed(p).ok => Parsed(p).stages = c)
  BY RpParsed
<1>2. CASE ~Parsed(p).ok
  <2>1. e = Refusal /\ ~Taken(p)
    BY <1>1, <1>2 DEF ExecutedIf, Taken
  <2> HIDE DEF e
  <2> QED BY <2>1 DEF Envelope, Judged, Refusal, e
<1>3. CASE Parsed(p).ok
  <2>1. n \in 1 .. PfStages /\ FormOk(p) /\ e = Executed(c) /\ n # 0 /\ n \in Nat
    BY <1>1, <1>3, RpLimits DEF ExecutedIf
  <2>2. /\ c \in RpStages /\ Len(c) = n /\ Plays(c) = Plays(p)
        /\ \A i \in 1 .. n : c[i].id = p[i].id /\ End(c, i) = End(p, i)
    BY RpSameRun
  <2>3. (PlayOk(c) <=> PlayOk(p)) /\ (WonSoFar(c) <=> WonSoFar(p)) /\ Cleared(c) = Cleared(p)
    BY RpSameRun
  <2>4. Measured(c)
    <3>1. \A i \in 1 .. n : Plays(p)[i] = Expanded(p[i].runs)
      BY RpEach
    <3> QED BY <2>1, <2>2, <3>1 DEF Measured, FormOk, FormOf
  <2>5. v \in RpExecuting /\ (v.ok <=> PlayOk(c) /\ (n < n => WonSoFar(c))) /\ (v.ok => Ran(c, v))
    <3>1. n <= n /\ Len(c) <= n
      BY <2>1, <2>2
    <3> HIDE DEF v, c, n
    <3> QED BY <2>1, <2>2, <2>4, <3>1, RpRuns DEF v
  <2>6. e = ExecuteEnd(v, c)
    BY <2>1, <2>2 DEF Executed, Run0
  <2> HIDE DEF e, v, c, n
  <2>7. v.ok <=> PlayOk(p)
    BY <2>1, <2>3, <2>5
  <2>8. CASE ~v.ok
    <3>1. e = Refusal /\ ~Taken(p)
      BY <2>6, <2>7, <2>8 DEF ExecuteEnd, Taken
    <3> QED BY <3>1 DEF Envelope, Judged, Refusal, e
  <2>9. CASE v.ok
    <3>1. /\ v.lives = LivesLeft(Plays(p)) /\ v.reached = n /\ v.cleared = Cleared(p) /\ v.ticks = Sized(Plays(p))
          /\ Len(v.finals) = n /\ \A i \in 1 .. n : v.finals[i] = End(p, i)
      BY <2>2, <2>3, <2>5, <2>9 DEF Ran
    <3>2. Last(v.finals) = End(p, n)
      <4>1. n \in 1 .. n
        BY <2>1
      <4> QED BY <3>1, <4>1 DEF Last
    <3>3. (Last(v.finals).status = "won") <=> WonSoFar(p)
      BY <2>1, <3>2 DEF WonSoFar, n
    <3>4. (Last(v.finals).status = "won" /\ n # PfStages) <=> ~Taken(p)
      BY <2>1, <2>7, <2>9, <3>3 DEF Taken, n
    <3>5. CASE ~Taken(p)
      <4>1. e = Refusal
        BY <2>2, <2>6, <3>4, <3>5 DEF ExecuteEnd
      <4> QED BY <3>5, <4>1 DEF Envelope, Judged, Refusal, e
    <3>6. CASE Taken(p)
      <4> DEFINE done == Len(c) = PfStages /\ Last(v.finals).status = "won"
                 sum == [lives |-> v.lives, reached |-> v.reached, cleared |-> v.cleared,
                         completed |-> done, ticks |-> v.ticks]
      <4>1. e = [ok |-> TRUE, proof |-> c, finals |-> v.finals, summary |-> sum]
        BY <2>2, <2>6, <2>9, <3>4, <3>6 DEF ExecuteEnd
      <4>2. done <=> WonSoFar(p)
        BY <2>2, <3>3, <3>4, <3>6
      <4>3. done = WonSoFar(p)
        BY <4>2 DEF WonSoFar
      <4>4. sum = SummaryOf(p)
        <5> HIDE DEF done
        <5> QED BY <3>1, <4>3 DEF SummaryOf, n
      <4> HIDE DEF sum
      <4>5. e.ok /\ e.proof = c /\ e.finals = v.finals /\ e.summary = SummaryOf(p)
        BY <4>1, <4>4
      <4>6. Envelope(e) = Judged(p)
        BY <3>6, <4>5 DEF Envelope, Judged, c
      <4> QED BY <3>1, <3>6, <4>5, <4>6 DEF e, c, n
    <3> QED BY <3>5, <3>6
  <2> QED BY <2>8, <2>9
<1> QED BY <1>2, <1>3

(* The verifiers of proof.ts and cabinet-proof.ts, written apart, say the  *)
(* same of any proof whatever: whether it is taken, in what form, and with *)
(* what summary.                                                           *)
THEOREM VerifiersAgree ==
  ASSUME NEW proof \in RpStages
  PROVE  CabinetVerified(proof) = Verified(proof)
BY RpCabinet, RpVerified DEF CabinetVerified

(* What the verifiers take is what the specification of a proof admits.    *)

\* No part is longer than the whole.
LEMMA RpPart ==
  ASSUME NEW S, NEW q \in Seq(Seq(S)), NEW i \in 1 .. Len(q)
  PROVE  Len(q[i]) <= Sized(q) /\ Len(q[i]) \in Nat /\ Sized(q) \in Nat
<1> DEFINE T == {s \in Seq(Seq(S)) : \A k \in 1 .. Len(s) : Len(s[k]) <= Sized(s) /\ Len(s[k]) \in Nat /\ Sized(s) \in Nat}
<1>1. Seq(Seq(S)) \subseteq T
  <2>1. <<>> \in T
    BY EmptySeq
  <2>2. ASSUME NEW s \in Seq(Seq(S)), NEW e \in Seq(S), s \in T PROVE Append(s, e) \in T
    <3> DEFINE t == Append(s, e)
               n == Len(s)
    <3>1. t \in Seq(Seq(S)) /\ Len(t) = n + 1 /\ n \in Nat /\ t[n + 1] = e /\ \A k \in 1 .. n : t[k] = s[k]
      BY AppendProperties, LenProperties
    <3>2. Sized(t) = Sized(s) + Len(e) /\ Sized(s) \in Nat /\ Len(e) \in Nat
      BY RpSized, LenProperties
    <3>3. \A k \in 1 .. n : Len(s[k]) <= Sized(s) /\ Len(s[k]) \in Nat
      BY <2>2
    <3> HIDE DEF t, n, T
    <3>4. ASSUME NEW k \in 1 .. Len(t) PROVE Len(t[k]) <= Sized(t) /\ Len(t[k]) \in Nat /\ Sized(t) \in Nat
      <4>1. CASE k = n + 1
        BY <3>1, <3>2, <4>1
      <4>2. CASE k # n + 1
        <5>1. k \in 1 .. n
          BY <3>1, <4>2
        <5>2. Len(s[k]) <= Sized(s) /\ Len(s[k]) \in Nat /\ t[k] = s[k]
          BY <3>1, <3>3, <5>1
        <5> QED BY <3>2, <5>2
      <4> QED BY <4>1, <4>2
    <3>5. t \in T
      BY <3>1, <3>4 DEF T
    <3> QED BY <3>5 DEF t
  <2> HIDE DEF T
  <2> QED BY <2>1, <2>2, Growing
<1>2. q \in T
  BY <1>1
<1> QED BY <1>2

\* The lives of one stage after another.
LEMMA RpBeforeNext ==
  ASSUME NEW p \in RpStages
  PROVE  /\ Before(p, 1) = PfLives
         /\ \A i \in 1 .. Len(p) : Before(p, i + 1) = End(p, i).lives
<1> DEFINE q == Plays(p)
           n == Len(p)
<1>1. q \in Seq(RpFed) /\ Len(q) = n /\ n \in Nat /\ \A i \in 1 .. n : q[i] \in RpFed
  <2>1. q \in Seq(RpFed) /\ Len(q) = n /\ n \in Nat
    BY RpEach
  <2> HIDE DEF q
  <2> QED BY <2>1, ElementOfSeq
<1> HIDE DEF q, n
<1>2. Before(p, 1) = PfLives
  <2>1. SubSeq(q, 1, 0) = <<>>
    <3> DEFINE z == SubSeq(q, 1, 0)
    <3>1. z \in Seq(RpFed) /\ Len(z) = 0
      BY <1>1, SubSeqProperties
    <3> HIDE DEF z
    <3>2. z = <<>>
      BY <3>1, EmptySeq
    <3> QED BY <3>2 DEF z
  <2>2. Before(p, 1) = LivesLeft(SubSeq(q, 1, 0))
    <3>1. 1 - 1 = 0
      OBVIOUS
    <3> QED BY <3>1 DEF Before, q
  <2>3. LivesLeft(SubSeq(q, 1, 0)) = LivesLeft(<<>>)
    BY <2>1, Zenon
  <2> QED BY <2>2, <2>3, RpLivesBegins
<1>3. ASSUME NEW i \in 1 .. n PROVE Before(p, i + 1) = End(p, i).lives
  <2> DEFINE a == SubSeq(q, 1, i - 1)
             b == SubSeq(q, 1, i)
             e == q[i]
  <2>1. e \in RpFed /\ i - 1 \in 0 .. n /\ i \in Nat /\ (i + 1) - 1 = i /\ i \in 1 .. Len(q)
    BY <1>1
  <2>2. a \in Seq(RpFed) /\ Len(a) = i - 1
    <3>1. \A k \in 1 .. i - 1 : q[k] \in RpFed
      BY <1>1
    <3> QED BY <1>1, <2>1, <3>1, SubSeqProperties
  <2>3. b = a \o <<e>>
    <3>1. 1 \in 1 .. Len(q) + 1
      BY <1>1
    <3> QED BY <1>1, <2>1, <3>1, SubSeqRecursiveSecond
  <2>4. b = Append(a, e)
    <3> HIDE DEF a, b, e
    <3> QED BY <2>1, <2>2, <2>3, AppendIsConcat
  <2>5. LivesLeft(Append(a, e)) = PfOutcome(Len(a) + 1, LivesLeft(a), e).lives
    <3> HIDE DEF a, e
    <3> QED BY <2>1, <2>2, LivesGrow
  <2>6. Len(a) + 1 = i
    BY <2>1, <2>2
  <2>7. LivesLeft(b) = PfOutcome(i, LivesLeft(a), e).lives
    <3> HIDE DEF a, b, e
    <3> QED BY <2>4, <2>5, <2>6
  <2>8. Before(p, i + 1) = LivesLeft(b) /\ Before(p, i) = LivesLeft(a) /\ Plays(p)[i] = e
    BY <2>1 DEF Before, q
  <2> HIDE DEF a, b, e
  <2> QED BY <2>7, <2>8 DEF End
<1> QED BY <1>2, <1>3 DEF n

\* There are lives to begin every stage with.
LEMMA RpLivelyAll ==
  ASSUME NEW p \in RpStages, Len(p) <= PfStages, PlayOk(p), \A i \in 1 .. Len(p) : Len(Plays(p)[i]) <= PfMaxStageTicks
  PROVE  \A i \in 1 .. Len(p) : Before(p, i) \in 1 .. PfLives /\ End(p, i).status \in {"won", "lost"}
                                /\ Plays(p)[i] # <<>>
<1> DEFINE n == Len(p)
           T == {i \in 0 .. n : i = 0 \/ (Before(p, i) \in 1 .. PfLives /\ (i < n => End(p, i).lives \in 1 .. PfLives))}
<1>1. /\ n \in Nat /\ \A i \in 1 .. n : Plays(p)[i] \in RpFed
      /\ n <= PfStages /\ PlayOk(p)
  <2>1. n \in Nat /\ Plays(p) \in Seq(RpFed) /\ Len(Plays(p)) = n
    BY RpEach
  <2> QED BY <2>1, ElementOfSeq
<1>2. ASSUME NEW i \in 1 .. n, Before(p, i) \in 1 .. PfLives
      PROVE  /\ End(p, i).status \in {"running", "won", "lost"} /\ End(p, i).lives \in 0 .. PfLives
             /\ (Plays(p)[i] = <<>> => End(p, i).status = "running") /\ (End(p, i).status = "won" => End(p, i).lives # 0)
  <2> DEFINE f == Plays(p)[i]
             l == Before(p, i)
  <2>1. i \in 1 .. PfStages /\ f \in RpFed /\ Len(f) <= PfMaxStageTicks /\ l \in 1 .. PfLives
    BY <1>1, <1>2, RpLimits
  <2>2. End(p, i) = PfOutcome(i, l, f)
    BY DEF End
  <2> HIDE DEF f, l
  <2>3. LET o == PfOutcome(i, l, f)
         IN /\ o.status \in {"running", "won", "lost"} /\ o.lives \in 0 .. PfLives
            /\ (f = <<>> => o.status = "running") /\ (o.status = "won" => o.lives # 0)
    BY <2>1, RpOutcome
  <2> QED BY <2>2, <2>3 DEF f
<1>3. ASSUME NEW i \in 1 .. n PROVE End(p, i).status # "running" /\ (i < n => End(p, i).status = "won")
  <2>1. PlayOf(i, Before(p, i), Plays(p)[i])
    BY <1>1 DEF PlayOk
  <2>2. i < n => i \in 1 .. n - 1
    BY <1>1
  <2> QED BY <1>1, <2>1, <2>2 DEF PlayOk, PlayOf, End
<1> HIDE DEF n
<1>4. 0 .. n \subseteq T
  <2>1. 0 \in T
    BY <1>1
  <2>2. ASSUME NEW i \in 0 .. n - 1, i \in T PROVE i + 1 \in T
    <3>1. i + 1 \in 1 .. n /\ i \in Nat
      BY <1>1
    <3>2. Before(p, i + 1) \in 1 .. PfLives
      <4>1. CASE i = 0
        <5>1. Before(p, 1) = PfLives
          BY RpBeforeNext
        <5> QED BY <4>1, <5>1, RpLimits
      <4>2. CASE i # 0
        <5>1. i \in 1 .. n /\ i < n
          BY <1>1, <4>2
        <5>2. Before(p, i + 1) = End(p, i).lives
          BY <5>1, RpBeforeNext DEF n
        <5> QED BY <2>2, <4>2, <5>1, <5>2
      <4> QED BY <4>1, <4>2
    <3>3. i + 1 < n => End(p, i + 1).lives \in 1 .. PfLives
      <4>1. /\ End(p, i + 1).lives \in 0 .. PfLives
            /\ (End(p, i + 1).status = "won" => End(p, i + 1).lives # 0)
        BY <1>2, <3>1, <3>2
      <4>2. i + 1 < n => End(p, i + 1).status = "won"
        BY <1>3, <3>1
      <4> DEFINE l == End(p, i + 1).lives
      <4>3. i + 1 < n => l \in 0 .. PfLives /\ l # 0
        BY <4>1, <4>2
      <4> HIDE DEF l
      <4>4. i + 1 < n => l \in 1 .. PfLives
        BY <4>3, RpLimits
      <4> QED BY <4>4 DEF l
    <3> QED BY <3>1, <3>2, <3>3
  <2> HIDE DEF T
  <2> QED BY <1>1, <2>1, <2>2, Upwards
<1>5. ASSUME NEW i \in 1 .. n
      PROVE  Before(p, i) \in 1 .. PfLives /\ End(p, i).status \in {"won", "lost"} /\ Plays(p)[i] # <<>>
  <2>1. i \in 0 .. n /\ i # 0
    BY <1>1
  <2>2. Before(p, i) \in 1 .. PfLives
    BY <1>4, <2>1
  <2> QED BY <1>2, <1>3, <2>2
<1> QED BY <1>5 DEF n

\* What the verifiers check and what the specification says are one.
LEMMA RpWhole ==
  ASSUME NEW p \in RpStages
  PROVE  WholeRun(Plays(p)) <=>
           /\ Len(p) \in 1 .. PfStages /\ PlayOk(p) /\ (Len(p) = PfStages \/ End(p, Len(p)).status = "lost")
<1> DEFINE q == Plays(p)
           n == Len(p)
           status(i, k) == PfOutcome(i, LivesLeft(SubSeq(q, 1, i - 1)), SubSeq(q[i], 1, k)).status
<1>1. n \in Nat /\ q \in Seq(RpFed) /\ Len(q) = n /\ DOMAIN q = 1 .. n /\ \A i \in 1 .. n : q[i] \in RpFed
  <2>1. n \in Nat /\ q \in Seq(RpFed) /\ Len(q) = n
    BY RpEach
  <2> HIDE DEF q, n
  <2> QED BY <2>1, ElementOfSeq, LenProperties
<1> HIDE DEF q, n
<1>2. ASSUME NEW i \in 1 .. n PROVE status(i, Len(q[i])) = End(p, i).status
  <2> DEFINE f == q[i]
  <2>1. f \in Seq(RpInputs)
    BY <1>1 DEF RpFed
  <2> HIDE DEF f
  <2>2. SubSeq(f, 1, Len(f)) = f
    BY <2>1, SubSeqFull
  <2> QED BY <2>2, Zenon DEF End, Before, q, f
<1>3. ASSUME NEW i \in 1 .. n
      PROVE  (\A k \in 0 .. Len(q[i]) - 1 : status(i, k) = "running") <=> GoesOn(i, Before(p, i), q[i])
  BY DEF GoesOn, Before, q
<1> DEFINE A == \A i \in 1 .. n :
                  /\ \A k \in 0 .. (Len(q[i]) - 1) : status(i, k) = "running"
                  /\ status(i, Len(q[i])) = IF i < n THEN "won" ELSE status(i, Len(q[i]))
                  /\ status(i, Len(q[i])) # "running"
           B == n = PfStages \/ status(n, Len(Last(q))) = "lost"
<1>4. WholeRun(q) <=> n \in 1 .. PfStages /\ A /\ B
  BY <1>1 DEF WholeRun
<1> HIDE DEF status
<1>5. A <=> PlayOk(p)
  <2> DEFINE C(i) == GoesOn(i, Before(p, i), q[i]) /\ End(p, i).status # "running"
  <2>1. PlayOk(p) <=> (\A i \in 1 .. n : C(i)) /\ \A i \in 1 .. n - 1 : End(p, i).status = "won"
    BY DEF PlayOk, PlayOf, End, q, n
  <2>2. A <=> (\A i \in 1 .. n : C(i)) /\ \A i \in 1 .. n : i < n => End(p, i).status = "won"
    BY <1>2, <1>3
  <2>3. (\A i \in 1 .. n : i < n => End(p, i).status = "won") <=> \A i \in 1 .. n - 1 : End(p, i).status = "won"
    <3>1. \A i : i \in 1 .. n - 1 <=> i \in 1 .. n /\ i < n
      BY <1>1
    <3> QED BY <3>1
  <2> QED BY <2>1, <2>2, <2>3
<1>6. ASSUME n \in 1 .. PfStages PROVE B <=> (n = PfStages \/ End(p, n).status = "lost")
  <2>1. n \in 1 .. n /\ Last(q) = q[n]
    BY <1>1, <1>6, RpLimits DEF Last
  <2> QED BY <1>2, <2>1
<1> HIDE DEF A, B
<1>7. WholeRun(q) <=> n \in 1 .. PfStages /\ PlayOk(p) /\ (n = PfStages \/ End(p, n).status = "lost")
  BY <1>4, <1>5, <1>6
<1> QED BY <1>7 DEF q, n

\* What the verifiers take is what the specification admits.
LEMMA RpAdmitted ==
  ASSUME NEW p \in RpStages
  PROVE  Taken(p) <=> Admissible(p)
<1> DEFINE n == Len(p)
           plays == Plays(p)
           lists == RunLists(p)
<1>1. /\ n \in Nat /\ DOMAIN p = 1 .. n /\ \A i \in 1 .. n : p[i] \in RpStage /\ p[i].runs \in RpRunLists
      /\ plays \in Seq(RpFed) /\ Len(plays) = n /\ DOMAIN plays = 1 .. n
      /\ \A i \in 1 .. n : plays[i] = Expanded(p[i].runs)
      /\ lists \in Seq(RpRunLists) /\ Len(lists) = n /\ \A i \in 1 .. n : lists[i] = p[i].runs
  <2>1. /\ n \in Nat /\ \A i \in 1 .. n : p[i] \in RpStage /\ p[i].runs \in RpRunLists
        /\ plays \in Seq(RpFed) /\ Len(plays) = n /\ \A i \in 1 .. n : plays[i] = Expanded(p[i].runs)
        /\ lists \in Seq(RpRunLists) /\ Len(lists) = n /\ \A i \in 1 .. n : lists[i] = p[i].runs
    BY RpEach
  <2>2. DOMAIN p = 1 .. n
    BY LenProperties DEF RpStages
  <2> HIDE DEF plays, n, lists
  <2>3. DOMAIN plays = 1 .. n
    BY <2>1, LenProperties
  <2> QED BY <2>1, <2>2, <2>3
<1> DEFINE Ticked == \A i \in 1 .. n : p[i].id = i /\ AllTicked(p[i].runs)
           Short == \A i \in 1 .. n : Len(plays[i]) <= PfMaxStageTicks
           Few == Sized(plays) <= PfMaxTotalTicks /\ Sized(lists) <= PfMaxRuns
<1>2. Admissible(p) <=> WholeRun(plays) /\ Ticked /\ Short /\ Few
  <2>1. \A i \in 1 .. n : DOMAIN p[i].runs = 1 .. Len(p[i].runs)
    BY <1>1, LenProperties DEF RpRunLists
  <2>2. lists = [i \in DOMAIN p |-> p[i].runs]
    BY DEF RunLists
  <2>3. Ticked <=> \A i \in DOMAIN p : p[i].id = i /\ \A k \in DOMAIN p[i].runs : p[i].runs[k].ticks >= 1
    BY <1>1, <2>1 DEF AllTicked
  <2>4. Short <=> \A i \in DOMAIN plays : Len(plays[i]) <= PfMaxStageTicks
    BY <1>1
  <2> HIDE DEF plays, n, lists, Ticked, Short
  <2> QED BY <2>2, <2>3, <2>4 DEF Admissible, plays
<1>3. FormOk(p) <=> Ticked /\ Short /\ Few /\ \A i \in 1 .. n : Len(p[i].runs) \in 1 .. PfMaxRuns
  <2>1. \A i \in 1 .. n : plays[i] = Expanded(p[i].runs)
    BY <1>1
  <2> HIDE DEF plays
  <2> QED BY <2>1 DEF FormOk, FormOf, plays
<1> HIDE DEF plays, n, lists, Few
<1>4. WholeRun(plays) <=> n \in 1 .. PfStages /\ PlayOk(p) /\ (n = PfStages \/ End(p, n).status = "lost")
  BY RpWhole DEF plays, n
<1>5. ASSUME n \in 1 .. PfStages, PlayOk(p), Short
      PROVE  /\ End(p, n).status = "lost" <=> ~WonSoFar(p)
             /\ \A i \in 1 .. n : plays[i] # <<>>
  <2>1. \A i \in 1 .. n : End(p, i).status \in {"won", "lost"} /\ plays[i] # <<>>
    <3>1. Len(p) <= PfStages
      BY <1>5 DEF n
    <3> QED BY <1>5, <3>1, RpLivelyAll DEF plays, n
  <2>2. n \in 1 .. n /\ n # 0
    BY <1>1, <1>5
  <2> QED BY <2>1, <2>2 DEF WonSoFar, n
<1>6. ASSUME Sized(lists) <= PfMaxRuns, \A i \in 1 .. n : plays[i] # <<>>, NEW i \in 1 .. n
      PROVE  Len(p[i].runs) \in 1 .. PfMaxRuns
  <2> DEFINE r == p[i].runs
  <2>1. r \in RpRunLists /\ r = lists[i] /\ plays[i] = Expanded(r)
    BY <1>1
  <2> HIDE DEF r
  <2>2. r # <<>>
    <3>1. Expanded(<<>>) = <<>>
      BY RpFeedsBegins
    <3> QED BY <1>6, <2>1, <3>1
  <2>3. Len(r) \in Nat /\ Len(r) # 0
    BY <2>1, <2>2, EmptySeq, LenProperties DEF RpRunLists
  <2>4. Len(lists[i]) <= Sized(lists) /\ Sized(lists) \in Nat
    BY <1>1, RpPart DEF RpRunLists
  <2> DEFINE a == Len(r)
             b == Sized(lists)
  <2>5. a \in Nat /\ a # 0 /\ a <= b /\ b \in Nat /\ b <= PfMaxRuns
    BY <1>6, <2>1, <2>3, <2>4
  <2> HIDE DEF a, b
  <2>6. a \in 1 .. PfMaxRuns
    BY <2>5, RpLimits
  <2> QED BY <2>6 DEF a, r
<1> HIDE DEF Ticked, Short
<1>7. Taken(p) <=> n \in 1 .. PfStages /\ FormOk(p) /\ PlayOk(p) /\ (n = PfStages \/ ~WonSoFar(p))
  BY DEF Taken, n
<1>8. CASE n \in 1 .. PfStages /\ PlayOk(p) /\ Short /\ Few
  BY <1>2, <1>3, <1>4, <1>5, <1>6, <1>7, <1>8 DEF Few
<1>9. CASE ~ (n \in 1 .. PfStages /\ PlayOk(p) /\ Short /\ Few)
  BY <1>2, <1>3, <1>4, <1>7, <1>9
<1> QED BY <1>8, <1>9

-----------------------------------------------------------------------------
(* The play                                                                *)

\* What a stage is begun with, and what the recorder has of the stages done:
\* each began with what the one before it left, and ended as the engine ends.
Handed(done, i) == IF i = 1 THEN PfLives ELSE done[i - 1].final.lives
Continued(done) ==
  \A i \in 1 .. Len(done) :
    /\ done[i].inputs \in RpFed /\ done[i].inputs # <<>> /\ done[i].lives = Handed(done, i)
    /\ done[i].final = PfOutcome(i, done[i].lives, done[i].inputs)
\* A proof of stages that all have runs, of a tick or more.
HasRuns(p) == p # <<>> /\ \A i \in 1 .. Len(p) : p[i].runs \in RpCanon /\ p[i].runs # <<>>

\* The recorded proof is what was played.
LEMMA RpRecorded ==
  ASSUME NEW X, NEW done \in Seq(X), Continued(done)
  PROVE  LET r == EncodedStages(done)
         IN /\ r \in RpStages /\ Len(r) = Len(done) /\ Canon(r) = r /\ (done # <<>> => HasRuns(r))
            /\ \A i \in 1 .. Len(done) : /\ r[i].id = i /\ Plays(r)[i] = done[i].inputs
                                         /\ done[i].lives = Before(r, i) /\ done[i].final = End(r, i)
<1> DEFINE r == EncodedStages(done)
           n == Len(done)
<1>1. n \in Nat /\ DOMAIN done = 1 .. n
  BY LenProperties
<1>2. ASSUME NEW i \in 1 .. n PROVE done[i].inputs \in RpFed /\ done[i].inputs # <<>> /\ i \in Nat
  BY <1>1 DEF Continued
<1>3. /\ r \in RpStages /\ Len(r) = n
      /\ \A i \in 1 .. n : /\ r[i] = [id |-> i, runs |-> EncodeRuns(done[i].inputs)]
                           /\ r[i].id = i /\ r[i].runs = EncodeRuns(done[i].inputs)
  <2>1. r = [i \in 1 .. n |-> [id |-> i, runs |-> EncodeRuns(done[i].inputs)]]
    BY <1>1 DEF EncodedStages
  <2>2. ASSUME NEW i \in 1 .. n PROVE [id |-> i, runs |-> EncodeRuns(done[i].inputs)] \in RpStage
    <3>1. EncodeRuns(done[i].inputs) \in RpRunLists /\ i \in Nat
      BY <1>2, RpEncoded
    <3> QED BY <3>1 DEF RpStage
  <2>3. r \in [1 .. n -> RpStage]
    BY <2>1, <2>2
  <2> HIDE DEF r, n
  <2>4. r \in Seq(RpStage) /\ Len(r) = n
    BY <1>1, <2>3, RpSeqOf
  <2> QED BY <2>1, <2>4 DEF RpStages
<1> HIDE DEF r, n
<1>4. ASSUME NEW i \in 1 .. n PROVE Expanded(r[i].runs) = done[i].inputs
  BY <1>2, <1>3, RpEncoded
<1>5. Canon(r) = r
  <2>1. Canon(r) \in RpStages /\ Len(Canon(r)) = n /\ \A i \in 1 .. n : Canon(r)[i] = CanonOf(r[i])
    BY <1>3, RpEach
  <2>2. ASSUME NEW i \in 1 .. n PROVE Canon(r)[i] = r[i]
    <3>1. CanonOf(r[i]) = [id |-> i, runs |-> EncodeRuns(done[i].inputs)]
      BY <1>3, <1>4 DEF CanonOf
    <3> QED BY <1>3, <2>1, <3>1
  <2> DEFINE c == Canon(r)
  <2> HIDE DEF c
  <2>3. c \in Seq(RpStage) /\ r \in Seq(RpStage) /\ Len(c) = Len(r) /\ \A i \in 1 .. Len(c) : c[i] = r[i]
    BY <1>3, <2>1, <2>2 DEF c, RpStages
  <2>4. c = r
    BY <2>3, SeqEqual
  <2> QED BY <2>4 DEF c
<1>6. ASSUME done # <<>> PROVE HasRuns(r)
  <2>1. n # 0
    BY <1>6, EmptySeq DEF n
  <2>2. r # <<>>
    BY <1>3, <2>1, EmptySeq
  <2>3. ASSUME NEW i \in 1 .. Len(r) PROVE r[i].runs \in RpCanon /\ r[i].runs # <<>>
    BY <1>2, <1>3, RpEncoded
  <2> QED BY <2>2, <2>3 DEF HasRuns
<1>7. ASSUME NEW i \in 1 .. n PROVE Plays(r)[i] = done[i].inputs
  <2>1. Plays(r)[i] = Expanded(r[i].runs)
    BY <1>3, RpEach
  <2> QED BY <1>4, <2>1
<1>8. ASSUME NEW i \in 1 .. n, done[i].lives = Before(r, i) PROVE done[i].final = End(r, i)
  <2>1. done[i].final = PfOutcome(i, done[i].lives, done[i].inputs)
    BY DEF Continued, n
  <2> QED BY <1>7, <1>8, <2>1 DEF End
<1>9. \A i \in 1 .. n : done[i].lives = Before(r, i)
  <2> DEFINE T == {k \in 0 .. n : k # 0 => done[k].lives = Before(r, k)}
  <2>1. 0 \in T
    BY <1>1
  <2>2. ASSUME NEW k \in 0 .. n - 1, k \in T PROVE k + 1 \in T
    <3>1. k + 1 \in 1 .. n /\ k + 1 \in 0 .. n /\ (k + 1) - 1 = k /\ k \in Nat
      BY <1>1
    <3>2. done[k + 1].lives = Handed(done, k + 1)
      BY <3>1 DEF Continued, n
    <3>3. CASE k = 0
      <4>1. Before(r, 1) = PfLives
        BY <1>3, RpBeforeNext
      <4> QED BY <3>1, <3>2, <3>3, <4>1 DEF Handed
    <3>4. CASE k # 0
      <4>1. k \in 1 .. n /\ done[k].lives = Before(r, k)
        BY <2>2, <3>1, <3>4
      <4>2. done[k].final = End(r, k)
        BY <1>8, <4>1
      <4>3. Before(r, k + 1) = End(r, k).lives
        BY <1>3, <4>1, RpBeforeNext
      <4>4. Handed(done, k + 1) = done[k].final.lives
        BY <3>1, <3>4 DEF Handed
      <4> QED BY <3>1, <3>2, <4>2, <4>3, <4>4
    <3> QED BY <3>3, <3>4
  <2> HIDE DEF T
  <2>3. 0 .. n \subseteq T
    BY <1>1, <2>1, <2>2, Upwards
  <2> QED BY <1>1, <2>3 DEF T
<1> QED BY <1>3, <1>5, <1>6, <1>7, <1>8, <1>9 DEF r, n

\* What may be put in the place of a proof is a proof too.
LEMMA RpOthers ==
  ASSUME NEW p \in RpStages, HasRuns(p)
  PROVE  OtherProofs(p) \subseteq RpStages
<1> DEFINE n == Len(p)
<1>1. n \in Nat /\ n # 0 /\ p \in Seq(RpStage) /\ DOMAIN p = 1 .. n /\ n \in 1 .. n
  <2>1. p \in Seq(RpStage) /\ p # <<>>
    BY DEF HasRuns, RpStages
  <2>2. n \in Nat /\ n # 0 /\ DOMAIN p = 1 .. n
    BY <2>1, LenProperties, EmptySeq
  <2> QED BY <2>1, <2>2
<1>2. ASSUME NEW i \in 1 .. n PROVE p[i] \in RpStage /\ p[i].runs \in RpRunLists /\ p[i].runs \in RpCanon /\ p[i].runs # <<>>
  BY RpEach DEF HasRuns
<1>3. ASSUME NEW i \in 1 .. n, NEW runs \in RpRunLists PROVE WithRuns(p, i, runs) \in RpStages
  <2>1. [p[i] EXCEPT !.runs = runs] \in RpStage
    BY <1>2 DEF RpStage
  <2>2. WithRuns(p, i, runs) = [p EXCEPT ![i] = [p[i] EXCEPT !.runs = runs]]
    BY <1>1 DEF WithRuns
  <2>3. [p EXCEPT ![i] = [p[i] EXCEPT !.runs = runs]] \in Seq(RpStage)
    BY <1>1, <2>1, ExceptSeq
  <2> QED BY <2>2, <2>3 DEF RpStages
<1>4. ASSUME NEW i \in 1 .. n, NEW k \in 1 .. Len(p[i].runs), NEW t \in Nat
      PROVE  [p[i].runs EXCEPT ![k].ticks = t] \in RpRunLists
  <2> DEFINE runs == p[i].runs
  <2>1. runs \in Seq(RpRun) /\ runs[k] \in RpRun
    <3>1. runs \in Seq(RpRun)
      BY <1>2 DEF RpRunLists
    <3> QED BY <3>1, ElementOfSeq
  <2>2. [runs[k] EXCEPT !.ticks = t] \in RpRun
    BY <2>1 DEF RpRun
  <2> HIDE DEF runs
  <2>3. [runs EXCEPT ![k] = [runs[k] EXCEPT !.ticks = t]] \in Seq(RpRun)
    BY <2>1, <2>2, ExceptSeq DEF runs
  <2>4. [runs EXCEPT ![k].ticks = t] = [runs EXCEPT ![k] = [runs[k] EXCEPT !.ticks = t]]
    OBVIOUS
  <2> QED BY <2>3, <2>4 DEF runs, RpRunLists
<1>5. ASSUME NEW i \in 1 .. n
      PROVE  /\ Len(p[i].runs) \in 1 .. Len(p[i].runs)
             /\ \A k \in 1 .. Len(p[i].runs) : p[i].runs[k] \in RpRun /\ p[i].runs[k].ticks \in Nat \ {0}
  <2> DEFINE runs == p[i].runs
  <2>1. runs \in Seq([input : RpInputs, ticks : Nat \ {0}]) /\ runs # <<>>
    BY <1>2 DEF RpCanon
  <2> HIDE DEF runs
  <2>2. Len(runs) \in Nat /\ Len(runs) # 0
    BY <2>1, LenProperties, EmptySeq
  <2>3. \A k \in 1 .. Len(runs) : runs[k] \in [input : RpInputs, ticks : Nat \ {0}]
    BY <2>1, ElementOfSeq
  <2> QED BY <2>2, <2>3 DEF RpRun, runs
<1>6. Last(p) = p[n]
  BY DEF Last
<1>7. Longer(p) \in RpStages
  <2> DEFINE runs == p[n].runs
             k == Len(runs)
  <2>1. k \in 1 .. Len(p[n].runs) /\ runs[k].ticks + 1 \in Nat
    BY <1>1, <1>5
  <2> DEFINE t == runs[k].ticks + 1
  <2>2. [p[n].runs EXCEPT ![k].ticks = t] \in RpRunLists
    <3> HIDE DEF t, k
    <3> QED BY <1>1, <1>4, <2>1 DEF t
  <2>3. Longer(p) = WithRuns(p, n, [p[n].runs EXCEPT ![k].ticks = t])
    BY <1>6 DEF Longer
  <2> DEFINE q == [p[n].runs EXCEPT ![k].ticks = t]
  <2> HIDE DEF q
  <2> QED BY <1>1, <1>3, <2>2, <2>3 DEF q
<1>8. Shorter(p) \in RpStages
  <2> DEFINE runs == p[n].runs
             k == Len(runs)
  <2>1. k \in 1 .. Len(p[n].runs) /\ runs[k].ticks - 1 \in Nat
    BY <1>1, <1>5
  <2> DEFINE t == runs[k].ticks - 1
  <2>2. [p[n].runs EXCEPT ![k].ticks = t] \in RpRunLists
    <3> HIDE DEF t, k
    <3> QED BY <1>1, <1>4, <2>1 DEF t
  <2>3. Shorter(p) = WithRuns(p, n, [p[n].runs EXCEPT ![k].ticks = t])
    BY <1>6 DEF Shorter
  <2> DEFINE q == [p[n].runs EXCEPT ![k].ticks = t]
  <2> HIDE DEF q
  <2> QED BY <1>1, <1>3, <2>2, <2>3 DEF q
<1>9. Front(p) \in RpStages /\ Append(p, Last(p)) \in RpStages /\ Tail(p) \in RpStages
  <2>1. Append(p, p[n]) \in Seq(RpStage)
    BY <1>1, <1>2, AppendProperties
  <2>2. SubSeq(p, 1, n - 1) \in Seq(RpStage)
    <3>1. \A i \in 1 .. n - 1 : p[i] \in RpStage
      BY <1>1, <1>2
    <3> QED BY <1>1, <3>1, SubSeqProperties
  <2>3. Tail(p) \in Seq(RpStage)
    BY <1>1, HeadTailProperties DEF HasRuns
  <2> QED BY <1>6, <2>1, <2>2, <2>3 DEF Front, RpStages
<1>10. ASSUME NEW i \in 1 .. n PROVE WithRuns(p, i, SplitAt(p[i].runs, 1)) \in RpStages
  <2> DEFINE runs == p[i].runs
             a == [runs[1] EXCEPT !.ticks = 1]
             b == [runs[1] EXCEPT !.ticks = @ - 1]
  <2>1. runs \in Seq(RpRun) /\ Len(runs) \in Nat /\ 1 \in 1 .. Len(runs) /\ runs[1] \in RpRun /\ runs[1].ticks \in Nat \ {0}
    <3>1. runs \in Seq(RpRun) /\ Len(runs) \in Nat
      BY <1>2, LenProperties DEF RpRunLists
    <3>2. 1 \in 1 .. Len(p[i].runs)
      BY <1>5
    <3> QED BY <1>5, <3>1, <3>2
  <2>2. a \in RpRun /\ b \in RpRun
    <3>1. runs[1].ticks - 1 \in Nat
      BY <2>1
    <3> QED BY <2>1, <3>1 DEF RpRun
  <2> HIDE DEF runs
  <2>3. SubSeq(runs, 1, 1 - 1) \in Seq(RpRun) /\ SubSeq(runs, 1 + 1, Len(runs)) \in Seq(RpRun)
    <3>1. \A k \in 1 .. 1 - 1 : runs[k] \in RpRun
      BY <2>1
    <3>2. \A k \in 1 + 1 .. Len(runs) : runs[k] \in RpRun
      BY <2>1, ElementOfSeq
    <3>3. SubSeq(runs, 1, 1 - 1) \in Seq(RpRun)
      BY <2>1, <3>1, SubSeqProperties
    <3>4. SubSeq(runs, 1 + 1, Len(runs)) \in Seq(RpRun)
      BY <2>1, <3>2, SubSeqProperties
    <3> QED BY <3>3, <3>4
  <2> DEFINE x == SubSeq(runs, 1, 1 - 1)
             y == SubSeq(runs, 1 + 1, Len(runs))
  <2>4. SplitAt(runs, 1) = x \o <<a, b>> \o y
    BY DEF SplitAt
  <2> HIDE DEF a, b, x, y
  <2>5. (x \o <<a, b>>) \o y \in Seq(RpRun)
    <3>1. <<a, b>> \in Seq(RpRun)
      BY <2>2
    <3>2. x \o <<a, b>> \in Seq(RpRun)
      BY <2>3, <3>1, ConcatProperties DEF x
    <3> QED BY <2>3, <3>2, ConcatProperties DEF y
  <2>6. SplitAt(p[i].runs, 1) \in RpRunLists
    BY <2>4, <2>5 DEF runs, RpRunLists
  <2> QED BY <1>3, <2>6
<1> QED BY <1>1, <1>7, <1>8, <1>9, <1>10 DEF OtherProofs

\* What either verifier says of a proof.
LEMMA RpJudges ==
  ASSUME NEW p \in RpStages
  PROVE  LET v == Verified(p)
         IN /\ v.ok <=> Taken(p)
            /\ v.ok <=> Admissible(p)
            /\ CabinetVerified(p) = v
            /\ v.ok => /\ v.proof = Canon(p) /\ v.summary = SummaryOf(p)
                       /\ v.proof = Finalized([i \in DOMAIN p |-> [inputs |-> Plays(p)[i]]])
                       /\ v.summary.ticks = Sized(Plays(p))
<1> DEFINE v == Verified(p)
           n == Len(p)
<1>1. v = Judged(p)
  BY RpVerified
<1> HIDE DEF v
<1>2. v.ok <=> Taken(p)
  BY <1>1 DEF Judged, Refusal
<1>3. v.ok => v.proof = Canon(p) /\ v.summary = SummaryOf(p)
  BY <1>1, <1>2 DEF Judged
<1>4. v.ok => v.summary.ticks = Sized(Plays(p))
  BY <1>3 DEF SummaryOf
<1>5. ASSUME v.ok PROVE Canon(p) = Finalized([i \in DOMAIN p |-> [inputs |-> Plays(p)[i]]])
  <2> DEFINE d == [i \in DOMAIN p |-> [inputs |-> Plays(p)[i]]]
             f == [i \in DOMAIN p |-> [id |-> i, runs |-> EncodeRuns(Plays(p)[i])]]
  <2>1. DOMAIN p = 1 .. n
    BY LenProperties DEF RpStages
  <2>2. Finalized(d) = f
    <3>1. DOMAIN d = DOMAIN p /\ \A i \in DOMAIN p : d[i].inputs = Plays(p)[i]
      OBVIOUS
    <3> HIDE DEF d
    <3> QED BY <3>1 DEF Finalized, EncodedStages
  <2>3. ASSUME NEW i \in 1 .. n PROVE CanonOf(p[i]) = [id |-> i, runs |-> EncodeRuns(Plays(p)[i])]
    <3>1. p[i].id = i
      BY <1>2, <1>5 DEF Taken, FormOk, FormOf, n
    <3>2. Plays(p)[i] = Expanded(p[i].runs)
      BY RpEach
    <3> QED BY <3>1, <3>2 DEF CanonOf
  <2>4. Canon(p) = f
    BY <2>1, <2>3 DEF Canon
  <2> QED BY <2>2, <2>4
<1> QED BY <1>2, <1>3, <1>4, <1>5, RpAdmitted, VerifiersAgree DEF v

\* What the cabinet builds of recorded stages.
LEMMA RpBuilt ==
  ASSUME NEW X, NEW done \in Seq(X), Continued(done)
  PROVE  LET r == Finalized(done)
             built == CabinetBuilt(done)
         IN /\ Verified(r).ok => Verified(r).proof = r /\ built = [ok |-> TRUE, proof |-> r]
            /\ built.ok => Verified(r).ok
<1> DEFINE r == EncodedStages(done)
           n == Len(done)
           e == ExecutedIf(Parsed(r))
<1>1. /\ r \in RpStages /\ Len(r) = n /\ Canon(r) = r
      /\ \A i \in 1 .. n : /\ done[i].lives = Before(r, i) /\ done[i].final = End(r, i)
  BY RpRecorded
<1>2. n \in Nat /\ DOMAIN done = 1 .. n
  BY LenProperties
<1>3. (e.ok <=> Taken(r)) /\ (e.ok => e.proof = Canon(r)) /\ (e.ok => \A i \in 1 .. Len(r) : e.finals[i] = End(r, i))
  <2> HIDE DEF r
  <2> QED BY <1>1, RpCabinet
<1>4. CabinetBuilt(done) = BuiltFrom(done, e)
  BY DEF CabinetBuilt
<1>5. (Verified(r).ok <=> Taken(r)) /\ (Verified(r).ok => Verified(r).proof = Canon(r))
  <2> HIDE DEF r
  <2> QED BY <1>1, RpJudges
<1>6. Finalized(done) = r
  BY DEF Finalized
<1> HIDE DEF r, n, e
<1>7. CASE ~e.ok
  <2>1. CabinetBuilt(done) = Refusal
    BY <1>4, <1>7 DEF BuiltFrom
  <2> QED BY <1>3, <1>5, <1>6, <1>7, <2>1 DEF Refusal
<1>8. CASE e.ok
  <2>1. Len(done) \in 1 .. PfStages
    BY <1>1, <1>3, <1>8 DEF Taken, n
  <2>2. ASSUME NEW i \in 1 .. n PROVE done[i].lives = Carried(e, i) /\ done[i].final = e.finals[i]
    <3>1. done[i].final = e.finals[i] /\ done[i].lives = Before(r, i)
      BY <1>1, <1>3, <1>8
    <3>2. CASE i = 1
      BY <1>1, <3>1, <3>2, RpBeforeNext DEF Carried
    <3>3. CASE i # 1
      <4>1. i - 1 \in 1 .. n /\ (i - 1) + 1 = i
        BY <1>2, <3>3
      <4>2. Before(r, (i - 1) + 1) = End(r, i - 1).lives
        BY <1>1, <4>1, RpBeforeNext
      <4>3. e.finals[i - 1] = End(r, i - 1)
        BY <1>1, <1>3, <1>8, <4>1
      <4> QED BY <3>1, <3>3, <4>1, <4>2, <4>3 DEF Carried
    <3> QED BY <3>1, <3>2, <3>3
  <2>3. CabinetBuilt(done) = [ok |-> TRUE, proof |-> e.proof]
    BY <1>2, <1>4, <1>8, <2>1, <2>2 DEF BuiltFrom
  <2> QED BY <1>1, <1>3, <1>5, <1>6, <1>8, <2>3
<1> QED BY <1>7, <1>8

-----------------------------------------------------------------------------
(* The play and the recorder, all the way                                  *)

\* What the recorder has is what the engine was fed, and every stage done was
\* begun with what the one before it left.
RpPlayInv ==
  /\ rp = [phase |-> rp.phase, engine |-> rp.engine, inputs |-> rp.inputs, done |-> rp.done]
  /\ rp.phase \in {"play", "played", "kept", "refused", "open"}
  /\ (\E X : rp.done \in Seq(X)) /\ Continued(rp.done) /\ rp.inputs \in RpFed
  /\ rp.phase = "play" =>
       rp.engine = [stage |-> Len(rp.done) + 1, lives |-> Handed(rp.done, Len(rp.done) + 1), fed |-> rp.inputs]
  /\ rp.phase # "play" => rp.done # <<>>

\* The play begins with nothing recorded.
LEMMA RpPlayBegins ==
  ASSUME RpInit
  PROVE  RpPlayInv
<1>1. rp = [phase |-> "play", engine |-> Fresh(1, PfLives), inputs |-> <<>>, done |-> <<>>]
  BY DEF RpInit
<1>2. rp.done \in Seq({}) /\ Len(rp.done) = 0 /\ rp.inputs \in RpFed
  BY <1>1, EmptySeq DEF RpFed
<1>3. Continued(rp.done)
  BY <1>2 DEF Continued
<1>4. Handed(rp.done, 1) = PfLives
  BY DEF Handed
<1> QED BY <1>1, <1>2, <1>3, <1>4 DEF RpPlayInv, Fresh

\* A stage done is recorded, and hands its lives to the next.
LEMMA RpContinues ==
  ASSUME NEW X, NEW done \in Seq(X), Continued(done), NEW r,
         r.inputs \in RpFed, r.inputs # <<>>, r.lives = Handed(done, Len(done) + 1),
         r.final = PfOutcome(Len(done) + 1, r.lives, r.inputs)
  PROVE  LET t == Append(done, r)
         IN /\ t \in Seq(X \cup {r}) /\ t # <<>> /\ Continued(t)
            /\ Len(t) = Len(done) + 1 /\ Handed(t, Len(t) + 1) = r.final.lives
<1> DEFINE t == Append(done, r)
           n == Len(done)
           Y == X \cup {r}
<1>1. done \in Seq(Y) /\ r \in Y /\ n \in Nat
  <2>1. Seq(X) \subseteq Seq(Y)
    BY SeqMonotonic
  <2> QED BY <2>1, LenProperties
<1> HIDE DEF Y
<1>2. t \in Seq(Y) /\ Len(t) = n + 1 /\ t[n + 1] = r /\ \A i \in 1 .. n : t[i] = done[i]
  BY <1>1, AppendProperties
<1> HIDE DEF t, n
<1>3. t # <<>>
  BY <1>1, <1>2, EmptySeq
<1>4. \A i \in 1 .. n + 1 : Handed(t, i) = Handed(done, i)
  <2>1. ASSUME NEW i \in 1 .. n + 1 PROVE Handed(t, i) = Handed(done, i)
    <3>1. CASE i = 1
      BY <3>1 DEF Handed
    <3>2. CASE i # 1
      <4>1. i - 1 \in 1 .. n
        BY <1>1, <3>2
      <4> QED BY <1>2, <3>2, <4>1 DEF Handed
    <3> QED BY <3>1, <3>2
  <2> QED BY <2>1
<1>5. Continued(t)
  <2>1. ASSUME NEW i \in 1 .. Len(t)
        PROVE  /\ t[i].inputs \in RpFed /\ t[i].inputs # <<>> /\ t[i].lives = Handed(t, i)
               /\ t[i].final = PfOutcome(i, t[i].lives, t[i].inputs)
    <3>1. CASE i = n + 1
      <4>1. Handed(t, n + 1) = Handed(done, n + 1)
        BY <1>1, <1>4
      <4> QED BY <1>2, <3>1, <4>1 DEF n
    <3>2. CASE i # n + 1
      <4>1. i \in 1 .. n /\ i \in 1 .. n + 1
        BY <1>1, <1>2, <3>2
      <4>2. /\ done[i].inputs \in RpFed /\ done[i].inputs # <<>> /\ done[i].lives = Handed(done, i)
            /\ done[i].final = PfOutcome(i, done[i].lives, done[i].inputs)
        BY <4>1 DEF Continued, n
      <4> QED BY <1>2, <1>4, <4>1, <4>2
    <3> QED BY <3>1, <3>2
  <2> QED BY <2>1 DEF Continued
<1>6. Handed(t, Len(t) + 1) = r.final.lives
  <2>1. (n + 2) - 1 = n + 1 /\ n + 2 # 1 /\ Len(t) + 1 = n + 2
    BY <1>1, <1>2
  <2>2. Handed(t, n + 2) = t[(n + 2) - 1].final.lives
    BY <2>1 DEF Handed
  <2> QED BY <1>2, <2>1, <2>2
<1> QED BY <1>2, <1>3, <1>5, <1>6 DEF t, n, Y

\* A tick of the play keeps what is recorded true of the engine.
LEMMA RpPlaysTick ==
  ASSUME RpPlayInv, NEW input \in RpInputs, RpPlayTick(input)
  PROVE  RpPlayInv'
<1> DEFINE engine == Fed(rp.engine, input, 1)
           taken == Append(rp.inputs, input)
           end == Outcome(engine)
           rec == Record(engine, taken)
           done == Append(rp.done, rec)
           n == Len(rp.done)
           phase == IF end.status = "lost" \/ Len(done) = PfStages THEN "played" ELSE "play"
<1>1. /\ rp.phase = "play"
      /\ rp' = IF end.status = "running" THEN [rp EXCEPT !.engine = engine, !.inputs = taken]
               ELSE [rp EXCEPT !.done = done, !.inputs = <<>>, !.engine = Fresh(Len(done) + 1, end.lives), !.phase = phase]
  BY DEF RpPlayTick
<1>2. /\ rp = [phase |-> rp.phase, engine |-> rp.engine, inputs |-> rp.inputs, done |-> rp.done]
      /\ rp.inputs \in RpFed /\ Continued(rp.done)
      /\ rp.engine = [stage |-> n + 1, lives |-> Handed(rp.done, n + 1), fed |-> rp.inputs]
  BY <1>1 DEF RpPlayInv
<1>3. PICK X : rp.done \in Seq(X)
  BY DEF RpPlayInv
<1>4. taken \in RpFed /\ taken # <<>>
  <2> DEFINE s == rp.inputs
  <2>0. s \in Seq(RpInputs)
    BY <1>2 DEF RpFed
  <2> HIDE DEF s
  <2>1. Append(s, input) \in Seq(RpInputs) /\ Append(s, input) # <<>>
    BY <2>0, AppendProperties
  <2> QED BY <2>1 DEF RpFed, s
<1>5. engine = [stage |-> n + 1, lives |-> Handed(rp.done, n + 1), fed |-> taken]
  <2> DEFINE s == rp.inputs
             l == Handed(rp.done, n + 1)
             one == [i \in 1 .. 1 |-> input]
  <2>1. engine = [stage |-> n + 1, lives |-> l, fed |-> s \o one]
    <3> HIDE DEF l, n, one
    <3>1. rp.engine = [stage |-> n + 1, lives |-> l, fed |-> s]
      BY <1>2 DEF l
    <3>2. engine = [rp.engine EXCEPT !.fed = rp.engine.fed \o one]
      BY Zenon DEF Fed, one
    <3>3. rp.engine.fed = s
      BY <3>1
    <3> DEFINE E == rp.engine
               q == E.fed \o one
               q2 == s \o one
    <3>4. q = q2
      BY <3>3, Zenon
    <3>5. engine = [E EXCEPT !.fed = q] /\ E = [stage |-> n + 1, lives |-> l, fed |-> s]
      BY <3>1, <3>2, Zenon
    <3> HIDE DEF engine, s, q, q2, E
    <3>6. engine = [stage |-> n + 1, lives |-> l, fed |-> q2]
      BY <3>4, <3>5
    <3> QED BY <3>6 DEF q2
  <2>2. one = <<input>>
    OBVIOUS
  <2>3. s \o <<input>> = Append(s, input)
    <3>1. s \in Seq(RpInputs)
      BY <1>2 DEF RpFed
    <3> HIDE DEF s
    <3> QED BY <3>1, AppendIsConcat
  <2> QED BY <2>1, <2>2, <2>3
<1> HIDE DEF taken, engine
<1>6. end = PfOutcome(n + 1, Handed(rp.done, n + 1), taken)
  BY <1>5 DEF Outcome
<1> HIDE DEF end
<1>7. CASE end.status = "running"
  <2> DEFINE d == rp.done
             ph == rp.phase
  <2> HIDE DEF d, ph
  <2>1. rp' = [phase |-> ph, engine |-> engine, inputs |-> taken, done |-> d] /\ ph = "play"
    BY <1>1, <1>2, <1>7 DEF d, ph
  <2>2. rp'.phase = ph /\ rp'.engine = engine /\ rp'.inputs = taken /\ rp'.done = d
    BY <2>1
  <2>3. engine = [stage |-> Len(d) + 1, lives |-> Handed(d, Len(d) + 1), fed |-> taken] /\ Continued(d) /\ d \in Seq(X)
    BY <1>2, <1>3, <1>5 DEF d, n
  <2> DEFINE R == rp'
  <2>5. /\ R = [phase |-> R.phase, engine |-> R.engine, inputs |-> R.inputs, done |-> R.done]
        /\ R.phase \in {"play", "played", "kept", "refused", "open"}
        /\ (\E Y : R.done \in Seq(Y)) /\ Continued(R.done) /\ R.inputs \in RpFed
        /\ R.phase = "play" =>
             R.engine = [stage |-> Len(R.done) + 1, lives |-> Handed(R.done, Len(R.done) + 1), fed |-> R.inputs]
        /\ R.phase # "play" => R.done # <<>>
    BY <1>4, <2>1, <2>2, <2>3
  <2>6. QED
    BY <2>5 DEF RpPlayInv, Continued, Handed
<1>8. CASE end.status # "running"
  <2> DEFINE f == Fresh(Len(done) + 1, end.lives)
  <2>1. rp' = [phase |-> phase, engine |-> f, inputs |-> <<>>, done |-> done]
    <3> HIDE DEF done, f, phase
    <3> QED BY <1>1, <1>2, <1>8 DEF f
  <2>2. rec.inputs = taken /\ rec.lives = Handed(rp.done, n + 1) /\ rec.final = end
    BY <1>5 DEF Record, end
  <2> HIDE DEF rec
  <2>3. /\ done \in Seq(X \cup {rec}) /\ done # <<>> /\ Continued(done)
        /\ Len(done) = n + 1 /\ Handed(done, Len(done) + 1) = end.lives
    <3> DEFINE d == rp.done
    <3>1. d \in Seq(X) /\ Continued(d) /\ Len(d) = n
      BY <1>2, <1>3
    <3>2. /\ rec.inputs \in RpFed /\ rec.inputs # <<>> /\ rec.lives = Handed(d, Len(d) + 1)
          /\ rec.final = PfOutcome(Len(d) + 1, rec.lives, rec.inputs)
      BY <1>4, <1>6, <2>2
    <3> HIDE DEF d, n
    <3>3. LET t == Append(d, rec)
          IN /\ t \in Seq(X \cup {rec}) /\ t # <<>> /\ Continued(t)
             /\ Len(t) = Len(d) + 1 /\ Handed(t, Len(t) + 1) = rec.final.lives
      BY <3>1, <3>2, RpContinues
    <3> QED BY <2>2, <3>1, <3>3 DEF d
  <2>4. f = [stage |-> Len(done) + 1, lives |-> Handed(done, Len(done) + 1), fed |-> <<>>]
    <3> HIDE DEF done
    <3> QED BY <2>3 DEF Fresh
  <2>5. phase \in {"played", "play"}
    OBVIOUS
  <2> HIDE DEF done, f, phase
  <2>6. <<>> \in RpFed
    BY EmptySeq DEF RpFed
  <2> DEFINE R == rp'
  <2>6a. R.phase = phase /\ R.engine = f /\ R.inputs = <<>> /\ R.done = done
    BY <2>1
  <2>7. /\ R = [phase |-> R.phase, engine |-> R.engine, inputs |-> R.inputs, done |-> R.done]
        /\ R.phase \in {"play", "played", "kept", "refused", "open"}
        /\ (\E Y : R.done \in Seq(Y)) /\ Continued(R.done) /\ R.inputs \in RpFed
        /\ R.phase = "play" =>
             R.engine = [stage |-> Len(R.done) + 1, lives |-> Handed(R.done, Len(R.done) + 1), fed |-> R.inputs]
        /\ R.phase # "play" => R.done # <<>>
    BY <2>1, <2>3, <2>4, <2>5, <2>6, <2>6a
  <2>8. QED
    BY <2>7 DEF RpPlayInv, Continued, Handed
<1> QED BY <1>7, <1>8

\* Every other action leaves the record as it is.
LEMMA RpPlayStands ==
  ASSUME RpPlayInv,
         \/ UNCHANGED rp
         \/ rp.phase # "play" /\ \E phase \in {"kept", "refused", "open"} : rp' = [rp EXCEPT !.phase = phase]
  PROVE  RpPlayInv'
<1>1. CASE UNCHANGED rp
  BY <1>1 DEF RpPlayInv, Continued, Handed
<1>2. CASE rp.phase # "play" /\ \E phase \in {"kept", "refused", "open"} : rp' = [rp EXCEPT !.phase = phase]
  <2>1. PICK phase \in {"kept", "refused", "open"} : rp' = [rp EXCEPT !.phase = phase]
    BY <1>2
  <2>2. /\ rp'.phase = phase /\ rp'.engine = rp.engine /\ rp'.inputs = rp.inputs /\ rp'.done = rp.done
        /\ rp' = [phase |-> rp'.phase, engine |-> rp'.engine, inputs |-> rp'.inputs, done |-> rp'.done]
    BY <2>1 DEF RpPlayInv
  <2>3. (\E X : rp.done \in Seq(X)) /\ Continued(rp.done) /\ rp.inputs \in RpFed /\ rp.done # <<>>
    BY <1>2 DEF RpPlayInv
  <2> DEFINE R == rp'
  <2>5. /\ R = [phase |-> R.phase, engine |-> R.engine, inputs |-> R.inputs, done |-> R.done]
        /\ R.phase \in {"play", "played", "kept", "refused", "open"}
        /\ (\E Y : R.done \in Seq(Y)) /\ Continued(R.done) /\ R.inputs \in RpFed
        /\ R.phase = "play" =>
             R.engine = [stage |-> Len(R.done) + 1, lives |-> Handed(R.done, Len(R.done) + 1), fed |-> R.inputs]
        /\ R.phase # "play" => R.done # <<>>
    BY <2>1, <2>2, <2>3
  <2> QED BY <2>5 DEF RpPlayInv, Continued, Handed
<1> QED BY <1>1, <1>2

\* At the end of the play both verifiers say of it what they must.
LEMMA RpVerdict ==
  ASSUME RpPlayInv
  PROVE  RpVerdictIsThePlay
<1> SUFFICES ASSUME rp.phase = "played" PROVE RpVerdictIsThePlay
  BY DEF RpVerdictIsThePlay
<1> DEFINE r == Finalized(rp.done)
           built == CabinetBuilt(rp.done)
<1>1. Continued(rp.done) /\ rp.done # <<>>
  BY DEF RpPlayInv
<1>2. PICK X : rp.done \in Seq(X)
  BY DEF RpPlayInv
<1>3. r \in RpStages /\ HasRuns(r)
  BY <1>1, <1>2, RpRecorded DEF Finalized
<1>4. /\ Verified(r).ok => Verified(r).proof = r /\ built = [ok |-> TRUE, proof |-> r]
      /\ built.ok => Verified(r).ok
  BY <1>1, <1>2, RpBuilt
<1> HIDE DEF r, built
<1>5. {r} \cup OtherProofs(r) \subseteq RpStages
  BY <1>3, RpOthers
<1>6. \A proof \in {r} \cup OtherProofs(r) : \A v \in {Verified(proof)} :
         /\ v.ok <=> Admissible(proof)
         /\ CabinetVerified(proof) = v
         /\ v.ok => /\ v.proof = Finalized([i \in DOMAIN proof |-> [inputs |-> Plays(proof)[i]]])
                    /\ v.summary.ticks = Sized(Plays(proof))
  <2> TAKE proof \in {r} \cup OtherProofs(r)
  <2> TAKE v \in {Verified(proof)}
  <2>1. proof \in RpStages /\ v = Verified(proof)
    BY <1>5
  <2> QED BY <2>1, RpJudges
<1>7. Verified(r).ok <=> Admissible(r)
  BY <1>3, RpJudges
<1> QED BY <1>4, <1>6, <1>7 DEF RpVerdictIsThePlay, r, built

-----------------------------------------------------------------------------
(* The envelope kept, and the one opened                                   *)

\* Runs after runs are inputs after inputs.
LEMMA RpExpandsBoth ==
  ASSUME NEW x \in RpRunLists, NEW y \in RpRunLists
  PROVE  Expanded(x \o y) = Expanded(x) \o Expanded(y)
<1> DEFINE T == {s \in Seq(RpRun) : Expanded(x \o s) = Expanded(x) \o Expanded(s)}
<1>0. x \in Seq(RpRun) /\ y \in Seq(RpRun)
  BY DEF RpRunLists
<1>1. <<>> \in T
  <2>1. x \o <<>> = x /\ <<>> \in Seq(RpRun)
    BY <1>0, ConcatEmptySeq, EmptySeq
  <2>2. Expanded(<<>>) = <<>>
    BY RpFeedsBegins
  <2>3. Expanded(x) \in Seq(RpInputs)
    BY RpExpandedIsFed DEF RpFed
  <2> DEFINE a == Expanded(x)
  <2> HIDE DEF a
  <2>4. a \o <<>> = a
    BY <2>3, ConcatEmptySeq DEF a
  <2> QED BY <2>1, <2>2, <2>4 DEF a
<1>2. ASSUME NEW s \in Seq(RpRun), NEW e \in RpRun, s \in T PROVE Append(s, e) \in T
  <2>1. x \o Append(s, e) = Append(x \o s, e)
    <3>1. Append(s, e) = s \o <<e>> /\ <<e>> \in Seq(RpRun)
      BY AppendIsConcat
    <3>2. (x \o s) \o <<e>> = x \o (s \o <<e>>)
      BY <1>0, <3>1, ConcatAssociative
    <3>3. x \o s \in Seq(RpRun)
      BY <1>0, ConcatProperties
    <3> DEFINE w == x \o s
    <3> HIDE DEF w
    <3>4. Append(w, e) = w \o <<e>>
      BY <3>3, AppendIsConcat DEF w
    <3> QED BY <3>1, <3>2, <3>4, Zenon DEF w
  <2>2. x \o s \in RpRunLists /\ s \in RpRunLists /\ Append(s, e) \in Seq(RpRun)
    BY <1>0, ConcatProperties, AppendProperties DEF RpRunLists
  <2> DEFINE w == x \o s
             a == Expanded(x)
             b == Expanded(s)
             c == Ticks(e)
             t == Append(s, e)
  <2>3. Expanded(Append(w, e)) = Expanded(w) \o c
    <3> HIDE DEF w
    <3> QED BY <2>2, RpExpands DEF w
  <2>4. Expanded(t) = b \o c
    BY <2>2, RpExpands
  <2>5. Expanded(w) = a \o b
    BY <1>2
  <2>6. a \in RpFed /\ b \in RpFed /\ c \in RpFed
    BY <2>2, RpExpandedIsFed, RpTicked
  <2> HIDE DEF a, b, c, w, t
  <2>7. (a \o b) \o c = a \o (b \o c)
    BY <2>6, ConcatAssociative DEF RpFed
  <2>8. Expanded(x \o t) = a \o Expanded(t)
    BY <2>1, <2>3, <2>4, <2>5, <2>7, Zenon DEF w, t
  <2> QED BY <2>2, <2>8 DEF a, t
<1> HIDE DEF T
<1>3. y \in T
  BY <1>0, <1>1, <1>2, Growing
<1> QED BY <1>3 DEF T

\* A run split in two is the same inputs.
LEMMA RpSplits ==
  ASSUME NEW runs \in RpCanon, runs # <<>>
  PROVE  SplitAt(runs, 1) \in RpRunLists /\ Expanded(SplitAt(runs, 1)) = Expanded(runs)
<1> DEFINE a == [runs[1] EXCEPT !.ticks = 1]
           b == [runs[1] EXCEPT !.ticks = @ - 1]
           c == runs[1]
           x == SubSeq(runs, 1, 1 - 1)
           y == SubSeq(runs, 1 + 1, Len(runs))
<1>1. runs \in Seq(RpRun) /\ Len(runs) \in Nat /\ 1 \in 1 .. Len(runs) /\ c \in RpRun /\ c.ticks \in Nat \ {0}
  <2>1. Len(runs) \in Nat /\ Len(runs) # 0 /\ \A k \in 1 .. Len(runs) : runs[k] \in [input : RpInputs, ticks : Nat \ {0}]
    BY LenProperties, EmptySeq, ElementOfSeq DEF RpCanon
  <2>2. [input : RpInputs, ticks : Nat \ {0}] \subseteq RpRun
    BY DEF RpRun
  <2>3. runs \in Seq(RpRun)
    BY <2>2, SeqMonotonic DEF RpCanon
  <2> QED BY <2>1, <2>2, <2>3
<1> HIDE DEF c
<1>2. /\ a \in RpRun /\ b \in RpRun /\ a.ticks = 1 /\ b.ticks = c.ticks - 1
      /\ a.input = c.input /\ b.input = c.input
  <2>1. a = [c EXCEPT !.ticks = 1] /\ b = [c EXCEPT !.ticks = @ - 1]
    BY DEF c
  <2>2. c.ticks - 1 \in Nat
    BY <1>1
  <2> HIDE DEF a, b
  <2> QED BY <1>1, <2>1, <2>2 DEF RpRun
<1> HIDE DEF a, b
<1>3. x = <<>> /\ y \in Seq(RpRun)
  <2>1. \A k \in 1 .. 1 - 1 : runs[k] \in RpRun
    BY <1>1
  <2>2. \A k \in 1 + 1 .. Len(runs) : runs[k] \in RpRun
    BY <1>1, ElementOfSeq
  <2>3. x \in Seq(RpRun) /\ Len(x) = 0
    BY <1>1, <2>1, SubSeqProperties
  <2>4. y \in Seq(RpRun)
    BY <1>1, <2>2, SubSeqProperties
  <2> HIDE DEF x, y
  <2> QED BY <2>3, <2>4, EmptySeq
<1>4. SplitAt(runs, 1) = x \o <<a, b>> \o y
  BY DEF SplitAt, a, b
<1>5. runs = <<c>> \o y
  <2>1. SubSeq(runs, 1, 1) \o SubSeq(runs, 1 + 1, Len(runs)) = SubSeq(runs, 1, Len(runs))
    <3>1. 1 \in 1 .. Len(runs) + 1 /\ 1 \in 1 - 1 .. Len(runs) /\ Len(runs) \in 1 .. Len(runs)
      BY <1>1
    <3> QED BY <1>1, <3>1, ConcatAdjacentSubSeq
  <2>2. SubSeq(runs, 1, Len(runs)) = runs
    BY <1>1, SubSeqFull
  <2>3. SubSeq(runs, 1, 1) = <<c>>
    <3> DEFINE z == SubSeq(runs, 1, 1)
    <3>1. \A k \in 1 .. 1 : runs[k] \in RpRun
      BY <1>1, ElementOfSeq
    <3>2. z \in Seq(RpRun) /\ Len(z) = 1 /\ \A k \in 1 .. 1 : z[k] = runs[1 + k - 1]
      BY <1>1, <3>1, SubSeqProperties
    <3> HIDE DEF z
    <3>3. z[1] = c
      BY <3>2 DEF c
    <3>4. <<c>> \in Seq(RpRun) /\ Len(<<c>>) = 1 /\ <<c>>[1] = c
      BY <1>1
    <3> DEFINE w == <<c>>
    <3> HIDE DEF w
    <3>5. z \in Seq(RpRun) /\ w \in Seq(RpRun) /\ Len(z) = Len(w) /\ \A k \in 1 .. Len(z) : z[k] = w[k]
      BY <3>2, <3>3, <3>4 DEF w
    <3>6. z = w
      BY <3>5, SeqEqual
    <3> QED BY <3>6 DEF z, w
  <2> QED BY <2>1, <2>2, <2>3, Zenon
<1> HIDE DEF x, y
<1>6. x \o <<a, b>> = <<a, b>>
  BY <1>3, <1>2, ConcatEmptySeq
<1>7. SplitAt(runs, 1) = <<a, b>> \o y
  BY <1>4, <1>6, Zenon
<1>8. <<a, b>> \in RpRunLists /\ <<c>> \in RpRunLists /\ y \in RpRunLists
  BY <1>1, <1>2, <1>3 DEF RpRunLists
<1>9. Expanded(<<a, b>>) = Expanded(<<c>>)
  <2>0. <<>> \in RpRunLists
    BY EmptySeq DEF RpRunLists
  <2>1. \A r \in RpRun : Append(<<>>, r) = <<r>>
    OBVIOUS
  <2>2. Append(<<a>>, b) = <<a, b>> /\ <<a>> \in RpRunLists
    <3>1. Append(<<a>>, b) = <<a, b>>
      <4> DEFINE o == <<a>>
                 u == Append(o, b)
                 w == <<a, b>>
      <4>1. o \in Seq(RpRun) /\ Len(o) = 1 /\ o[1] = a
        BY <1>2
      <4>2. w \in Seq(RpRun) /\ Len(w) = 2 /\ w[1] = a /\ w[2] = b
        BY <1>2
      <4> HIDE DEF o, w
      <4>3. /\ Append(o, b) \in Seq(RpRun) /\ Len(Append(o, b)) = Len(o) + 1 /\ Append(o, b)[Len(o) + 1] = b
            /\ \A i \in 1 .. Len(o) : Append(o, b)[i] = o[i]
        <5>1. o \in Seq(RpRun) /\ b \in RpRun
          BY <1>2, <4>1
        <5> QED BY <5>1, AppendProperties
      <4>3a. u \in Seq(RpRun) /\ Len(u) = Len(o) + 1 /\ u[Len(o) + 1] = b /\ \A i \in 1 .. Len(o) : u[i] = o[i]
        BY <4>3, Zenon
      <4> HIDE DEF u
      <4>4. \A i \in 1 .. 2 : u[i] = w[i]
        BY <4>1, <4>2, <4>3a
      <4>5. u = w
        BY <4>1, <4>2, <4>3a, <4>4, SeqEqual
      <4> QED BY <4>5, Zenon DEF o, u, w
    <3>2. <<a>> \in Seq(RpRun)
      BY <1>2
    <3> QED BY <3>1, <3>2 DEF RpRunLists
  <2>3. \A r \in RpRun : Expanded(Append(<<>>, r)) = <<>> \o Ticks(r)
    <3>1. \A r \in RpRun : Expanded(Append(<<>>, r)) = Expanded(<<>>) \o Ticks(r) /\ Expanded(<<>>) = <<>>
      BY <2>0, RpExpands
    <3> QED BY <3>1, Zenon
  <2>4. \A r \in RpRun : Expanded(<<r>>) = Ticks(r)
    <3> TAKE r \in RpRun
    <3> DEFINE u == Ticks(r)
    <3>1. u \in Seq(RpInputs)
      BY RpTicked DEF RpFed
    <3> HIDE DEF u
    <3>2. <<>> \o u = u
      BY <3>1, ConcatEmptySeq
    <3>3. Expanded(Append(<<>>, r)) = <<>> \o u
      BY <2>3 DEF u
    <3> QED BY <2>1, <3>2, <3>3, Zenon DEF u
  <2>5. Expanded(Append(<<a>>, b)) = Expanded(<<a>>) \o Ticks(b)
    BY <1>2, <2>2, RpExpands
  <2>6. Ticks(a) \o Ticks(b) = Ticks(c)
    <3> DEFINE u == Ticks(a)
               v == Ticks(b)
               w == Ticks(c)
    <3>1. /\ u \in RpFed /\ Len(u) = 1 /\ \A i \in 1 .. 1 : u[i] = c.input
          /\ v \in RpFed /\ Len(v) = c.ticks - 1 /\ \A i \in 1 .. c.ticks - 1 : v[i] = c.input
          /\ w \in RpFed /\ Len(w) = c.ticks /\ \A i \in 1 .. c.ticks : w[i] = c.input
      BY <1>1, <1>2, RpTicked
    <3> HIDE DEF u, v, w
    <3>2. /\ u \o v \in Seq(RpInputs) /\ Len(u \o v) = Len(u) + Len(v)
          /\ \A i \in 1 .. Len(u) + Len(v) : (u \o v)[i] = IF i <= Len(u) THEN u[i] ELSE v[i - Len(u)]
      BY <3>1, ConcatProperties DEF RpFed
    <3> DEFINE z == u \o v
    <3> HIDE DEF z
    <3>3. z \in Seq(RpInputs) /\ w \in Seq(RpInputs) /\ Len(z) = Len(w)
      BY <1>1, <3>1, <3>2 DEF z, RpFed
    <3>4. ASSUME NEW i \in 1 .. Len(z) PROVE z[i] = w[i]
      <4>1. z[i] = IF i <= 1 THEN u[i] ELSE v[i - 1]
        BY <1>1, <3>1, <3>2 DEF z
      <4>2. i \in 1 .. c.ticks
        BY <3>1, <3>3
      <4>3. CASE i <= 1
        BY <1>1, <3>1, <4>1, <4>2, <4>3
      <4>4. CASE i > 1
        <5>1. i - 1 \in 1 .. c.ticks - 1
          BY <1>1, <4>2, <4>4
        <5> QED BY <1>1, <3>1, <4>1, <4>2, <4>4, <5>1
      <4> QED BY <1>1, <4>2, <4>3, <4>4
    <3>5. z = w
      BY <3>3, <3>4, SeqEqual
    <3> QED BY <3>5 DEF z, u, v, w
  <2>7. Expanded(<<a>>) = Ticks(a) /\ Expanded(<<c>>) = Ticks(c)
    BY <1>1, <1>2, <2>4
  <2> QED BY <2>2, <2>5, <2>6, <2>7, Zenon
<1>10. Expanded(<<a, b>> \o y) = Expanded(<<c>> \o y)
  <2>1. Expanded(<<a, b>> \o y) = Expanded(<<a, b>>) \o Expanded(y)
    BY <1>8, RpExpandsBoth
  <2>2. Expanded(<<c>> \o y) = Expanded(<<c>>) \o Expanded(y)
    BY <1>8, RpExpandsBoth
  <2> QED BY <1>9, <2>1, <2>2, Zenon
<1>11. <<a, b>> \o y \in RpRunLists
  <2>1. <<a, b>> \in Seq(RpRun)
    BY <1>8 DEF RpRunLists
  <2> DEFINE z == <<a, b>>
  <2> HIDE DEF z
  <2>2. z \o y \in Seq(RpRun)
    BY <1>3, <2>1, ConcatProperties DEF z
  <2> QED BY <2>2 DEF z, RpRunLists
<1> QED BY <1>5, <1>7, <1>10, <1>11, Zenon

\* A sequence whose last element is another.
LastOther(S, q, e) ==
  \E f \in Seq(S), l \in S : /\ q = Append(f, l) /\ l = q[Len(q)] /\ Len(f) + 1 = Len(q) /\ Len(f) \in Nat
                             /\ [q EXCEPT ![Len(q)] = e] = Append(f, e)

\* The last element of a sequence may be changed alone.
LEMMA RpLastOther ==
  ASSUME NEW S, NEW q \in Seq(S), q # <<>>, NEW e \in S
  PROVE  LastOther(S, q, e)
<1>1. PICK f \in Seq(S), l \in S : q = Append(f, l)
  BY SequenceEmptyOrAppend
<1> DEFINE n == Len(f)
<1>2. n \in Nat /\ Len(q) = n + 1 /\ q[n + 1] = l /\ \A i \in 1 .. n : q[i] = f[i]
  <2>1. /\ Len(Append(f, l)) = Len(f) + 1 /\ Append(f, l)[Len(f) + 1] = l /\ \A i \in 1 .. Len(f) : Append(f, l)[i] = f[i]
    BY AppendProperties
  <2>2. Len(f) \in Nat
    BY LenProperties
  <2> QED BY <1>1, <2>1, <2>2, Zenon
<1> DEFINE u == [q EXCEPT ![n + 1] = e]
           w == Append(f, e)
<1>3. u \in Seq(S) /\ Len(u) = n + 1 /\ u[n + 1] = e /\ \A i \in 1 .. n : u[i] = q[i]
  <2>1. n + 1 \in 1 .. Len(q)
    BY <1>2
  <2>2. u \in Seq(S) /\ Len(u) = Len(q) /\ \A j \in 1 .. Len(q) : u[j] = IF j = n + 1 THEN e ELSE q[j]
    BY <2>1, ExceptSeq
  <2> HIDE DEF u
  <2> QED BY <1>2, <2>1, <2>2
<1>4. w \in Seq(S) /\ Len(w) = n + 1 /\ w[n + 1] = e /\ \A i \in 1 .. n : w[i] = f[i]
  <2>1. /\ Append(f, e) \in Seq(S) /\ Len(Append(f, e)) = Len(f) + 1 /\ Append(f, e)[Len(f) + 1] = e
        /\ \A i \in 1 .. Len(f) : Append(f, e)[i] = f[i]
    BY AppendProperties
  <2> QED BY <2>1, Zenon
<1> HIDE DEF u, w
<1>5. u = w
  <2>1. Len(u) = Len(w)
    BY <1>3, <1>4
  <2>2. \A i \in 1 .. Len(u) : u[i] = w[i]
    BY <1>2, <1>3, <1>4
  <2> QED BY <1>3, <1>4, <2>1, <2>2, SeqEqual
<1>6. [q EXCEPT ![Len(q)] = e] = Append(f, e)
  BY <1>2, <1>5 DEF u, w
<1>7. l = q[Len(q)] /\ Len(f) + 1 = Len(q)
  BY <1>2
<1> QED BY <1>1, <1>2, <1>6, <1>7, Zenon DEF LastOther

\* A last run of other length.
LEMMA RpLastRun ==
  ASSUME NEW runs \in RpCanon, runs # <<>>, NEW t \in Nat
  PROVE  LET other == [runs EXCEPT ![Len(runs)].ticks = t]
         IN /\ other \in RpRunLists /\ runs \in RpRunLists /\ runs[Len(runs)].ticks \in Nat \ {0}
            /\ Len(Expanded(other)) + runs[Len(runs)].ticks = Len(Expanded(runs)) + t
            /\ Len(Expanded(runs)) \in Nat /\ Len(Expanded(other)) \in Nat
<1> DEFINE k == Len(runs)
           c == runs[k]
           d == [c EXCEPT !.ticks = t]
           other == [runs EXCEPT ![k].ticks = t]
<1>1. runs \in Seq(RpRun) /\ c \in RpRun /\ c.ticks \in Nat \ {0}
  <2>1. Len(runs) \in Nat /\ Len(runs) # 0 /\ \A i \in 1 .. Len(runs) : runs[i] \in [input : RpInputs, ticks : Nat \ {0}]
    BY LenProperties, EmptySeq, ElementOfSeq DEF RpCanon
  <2>2. [input : RpInputs, ticks : Nat \ {0}] \subseteq RpRun
    BY DEF RpRun
  <2>3. runs \in Seq(RpRun)
    BY <2>2, SeqMonotonic DEF RpCanon
  <2> QED BY <2>1, <2>2, <2>3
<1>2. other = [runs EXCEPT ![k] = d]
  OBVIOUS
<1>3. d \in RpRun /\ d.ticks = t
  <2> HIDE DEF c
  <2> QED BY <1>1 DEF RpRun
<1> HIDE DEF d, c, other, k
<1>4. PICK f \in Seq(RpRun), l \in RpRun : runs = Append(f, l) /\ l = c /\ [runs EXCEPT ![k] = d] = Append(f, d)
  <2>1. LastOther(RpRun, runs, d)
    BY <1>1, <1>3, RpLastOther
  <2> QED BY <2>1, Zenon DEF LastOther, c, k
<1>5. f \in RpRunLists /\ l = c
  BY <1>4 DEF RpRunLists
<1>6. \A r \in RpRun : /\ Expanded(Append(f, r)) = Expanded(f) \o Ticks(r) /\ Append(f, r) \in RpRunLists
                       /\ Len(Expanded(Append(f, r))) = Len(Expanded(f)) + r.ticks
  <2> TAKE r \in RpRun
  <2> DEFINE u == Expanded(f)
             v == Ticks(r)
  <2>1. Expanded(Append(f, r)) = u \o v
    BY <1>5, RpExpands
  <2>2. u \in Seq(RpInputs) /\ v \in Seq(RpInputs) /\ Len(v) = r.ticks
    BY <1>5, RpExpandedIsFed, RpTicked DEF RpFed
  <2> HIDE DEF u, v
  <2>3. Len(u \o v) = Len(u) + Len(v)
    BY <2>2, ConcatProperties
  <2>4. Append(f, r) \in RpRunLists
    BY AppendProperties DEF RpRunLists
  <2>5. Len(Expanded(Append(f, r))) = Len(u) + r.ticks
    BY <2>1, <2>2, <2>3, Zenon
  <2> QED BY <2>1, <2>4, <2>5 DEF u, v
<1>7. Expanded(f) \in RpFed /\ Len(Expanded(f)) \in Nat
  BY <1>5, RpExpandedIsFed, LenProperties DEF RpFed
<1>8. Len(Expanded(runs)) = Len(Expanded(f)) + c.ticks /\ runs \in RpRunLists
  BY <1>1, <1>4, <1>6, Zenon
<1>9. Len(Expanded(other)) = Len(Expanded(f)) + t /\ other \in RpRunLists
  BY <1>2, <1>3, <1>4, <1>6, Zenon
<1> QED BY <1>1, <1>7, <1>8, <1>9 DEF other, c, k

\* A last stage of other runs.
LEMMA RpLastStage ==
  ASSUME NEW p \in RpStages, p # <<>>, NEW runs \in RpRunLists
  PROVE  LET other == WithRuns(p, Len(p), runs)
         IN /\ Sized(Plays(other)) + Len(Expanded(p[Len(p)].runs)) = Sized(Plays(p)) + Len(Expanded(runs))
            /\ Sized(Plays(other)) \in Nat /\ Sized(Plays(p)) \in Nat
<1> DEFINE n == Len(p)
           s == [p[n] EXCEPT !.runs = runs]
<1>1. p \in Seq(RpStage) /\ p[n] \in RpStage
  <2>1. p \in Seq(RpStage)
    BY DEF RpStages
  <2>2. n \in Nat /\ n # 0
    BY <2>1, LenProperties, EmptySeq
  <2> QED BY <2>1, <2>2, ElementOfSeq
<1>2. s \in RpStage /\ s.runs = runs
  <2> DEFINE e == p[n]
  <2> HIDE DEF e
  <2> QED BY <1>1 DEF RpStage, e
<1>3. WithRuns(p, n, runs) = [p EXCEPT ![n] = s]
  BY DEF WithRuns
<1> HIDE DEF s
<1>4. PICK f \in Seq(RpStage), l \in RpStage :
        p = Append(f, l) /\ l = p[Len(p)] /\ [p EXCEPT ![Len(p)] = s] = Append(f, s)
  <2>1. LastOther(RpStage, p, s)
    BY <1>1, <1>2, RpLastOther
  <2> QED BY <2>1, Zenon DEF LastOther
<1>5. f \in RpStages
  BY DEF RpStages
<1>6. /\ Sized(Plays(Append(f, l))) = Sized(Plays(f)) + Len(Expanded(l.runs)) /\ Sized(Plays(f)) \in Nat
      /\ Sized(Plays(Append(f, s))) = Sized(Plays(f)) + Len(Expanded(s.runs))
      /\ Len(Expanded(l.runs)) \in Nat /\ Len(Expanded(s.runs)) \in Nat
  BY <1>2, <1>5, RpStageSizes
<1>7. /\ Sized(Plays(p)) = Sized(Plays(f)) + Len(Expanded(p[n].runs))
      /\ Sized(Plays(WithRuns(p, n, runs))) = Sized(Plays(f)) + Len(Expanded(runs))
      /\ Len(Expanded(p[n].runs)) \in Nat /\ Len(Expanded(runs)) \in Nat
  <2>1. WithRuns(p, n, runs) = Append(f, s)
    BY <1>3, <1>4
  <2>2. l.runs = p[n].runs
    BY <1>4
  <2>3. Sized(Plays(p)) = Sized(Plays(f)) + Len(Expanded(l.runs))
    BY <1>4, <1>6
  <2> QED BY <1>2, <1>6, <2>1, <2>2, <2>3
<1> DEFINE a == Sized(Plays(p))
           b == Sized(Plays(WithRuns(p, n, runs)))
           c == Sized(Plays(f))
           x == Len(Expanded(p[n].runs))
           y == Len(Expanded(runs))
<1>8. a = c + x /\ b = c + y /\ x \in Nat /\ y \in Nat /\ c \in Nat
  BY <1>6, <1>7
<1> HIDE DEF a, b, c, x, y
<1>9. b + x = a + y /\ a \in Nat /\ b \in Nat
  BY <1>8
<1> QED BY <1>9 DEF a, b, x, y

\* What is put in the place of a proof and has as many stages and ticks is
\* the same run.
LEMMA RpSamePlays ==
  ASSUME NEW p \in RpStages, HasRuns(p), NEW q \in {p} \cup OtherProofs(p),
         Len(q) = Len(p), Sized(Plays(q)) = Sized(Plays(p))
  PROVE  q \in RpStages /\ Plays(q) = Plays(p)
<1> DEFINE n == Len(p)
<1>1. n \in Nat /\ n # 0 /\ p \in Seq(RpStage) /\ DOMAIN p = 1 .. n /\ n \in 1 .. n /\ p # <<>>
  <2>1. p \in Seq(RpStage) /\ p # <<>>
    BY DEF HasRuns, RpStages
  <2>2. n \in Nat /\ n # 0 /\ DOMAIN p = 1 .. n
    BY <2>1, LenProperties, EmptySeq
  <2> QED BY <2>1, <2>2
<1>2. ASSUME NEW i \in 1 .. n PROVE p[i] \in RpStage /\ p[i].runs \in RpRunLists /\ p[i].runs \in RpCanon /\ p[i].runs # <<>>
  BY RpEach DEF HasRuns
<1>3. q \in RpStages
  BY RpOthers
<1>4. Last(p) = p[n]
  BY DEF Last
<1> DEFINE runs == p[n].runs
           k == Len(runs)
<1>5. ASSUME NEW t \in Nat, q = WithRuns(p, n, [runs EXCEPT ![k].ticks = t]) PROVE t = runs[k].ticks
  <2> DEFINE other == [runs EXCEPT ![k].ticks = t]
  <2>1. /\ other \in RpRunLists /\ runs[k].ticks \in Nat /\ Len(Expanded(other)) + runs[k].ticks = Len(Expanded(runs)) + t
        /\ Len(Expanded(runs)) \in Nat /\ Len(Expanded(other)) \in Nat
    <3>1. runs \in RpCanon /\ runs # <<>>
      BY <1>1, <1>2
    <3> HIDE DEF runs
    <3> QED BY <3>1, RpLastRun
  <2> HIDE DEF other
  <2>2. /\ Sized(Plays(q)) + Len(Expanded(runs)) = Sized(Plays(p)) + Len(Expanded(other))
        /\ Sized(Plays(q)) \in Nat /\ Sized(Plays(p)) \in Nat
    <3>1. q = WithRuns(p, n, other)
      BY <1>5 DEF other
    <3> QED BY <1>1, <2>1, <3>1, RpLastStage
  <2> DEFINE a == Sized(Plays(p))
             x == Len(Expanded(runs))
             y == Len(Expanded(other))
             z == runs[k].ticks
  <2>3. a + x = a + y /\ y + z = x + t /\ a \in Nat /\ x \in Nat /\ y \in Nat /\ z \in Nat
    BY <2>1, <2>2
  <2> HIDE DEF a, x, y, z
  <2>4. t = z
    BY <2>3
  <2> QED BY <2>4 DEF z
<1>6. runs[k].ticks \in Nat \ {0}
  <2>1. runs \in RpCanon /\ runs # <<>>
    BY <1>1, <1>2
  <2>2. 0 \in Nat
    OBVIOUS
  <2> HIDE DEF runs
  <2> QED BY <2>1, <2>2, RpLastRun
<1>7. q # Longer(p)
  <2>1. Longer(p) = WithRuns(p, n, [runs EXCEPT ![k].ticks = runs[k].ticks + 1])
    BY <1>4 DEF Longer
  <2> DEFINE t == runs[k].ticks + 1
  <2>2. t \in Nat /\ t # runs[k].ticks
    BY <1>6
  <2> HIDE DEF t
  <2>3. Longer(p) = WithRuns(p, n, [runs EXCEPT ![k].ticks = t])
    BY <2>1 DEF t
  <2> HIDE DEF runs, k
  <2> QED BY <1>5, <2>2, <2>3
<1>8. q # Shorter(p)
  <2>1. Shorter(p) = WithRuns(p, n, [runs EXCEPT ![k].ticks = runs[k].ticks - 1])
    BY <1>4 DEF Shorter
  <2> DEFINE t == runs[k].ticks - 1
  <2>2. t \in Nat /\ t # runs[k].ticks
    BY <1>6
  <2> HIDE DEF t
  <2>3. Shorter(p) = WithRuns(p, n, [runs EXCEPT ![k].ticks = t])
    BY <2>1 DEF t
  <2> HIDE DEF runs, k
  <2> QED BY <1>5, <2>2, <2>3
<1> HIDE DEF runs, k
<1>9. q # Front(p) /\ q # Append(p, Last(p)) /\ q # Tail(p)
  <2>1. Len(Append(p, p[n])) = n + 1
    BY <1>1, <1>2, AppendProperties
  <2>2. Len(SubSeq(p, 1, n - 1)) = n - 1
    <3>1. \A i \in 1 .. n - 1 : p[i] \in RpStage
      BY <1>1, <1>2
    <3> QED BY <1>1, <3>1, SubSeqProperties
  <2>3. Len(Tail(p)) = n - 1
    BY <1>1, HeadTailProperties
  <2>4. Len(Front(p)) = n - 1 /\ Len(Append(p, Last(p))) = n + 1
    BY <1>4, <2>1, <2>2, Zenon DEF Front
  <2> QED BY <1>1, <2>3, <2>4
<1>10. ASSUME NEW i \in 1 .. n, q = WithRuns(p, i, SplitAt(p[i].runs, 1)) PROVE Plays(q) = Plays(p)
  <2> DEFINE s == SplitAt(p[i].runs, 1)
  <2>1. Expanded(s) = Expanded(p[i].runs)
    BY <1>2, RpSplits
  <2> HIDE DEF s
  <2>2. \A j \in 1 .. n : q[j].runs = IF j = i THEN s ELSE p[j].runs
    BY <1>1, <1>10 DEF WithRuns, s
  <2>3. /\ Plays(q) \in Seq(RpFed) /\ Len(Plays(q)) = n /\ \A j \in 1 .. n : Plays(q)[j] = Expanded(q[j].runs)
    BY <1>3, RpEach
  <2>4. /\ Plays(p) \in Seq(RpFed) /\ Len(Plays(p)) = n /\ \A j \in 1 .. n : Plays(p)[j] = Expanded(p[j].runs)
    BY RpEach
  <2>5. \A j \in 1 .. n : Plays(q)[j] = Plays(p)[j]
    BY <2>1, <2>2, <2>3, <2>4
  <2> DEFINE u == Plays(q)
             w == Plays(p)
  <2> HIDE DEF u, w
  <2>6. u \in Seq(RpFed) /\ w \in Seq(RpFed) /\ Len(u) = Len(w) /\ \A j \in 1 .. Len(u) : u[j] = w[j]
    BY <2>3, <2>4, <2>5 DEF u, w
  <2>7. u = w
    BY <2>6, SeqEqual
  <2> QED BY <2>7 DEF u, w
<1>11. q = p \/ \E i \in 1 .. n : q = WithRuns(p, i, SplitAt(p[i].runs, 1))
  BY <1>1, <1>7, <1>8, <1>9 DEF OtherProofs
<1> QED BY <1>3, <1>10, <1>11

\* The envelope of a proof and what came of it; one that is put in its place
\* and opens is of the same run.
Envelop(p) == [proof |-> p, summary |-> SummaryOf(p)]

\* An envelope whose proof was replaced opens only if it is the same play.
LEMMA RpOpensIt ==
  ASSUME NEW p \in RpStages, HasRuns(p), NEW q \in {p} \cup OtherProofs(p), Valid([Envelop(p) EXCEPT !.proof = q])
  PROVE  q \in RpStages /\ Taken(q) /\ Plays(q) = Plays(p)
<1> DEFINE v == Verified(q)
           sum == SummaryOf(p)
           env == [proof |-> q, summary |-> sum]
<1>1. v = [ok |-> TRUE, proof |-> q, summary |-> sum]
  <2>1. [Envelop(p) EXCEPT !.proof = q] = env
    BY DEF Envelop
  <2>2. env.proof = q /\ env.summary = sum
    OBVIOUS
  <2> HIDE DEF env, sum
  <2> QED BY <2>1, <2>2 DEF Valid
<1>2. v.ok /\ v.summary = sum
  <2> HIDE DEF v, sum
  <2> QED BY <1>1
<1> HIDE DEF v, env
<1>3. q \in RpStages
  BY RpOthers
<1>4. Taken(q) /\ SummaryOf(q) = sum
  BY <1>2, <1>3, RpJudges DEF v
<1>5. Len(q) = Len(p) /\ Sized(Plays(q)) = Sized(Plays(p))
  <2>1. SummaryOf(q).reached = SummaryOf(p).reached /\ SummaryOf(q).ticks = SummaryOf(p).ticks
    BY <1>4
  <2> QED BY <2>1 DEF SummaryOf
<1> QED BY <1>3, <1>4, <1>5, RpSamePlays

-----------------------------------------------------------------------------
(* The inputs of a stage, found by their ticks                             *)

\* The ticks of runs are so many inputs.
LEMMA RpTicksOf ==
  ASSUME NEW runs \in RpRunLists
  PROVE  Total([j \in 1 .. Len(runs) |-> runs[j].ticks]) = Len(Expanded(runs))
<1> DEFINE All(s) == [j \in 1 .. Len(s) |-> s[j].ticks]
           T == {s \in Seq(RpRun) : All(s) \in Seq(Nat) /\ Total(All(s)) = Len(Expanded(s))}
<1>1. <<>> \in T
  <2>1. All(<<>>) = <<>>
    OBVIOUS
  <2>2. Total(<<>>) = 0 /\ Expanded(<<>>) = <<>>
    BY RpSumsBegins, RpFeedsBegins
  <2>3. Total(All(<<>>)) = Len(Expanded(<<>>)) /\ All(<<>>) \in Seq(Nat)
    BY <2>1, <2>2, EmptySeq
  <2> QED BY <2>3, EmptySeq
<1>2. ASSUME NEW s \in Seq(RpRun), NEW e \in RpRun, s \in T PROVE Append(s, e) \in T
  <2> DEFINE t == Append(s, e)
             n == Len(s)
             a == All(s)
             b == All(t)
             c == e.ticks
             d == Append(a, c)
  <2>1. /\ n \in Nat /\ t \in Seq(RpRun) /\ Len(t) = n + 1 /\ t[n + 1] = e /\ \A k \in 1 .. n : t[k] = s[k]
    BY AppendProperties, LenProperties
  <2>2. a \in Seq(Nat) /\ Len(a) = n /\ \A k \in 1 .. n : a[k] = s[k].ticks
    <3>1. a \in Seq(Nat) /\ a = [j \in 1 .. n |-> s[j].ticks]
      BY <1>2
    <3>2. DOMAIN a = 1 .. n /\ \A k \in 1 .. n : a[k] = s[k].ticks
      BY <3>1
    <3> HIDE DEF a
    <3>3. Len(a) = n
      BY <2>1, <3>1, <3>2, LenProperties
    <3> QED BY <3>1, <3>2, <3>3
  <2>3. c \in Nat /\ \A k \in 1 .. n + 1 : t[k] \in RpRun /\ t[k].ticks \in Nat
    <3>1. \A r \in RpRun : r.ticks \in Nat
      BY DEF RpRun
    <3> QED BY <2>1, <3>1, ElementOfSeq
  <2>4. b \in Seq(Nat) /\ Len(b) = n + 1 /\ \A k \in 1 .. n + 1 : b[k] = t[k].ticks
    <3>1. b = [j \in 1 .. n + 1 |-> t[j].ticks]
      BY <2>1
    <3> HIDE DEF b, t, n
    <3>2. b \in [1 .. n + 1 -> Nat] /\ \A k \in 1 .. n + 1 : b[k] = t[k].ticks
      BY <2>3, <3>1
    <3>3. n + 1 \in Nat
      BY <2>1
    <3> QED BY <3>2, <3>3, RpSeqOf
  <2> HIDE DEF a, b, c, n, t
  <2>5. d \in Seq(Nat) /\ Len(d) = n + 1 /\ d[n + 1] = c /\ \A k \in 1 .. n : d[k] = a[k]
    <3>1. /\ Append(a, c) \in Seq(Nat) /\ Len(Append(a, c)) = Len(a) + 1 /\ Append(a, c)[Len(a) + 1] = c
          /\ \A k \in 1 .. Len(a) : Append(a, c)[k] = a[k]
      BY <2>2, <2>3, AppendProperties
    <3> QED BY <2>2, <3>1, Zenon
  <2> HIDE DEF d
  <2>6. b = d
    <3>1. \A k \in 1 .. Len(b) : b[k] = d[k]
      <4> TAKE k \in 1 .. Len(b)
      <4>1. k \in 1 .. n \/ k = n + 1
        BY <2>1, <2>4
      <4>2. CASE k \in 1 .. n
        <5>1. k \in 1 .. n + 1
          BY <2>1, <4>2
        <5> QED BY <2>1, <2>2, <2>4, <2>5, <4>2, <5>1
      <4>3. CASE k = n + 1
        <5>1. k \in 1 .. n + 1
          BY <2>1, <4>3
        <5>2. b[k] = t[k].ticks /\ t[k] = e
          BY <2>1, <2>4, <4>3, <5>1
        <5> QED BY <2>5, <4>3, <5>2 DEF c
      <4> QED BY <4>1, <4>2, <4>3
    <3>2. Len(b) = Len(d)
      BY <2>4, <2>5
    <3> QED BY <2>4, <2>5, <3>1, <3>2, SeqEqual
  <2>7. Total(d) = Total(a) + c
    BY <2>2, <2>3, TotalGrows DEF d
  <2>8. Len(Expanded(t)) = Len(Expanded(s)) + c
    <3>1. s \in RpRunLists
      BY DEF RpRunLists
    <3> DEFINE u == Expanded(s)
               v == Ticks(e)
    <3>2. Expanded(t) = u \o v
      BY <3>1, RpExpands DEF t
    <3>3. u \in Seq(RpInputs) /\ v \in Seq(RpInputs) /\ Len(v) = c
      BY <3>1, RpExpandedIsFed, RpTicked DEF RpFed, c
    <3> HIDE DEF u, v
    <3>4. Len(u \o v) = Len(u) + Len(v)
      BY <3>3, ConcatProperties
    <3> QED BY <3>2, <3>3, <3>4, Zenon DEF u
  <2>9. Total(a) = Len(Expanded(s))
    BY <1>2 DEF a
  <2>10. Total(b) = Len(Expanded(t))
    BY <2>6, <2>7, <2>8, <2>9
  <2>11. t \in T
    BY <2>1, <2>4, <2>10 DEF b
  <2> QED BY <2>11 DEF t
<1>3. runs \in T
  <2> HIDE DEF T
  <2>1. Seq(RpRun) \subseteq T
    BY <1>1, <1>2, Growing
  <2> QED BY <2>1 DEF RpRunLists
<1> QED BY <1>3

\* The first runs of a list.
LEMMA RpFirstRuns ==
  ASSUME NEW runs \in RpRunLists, NEW k \in 0 .. Len(runs)
  PROVE  /\ SubSeq(runs, 1, k) \in RpRunLists /\ Len(SubSeq(runs, 1, k)) = k
         /\ \A j \in 1 .. k : SubSeq(runs, 1, k)[j] = runs[j]
         /\ \A j \in 1 .. Len(runs) : runs[j] \in RpRun
<1>1. runs \in Seq(RpRun) /\ Len(runs) \in Nat /\ \A j \in 1 .. Len(runs) : runs[j] \in RpRun
  BY LenProperties, ElementOfSeq DEF RpRunLists
<1>2. \A j \in 1 .. k : runs[j] \in RpRun
  BY <1>1
<1>3. 1 \in Int /\ k \in Int
  BY <1>1
<1>4. /\ SubSeq(runs, 1, k) \in Seq(RpRun) /\ Len(SubSeq(runs, 1, k)) = IF 1 <= k THEN k - 1 + 1 ELSE 0
      /\ \A j \in 1 .. k - 1 + 1 : SubSeq(runs, 1, k)[j] = runs[1 + j - 1]
  BY <1>2, <1>3, SubSeqProperties
<1> DEFINE z == SubSeq(runs, 1, k)
<1> HIDE DEF z
<1>5. z \in Seq(RpRun) /\ Len(z) = k /\ \A j \in 1 .. k : z[j] = runs[j]
  <2>1. /\ z \in Seq(RpRun) /\ Len(z) = IF 1 <= k THEN k - 1 + 1 ELSE 0
        /\ \A j \in 1 .. k - 1 + 1 : z[j] = runs[1 + j - 1]
    BY <1>4, Zenon DEF z
  <2>2. Len(z) = k
    BY <1>1, <2>1
  <2>3. ASSUME NEW j \in 1 .. k PROVE z[j] = runs[j]
    BY <1>1, <2>1
  <2> QED BY <2>1, <2>2, <2>3
<1> QED BY <1>1, <1>5 DEF z, RpRunLists

\* Where a run ends, and what the stage is fed up to there.
Upto(runs, k) == Expanded(SubSeq(runs, 1, k))

\* The end of a run is the tick up to which the runs so far reach, and its ticks all have its input.
LEMMA RpRunEnds ==
  ASSUME NEW runs \in RpRunLists, NEW k \in 1 .. Len(runs)
  PROVE  /\ StageInputs(runs).ends[k] = Len(Upto(runs, k)) /\ Len(Upto(runs, k)) \in Nat
         /\ StageInputs(runs).inputs[k] = runs[k].input
         /\ \A t \in 1 .. Len(Expanded(runs)) :
              Len(Upto(runs, k - 1)) < t /\ t <= Len(Upto(runs, k)) => Expanded(runs)[t] = runs[k].input
<1> DEFINE n == Len(runs)
           z == SubSeq(runs, 1, k)
<1>1. n \in Nat /\ DOMAIN runs = 1 .. n /\ runs \in Seq(RpRun) /\ runs[k] \in RpRun
  BY LenProperties, ElementOfSeq DEF RpRunLists
<1>2. z \in RpRunLists /\ Len(z) = k /\ \A j \in 1 .. k : z[j] = runs[j]
  <2>1. k \in 0 .. Len(runs)
    BY <1>1
  <2> QED BY <2>1, RpFirstRuns
<1>3. StageInputs(runs).ends[k] = Total([j \in 1 .. k |-> runs[j].ticks]) /\ StageInputs(runs).inputs[k] = runs[k].input
  BY <1>1 DEF StageInputs
<1>4. Total([j \in 1 .. k |-> runs[j].ticks]) = Len(Expanded(z))
  <2> HIDE DEF z
  <2>1. Total([j \in 1 .. Len(z) |-> z[j].ticks]) = Len(Expanded(z))
    BY <1>2, RpTicksOf
  <2>2. [j \in 1 .. Len(z) |-> z[j].ticks] = [j \in 1 .. k |-> runs[j].ticks]
    BY <1>2
  <2> QED BY <2>1, <2>2
<1>5. Len(Expanded(z)) \in Nat
  BY <1>2, RpExpandedIsFed, LenProperties DEF RpFed
<1> DEFINE y == SubSeq(runs, 1, k - 1)
           x == SubSeq(runs, k + 1, n)
           e == runs[k]
<1>6. y \in RpRunLists /\ x \in RpRunLists /\ e \in RpRun
  <2>1. k - 1 \in 0 .. Len(runs) /\ \A j \in k + 1 .. n : runs[j] \in RpRun
    BY <1>1, ElementOfSeq
  <2>2. k + 1 \in Int /\ n \in Int
    BY <1>1
  <2>3. x \in Seq(RpRun)
    BY <2>1, <2>2, SubSeqProperties
  <2> QED BY <1>1, <2>1, <2>3, RpFirstRuns DEF RpRunLists
<1>7. z = Append(y, e) /\ runs = z \o x
  <2>1. z = y \o <<e>>
    <3>1. 1 \in 1 .. Len(runs) /\ k \in 1 .. Len(runs)
      BY <1>1
    <3> QED BY <1>1, <3>1, SubSeqRecursiveSecond
  <2>2. y \o <<e>> = Append(y, e)
    <3>1. y \in Seq(RpRun)
      BY <1>6 DEF RpRunLists
    <3> HIDE DEF y, e
    <3> QED BY <1>6, <3>1, AppendIsConcat
  <2>3. z \o x = SubSeq(runs, 1, n)
    <3>1. 1 \in 1 .. Len(runs) + 1 /\ k \in 1 - 1 .. Len(runs) /\ n \in k .. Len(runs)
      BY <1>1
    <3> QED BY <1>1, <3>1, ConcatAdjacentSubSeq
  <2>4. SubSeq(runs, 1, n) = runs
    BY <1>1, SubSeqFull
  <2> HIDE DEF z, y, e, x
  <2> QED BY <2>1, <2>2, <2>3, <2>4, Zenon
<1> HIDE DEF z, y, x, e
<1> DEFINE a == Expanded(y)
           b == Ticks(e)
           c == Expanded(z)
           d == Expanded(x)
<1>8. Expanded(runs) = c \o d /\ c = a \o b
  BY <1>2, <1>6, <1>7, RpExpands, RpExpandsBoth
<1>9. /\ a \in Seq(RpInputs) /\ b \in Seq(RpInputs) /\ c \in Seq(RpInputs) /\ d \in Seq(RpInputs)
      /\ Len(b) = e.ticks /\ \A i \in 1 .. e.ticks : b[i] = e.input
  BY <1>2, <1>6, RpExpandedIsFed, RpTicked DEF RpFed
<1> HIDE DEF a, b, c, d
<1>10. /\ Len(c \o d) = Len(c) + Len(d) /\ \A i \in 1 .. Len(c) + Len(d) : (c \o d)[i] = IF i <= Len(c) THEN c[i] ELSE d[i - Len(c)]
  BY <1>9, ConcatProperties
<1>11. /\ Len(a \o b) = Len(a) + Len(b) /\ \A i \in 1 .. Len(a) + Len(b) : (a \o b)[i] = IF i <= Len(a) THEN a[i] ELSE b[i - Len(a)]
  BY <1>9, ConcatProperties
<1>12. Len(a) \in Nat /\ Len(b) \in Nat /\ Len(c) \in Nat /\ Len(d) \in Nat
  BY <1>9, LenProperties
<1> DEFINE w == Expanded(runs)
<1>13. ASSUME NEW t \in 1 .. Len(w), Len(a) < t, t <= Len(c) PROVE w[t] = e.input
  <2>1. Len(w) = Len(c) + Len(d) /\ w[t] = (c \o d)[t]
    BY <1>8, <1>10, Zenon
  <2> HIDE DEF w
  <2>2. t \in 1 .. Len(c) + Len(d) /\ t \in 1 .. Len(a) + Len(b) /\ Len(c) = Len(a) + Len(b)
    <3>1. Len(c) = Len(a) + Len(b)
      BY <1>8, <1>11, Zenon
    <3> QED BY <1>12, <1>13, <2>1, <3>1
  <2>3. w[t] = c[t]
    BY <1>10, <1>12, <1>13, <2>1, <2>2
  <2>4. c[t] = (a \o b)[t]
    BY <1>8, Zenon
  <2>5. (a \o b)[t] = b[t - Len(a)]
    BY <1>11, <1>12, <1>13, <2>2
  <2>6. t - Len(a) \in 1 .. e.ticks
    BY <1>9, <1>12, <1>13, <2>2
  <2> QED BY <1>9, <2>3, <2>4, <2>5, <2>6
<1>14. Upto(runs, k) = c /\ Upto(runs, k - 1) = a
  BY Zenon DEF Upto, a, c, y, z
<1> HIDE DEF w
<1> QED BY <1>3, <1>4, <1>5, <1>12, <1>13, <1>14 DEF w, c, e

\* The search for a run ends at the one that has the tick.
SearchFor(source, tick, n, k, at) ==
  /\ at = [low |-> at.low, high |-> at.high] /\ at.low \in 1 .. n /\ at.high \in at.low .. n
  /\ at.high - at.low + k <= n - 1 \/ at.low = at.high
  /\ at.low = 1 \/ source.ends[at.low - 1] < tick
  /\ tick <= source.ends[at.high]

\* A turn of the search keeps the tick between its bounds and halves them.
LEMMA RpHalves ==
  ASSUME NEW n \in Nat \ {0}, NEW source, NEW tick \in Nat, NEW k \in Nat, NEW at,
         \A j \in 1 .. n : source.ends[j] \in Nat, SearchFor(source, tick, n, k, at)
  PROVE  SearchFor(source, tick, n, k + 1, Halved(source, tick, at))
<1> DEFINE l == at.low
           h == at.high
           u == Halved(source, tick, at)
<1>1. /\ at = [low |-> l, high |-> h] /\ l \in 1 .. n /\ h \in l .. n
      /\ h - l + k <= n - 1 \/ l = h
      /\ l = 1 \/ source.ends[l - 1] < tick
      /\ tick <= source.ends[h]
  BY DEF SearchFor
<1> DEFINE m == l + (h - l) \div 2
<1>2. u = IF l >= h THEN at ELSE IF source.ends[m] < tick THEN [at EXCEPT !.low = m + 1] ELSE [at EXCEPT !.high = m]
  BY DEF Halved
<1>3. CASE l >= h
  <2>1. u = at /\ l = h
    BY <1>1, <1>2, <1>3
  <2>2. u.low = l /\ u.high = h
    BY <2>1
  <2> HIDE DEF u, l, h, m
  <2> QED BY <1>1, <2>1, <2>2 DEF SearchFor, l, h, u
<1>4. CASE l < h
  <2>1. m \in l .. h - 1
    <3> DEFINE d == h - l
    <3>1. d \in Nat /\ d >= 1
      BY <1>1, <1>4
    <3>2. d \div 2 \in 0 .. d - 1
      <4> HIDE DEF d
      <4> QED BY <3>1
    <3> QED BY <1>1, <1>4, <3>2
  <2>2. CASE source.ends[m] < tick
    <3>1. u = [low |-> m + 1, high |-> h]
      <4> HIDE DEF u, l, h, m
      <4> QED BY <1>1, <1>2, <1>4, <2>2
    <3>2. u.low = m + 1 /\ u.high = h
      BY <3>1
    <3> HIDE DEF u, l, h, m
    <3>3. m + 1 \in 1 .. n /\ h \in m + 1 .. n /\ h - (m + 1) + (k + 1) <= n - 1 /\ (m + 1) - 1 = m
      BY <1>1, <1>4, <2>1
    <3>4. m + 1 = 1 \/ source.ends[(m + 1) - 1] < tick
      BY <2>2, <3>3
    <3> QED BY <1>1, <3>1, <3>2, <3>3, <3>4 DEF SearchFor, u
  <2>3. CASE ~ (source.ends[m] < tick)
    <3>1. u = [low |-> l, high |-> m]
      <4> HIDE DEF u, l, h, m
      <4> QED BY <1>1, <1>2, <1>4, <2>3
    <3>2. u.low = l /\ u.high = m
      BY <3>1
    <3> HIDE DEF u, l, h, m
    <3>3. m \in 1 .. n /\ m \in l .. n /\ m - l + (k + 1) <= n - 1
      BY <1>1, <1>4, <2>1
    <3>4. tick <= source.ends[m]
      <4>1. source.ends[m] \in Nat
        BY <3>3
      <4> QED BY <2>3, <4>1
    <3> QED BY <1>1, <3>1, <3>2, <3>3, <3>4 DEF SearchFor, u
  <2> QED BY <2>2, <2>3
<1> QED BY <1>1, <1>3, <1>4

\* The search ends at the run that has the tick (playback.ts, inputAt).
LEMMA RpFinds ==
  ASSUME NEW n \in Nat \ {0}, NEW source, NEW tick \in Nat, Len(source.ends) = n,
         \A j \in 1 .. n : source.ends[j] \in Nat, tick <= source.ends[n]
  PROVE  LET l == Searched(source, tick, n).low
         IN l \in 1 .. n /\ (l = 1 \/ source.ends[l - 1] < tick) /\ tick <= source.ends[l]
<1> DEFINE T == {k \in 0 .. n : SearchFor(source, tick, n, k, Searched(source, tick, k))}
<1>1. 0 \in T
  <2> DEFINE at == Searched(source, tick, 0)
  <2>1. at = [low |-> 1, high |-> n]
    BY SearchedGrows
  <2>2. at.low = 1 /\ at.high = n
    BY <2>1
  <2> HIDE DEF at
  <2>3. SearchFor(source, tick, n, 0, at)
    BY <2>1, <2>2 DEF SearchFor
  <2> QED BY <2>3 DEF at
<1>2. ASSUME NEW k \in 0 .. n - 1, k \in T PROVE k + 1 \in T
  <2> DEFINE at == Searched(source, tick, k)
  <2>1. Searched(source, tick, k + 1) = Halved(source, tick, at)
    BY SearchedGrows
  <2>2. SearchFor(source, tick, n, k, at)
    BY <1>2
  <2> HIDE DEF at
  <2>3. SearchFor(source, tick, n, k + 1, Halved(source, tick, at))
    <3>1. k \in Nat
      OBVIOUS
    <3> QED BY <2>2, <3>1, RpHalves
  <2>4. SearchFor(source, tick, n, k + 1, Searched(source, tick, k + 1)) /\ k + 1 \in 0 .. n
    BY <2>1, <2>3
  <2> QED BY <2>4
<1>3. n \in T
  <2> HIDE DEF T
  <2>1. 0 .. n \subseteq T
    BY <1>1, <1>2, Upwards
  <2> QED BY <2>1
<1> DEFINE at == Searched(source, tick, n)
<1>4. SearchFor(source, tick, n, n, at)
  BY <1>3
<1> HIDE DEF at, T
<1>5. at.low \in 1 .. n /\ at.low = at.high /\ (at.low = 1 \/ source.ends[at.low - 1] < tick) /\ tick <= source.ends[at.low]
  BY <1>4 DEF SearchFor
<1> QED BY <1>5 DEF at

\* The input of a tick is the one that was played.
LEMMA RpInputAt ==
  ASSUME NEW runs \in RpRunLists, NEW source, source.inputs = StageInputs(runs).inputs,
         source.ends = StageInputs(runs).ends, NEW t \in 1 .. Len(Expanded(runs))
  PROVE  InputAt(source, t) = Expanded(runs)[t]
<1> DEFINE n == Len(runs)
           x == Expanded(runs)
<1>1. n \in Nat /\ DOMAIN runs = 1 .. n /\ SubSeq(runs, 1, n) = runs
  <2>1. runs \in Seq(RpRun)
    BY DEF RpRunLists
  <2> QED BY <2>1, LenProperties, SubSeqFull
<1>2. Len(x) \in Nat
  BY RpExpandedIsFed, LenProperties DEF RpFed
<1>3. n # 0
  <2>1. CASE n = 0
    <3>1. runs = <<>>
      BY <2>1, EmptySeq DEF RpRunLists
    <3>2. Len(x) = 0
      BY <3>1, RpFeedsBegins
    <3> QED BY <3>2
  <2> QED BY <2>1
<1>4. Len(StageInputs(runs).ends) = n
  <2> DEFINE e == StageInputs(runs).ends
  <2>1. e = [k \in 1 .. n |-> Total([j \in 1 .. k |-> runs[j].ticks])]
    BY <1>1 DEF StageInputs
  <2>2. \A k \in 1 .. n : e[k] \in Nat
    BY RpRunEnds
  <2> HIDE DEF e
  <2>3. e \in [1 .. n -> Nat]
    BY <2>1, <2>2
  <2>4. Len(e) = n
    BY <1>1, <2>3, RpSeqOf
  <2> QED BY <2>4 DEF e
<1>5. \A k \in 1 .. n : source.ends[k] = Len(Upto(runs, k)) /\ Len(Upto(runs, k)) \in Nat
  BY RpRunEnds
<1>6. Upto(runs, n) = x
  BY <1>1 DEF Upto
<1> HIDE DEF n, x
<1>7. Len(source.ends) = n /\ (\A k \in 1 .. n : source.ends[k] \in Nat) /\ t <= source.ends[n] /\ n \in Nat \ {0} /\ t \in Nat
  <2>1. n \in 1 .. n
    BY <1>1, <1>3
  <2>2. source.ends[n] = Len(x)
    BY <1>5, <1>6, <2>1
  <2>3. t \in 1 .. Len(x)
    BY DEF x
  <2> QED BY <1>1, <1>2, <1>3, <1>4, <1>5, <2>2, <2>3
<1> DEFINE l == Searched(source, t, n).low
<1>8. l \in 1 .. n /\ (l = 1 \/ source.ends[l - 1] < t) /\ t <= source.ends[l]
  BY <1>7, RpFinds
<1>9. InputAt(source, t) = source.inputs[l]
  BY <1>7 DEF InputAt
<1> HIDE DEF l
<1>10. source.inputs[l] = runs[l].input
  BY <1>8, RpRunEnds DEF n
<1>11. Len(Upto(runs, l - 1)) < t /\ t <= Len(Upto(runs, l))
  <2>1. t <= Len(Upto(runs, l))
    BY <1>5, <1>8
  <2>2. CASE l = 1
    <3>1. SubSeq(runs, 1, 0) = <<>>
      <4> DEFINE z == SubSeq(runs, 1, 0)
      <4>1. z \in RpRunLists /\ Len(z) = 0
        <5>1. 0 \in 0 .. Len(runs)
          BY <1>1 DEF n
        <5> QED BY <5>1, RpFirstRuns
      <4> HIDE DEF z
      <4>2. z = <<>>
        BY <4>1, EmptySeq DEF RpRunLists
      <4> QED BY <4>2 DEF z
    <3>2. Upto(runs, 0) = <<>>
      BY <3>1, RpFeedsBegins, Zenon DEF Upto
    <3>3. Len(Upto(runs, l - 1)) = 0
      BY <2>2, <3>2
    <3> QED BY <1>7, <2>1, <3>3
  <2>3. CASE l # 1
    <3>1. l - 1 \in 1 .. n
      BY <1>1, <1>8, <2>3
    <3> QED BY <1>5, <1>8, <2>1, <2>3, <3>1
  <2> QED BY <2>2, <2>3
<1>12. Expanded(runs)[t] = runs[l].input
  BY <1>8, <1>11, RpRunEnds DEF n
<1> QED BY <1>9, <1>10, <1>12

\* The search for a stage ends at the one that has the frame.
LookFor(sources, ordinal, n, k, at) ==
  /\ at = [low |-> at.low, high |-> at.high] /\ at.low \in 1 .. n /\ at.high \in at.low .. n
  /\ at.high - at.low + k <= n - 1 \/ at.low = at.high
  /\ sources[at.low].frameStart <= ordinal
  /\ at.high = n \/ ordinal < sources[at.high + 1].frameStart

\* A turn of the search for a stage keeps the ordinal between its bounds.
LEMMA RpNarrows ==
  ASSUME NEW n \in Nat \ {0}, NEW sources, NEW ordinal \in Nat, NEW k \in Nat, NEW at,
         \A j \in 1 .. n : sources[j].frameStart \in Nat, LookFor(sources, ordinal, n, k, at)
  PROVE  LookFor(sources, ordinal, n, k + 1, Narrowed(sources, ordinal, at))
<1> DEFINE l == at.low
           h == at.high
           u == Narrowed(sources, ordinal, at)
<1>1. /\ at = [low |-> l, high |-> h] /\ l \in 1 .. n /\ h \in l .. n
      /\ h - l + k <= n - 1 \/ l = h
      /\ sources[l].frameStart <= ordinal
      /\ h = n \/ ordinal < sources[h + 1].frameStart
  BY DEF LookFor
<1> DEFINE m == l + (h - l + 1) \div 2
<1>2. u = IF l >= h THEN at ELSE IF sources[m].frameStart <= ordinal THEN [at EXCEPT !.low = m] ELSE [at EXCEPT !.high = m - 1]
  BY DEF Narrowed
<1>3. CASE l >= h
  <2>1. u = at /\ l = h
    BY <1>1, <1>2, <1>3
  <2>2. u.low = l /\ u.high = h
    BY <2>1
  <2> HIDE DEF u, l, h, m
  <2> QED BY <1>1, <2>1, <2>2 DEF LookFor, l, h, u
<1>4. CASE l < h
  <2>1. m \in l + 1 .. h
    <3> DEFINE d == h - l
    <3>1. d \in Nat /\ d >= 1
      BY <1>1, <1>4
    <3>2. (d + 1) \div 2 \in 1 .. d
      <4> HIDE DEF d
      <4> QED BY <3>1
    <3> QED BY <1>1, <1>4, <3>2
  <2>2. CASE sources[m].frameStart <= ordinal
    <3>1. u = [low |-> m, high |-> h]
      <4> HIDE DEF u, l, h, m
      <4> QED BY <1>1, <1>2, <1>4, <2>2
    <3>2. u.low = m /\ u.high = h
      BY <3>1
    <3> HIDE DEF u, l, h, m
    <3>3. m \in 1 .. n /\ h \in m .. n /\ h - m + (k + 1) <= n - 1
      BY <1>1, <1>4, <2>1
    <3> QED BY <1>1, <2>2, <3>1, <3>2, <3>3 DEF LookFor, u
  <2>3. CASE ~ (sources[m].frameStart <= ordinal)
    <3>1. u = [low |-> l, high |-> m - 1]
      <4> HIDE DEF u, l, h, m
      <4> QED BY <1>1, <1>2, <1>4, <2>3
    <3>2. u.low = l /\ u.high = m - 1
      BY <3>1
    <3> HIDE DEF u, l, h, m
    <3>3. m - 1 \in l .. n /\ m - 1 - l + (k + 1) <= n - 1 /\ (m - 1) + 1 = m /\ m \in 1 .. n
      BY <1>1, <1>4, <2>1
    <3>4. ordinal < sources[(m - 1) + 1].frameStart
      <4>1. sources[m].frameStart \in Nat
        BY <3>3
      <4> QED BY <2>3, <3>3, <4>1
    <3> QED BY <1>1, <3>1, <3>2, <3>3, <3>4 DEF LookFor, u
  <2> QED BY <2>2, <2>3
<1> QED BY <1>1, <1>3, <1>4

\* That search ends at the stage that has the frame (playback.ts, positionAtFrame).
LEMMA RpLooks ==
  ASSUME NEW n \in Nat \ {0}, NEW sources, NEW ordinal \in Nat, Len(sources) = n,
         \A j \in 1 .. n : sources[j].frameStart \in Nat, sources[1].frameStart <= ordinal
  PROVE  LET l == Located(sources, ordinal, n).low
         IN l \in 1 .. n /\ sources[l].frameStart <= ordinal /\ (l = n \/ ordinal < sources[l + 1].frameStart)
<1> DEFINE T == {k \in 0 .. n : LookFor(sources, ordinal, n, k, Located(sources, ordinal, k))}
<1>1. 0 \in T
  <2> DEFINE at == Located(sources, ordinal, 0)
  <2>1. at = [low |-> 1, high |-> n]
    BY LocatedGrows
  <2>2. at.low = 1 /\ at.high = n
    BY <2>1
  <2> HIDE DEF at
  <2>3. LookFor(sources, ordinal, n, 0, at)
    BY <2>1, <2>2 DEF LookFor
  <2> QED BY <2>3 DEF at
<1>2. ASSUME NEW k \in 0 .. n - 1, k \in T PROVE k + 1 \in T
  <2> DEFINE at == Located(sources, ordinal, k)
  <2>1. Located(sources, ordinal, k + 1) = Narrowed(sources, ordinal, at)
    BY LocatedGrows
  <2>2. LookFor(sources, ordinal, n, k, at)
    BY <1>2
  <2> HIDE DEF at
  <2>3. LookFor(sources, ordinal, n, k + 1, Narrowed(sources, ordinal, at))
    <3>1. k \in Nat
      OBVIOUS
    <3> QED BY <2>2, <3>1, RpNarrows
  <2>4. LookFor(sources, ordinal, n, k + 1, Located(sources, ordinal, k + 1)) /\ k + 1 \in 0 .. n
    BY <2>1, <2>3
  <2> QED BY <2>4
<1>3. n \in T
  <2> HIDE DEF T
  <2>1. 0 .. n \subseteq T
    BY <1>1, <1>2, Upwards
  <2> QED BY <2>1
<1> DEFINE at == Located(sources, ordinal, n)
<1>4. LookFor(sources, ordinal, n, n, at)
  BY <1>3
<1> HIDE DEF at, T
<1>5. at.low \in 1 .. n /\ at.low = at.high /\ sources[at.low].frameStart <= ordinal
      /\ (at.low = n \/ ordinal < sources[at.low + 1].frameStart)
  BY <1>4 DEF LookFor
<1> QED BY <1>5 DEF at

-----------------------------------------------------------------------------
(* The stages of the playback                                              *)

\* The ticks before a stage, and what the playback has of it.
Start(p, i) == Sized(SubSeq(Plays(p), 1, i - 1))
SourceOf(p, i) ==
  [ticks |-> Len(Plays(p)[i]), runStart |-> Start(p, i), frameStart |-> Start(p, i) + (i - 1), lives |-> Before(p, i),
   inputs |-> StageInputs(p[i].runs).inputs, ends |-> StageInputs(p[i].runs).ends]
Numbered(p) == \A i \in 1 .. Len(p) : p[i].id = i /\ p[i].runs # <<>>
SourcesUpto(p, a) ==
  /\ a.lives = LivesLeft(Plays(p)) /\ a.runStart = Sized(Plays(p)) /\ a.frameStart = Sized(Plays(p)) + Len(p)
  /\ (\E X : a.all \in Seq(X)) /\ Len(a.all) = Len(p) /\ \A i \in 1 .. Len(p) : a.all[i] = SourceOf(p, i)

\* The ticks of a stage are the end of its last run.
LEMMA RpLastEnd ==
  ASSUME NEW runs \in RpRunLists, runs # <<>>
  PROVE  Last(StageInputs(runs).ends) = Len(Expanded(runs))
<1> DEFINE n == Len(runs)
           e == StageInputs(runs).ends
<1>1. n \in Nat /\ n # 0 /\ DOMAIN runs = 1 .. n /\ SubSeq(runs, 1, n) = runs
  <2>1. runs \in Seq(RpRun)
    BY DEF RpRunLists
  <2> QED BY <2>1, LenProperties, SubSeqFull, EmptySeq
<1>2. e = [k \in 1 .. n |-> Total([j \in 1 .. k |-> runs[j].ticks])]
  BY <1>1 DEF StageInputs
<1>3. \A k \in 1 .. n : e[k] = Len(Upto(runs, k)) /\ Len(Upto(runs, k)) \in Nat
  BY RpRunEnds
<1> HIDE DEF e, n
<1>4. Len(e) = n
  <2>1. e \in [1 .. n -> Nat]
    BY <1>2, <1>3
  <2> QED BY <1>1, <2>1, RpSeqOf
<1>5. e[n] = Len(Expanded(runs))
  <2>1. n \in 1 .. n
    BY <1>1
  <2>2. e[n] = Len(Upto(runs, n))
    BY <1>3, <2>1
  <2>3. Upto(runs, n) = Expanded(runs)
    BY <1>1, Zenon DEF Upto
  <2> QED BY <2>2, <2>3
<1> QED BY <1>4, <1>5 DEF Last, e

\* One stage more.
LEMMA RpSourceMore ==
  ASSUME NEW p \in RpStages, NEW s \in RpStage, s.id = Len(p) + 1, s.runs # <<>>, NEW a, SourcesUpto(p, a)
  PROVE  SourcesUpto(Append(p, s), SourceAfter(a, s))
<1> DEFINE t == Append(p, s)
           n == Len(p)
           b == SourceAfter(a, s)
           coded == StageInputs(s.runs)
           play == Expanded(s.runs)
           l == LivesLeft(Plays(p))
           z == Sized(Plays(p))
           new == [ticks |-> Len(play), runStart |-> z, frameStart |-> z + n, lives |-> l,
                   inputs |-> coded.inputs, ends |-> coded.ends]
<1>1. /\ t \in RpStages /\ Len(t) = n + 1 /\ n \in Nat /\ t[n + 1] = s
      /\ \A i \in 1 .. n : t[i] = p[i] /\ Plays(t)[i] = Plays(p)[i] /\ Before(t, i) = Before(p, i)
      /\ Plays(t)[n + 1] = play /\ Before(t, n + 1) = l
      /\ LivesLeft(Plays(t)) = PfOutcome(n + 1, l, play).lives
  BY RpStageMore
<1>2. Sized(Plays(t)) = z + Len(play) /\ z \in Nat /\ Len(play) \in Nat
  BY RpStageSizes
<1>3. play \in RpFed /\ s.runs \in RpRunLists /\ Plays(t) = Append(Plays(p), play) /\ Plays(p) \in Seq(RpFed) /\ Len(Plays(p)) = n
  <2>1. s.runs \in RpRunLists
    BY DEF RpStage
  <2>2. p \in Seq(RpStage)
    BY DEF RpStages
  <2> QED BY <2>1, <2>2, RpExpandedIsFed, RpPlays
<1>4. /\ a.lives = l /\ a.runStart = z /\ a.frameStart = z + n
      /\ (\E X : a.all \in Seq(X)) /\ Len(a.all) = n /\ \A i \in 1 .. n : a.all[i] = SourceOf(p, i)
  BY DEF SourcesUpto
<1>5. Last(coded.ends) = Len(play)
  BY <1>3, RpLastEnd
<1> HIDE DEF coded, play
<1>6. b = [lives |-> PfOutcome(n + 1, l, play).lives, runStart |-> z + Len(play), frameStart |-> (z + n) + Len(play) + 1,
           all |-> Append(a.all, new)]
  <2> HIDE DEF l, z, n
  <2> QED BY <1>4, <1>5 DEF SourceAfter, coded, play, n
<1>7. \A i \in 1 .. n + 1 : Start(t, i) = Start(p, i)
  <2> TAKE i \in 1 .. n + 1
  <2> DEFINE w == Plays(p)
             k == i - 1
  <2>1. k \in 0 .. n
    BY <1>1
  <2> HIDE DEF w, k
  <2>2. SubSeq(Append(w, play), 1, k) = SubSeq(w, 1, k)
    BY <1>3, <2>1, RpPrefix DEF w
  <2>3. SubSeq(Plays(t), 1, k) = SubSeq(w, 1, k)
    BY <1>3, <2>2, Zenon DEF w
  <2> QED BY <2>3, Zenon DEF Start, w, k
<1>8. Start(t, n + 1) = z
  <2>1. SubSeq(Plays(p), 1, n) = Plays(p)
    BY <1>3, SubSeqFull
  <2>2. (n + 1) - 1 = n
    BY <1>1
  <2>3. Start(p, n + 1) = z
    BY <2>1, <2>2, Zenon DEF Start
  <2> QED BY <1>1, <1>7, <2>3
<1>9. \A i \in 1 .. n : SourceOf(t, i) = SourceOf(p, i)
  BY <1>1, <1>7 DEF SourceOf
<1>10. SourceOf(t, n + 1) = new
  <2>1. z + ((n + 1) - 1) = z + n
    BY <1>1
  <2> QED BY <1>1, <1>8, <2>1 DEF SourceOf, coded
<1>11. PICK X : a.all \in Seq(X)
  BY <1>4
<1> DEFINE Y == X \cup {new}
           all == a.all
           more == Append(all, new)
<1>12. all \in Seq(Y) /\ new \in Y /\ Len(all) = n /\ \A i \in 1 .. n : all[i] = SourceOf(p, i)
  <2>1. X \subseteq Y
    OBVIOUS
  <2> QED BY <1>4, <1>11, <2>1, SeqMonotonic
<1> HIDE DEF new, Y, all
<1>13. more \in Seq(Y) /\ Len(more) = n + 1 /\ more[n + 1] = new /\ \A i \in 1 .. n : more[i] = all[i]
  BY <1>12, AppendProperties
<1> HIDE DEF more
<1>14. \A i \in 1 .. n + 1 : more[i] = SourceOf(t, i)
  <2> TAKE i \in 1 .. n + 1
  <2>1. i \in 1 .. n \/ i = n + 1
    BY <1>1
  <2> QED BY <1>9, <1>10, <1>12, <1>13, <2>1
<1>15. /\ b.lives = LivesLeft(Plays(t)) /\ b.runStart = Sized(Plays(t)) /\ b.frameStart = Sized(Plays(t)) + (n + 1)
       /\ b.all = more
  <2>1. b.lives = PfOutcome(n + 1, l, play).lives /\ b.runStart = z + Len(play) /\ b.frameStart = (z + n) + Len(play) + 1
        /\ b.all = more
    <3> HIDE DEF b
    <3> QED BY <1>6 DEF more, all
  <2>2. (z + n) + Len(play) + 1 = (z + Len(play)) + (n + 1)
    <3> HIDE DEF z
    <3> QED BY <1>1, <1>2
  <2> QED BY <1>1, <1>2, <2>1, <2>2
<1> HIDE DEF b, t, n
<1> QED BY <1>1, <1>13, <1>14, <1>15 DEF SourcesUpto, b, t, n

\* What came before, how long it is and what it has of inputs.
LEMMA RpSources ==
  ASSUME NEW p \in RpStages, Numbered(p)
  PROVE  /\ Len(Sources(p)) = Len(p) /\ DOMAIN Sources(p) = 1 .. Len(p)
         /\ \A i \in 1 .. Len(p) : Sources(p)[i] = SourceOf(p, i)
<1> DEFINE B == [lives |-> PfLives, runStart |-> 0, frameStart |-> 0, all |-> <<>>]
           T == {s \in Seq(RpStage) : Numbered(s) => SourcesUpto(s, SourcesFrom(B, s))}
<1>1. <<>> \in T
  <2>1. SourcesFrom(B, <<>>) = B
    BY RpShowsBegins
  <2>2. B.lives = PfLives /\ B.runStart = 0 /\ B.frameStart = 0 /\ B.all = <<>>
    OBVIOUS
  <2> HIDE DEF B
  <2>3. <<>> \in Seq({}) /\ Len(<<>>) = 0
    BY EmptySeq
  <2>4. SourcesUpto(<<>>, B)
    BY <2>2, <2>3, RpNone0 DEF SourcesUpto
  <2>5. <<>> \in Seq(RpStage)
    BY EmptySeq
  <2> QED BY <2>1, <2>4, <2>5
<1> HIDE DEF B
<1>2. ASSUME NEW s \in Seq(RpStage), NEW e \in RpStage, s \in T PROVE Append(s, e) \in T
  <2> DEFINE t == Append(s, e)
             a == SourcesFrom(B, s)
  <2>1. t \in Seq(RpStage) /\ Len(t) = Len(s) + 1 /\ Len(s) \in Nat /\ t[Len(s) + 1] = e /\ \A i \in 1 .. Len(s) : t[i] = s[i]
    BY AppendProperties, LenProperties
  <2>2. SourcesFrom(B, t) = SourceAfter(a, e)
    BY SourcesGrow
  <2> HIDE DEF t
  <2>3. ASSUME Numbered(t) PROVE SourcesUpto(t, SourcesFrom(B, t))
    <3>1. e.id = Len(s) + 1 /\ e.runs # <<>>
      <4>1. Len(s) + 1 \in 1 .. Len(t)
        BY <2>1
      <4> QED BY <2>1, <2>3, <4>1 DEF Numbered
    <3>2. Numbered(s)
      <4>1. \A i \in 1 .. Len(s) : i \in 1 .. Len(t)
        BY <2>1
      <4> QED BY <2>1, <2>3, <4>1 DEF Numbered
    <3>3. SourcesUpto(s, a)
      BY <1>2, <3>2
    <3> HIDE DEF a, T
    <3>4. s \in RpStages
      BY DEF RpStages
    <3>5. SourcesUpto(Append(s, e), SourceAfter(a, e))
      BY <3>1, <3>3, <3>4, RpSourceMore
    <3> QED BY <2>2, <3>5 DEF t
  <2>4. t \in T
    BY <2>1, <2>3
  <2> QED BY <2>4 DEF t
<1>3. p \in T
  <2> HIDE DEF T
  <2>1. Seq(RpStage) \subseteq T
    BY <1>1, <1>2, Growing
  <2> QED BY <2>1 DEF RpStages
<1> DEFINE a == SourcesFrom(B, p)
<1>4. SourcesUpto(p, a)
  BY <1>3
<1>5. Sources(p) = a.all
  BY DEF Sources, B
<1> HIDE DEF a
<1>6. (\E X : a.all \in Seq(X)) /\ Len(a.all) = Len(p) /\ \A i \in 1 .. Len(p) : a.all[i] = SourceOf(p, i)
  BY <1>4 DEF SourcesUpto
<1>7. DOMAIN a.all = 1 .. Len(a.all)
  <2>1. PICK X : a.all \in Seq(X)
    BY <1>6
  <2> QED BY <2>1, LenProperties
<1> QED BY <1>5, <1>6, <1>7

\* What the proof of a run is as to the playback, once and for all: P is its
\* sources.
LEMMA RpPlayable ==
  ASSUME NEW p \in RpStages, Taken(p)
  PROVE  /\ Numbered(p) /\ Len(p) \in Nat \ {0} /\ Len(p) <= PfStages
         /\ \A i \in 1 .. Len(p) : /\ Plays(p)[i] \in RpFed /\ Len(Plays(p)[i]) \in Nat \ {0}
                                   /\ Plays(p)[i] = Expanded(p[i].runs) /\ p[i].runs \in RpRunLists
<1>1. Len(p) \in 1 .. PfStages /\ FormOk(p) /\ PlayOk(p)
  BY DEF Taken
<1>2. \A i \in 1 .. Len(p) : FormOf(i, p[i])
  BY <1>1 DEF FormOk
<1>3. /\ Plays(p) \in Seq(RpFed) /\ Len(Plays(p)) = Len(p) /\ Len(p) \in Nat
      /\ \A i \in 1 .. Len(p) : Plays(p)[i] = Expanded(p[i].runs) /\ p[i].runs \in RpRunLists
  BY RpEach
<1>4. ASSUME NEW i \in 1 .. Len(p) PROVE p[i].id = i /\ p[i].runs # <<>>
  <2>1. p[i].id = i /\ Len(p[i].runs) \in 1 .. PfMaxRuns
    BY <1>2 DEF FormOf
  <2>2. Len(<<>>) = 0
    BY EmptySeq
  <2> QED BY <2>1, <2>2
<1>5. \A i \in 1 .. Len(p) : Len(Plays(p)[i]) <= PfMaxStageTicks
  BY <1>2, <1>3 DEF FormOf
<1>6. \A i \in 1 .. Len(p) : Plays(p)[i] # <<>>
  <2>1. Len(p) <= PfStages
    BY <1>1
  <2> QED BY <1>1, <1>5, <2>1, RpLivelyAll
<1>7. ASSUME NEW i \in 1 .. Len(p) PROVE Plays(p)[i] \in RpFed /\ Len(Plays(p)[i]) \in Nat \ {0}
  <2> DEFINE x == Plays(p)[i]
  <2>1. x \in Seq(RpInputs) /\ x # <<>>
    BY <1>3, <1>6, ElementOfSeq DEF RpFed
  <2> HIDE DEF x
  <2>2. Len(x) \in Nat /\ Len(x) # 0
    BY <2>1, LenProperties, EmptySeq
  <2> QED BY <2>1, <2>2 DEF x, RpFed
<1>8. Numbered(p)
  BY <1>4 DEF Numbered
<1>9. Len(p) \in Nat \ {0} /\ Len(p) <= PfStages
  BY <1>1, RpLimits
<1> QED BY <1>3, <1>7, <1>8, <1>9

-----------------------------------------------------------------------------
(* Where the frames are                                                    *)

\* A stage starts where the one before it ends.
LEMMA RpStarts ==
  ASSUME NEW p \in RpStages
  PROVE  /\ Start(p, 1) = 0 /\ \A i \in 1 .. Len(p) + 1 : Start(p, i) \in Nat
         /\ \A i \in 1 .. Len(p) : Start(p, i + 1) = Start(p, i) + Len(Plays(p)[i])
<1> DEFINE w == Plays(p)
           n == Len(p)
<1>1. w \in Seq(RpFed) /\ Len(w) = n /\ n \in Nat
  BY RpEach
<1> HIDE DEF w, n
<1>2. \A i \in 1 .. n : w[i] \in RpFed
  BY <1>1, ElementOfSeq
<1>3. \A k \in 0 .. n : SubSeq(w, 1, k) \in Seq(RpFed)
  <2> TAKE k \in 0 .. n
  <2>1. \A j \in 1 .. k : w[j] \in RpFed
    BY <1>1, <1>2
  <2>2. 1 \in Int /\ k \in Int
    BY <1>1
  <2> QED BY <2>1, <2>2, SubSeqProperties
<1>4. SubSeq(w, 1, 0) = <<>>
  <2> DEFINE z == SubSeq(w, 1, 0)
  <2>1. \A j \in 1 .. 0 : w[j] \in RpFed
    OBVIOUS
  <2>2. z \in Seq(RpFed) /\ Len(z) = 0
    BY <2>1, SubSeqProperties
  <2> HIDE DEF z
  <2> QED BY <2>2, EmptySeq DEF z
<1>5. Sized(<<>>) = 0 /\ \A q \in Seq(RpFed), e \in RpFed : Sized(Append(q, e)) = Sized(q) + Len(e) /\ Sized(q) \in Nat
  <2>1. Sized(<<>>) = 0
    BY RpNone0
  <2> QED BY <2>1, RpSized DEF RpFed
<1>5a. \A q \in Seq(RpFed) : Sized(q) \in Nat
  <2>1. <<>> \in RpFed
    BY EmptySeq DEF RpFed
  <2> QED BY <1>5, <2>1
<1>6. Start(p, 1) = 0
  <2>1. Sized(SubSeq(w, 1, 0)) = 0
    BY <1>4, <1>5, Zenon
  <2> QED BY <2>1 DEF Start, w
<1>7. ASSUME NEW i \in 1 .. n + 1 PROVE Start(p, i) \in Nat
  <2> DEFINE k == i - 1
  <2>1. k \in 0 .. n
    BY <1>1
  <2> HIDE DEF k
  <2>2. Sized(SubSeq(w, 1, k)) \in Nat
    BY <1>3, <1>5a, <2>1
  <2> QED BY <2>2 DEF Start, w, k
<1>8. ASSUME NEW i \in 1 .. n PROVE Start(p, i + 1) = Start(p, i) + Len(Plays(p)[i])
  <2> DEFINE k == i - 1
             u == SubSeq(w, 1, k)
             e == w[i]
  <2>1. k \in 0 .. n /\ (i + 1) - 1 = i /\ 1 \in 1 .. Len(w) /\ i \in 1 .. Len(w)
    BY <1>1
  <2>2. SubSeq(w, 1, i) = SubSeq(w, 1, i - 1) \o <<w[i]>>
    BY <1>1, <2>1, SubSeqRecursiveSecond
  <2> HIDE DEF k
  <2>3. u \in Seq(RpFed) /\ e \in RpFed
    BY <1>2, <1>3, <2>1
  <2>4. SubSeq(w, 1, i) = u \o <<e>>
    BY <2>2 DEF k
  <2> HIDE DEF u, e
  <2>5. u \o <<e>> = Append(u, e)
    BY <2>3, AppendIsConcat
  <2>6. Sized(SubSeq(w, 1, i)) = Sized(u) + Len(e)
    BY <1>5, <2>3, <2>4, <2>5
  <2>7. Start(p, i) = Sized(u)
    BY Zenon DEF Start, w, u, k
  <2>8. Start(p, i + 1) = Sized(SubSeq(w, 1, i))
    BY <2>1, Zenon DEF Start, w
  <2> QED BY <2>6, <2>7, <2>8 DEF e, w
<1> QED BY <1>6, <1>7, <1>8 DEF n

\* A stage and a tick of it.
OnRun(p, s, t) == s \in 1 .. Len(p) /\ t \in 0 .. Len(Plays(p)[s])
Ordinal(p, s, t) == Start(p, s) + (s - 1) + t

\* A later stage starts at a later frame.
LEMMA RpStartsGrow ==
  ASSUME NEW p \in RpStages, NEW i \in 1 .. Len(p), NEW j \in 0 .. Len(p) - i,
         \A s \in 1 .. Len(p) : Len(Plays(p)[s]) \in Nat
  PROVE  Ordinal(p, i, 0) <= Ordinal(p, i + j, 0)
<1> DEFINE n == Len(p)
           T == {k \in 0 .. n - i : Ordinal(p, i, 0) <= Ordinal(p, i + k, 0)}
<1>1. n \in Nat /\ (\A s \in 1 .. n + 1 : Start(p, s) \in Nat)
      /\ \A s \in 1 .. n : Start(p, s + 1) = Start(p, s) + Len(Plays(p)[s]) /\ Len(Plays(p)[s]) \in Nat
  BY RpStarts, RpEach
<1> HIDE DEF n
<1>2. i \in 1 .. n /\ j \in 0 .. n - i /\ n - i \in Nat
  BY <1>1 DEF n
<1>3. 0 \in T
  <2>1. i + 0 = i
    BY <1>2
  <2>2. Ordinal(p, i, 0) \in Int
    <3>1. Start(p, i) \in Nat
      BY <1>1, <1>2
    <3> QED BY <1>2, <3>1 DEF Ordinal
  <2>3. Ordinal(p, i, 0) <= Ordinal(p, i + 0, 0)
    BY <2>1, <2>2
  <2> QED BY <1>2, <2>3
<1>4. ASSUME NEW k \in 0 .. (n - i) - 1, k \in T PROVE k + 1 \in T
  <2> DEFINE s == i + k
  <2>1. s \in 1 .. n /\ s + 1 \in 1 .. n + 1 /\ i + (k + 1) = s + 1 /\ k + 1 \in 0 .. n - i
    BY <1>1, <1>2
  <2>2. Ordinal(p, i, 0) <= Ordinal(p, s, 0)
    BY <1>4
  <2>2a. s \in 1 .. n + 1 /\ i \in 1 .. n + 1
    BY <1>1, <1>2, <2>1
  <2> HIDE DEF s
  <2>3. Start(p, s + 1) = Start(p, s) + Len(Plays(p)[s]) /\ Len(Plays(p)[s]) \in Nat /\ Start(p, s) \in Nat /\ Start(p, i) \in Nat
    BY <1>1, <1>2, <2>1, <2>2a
  <2> DEFINE a == Start(p, s)
             b == Start(p, s + 1)
             c == Len(Plays(p)[s])
             d == Start(p, i)
  <2>4. d + (i - 1) + 0 <= a + (s - 1) + 0
    BY <2>2 DEF Ordinal
  <2>5. b = a + c /\ c \in Nat /\ a \in Nat /\ d \in Nat
    BY <2>3
  <2> HIDE DEF a, b, c, d
  <2>6. d + (i - 1) + 0 <= b + ((s + 1) - 1) + 0
    BY <1>2, <2>1, <2>4, <2>5
  <2>7. Ordinal(p, i, 0) <= Ordinal(p, s + 1, 0)
    BY <2>6 DEF Ordinal, b, d
  <2>8. Ordinal(p, i, 0) <= Ordinal(p, i + (k + 1), 0)
    BY <2>1, <2>7
  <2> QED BY <2>1, <2>8
<1>5. j \in T
  <2> HIDE DEF T
  <2>1. 0 .. n - i \subseteq T
    BY <1>2, <1>3, <1>4, Upwards
  <2> QED BY <1>2, <2>1
<1> QED BY <1>5

\* The frame of an ordinal is the one that has it.
LEMMA RpPosition ==
  ASSUME NEW p \in RpStages, Taken(p), NEW s, NEW t, OnRun(p, s, t)
  PROVE  PositionAtFrame(Sources(p), Ordinal(p, s, t)) = [stage |-> s, tick |-> t]
<1> DEFINE n == Len(p)
           S == Sources(p)
           o == Ordinal(p, s, t)
           l == Located(S, o, n).low
<1>1. n \in Nat \ {0} /\ Numbered(p) /\ \A i \in 1 .. n : Len(Plays(p)[i]) \in Nat
  BY RpPlayable
<1>2. Len(S) = n /\ \A i \in 1 .. n : S[i] = SourceOf(p, i)
  BY <1>1, RpSources
<1>3. \A i \in 1 .. n : S[i].frameStart = Ordinal(p, i, 0)
  <2> TAKE i \in 1 .. n
  <2>1. S[i].frameStart = Start(p, i) + (i - 1)
    <3>1. S[i] = SourceOf(p, i)
      BY <1>2
    <3>2. SourceOf(p, i).frameStart = Start(p, i) + (i - 1)
      BY DEF SourceOf
    <3> HIDE DEF S
    <3> QED BY <3>1, <3>2
  <2>2. Start(p, i) \in Nat
    <3>1. i \in 1 .. Len(p) + 1
      BY <1>1
    <3> QED BY <3>1, RpStarts
  <2> QED BY <1>1, <2>1, <2>2 DEF Ordinal
<1>4. /\ \A i \in 1 .. n + 1 : Start(p, i) \in Nat
      /\ \A i \in 1 .. n : Start(p, i + 1) = Start(p, i) + Len(Plays(p)[i])
      /\ Start(p, 1) = 0
  BY RpStarts
<1>5. s \in 1 .. n /\ t \in Nat /\ t <= Len(Plays(p)[s]) /\ s \in 1 .. n + 1
  BY <1>1 DEF OnRun
<1>6. \A i \in 1 .. n : Ordinal(p, i, 0) \in Nat /\ Ordinal(p, i, 0) = Start(p, i) + (i - 1)
  <2> TAKE i \in 1 .. n
  <2>1. Start(p, i) \in Nat
    <3>1. i \in 1 .. n + 1
      BY <1>1
    <3> QED BY <1>4, <3>1
  <2> QED BY <1>1, <2>1 DEF Ordinal
<1>7. o = Ordinal(p, s, 0) + t /\ o \in Nat
  <2>1. Start(p, s) \in Nat
    BY <1>4, <1>5
  <2> QED BY <1>1, <1>5, <2>1 DEF Ordinal
<1>8. ASSUME NEW i \in 1 .. n, i # n PROVE Ordinal(p, i + 1, 0) = Ordinal(p, i, 0) + Len(Plays(p)[i]) + 1
  <2>1. Start(p, i + 1) = Start(p, i) + Len(Plays(p)[i]) /\ Start(p, i) \in Nat /\ Len(Plays(p)[i]) \in Nat /\ (i + 1) - 1 = i
    <3>1. i \in 1 .. n + 1
      BY <1>1
    <3> QED BY <1>1, <1>4, <3>1
  <2> DEFINE a == Start(p, i)
             b == Len(Plays(p)[i])
  <2>2. a \in Nat /\ b \in Nat /\ Start(p, i + 1) = a + b
    BY <2>1
  <2> HIDE DEF a, b
  <2>3. (a + b) + ((i + 1) - 1) + 0 = (a + (i - 1) + 0) + b + 1
    BY <1>1, <2>2
  <2> QED BY <2>2, <2>3 DEF Ordinal, a, b
<1> HIDE DEF S, o
<1>9. l \in 1 .. n /\ S[l].frameStart <= o /\ (l = n \/ o < S[l + 1].frameStart)
  <2>1. \A i \in 1 .. n : S[i].frameStart \in Nat
    BY <1>3, <1>6
  <2>2. S[1].frameStart <= o
    <3>1. 1 \in 1 .. n /\ s - 1 \in 0 .. n - 1 /\ 1 + (s - 1) = s
      BY <1>1, <1>5
    <3>2. Ordinal(p, 1, 0) <= Ordinal(p, 1 + (s - 1), 0)
      BY <1>1, <3>1, RpStartsGrow
    <3>3. S[1].frameStart = Ordinal(p, 1, 0)
      BY <1>3, <3>1
    <3>4. Ordinal(p, 1, 0) \in Nat /\ Ordinal(p, s, 0) \in Nat
      BY <1>5, <1>6, <3>1
    <3> QED BY <1>5, <1>7, <3>1, <3>2, <3>3, <3>4
  <2> HIDE DEF n
  <2> QED BY <1>1, <1>2, <1>7, <2>1, <2>2, RpLooks
<1> HIDE DEF l
<1>10. l = s
  <2>1. ASSUME l < s PROVE FALSE
    <3>1. l \in 1 .. n /\ l # n /\ l + 1 \in 1 .. n /\ s - (l + 1) \in 0 .. n - (l + 1) /\ (l + 1) + (s - (l + 1)) = s
      BY <1>1, <1>5, <1>9, <2>1
    <3>2. o < Ordinal(p, l + 1, 0)
      BY <1>3, <1>9, <3>1
    <3>3. Ordinal(p, l + 1, 0) <= Ordinal(p, (l + 1) + (s - (l + 1)), 0)
      BY <1>1, <3>1, RpStartsGrow
    <3>4. Ordinal(p, l + 1, 0) <= Ordinal(p, s, 0) /\ Ordinal(p, l + 1, 0) \in Nat /\ Ordinal(p, s, 0) \in Nat
      BY <1>5, <1>6, <3>1, <3>3
    <3> QED BY <1>5, <1>7, <3>2, <3>4
  <2>2. ASSUME l > s PROVE FALSE
    <3>1. s # n /\ s + 1 \in 1 .. n /\ l - (s + 1) \in 0 .. n - (s + 1) /\ (s + 1) + (l - (s + 1)) = l
      BY <1>1, <1>5, <1>9, <2>2
    <3>2. Ordinal(p, s + 1, 0) <= Ordinal(p, (s + 1) + (l - (s + 1)), 0)
      BY <1>1, <3>1, RpStartsGrow
    <3>3. Ordinal(p, s + 1, 0) <= Ordinal(p, l, 0) /\ Ordinal(p, l, 0) <= o
      BY <1>3, <1>9, <3>1, <3>2
    <3>4. Ordinal(p, s + 1, 0) = Ordinal(p, s, 0) + Len(Plays(p)[s]) + 1
      BY <1>5, <1>8, <3>1
    <3>5. Ordinal(p, s, 0) \in Nat /\ Ordinal(p, l, 0) \in Nat /\ Len(Plays(p)[s]) \in Nat
      BY <1>1, <1>5, <1>6, <1>9
    <3> QED BY <1>5, <1>7, <3>3, <3>4, <3>5
  <2> QED BY <1>1, <1>5, <1>9, <2>1, <2>2
<1>11. PositionAtFrame(S, o) = [stage |-> l, tick |-> o - S[l].frameStart]
  BY <1>2 DEF PositionAtFrame, l
<1>12. o - S[l].frameStart = t
  <2>1. S[l].frameStart = Ordinal(p, s, 0) /\ Ordinal(p, s, 0) \in Nat
    BY <1>3, <1>5, <1>6, <1>10
  <2> QED BY <1>5, <1>7, <2>1
<1> QED BY <1>10, <1>11, <1>12 DEF S, o

-----------------------------------------------------------------------------
(* The cursor                                                              *)

\* The frame of a tick, and the cursor that is there.
FedTo(p, s, t) == SubSeq(Plays(p)[s], 1, t)
FrameHere(p, s, t) ==
  [stage |-> s, tick |-> t, ordinal |-> Start(p, s) + (s - 1) + t, runTick |-> Start(p, s) + t,
   applied |-> IF t = 0 THEN RpNone ELSE Plays(p)[s][t], lives |-> Before(p, s), fed |-> FedTo(p, s, t)]
EngineAt(p, s, t) == [stage |-> s, lives |-> Before(p, s), fed |-> FedTo(p, s, t)]
CursorAt(p, s, t) == [stage |-> s, tick |-> t, engine |-> EngineAt(p, s, t), frame |-> FrameHere(p, s, t)]

\* The inputs from one tick of a stage to another are those in between.
LEMMA RpFedOn ==
  ASSUME NEW p \in RpStages, Taken(p), NEW s, NEW t, OnRun(p, s, t), NEW from \in 0 .. t
  PROVE  /\ FedTo(p, s, from) \o [i \in 1 .. (t - from) |-> InputAt(Sources(p)[s], from + i)] = FedTo(p, s, t)
         /\ t # 0 => InputAt(Sources(p)[s], t) = Plays(p)[s][t]
         /\ FedTo(p, s, 0) = <<>> /\ s \in 1 .. Len(p) /\ t \in Nat /\ t <= Len(Plays(p)[s])
         /\ Sources(p)[s] = SourceOf(p, s)
<1> DEFINE x == Plays(p)[s]
           runs == p[s].runs
           src == Sources(p)[s]
<1>1. /\ s \in 1 .. Len(p) /\ x \in Seq(RpInputs) /\ Len(x) \in Nat /\ x = Expanded(runs) /\ runs \in RpRunLists
      /\ t \in 0 .. Len(x) /\ Numbered(p)
  BY RpPlayable DEF OnRun, RpFed
<1>2. src = SourceOf(p, s)
  BY <1>1, RpSources
<1>3. src.inputs = StageInputs(runs).inputs /\ src.ends = StageInputs(runs).ends
  BY <1>2 DEF SourceOf
<1> HIDE DEF src, runs
<1>4. \A k \in 1 .. Len(x) : InputAt(src, k) = x[k]
  <2> HIDE DEF x
  <2>1. \A k \in 1 .. Len(Expanded(runs)) : InputAt(src, k) = Expanded(runs)[k]
    BY <1>1, <1>3, RpInputAt
  <2> QED BY <1>1, <2>1
<1> HIDE DEF x
<1> DEFINE y == [i \in 1 .. (t - from) |-> InputAt(src, from + i)]
           z == SubSeq(x, from + 1, t)
<1>5. t \in Nat /\ from \in Nat /\ t - from \in Nat /\ from + 1 \in Nat /\ t <= Len(x)
  BY <1>1
<1>6. \A i \in 1 .. (t - from) : from + i \in 1 .. Len(x)
  BY <1>1, <1>5
<1>7. \A k \in 1 .. Len(x) : x[k] \in RpInputs
  BY <1>1, ElementOfSeq
<1>8. y \in Seq(RpInputs) /\ Len(y) = t - from /\ \A i \in 1 .. (t - from) : y[i] = x[from + i]
  <2>1. \A i \in 1 .. (t - from) : InputAt(src, from + i) = x[from + i] /\ x[from + i] \in RpInputs
    BY <1>4, <1>6, <1>7
  <2>2. y \in [1 .. (t - from) -> RpInputs] /\ \A i \in 1 .. (t - from) : y[i] = x[from + i]
    BY <2>1
  <2> HIDE DEF y
  <2> QED BY <1>5, <2>2, RpSeqOf
<1>9. z \in Seq(RpInputs) /\ Len(z) = t - from /\ \A i \in 1 .. (t - from) : z[i] = x[from + i]
  <2>1. \A i \in from + 1 .. t : x[i] \in RpInputs
    BY <1>5, <1>7
  <2>2. /\ z \in Seq(RpInputs) /\ Len(z) = IF from + 1 <= t THEN t - (from + 1) + 1 ELSE 0
        /\ \A i \in 1 .. t - (from + 1) + 1 : z[i] = x[from + 1 + i - 1]
    BY <1>5, <2>1, SubSeqProperties
  <2> HIDE DEF z
  <2>3. Len(z) = t - from
    BY <1>5, <2>2
  <2>4. ASSUME NEW i \in 1 .. (t - from) PROVE z[i] = x[from + i]
    <3>1. i \in 1 .. t - (from + 1) + 1 /\ from + 1 + i - 1 = from + i
      BY <1>5
    <3> QED BY <2>2, <3>1
  <2> QED BY <2>2, <2>3, <2>4
<1>10. y = z
  <2> HIDE DEF y, z
  <2>1. Len(y) = Len(z) /\ \A i \in 1 .. Len(y) : y[i] = z[i]
    BY <1>5, <1>8, <1>9
  <2> QED BY <1>8, <1>9, <2>1, SeqEqual
<1>11. SubSeq(x, 1, from) \o z = SubSeq(x, 1, t)
  <2>1. 1 \in 1 .. Len(x) + 1 /\ from \in 1 - 1 .. Len(x) /\ t \in from .. Len(x)
    BY <1>1, <1>5
  <2> QED BY <1>1, <2>1, ConcatAdjacentSubSeq
<1> HIDE DEF y, z
<1>12. SubSeq(x, 1, from) \o y = SubSeq(x, 1, t)
  BY <1>10, <1>11
<1>13. FedTo(p, s, 0) = <<>>
  <2> DEFINE e == SubSeq(x, 1, 0)
  <2>1. \A j \in 1 .. 0 : x[j] \in RpInputs
    OBVIOUS
  <2>2. e \in Seq(RpInputs) /\ Len(e) = 0
    BY <2>1, SubSeqProperties
  <2> HIDE DEF e
  <2>3. e = <<>>
    BY <2>2, EmptySeq
  <2> QED BY <2>3, Zenon DEF e, FedTo, x
<1>14. FedTo(p, s, from) \o y = FedTo(p, s, t)
  BY <1>12, Zenon DEF FedTo, x
<1>15. t # 0 => InputAt(src, t) = x[t]
  BY <1>1, <1>4, <1>5
<1> QED BY <1>1, <1>2, <1>5, <1>13, <1>14, <1>15 DEF y, x, src

\* Going on from an engine that is behind, or from a fresh one.
LEMMA RpFrameFrom ==
  ASSUME NEW p \in RpStages, Taken(p), NEW s, NEW t, OnRun(p, s, t), NEW from \in 0 .. t, t # from \/ t = 0
  PROVE  FrameFrom(Sources(p)[s], s, t, from, EngineAt(p, s, from)) = CursorAt(p, s, t)
<1> DEFINE src == Sources(p)[s]
           fed == FedTo(p, s, from) \o [i \in 1 .. (t - from) |-> InputAt(src, from + i)]
           start == EngineAt(p, s, from)
           end == [start EXCEPT !.fed = @ \o [i \in 1 .. (t - from) |-> InputAt(src, from + i)]]
           tail == [i \in 1 .. (t - from) |-> InputAt(src, from + i)]
           app == IF t = from THEN RpNone ELSE InputAt(src, t)
<1>1. /\ fed = FedTo(p, s, t) /\ (t # 0 => InputAt(src, t) = Plays(p)[s][t]) /\ s \in 1 .. Len(p) /\ t \in Nat
      /\ src = SourceOf(p, s)
  BY RpFedOn
<1>2. end = EngineAt(p, s, t)
  <2> DEFINE f == FedTo(p, s, from)
             g == f \o tail
  <2>1. end = [start EXCEPT !.fed = start.fed \o tail]
    BY Zenon
  <2>2. start.fed = f /\ start = [stage |-> s, lives |-> Before(p, s), fed |-> f]
    BY DEF EngineAt
  <2>3. g = FedTo(p, s, t)
    BY <1>1, Zenon
  <2> DEFINE q == start.fed \o tail
  <2>4. q = g
    BY <2>2, Zenon
  <2>5. end = [start EXCEPT !.fed = q]
    BY <2>1, Zenon
  <2> HIDE DEF end, start, q, f, g, tail
  <2>6. end = [stage |-> s, lives |-> Before(p, s), fed |-> g]
    BY <2>2, <2>4, <2>5
  <2> QED BY <2>3, <2>6 DEF EngineAt
<1>3. app = IF t = 0 THEN RpNone ELSE Plays(p)[s][t]
  BY <1>1
<1>4. FrameFrom(src, s, t, from, start) = FrameOn(src, s, t, from, end)
  BY DEF FrameFrom
<1>5. FrameOn(src, s, t, from, end) = [stage |-> s, tick |-> t, engine |-> end, frame |-> FrameOf(src, s, t, app, end)]
  <2> HIDE DEF end, src
  <2> QED BY DEF FrameOn
<1> HIDE DEF end, app
<1>6. FrameOf(src, s, t, app, end) = FrameHere(p, s, t)
  <2>1. src.frameStart = Start(p, s) + (s - 1) /\ src.runStart = Start(p, s)
    <3>1. SourceOf(p, s).frameStart = Start(p, s) + (s - 1) /\ SourceOf(p, s).runStart = Start(p, s)
      BY DEF SourceOf
    <3> QED BY <1>1, <3>1
  <2>2. end.lives = Before(p, s) /\ end.fed = FedTo(p, s, t)
    BY <1>2 DEF EngineAt
  <2> HIDE DEF src
  <2> QED BY <1>3, <2>1, <2>2 DEF FrameOf, FrameHere
<1> QED BY <1>2, <1>4, <1>5, <1>6 DEF CursorAt

\* Any frame, from nothing or from wherever the cursor is.
LEMMA RpFrameAt ==
  ASSUME NEW p \in RpStages, Taken(p), NEW s, NEW t, OnRun(p, s, t), NEW c,
         c = RpNone \/ \E s2, t2 : OnRun(p, s2, t2) /\ c = CursorAt(p, s2, t2)
  PROVE  FrameAt(Sources(p), c, s, t) = CursorAt(p, s, t)
<1> DEFINE S == Sources(p)
           fresh == FrameFrom(S[s], s, t, 0, Fresh(s, S[s].lives))
<1>1. s \in 1 .. Len(p) /\ t \in Nat /\ S[s] = SourceOf(p, s) /\ FedTo(p, s, 0) = <<>> /\ 0 \in 0 .. t
  <2>1. t \in Nat
    <3>1. Len(Plays(p)[s]) \in Nat
      BY RpPlayable DEF OnRun
    <3> QED BY <3>1 DEF OnRun
  <2>2. 0 \in 0 .. t
    BY <2>1
  <2> QED BY <2>2, RpFedOn
<1>2. fresh = CursorAt(p, s, t)
  <2>1. S[s].lives = Before(p, s)
    <3>1. SourceOf(p, s).lives = Before(p, s)
      BY DEF SourceOf
    <3> QED BY <1>1, <3>1
  <2>2. Fresh(s, S[s].lives) = EngineAt(p, s, 0)
    <3> HIDE DEF S
    <3> QED BY <1>1, <2>1 DEF Fresh, EngineAt
  <2>3. t # 0 \/ t = 0
    OBVIOUS
  <2>4. FrameFrom(Sources(p)[s], s, t, 0, EngineAt(p, s, 0)) = CursorAt(p, s, t)
    BY <1>1, <2>3, RpFrameFrom
  <2> QED BY <2>2, <2>4
<1> HIDE DEF fresh
<1>3. CASE c = RpNone
  BY <1>2, <1>3 DEF FrameAt, Reusable, fresh
<1>4. CASE \E s2, t2 : OnRun(p, s2, t2) /\ c = CursorAt(p, s2, t2)
  <2>1. PICK s2, t2 : OnRun(p, s2, t2) /\ c = CursorAt(p, s2, t2)
    BY <1>4
  <2>2. c.stage = s2 /\ c.tick = t2 /\ c.engine = EngineAt(p, s2, t2)
    BY <2>1 DEF CursorAt
  <2>2a. t2 \in Nat
    <3>1. Len(Plays(p)[s2]) \in Nat
      BY <2>1, RpPlayable DEF OnRun
    <3> QED BY <2>1, <3>1 DEF OnRun
  <2>3. FrameAt(S, c, s, t) =
          IF c # RpNone /\ c.stage = s /\ c.tick = t THEN c
          ELSE IF c # RpNone /\ c.stage = s /\ t > c.tick THEN FrameFrom(S[s], s, t, c.tick, c.engine)
          ELSE fresh
    BY DEF FrameAt, Reusable, fresh
  <2> HIDE DEF S
  <2>4. CASE c # RpNone /\ c.stage = s /\ c.tick = t
    BY <2>1, <2>2, <2>3, <2>4 DEF S
  <2>5. CASE ~ (c # RpNone /\ c.stage = s /\ c.tick = t) /\ c # RpNone /\ c.stage = s /\ t > c.tick
    <3>1. FrameAt(S, c, s, t) = FrameFrom(S[s], s, t, t2, EngineAt(p, s, t2))
      BY <2>2, <2>3, <2>5
    <3>2. t2 \in 0 .. t /\ t # t2
      BY <1>1, <2>2, <2>2a, <2>5
    <3>3. FrameFrom(Sources(p)[s], s, t, t2, EngineAt(p, s, t2)) = CursorAt(p, s, t)
      BY <3>2, RpFrameFrom
    <3> QED BY <3>1, <3>3 DEF S
  <2>6. CASE ~ (c # RpNone /\ c.stage = s /\ c.tick = t) /\ ~ (c # RpNone /\ c.stage = s /\ t > c.tick)
    BY <1>2, <2>3, <2>6 DEF S
  <2> QED BY <2>4, <2>5, <2>6
<1> QED BY <1>3, <1>4

\* One step within a stage.
LEMMA RpStepped ==
  ASSUME NEW p \in RpStages, Taken(p), NEW s, NEW t, OnRun(p, s, t), t # Len(Plays(p)[s])
  PROVE  /\ Stepped(Sources(p), CursorAt(p, s, t)) = CursorAt(p, s, t + 1) /\ OnRun(p, s, t + 1)
         /\ CursorAt(p, s, t + 1).frame = FrameHere(p, s, t + 1)
<1> DEFINE c == CursorAt(p, s, t)
           S == Sources(p)
<1>1. s \in 1 .. Len(p) /\ t \in Nat /\ t <= Len(Plays(p)[s]) /\ S[s] = SourceOf(p, s) /\ Len(Plays(p)[s]) \in Nat
  <2>1. s \in 1 .. Len(p) /\ Len(Plays(p)[s]) \in Nat /\ t \in 0 .. Len(Plays(p)[s]) /\ Numbered(p)
    BY RpPlayable DEF OnRun
  <2> QED BY <2>1, RpSources
<1>2. OnRun(p, s, t + 1)
  <2>1. t + 1 \in 0 .. Len(Plays(p)[s])
    BY <1>1
  <2> QED BY <1>1, <2>1 DEF OnRun
<1>3. c.stage = s /\ c.tick = t /\ S[s].ticks = Len(Plays(p)[s])
  <2>1. c.stage = s /\ c.tick = t
    BY DEF CursorAt
  <2>2. SourceOf(p, s).ticks = Len(Plays(p)[s])
    BY DEF SourceOf
  <2> QED BY <1>1, <2>1, <2>2
<1>4. Stepped(S, c) = FrameAt(S, c, s, t + 1)
  <2> HIDE DEF c, S
  <2> QED BY <1>3 DEF Stepped
<1>5. FrameAt(S, c, s, t + 1) = CursorAt(p, s, t + 1)
  BY <1>2, RpFrameAt
<1>6. CursorAt(p, s, t + 1).frame = FrameHere(p, s, t + 1)
  BY DEF CursorAt
<1> QED BY <1>2, <1>4, <1>5, <1>6

-----------------------------------------------------------------------------
(* The history of a frame                                                  *)

\* The frames from one tick of a stage to another.
Frames(p, s, a, t) == [k \in 1 .. t - a + 1 |-> FrameHere(p, s, a + k - 1)]
FramesOf(p, s) == {FrameHere(p, s, k) : k \in Nat}

\* The frames of the ticks from one to another are so many, in order.
LEMMA RpFrames ==
  ASSUME NEW p, NEW s, NEW a \in Nat, NEW t \in Int, a <= t + 1
  PROVE  /\ Frames(p, s, a, t) \in Seq(FramesOf(p, s)) /\ Len(Frames(p, s, a, t)) = t - a + 1
         /\ \A k \in 1 .. t - a + 1 : Frames(p, s, a, t)[k] = FrameHere(p, s, a + k - 1)
<1> DEFINE n == t - a + 1
           f == Frames(p, s, a, t)
<1>1. n \in Nat
  OBVIOUS
<1>2. f = [k \in 1 .. n |-> FrameHere(p, s, a + k - 1)]
  BY DEF Frames
<1>3. \A k \in 1 .. n : FrameHere(p, s, a + k - 1) \in FramesOf(p, s)
  <2> TAKE k \in 1 .. n
  <2>1. a + k - 1 \in Nat
    BY <1>1
  <2> DEFINE j == a + k - 1
  <2> HIDE DEF j
  <2>2. FrameHere(p, s, j) \in FramesOf(p, s)
    BY <2>1 DEF FramesOf, j
  <2> QED BY <2>2 DEF j
<1> HIDE DEF f, n
<1>4. f \in [1 .. n -> FramesOf(p, s)] /\ \A k \in 1 .. n : f[k] = FrameHere(p, s, a + k - 1)
  BY <1>2, <1>3
<1>5. f \in Seq(FramesOf(p, s)) /\ Len(f) = n
  BY <1>1, <1>4, RpSeqOf
<1> QED BY <1>4, <1>5 DEF f, n

\* There are none if the ticks are none.
LEMMA RpNoFrames ==
  ASSUME NEW p, NEW s, NEW a \in Nat, NEW t \in Int, t < a
  PROVE  Frames(p, s, a, t) = <<>>
<1>1. 1 .. t - a + 1 = {}
  OBVIOUS
<1>2. Frames(p, s, a, t) = [k \in {} |-> FrameHere(p, s, a + k - 1)]
  BY <1>1, Zenon DEF Frames
<1> QED BY <1>2

\* The frame of the next tick is the next of the frames.
LEMMA RpFrameMore ==
  ASSUME NEW p, NEW s, NEW a \in Nat, NEW t \in Int, a <= t + 1
  PROVE  Append(Frames(p, s, a, t), FrameHere(p, s, t + 1)) = Frames(p, s, a, t + 1)
<1> DEFINE n == t - a + 1
           f == Frames(p, s, a, t)
           g == Frames(p, s, a, t + 1)
           e == FrameHere(p, s, t + 1)
           h == Append(f, e)
           X == FramesOf(p, s)
<1>1. n \in Nat /\ t + 1 \in Int /\ a <= (t + 1) + 1 /\ (t + 1) - a + 1 = n + 1 /\ t + 1 \in Nat /\ a + (n + 1) - 1 = t + 1
  OBVIOUS
<1>2. f \in Seq(X) /\ Len(f) = n /\ \A k \in 1 .. n : f[k] = FrameHere(p, s, a + k - 1)
  BY RpFrames
<1>3. g \in Seq(X) /\ Len(g) = n + 1 /\ \A k \in 1 .. n + 1 : g[k] = FrameHere(p, s, a + k - 1)
  <2> DEFINE u == t + 1
  <2>1. u \in Int /\ a <= u + 1 /\ u - a + 1 = n + 1
    BY <1>1
  <2> HIDE DEF u, n
  <2>2. /\ Frames(p, s, a, u) \in Seq(FramesOf(p, s)) /\ Len(Frames(p, s, a, u)) = u - a + 1
        /\ \A k \in 1 .. u - a + 1 : Frames(p, s, a, u)[k] = FrameHere(p, s, a + k - 1)
    BY <2>1, RpFrames
  <2> QED BY <2>1, <2>2 DEF u
<1>4. e \in X
  <2> DEFINE u == t + 1
  <2>1. u \in Nat
    BY <1>1
  <2> HIDE DEF u
  <2>2. FrameHere(p, s, u) \in X
    BY <2>1 DEF FramesOf
  <2> QED BY <2>2 DEF u
<1>5. g[n + 1] = e
  <2>1. n + 1 \in 1 .. n + 1
    BY <1>1
  <2>2. g[n + 1] = FrameHere(p, s, a + (n + 1) - 1)
    BY <1>3, <2>1
  <2> HIDE DEF n
  <2> QED BY <1>1, <2>2
<1> HIDE DEF f, g, e, X, n
<1>6. h \in Seq(X) /\ Len(h) = n + 1 /\ h[n + 1] = e /\ \A k \in 1 .. n : h[k] = f[k]
  BY <1>2, <1>4, AppendProperties
<1> HIDE DEF h
<1>7. \A k \in 1 .. n + 1 : h[k] = g[k]
  <2> TAKE k \in 1 .. n + 1
  <2>1. k \in 1 .. n \/ k = n + 1
    BY <1>1
  <2> QED BY <1>2, <1>3, <1>5, <1>6, <2>1
<1>8. h = g
  <2>1. Len(h) = Len(g) /\ \A k \in 1 .. Len(h) : h[k] = g[k]
    BY <1>3, <1>6, <1>7
  <2> QED BY <1>3, <1>6, <2>1, SeqEqual
<1> QED BY <1>8 DEF h, g, f, e

\* Step by step to a frame.
Gone(p, s, a, t) == [cursor |-> CursorAt(p, s, t), history |-> Frames(p, s, a, t)]

\* Going on step by step collects the frames on the way (replay-scrubber.ts, moveToFrame).
LEMMA RpOnwards ==
  ASSUME NEW p \in RpStages, Taken(p), NEW s, NEW b, OnRun(p, s, b), NEW n \in Nat, OnRun(p, s, b + n),
         NEW a \in 0 .. b + 1
  PROVE  Onwards(Sources(p), Gone(p, s, a, b), n) = Gone(p, s, a, b + n)
<1> DEFINE S == Sources(p)
           g == Gone(p, s, a, b)
           T == {k \in 0 .. n : Onwards(S, g, k) = Gone(p, s, a, b + k)}
<1>1. b \in Nat /\ b + n <= Len(Plays(p)[s]) /\ Len(Plays(p)[s]) \in Nat /\ s \in 1 .. Len(p) /\ a \in Nat
  <2>1. Len(Plays(p)[s]) \in Nat /\ b \in 0 .. Len(Plays(p)[s]) /\ b + n \in 0 .. Len(Plays(p)[s]) /\ s \in 1 .. Len(p)
    BY RpPlayable DEF OnRun
  <2> QED BY <2>1
<1> HIDE DEF g, S
<1>2. 0 \in T
  <2>1. b + 0 = b
    BY <1>1
  <2>2. Onwards(S, g, 0) = g
    BY OnwardsGrows
  <2> QED BY <2>1, <2>2 DEF g
<1>3. ASSUME NEW k \in 0 .. n - 1, k \in T PROVE k + 1 \in T
  <2> DEFINE t == b + k
             at == Onwards(S, g, k)
  <2>1. t \in Nat /\ b + (k + 1) = t + 1 /\ t # Len(Plays(p)[s]) /\ t <= Len(Plays(p)[s]) /\ a <= t + 1 /\ k \in Nat /\ t \in Int
        /\ k + 1 \in 0 .. n
    BY <1>1
  <2>2. at = Gone(p, s, a, t)
    BY <1>3
  <2>3. Onwards(S, g, k + 1) = Onward(S, at)
    BY <2>1, OnwardsGrows
  <2> HIDE DEF at, t, T
  <2>4. OnRun(p, s, t)
    BY <1>1, <2>1 DEF OnRun
  <2>5. at.cursor = CursorAt(p, s, t) /\ at.history = Frames(p, s, a, t)
    BY <2>2 DEF Gone
  <2>6. Stepped(S, at.cursor) = CursorAt(p, s, t + 1) /\ CursorAt(p, s, t + 1).frame = FrameHere(p, s, t + 1)
    BY <2>1, <2>4, <2>5, RpStepped DEF S
  <2> DEFINE c == CursorAt(p, s, t + 1)
             e == FrameHere(p, s, t + 1)
             f == Frames(p, s, a, t)
  <2>7. Append(f, e) = Frames(p, s, a, t + 1)
    BY <1>1, <2>1, RpFrameMore
  <2>8. Onward(S, at) = [cursor |-> c, history |-> Append(f, e)]
    <3> HIDE DEF c, e, f
    <3>1. Stepped(S, at.cursor) = c /\ c.frame = e /\ at.history = f
      BY <2>5, <2>6 DEF c, e, f
    <3> QED BY <3>1, Zenon DEF Onward
  <2>9. Onwards(S, g, k + 1) = Gone(p, s, a, t + 1)
    BY <2>3, <2>7, <2>8, Zenon DEF Gone
  <2>10. Onwards(S, g, k + 1) = Gone(p, s, a, b + (k + 1))
    BY <2>1, <2>9
  <2> QED BY <2>1, <2>10 DEF T
<1>4. n \in T
  <2> HIDE DEF T
  <2>1. 0 .. n \subseteq T
    BY <1>2, <1>3, Upwards
  <2>2. n \in 0 .. n
    OBVIOUS
  <2> QED BY <2>1, <2>2
<1> QED BY <1>4 DEF S, g

\* The ticks a history has: the last before its frame, and maybe the start.
LowTick(t) == IF t > RpHistory THEN t - RpHistory + 1 ELSE 1
Window(a, t) == a \in 0 .. t /\ (a = LowTick(t) \/ (a = 0 /\ t <= RpHistory))
Here(p, c) == c = RpNone \/ \E s, t : OnRun(p, s, t) /\ c = CursorAt(p, s, t)

\* A move to any frame, from wherever the cursor is, ends there with its history.
LEMMA RpMoves ==
  ASSUME NEW p \in RpStages, Taken(p), NEW s, NEW t, OnRun(p, s, t), NEW c, Here(p, c)
  PROVE  \E a : Window(a, t) /\ Moved(Sources(p), c, s, t) = Gone(p, s, a, t)
<1> DEFINE S == Sources(p)
           begin == IF t > RpHistory THEN t - RpHistory ELSE 0
           first == FrameAt(S, c, s, begin)
           h == IF t = 0 THEN <<first.frame>> ELSE <<>>
           a == IF t = 0 THEN 0 ELSE begin + 1
           n == t - begin
<1>1. t \in Nat /\ t <= Len(Plays(p)[s]) /\ Len(Plays(p)[s]) \in Nat /\ s \in 1 .. Len(p) /\ RpHistory \in Nat \ {0}
  <2>1. Len(Plays(p)[s]) \in Nat /\ t \in 0 .. Len(Plays(p)[s]) /\ s \in 1 .. Len(p)
    BY RpPlayable DEF OnRun
  <2> QED BY <2>1, RpLimits
<1>2. begin \in 0 .. t /\ n \in Nat /\ begin + n = t /\ a \in 0 .. begin + 1 /\ (t = 0 => begin = 0 /\ n = 0)
  BY <1>1
<1>3. Window(a, t)
  BY <1>1 DEF Window, LowTick
<1> HIDE DEF begin
<1>4. OnRun(p, s, begin)
  BY <1>1, <1>2 DEF OnRun
<1>5. first = CursorAt(p, s, begin)
  BY <1>4, RpFrameAt DEF Here
<1>6. Moved(S, c, s, t) = Onwards(S, [cursor |-> first, history |-> h], n)
  BY DEF Moved, begin
<1> HIDE DEF first, n
<1>7. h = Frames(p, s, a, begin)
  <2>1. CASE t = 0
    <3>1. first.frame = FrameHere(p, s, 0) /\ begin = 0 /\ a = 0
      BY <1>2, <1>5, <2>1 DEF CursorAt
    <3>2. Frames(p, s, 0, 0) = <<FrameHere(p, s, 0)>>
      <4>1. Append(Frames(p, s, 0, -1), FrameHere(p, s, -1 + 1)) = Frames(p, s, 0, -1 + 1)
        BY RpFrameMore
      <4>2. Frames(p, s, 0, -1) = <<>>
        BY RpNoFrames
      <4>3. Append(<<>>, FrameHere(p, s, 0)) = Frames(p, s, 0, 0)
        <5>1. -1 + 1 = 0
          OBVIOUS
        <5> QED BY <4>1, <4>2, <5>1, Zenon
      <4> DEFINE e == FrameHere(p, s, 0)
      <4> HIDE DEF e
      <4>4. Append(<<>>, e) = <<e>>
        OBVIOUS
      <4> QED BY <4>3, <4>4, Zenon DEF e
    <3> QED BY <2>1, <3>1, <3>2
  <2>2. CASE t # 0
    <3>1. Frames(p, s, begin + 1, begin) = <<>>
      BY <1>1, <1>2, RpNoFrames
    <3> QED BY <2>2, <3>1
  <2> QED BY <2>1, <2>2
<1> HIDE DEF h, a
<1>8. [cursor |-> first, history |-> h] = Gone(p, s, a, begin)
  BY <1>5, <1>7 DEF Gone
<1>9. Onwards(S, Gone(p, s, a, begin), n) = Gone(p, s, a, begin + n)
  <2>1. OnRun(p, s, begin + n)
    BY <1>2
  <2> QED BY <1>2, <1>4, <2>1, RpOnwards
<1> QED BY <1>2, <1>3, <1>6, <1>8, <1>9

\* What is recent of a history is a history that begins later.
Later(a, b) == IF a < b THEN b ELSE a
RecentFrom(p, s, a, n, x) ==
  Recent(Frames(p, s, a, a + n - 1), x) = Frames(p, s, Later(a, x - RpHistory + 1), a + n - 1)

\* Dropping old frames of a window leaves the window of the last ticks.
LEMMA RpRecent ==
  ASSUME NEW p, NEW s, NEW a \in Nat, NEW n \in Nat, NEW x \in Nat, RpHistory \in Nat
  PROVE  RecentFrom(p, s, a, n, x)
<1> DEFINE m == Later(a, x - RpHistory + 1)
           T == {k \in 0 .. n : Recent(Frames(p, s, a, a + k - 1), x) = Frames(p, s, m, a + k - 1)}
<1>1. m \in Nat /\ a <= m /\ (m = a \/ m = x - RpHistory + 1) /\ x - RpHistory + 1 <= m
  BY DEF Later
<1> HIDE DEF m
<1>2. 0 \in T
  <2>1. a + 0 - 1 \in Int /\ a + 0 - 1 < a /\ a + 0 - 1 < m
    BY <1>1
  <2> DEFINE z == a + 0 - 1
  <2>2. z \in Int /\ z < a /\ z < m
    BY <2>1
  <2> HIDE DEF z
  <2>3. Frames(p, s, a, z) = <<>> /\ Frames(p, s, m, z) = <<>>
    BY <1>1, <2>2, RpNoFrames
  <2>4. Recent(<<>>, x) = <<>>
    BY RpFiltersBegins
  <2>5. Recent(Frames(p, s, a, z), x) = Frames(p, s, m, z)
    BY <2>3, <2>4, Zenon
  <2> QED BY <2>5 DEF z
<1>3. ASSUME NEW k \in 0 .. n - 1, k \in T PROVE k + 1 \in T
  <2> DEFINE t == a + k - 1
             f == Frames(p, s, a, t)
             e == FrameHere(p, s, t + 1)
  <2>1. t \in Int /\ a <= t + 1 /\ a + (k + 1) - 1 = t + 1 /\ k + 1 \in 0 .. n /\ t + 1 \in Nat
    OBVIOUS
  <2>2. Recent(f, x) = Frames(p, s, m, t)
    BY <1>3
  <2> HIDE DEF t, T
  <2>3. Append(f, e) = Frames(p, s, a, t + 1)
    BY <2>1, RpFrameMore
  <2>4. f \in Seq(FramesOf(p, s)) /\ e \in FramesOf(p, s)
    <3>1. f \in Seq(FramesOf(p, s))
      BY <2>1, RpFrames
    <3> DEFINE u == t + 1
    <3>2. u \in Nat
      BY <2>1
    <3> HIDE DEF u
    <3>3. FrameHere(p, s, u) \in FramesOf(p, s)
      BY <3>2 DEF FramesOf
    <3> QED BY <3>1, <3>3 DEF u
  <2>5. e.tick = t + 1
    BY DEF FrameHere
  <2> HIDE DEF e, f
  <2>6. Recent(Append(f, e), x) = IF e.tick > x - RpHistory THEN Append(Recent(f, x), e) ELSE Recent(f, x)
    BY <2>4, RecentGrows
  <2>7. CASE t + 1 > x - RpHistory
    <3>1. m <= t + 1
      BY <1>1, <2>1, <2>7
    <3>2. Append(Frames(p, s, m, t), e) = Frames(p, s, m, t + 1)
      BY <1>1, <2>1, <3>1, RpFrameMore DEF e
    <3>3. Recent(Append(f, e), x) = Frames(p, s, m, t + 1)
      BY <2>2, <2>5, <2>6, <2>7, <3>2
    <3>4. Recent(Frames(p, s, a, t + 1), x) = Frames(p, s, m, t + 1)
      BY <2>3, <3>3
    <3> QED BY <2>1, <3>4 DEF T
  <2>8. CASE ~ (t + 1 > x - RpHistory)
    <3>1. t + 1 < m /\ t < m
      BY <1>1, <2>1, <2>8
    <3> DEFINE u == t + 1
    <3>2. u \in Int /\ u < m
      BY <2>1, <3>1
    <3> HIDE DEF u
    <3>3. Frames(p, s, m, t) = <<>> /\ Frames(p, s, m, u) = <<>>
      BY <1>1, <2>1, <3>1, <3>2, RpNoFrames
    <3>4. Recent(Append(f, e), x) = Frames(p, s, m, t)
      BY <2>2, <2>5, <2>6, <2>8
    <3>5. Recent(Frames(p, s, a, t + 1), x) = Frames(p, s, m, t + 1)
      BY <2>3, <3>3, <3>4 DEF u
    <3> QED BY <2>1, <3>5 DEF T
  <2> QED BY <2>7, <2>8
<1>4. n \in T
  <2> HIDE DEF T
  <2>1. 0 .. n \subseteq T
    BY <1>2, <1>3, Upwards
  <2>2. n \in 0 .. n
    OBVIOUS
  <2> QED BY <2>1, <2>2
<1> QED BY <1>4 DEF m, RecentFrom

\* ... said of the window by its last tick.
LEMMA RpRecentTo ==
  ASSUME NEW p, NEW s, NEW a \in Nat, NEW t \in Nat, a <= t, NEW x \in Nat, RpHistory \in Nat
  PROVE  Recent(Frames(p, s, a, t), x) = Frames(p, s, Later(a, x - RpHistory + 1), t)
<1> DEFINE n == t - a + 1
           z == a + n - 1
           y == Later(a, x - RpHistory + 1)
<1>1. n \in Nat /\ z = t
  OBVIOUS
<1>2. Recent(Frames(p, s, a, z), x) = Frames(p, s, y, z)
  <2>1. n \in Nat
    BY <1>1
  <2> HIDE DEF n
  <2>2. RecentFrom(p, s, a, n, x)
    BY <2>1, RpRecent
  <2> QED BY <2>2, Zenon DEF RecentFrom
<1> HIDE DEF n, z, y
<1>3. Recent(Frames(p, s, a, t), x) = Frames(p, s, y, t)
  BY <1>1, <1>2, Zenon
<1> QED BY <1>3 DEF y

\* One step of the play.
LEMMA RpSteps ==
  ASSUME NEW p \in RpStages, Taken(p), NEW s, NEW t, OnRun(p, s, t), t # Len(Plays(p)[s]), NEW a, Window(a, t)
  PROVE  \E b : Window(b, t + 1) /\ RpStep(Sources(p), Gone(p, s, a, t)) = Gone(p, s, b, t + 1)
<1> DEFINE S == Sources(p)
           at == Gone(p, s, a, t)
           b == Later(a, t + 1 - RpHistory + 1)
           c == CursorAt(p, s, t + 1)
           e == FrameHere(p, s, t + 1)
           f == Frames(p, s, a, t)
<1>1. t \in Nat /\ RpHistory \in Nat \ {0} /\ a \in 0 .. t
  <2>1. Len(Plays(p)[s]) \in Nat /\ t \in 0 .. Len(Plays(p)[s])
    BY RpPlayable DEF OnRun
  <2> QED BY <2>1, RpLimits DEF Window
<1>2. Window(b, t + 1) /\ b \in Nat /\ b <= t + 1
  BY <1>1 DEF Window, LowTick, Later
<1>3. Stepped(S, CursorAt(p, s, t)) = c /\ c.frame = e
  BY RpStepped
<1>4. e.tick = t + 1
  BY DEF FrameHere
<1>5. at.cursor = CursorAt(p, s, t) /\ at.history = f
  BY DEF Gone
<1> HIDE DEF S, at, b, c, e, f
<1>6. RpStep(S, at) = [cursor |-> c, history |-> Append(Recent(f, t + 1), e)]
  <2>1. Stepped(S, at.cursor) = c /\ c.frame = e /\ at.history = f /\ e.tick = t + 1
    BY <1>3, <1>4, <1>5
  <2> DEFINE u == t + 1
  <2>2. e.tick = u
    BY <2>1
  <2> HIDE DEF u
  <2>3. Appended(f, e) = Append(Recent(f, u), e)
    BY <2>2, Zenon DEF Appended
  <2>4. RpStep(S, at) = [cursor |-> c, history |-> Appended(f, e)]
    BY <2>1, Zenon DEF RpStep
  <2> QED BY <2>3, <2>4, Zenon DEF u
<1>7. Recent(f, t + 1) = Frames(p, s, b, t)
  <2> DEFINE x == t + 1
  <2>1. t \in Nat /\ x \in Nat /\ a \in Nat /\ a <= t /\ RpHistory \in Nat
    BY <1>1
  <2> HIDE DEF x
  <2>2. Recent(Frames(p, s, a, t), x) = Frames(p, s, Later(a, x - RpHistory + 1), t)
    BY <2>1, RpRecentTo
  <2> DEFINE y == x - RpHistory + 1
  <2>3. y = t + 1 - RpHistory + 1
    BY <2>1 DEF x
  <2>4. Recent(f, x) = Frames(p, s, Later(a, y), t)
    BY <2>2, Zenon DEF f
  <2> HIDE DEF y
  <2>5. Later(a, y) = b
    BY <2>3, Zenon DEF b
  <2> QED BY <2>4, <2>5, Zenon DEF x
<1>8. Append(Frames(p, s, b, t), e) = Frames(p, s, b, t + 1)
  <2>1. t \in Int
    BY <1>1
  <2> QED BY <1>2, <2>1, RpFrameMore DEF e
<1>9. RpStep(S, at) = Gone(p, s, b, t + 1)
  BY <1>6, <1>7, <1>8, Zenon DEF Gone, c
<1> QED BY <1>2, <1>9 DEF S, at

\* As many as are due.
LEMMA RpAdvances ==
  ASSUME NEW p \in RpStages, Taken(p), NEW s, NEW t, OnRun(p, s, t), NEW n \in Nat, OnRun(p, s, t + n),
         NEW a, Window(a, t)
  PROVE  \E b : Window(b, t + n) /\ Advanced(Sources(p), Gone(p, s, a, t), n) = Gone(p, s, b, t + n)
<1> DEFINE S == Sources(p)
           g == Gone(p, s, a, t)
           T == {k \in 0 .. n : \E b : Window(b, t + k) /\ Advanced(S, g, k) = Gone(p, s, b, t + k)}
<1>1. t \in Nat /\ t + n <= Len(Plays(p)[s]) /\ Len(Plays(p)[s]) \in Nat /\ s \in 1 .. Len(p)
  <2>1. Len(Plays(p)[s]) \in Nat /\ t \in 0 .. Len(Plays(p)[s]) /\ t + n \in 0 .. Len(Plays(p)[s]) /\ s \in 1 .. Len(p)
    BY RpPlayable DEF OnRun
  <2> QED BY <2>1
<1> HIDE DEF g, S
<1>2. 0 \in T
  <2>1. t + 0 = t
    BY <1>1
  <2>2. Advanced(S, g, 0) = g
    BY AdvancedGrows
  <2> QED BY <2>1, <2>2 DEF g
<1>3. ASSUME NEW k \in 0 .. n - 1, k \in T PROVE k + 1 \in T
  <2> DEFINE u == t + k
             at == Advanced(S, g, k)
  <2>1. u \in Nat /\ t + (k + 1) = u + 1 /\ u # Len(Plays(p)[s]) /\ u <= Len(Plays(p)[s]) /\ k \in Nat /\ k + 1 \in 0 .. n
    BY <1>1
  <2>2. PICK b : Window(b, u) /\ at = Gone(p, s, b, u)
    BY <1>3
  <2>3. Advanced(S, g, k + 1) = RpStep(S, at)
    BY <2>1, AdvancedGrows
  <2> HIDE DEF at, u, T
  <2>4. OnRun(p, s, u)
    BY <1>1, <2>1 DEF OnRun
  <2>5. PICK d : Window(d, u + 1) /\ RpStep(S, Gone(p, s, b, u)) = Gone(p, s, d, u + 1)
    BY <2>1, <2>2, <2>4, RpSteps DEF S
  <2>6. Window(d, t + (k + 1)) /\ Advanced(S, g, k + 1) = Gone(p, s, d, t + (k + 1))
    BY <2>1, <2>2, <2>3, <2>5
  <2> QED BY <2>1, <2>6 DEF T
<1>4. n \in T
  <2> HIDE DEF T
  <2>1. 0 .. n \subseteq T
    BY <1>2, <1>3, Upwards
  <2>2. n \in 0 .. n
    OBVIOUS
  <2> QED BY <2>1, <2>2
<1> QED BY <1>4 DEF S, g

-----------------------------------------------------------------------------
(* The scrubber                                                            *)

\* What it shows, frame by frame and control by control.
Picture(f, h, d, playing, asked, ranged, range, anchored, backlog, speed, closed) ==
  [frame |-> f, history |-> h, drawn |-> d, playing |-> playing, animation |-> asked, rangeFrame |-> ranged,
   rangeTick |-> range, anchored |-> anchored, backlog |-> backlog, speed |-> speed, closed |-> closed]

\* Which controls go with a tick of a stage.
Controls(q, s, t, playing, ranged, range, anchored, backlog, speed, closed) ==
  /\ {playing, ranged, anchored, closed} \subseteq BOOLEAN /\ backlog \in Nat /\ speed \in Nat
  /\ playing => t < Len(Plays(q)[s]) /\ ~closed
  /\ ranged <=> range # RpNone
  /\ range # RpNone => range \in [tick : Nat, stage : {s}] /\ ~closed

Shown(q, s, t, a, playing, ranged, range, anchored, backlog, speed, closed) ==
  Picture(FrameHere(q, s, t), Frames(q, s, a, t), Frames(q, s, a, t), playing, playing, ranged, range,
          anchored, backlog, speed, closed)

\* The cursor and the scrubber are at one tick, and show what went before it.
ScrubsAt(q, c, v, s, t, a, playing, ranged, range, anchored, backlog, speed, closed) ==
  /\ OnRun(q, s, t) /\ Window(a, t) /\ c = CursorAt(q, s, t)
  /\ Controls(q, s, t, playing, ranged, range, anchored, backlog, speed, closed)
  /\ v = Shown(q, s, t, a, playing, ranged, range, anchored, backlog, speed, closed)
Scrubs(q, c, v) ==
  \E s, t, a, playing, ranged, range, anchored, backlog, speed, closed :
    ScrubsAt(q, c, v, s, t, a, playing, ranged, range, anchored, backlog, speed, closed)

\* What the scrubber does to what it shows.
Pictured(v, f, h, d, playing, asked, ranged, range, anchored, backlog, speed, closed) ==
  v = Picture(f, h, d, playing, asked, ranged, range, anchored, backlog, speed, closed)

\* A picture after stop.
LEMMA RpPictureStopped ==
  ASSUME NEW v, NEW f, NEW h, NEW d, NEW playing, NEW asked, NEW ranged, NEW range, NEW anchored, NEW backlog, NEW speed,
         NEW closed,
         Pictured(v, f, h, d, playing, asked, ranged, range, anchored, backlog, speed, closed)
  PROVE  Pictured(Stopped(v), f, h, d, FALSE, FALSE, ranged, range, FALSE, 0, speed, closed)
<1> DEFINE no == FALSE
           zero == 0
           w1 == [v EXCEPT !.playing = no]
           w2 == [w1 EXCEPT !.anchored = no]
           w3 == [w2 EXCEPT !.backlog = zero]
           w4 == [w3 EXCEPT !.animation = no]
<1>1. v = Picture(f, h, d, playing, asked, ranged, range, anchored, backlog, speed, closed)
  BY DEF Pictured
<1> HIDE DEF no, zero
<1>2. [Picture(f, h, d, playing, asked, ranged, range, anchored, backlog, speed, closed) EXCEPT !.playing = no] = Picture(f, h, d, no, asked, ranged, range, anchored, backlog, speed, closed)
  BY SMT DEF Picture
<1>3. [Picture(f, h, d, no, asked, ranged, range, anchored, backlog, speed, closed) EXCEPT !.anchored = no] = Picture(f, h, d, no, asked, ranged, range, no, backlog, speed, closed)
  BY SMT DEF Picture
<1>4. [Picture(f, h, d, no, asked, ranged, range, no, backlog, speed, closed) EXCEPT !.backlog = zero] = Picture(f, h, d, no, asked, ranged, range, no, zero, speed, closed)
  BY SMT DEF Picture
<1>5. [Picture(f, h, d, no, asked, ranged, range, no, zero, speed, closed) EXCEPT !.animation = no] = Picture(f, h, d, no, no, ranged, range, no, zero, speed, closed)
  BY SMT DEF Picture
<1>6. w4 = Picture(f, h, d, no, no, ranged, range, no, zero, speed, closed)
  BY <1>1, <1>2, <1>3, <1>4, <1>5, Zenon
<1>7. Stopped(v) = w4
  BY Zenon DEF Stopped, no, zero
<1> HIDE DEF w1, w2, w3, w4
<1> QED BY <1>6, <1>7, Zenon DEF Pictured, no, zero

\* A picture after cancelRangeSeek.
LEMMA RpPictureCancelled ==
  ASSUME NEW v, NEW f, NEW h, NEW d, NEW playing, NEW asked, NEW ranged, NEW range, NEW anchored, NEW backlog, NEW speed,
         NEW closed,
         Pictured(v, f, h, d, playing, asked, ranged, range, anchored, backlog, speed, closed)
  PROVE  Pictured(RangeCancelled(v), f, h, d, playing, asked, FALSE, RpNone, anchored, backlog, speed, closed)
<1> DEFINE no == FALSE
           none == RpNone
           w1 == [v EXCEPT !.rangeFrame = no]
           w2 == [w1 EXCEPT !.rangeTick = none]
<1>1. v = Picture(f, h, d, playing, asked, ranged, range, anchored, backlog, speed, closed)
  BY DEF Pictured
<1> HIDE DEF no, none
<1>2. [Picture(f, h, d, playing, asked, ranged, range, anchored, backlog, speed, closed) EXCEPT !.rangeFrame = no] = Picture(f, h, d, playing, asked, no, range, anchored, backlog, speed, closed)
  BY SMT DEF Picture
<1>3. [Picture(f, h, d, playing, asked, no, range, anchored, backlog, speed, closed) EXCEPT !.rangeTick = none] = Picture(f, h, d, playing, asked, no, none, anchored, backlog, speed, closed)
  BY SMT DEF Picture
<1>4. w2 = Picture(f, h, d, playing, asked, no, none, anchored, backlog, speed, closed)
  BY <1>1, <1>2, <1>3, Zenon
<1>5. RangeCancelled(v) = w2
  BY Zenon DEF RangeCancelled, no, none
<1> HIDE DEF w1, w2
<1> QED BY <1>4, <1>5, Zenon DEF Pictured, no, none

\* A picture after play.
LEMMA RpPicturePlaying ==
  ASSUME NEW v, NEW f, NEW h, NEW d, NEW playing, NEW asked, NEW ranged, NEW range, NEW anchored, NEW backlog, NEW speed,
         NEW closed,
         Pictured(v, f, h, d, playing, asked, ranged, range, anchored, backlog, speed, closed)
  PROVE  Pictured(Playing(v), f, h, d, TRUE, TRUE, ranged, range, FALSE, 0, speed, closed)
<1> DEFINE no == FALSE
           yes == TRUE
           zero == 0
           w1 == [v EXCEPT !.playing = yes]
           w2 == [w1 EXCEPT !.anchored = no]
           w3 == [w2 EXCEPT !.backlog = zero]
           w4 == [w3 EXCEPT !.animation = yes]
<1>1. v = Picture(f, h, d, playing, asked, ranged, range, anchored, backlog, speed, closed)
  BY DEF Pictured
<1> HIDE DEF no, yes, zero
<1>2. [Picture(f, h, d, playing, asked, ranged, range, anchored, backlog, speed, closed) EXCEPT !.playing = yes] = Picture(f, h, d, yes, asked, ranged, range, anchored, backlog, speed, closed)
  BY SMT DEF Picture
<1>3. [Picture(f, h, d, yes, asked, ranged, range, anchored, backlog, speed, closed) EXCEPT !.anchored = no] = Picture(f, h, d, yes, asked, ranged, range, no, backlog, speed, closed)
  BY SMT DEF Picture
<1>4. [Picture(f, h, d, yes, asked, ranged, range, no, backlog, speed, closed) EXCEPT !.backlog = zero] = Picture(f, h, d, yes, asked, ranged, range, no, zero, speed, closed)
  BY SMT DEF Picture
<1>5. [Picture(f, h, d, yes, asked, ranged, range, no, zero, speed, closed) EXCEPT !.animation = yes] = Picture(f, h, d, yes, yes, ranged, range, no, zero, speed, closed)
  BY SMT DEF Picture
<1>6. w4 = Picture(f, h, d, yes, yes, ranged, range, no, zero, speed, closed)
  BY <1>1, <1>2, <1>3, <1>4, <1>5, Zenon
<1>7. Playing(v) = w4
  BY Zenon DEF Playing, no, yes, zero
<1> HIDE DEF w1, w2, w3, w4
<1> QED BY <1>6, <1>7, Zenon DEF Pictured, no, yes, zero

\* A picture after moveToFrame and draw.
LEMMA RpPicturePlaced ==
  ASSUME NEW v, NEW f, NEW h, NEW d, NEW playing, NEW asked, NEW ranged, NEW range, NEW anchored, NEW backlog, NEW speed,
         NEW closed, NEW m,
         Pictured(v, f, h, d, playing, asked, ranged, range, anchored, backlog, speed, closed)
  PROVE  Pictured(Placed(v, m), m.cursor.frame, m.history, m.history, playing, asked, ranged, range, anchored, backlog, speed, closed)
<1> DEFINE e == m.cursor.frame
           g == m.history
           w1 == [v EXCEPT !.frame = e]
           w2 == [w1 EXCEPT !.history = g]
           w3 == [w2 EXCEPT !.drawn = g]
<1>1. v = Picture(f, h, d, playing, asked, ranged, range, anchored, backlog, speed, closed)
  BY DEF Pictured
<1> HIDE DEF e, g
<1>2. [Picture(f, h, d, playing, asked, ranged, range, anchored, backlog, speed, closed) EXCEPT !.frame = e] = Picture(e, h, d, playing, asked, ranged, range, anchored, backlog, speed, closed)
  BY SMT DEF Picture
<1>3. [Picture(e, h, d, playing, asked, ranged, range, anchored, backlog, speed, closed) EXCEPT !.history = g] = Picture(e, g, d, playing, asked, ranged, range, anchored, backlog, speed, closed)
  BY SMT DEF Picture
<1>4. [Picture(e, g, d, playing, asked, ranged, range, anchored, backlog, speed, closed) EXCEPT !.drawn = g] = Picture(e, g, g, playing, asked, ranged, range, anchored, backlog, speed, closed)
  BY SMT DEF Picture
<1>5. w3 = Picture(e, g, g, playing, asked, ranged, range, anchored, backlog, speed, closed)
  BY <1>1, <1>2, <1>3, <1>4, Zenon
<1>6. w2 = Picture(e, g, d, playing, asked, ranged, range, anchored, backlog, speed, closed)
  BY <1>1, <1>2, <1>3, Zenon
<1>7. w2.history = g
  BY <1>6 DEF Picture
<1>8. Placed(v, m) = Drawn(w2)
  BY Zenon DEF Placed, e, g
<1>9. Drawn(w2) = w3
  BY <1>7, Zenon DEF Drawn
<1> HIDE DEF w1, w2, w3
<1> QED BY <1>5, <1>8, <1>9, Zenon DEF Pictured, e, g

\* The fields of a picture.
LEMMA RpPictureFields ==
  ASSUME NEW f, NEW h, NEW d, NEW playing, NEW asked, NEW ranged, NEW range, NEW anchored, NEW backlog, NEW speed,
         NEW closed
  PROVE  LET v == Picture(f, h, d, playing, asked, ranged, range, anchored, backlog, speed, closed)
         IN /\ v.frame = f /\ v.history = h /\ v.drawn = d /\ v.playing = playing /\ v.animation = asked
            /\ v.rangeFrame = ranged /\ v.rangeTick = range /\ v.anchored = anchored /\ v.backlog = backlog
            /\ v.speed = speed /\ v.closed = closed
BY DEF Picture

\* A jump stops the play and drops the drag.
LEMMA RpJumpsTo ==
  ASSUME NEW q \in RpStages, Taken(q), NEW c, NEW v, Scrubs(q, c, v), NEW s, NEW t, OnRun(q, s, t),
         NEW m, m = Moved(Sources(q), c, s, t)
  PROVE  Scrubs(q, m.cursor, Placed(Stopped(RangeCancelled(v)), m))
<1>1. PICK s0, t0, a0, playing, ranged, range, anchored, backlog, speed, closed :
         ScrubsAt(q, c, v, s0, t0, a0, playing, ranged, range, anchored, backlog, speed, closed)
  BY Zenon DEF Scrubs
<1>2. Here(q, c)
  BY <1>1 DEF ScrubsAt, Here
<1>3. PICK a : Window(a, t) /\ m = Gone(q, s, a, t)
  BY <1>2, RpMoves
<1> DEFINE f == FrameHere(q, s, t)
           h == Frames(q, s, a, t)
<1>4. m.cursor = CursorAt(q, s, t) /\ m.history = h /\ m.cursor.frame = f
  BY <1>3 DEF Gone, CursorAt
<1>5. Placed(Stopped(RangeCancelled(v)), m) = Picture(f, h, h, FALSE, FALSE, FALSE, RpNone, FALSE, 0, speed, closed)
  <2> DEFINE f0 == FrameHere(q, s0, t0)
             h0 == Frames(q, s0, a0, t0)
  <2>1. Pictured(v, f0, h0, h0, playing, playing, ranged, range, anchored, backlog, speed, closed)
    BY <1>1, Zenon DEF ScrubsAt, Shown, Pictured
  <2> HIDE DEF f, h, f0, h0
  <2>2. Pictured(RangeCancelled(v), f0, h0, h0, playing, playing, FALSE, RpNone, anchored, backlog, speed, closed)
    BY <2>1, RpPictureCancelled
  <2>3. Pictured(Stopped(RangeCancelled(v)), f0, h0, h0, FALSE, FALSE, FALSE, RpNone, FALSE, 0, speed, closed)
    BY <2>2, RpPictureStopped
  <2>4. Pictured(Placed(Stopped(RangeCancelled(v)), m), m.cursor.frame, m.history, m.history, FALSE, FALSE, FALSE,
                 RpNone, FALSE, 0, speed, closed)
    BY <2>3, RpPicturePlaced
  <2> QED BY <1>4, <2>4, Zenon DEF Pictured
<1>6. Controls(q, s, t, FALSE, FALSE, RpNone, FALSE, 0, speed, closed)
  BY <1>1 DEF ScrubsAt, Controls
<1>7. ScrubsAt(q, m.cursor, Placed(Stopped(RangeCancelled(v)), m), s, t, a, FALSE, FALSE, RpNone, FALSE, 0, speed, closed)
  BY <1>3, <1>4, <1>5, <1>6, Zenon DEF ScrubsAt, Shown
<1> QED BY <1>7, Zenon DEF Scrubs

\* What the scrubber shows, as the actions look at it.
LEMMA RpScrubsOver ==
  ASSUME NEW q \in RpStages, Taken(q), NEW v,
         NEW c, NEW s, NEW t, NEW a, NEW playing, NEW ranged, NEW range, NEW anchored, NEW backlog, NEW speed,
         NEW closed, ScrubsAt(q, c, v, s, t, a, playing, ranged, range, anchored, backlog, speed, closed)
  PROVE  /\ v.frame.stage = s /\ v.frame.tick = t /\ Sources(q)[s].ticks = Len(Plays(q)[s])
         /\ s \in 1 .. Len(q) /\ t \in Nat /\ t <= Len(Plays(q)[s]) /\ Len(Plays(q)[s]) \in Nat \ {0}
         /\ v.playing = playing /\ v.animation = playing /\ v.rangeFrame = ranged /\ v.rangeTick = range
         /\ v.anchored = anchored /\ v.backlog = backlog /\ v.speed = speed /\ v.closed = closed
         /\ v.history = Frames(q, s, a, t)
         /\ Pictured(v, FrameHere(q, s, t), Frames(q, s, a, t), Frames(q, s, a, t), playing, playing, ranged, range,
                     anchored, backlog, speed, closed)
<1> DEFINE f == FrameHere(q, s, t)
           h == Frames(q, s, a, t)
<1>1. v = Picture(f, h, h, playing, playing, ranged, range, anchored, backlog, speed, closed)
  BY Zenon DEF ScrubsAt, Shown
<1>2. f.stage = s /\ f.tick = t
  BY DEF FrameHere
<1>3. s \in 1 .. Len(q) /\ t \in 0 .. Len(Plays(q)[s]) /\ Len(Plays(q)[s]) \in Nat \ {0}
  BY RpPlayable DEF ScrubsAt, OnRun
<1>4. Sources(q)[s].ticks = Len(Plays(q)[s])
  <2>1. Sources(q)[s] = SourceOf(q, s)
    BY <1>3, RpPlayable, RpSources
  <2> QED BY <2>1 DEF SourceOf
<1> HIDE DEF f, h
<1>5. /\ v.frame = f /\ v.history = h /\ v.playing = playing /\ v.animation = playing
      /\ v.rangeFrame = ranged /\ v.rangeTick = range /\ v.anchored = anchored /\ v.backlog = backlog
      /\ v.speed = speed /\ v.closed = closed
  BY <1>1 DEF Picture
<1>6. Pictured(v, f, h, h, playing, playing, ranged, range, anchored, backlog, speed, closed)
  BY <1>1 DEF Pictured
<1>7. t \in Nat /\ t <= Len(Plays(q)[s])
  BY <1>3
<1> QED BY <1>2, <1>3, <1>4, <1>5, <1>6, <1>7 DEF f, h

\* At the tick where it is, other controls.
LEMMA RpScrubsStill ==
  ASSUME NEW q, NEW c, NEW s, NEW t, NEW a, OnRun(q, s, t), Window(a, t), c = CursorAt(q, s, t), NEW w,
         NEW playing, NEW ranged, NEW range, NEW anchored, NEW backlog, NEW speed, NEW closed,
         Controls(q, s, t, playing, ranged, range, anchored, backlog, speed, closed),
         Pictured(w, FrameHere(q, s, t), Frames(q, s, a, t), Frames(q, s, a, t), playing, playing, ranged, range,
                  anchored, backlog, speed, closed)
  PROVE  Scrubs(q, c, w)
<1>1. ScrubsAt(q, c, w, s, t, a, playing, ranged, range, anchored, backlog, speed, closed)
  BY Zenon DEF ScrubsAt, Shown, Pictured
<1> QED BY <1>1, Zenon DEF Scrubs

\* The open playback: a proof of the run is shown.
Opened(q) == q \in RpStages /\ Taken(q) /\ rpSources = Sources(q) /\ Scrubs(q, rpCursor, rpView)
NowAt(q, s, t, a, playing, ranged, range, anchored, backlog, speed, closed) ==
  ScrubsAt(q, rpCursor, rpView, s, t, a, playing, ranged, range, anchored, backlog, speed, closed)

\* The stage shown is one of the run, and its ticks are those of the play.
LEMMA RpStageTicks ==
  ASSUME NEW q, Opened(q), NEW s, NEW t, NEW a, NEW playing, NEW ranged, NEW range, NEW anchored, NEW backlog,
         NEW speed, NEW closed, NowAt(q, s, t, a, playing, ranged, range, anchored, backlog, speed, closed)
  PROVE  /\ StageTicks = Len(Plays(q)[s]) /\ StageTicks \in Nat \ {0} /\ rpView.frame.stage = s /\ rpView.frame.tick = t
         /\ s \in 1 .. Len(q) /\ t \in Nat /\ t <= StageTicks
         /\ \A n \in Int : OnRun(q, s, Clamped(n))
<1>1. /\ rpView.frame.stage = s /\ rpView.frame.tick = t /\ Sources(q)[s].ticks = Len(Plays(q)[s])
      /\ s \in 1 .. Len(q) /\ t \in Nat /\ t <= Len(Plays(q)[s]) /\ Len(Plays(q)[s]) \in Nat \ {0}
  BY RpScrubsOver DEF Opened, NowAt
<1>2. StageTicks = Len(Plays(q)[s])
  BY <1>1 DEF StageTicks, Opened
<1>3. ASSUME NEW n \in Int PROVE OnRun(q, s, Clamped(n))
  BY <1>1, <1>2 DEF OnRun, Clamped
<1> QED BY <1>1, <1>2, <1>3

\* A seek, a stage chosen or a change of motion preference shows the run still.
LEMMA RpSeeks ==
  ASSUME NEW q, Opened(q), NEW tick \in Int, RpSeek(tick) \/ RpMotion \/ \E stage \in DOMAIN rpSources : RpSelectStage(stage)
  PROVE  Scrubs(q, rpCursor', rpView')
<1>1. PICK s, t, a, playing, ranged, range, anchored, backlog, speed, closed :
         NowAt(q, s, t, a, playing, ranged, range, anchored, backlog, speed, closed)
  BY Zenon DEF Opened, Scrubs, NowAt
<1>2. /\ rpView.frame.stage = s /\ rpView.frame.tick = t /\ StageTicks \in Nat \ {0} /\ t \in Nat /\ t <= StageTicks
      /\ OnRun(q, s, Clamped(tick)) /\ StageTicks = Len(Plays(q)[s]) /\ s \in 1 .. Len(q)
  BY <1>1, RpStageTicks
<1>3. ASSUME NEW stage, NEW n, OnRun(q, stage, n), Jump(RangeCancelled(rpView), stage, n)
      PROVE  Scrubs(q, rpCursor', rpView')
  <2>1. PICK m : /\ m = Moved(Sources(q), rpCursor, stage, n)
                 /\ rpCursor' = m.cursor /\ rpView' = Placed(Stopped(RangeCancelled(rpView)), m)
    BY <1>3, Zenon DEF Jump, Opened
  <2> QED BY <1>3, <2>1, RpJumpsTo DEF Opened
<1>4. CASE RpSeek(tick)
  BY <1>2, <1>3, <1>4 DEF RpSeek
<1>5. CASE RpMotion
  <2>1. OnRun(q, s, t)
    BY <1>2 DEF OnRun
  <2> QED BY <1>2, <1>3, <1>5, <2>1 DEF RpMotion
<1>6. CASE \E stage \in DOMAIN rpSources : RpSelectStage(stage)
  <2>1. PICK stage \in DOMAIN rpSources : Jump(RangeCancelled(rpView), stage, 0)
    BY <1>6, Zenon DEF RpSelectStage
  <2>2. stage \in 1 .. Len(q)
    BY RpSources, RpPlayable DEF Opened
  <2>3. OnRun(q, stage, 0)
    BY <2>2, RpPlayable DEF OnRun, Opened
  <2> QED BY <1>3, <2>1, <2>3
<1> QED BY <1>4, <1>5, <1>6

\* What the other controls change of what is shown.
LEMMA RpPictureOwing ==
  ASSUME NEW v, NEW f, NEW h, NEW d, NEW playing, NEW asked, NEW ranged, NEW range, NEW anchored, NEW backlog, NEW speed,
         NEW closed, NEW x,
         Pictured(v, f, h, d, playing, asked, ranged, range, anchored, backlog, speed, closed)
  PROVE  Pictured([v EXCEPT !.anchored = TRUE, !.backlog = x], f, h, d, playing, asked, ranged, range, TRUE, x, speed, closed)
<1> DEFINE yes == TRUE
           w1 == [v EXCEPT !.anchored = yes]
           w2 == [w1 EXCEPT !.backlog = x]
<1>1. v = Picture(f, h, d, playing, asked, ranged, range, anchored, backlog, speed, closed)
  BY DEF Pictured
<1> HIDE DEF yes
<1>2. [Picture(f, h, d, playing, asked, ranged, range, anchored, backlog, speed, closed) EXCEPT !.anchored = yes] = Picture(f, h, d, playing, asked, ranged, range, yes, backlog, speed, closed)
  BY SMT DEF Picture
<1>3. [Picture(f, h, d, playing, asked, ranged, range, yes, backlog, speed, closed) EXCEPT !.backlog = x] = Picture(f, h, d, playing, asked, ranged, range, yes, x, speed, closed)
  BY SMT DEF Picture
<1>4. w2 = Picture(f, h, d, playing, asked, ranged, range, yes, x, speed, closed)
  BY <1>1, <1>2, <1>3, Zenon
<1>5. [v EXCEPT !.anchored = TRUE, !.backlog = x] = w2
  BY Zenon DEF yes
<1> HIDE DEF w1, w2
<1> QED BY <1>4, <1>5, Zenon DEF Pictured, yes

\* A picture with a drag that waits.
LEMMA RpPictureDragged ==
  ASSUME NEW v, NEW f, NEW h, NEW d, NEW playing, NEW asked, NEW ranged, NEW range, NEW anchored, NEW backlog, NEW speed,
         NEW closed, NEW x,
         Pictured(v, f, h, d, playing, asked, ranged, range, anchored, backlog, speed, closed)
  PROVE  Pictured([v EXCEPT !.rangeTick = x, !.rangeFrame = TRUE], f, h, d, playing, asked, TRUE, x, anchored, backlog, speed, closed)
<1> DEFINE yes == TRUE
           w1 == [v EXCEPT !.rangeTick = x]
           w2 == [w1 EXCEPT !.rangeFrame = yes]
<1>1. v = Picture(f, h, d, playing, asked, ranged, range, anchored, backlog, speed, closed)
  BY DEF Pictured
<1> HIDE DEF yes
<1>2. [Picture(f, h, d, playing, asked, ranged, range, anchored, backlog, speed, closed) EXCEPT !.rangeTick = x] = Picture(f, h, d, playing, asked, ranged, x, anchored, backlog, speed, closed)
  BY SMT DEF Picture
<1>3. [Picture(f, h, d, playing, asked, ranged, x, anchored, backlog, speed, closed) EXCEPT !.rangeFrame = yes] = Picture(f, h, d, playing, asked, yes, x, anchored, backlog, speed, closed)
  BY SMT DEF Picture
<1>4. w2 = Picture(f, h, d, playing, asked, yes, x, anchored, backlog, speed, closed)
  BY <1>1, <1>2, <1>3, Zenon
<1>5. [v EXCEPT !.rangeTick = x, !.rangeFrame = TRUE] = w2
  BY Zenon DEF yes
<1> HIDE DEF w1, w2
<1> QED BY <1>4, <1>5, Zenon DEF Pictured, yes

\* A picture closed.
LEMMA RpPictureClosed ==
  ASSUME NEW v, NEW f, NEW h, NEW d, NEW playing, NEW asked, NEW ranged, NEW range, NEW anchored, NEW backlog, NEW speed,
         NEW closed,
         Pictured(v, f, h, d, playing, asked, ranged, range, anchored, backlog, speed, closed)
  PROVE  Pictured([v EXCEPT !.closed = TRUE], f, h, d, playing, asked, ranged, range, anchored, backlog, speed, TRUE)
<1> DEFINE yes == TRUE
           w1 == [v EXCEPT !.closed = yes]
<1>1. v = Picture(f, h, d, playing, asked, ranged, range, anchored, backlog, speed, closed)
  BY DEF Pictured
<1> HIDE DEF yes
<1>2. [Picture(f, h, d, playing, asked, ranged, range, anchored, backlog, speed, closed) EXCEPT !.closed = yes] = Picture(f, h, d, playing, asked, ranged, range, anchored, backlog, speed, yes)
  BY SMT DEF Picture
<1>3. w1 = Picture(f, h, d, playing, asked, ranged, range, anchored, backlog, speed, yes)
  BY <1>1, <1>2, Zenon
<1>4. [v EXCEPT !.closed = TRUE] = w1
  BY Zenon DEF yes
<1> HIDE DEF w1
<1> QED BY <1>3, <1>4, Zenon DEF Pictured, yes

\* A picture at another speed.
LEMMA RpPictureSpeed ==
  ASSUME NEW v, NEW f, NEW h, NEW d, NEW playing, NEW asked, NEW ranged, NEW range, NEW anchored, NEW backlog, NEW speed,
         NEW closed, NEW x,
         Pictured(v, f, h, d, playing, asked, ranged, range, anchored, backlog, speed, closed)
  PROVE  Pictured([v EXCEPT !.speed = x], f, h, d, playing, asked, ranged, range, anchored, backlog, x, closed)
<1> DEFINE w1 == [v EXCEPT !.speed = x]
<1>1. v = Picture(f, h, d, playing, asked, ranged, range, anchored, backlog, speed, closed)
  BY DEF Pictured
<1>2. [Picture(f, h, d, playing, asked, ranged, range, anchored, backlog, speed, closed) EXCEPT !.speed = x] = Picture(f, h, d, playing, asked, ranged, range, anchored, backlog, x, closed)
  BY SMT DEF Picture
<1>3. w1 = Picture(f, h, d, playing, asked, ranged, range, anchored, backlog, x, closed)
  BY <1>1, <1>2, Zenon
<1>4. [v EXCEPT !.speed = x] = w1
  BY Zenon
<1> HIDE DEF w1
<1> QED BY <1>3, <1>4, Zenon DEF Pictured

\* Everything else that leaves the cursor where it is.
LEMMA RpStandsStill ==
  ASSUME NEW q, Opened(q), NEW tick \in Nat,
         RpPause \/ (\E speed \in RpSpeeds : RpSpeed(speed)) \/ RpDrag(tick) \/ RpDestroy
  PROVE  Scrubs(q, rpCursor', rpView')
<1>1. PICK s, t, a, playing, ranged, range, anchored, backlog, speed, closed :
         NowAt(q, s, t, a, playing, ranged, range, anchored, backlog, speed, closed)
  BY Zenon DEF Opened, Scrubs, NowAt
<1> DEFINE f == FrameHere(q, s, t)
           h == Frames(q, s, a, t)
           At(w) == \E p2, r2, x2, n2, b2, s2, c2 :
                      /\ Controls(q, s, t, p2, r2, x2, n2, b2, s2, c2)
                      /\ Pictured(w, f, h, h, p2, p2, r2, x2, n2, b2, s2, c2)
<1>2. /\ Pictured(rpView, f, h, h, playing, playing, ranged, range, anchored, backlog, speed, closed)
      /\ rpView.frame.stage = s /\ rpView.closed = closed /\ rpView.playing = playing
  BY <1>1, RpScrubsOver DEF Opened, NowAt
<1>3. Controls(q, s, t, playing, ranged, range, anchored, backlog, speed, closed)
  BY <1>1 DEF NowAt, ScrubsAt
<1>4. OnRun(q, s, t) /\ Window(a, t) /\ rpCursor = CursorAt(q, s, t)
  BY <1>1 DEF NowAt, ScrubsAt
<1> HIDE DEF f, h
<1>5. Pictured(Stopped(rpView), f, h, h, FALSE, FALSE, ranged, range, FALSE, 0, speed, closed)
  BY <1>2, RpPictureStopped
<1>6. ASSUME rpCursor' = rpCursor, At(rpView') PROVE Scrubs(q, rpCursor', rpView')
  <2>1. PICK p2, r2, x2, n2, b2, s2, c2 : /\ Controls(q, s, t, p2, r2, x2, n2, b2, s2, c2)
                                          /\ Pictured(rpView', f, h, h, p2, p2, r2, x2, n2, b2, s2, c2)
    BY <1>6
  <2>2. Scrubs(q, rpCursor, rpView')
    BY <1>4, <2>1, RpScrubsStill DEF f, h
  <2> QED BY <1>6, <2>2
<1>7. CASE RpPause
  <2>1. Controls(q, s, t, FALSE, ranged, range, FALSE, 0, speed, closed)
    BY <1>3 DEF Controls
  <2>2. rpView' = Stopped(rpView) /\ rpCursor' = rpCursor
    BY <1>7, Zenon DEF RpPause
  <2>3. At(rpView')
    BY <1>5, <2>1, <2>2, Zenon
  <2> QED BY <1>6, <2>2, <2>3
<1>8. CASE \E x \in RpSpeeds : RpSpeed(x)
  <2>1. PICK x \in RpSpeeds : rpView' = [rpView EXCEPT !.speed = x] /\ rpCursor' = rpCursor
    BY <1>8, Zenon DEF RpSpeed
  <2>2. Controls(q, s, t, playing, ranged, range, anchored, backlog, x, closed)
    BY <1>3, RpAssumption DEF Controls, RpAssumption
  <2>3. Pictured([rpView EXCEPT !.speed = x], f, h, h, playing, playing, ranged, range, anchored, backlog, x, closed)
    BY <1>2, RpPictureSpeed
  <2>4. At(rpView')
    BY <2>1, <2>2, <2>3, Zenon
  <2> QED BY <1>6, <2>1, <2>4
<1>9. CASE RpDrag(tick)
  <2> DEFINE x == [tick |-> tick, stage |-> s]
  <2>1. /\ rpView' = [Stopped(rpView) EXCEPT !.rangeTick = x, !.rangeFrame = TRUE] /\ rpCursor' = rpCursor
        /\ ~closed
    BY <1>2, <1>9, Zenon DEF RpDrag
  <2>2. x \in [tick : Nat, stage : {s}] /\ x # RpNone
    <3>1. x \in [tick : Nat, stage : {s}]
      OBVIOUS
    <3>2. s \in Nat
      BY <1>1, RpStageTicks
    <3>3. x \in [tick : Nat, stage : Nat]
      BY <3>2
    <3> HIDE DEF x
    <3> QED BY <3>1, <3>3, RpAssumption, Zenon DEF RpAssumption
  <2> HIDE DEF x
  <2>3. Controls(q, s, t, FALSE, TRUE, x, FALSE, 0, speed, closed)
    BY <1>3, <2>1, <2>2 DEF Controls
  <2> DEFINE w == [Stopped(rpView) EXCEPT !.rangeTick = x, !.rangeFrame = TRUE]
  <2>4. Pictured(w, f, h, h, FALSE, FALSE, TRUE, x, FALSE, 0, speed, closed)
    BY <1>5, RpPictureDragged
  <2> HIDE DEF w
  <2>5. At(w)
    BY <2>3, <2>4, Zenon
  <2>6. At(rpView')
    BY <2>1, <2>5, Zenon DEF w
  <2> QED BY <1>6, <2>1, <2>6
<1>10. CASE RpDestroy
  <2> DEFINE u == RangeCancelled(Stopped(rpView))
             w == [u EXCEPT !.closed = TRUE]
  <2>1. rpView' = w /\ rpCursor' = rpCursor
    BY <1>10, Zenon DEF RpDestroy
  <2>2. Pictured(u, f, h, h, FALSE, FALSE, FALSE, RpNone, FALSE, 0, speed, closed)
    BY <1>5, RpPictureCancelled
  <2> HIDE DEF u
  <2>3. Pictured(w, f, h, h, FALSE, FALSE, FALSE, RpNone, FALSE, 0, speed, TRUE)
    BY <2>2, RpPictureClosed
  <2> HIDE DEF w
  <2>4. Controls(q, s, t, FALSE, FALSE, RpNone, FALSE, 0, speed, TRUE)
    BY <1>3 DEF Controls
  <2>5. At(w)
    BY <2>3, <2>4, Zenon
  <2>6. At(rpView')
    BY <2>1, <2>5, Zenon
  <2> QED BY <1>6, <2>1, <2>6
<1> QED BY <1>7, <1>8, <1>9, <1>10

\* The drag acts, or there is none.
LEMMA RpFlushes ==
  ASSUME NEW q, Opened(q), Flush
  PROVE  Scrubs(q, rpCursor', rpView')
<1>1. PICK s, t, a, playing, ranged, range, anchored, backlog, speed, closed :
         NowAt(q, s, t, a, playing, ranged, range, anchored, backlog, speed, closed)
  BY Zenon DEF Opened, Scrubs, NowAt
<1> DEFINE f == FrameHere(q, s, t)
           h == Frames(q, s, a, t)
<1>2. /\ Pictured(rpView, f, h, h, playing, playing, ranged, range, anchored, backlog, speed, closed)
      /\ rpView.frame.stage = s /\ rpView.closed = closed /\ rpView.rangeTick = range
  BY <1>1, RpScrubsOver DEF Opened, NowAt
<1>3. Controls(q, s, t, playing, ranged, range, anchored, backlog, speed, closed)
  BY <1>1 DEF NowAt, ScrubsAt
<1>4. OnRun(q, s, t) /\ Window(a, t) /\ rpCursor = CursorAt(q, s, t)
  BY <1>1 DEF NowAt, ScrubsAt
<1> HIDE DEF f, h
<1>5. CASE rpView.rangeTick = RpNone \/ rpView.closed
  <2>1. rpView' = RangeCancelled(rpView) /\ rpCursor' = rpCursor
    BY <1>5, Zenon DEF Flush
  <2>2. Pictured(RangeCancelled(rpView), f, h, h, playing, playing, FALSE, RpNone, anchored, backlog, speed, closed)
    BY <1>2, RpPictureCancelled
  <2>3. Controls(q, s, t, playing, FALSE, RpNone, anchored, backlog, speed, closed)
    BY <1>3 DEF Controls
  <2>4. Scrubs(q, rpCursor, RangeCancelled(rpView))
    BY <1>4, <2>2, <2>3, RpScrubsStill DEF f, h
  <2> QED BY <2>1, <2>4
<1>6. CASE ~ (rpView.rangeTick = RpNone \/ rpView.closed)
  <2> DEFINE n == Clamped(rpView.rangeTick.tick)
  <2>1. Jump(RangeCancelled(rpView), s, n)
    BY <1>2, <1>6, Zenon DEF Flush
  <2>2. rpView.rangeTick.tick \in Int
    BY <1>2, <1>3, <1>6 DEF Controls
  <2>3. OnRun(q, s, n)
    BY <1>1, <2>2, RpStageTicks
  <2> HIDE DEF n
  <2>4. PICK m : /\ m = Moved(Sources(q), rpCursor, s, n)
                 /\ rpCursor' = m.cursor /\ rpView' = Placed(Stopped(RangeCancelled(rpView)), m)
    BY <2>1, Zenon DEF Jump, Opened
  <2> QED BY <2>3, <2>4, RpJumpsTo DEF Opened
<1> QED BY <1>5, <1>6

\* Play goes on from where it is, or from the start.
LEMMA RpPlayGoesOn ==
  ASSUME NEW q, Opened(q), RpPlay
  PROVE  Scrubs(q, rpCursor', rpView')
<1>1. PICK s, t, a, playing, ranged, range, anchored, backlog, speed, closed :
         NowAt(q, s, t, a, playing, ranged, range, anchored, backlog, speed, closed)
  BY Zenon DEF Opened, Scrubs, NowAt
<1> DEFINE f == FrameHere(q, s, t)
           h == Frames(q, s, a, t)
           v == RangeCancelled(rpView)
<1>2. /\ Pictured(rpView, f, h, h, playing, playing, ranged, range, anchored, backlog, speed, closed)
      /\ rpView.frame.stage = s /\ rpView.closed = closed
  BY <1>1, RpScrubsOver DEF Opened, NowAt
<1>3. /\ rpView.frame.tick = t /\ StageTicks = Len(Plays(q)[s]) /\ StageTicks \in Nat \ {0} /\ t \in Nat
      /\ s \in 1 .. Len(q)
  BY <1>1, RpStageTicks
<1>4. Controls(q, s, t, playing, ranged, range, anchored, backlog, speed, closed)
  BY <1>1 DEF NowAt, ScrubsAt
<1>5. OnRun(q, s, t) /\ Window(a, t) /\ rpCursor = CursorAt(q, s, t)
  BY <1>1 DEF NowAt, ScrubsAt
<1>6. ~ closed
  BY <1>2 DEF RpPlay
<1>7. ASSUME NEW n \in Nat, n < Len(Plays(q)[s])
      PROVE  Controls(q, s, n, TRUE, FALSE, RpNone, FALSE, 0, speed, closed)
  BY <1>4, <1>6, <1>7 DEF Controls
<1> HIDE DEF f, h, v
<1>8. Pictured(v, f, h, h, playing, playing, FALSE, RpNone, anchored, backlog, speed, closed)
  BY <1>2, RpPictureCancelled DEF v
<1>9. CASE /\ t = Len(Plays(q)[s])
           /\ \E m \in {Moved(rpSources, rpCursor, s, 0)} : rpCursor' = m.cursor /\ rpView' = Playing(Placed(v, m))
  <2>1. PICK m : m = Moved(Sources(q), rpCursor, s, 0) /\ rpCursor' = m.cursor /\ rpView' = Playing(Placed(v, m))
    BY <1>9, Zenon DEF Opened
  <2>2. OnRun(q, s, 0)
    BY <1>3 DEF OnRun
  <2>3. Here(q, rpCursor)
    BY <1>5 DEF Here
  <2>4. PICK b : Window(b, 0) /\ m = Gone(q, s, b, 0)
    BY <2>1, <2>2, <2>3, RpMoves DEF Opened
  <2> DEFINE e == FrameHere(q, s, 0)
             g == Frames(q, s, b, 0)
  <2>5. m.cursor = CursorAt(q, s, 0) /\ m.history = g /\ m.cursor.frame = e
    BY <2>4 DEF Gone, CursorAt
  <2> HIDE DEF e, g
  <2>6. Pictured(Placed(v, m), m.cursor.frame, m.history, m.history, playing, playing, FALSE, RpNone, anchored, backlog,
                 speed, closed)
    BY <1>8, RpPicturePlaced
  <2>7. Pictured(Placed(v, m), e, g, g, playing, playing, FALSE, RpNone, anchored, backlog, speed, closed)
    BY <2>5, <2>6
  <2>8. Pictured(Playing(Placed(v, m)), e, g, g, TRUE, TRUE, FALSE, RpNone, FALSE, 0, speed, closed)
    BY <2>7, RpPicturePlaying
  <2>9. Controls(q, s, 0, TRUE, FALSE, RpNone, FALSE, 0, speed, closed)
    <3>1. 0 \in Nat /\ 0 < Len(Plays(q)[s])
      BY <1>3
    <3> QED BY <1>7, <3>1
  <2>10. Scrubs(q, m.cursor, Playing(Placed(v, m)))
    BY <2>2, <2>4, <2>5, <2>8, <2>9, RpScrubsStill DEF e, g
  <2> QED BY <2>1, <2>10
<1>10. CASE t < Len(Plays(q)[s]) /\ rpView' = Playing(v) /\ rpCursor' = rpCursor
  <2>1. Pictured(Playing(v), f, h, h, TRUE, TRUE, FALSE, RpNone, FALSE, 0, speed, closed)
    BY <1>8, RpPicturePlaying
  <2>2. Controls(q, s, t, TRUE, FALSE, RpNone, FALSE, 0, speed, closed)
    BY <1>3, <1>7, <1>10
  <2>3. Scrubs(q, rpCursor, Playing(v))
    BY <1>5, <2>1, <2>2, RpScrubsStill DEF f, h
  <2> QED BY <1>10, <2>3
<1>11. \/ /\ rpView.frame.tick = StageTicks
          /\ \E m \in {Moved(rpSources, rpCursor, rpView.frame.stage, 0)} :
               rpCursor' = m.cursor /\ rpView' = Playing(Placed(v, m))
       \/ rpView.frame.tick < StageTicks /\ rpView' = Playing(v) /\ rpCursor' = rpCursor
  BY Zenon DEF RpPlay, v
<1>12. CASE /\ rpView.frame.tick = StageTicks
            /\ \E m \in {Moved(rpSources, rpCursor, rpView.frame.stage, 0)} :
                 rpCursor' = m.cursor /\ rpView' = Playing(Placed(v, m))
  <2>1. t = Len(Plays(q)[s])
    BY <1>3, <1>12
  <2>2. \E m \in {Moved(rpSources, rpCursor, s, 0)} : rpCursor' = m.cursor /\ rpView' = Playing(Placed(v, m))
    BY <1>2, <1>12
  <2> QED BY <1>9, <2>1, <2>2
<1>13. CASE rpView.frame.tick < StageTicks /\ rpView' = Playing(v) /\ rpCursor' = rpCursor
  BY <1>3, <1>10, <1>13
<1> QED BY <1>11, <1>12, <1>13, Zenon

\* An animation frame plays what is due and stops at the end of the stage.
LEMMA RpAnimates ==
  ASSUME NEW q, Opened(q), NEW elapsed \in Nat, RpAnimate(elapsed)
  PROVE  Scrubs(q, rpCursor', rpView')
<1>1. PICK s, t, a, playing, ranged, range, anchored, backlog, speed, closed :
         NowAt(q, s, t, a, playing, ranged, range, anchored, backlog, speed, closed)
  BY Zenon DEF Opened, Scrubs, NowAt
<1> DEFINE f == FrameHere(q, s, t)
           h == Frames(q, s, a, t)
           owed == Owed(elapsed)
           due == Smaller(RpMaxSteps, owed \div 2)
           left == StageTicks - rpView.frame.tick
           n == Smaller(due, left)
           at == [cursor |-> rpCursor, history |-> rpView.history]
           x == owed - 2 * due
           v == [rpView EXCEPT !.anchored = TRUE, !.backlog = x]
<1>2. /\ Pictured(rpView, f, h, h, playing, playing, ranged, range, anchored, backlog, speed, closed)
      /\ rpView.frame.stage = s /\ rpView.closed = closed /\ rpView.playing = playing /\ rpView.animation = playing
      /\ rpView.backlog = backlog /\ rpView.anchored = anchored /\ rpView.speed = speed /\ rpView.history = h
  BY <1>1, RpScrubsOver DEF Opened, NowAt
<1>3. /\ rpView.frame.tick = t /\ StageTicks = Len(Plays(q)[s]) /\ StageTicks \in Nat \ {0} /\ t \in Nat
      /\ s \in 1 .. Len(q) /\ t <= StageTicks
  BY <1>1, RpStageTicks
<1>4. Controls(q, s, t, playing, ranged, range, anchored, backlog, speed, closed)
  BY <1>1 DEF NowAt, ScrubsAt
<1>5. OnRun(q, s, t) /\ Window(a, t) /\ rpCursor = CursorAt(q, s, t)
  BY <1>1 DEF NowAt, ScrubsAt
<1>6. playing /\ ~ closed /\ t < StageTicks
  BY <1>2, <1>3, <1>4 DEF RpAnimate, Controls
<1>7. owed \in Nat
  <2>1. elapsed * speed \in Nat /\ backlog \in Nat
    BY <1>4 DEF Controls
  <2> DEFINE y == elapsed * speed
  <2> HIDE DEF y
  <2>2. owed = backlog + (IF anchored THEN y ELSE 0)
    BY <1>2 DEF Owed, y
  <2>3. y \in Nat
    BY <2>1 DEF y
  <2> HIDE DEF owed
  <2> QED BY <2>1, <2>2, <2>3
<1>8. /\ due \in Nat /\ x \in Nat /\ left \in Nat /\ left = StageTicks - t /\ n \in Nat /\ n <= left /\ left # 0
      /\ ~ (due > 0 /\ left <= due) => n < left
  <2> HIDE DEF owed
  <2>1. RpMaxSteps \in Nat
    BY RpAssumption DEF RpAssumption
  <2>2. owed \div 2 \in Nat /\ 2 * (owed \div 2) <= owed
    BY <1>7
  <2>3. due \in Nat /\ due <= owed \div 2
    BY <2>1, <2>2 DEF Smaller
  <2>4. left \in Nat /\ left = StageTicks - t /\ left # 0
    BY <1>3, <1>6
  <2> DEFINE r == due
  <2>5. r \in Nat /\ 2 * r <= owed
    BY <1>7, <2>2, <2>3
  <2> HIDE DEF left, due
  <2>6. n \in Nat /\ n <= left /\ (~ (due > 0 /\ left <= due) => n < left)
    BY <2>3, <2>4 DEF Smaller
  <2> QED BY <1>7, <2>3, <2>4, <2>5, <2>6 DEF r
<1>9. at = Gone(q, s, a, t)
  BY <1>2, <1>5 DEF Gone
<1>10. OnRun(q, s, t + n)
  <2> HIDE DEF n, left
  <2> QED BY <1>3, <1>8 DEF OnRun
<1>11. PICK b : Window(b, t + n) /\ Advanced(Sources(q), Gone(q, s, a, t), n) = Gone(q, s, b, t + n)
  <2> HIDE DEF n
  <2> QED BY <1>5, <1>8, <1>10, RpAdvances DEF Opened
<1>12. PICK m : /\ m = Advanced(rpSources, at, n) /\ rpCursor' = m.cursor
                /\ rpView' = IF due > 0 /\ left <= due THEN Stopped(Placed(v, m)) ELSE Placed(v, m)
  <2>1. \E e \in {due}, l \in {left} : \E m \in {Advanced(rpSources, at, Smaller(e, l))} :
          \E w \in {Placed([rpView EXCEPT !.anchored = TRUE, !.backlog = owed - 2 * e], m)} :
            rpCursor' = m.cursor /\ rpView' = IF e > 0 /\ l <= e THEN Stopped(w) ELSE w
    BY <1>2, <1>6 DEF RpAnimate
  <2> HIDE DEF due, left, owed, at
  <2> QED BY <2>1, Zenon
<1> HIDE DEF f, h, owed, due, left, n, at, x, v
<1> DEFINE u == t + n
           e == FrameHere(q, s, u)
           g == Frames(q, s, b, u)
<1>13. m.cursor = CursorAt(q, s, u) /\ m.history = g /\ m.cursor.frame = e
  BY <1>9, <1>11, <1>12 DEF Gone, CursorAt, Opened
<1>14. u \in Nat /\ (u < Len(Plays(q)[s]) \/ (due > 0 /\ left <= due)) /\ OnRun(q, s, u) /\ Window(b, u)
  BY <1>3, <1>8, <1>10, <1>11
<1> HIDE DEF u, e, g
<1>15. Pictured(Placed(v, m), e, g, g, playing, playing, ranged, range, TRUE, x, speed, closed)
  <2>1. Pictured(v, f, h, h, playing, playing, ranged, range, TRUE, x, speed, closed)
    BY <1>2, RpPictureOwing DEF v
  <2>2. Pictured(Placed(v, m), m.cursor.frame, m.history, m.history, playing, playing, ranged, range, TRUE, x, speed, closed)
    BY <2>1, RpPicturePlaced
  <2> QED BY <1>13, <2>2
<1>16. CASE due > 0 /\ left <= due
  <2>1. Pictured(Stopped(Placed(v, m)), e, g, g, FALSE, FALSE, ranged, range, FALSE, 0, speed, closed)
    BY <1>15, RpPictureStopped
  <2>2. Controls(q, s, u, FALSE, ranged, range, FALSE, 0, speed, closed)
    BY <1>4 DEF Controls
  <2>3. Scrubs(q, m.cursor, Stopped(Placed(v, m)))
    BY <1>13, <1>14, <2>1, <2>2, RpScrubsStill DEF e, g
  <2> QED BY <1>12, <1>16, <2>3
<1>17. CASE ~ (due > 0 /\ left <= due)
  <2>1. Controls(q, s, u, playing, ranged, range, TRUE, x, speed, closed)
    BY <1>4, <1>6, <1>8, <1>14, <1>17 DEF Controls
  <2>2. Scrubs(q, m.cursor, Placed(v, m))
    BY <1>13, <1>14, <1>15, <2>1, RpScrubsStill DEF e, g
  <2> QED BY <1>12, <1>17, <2>2
<1> QED BY <1>16, <1>17

-----------------------------------------------------------------------------
(* What is shown is the record                                             *)

\* The frame of a tick of the run is true of the record.
LEMMA RpTrueFrame ==
  ASSUME NEW q, Opened(q), Plays(rpKept.proof) = Plays(q), NEW s, NEW x, OnRun(q, s, x)
  PROVE  TrueFrame(FrameHere(q, s, x)) /\ FrameHere(q, s, x).stage = s /\ FrameHere(q, s, x).tick = x
<1> DEFINE f == FrameHere(q, s, x)
           before == SubSeq(Plays(q), 1, s - 1)
<1>1. /\ s \in 1 .. Len(q) /\ Len(q) \in Nat /\ x \in Nat /\ x <= Len(Plays(q)[s]) /\ q \in RpStages /\ Taken(q)
      /\ rpSources = Sources(q)
  BY RpPlayable DEF OnRun, Opened
<1>2. /\ f.stage = s /\ f.tick = x /\ f.ordinal = Start(q, s) + (s - 1) + x /\ f.runTick = Start(q, s) + x
      /\ f.applied = (IF x = 0 THEN RpNone ELSE Plays(q)[s][x]) /\ f.lives = Before(q, s)
      /\ f.fed = SubSeq(Plays(q)[s], 1, x)
  BY DEF FrameHere, FedTo
<1>3. Len(before) = s - 1 /\ Sized(before) = Start(q, s)
  <2>1. Plays(q) \in Seq(RpFed) /\ Len(Plays(q)) = Len(q)
    BY <1>1, RpPlays DEF RpStages
  <2> DEFINE r == Plays(q)
  <2> HIDE DEF r
  <2>2. \A k \in 1 .. s - 1 : r[k] \in RpFed
    BY <1>1, <2>1, ElementOfSeq DEF r
  <2>3. 1 \in Int /\ s - 1 \in Int /\ r \in Seq(RpFed) /\ s - 1 >= 0
    BY <1>1, <2>1 DEF r
  <2>4. Len(SubSeq(r, 1, s - 1)) = s - 1
    BY <1>1, <2>1, <2>2, <2>3, SubSeqProperties DEF r
  <2>5. Sized(before) = Start(q, s)
    BY DEF Start
  <2> QED BY <2>4, <2>5 DEF r
<1>4. PositionAtFrame(rpSources, Ordinal(q, s, x)) = [stage |-> s, tick |-> x]
  BY <1>1, RpPosition
<1>5. Before(q, s) = IF s = 1 THEN PfLives ELSE PfOutcome(s - 1, rpSources[s - 1].lives, Plays(q)[s - 1]).lives
  <2>1. CASE s = 1
    BY <1>1, <2>1, RpBeforeNext
  <2>2. CASE s # 1
    <3> DEFINE i == s - 1
    <3>1. i \in 1 .. Len(q) /\ i + 1 = s
      BY <1>1, <2>2
    <3> HIDE DEF i
    <3>2. Before(q, i + 1) = End(q, i).lives
      BY <1>1, <3>1, RpBeforeNext
    <3>3. Sources(q)[i] = SourceOf(q, i)
      BY <1>1, <3>1, RpPlayable, RpSources
    <3>4. SourceOf(q, i).lives = Before(q, i)
      BY DEF SourceOf
    <3>5. rpSources[i].lives = Before(q, i)
      BY <1>1, <3>3, <3>4
    <3>6. Before(q, s) = PfOutcome(i, rpSources[i].lives, Plays(q)[i]).lives
      BY <3>1, <3>2, <3>5 DEF End
    <3> QED BY <2>2, <3>6 DEF i
  <2> QED BY <2>1, <2>2
<1>6. f.ordinal = Ordinal(q, s, x)
  BY <1>2 DEF Ordinal
<1> HIDE DEF f
<1> DEFINE P == Plays(q)
<1>7. /\ f.fed = SubSeq(P[f.stage], 1, f.tick)
      /\ f.lives = IF f.stage = 1 THEN PfLives ELSE PfOutcome(f.stage - 1, rpSources[f.stage - 1].lives, P[f.stage - 1]).lives
      /\ f.applied = IF f.tick = 0 THEN RpNone ELSE P[f.stage][f.tick]
      /\ PositionAtFrame(rpSources, f.ordinal) = [stage |-> f.stage, tick |-> f.tick]
  BY <1>2, <1>4, <1>5, <1>6
<1>8. /\ f.runTick = Sized(SubSeq(P, 1, f.stage - 1)) + f.tick
      /\ f.ordinal = Sized(SubSeq(P, 1, f.stage - 1)) + Len(SubSeq(P, 1, f.stage - 1)) + f.tick
  BY <1>2, <1>3
<1> HIDE DEF P
<1>9. TrueFrame(f)
  BY <1>7, <1>8 DEF TrueFrame, P
<1> QED BY <1>2, <1>9 DEF f

\* Its history.
LEMMA RpTrueHistory ==
  ASSUME NEW q, Opened(q), Plays(rpKept.proof) = Plays(q), NEW s, NEW t, OnRun(q, s, t), NEW a, Window(a, t),
         NEW h, h = Frames(q, s, a, t)
  PROVE  LET ticks == {h[k].tick : k \in DOMAIN h}
         IN /\ Last(h) = FrameHere(q, s, t)
            /\ \A k \in DOMAIN h : TrueFrame(h[k]) /\ h[k].stage = s
            /\ ticks \ {0} = {x \in 1 .. t : x > t - RpHistory}
            /\ Cardinality(ticks) = Len(h)
<1> DEFINE ticks == {h[k].tick : k \in DOMAIN h}
           n == t - a + 1
<1>1. /\ t \in Nat /\ t <= Len(Plays(q)[s]) /\ Len(Plays(q)[s]) \in Nat /\ RpHistory \in Nat \ {0} /\ a \in 0 .. t
      /\ s \in 1 .. Len(q)
  <2>1. Len(Plays(q)[s]) \in Nat /\ t \in 0 .. Len(Plays(q)[s]) /\ s \in 1 .. Len(q)
    BY RpPlayable DEF OnRun, Opened
  <2> QED BY <2>1, RpLimits DEF Window
<1>2. n \in Nat \ {0} /\ a \in Nat /\ t \in Int /\ a <= t + 1 /\ a + n - 1 = t
  BY <1>1
<1>3. Len(h) = n /\ DOMAIN h = 1 .. n /\ \A k \in 1 .. n : h[k] = FrameHere(q, s, a + k - 1)
  <2>1. /\ Frames(q, s, a, t) \in Seq(FramesOf(q, s)) /\ Len(Frames(q, s, a, t)) = t - a + 1
        /\ \A k \in 1 .. t - a + 1 : Frames(q, s, a, t)[k] = FrameHere(q, s, a + k - 1)
    BY <1>2, RpFrames
  <2>2. DOMAIN Frames(q, s, a, t) = 1 .. n
    BY DEF Frames
  <2> QED BY <2>1, <2>2
<1> HIDE DEF n
<1>4. ASSUME NEW k \in 1 .. n
      PROVE  TrueFrame(h[k]) /\ h[k].stage = s /\ h[k].tick = a + k - 1
  <2> DEFINE x == a + k - 1
  <2>1. OnRun(q, s, x)
    <3>1. x \in 0 .. Len(Plays(q)[s])
      BY <1>1, <1>2
    <3> QED BY <1>1, <3>1 DEF OnRun
  <2>2. h[k] = FrameHere(q, s, x)
    BY <1>3
  <2> HIDE DEF x
  <2>3. TrueFrame(h[k]) /\ h[k].stage = s /\ h[k].tick = x
    BY <2>1, <2>2, RpTrueFrame
  <2> QED BY <2>3 DEF x
<1>5. ticks = a .. t
  <2>1. ASSUME NEW x \in a .. t PROVE x \in ticks
    <3> DEFINE k == x - a + 1
    <3>1. k \in 1 .. n /\ a + k - 1 = x
      BY <1>1, <1>2
    <3> HIDE DEF k
    <3>2. h[k].tick = x
      BY <1>4, <3>1
    <3> QED BY <1>3, <3>1, <3>2
  <2>2. ASSUME NEW x \in ticks PROVE x \in a .. t
    <3>1. PICK k \in 1 .. n : x = h[k].tick
      BY <1>3
    <3>2. x = a + k - 1
      BY <1>4, <3>1
    <3> QED BY <1>1, <1>2, <3>1, <3>2
  <2> QED BY <2>1, <2>2
<1> HIDE DEF ticks
<1>6. ticks \ {0} = {x \in 1 .. t : x > t - RpHistory}
  BY <1>1, <1>5 DEF Window, LowTick
<1>7. Cardinality(ticks) = Len(h)
  <2>1. Cardinality(a .. t) = IF a > t THEN 0 ELSE t - a + 1
    BY <1>1, FS_Interval
  <2> QED BY <1>1, <1>3, <1>5, <2>1 DEF n
<1>8. Last(h) = FrameHere(q, s, t)
  <2>1. n \in 1 .. n
    BY <1>2
  <2>2. h[n] = FrameHere(q, s, a + n - 1)
    BY <1>3, <2>1
  <2> QED BY <1>2, <1>3, <2>2 DEF Last
<1> QED BY <1>3, <1>4, <1>6, <1>7, <1>8 DEF ticks

\* All of it.
LEMMA RpTrueView ==
  ASSUME NEW q, Opened(q), Plays(rpKept.proof) = Plays(q)
  PROVE  RpShowsTheRecord
<1>1. PICK s, t, a, playing, ranged, range, anchored, backlog, speed, closed :
         NowAt(q, s, t, a, playing, ranged, range, anchored, backlog, speed, closed)
  BY Zenon DEF Opened, Scrubs, NowAt
<1> DEFINE f == FrameHere(q, s, t)
           h == Frames(q, s, a, t)
           v == rpView
<1>2. /\ v = Picture(f, h, h, playing, playing, ranged, range, anchored, backlog, speed, closed)
      /\ OnRun(q, s, t) /\ Window(a, t) /\ rpCursor = CursorAt(q, s, t)
      /\ Controls(q, s, t, playing, ranged, range, anchored, backlog, speed, closed)
  BY <1>1, Zenon DEF NowAt, ScrubsAt, Shown
<1>3. /\ rpCursor.frame = f /\ rpCursor.stage = s /\ rpCursor.tick = t /\ rpCursor.engine.fed = FedTo(q, s, t)
      /\ f.fed = FedTo(q, s, t) /\ f.stage = s /\ f.tick = t
  BY <1>2 DEF CursorAt, EngineAt, FrameHere
<1>4. LET ticks == {h[k].tick : k \in DOMAIN h}
      IN /\ Last(h) = f
         /\ \A k \in DOMAIN h : TrueFrame(h[k]) /\ h[k].stage = s
         /\ ticks \ {0} = {x \in 1 .. t : x > t - RpHistory}
         /\ Cardinality(ticks) = Len(h)
  BY <1>2, RpTrueHistory
<1>5. StageTicks = Len(Plays(q)[s])
  BY <1>1, RpStageTicks
<1> HIDE DEF f, h
<1>6. /\ v.frame = f /\ v.history = h /\ v.drawn = h /\ v.playing = playing /\ v.animation = playing
      /\ v.rangeFrame = ranged /\ v.rangeTick = range /\ v.closed = closed
  BY <1>2 DEF Picture
<1>7. /\ v.playing <=> v.animation
      /\ v.playing => t < StageTicks /\ ~ v.closed
      /\ v.rangeFrame <=> v.rangeTick # RpNone
      /\ v.rangeTick # RpNone => v.rangeTick.stage = s /\ ~ v.closed
  BY <1>2, <1>5, <1>6 DEF Controls
<1> HIDE DEF v
<1>8. RpShowsTheRecord
  BY <1>3, <1>4, <1>6, <1>7 DEF RpShowsTheRecord, v
<1> QED BY <1>8

-----------------------------------------------------------------------------
(* From the play to whoever watches it                                     *)

\* What is kept is the envelope of a proof of runs; what is open is a proof of
\* the same run, and it is shown.
RpKeptInv ==
  rp.phase \in {"kept", "open"} =>
    rpKept = Envelop(rpKept.proof) /\ rpKept.proof \in RpStages /\ HasRuns(rpKept.proof)
Watched(q) == Opened(q) /\ Plays(rpKept.proof) = Plays(q)
RpOpenInv == rp.phase = "open" => \E q : Watched(q)
RpInv == RpPlayInv /\ RpKeptInv /\ RpOpenInv

\* There is a slowest speed.
LEMMA RpSlowest ==
  Min(RpSpeeds) \in Nat
<1>1. RpSpeeds \subseteq Nat /\ RpSpeeds # {}
  BY RpAssumption DEF RpAssumption
<1>2. IsWellFoundedOn(NatOrder, Nat)
  <2>1. IsWellFoundedOn(OpToRel(<, Nat), Nat)
    BY NatLessThanWellFounded
  <2> QED BY <2>1 DEF OpToRel, NatOrder
<1>3. PICK x \in RpSpeeds : \A y \in RpSpeeds : ~ (<<y, x>> \in NatOrder)
  BY <1>1, <1>2, WFMin
<1>4. ASSUME NEW y \in RpSpeeds PROVE x <= y
  <2>1. x \in Nat /\ y \in Nat
    BY <1>1
  <2>2. y < x => <<y, x>> \in NatOrder
    BY <2>1 DEF NatOrder
  <2> QED BY <1>3, <2>1, <2>2
<1>5. Min(RpSpeeds) \in RpSpeeds
  BY <1>4 DEF Min
<1> QED BY <1>1, <1>5

\* What came of the one form of a run is what came of the run.
LEMMA RpSameSummary ==
  ASSUME NEW p \in RpStages, Taken(p)
  PROVE  Canon(p) \in RpStages /\ HasRuns(Canon(p)) /\ Envelop(Canon(p)) = [proof |-> Canon(p), summary |-> SummaryOf(p)]
<1> DEFINE c == Canon(p)
           n == Len(p)
<1>1. /\ c \in RpStages /\ Len(c) = n /\ Plays(c) = Plays(p) /\ Cleared(c) = Cleared(p)
      /\ \A i \in 1 .. n : End(c, i) = End(p, i)
  BY RpSameRun
<1>2. /\ n \in Nat \ {0} /\ DOMAIN p = 1 .. n
      /\ \A i \in 1 .. n : Expanded(p[i].runs) \in RpFed /\ Len(Expanded(p[i].runs)) \in Nat \ {0}
  <2>1. /\ n \in Nat \ {0}
        /\ \A i \in 1 .. n : Plays(p)[i] \in RpFed /\ Len(Plays(p)[i]) \in Nat \ {0} /\ Plays(p)[i] = Expanded(p[i].runs)
    BY RpPlayable
  <2>2. DOMAIN p = 1 .. n
    BY LenProperties DEF RpStages
  <2> QED BY <2>1, <2>2
<1>3. \A i \in 1 .. n : c[i].runs = EncodeRuns(Expanded(p[i].runs))
  BY <1>2 DEF Canon, CanonOf
<1> HIDE DEF c
<1>4. \A i \in 1 .. n : c[i].runs \in RpCanon /\ c[i].runs # <<>>
  <2> TAKE i \in 1 .. n
  <2> DEFINE s == Expanded(p[i].runs)
  <2>1. s \in RpFed /\ Len(s) # 0 /\ c[i].runs = EncodeRuns(s)
    BY <1>2, <1>3
  <2> HIDE DEF s
  <2>2. s # <<>>
    BY <2>1
  <2> QED BY <2>1, <2>2, RpEncoded
<1>5. HasRuns(c)
  <2>1. c # <<>>
    BY <1>1, <1>2
  <2> QED BY <1>1, <1>4, <2>1 DEF HasRuns
<1>6. WonSoFar(c) = WonSoFar(p)
  <2>1. n \in 1 .. n
    BY <1>2
  <2>2. End(c, n) = End(p, n)
    BY <1>1, <2>1
  <2> QED BY <1>1, <2>2 DEF WonSoFar
<1>7. SummaryOf(c) = SummaryOf(p)
  BY <1>1, <1>6, Zenon DEF SummaryOf
<1> QED BY <1>1, <1>5, <1>7 DEF c, Envelop

\* What is submitted and taken is kept.
LEMMA RpKeeps ==
  ASSUME RpPlayInv, rp.phase = "played", NEW p \in {Finalized(rp.done)} \cup OtherProofs(Finalized(rp.done)), RpSubmit(p)
  PROVE  RpKeptInv' /\ RpOpenInv' /\ \E phase \in {"kept", "refused", "open"} : rp' = [rp EXCEPT !.phase = phase]
<1> DEFINE v == Verified(p)
           r == Finalized(rp.done)
<1>1. r \in RpStages /\ HasRuns(r)
  <2>1. PICK X : rp.done \in Seq(X)
    BY DEF RpPlayInv
  <2>2. Continued(rp.done) /\ rp.done # <<>>
    BY DEF RpPlayInv
  <2> QED BY <2>1, <2>2, RpRecorded DEF Finalized
<1>2. p \in RpStages
  BY <1>1, RpOthers
<1>3. /\ rp' = [rp EXCEPT !.phase = IF v.ok THEN "kept" ELSE "refused"]
      /\ rpKept' = IF v.ok THEN [proof |-> v.proof, summary |-> v.summary] ELSE rpKept
  BY Zenon DEF RpSubmit
<1>4. v.ok => Taken(p) /\ v.proof = Canon(p) /\ v.summary = SummaryOf(p)
  BY <1>2, RpJudges
<1> HIDE DEF v, r
<1>5. CASE v.ok
  <2>1. rp' = [rp EXCEPT !.phase = "kept"] /\ rp'.phase = "kept"
    BY <1>3, <1>5 DEF RpPlayInv
  <2>2. rpKept' = [proof |-> Canon(p), summary |-> SummaryOf(p)]
    BY <1>3, <1>4, <1>5
  <2>3. Canon(p) \in RpStages /\ HasRuns(Canon(p)) /\ rpKept' = Envelop(Canon(p))
    BY <1>2, <1>4, <1>5, <2>2, RpSameSummary
  <2>4. rpKept'.proof = Canon(p)
    BY <2>3 DEF Envelop
  <2>5. RpKeptInv'
    BY <2>3, <2>4 DEF RpKeptInv
  <2>6. RpOpenInv'
    BY <2>1 DEF RpOpenInv
  <2> QED BY <2>1, <2>5, <2>6
<1>6. CASE ~ v.ok
  <2>1. rp' = [rp EXCEPT !.phase = "refused"] /\ rp'.phase = "refused"
    BY <1>3, <1>6 DEF RpPlayInv
  <2>2. RpKeptInv' /\ RpOpenInv'
    BY <2>1 DEF RpKeptInv, RpOpenInv
  <2> QED BY <2>1, <2>2
<1> QED BY <1>5, <1>6

\* What opens is of the run that is kept, and its last stage is shown.
LEMMA RpOpensAt ==
  ASSUME NEW q \in RpStages, Taken(q),
         NEW c, c = FrameAt(Sources(q), RpNone, Len(Sources(q)), 0), NEW v,
         v = Picture(c.frame, <<c.frame>>, <<c.frame>>, FALSE, FALSE, FALSE, RpNone, FALSE, 0, Min(RpSpeeds), FALSE)
  PROVE  Scrubs(q, c, v)
<1> DEFINE n == Len(q)
           e == FrameHere(q, n, 0)
           h == Frames(q, n, 0, 0)
<1>1. n \in 1 .. n /\ Len(Sources(q)) = n /\ OnRun(q, n, 0)
  <2>1. n \in Nat \ {0} /\ \A i \in 1 .. n : Len(Plays(q)[i]) \in Nat
    BY RpPlayable
  <2>2. Len(Sources(q)) = n
    BY RpPlayable, RpSources
  <2> QED BY <2>1, <2>2 DEF OnRun
<1>2. c = CursorAt(q, n, 0)
  BY <1>1, RpFrameAt
<1>3. c.frame = e
  BY <1>2 DEF CursorAt
<1>4. <<e>> = h
  <2>1. h = [k \in 1 .. 1 |-> e]
    <3>1. \A k \in 1 .. 1 : 0 + k - 1 = 0
      OBVIOUS
    <3>2. 1 .. 0 - 0 + 1 = 1 .. 1
      OBVIOUS
    <3>3. h = [k \in 1 .. 1 |-> FrameHere(q, n, 0 + k - 1)]
      BY <3>2 DEF Frames
    <3>4. \A k \in 1 .. 1 : FrameHere(q, n, 0 + k - 1) = e
      BY <3>1
    <3> HIDE DEF h, e
    <3> QED BY <3>3, <3>4
  <2> HIDE DEF h, e
  <2> QED BY <2>1
<1>5. Window(0, 0)
  BY RpLimits DEF Window
<1>6. Controls(q, n, 0, FALSE, FALSE, RpNone, FALSE, 0, Min(RpSpeeds), FALSE)
  BY RpSlowest DEF Controls
<1> HIDE DEF e, h
<1>7. Pictured(v, e, h, h, FALSE, FALSE, FALSE, RpNone, FALSE, 0, Min(RpSpeeds), FALSE)
  BY <1>3, <1>4, Zenon DEF Pictured
<1> QED BY <1>1, <1>2, <1>5, <1>6, <1>7, RpScrubsStill DEF e, h

\* What is opened is the run that was kept, whatever bytes were put in its place.
LEMMA RpOpens ==
  ASSUME RpPlayInv, RpKeptInv, rp.phase = "kept", NEW q \in {rpKept.proof} \cup OtherProofs(rpKept.proof),
         RpOpen([rpKept EXCEPT !.proof = q])
  PROVE  RpKeptInv' /\ RpOpenInv' /\ \E phase \in {"kept", "refused", "open"} : rp' = [rp EXCEPT !.phase = phase]
<1> DEFINE p == rpKept.proof
           env == [rpKept EXCEPT !.proof = q]
<1>1. rpKept = Envelop(p) /\ p \in RpStages /\ HasRuns(p)
  BY DEF RpKeptInv
<1>2. env.proof = q
  BY <1>1 DEF Envelop
<1>3. rpKept' = rpKept
  BY DEF RpOpen
<1>4. RpKeptInv'
  BY <1>1, <1>3 DEF RpKeptInv
<1> HIDE DEF p
<1>5. CASE /\ Valid(env) /\ rp' = [rp EXCEPT !.phase = "open"]
           /\ rpSources' = Sources(env.proof)
           /\ rpCursor' = FrameAt(rpSources', RpNone, Len(rpSources'), 0)
           /\ rpView' = Picture(rpCursor'.frame, <<rpCursor'.frame>>, <<rpCursor'.frame>>, FALSE, FALSE, FALSE, RpNone,
                                FALSE, 0, Min(RpSpeeds), FALSE)
  <2>1. Valid([Envelop(p) EXCEPT !.proof = q])
    BY <1>1, <1>5
  <2>2. q \in RpStages /\ Taken(q) /\ Plays(q) = Plays(p)
    BY <1>1, <2>1, RpOpensIt DEF p
  <2>3. rpSources' = Sources(q) /\ rpCursor' = FrameAt(Sources(q), RpNone, Len(Sources(q)), 0)
    BY <1>2, <1>5
  <2>4. Scrubs(q, rpCursor', rpView')
    BY <1>5, <2>2, <2>3, RpOpensAt
  <2>5. Watched(q)'
    BY <1>3, <2>2, <2>3, <2>4 DEF Watched, Opened, p
  <2>6. RpOpenInv'
    BY <2>5, Zenon DEF RpOpenInv
  <2> QED BY <1>4, <1>5, <2>6
<1>6. CASE rp' = [rp EXCEPT !.phase = "refused"]
  <2>1. rp'.phase = "refused"
    BY <1>6 DEF RpPlayInv
  <2>2. RpOpenInv'
    BY <2>1 DEF RpOpenInv
  <2> QED BY <1>4, <1>6, <2>2
<1> QED BY <1>5, <1>6, Zenon DEF RpOpen, Picture

\* A scrubber that is moved shows the same run.
LEMMA RpStillWatched ==
  ASSUME RpInv, Showing, \A q : Opened(q) => Scrubs(q, rpCursor', rpView')
  PROVE  RpInv'
<1>1. rp' = rp /\ rpKept' = rpKept /\ rpSources' = rpSources /\ rp.phase = "open"
  BY DEF Showing
<1>2. RpPlayInv'
  BY <1>1, RpPlayStands DEF RpInv
<1>3. RpKeptInv'
  BY <1>1 DEF RpInv, RpKeptInv
<1>4. PICK q : Watched(q)
  BY <1>1, Zenon DEF RpInv, RpOpenInv
<1>5. Scrubs(q, rpCursor', rpView')
  BY <1>4 DEF Watched
<1>6. Watched(q)'
  BY <1>1, <1>4, <1>5 DEF Watched, Opened
<1>7. RpOpenInv'
  BY <1>6, Zenon DEF RpOpenInv
<1> QED BY <1>2, <1>3, <1>7 DEF RpInv

\* Every step keeps the invariant.
LEMMA RpInvStands ==
  ASSUME RpInv, RpNext
  PROVE  RpInv'
<1> USE DEF RpInv
<1>1. ASSUME NEW input \in RpInputs, RpPlayTick(input) PROVE RpInv'
  <2>1. RpPlayInv' /\ rp.phase = "play"
    BY <1>1, RpPlaysTick DEF RpPlayTick
  <2>2. rp'.phase \in {"play", "played"}
    BY <1>1, Zenon DEF RpPlayTick, RpPlayInv
  <2> QED BY <2>1, <2>2 DEF RpKeptInv, RpOpenInv
<1>2. ASSUME rp.phase = "played", NEW p \in {Finalized(rp.done)} \cup OtherProofs(Finalized(rp.done)), RpSubmit(p)
      PROVE  RpInv'
  <2>1. /\ RpKeptInv' /\ RpOpenInv'
        /\ \E phase \in {"kept", "refused", "open"} : rp' = [rp EXCEPT !.phase = phase]
    BY <1>2, RpKeeps
  <2>2. rp.phase # "play"
    BY <1>2
  <2> QED BY <2>1, <2>2, RpPlayStands
<1>3. ASSUME rp.phase = "kept", NEW q \in {rpKept.proof} \cup OtherProofs(rpKept.proof),
             RpOpen([rpKept EXCEPT !.proof = q])
      PROVE  RpInv'
  <2>1. /\ RpKeptInv' /\ RpOpenInv'
        /\ \E phase \in {"kept", "refused", "open"} : rp' = [rp EXCEPT !.phase = phase]
    BY <1>3, RpOpens
  <2>2. rp.phase # "play"
    BY <1>3
  <2> QED BY <2>1, <2>2, RpPlayStands
<1>4. ASSUME NEW q, Opened(q) PROVE StageTicks \in Nat
  <2>1. PICK s, t, a, playing, ranged, range, anchored, backlog, speed, closed :
           NowAt(q, s, t, a, playing, ranged, range, anchored, backlog, speed, closed)
    BY <1>4, Zenon DEF Opened, Scrubs, NowAt
  <2> QED BY <1>4, <2>1, RpStageTicks
<1>5. ASSUME rp.phase = "open", NEW tick \in -1 .. (StageTicks + 1), RpSeek(tick) PROVE RpInv'
  <2>1. \A q : Opened(q) => Scrubs(q, rpCursor', rpView')
    BY <1>5, RpSeeks
  <2> QED BY <1>5, <2>1, RpStillWatched DEF RpSeek
<1>6. ASSUME rp.phase = "open", NEW tick \in 0 .. StageTicks, RpDrag(tick) PROVE RpInv'
  <2>1. \A q : Opened(q) => Scrubs(q, rpCursor', rpView')
    BY <1>6, RpStandsStill
  <2> QED BY <1>6, <2>1, RpStillWatched DEF RpDrag
<1>7. ASSUME NEW stage \in DOMAIN rpSources, RpSelectStage(stage) PROVE RpInv'
  <2>1. \A q : Opened(q) => Scrubs(q, rpCursor', rpView')
    BY <1>7, RpSeeks
  <2> QED BY <1>7, <2>1, RpStillWatched DEF RpSelectStage
<1>8. ASSUME NEW speed \in RpSpeeds, RpSpeed(speed) PROVE RpInv'
  <2>1. \A q : Opened(q) => Scrubs(q, rpCursor', rpView')
    BY <1>8, RpStandsStill
  <2> QED BY <1>8, <2>1, RpStillWatched DEF RpSpeed
<1>9. ASSUME NEW elapsed \in 0 .. RpMaxElapsed, RpAnimate(elapsed) PROVE RpInv'
  <2>1. elapsed \in Nat
    BY RpAssumption DEF RpAssumption
  <2>2. \A q : Opened(q) => Scrubs(q, rpCursor', rpView')
    BY <1>9, <2>1, RpAnimates
  <2> QED BY <1>9, <2>2, RpStillWatched DEF RpAnimate
<1>10. CASE RpPlay
  <2>1. \A q : Opened(q) => Scrubs(q, rpCursor', rpView')
    BY <1>10, RpPlayGoesOn
  <2> QED BY <1>10, <2>1, RpStillWatched DEF RpPlay
<1>11. CASE RpPause
  <2>1. \A q : Opened(q) => Scrubs(q, rpCursor', rpView')
    BY <1>11, RpStandsStill
  <2> QED BY <1>11, <2>1, RpStillWatched DEF RpPause
<1>12. CASE RpRangeFrame
  <2>1. \A q : Opened(q) => Scrubs(q, rpCursor', rpView')
    BY <1>12, RpFlushes DEF RpRangeFrame
  <2> QED BY <1>12, <2>1, RpStillWatched DEF RpRangeFrame
<1>13. CASE RpLetGo
  <2>1. \A q : Opened(q) => Scrubs(q, rpCursor', rpView')
    BY <1>13, RpFlushes DEF RpLetGo
  <2> QED BY <1>13, <2>1, RpStillWatched DEF RpLetGo
<1>14. CASE RpMotion
  <2>1. \A q : Opened(q) => Scrubs(q, rpCursor', rpView')
    BY <1>14, RpSeeks
  <2> QED BY <1>14, <2>1, RpStillWatched DEF RpMotion
<1>15. CASE RpDestroy
  <2>1. \A q : Opened(q) => Scrubs(q, rpCursor', rpView')
    BY <1>15, RpStandsStill
  <2> QED BY <1>15, <2>1, RpStillWatched DEF RpDestroy
<1> QED BY <1>1, <1>2, <1>3, <1>5, <1>6, <1>7, <1>8, <1>9, <1>10, <1>11, <1>12, <1>13, <1>14, <1>15, Zenon DEF RpNext

(* Whatever was played: the proof recorded of it is taken by the ranked    *)
(* verifier and the cabinet's alike, in its one form and with the summary  *)
(* of the play, exactly if it is a whole run within the limits; a proof    *)
(* put in its place is taken exactly if it is one too (proof.ts:491,       *)
(* cabinet-proof.ts:99, :141, :185).  And whoever opens the kept envelope  *)
(* sees that play: however the scrubber came to a frame, it is the tick of *)
(* the record, with its history, and the controls never contradict it      *)
(* (playback.ts:300, replay-scrubber.ts:408, :424).                        *)
THEOREM RecordIsThePlay == RpSpec => []RpRecordIsThePlay
<1>1. RpInit => RpInv
  <2> SUFFICES ASSUME RpInit PROVE RpInv
    OBVIOUS
  <2>1. RpPlayInv
    BY RpPlayBegins
  <2>2. rp.phase = "play"
    BY DEF RpInit
  <2> QED BY <2>1, <2>2 DEF RpInv, RpKeptInv, RpOpenInv
<1>2. RpInv /\ [RpNext]_rpVars => RpInv'
  <2> SUFFICES ASSUME RpInv, [RpNext]_rpVars PROVE RpInv'
    OBVIOUS
  <2>1. CASE RpNext
    BY <2>1, RpInvStands
  <2>2. CASE UNCHANGED rpVars
    <3>1. rp' = rp /\ rpKept' = rpKept /\ rpSources' = rpSources /\ rpCursor' = rpCursor /\ rpView' = rpView
      BY <2>2 DEF rpVars
    <3>2. RpPlayInv'
      BY <3>1, RpPlayStands DEF RpInv
    <3>3. RpKeptInv' /\ RpOpenInv'
      BY <3>1 DEF RpInv, RpKeptInv, RpOpenInv, Watched, Opened
    <3> QED BY <3>2, <3>3 DEF RpInv
  <2> QED BY <2>1, <2>2
<1>3. RpInv => RpRecordIsThePlay
  <2> SUFFICES ASSUME RpInv PROVE RpRecordIsThePlay
    OBVIOUS
  <2>1. RpVerdictIsThePlay
    BY RpVerdict DEF RpInv
  <2>2. CASE rp.phase = "open"
    <3>1. PICK q : Watched(q)
      BY <2>2, Zenon DEF RpInv, RpOpenInv
    <3>2. RpShowsTheRecord
      BY <3>1, RpTrueView DEF Watched
    <3> QED BY <2>1, <3>2 DEF RpRecordIsThePlay
  <2>3. CASE rp.phase # "open"
    BY <2>1, <2>3 DEF RpRecordIsThePlay, RpShowsTheRecord
  <2> QED BY <2>2, <2>3
<1> QED BY <1>1, <1>2, <1>3, PTL DEF RpSpec
=============================================================================
