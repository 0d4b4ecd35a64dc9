---------------------------- MODULE GamesProofs ----------------------------
(* The ledger of a Smilefall stage, for schedules and buckets of any size   *)
(* and stages of any length; the clock of the Maltline cabinet, for every   *)
(* length of a tick and every catch-up; the tool that buys the cabinet's     *)
(* sounds, for plans of any length and any number of runs and faults; and    *)
(* the record of a playtest, for stages and interruptions of any number.     *)
EXTENDS PartitionField, PartitionRulesProofs, SmilefallLedger, SmilefallEngine, FixedStepClock, AudioProduction,
  HumanLab, TLAPS

(* Every smiley of the schedule is waiting, in the air, caught or popped,  *)
(* after every tick of a Smilefall stage (core/engine.ts).                 *)
THEOREM LedgerCounts ==
  ASSUME Drops \in Nat, Capacity \in Nat
  PROVE  LgSpec => []Counted
<1>1. LgInit => Counted
  BY DEF LgInit, Counted
<1>2. Counted /\ [LgTick]_ledger => Counted'
  <2> SUFFICES ASSUME Counted, [LgTick]_ledger PROVE Counted'
    OBVIOUS
  <2>1. CASE UNCHANGED ledger
    BY <2>1 DEF Counted, ledger
  <2>2. CASE LgTick
    <3>1. PICK drop \in 0 .. waiting : \E catch, pop \in 0 .. flock + drop :
            /\ catch + pop <= flock + drop /\ filled + catch <= Capacity
            /\ waiting' = waiting - drop /\ flock' = flock + drop - catch - pop
            /\ filled' = filled + catch /\ popped' = popped + pop
      BY <2>2 DEF LgTick
    <3>2. PICK catch \in 0 .. flock + drop, pop \in 0 .. flock + drop :
            /\ catch + pop <= flock + drop /\ filled + catch <= Capacity
            /\ waiting' = waiting - drop /\ flock' = flock + drop - catch - pop
            /\ filled' = filled + catch /\ popped' = popped + pop
      BY <3>1
    <3>3. tick \in Nat /\ waiting \in Nat /\ flock \in Nat /\ filled \in Nat /\ popped \in Nat
      BY DEF Counted
    <3>4. {tick, waiting, flock, filled, popped}' \subseteq Nat
      <4>1. tick' \in Nat
        BY <2>2, <3>3 DEF LgTick
      <4>2. waiting' \in Nat /\ flock' \in Nat /\ filled' \in Nat /\ popped' \in Nat
        BY <3>2, <3>3
      <4> QED BY <4>1, <4>2
    <3>5. (waiting + flock + filled + popped)' = Drops
      BY <3>2, <3>3 DEF Counted
    <3>6. filled' <= Capacity
      BY <3>2
    <3>7. status' \in {"running", "won", "lost"} /\ reason' \in {"none", "out_of_smilies", "timeout"}
      BY <2>2 DEF LgTick, LgOutcome
    <3> QED BY <3>4, <3>5, <3>6, <3>7 DEF Counted
  <2> QED BY <2>1, <2>2
<1> QED BY <1>1, <1>2, PTL DEF LgSpec

(* The reserve of a stage is its lives: a stage is played on only while a  *)
(* life is left, is lost for smilies only when none is, and won exactly    *)
(* when its buckets are full ("If a stage starts with five extras, the     *)
(* fifth pop spends the final reserve and ends it", core/engine.ts).       *)
THEOREM ReserveIsALifeBudget ==
  ASSUME Drops \in Nat, Capacity \in Nat, Limit \in Nat
  PROVE  LgSpec => []ReserveIsLives
<1>1. LgInit => ReserveIsLives
  BY DEF LgInit, ReserveIsLives
<1>2. Counted /\ Counted' /\ ReserveIsLives /\ [LgTick]_ledger => ReserveIsLives'
  <2> SUFFICES ASSUME Counted, Counted', ReserveIsLives, [LgTick]_ledger PROVE ReserveIsLives'
    OBVIOUS
  <2>1. CASE UNCHANGED ledger
    BY <2>1 DEF ReserveIsLives, ledger
  <2>2. CASE LgTick
    <3> DEFINE air == flock'  held == filled'  lost == popped'  due == waiting'
               Spent == lost >= Drops - Capacity
               Left == lost < Drops - Capacity
               Balance == due + air - (Capacity - held) = Drops - Capacity - lost
               Empty == air + due <= Capacity - held
               Late == tick' >= Limit
    <3>1. Balance /\ (Empty => Spent) /\ (~Empty => Left)
      <4>1. due \in Int /\ air \in Int /\ held \in Int /\ lost \in Int
        BY DEF Counted
      <4>2. due + air + held + lost = Drops
        BY Zenon DEF Counted
      <4> HIDE DEF air, held, lost, due
      <4> QED BY <4>1, <4>2
    <3>2. tick' > 0 /\ (~Late => tick' < Limit)
      <4>1. tick \in Nat /\ tick' = tick + 1
        BY <2>2 DEF Counted, LgTick
      <4> QED BY <4>1
    <3>3. LgOutcome
      BY <2>2 DEF LgTick
    <3>4. CASE filled' = Capacity
      <4>1. status' = "won" /\ reason' = "none"
        BY <3>3, <3>4 DEF LgOutcome
      <4> QED BY <3>1, <3>4, <4>1, Zenon DEF ReserveIsLives
    <3>5. CASE filled' # Capacity /\ Empty
      <4>1. status' = "lost" /\ reason' = "out_of_smilies"
        BY <3>3, <3>5, Zenon DEF LgOutcome
      <4> QED BY <3>1, <3>5, <4>1, Zenon DEF ReserveIsLives
    <3>6. CASE filled' # Capacity /\ ~Empty
      <4>1. \/ Late /\ status' = "lost" /\ reason' = "timeout"
            \/ ~Late /\ status' = "running" /\ reason' = "none"
        BY <3>3, <3>6, Zenon DEF LgOutcome
      <4> QED BY <3>1, <3>2, <3>6, <4>1, Zenon DEF ReserveIsLives
    <3> QED BY <3>4, <3>5, <3>6
  <2> QED BY <2>1, <2>2
<1> QED BY <1>1, <1>2, LedgerCounts, PTL DEF LgSpec

-----------------------------------------------------------------------------
(* Counting                                                               *)

\* Induction over numbers up to a bound, for a set in the place of a predicate.
LEMMA Upwards ==
  ASSUME NEW n \in Nat, NEW T, 0 \in T, \A k \in 0 .. n - 1 : k \in T => k + 1 \in T
  PROVE  0 .. n \subseteq T
<1> DEFINE Left == {k \in 0 .. n : k \notin T}
<1>1. CASE Left = {}
  BY <1>1
<1>2. CASE Left # {}
  <2>1. PICK m \in Left : \A k \in Left : m <= k
    <3>1. Left \in SUBSET Nat
      OBVIOUS
    <3> HIDE DEF Left
    <3> QED BY <1>2, <3>1, LeastNumber
  <2>2. m \in 0 .. n /\ m \notin T /\ m # 0
    OBVIOUS
  <2>3. m - 1 \in 0 .. n - 1 /\ m - 1 \notin Left
    <3>1. m - 1 \in 0 .. n - 1 /\ ~ (m <= m - 1)
      BY <2>2
    <3> QED BY <2>1, <3>1
  <2>4. m - 1 \in T
    BY <2>3
  <2>5. (m - 1) + 1 \in T
    BY <2>3, <2>4
  <2> QED BY <2>2, <2>5
<1> QED BY <1>1, <1>2

-----------------------------------------------------------------------------
(* Totals                                                                  *)

\* The partial sums of a sequence.
Sums(seq, g, n) == g = [k \in 0 .. n |-> IF k = 0 THEN 0 ELSE g[k - 1] + seq[k]]

\* A sequence has partial sums.
LEMMA SumsExist ==
  ASSUME NEW seq, NEW n \in Nat
  PROVE  \E g : Sums(seq, g, n)
<1> DEFINE T == {m \in Nat : \E g : Sums(seq, g, m)}
<1>1. 0 \in T
  <2>1. Sums(seq, [k \in 0 .. 0 |-> 0], 0)
    BY DEF Sums
  <2> QED BY <2>1
<1>2. ASSUME NEW m \in 0 .. n - 1, m \in T PROVE m + 1 \in T
  <2>1. PICK g : Sums(seq, g, m)
    BY <1>2
  <2> DEFINE h == [k \in 0 .. m + 1 |-> IF k = m + 1 THEN g[m] + seq[m + 1] ELSE g[k]]
  <2>2. ASSUME NEW k \in 0 .. m + 1 PROVE h[k] = IF k = 0 THEN 0 ELSE h[k - 1] + seq[k]
    <3>1. CASE k = m + 1
      BY <3>1
    <3>2. CASE k # m + 1
      <4>1. k \in 0 .. m /\ h[k] = g[k] /\ (k # 0 => h[k - 1] = g[k - 1])
        BY <3>2
      <4>2. g[k] = IF k = 0 THEN 0 ELSE g[k - 1] + seq[k]
        BY <2>1, <4>1 DEF Sums
      <4> QED BY <4>1, <4>2
    <3> QED BY <3>1, <3>2
  <2>3. h = [k \in 0 .. m + 1 |-> h[k]]
    OBVIOUS
  <2>4. Sums(seq, h, m + 1)
    <3> DEFINE Sum(k) == IF k = 0 THEN 0 ELSE h[k - 1] + seq[k]
    <3> HIDE DEF h
    <3>1. [k \in 0 .. m + 1 |-> h[k]] = [k \in 0 .. m + 1 |-> Sum(k)]
      BY <2>2
    <3> QED BY <2>3, <3>1 DEF Sums
  <2> QED BY <2>4
<1>3. 0 .. n \subseteq T
  <2> HIDE DEF T
  <2> QED BY <1>1, <1>2, Upwards
<1> QED BY <1>3

\* The total of a sequence is the last of them.
LEMMA TotalIs ==
  ASSUME NEW seq, Len(seq) \in Nat
  PROVE  \E g : Sums(seq, g, Len(seq)) /\ Total(seq) = g[Len(seq)]
<1> DEFINE n == Len(seq)
           sum == CHOOSE g : Sums(seq, g, n)
<1>1. Sums(seq, sum, n)
  BY SumsExist
<1>2. Total(seq) = sum[n]
  BY DEF Total, Sums
<1> QED BY <1>1, <1>2

\* What the partial sums of whole numbers are.
LEMMA SumsTyped ==
  ASSUME NEW n \in Nat, NEW seq, \A k \in 1 .. n : seq[k] \in Int, NEW g, Sums(seq, g, n)
  PROVE  /\ g[0] = 0 /\ \A k \in 0 .. n : g[k] \in Int
         /\ \A k \in 1 .. n : g[k] = g[k - 1] + seq[k]
<1> DEFINE T == {k \in 0 .. n : g[k] \in Int}
<1>1. g[0] = 0 /\ \A k \in 1 .. n : g[k] = g[k - 1] + seq[k]
  BY DEF Sums
<1>2. 0 .. n \subseteq T
  <2>1. 0 \in T
    BY <1>1
  <2>2. ASSUME NEW k \in 0 .. n - 1, k \in T PROVE k + 1 \in T
    <3>1. k + 1 \in 1 .. n /\ (k + 1) - 1 = k
      OBVIOUS
    <3>2. g[k + 1] = g[k] + seq[k + 1]
      BY <1>1, <3>1
    <3> QED BY <2>2, <3>1, <3>2
  <2> HIDE DEF T
  <2> QED BY <2>1, <2>2, Upwards
<1> QED BY <1>1, <1>2

\* A sum grows with its terms, and stays only if they do.
LEMMA TotalsCompare ==
  ASSUME NEW a \in Seq(Int), NEW b \in Seq(Int), Len(a) = Len(b), \A k \in 1 .. Len(a) : a[k] <= b[k]
  PROVE  /\ Total(a) \in Int /\ Total(b) \in Int /\ Total(a) <= Total(b)
         /\ Total(a) = Total(b) <=> \A k \in 1 .. Len(a) : a[k] = b[k]
<1> DEFINE n == Len(a)
<1>0. Len(a) \in Nat /\ Len(b) \in Nat
  OBVIOUS
<1>1. n \in Nat /\ \A k \in 1 .. n : a[k] \in Int /\ b[k] \in Int
  OBVIOUS
<1>2. PICK g : Sums(a, g, n) /\ Total(a) = g[n]
  BY <1>0, TotalIs
<1>3. PICK h : Sums(b, h, n) /\ Total(b) = h[n]
  BY <1>0, TotalIs
<1>4. /\ g[0] = 0 /\ \A k \in 0 .. n : g[k] \in Int
      /\ \A k \in 1 .. n : g[k] = g[k - 1] + a[k]
  BY <1>1, <1>2, SumsTyped
<1>5. /\ h[0] = 0 /\ \A k \in 0 .. n : h[k] \in Int
      /\ \A k \in 1 .. n : h[k] = h[k - 1] + b[k]
  BY <1>1, <1>3, SumsTyped
<1> DEFINE T == {k \in 0 .. n : g[k] <= h[k] /\ (g[k] = h[k] <=> \A i \in 1 .. k : a[i] = b[i])}
<1>6. 0 .. n \subseteq T
  <2>1. 0 \in T
    BY <1>1, <1>4, <1>5
  <2>2. ASSUME NEW k \in 0 .. n - 1, k \in T PROVE k + 1 \in T
    <3>1. k + 1 \in 1 .. n /\ k \in 0 .. n /\ (k + 1) - 1 = k
      BY <1>1
    <3>2. g[k + 1] = g[k] + a[k + 1] /\ h[k + 1] = h[k] + b[k + 1]
      BY <1>4, <1>5, <3>1
    <3>3. a[k + 1] \in Int /\ b[k + 1] \in Int /\ a[k + 1] <= b[k + 1] /\ g[k] \in Int /\ h[k] \in Int
      BY <1>1, <1>4, <1>5, <3>1
    <3>4. g[k] <= h[k] /\ (g[k] = h[k] <=> \A i \in 1 .. k : a[i] = b[i])
      BY <2>2
    <3>5. (\A i \in 1 .. k + 1 : a[i] = b[i]) <=> (\A i \in 1 .. k : a[i] = b[i]) /\ a[k + 1] = b[k + 1]
      BY <3>1
    <3>6. g[k + 1] <= h[k + 1] /\ (g[k + 1] = h[k + 1] <=> g[k] = h[k] /\ a[k + 1] = b[k + 1])
      <4>1. \A p, q, x, y \in Int : p <= q /\ x <= y => p + x <= q + y /\ (p + x = q + y <=> p = q /\ x = y)
        OBVIOUS
      <4>2. g[k] <= h[k]
        BY <3>4
      <4> HIDE DEF T
      <4> QED BY <3>2, <3>3, <4>1, <4>2
    <3> QED BY <3>1, <3>4, <3>5, <3>6
  <2> HIDE DEF T
  <2> QED BY <1>1, <2>1, <2>2, Upwards
<1>7. n \in 0 .. n
  BY <1>1
<1>8. g[n] <= h[n] /\ (g[n] = h[n] <=> \A i \in 1 .. n : a[i] = b[i])
  BY <1>6, <1>7
<1> QED BY <1>2, <1>3, <1>4, <1>5, <1>7, <1>8

\* The total of the differences is the difference of the totals.
LEMMA TotalOfDifferences ==
  ASSUME NEW a \in Seq(Int), NEW b \in Seq(Int), NEW c \in Seq(Int), Len(a) = Len(b), Len(c) = Len(b),
         \A k \in 1 .. Len(a) : c[k] = b[k] - a[k]
  PROVE  Total(c) = Total(b) - Total(a) /\ Total(c) \in Int
<1> DEFINE n == Len(a)
<1>0. Len(a) \in Nat /\ Len(b) \in Nat /\ Len(c) \in Nat
  OBVIOUS
<1>1. n \in Nat /\ \A k \in 1 .. n : a[k] \in Int /\ b[k] \in Int /\ c[k] \in Int
  OBVIOUS
<1>2. PICK g : Sums(a, g, n) /\ Total(a) = g[n]
  BY <1>0, TotalIs
<1>3. PICK h : Sums(b, h, n) /\ Total(b) = h[n]
  BY <1>0, TotalIs
<1>4. PICK d : Sums(c, d, n) /\ Total(c) = d[n]
  BY <1>0, TotalIs
<1>5. /\ g[0] = 0 /\ \A k \in 0 .. n : g[k] \in Int
      /\ \A k \in 1 .. n : g[k] = g[k - 1] + a[k]
  BY <1>1, <1>2, SumsTyped
<1>6. /\ h[0] = 0 /\ \A k \in 0 .. n : h[k] \in Int
      /\ \A k \in 1 .. n : h[k] = h[k - 1] + b[k]
  BY <1>1, <1>3, SumsTyped
<1>7. /\ d[0] = 0 /\ \A k \in 0 .. n : d[k] \in Int
      /\ \A k \in 1 .. n : d[k] = d[k - 1] + c[k]
  BY <1>1, <1>4, SumsTyped
<1> DEFINE T == {k \in 0 .. n : d[k] = h[k] - g[k]}
<1>8. 0 .. n \subseteq T
  <2>1. 0 \in T
    BY <1>1, <1>5, <1>6, <1>7
  <2>2. ASSUME NEW k \in 0 .. n - 1, k \in T PROVE k + 1 \in T
    <3>1. k + 1 \in 1 .. n /\ k \in 0 .. n /\ (k + 1) - 1 = k
      BY <1>1
    <3>2. g[k + 1] = g[k] + a[k + 1] /\ h[k + 1] = h[k] + b[k + 1] /\ d[k + 1] = d[k] + c[k + 1]
      BY <1>5, <1>6, <1>7, <3>1
    <3>3. a[k + 1] \in Int /\ b[k + 1] \in Int /\ g[k] \in Int /\ h[k] \in Int /\ d[k] = h[k] - g[k]
      BY <1>1, <1>5, <1>6, <2>2, <3>1
    <3>4. c[k + 1] = b[k + 1] - a[k + 1]
      BY <1>1, <3>1
    <3>5. d[k + 1] = h[k + 1] - g[k + 1]
      <4> HIDE DEF T
      <4>1. d[k + 1] = (h[k] - g[k]) + (b[k + 1] - a[k + 1])
        BY <3>2, <3>3, <3>4
      <4>2. \A p, q, x, y \in Int : (p - q) + (x - y) = (p + x) - (q + y)
        OBVIOUS
      <4> QED BY <3>2, <3>3, <4>1, <4>2
    <3> QED BY <3>1, <3>5
  <2> HIDE DEF T
  <2> QED BY <1>1, <2>1, <2>2, Upwards
<1>9. n \in 0 .. n
  BY <1>1
<1> QED BY <1>2, <1>3, <1>4, <1>7, <1>8, <1>9

\* One term that grows by one.
LEMMA TotalOfOneMore ==
  ASSUME NEW a \in Seq(Int), NEW b \in Seq(Int), Len(a) = Len(b), NEW i \in 1 .. Len(a),
         \A k \in 1 .. Len(a) : b[k] = IF k = i THEN a[k] + 1 ELSE a[k]
  PROVE  Total(b) = Total(a) + 1 /\ Total(a) \in Int
<1> DEFINE n == Len(a)
<1>0. Len(a) \in Nat /\ Len(b) \in Nat
  OBVIOUS
<1>1. n \in Nat /\ \A k \in 1 .. n : a[k] \in Int /\ b[k] \in Int
  OBVIOUS
<1>2. PICK g : Sums(a, g, n) /\ Total(a) = g[n]
  BY <1>0, TotalIs
<1>3. PICK h : Sums(b, h, n) /\ Total(b) = h[n]
  BY <1>0, TotalIs
<1>4. /\ g[0] = 0 /\ \A k \in 0 .. n : g[k] \in Int
      /\ \A k \in 1 .. n : g[k] = g[k - 1] + a[k]
  BY <1>1, <1>2, SumsTyped
<1>5. /\ h[0] = 0 /\ \A k \in 0 .. n : h[k] \in Int
      /\ \A k \in 1 .. n : h[k] = h[k - 1] + b[k]
  BY <1>1, <1>3, SumsTyped
<1> DEFINE T == {k \in 0 .. n : h[k] = IF k < i THEN g[k] ELSE g[k] + 1}
<1>6. 0 .. n \subseteq T
  <2>1. 0 \in T
    BY <1>1, <1>4, <1>5
  <2>2. ASSUME NEW k \in 0 .. n - 1, k \in T PROVE k + 1 \in T
    <3>1. k + 1 \in 1 .. n /\ k \in 0 .. n /\ (k + 1) - 1 = k
      BY <1>1
    <3>2. g[k + 1] = g[k] + a[k + 1] /\ h[k + 1] = h[k] + b[k + 1]
      BY <1>4, <1>5, <3>1
    <3>3. /\ a[k + 1] \in Int /\ g[k] \in Int /\ b[k + 1] = IF k + 1 = i THEN a[k + 1] + 1 ELSE a[k + 1]
          /\ h[k] = IF k < i THEN g[k] ELSE g[k] + 1
      BY <1>1, <1>4, <2>2, <3>1
    <3>4. h[k + 1] = IF k + 1 < i THEN g[k + 1] ELSE g[k + 1] + 1
      BY <3>2, <3>3
    <3> QED BY <3>1, <3>4
  <2> HIDE DEF T
  <2> QED BY <1>1, <2>1, <2>2, Upwards
<1>7. n \in 0 .. n
  BY <1>1
<1> QED BY <1>2, <1>3, <1>4, <1>6, <1>7

-----------------------------------------------------------------------------
(* A Smilefall stage keeps its ledger                                      *)

\* A pail as the walk and the catches leave it.
SmBuckets == [x : Int, width : Int, capacity : Nat, filled : Nat, v : Int, minX : Int, maxX : Int, base : Int]
\* The pails are the scenario's and none holds more than it can.
SmFits(buckets) ==
  /\ buckets \in Seq(SmBuckets) /\ Len(buckets) = Len(SmScenario.buckets)
  /\ \A k \in 1 .. Len(buckets) :
       buckets[k].filled <= buckets[k].capacity /\ buckets[k].capacity = SmScenario.buckets[k].capacity
\* An engine, of which only what the ledger counts has a type of its own.
SmState(A) ==
  [tick : Nat, status : {"running", "won", "lost"}, reason : {"none", "out_of_smilies", "timeout"}, input : A,
   latch : A, smilies : Seq(A), rocks : A, dropped : Nat, thrown : A, buckets : Seq(SmBuckets), caught : A,
   popped : Nat, bonks : A, combo : A, best : A, score : A, charges : A, progress : A]
\* Every engine the stage can be in.
SmSound(s) == (\E A : s \in SmState(A)) /\ SmFits(s.buckets)

\* From s to t so many were caught and so many popped, and nothing else was counted.
SmSpends(s, t, catch, pop) ==
  /\ SmSound(t) /\ t.tick = s.tick /\ t.status = s.status /\ t.reason = s.reason /\ t.dropped = s.dropped
  /\ SmFilled(t.buckets) = SmFilled(s.buckets) + catch /\ t.popped = s.popped + pop
\* The same of a flock, smileys and all.
SmFlies(s, t) ==
  \E catch, pop \in Nat : SmSpends(s, t, catch, pop) /\ Len(t.smilies) = Len(s.smilies) - catch - pop
\* The same, of one smiley that was taken out of the flock before.
SmVisited(s, t) ==
  \E catch, pop \in 0 .. 1 :
    /\ catch + pop <= 1 /\ SmSpends(s, t, catch, pop) /\ Len(t.smilies) = Len(s.smilies) + 1 - catch - pop

\* What pails hold is a number, and no more than they can.
LEMMA SmFilledIs ==
  ASSUME NEW b, SmFits(b)
  PROVE  /\ SmFilled(b) \in Nat /\ SmCapacity(SmScenario.buckets) \in Nat
         /\ SmFilled(b) <= SmCapacity(SmScenario.buckets)
         /\ SmFilled(b) = SmCapacity(SmScenario.buckets) <=> \A k \in 1 .. Len(b) : b[k].filled >= b[k].capacity
         /\ Total([k \in DOMAIN b |-> b[k].capacity - b[k].filled]) = SmCapacity(SmScenario.buckets) - SmFilled(b)
<1> DEFINE holds == [k \in DOMAIN b |-> b[k].filled]
           held == [k \in DOMAIN SmScenario.buckets |-> SmScenario.buckets[k].capacity]
           open == [k \in DOMAIN b |-> b[k].capacity - b[k].filled]
           none == [k \in DOMAIN b |-> 0]
           n == Len(b)
<1>1. /\ n \in Nat /\ DOMAIN b = 1 .. n /\ DOMAIN SmScenario.buckets = 1 .. n
      /\ \A k \in 1 .. n : b[k] \in SmBuckets /\ b[k].filled \in Nat /\ b[k].capacity \in Nat
  <2>1. b \in Seq(SmBuckets) /\ Len(SmScenario.buckets) = n
    BY DEF SmFits
  <2>2. n \in Nat /\ DOMAIN b = 1 .. n /\ \A k \in 1 .. n : b[k] \in SmBuckets
    BY <2>1
  <2>3. DOMAIN SmScenario.buckets = 1 .. n
    BY <2>1, SmAssumption
  <2>4. \A x \in SmBuckets : x.filled \in Nat /\ x.capacity \in Nat
    BY DEF SmBuckets
  <2> HIDE DEF n
  <2> QED BY <2>2, <2>3, <2>4
<1>2. \A k \in 1 .. n : b[k].filled <= b[k].capacity /\ b[k].capacity = SmScenario.buckets[k].capacity
  BY DEF SmFits
<1>3. holds \in Seq(Int) /\ Len(holds) = n /\ \A k \in 1 .. n : holds[k] = b[k].filled
  BY <1>1
<1>4. held \in Seq(Int) /\ Len(held) = n /\ \A k \in 1 .. n : held[k] = b[k].capacity
  BY <1>1, <1>2
<1>5. open \in Seq(Int) /\ Len(open) = n /\ \A k \in 1 .. n : open[k] = held[k] - holds[k]
  <2>1. \A k \in 1 .. n : b[k].capacity - b[k].filled \in Int
    BY <1>1
  <2>2. open \in Seq(Int) /\ Len(open) = n /\ \A k \in 1 .. n : open[k] = b[k].capacity - b[k].filled
    BY <1>1, <2>1
  <2> QED BY <1>3, <1>4, <2>2
<1>6. none \in Seq(Int) /\ Len(none) = n /\ \A k \in 1 .. n : none[k] = 0
  BY <1>1
<1> HIDE DEF holds, held, open, none
<1>7. /\ Total(holds) \in Int /\ Total(held) \in Int /\ Total(holds) <= Total(held)
      /\ Total(holds) = Total(held) <=> \A k \in 1 .. n : holds[k] = held[k]
  <2>1. \A k \in 1 .. Len(holds) : holds[k] <= held[k]
    BY <1>2, <1>3, <1>4
  <2> QED BY <1>3, <1>4, <2>1, TotalsCompare
<1>8. Total(open) = Total(held) - Total(holds)
  BY <1>3, <1>4, <1>5, TotalOfDifferences
<1>9. Total(none) = 0
  <2>1. Total(none) = Total(none) - Total(none) /\ Total(none) \in Int
    <3>1. \A k \in 1 .. Len(none) : none[k] = none[k] - none[k]
      BY <1>6
    <3> QED BY <1>6, <3>1, TotalOfDifferences
  <2> QED BY <2>1
<1>10. 0 <= Total(holds)
  <2>1. \A k \in 1 .. Len(none) : none[k] <= holds[k]
    BY <1>1, <1>3, <1>6
  <2>2. Total(none) <= Total(holds)
    BY <1>3, <1>6, <2>1, TotalsCompare
  <2> QED BY <1>9, <2>2
<1>11. (\A k \in 1 .. n : holds[k] = held[k]) <=> \A k \in 1 .. n : b[k].filled >= b[k].capacity
  <2>1. ASSUME NEW k \in 1 .. n PROVE holds[k] = held[k] <=> b[k].filled >= b[k].capacity
    BY <1>1, <1>2, <1>3, <1>4
  <2> QED BY <2>1
<1>12. Total(holds) \in Nat /\ Total(held) \in Nat
  BY <1>7, <1>10
<1> QED BY <1>7, <1>8, <1>11, <1>12 DEF SmFilled, SmCapacity, holds, held, open

\* A smiley that stays.
LEMMA SmKeeps ==
  ASSUME NEW s, SmSound(s), NEW smiley
  PROVE  SmVisited(s, SmKeep(s, smiley))
<1>1. PICK A : s \in SmState(A)
  BY DEF SmSound
<1> DEFINE B == A \cup {smiley}
           t == SmKeep(s, smiley)
<1>2. s.smilies \in Seq(A) /\ s.smilies \in Seq(B) /\ smiley \in B
  BY <1>1 DEF SmState
<1>3. Append(s.smilies, smiley) \in Seq(B) /\ Len(Append(s.smilies, smiley)) = Len(s.smilies) + 1
      /\ Len(s.smilies) \in Nat
  BY <1>2
<1>4. s \in SmState(B)
  BY <1>1, <1>2 DEF SmState
<1> HIDE DEF B
<1>5. /\ t \in SmState(B) /\ t.smilies = Append(s.smilies, smiley) /\ t.tick = s.tick /\ t.status = s.status
      /\ t.reason = s.reason /\ t.dropped = s.dropped /\ t.buckets = s.buckets /\ t.popped = s.popped
  BY <1>3, <1>4 DEF SmState, SmKeep
<1>6. SmFilled(s.buckets) \in Nat /\ s.popped \in Nat
  BY <1>1, SmFilledIs DEF SmSound, SmState
<1>7. SmSpends(s, t, 0, 0)
  <2> HIDE DEF t
  <2> QED BY <1>5, <1>6 DEF SmSpends, SmSound
<1>8. Len(t.smilies) = Len(s.smilies) + 1 - 0 - 0
  <2> HIDE DEF t
  <2> QED BY <1>3, <1>5
<1> HIDE DEF t
<1> QED BY <1>7, <1>8 DEF SmVisited, t

\* An engine in which only what the ledger leaves out has changed.
LEMMA SmAside ==
  ASSUME NEW s, SmSound(s), NEW t, NEW A, t \in SmState(A), t.buckets = s.buckets, t.popped = s.popped,
         t.tick = s.tick, t.status = s.status, t.reason = s.reason, t.dropped = s.dropped
  PROVE  SmSpends(s, t, 0, 0)
<1>1. SmFilled(s.buckets) \in Nat /\ s.popped \in Nat
  BY SmFilledIs DEF SmSound, SmState
<1> QED BY <1>1 DEF SmSpends, SmSound

\* A smiley that stays with its bruises.
LEMMA SmBruises ==
  ASSUME NEW s, SmSound(s), NEW smiley, NEW bruises
  PROVE  SmVisited(s, SmBruise(s, smiley, bruises))
<1>1. CASE bruises = 0
  BY <1>1, SmKeeps DEF SmBruise
<1>2. CASE bruises # 0
  <2> DEFINE u == [s EXCEPT !.bonks = @ + bruises, !.combo = 0]
             other == [smiley EXCEPT !.bruises = @ + bruises]
  <2>1. PICK A : s \in SmState(A)
    BY DEF SmSound
  <2> DEFINE B == A \cup {s.bonks + bruises, 0}
  <2>2. s \in SmState(B) /\ s.bonks + bruises \in B /\ 0 \in B
    BY <2>1 DEF SmState
  <2> HIDE DEF B
  <2>3. /\ u \in SmState(B) /\ u.smilies = s.smilies /\ u.tick = s.tick /\ u.status = s.status
        /\ u.reason = s.reason /\ u.dropped = s.dropped /\ u.buckets = s.buckets /\ u.popped = s.popped
    BY <2>2 DEF SmState
  <2>4. SmBruise(s, smiley, bruises) = SmKeep(u, other)
    BY <1>2 DEF SmBruise
  <2> HIDE DEF u, other
  <2>5. SmSound(u)
    BY <2>3 DEF SmSound
  <2>6. SmVisited(u, SmKeep(u, other))
    BY <2>5, SmKeeps
  <2>7. SmVisited(s, SmKeep(u, other))
    BY <2>3, <2>6 DEF SmVisited, SmSpends
  <2> QED BY <2>4, <2>7
<1> QED BY <1>1, <1>2

\* A smiley that is popped.
LEMMA SmPops ==
  ASSUME NEW s, SmSound(s)
  PROVE  SmVisited(s, SmPop(s))
<1>1. PICK A : s \in SmState(A)
  BY DEF SmSound
<1> DEFINE B == A \cup {0}
           t == SmPop(s)
<1>2. s \in SmState(B) /\ 0 \in B
  BY <1>1 DEF SmState
<1>3. SmFilled(s.buckets) \in Nat /\ s.popped \in Nat /\ Len(s.smilies) \in Nat
  <2>1. s.smilies \in Seq(A) /\ s.popped \in Nat /\ SmFits(s.buckets)
    BY <1>1 DEF SmSound, SmState
  <2>2. Len(s.smilies) \in Nat
    BY <2>1
  <2>3. SmFilled(s.buckets) \in Nat
    BY <2>1, SmFilledIs
  <2> QED BY <2>1, <2>2, <2>3
<1> HIDE DEF B
<1>4. /\ t \in SmState(B) /\ t.smilies = s.smilies /\ t.tick = s.tick /\ t.status = s.status
      /\ t.reason = s.reason /\ t.dropped = s.dropped /\ t.buckets = s.buckets /\ t.popped = s.popped + 1
  <2> DEFINE p == s.popped + 1
  <2>1. p \in Nat /\ t = [s EXCEPT !.popped = p, !.combo = 0]
    BY <1>2, <1>3 DEF SmPop, SmState
  <2> HIDE DEF p, t
  <2>2. /\ t \in SmState(B) /\ t.smilies = s.smilies /\ t.tick = s.tick /\ t.status = s.status
        /\ t.reason = s.reason /\ t.dropped = s.dropped /\ t.buckets = s.buckets /\ t.popped = p
    BY <1>2, <2>1 DEF SmState
  <2> QED BY <2>2 DEF p
<1> HIDE DEF t
<1>5. SmSpends(s, t, 0, 1)
  BY <1>3, <1>4 DEF SmSpends, SmSound
<1>6. Len(t.smilies) = Len(s.smilies) + 1 - 0 - 1
  BY <1>3, <1>4
<1> QED BY <1>5, <1>6 DEF SmVisited, t

\* A smiley that is caught by a pail that has room.
LEMMA SmCatches ==
  ASSUME NEW s, SmSound(s), NEW smiley, NEW i \in 1 .. Len(s.buckets), s.buckets[i].filled < s.buckets[i].capacity
  PROVE  SmVisited(s, SmCatch(s, smiley, i))
<1>1. PICK A : s \in SmState(A)
  BY DEF SmSound
<1> DEFINE best == SmCatch(s, smiley, i).best
           score == SmCatch(s, smiley, i).score
           B == A \cup {s.caught + 1, s.combo + 1, best, score}
           t == SmCatch(s, smiley, i)
           a == s.buckets
           b == [a EXCEPT ![i].filled = @ + 1]
<1>2. s \in SmState(B) /\ {s.caught + 1, s.combo + 1, best, score} \subseteq B
  BY <1>1 DEF SmState
<1>3. SmFilled(a) \in Nat /\ s.popped \in Nat /\ Len(s.smilies) \in Nat /\ SmFits(a)
  <2>1. s.smilies \in Seq(A) /\ s.popped \in Nat /\ SmFits(s.buckets)
    BY <1>1 DEF SmSound, SmState
  <2>2. Len(s.smilies) \in Nat
    BY <2>1
  <2>3. SmFilled(s.buckets) \in Nat
    BY <2>1, SmFilledIs
  <2> QED BY <2>1, <2>2, <2>3
<1>4. /\ a \in Seq(SmBuckets) /\ Len(a) \in Nat /\ \A k \in 1 .. Len(a) : a[k] \in SmBuckets
      /\ a[i].filled + 1 \in Nat /\ a[i].filled + 1 <= a[i].capacity
  <2>1. a \in Seq(SmBuckets) /\ Len(a) \in Nat /\ \A k \in 1 .. Len(a) : a[k] \in SmBuckets
    BY <1>3 DEF SmFits
  <2>2. a[i].filled \in Nat /\ a[i].capacity \in Nat
    BY <2>1 DEF SmBuckets
  <2> QED BY <2>1, <2>2
<1>5. /\ b \in Seq(SmBuckets) /\ Len(b) = Len(a)
      /\ \A k \in 1 .. Len(a) : /\ b[k].capacity = a[k].capacity
                                /\ b[k].filled = IF k = i THEN a[k].filled + 1 ELSE a[k].filled
  <2>1. [a[i] EXCEPT !.filled = @ + 1] \in SmBuckets
    <3>1. a[i] \in SmBuckets
      BY <1>4
    <3> QED BY <1>4, <3>1 DEF SmBuckets
  <2>2. b = [a EXCEPT ![i] = [a[i] EXCEPT !.filled = @ + 1]]
    BY <1>4
  <2>3. b \in Seq(SmBuckets) /\ Len(b) = Len(a)
    BY <1>4, <2>1, <2>2
  <2>4. ASSUME NEW k \in 1 .. Len(a)
        PROVE  /\ b[k].capacity = a[k].capacity
               /\ b[k].filled = IF k = i THEN a[k].filled + 1 ELSE a[k].filled
    <3>1. a[k] \in SmBuckets /\ b[k] = IF k = i THEN [a[k] EXCEPT !.filled = @ + 1] ELSE a[k]
      BY <1>4, <2>2
    <3> HIDE DEF b
    <3> QED BY <3>1 DEF SmBuckets
  <2> QED BY <2>3, <2>4
<1>6. SmFits(b)
  <2> HIDE DEF b
  <2>1. ASSUME NEW k \in 1 .. Len(b)
        PROVE  b[k].filled <= b[k].capacity /\ b[k].capacity = SmScenario.buckets[k].capacity
    BY <1>3, <1>4, <1>5 DEF SmFits
  <2> QED BY <1>3, <1>5, <2>1 DEF SmFits
<1>7. SmFilled(b) = SmFilled(a) + 1
  <2> DEFINE fa == [k \in DOMAIN a |-> a[k].filled]
             fb == [k \in DOMAIN b |-> b[k].filled]
  <2>0. \A k \in 1 .. Len(a) : a[k].filled \in Int /\ b[k].filled \in Int
    <3>1. \A x \in SmBuckets : x.filled \in Int
      BY DEF SmBuckets
    <3>2. \A k \in 1 .. Len(a) : a[k] \in SmBuckets /\ b[k] \in SmBuckets
      <4> HIDE DEF b
      <4> QED BY <1>4, <1>5
    <3> HIDE DEF a, b
    <3> QED BY <3>1, <3>2
  <2>1. DOMAIN b = 1 .. Len(a) /\ DOMAIN a = 1 .. Len(a)
    <3> HIDE DEF b
    <3> QED BY <1>4, <1>5
  <2>2. fa \in Seq(Int) /\ fb \in Seq(Int) /\ Len(fa) = Len(a) /\ Len(fb) = Len(a)
    <3> HIDE DEF b
    <3> QED BY <1>4, <2>0, <2>1
  <2>3. \A k \in 1 .. Len(fa) : fb[k] = IF k = i THEN fa[k] + 1 ELSE fa[k]
    <3> HIDE DEF b
    <3> QED BY <1>4, <1>5, <2>0, <2>1, <2>2
  <2> HIDE DEF fa, fb, a, b
  <2>4. Total(fb) = Total(fa) + 1
    <3>1. i \in 1 .. Len(fa) /\ Len(fa) = Len(fb)
      BY <2>2 DEF a
    <3> QED BY <2>2, <2>3, <3>1, TotalOfOneMore
  <2> QED BY <2>4 DEF SmFilled, fa, fb
<1>8. t.buckets = b /\ t.best = best /\ t.score = score
  BY <1>2 DEF SmState, SmCatch
<1>9. /\ t \in SmState(B) /\ t.smilies = s.smilies /\ t.tick = s.tick /\ t.status = s.status
      /\ t.reason = s.reason /\ t.dropped = s.dropped /\ t.popped = s.popped
  <2> HIDE DEF B, b
  <2>1. /\ t.smilies = s.smilies /\ t.tick = s.tick /\ t.status = s.status
        /\ t.reason = s.reason /\ t.dropped = s.dropped /\ t.popped = s.popped
    BY <1>2 DEF SmState, SmCatch
  <2>2. t = [s EXCEPT !.buckets = b, !.caught = s.caught + 1, !.combo = s.combo + 1, !.best = best, !.score = score]
    BY <1>2, <1>8 DEF SmState, SmCatch, b
  <2> HIDE DEF t, best, score
  <2>3. t \in SmState(B)
    BY <1>2, <1>5, <2>2 DEF SmState
  <2> QED BY <2>1, <2>3
<1> HIDE DEF t, b, B
<1>10. SmSpends(s, t, 1, 0)
  BY <1>3, <1>6, <1>7, <1>8, <1>9 DEF SmSpends, SmSound
<1>11. Len(t.smilies) = Len(s.smilies) + 1 - 1 - 0
  BY <1>3, <1>9
<1> QED BY <1>10, <1>11 DEF SmVisited, t

\* The least of some numbers is one of them.
LEMMA MinIsOne ==
  ASSUME NEW T \in SUBSET Nat, T # {}
  PROVE  Min(T) \in T
<1>1. \E m \in T : \A k \in T : m <= k
  BY LeastNumber
<1> QED BY <1>1 DEF Min

\* A smiley that lands is kept, bruised, or caught by the pail that has room.
LEMMA SmLands ==
  ASSUME NEW s, SmSound(s), NEW smiley
  PROVE  SmVisited(s, SmLand(s, smiley))
<1> DEFINE hits == {k \in DOMAIN s.buckets :
                      /\ smiley.y - smiley.vy < SmMouth(s.buckets[k]) /\ smiley.y >= SmMouth(s.buckets[k])
                      /\ smiley.x >= s.buckets[k].x /\ smiley.x <= s.buckets[k].x + s.buckets[k].width}
           i == IF hits = {} THEN 0 ELSE Min(hits)
           b == s.buckets[i]
           inside == smiley.x >= b.x + SmPhysics.rim /\ smiley.x <= b.x + b.width - SmPhysics.rim
<1>1. i = 0 \/ i \in 1 .. Len(s.buckets)
  <2>1. DOMAIN s.buckets = 1 .. Len(s.buckets) /\ Len(s.buckets) \in Nat
    BY DEF SmSound, SmFits
  <2>2. hits \in SUBSET Nat /\ hits \subseteq 1 .. Len(s.buckets)
    BY <2>1
  <2> HIDE DEF hits
  <2> QED BY <2>2, MinIsOne
<1>2. \/ \E x, n : SmLand(s, smiley) = SmBruise(s, x, n)
      \/ SmLand(s, smiley) = SmKeep(s, smiley)
      \/ i > 0 /\ b.filled < b.capacity /\ SmLand(s, smiley) = SmCatch(s, smiley, i)
  <2>1. CASE i > 0 /\ inside /\ b.filled < b.capacity
    <3>1. SmLand(s, smiley) = SmCatch(s, smiley, i)
      BY <2>1 DEF SmLand, SmFirst
    <3> QED BY <2>1, <3>1
  <2>2. CASE i > 0 /\ ~ (inside /\ b.filled < b.capacity)
    <3>1. \E x, n : SmLand(s, smiley) = SmBruise(s, x, n)
      BY <2>2 DEF SmLand, SmFirst
    <3> QED BY <3>1
  <2>3. CASE ~ (i > 0)
    <3>1. \/ \E x, n : SmLand(s, smiley) = SmBruise(s, x, n)
          \/ SmLand(s, smiley) = SmKeep(s, smiley)
      BY <2>3 DEF SmLand, SmFirst
    <3> QED BY <3>1
  <2> QED BY <2>1, <2>2, <2>3
<1> HIDE DEF i
<1>3. i > 0 => i \in 1 .. Len(s.buckets)
  BY <1>1
<1> QED BY <1>2, <1>3, SmBruises, SmKeeps, SmCatches

\* The phases of a tick that take the smileys one after the other.
SmPhases == {"move", "rocks", "spikes", "landings", "ledges", "pails"}
\* Whatever a phase does to a smiley, it stays, is caught or is popped.
LEMMA SmVisits ==
  ASSUME NEW s, SmSound(s), NEW smiley, NEW phase \in SmPhases
  PROVE  SmVisited(s, SmVisit(phase, s, smiley))
<1>1. \E x, n : SmMove(s, smiley) = SmBruise(s, x, n)
  BY DEF SmMove
<1>2. \/ SmRockHit(s, smiley) = SmKeep(s, smiley) \/ SmRockHit(s, smiley) = SmPop(s)
      \/ \E x, n : SmRockHit(s, smiley) = SmBruise(s, x, n)
  BY DEF SmRockHit
<1>3. SmSpiked(s, smiley) = SmKeep(s, smiley) \/ SmSpiked(s, smiley) = SmPop(s)
  BY DEF SmSpiked
<1>4. \E x, n : SmMeet(phase, s, smiley) = SmBruise(s, x, n)
  BY DEF SmMeet
<1>5. \/ SmVisit(phase, s, smiley) = SmMove(s, smiley) \/ SmVisit(phase, s, smiley) = SmRockHit(s, smiley)
      \/ SmVisit(phase, s, smiley) = SmSpiked(s, smiley) \/ SmVisit(phase, s, smiley) = SmLand(s, smiley)
      \/ SmVisit(phase, s, smiley) = SmMeet(phase, s, smiley)
  BY DEF SmVisit, SmPhases
<1>6. \A x, n : SmVisited(s, SmBruise(s, x, n))
  BY SmBruises
<1>7. SmVisited(s, SmKeep(s, smiley)) /\ SmVisited(s, SmPop(s)) /\ SmVisited(s, SmLand(s, smiley))
  BY SmKeeps, SmPops, SmLands
<1> QED BY <1>1, <1>2, <1>3, <1>4, <1>5, <1>6, <1>7

\* The engines between the smileys of a phase.
SmBetween(s, phase, g, n) ==
  g = [k \in 0 .. n |-> IF k = 0 THEN [s EXCEPT !.smilies = <<>>] ELSE SmVisit(phase, g[k - 1], s.smilies[k])]

\* There are such engines.
LEMMA SmBetweenExist ==
  ASSUME NEW s, NEW phase, NEW n \in Nat
  PROVE  \E g : SmBetween(s, phase, g, n)
<1> DEFINE T == {m \in Nat : \E g : SmBetween(s, phase, g, m)}
           first == [s EXCEPT !.smilies = <<>>]
<1>1. 0 \in T
  <2>1. SmBetween(s, phase, [k \in 0 .. 0 |-> first], 0)
    BY DEF SmBetween
  <2> QED BY <2>1
<1>2. ASSUME NEW m \in 0 .. n - 1, m \in T PROVE m + 1 \in T
  <2>1. PICK g : SmBetween(s, phase, g, m)
    BY <1>2
  <2> DEFINE next(k, f) == SmVisit(phase, f[k - 1], s.smilies[k])
  <2> DEFINE h == [k \in 0 .. m + 1 |-> IF k = m + 1 THEN next(k, g) ELSE g[k]]
  <2>2. ASSUME NEW k \in 0 .. m + 1 PROVE h[k] = IF k = 0 THEN first ELSE next(k, h)
    <3>1. CASE k = m + 1
      <4>1. h[k - 1] = g[k - 1] /\ h[k] = next(k, g) /\ k # 0
        BY <3>1
      <4> QED BY <4>1
    <3>2. CASE k # m + 1
      <4>1. k \in 0 .. m /\ h[k] = g[k] /\ (k # 0 => h[k - 1] = g[k - 1])
        BY <3>2
      <4>2. g[k] = IF k = 0 THEN first ELSE next(k, g)
        BY <2>1, <4>1 DEF SmBetween
      <4> QED BY <4>1, <4>2
    <3> QED BY <3>1, <3>2
  <2>3. h = [k \in 0 .. m + 1 |-> h[k]]
    OBVIOUS
  <2>4. SmBetween(s, phase, h, m + 1)
    <3> DEFINE Is(k) == IF k = 0 THEN first ELSE next(k, h)
    <3> HIDE DEF h
    <3>1. [k \in 0 .. m + 1 |-> h[k]] = [k \in 0 .. m + 1 |-> Is(k)]
      BY <2>2
    <3> QED BY <2>3, <3>1 DEF SmBetween
  <2> QED BY <2>4
<1>3. 0 .. n \subseteq T
  <2> HIDE DEF T
  <2> QED BY <1>1, <1>2, Upwards
<1> QED BY <1>3

\* A phase catches and pops some of the flock and keeps the others.
LEMMA SmEachFlies ==
  ASSUME NEW s, SmSound(s), NEW phase \in SmPhases
  PROVE  SmFlies(s, SmEach(s, phase))
<1> DEFINE n == Len(s.smilies)
           first == [s EXCEPT !.smilies = <<>>]
           after == CHOOSE g : SmBetween(s, phase, g, n)
<1>0. PICK A : s \in SmState(A)
  BY DEF SmSound
<1>1. n \in Nat
  BY <1>0 DEF SmState
<1>2. SmBetween(s, phase, after, n)
  BY <1>1, SmBetweenExist
<1>3. SmEach(s, phase) = after[n]
  BY DEF SmEach, SmBetween
<1>4. /\ first \in SmState(A) /\ first.smilies = <<>> /\ first.tick = s.tick /\ first.status = s.status
      /\ first.reason = s.reason /\ first.dropped = s.dropped /\ first.buckets = s.buckets
      /\ first.popped = s.popped
  <2>1. <<>> \in Seq(A)
    OBVIOUS
  <2> HIDE DEF n
  <2> QED BY <1>0, <2>1 DEF SmState
<1>5. SmFilled(s.buckets) \in Nat /\ s.popped \in Nat
  BY <1>0, SmFilledIs DEF SmSound, SmState
<1>6. SmSpends(s, first, 0, 0)
  <2> HIDE DEF first
  <2> QED BY <1>4, SmAside
<1>7. after[0] = first /\ \A k \in 1 .. n : after[k] = SmVisit(phase, after[k - 1], s.smilies[k])
  <2> HIDE DEF after, n
  <2> QED BY <1>1, <1>2 DEF SmBetween
<1> HIDE DEF after, first, n
<1> DEFINE Flown(k) == \E catch, pop \in Nat :
                         SmSpends(s, after[k], catch, pop) /\ Len(after[k].smilies) = k - catch - pop
           T == {k \in 0 .. n : Flown(k)}
<1>8. 0 \in T
  <2>1. SmSpends(s, after[0], 0, 0) /\ Len(after[0].smilies) = 0 - 0 - 0
    BY <1>4, <1>6, <1>7
  <2> QED BY <1>1, <2>1
<1>9. ASSUME NEW k \in 0 .. n - 1, k \in T PROVE k + 1 \in T
  <2>1. PICK c \in Nat, p \in Nat : SmSpends(s, after[k], c, p) /\ Len(after[k].smilies) = k - c - p
    BY <1>9
  <2>2. k + 1 \in 1 .. n /\ (k + 1) - 1 = k /\ k + 1 \in 0 .. n
    BY <1>1
  <2>3. after[k + 1] = SmVisit(phase, after[k], s.smilies[k + 1])
    BY <1>7, <2>2
  <2>4. SmVisited(after[k], after[k + 1])
    BY <2>1, <2>3, SmVisits DEF SmSpends
  <2>5. PICK d \in 0 .. 1, q \in 0 .. 1 :
          SmSpends(after[k], after[k + 1], d, q) /\ Len(after[k + 1].smilies) = Len(after[k].smilies) + 1 - d - q
    BY <2>4 DEF SmVisited
  <2>6. c + d \in Nat /\ p + q \in Nat
    OBVIOUS
  <2>7. SmSpends(s, after[k + 1], c + d, p + q)
    <3>1. SmFilled(after[k + 1].buckets) = SmFilled(s.buckets) + c + d /\ after[k + 1].popped = s.popped + p + q
      BY <2>1, <2>5 DEF SmSpends
    <3>2. SmFilled(s.buckets) + c + d = SmFilled(s.buckets) + (c + d) /\ s.popped + p + q = s.popped + (p + q)
      BY <1>5
    <3> QED BY <2>1, <2>5, <3>1, <3>2 DEF SmSpends
  <2>8. Len(after[k + 1].smilies) = (k + 1) - (c + d) - (p + q)
    <3> HIDE DEF T
    <3>1. Len(after[k + 1].smilies) = (k - c - p) + 1 - d - q
      BY <2>1, <2>5
    <3> QED BY <3>1
  <2> HIDE DEF T
  <2>9. Flown(k + 1)
    BY <2>6, <2>7, <2>8
  <2> QED BY <2>2, <2>9 DEF T
<1>10. n \in T
  <2> HIDE DEF T
  <2>1. 0 .. n \subseteq T
    BY <1>1, <1>8, <1>9, Upwards
  <2> QED BY <1>1, <2>1
<1>11. PICK c \in Nat, p \in Nat : SmSpends(s, after[n], c, p) /\ Len(after[n].smilies) = n - c - p
  BY <1>10
<1> QED BY <1>3, <1>11 DEF SmFlies, n

\* Steps like these make steps like these.
LEMMA SmFliesOn ==
  ASSUME NEW s, NEW t, NEW u, SmSound(s), SmFlies(s, t), SmFlies(t, u)
  PROVE  SmFlies(s, u)
<1>1. PICK c \in Nat, p \in Nat : SmSpends(s, t, c, p) /\ Len(t.smilies) = Len(s.smilies) - c - p
  BY DEF SmFlies
<1>2. PICK d \in Nat, q \in Nat : SmSpends(t, u, d, q) /\ Len(u.smilies) = Len(t.smilies) - d - q
  BY DEF SmFlies
<1>3. SmFilled(s.buckets) \in Nat /\ s.popped \in Nat /\ Len(s.smilies) \in Nat
  <2>1. PICK A : s \in SmState(A)
    BY DEF SmSound
  <2>2. s.smilies \in Seq(A) /\ s.popped \in Nat
    BY <2>1 DEF SmState
  <2>3. Len(s.smilies) \in Nat
    BY <2>2
  <2> QED BY <2>2, <2>3, SmFilledIs DEF SmSound
<1>4. SmSpends(s, u, c + d, p + q)
  <2>1. SmFilled(u.buckets) = SmFilled(s.buckets) + c + d /\ u.popped = s.popped + p + q
    BY <1>1, <1>2 DEF SmSpends
  <2>2. SmFilled(s.buckets) + c + d = SmFilled(s.buckets) + (c + d) /\ s.popped + p + q = s.popped + (p + q)
    BY <1>3
  <2> QED BY <1>1, <1>2, <2>1, <2>2 DEF SmSpends
<1>5. Len(u.smilies) = Len(s.smilies) - (c + d) - (p + q)
  <2>1. Len(u.smilies) = (Len(s.smilies) - c - p) - d - q
    BY <1>1, <1>2
  <2> QED BY <1>3, <2>1
<1>6. c + d \in Nat /\ p + q \in Nat
  OBVIOUS
<1> QED BY <1>4, <1>5, <1>6 DEF SmFlies

\* An engine in which only what the ledger leaves out has changed.
LEMMA SmStays ==
  ASSUME NEW s, SmSound(s), NEW t, NEW A, t \in SmState(A), t.buckets = s.buckets, t.popped = s.popped,
         t.tick = s.tick, t.status = s.status, t.reason = s.reason, t.dropped = s.dropped,
         Len(t.smilies) = Len(s.smilies)
  PROVE  SmFlies(s, t)
<1>1. SmSpends(s, t, 0, 0)
  BY SmAside
<1>2. Len(s.smilies) \in Nat
  <2>1. PICK B : s \in SmState(B)
    BY DEF SmSound
  <2>2. s.smilies \in Seq(B)
    BY <2>1 DEF SmState
  <2> QED BY <2>2
<1>3. Len(t.smilies) = Len(s.smilies) - 0 - 0
  BY <1>2
<1> QED BY <1>1, <1>3 DEF SmFlies

\* A hop, the walk of the pails, the flight of the rocks and the charging of
\* the next hop are nothing to the ledger.
LEMMA SmHopFlies ==
  ASSUME NEW s, SmSound(s)
  PROVE  SmFlies(s, SmHop(s))
<1>1. PICK A : s \in SmState(A)
  BY DEF SmSound
<1> DEFINE lifted == [k \in DOMAIN s.smilies |-> [s.smilies[k] EXCEPT !.vy = -SmPhysics.hop]]
           C == {lifted[k] : k \in DOMAIN s.smilies}
           B == A \cup C \cup {TRUE, s.charges - 1}
<1>2. s.smilies \in Seq(A)
  BY <1>1 DEF SmState
<1>3. lifted \in Seq(B) /\ Len(lifted) = Len(s.smilies)
  <2>1. DOMAIN s.smilies = 1 .. Len(s.smilies) /\ Len(s.smilies) \in Nat
    BY <1>2
  <2>2. DOMAIN lifted = 1 .. Len(s.smilies) /\ \A k \in 1 .. Len(s.smilies) : lifted[k] \in B
    BY <2>1
  <2>3. lifted = [k \in 1 .. Len(s.smilies) |-> lifted[k]]
    BY <2>1
  <2> HIDE DEF lifted, B
  <2> QED BY <2>1, <2>2, <2>3
<1>4. s \in SmState(B) /\ TRUE \in B /\ s.charges - 1 \in B
  <2> A \subseteq B
    OBVIOUS
  <2>1. s.smilies \in Seq(B)
    <3> HIDE DEF B
    <3> QED BY <1>2
  <2> HIDE DEF B
  <2>2. s \in SmState(B)
    BY <1>1, <2>1 DEF SmState
  <2> QED BY <2>2 DEF B
<1> HIDE DEF B
<1>5. CASE SmHop(s) = s
  BY <1>1, <1>5, SmStays
<1>6. CASE SmHop(s) = [s EXCEPT !.latch = TRUE]
  <2> DEFINE t == [s EXCEPT !.latch = TRUE]
  <2>1. /\ t \in SmState(B) /\ t.smilies = s.smilies /\ t.tick = s.tick /\ t.status = s.status
        /\ t.reason = s.reason /\ t.dropped = s.dropped /\ t.buckets = s.buckets /\ t.popped = s.popped
    BY <1>4 DEF SmState
  <2> HIDE DEF t
  <2>2. SmFlies(s, t)
    BY <2>1, SmStays
  <2> QED BY <1>6, <2>2 DEF t
<1>7. CASE SmHop(s) = [s EXCEPT !.latch = TRUE, !.charges = @ - 1, !.smilies = lifted]
  <2> DEFINE t == [s EXCEPT !.latch = TRUE, !.charges = @ - 1, !.smilies = lifted]
  <2> HIDE DEF lifted
  <2>1. /\ t \in SmState(B) /\ t.smilies = lifted /\ t.tick = s.tick /\ t.status = s.status
        /\ t.reason = s.reason /\ t.dropped = s.dropped /\ t.buckets = s.buckets /\ t.popped = s.popped
    BY <1>3, <1>4 DEF SmState
  <2> HIDE DEF t
  <2>2. SmFlies(s, t)
    BY <1>3, <2>1, SmStays
  <2> QED BY <1>7, <2>2 DEF t
<1>8. \/ SmHop(s) = s \/ SmHop(s) = [s EXCEPT !.latch = TRUE]
      \/ SmHop(s) = [s EXCEPT !.latch = TRUE, !.charges = @ - 1, !.smilies = lifted]
  <2> HIDE <1>5, <1>6, <1>7
  <2>1. s.smilies = [s EXCEPT !.latch = TRUE].smilies
    BY <1>1 DEF SmState
  <2> QED BY <1>1 DEF SmHop, SmState
<1> QED BY <1>5, <1>6, <1>7, <1>8

\* The rocks fly on.
LEMMA SmRocksFly ==
  ASSUME NEW s, SmSound(s)
  PROVE  SmFlies(s, SmMoveRocks(s))
<1>1. PICK A : s \in SmState(A)
  BY DEF SmSound
<1> DEFINE rocks == SmRocksOn(s.rocks)
           B == A \cup {rocks}
           t == [s EXCEPT !.rocks = rocks]
<1>2. s.smilies \in Seq(A) /\ s.smilies \in Seq(B)
  BY <1>1 DEF SmState
<1>3. s \in SmState(B) /\ rocks \in B
  BY <1>1, <1>2 DEF SmState
<1>4. SmMoveRocks(s) = t
  BY <1>1 DEF SmMoveRocks, SmState
<1> HIDE DEF rocks, B
<1>5. /\ t \in SmState(B) /\ t.smilies = s.smilies /\ t.tick = s.tick /\ t.status = s.status
      /\ t.reason = s.reason /\ t.dropped = s.dropped /\ t.buckets = s.buckets /\ t.popped = s.popped
  BY <1>3 DEF SmState
<1> HIDE DEF t
<1> QED BY <1>4, <1>5, SmStays

\* The next hop is charged.
LEMMA SmRecharges ==
  ASSUME NEW s, SmSound(s)
  PROVE  SmFlies(s, SmRecharge(s))
<1>1. PICK A : s \in SmState(A)
  BY DEF SmSound
<1> DEFINE B == A \cup {0, s.charges + 1, s.progress + 1}
<1>2. s.smilies \in Seq(A) /\ s.smilies \in Seq(B)
  BY <1>1 DEF SmState
<1>3. s \in SmState(B) /\ {0, s.charges + 1, s.progress + 1} \subseteq B
  BY <1>1, <1>2 DEF SmState
<1> HIDE DEF B
<1>4. \/ SmRecharge(s) = [s EXCEPT !.progress = 0]
      \/ SmRecharge(s) = [s EXCEPT !.progress = 0, !.charges = @ + 1]
      \/ SmRecharge(s) = [s EXCEPT !.progress = @ + 1]
  BY DEF SmRecharge
<1> DEFINE t == SmRecharge(s)
<1>5. /\ t \in SmState(B) /\ t.smilies = s.smilies /\ t.tick = s.tick /\ t.status = s.status
      /\ t.reason = s.reason /\ t.dropped = s.dropped /\ t.buckets = s.buckets /\ t.popped = s.popped
  <2>1. CASE SmRecharge(s) = [s EXCEPT !.progress = 0]
    BY <1>3, <2>1 DEF SmState
  <2>2. CASE SmRecharge(s) = [s EXCEPT !.progress = 0, !.charges = @ + 1]
    BY <1>3, <2>2 DEF SmState
  <2>3. CASE SmRecharge(s) = [s EXCEPT !.progress = @ + 1]
    BY <1>3, <2>3 DEF SmState
  <2> QED BY <1>4, <2>1, <2>2, <2>3
<1> HIDE DEF t
<1>6. SmFlies(s, t)
  BY <1>5, SmStays
<1> QED BY <1>6 DEF t

\* The pails walk, with what they hold.
LEMMA SmBucketsMove ==
  ASSUME NEW s, SmSound(s)
  PROVE  SmFlies(s, SmMoveBuckets(s))
<1>1. PICK A : s \in SmState(A)
  BY DEF SmSound
<1> DEFINE a == s.buckets
           speed(k) == IF a[k].v < 0 THEN -a[k].v ELSE a[k].v
           moved(k) == IF a[k].v = 0 THEN a[k]
                       ELSE IF a[k].x + a[k].v <= a[k].minX THEN [a[k] EXCEPT !.x = a[k].minX, !.v = speed(k)]
                       ELSE IF a[k].x + a[k].v >= a[k].maxX THEN [a[k] EXCEPT !.x = a[k].maxX, !.v = -speed(k)]
                       ELSE [a[k] EXCEPT !.x = a[k].x + a[k].v]
           b == [k \in DOMAIN a |-> moved(k)]
           t == [s EXCEPT !.buckets = b]
<1>2. a \in Seq(SmBuckets) /\ Len(a) \in Nat /\ DOMAIN a = 1 .. Len(a) /\ \A k \in 1 .. Len(a) : a[k] \in SmBuckets
  <2>1. a \in Seq(SmBuckets)
    BY DEF SmSound, SmFits
  <2> HIDE DEF a
  <2> QED BY <2>1
<1>3. \A k \in 1 .. Len(a) : moved(k) \in SmBuckets /\ moved(k).filled = a[k].filled /\ moved(k).capacity = a[k].capacity
  <2> TAKE k \in 1 .. Len(a)
  <2> DEFINE c == a[k]
             sp == IF c.v < 0 THEN -c.v ELSE c.v
  <2>1. c \in SmBuckets
    BY <1>2
  <2> HIDE DEF c
  <2>2. sp \in Int /\ -sp \in Int /\ c.x + c.v \in Int /\ c.minX \in Int /\ c.maxX \in Int
    BY <2>1 DEF SmBuckets
  <2> HIDE DEF sp
  <2>3. /\ [c EXCEPT !.x = c.minX, !.v = sp] \in SmBuckets
        /\ [c EXCEPT !.x = c.minX, !.v = sp].filled = c.filled
        /\ [c EXCEPT !.x = c.minX, !.v = sp].capacity = c.capacity
    BY <2>1, <2>2 DEF SmBuckets
  <2>4. /\ [c EXCEPT !.x = c.maxX, !.v = -sp] \in SmBuckets
        /\ [c EXCEPT !.x = c.maxX, !.v = -sp].filled = c.filled
        /\ [c EXCEPT !.x = c.maxX, !.v = -sp].capacity = c.capacity
    BY <2>1, <2>2 DEF SmBuckets
  <2>5. /\ [c EXCEPT !.x = c.x + c.v] \in SmBuckets
        /\ [c EXCEPT !.x = c.x + c.v].filled = c.filled
        /\ [c EXCEPT !.x = c.x + c.v].capacity = c.capacity
    BY <2>1, <2>2 DEF SmBuckets
  <2> DEFINE m == IF c.v = 0 THEN c
                  ELSE IF c.x + c.v <= c.minX THEN [c EXCEPT !.x = c.minX, !.v = sp]
                  ELSE IF c.x + c.v >= c.maxX THEN [c EXCEPT !.x = c.maxX, !.v = -sp]
                  ELSE [c EXCEPT !.x = c.x + c.v]
  <2>6. m \in SmBuckets /\ m.filled = c.filled /\ m.capacity = c.capacity
    BY <2>1, <2>3, <2>4, <2>5
  <2>7. moved(k) = m
    BY DEF c, sp
  <2> HIDE DEF m, moved, a
  <2> QED BY <2>6, <2>7 DEF c
<1>4. SmMoveBuckets(s) = t
  BY <1>1 DEF SmMoveBuckets, SmState
<1> HIDE DEF moved
<1>5. /\ b \in Seq(SmBuckets) /\ Len(b) = Len(a) /\ DOMAIN b = DOMAIN a
      /\ \A k \in 1 .. Len(a) : b[k].filled = a[k].filled /\ b[k].capacity = a[k].capacity
  <2> HIDE DEF a
  <2> QED BY <1>2, <1>3
<1> HIDE DEF b
<1>6. SmFits(b) /\ SmFilled(b) = SmFilled(a)
  <2>1. SmFits(a)
    BY DEF SmSound
  <2> HIDE DEF a
  <2>2. SmFits(b)
    BY <1>2, <1>5, <2>1 DEF SmFits
  <2>3. [k \in DOMAIN b |-> b[k].filled] = [k \in DOMAIN a |-> a[k].filled]
    BY <1>2, <1>5
  <2> QED BY <2>2, <2>3 DEF SmFilled
<1>7. /\ t \in SmState(A) /\ t.smilies = s.smilies /\ t.tick = s.tick /\ t.status = s.status
      /\ t.reason = s.reason /\ t.dropped = s.dropped /\ t.buckets = b /\ t.popped = s.popped
  BY <1>1, <1>5 DEF SmState
<1> HIDE DEF t
<1>8. SmFilled(a) \in Nat /\ s.popped \in Nat /\ Len(s.smilies) \in Nat
  <2>1. s.smilies \in Seq(A) /\ s.popped \in Nat
    BY <1>1 DEF SmState
  <2>2. SmFilled(s.buckets) \in Nat
    BY SmFilledIs DEF SmSound
  <2>3. Len(s.smilies) \in Nat
    BY <2>1
  <2> QED BY <2>1, <2>2, <2>3
<1>9. SmSpends(s, t, 0, 0)
  BY <1>6, <1>7, <1>8 DEF SmSpends, SmSound
<1>10. Len(t.smilies) = Len(s.smilies) - 0 - 0
  BY <1>7, <1>8
<1> QED BY <1>4, <1>9, <1>10 DEF SmFlies

\* What is due of a schedule is what is left of it at most.
LEMMA SmDueIs ==
  ASSUME NEW schedule, NEW n \in Nat, DOMAIN schedule = 1 .. n, NEW from \in 0 .. n, NEW now
  PROVE  SmDue(schedule, from, now) \in 0 .. n - from
<1> DEFINE due == {k \in DOMAIN schedule : k > from /\ schedule[k].tick <= now}
<1>1. due \subseteq from + 1 .. n
  OBVIOUS
<1>2. from + 1 \in Int /\ n \in Int
  OBVIOUS
<1>3. IsFiniteSet(from + 1 .. n) /\ Cardinality(from + 1 .. n) = IF from + 1 > n THEN 0 ELSE n - (from + 1) + 1
  BY <1>2, FS_Interval
<1> HIDE DEF due
<1>4. IsFiniteSet(due) /\ Cardinality(due) <= Cardinality(from + 1 .. n) /\ Cardinality(due) \in Nat
  BY <1>1, <1>3, FS_Subset, FS_CardinalityType
<1>5. Cardinality(due) <= n - from
  BY <1>3, <1>4
<1> QED BY <1>4, <1>5 DEF SmDue, due

\* The rocks thrown are nothing to the ledger.
LEMMA SmThrows ==
  ASSUME NEW s, SmSound(s)
  PROVE  SmFlies(s, SmSpawnRocks(s))
<1>1. PICK A : s \in SmState(A)
  BY DEF SmSound
<1> DEFINE rocks == SmSpawnRocks(s).rocks
           thrown == SmSpawnRocks(s).thrown
           B == A \cup {rocks, thrown}
           t == [s EXCEPT !.rocks = rocks, !.thrown = thrown]
<1>2. s.smilies \in Seq(A) /\ s.smilies \in Seq(B)
  BY <1>1 DEF SmState
<1>3. s \in SmState(B) /\ rocks \in B /\ thrown \in B
  BY <1>1, <1>2 DEF SmState
<1>4. SmSpawnRocks(s) = t
  BY <1>1 DEF SmSpawnRocks, SmState
<1> HIDE DEF rocks, thrown, B
<1>5. /\ t \in SmState(B) /\ t.smilies = s.smilies /\ t.tick = s.tick /\ t.status = s.status
      /\ t.reason = s.reason /\ t.dropped = s.dropped /\ t.buckets = s.buckets /\ t.popped = s.popped
  BY <1>3 DEF SmState
<1> HIDE DEF t
<1> QED BY <1>4, <1>5, SmStays

\* The smilies that drop come from those that waited.
LEMMA SmDrops ==
  ASSUME NEW s, SmSound(s), s.dropped <= Len(SmScenario.drops)
  PROVE  \E d \in 0 .. Len(SmScenario.drops) - s.dropped :
           LET t == SmSpawnDrops(s)
           IN  /\ SmSound(t) /\ t.dropped = s.dropped + d /\ Len(t.smilies) = Len(s.smilies) + d
               /\ t.tick = s.tick /\ t.status = s.status /\ t.reason = s.reason /\ t.buckets = s.buckets
               /\ t.popped = s.popped
<1>1. PICK A : s \in SmState(A)
  BY DEF SmSound
<1> DEFINE n == Len(SmScenario.drops)
           d == SmDue(SmScenario.drops, s.dropped, s.tick)
           drop(k) == SmScenario.drops[s.dropped + k]
           made(k) == [x |-> SmClamp(drop(k).x, SmRadius, SmScenario.width - SmRadius), y |-> drop(k).y,
                       vx |-> drop(k).vx, vy |-> 0, radius |-> SmRadius, bruises |-> 0, grace |-> 0]
           new == [k \in 1 .. d |-> made(k)]
           B == A \cup {made(k) : k \in 1 .. d}
           t == [s EXCEPT !.smilies = @ \o new, !.dropped = @ + d]
<1>2. n \in Nat /\ DOMAIN SmScenario.drops = 1 .. n /\ s.dropped \in 0 .. n /\ s.dropped \in Nat
  <2>1. s.dropped \in Nat
    BY <1>1 DEF SmState
  <2>2. n \in Nat /\ DOMAIN SmScenario.drops = 1 .. n
    BY SmAssumption
  <2> QED BY <2>1, <2>2
<1>3. d \in 0 .. n - s.dropped /\ d \in Nat
  <2>1. d \in 0 .. n - s.dropped
    <3> HIDE DEF n
    <3> QED BY <1>2, SmDueIs
  <2> QED BY <1>2, <2>1
<1>4. SmSpawnDrops(s) = t
  BY <1>1 DEF SmSpawnDrops, SmState
<1> HIDE DEF d, made
<1>5. new \in Seq(B) /\ Len(new) = d
  <2>1. \A k \in 1 .. d : made(k) \in B
    OBVIOUS
  <2> HIDE DEF B
  <2> QED BY <1>3, <2>1
<1>6. s.smilies \in Seq(B) /\ Len(s.smilies) \in Nat
  BY <1>1 DEF SmState
<1> HIDE DEF new
<1>7. s \in SmState(B)
  BY <1>1, <1>6 DEF SmState
<1> HIDE DEF B
<1>8. s.smilies \o new \in Seq(B) /\ Len(s.smilies \o new) = Len(s.smilies) + d
  BY <1>5, <1>6
<1>9. s.dropped + d \in Nat
  BY <1>2, <1>3
<1>10. /\ t \in SmState(B) /\ t.smilies = s.smilies \o new /\ t.tick = s.tick /\ t.status = s.status
       /\ t.reason = s.reason /\ t.dropped = s.dropped + d /\ t.buckets = s.buckets /\ t.popped = s.popped
  BY <1>7, <1>8, <1>9 DEF SmState
<1> HIDE DEF t, n
<1>11. SmSound(t)
  BY <1>10 DEF SmSound
<1>12. d \in 0 .. Len(SmScenario.drops) - s.dropped
  BY <1>3 DEF n
<1> QED BY <1>4, <1>8, <1>10, <1>11, <1>12

\* The numbers of the ledger are numbers.
LEMMA SmNumbers ==
  ASSUME NEW s, SmSound(s)
  PROVE  /\ SmFilled(s.buckets) \in Nat /\ s.popped \in Nat /\ Len(s.smilies) \in Nat /\ s.dropped \in Nat
         /\ s.tick \in Nat /\ SmCapacity(SmScenario.buckets) \in Nat
         /\ SmFilled(s.buckets) <= SmCapacity(SmScenario.buckets)
<1>1. PICK A : s \in SmState(A)
  BY DEF SmSound
<1>2. s.smilies \in Seq(A) /\ s.popped \in Nat /\ s.dropped \in Nat /\ s.tick \in Nat
  BY <1>1 DEF SmState
<1>3. Len(s.smilies) \in Nat
  BY <1>2
<1> QED BY <1>2, <1>3, SmFilledIs DEF SmSound

\* The verdict of a tick is the ledger's.
SmJudged(w, t) ==
  IF SmFilled(w.buckets) = SmCapacity(SmScenario.buckets) THEN t.status = "won" /\ t.reason = "none"
  ELSE IF Len(w.smilies) + (Len(SmScenario.drops) - w.dropped) <= SmCapacity(SmScenario.buckets) - SmFilled(w.buckets)
  THEN t.status = "lost" /\ t.reason = "out_of_smilies"
  ELSE IF w.tick >= SmScenario.limit THEN t.status = "lost" /\ t.reason = "timeout"
  ELSE t.status = "running" /\ t.reason = "none"
\* SmOutcome gives it.
LEMMA SmJudges ==
  ASSUME NEW w, SmSound(w), w.status = "running", w.reason = "none"
  PROVE  LET t == SmOutcome(w)
         IN  /\ SmSound(t) /\ SmJudged(w, t) /\ t.tick = w.tick /\ t.dropped = w.dropped
             /\ t.buckets = w.buckets /\ t.popped = w.popped /\ t.smilies = w.smilies
<1>1. PICK A : w \in SmState(A)
  BY DEF SmSound
<1> DEFINE score == SmOutcome(w).score
           B == A \cup {score}
           t == SmOutcome(w)
           full == \A k \in DOMAIN w.buckets : w.buckets[k].filled >= w.buckets[k].capacity
           spent == SmLeft(w) <= SmSlots(w)
           late == w.tick >= SmScenario.limit
           drops == Len(SmScenario.drops)
<1>2. w.smilies \in Seq(B) /\ Len(w.smilies) \in Nat
  BY <1>1 DEF SmState
<1>3. w \in SmState(B) /\ score \in B
  BY <1>1, <1>2 DEF SmState
<1>4. full <=> SmFilled(w.buckets) = SmCapacity(SmScenario.buckets)
  <2>1. DOMAIN w.buckets = 1 .. Len(w.buckets)
    BY DEF SmSound, SmFits
  <2> QED BY <2>1, SmFilledIs DEF SmSound
<1>5. spent <=> Len(w.smilies) + (drops - w.dropped) <= SmCapacity(SmScenario.buckets) - SmFilled(w.buckets)
  <2>1. SmSlots(w) = SmCapacity(SmScenario.buckets) - SmFilled(w.buckets)
    BY SmFilledIs DEF SmSlots, SmSound
  <2>2. drops \in Nat /\ w.dropped \in Nat /\ Len(w.smilies) \in Nat
    <3>1. drops \in Nat
      BY SmAssumption
    <3> QED BY <3>1, SmNumbers
  <2>3. SmLeft(w) = Len(w.smilies) + (drops - w.dropped)
    <3>1. SmLeft(w) = Len(w.smilies) + drops - w.dropped
      BY DEF SmLeft
    <3> HIDE DEF drops
    <3> QED BY <2>2, <3>1
  <2> QED BY <2>1, <2>3
<1> HIDE DEF B
<1>6. CASE full
  <2>1. t = [w EXCEPT !.status = "won", !.score = score]
    <3>1. t = [w EXCEPT !.status = "won",
                 !.score = @ + SmScenario.timeBonus * Max({0, SmScenario.limit - w.tick})]
      BY <1>6 DEF SmOutcome
    <3> HIDE DEF full
    <3> QED BY <1>1, <3>1 DEF SmState
  <2> HIDE DEF t, score
  <2>2. /\ t \in SmState(B) /\ t.status = "won" /\ t.reason = "none" /\ t.tick = w.tick /\ t.dropped = w.dropped
        /\ t.buckets = w.buckets /\ t.popped = w.popped /\ t.smilies = w.smilies
    BY <1>3, <2>1 DEF SmState
  <2>3. SmJudged(w, t)
    BY <1>4, <1>6, <2>2 DEF SmJudged
  <2>4. SmSound(t)
    BY <2>2 DEF SmSound
  <2> QED BY <2>2, <2>3, <2>4 DEF t
<1>7. CASE ~full /\ spent
  <2>1. t = [w EXCEPT !.status = "lost", !.reason = "out_of_smilies"]
    BY <1>7 DEF SmOutcome
  <2> HIDE DEF t, score
  <2>2. /\ t \in SmState(B) /\ t.status = "lost" /\ t.reason = "out_of_smilies" /\ t.tick = w.tick
        /\ t.dropped = w.dropped /\ t.buckets = w.buckets /\ t.popped = w.popped /\ t.smilies = w.smilies
    BY <1>3, <2>1 DEF SmState
  <2>3. SmJudged(w, t)
    BY <1>4, <1>5, <1>7, <2>2 DEF SmJudged
  <2>4. SmSound(t)
    BY <2>2 DEF SmSound
  <2> QED BY <2>2, <2>3, <2>4 DEF t
<1>8. CASE ~full /\ ~spent /\ late
  <2>1. t = [w EXCEPT !.status = "lost", !.reason = "timeout"]
    BY <1>8 DEF SmOutcome
  <2> HIDE DEF t, score
  <2>2. /\ t \in SmState(B) /\ t.status = "lost" /\ t.reason = "timeout" /\ t.tick = w.tick
        /\ t.dropped = w.dropped /\ t.buckets = w.buckets /\ t.popped = w.popped /\ t.smilies = w.smilies
    BY <1>3, <2>1 DEF SmState
  <2>3. SmJudged(w, t)
    BY <1>4, <1>5, <1>8, <2>2 DEF SmJudged
  <2>4. SmSound(t)
    BY <2>2 DEF SmSound
  <2> QED BY <2>2, <2>3, <2>4 DEF t
<1>9. CASE ~full /\ ~spent /\ ~late
  <2>1. t = w
    BY <1>9 DEF SmOutcome
  <2>2. SmJudged(w, w)
    BY <1>4, <1>5, <1>9 DEF SmJudged
  <2> QED BY <2>1, <2>2
<1> QED BY <1>6, <1>7, <1>8, <1>9

\* A tick of the engine is a tick of the ledger.
SmTicked(s, t) ==
  /\ SmSound(t) /\ SmJudged(t, t) /\ t.tick = s.tick + 1
  /\ \E drop \in 0 .. Len(SmScenario.drops) - s.dropped, catch \in Nat, pop \in Nat :
       /\ t.dropped = s.dropped + drop /\ t.popped = s.popped + pop
       /\ SmFilled(t.buckets) = SmFilled(s.buckets) + catch
       /\ Len(t.smilies) = Len(s.smilies) + drop - catch - pop
\* One whole step, phase by phase.
LEMMA SmSteps ==
  ASSUME NEW s, SmSound(s), s.status = "running", s.reason = "none", s.dropped <= Len(SmScenario.drops)
  PROVE  SmTicked(s, SmStep(s))
<1> DEFINE u == [s EXCEPT !.tick = @ + 1]
           d0 == SmSpawnDrops(u)
           d1 == SmSpawnRocks(d0)
           d2 == SmHop(d1)
           d3 == SmEach(d2, "move")
           d4 == SmMoveBuckets(d3)
           d5 == SmMoveRocks(d4)
           d6 == SmEach(d5, "rocks")
           d7 == SmEach(d6, "spikes")
           d8 == SmEach(d7, "landings")
           d9 == SmEach(d8, "ledges")
           d10 == SmEach(d9, "pails")
           w == SmRecharge(d10)
           t == SmOutcome(w)
           n == Len(SmScenario.drops)
<1>1. SmStep(s) = t
  BY DEF SmStep
<1>2. /\ SmSound(u) /\ u.tick = s.tick + 1 /\ u.status = "running" /\ u.reason = "none" /\ u.dropped = s.dropped
      /\ u.buckets = s.buckets /\ u.popped = s.popped /\ u.smilies = s.smilies
  <2>1. PICK A : s \in SmState(A)
    BY DEF SmSound
  <2> DEFINE now == s.tick + 1
  <2>2. now \in Nat /\ u = [s EXCEPT !.tick = now]
    BY <2>1 DEF SmState
  <2> HIDE DEF now, u
  <2>3. /\ u \in SmState(A) /\ u.tick = now /\ u.status = s.status /\ u.reason = s.reason /\ u.dropped = s.dropped
        /\ u.buckets = s.buckets /\ u.popped = s.popped /\ u.smilies = s.smilies
    BY <2>1, <2>2 DEF SmState
  <2> QED BY <2>3 DEF SmSound, now
<1> HIDE DEF u
<1>3. PICK drop \in 0 .. n - s.dropped :
        /\ SmSound(d0) /\ d0.dropped = s.dropped + drop /\ Len(d0.smilies) = Len(s.smilies) + drop
        /\ d0.tick = s.tick + 1 /\ d0.status = "running" /\ d0.reason = "none" /\ d0.buckets = s.buckets
        /\ d0.popped = s.popped
  <2>1. \E d \in 0 .. Len(SmScenario.drops) - u.dropped :
           /\ SmSound(d0) /\ d0.dropped = u.dropped + d /\ Len(d0.smilies) = Len(u.smilies) + d
           /\ d0.tick = u.tick /\ d0.status = u.status /\ d0.reason = u.reason /\ d0.buckets = u.buckets
           /\ d0.popped = u.popped
    BY <1>2, SmDrops
  <2> HIDE DEF d0
  <2> QED BY <1>2, <2>1
<1> HIDE DEF d0
<1>4. ASSUME NEW x, SmFlies(d0, x) PROVE SmSound(x)
  BY <1>4 DEF SmFlies, SmSpends
<1>5. SmFlies(d0, d1)
  BY <1>3, SmThrows
<1> HIDE DEF d1
<1>6. SmFlies(d0, d2)
  BY <1>3, <1>4, <1>5, SmHopFlies, SmFliesOn
<1> HIDE DEF d2
<1>7. SmFlies(d0, d3)
  BY <1>3, <1>4, <1>6, SmEachFlies, SmFliesOn DEF SmPhases
<1> HIDE DEF d3
<1>8. SmFlies(d0, d4)
  BY <1>3, <1>4, <1>7, SmBucketsMove, SmFliesOn
<1> HIDE DEF d4
<1>9. SmFlies(d0, d5)
  BY <1>3, <1>4, <1>8, SmRocksFly, SmFliesOn
<1> HIDE DEF d5
<1>10. SmFlies(d0, d6)
  BY <1>3, <1>4, <1>9, SmEachFlies, SmFliesOn DEF SmPhases
<1> HIDE DEF d6
<1>11. SmFlies(d0, d7)
  BY <1>3, <1>4, <1>10, SmEachFlies, SmFliesOn DEF SmPhases
<1> HIDE DEF d7
<1>12. SmFlies(d0, d8)
  BY <1>3, <1>4, <1>11, SmEachFlies, SmFliesOn DEF SmPhases
<1> HIDE DEF d8
<1>13. SmFlies(d0, d9)
  BY <1>3, <1>4, <1>12, SmEachFlies, SmFliesOn DEF SmPhases
<1> HIDE DEF d9
<1>14. SmFlies(d0, d10)
  BY <1>3, <1>4, <1>13, SmEachFlies, SmFliesOn DEF SmPhases
<1> HIDE DEF d10
<1>15. SmFlies(d0, w)
  BY <1>3, <1>4, <1>14, SmRecharges, SmFliesOn
<1> HIDE DEF w
<1>16. PICK c \in Nat, p \in Nat : SmSpends(d0, w, c, p) /\ Len(w.smilies) = Len(d0.smilies) - c - p
  BY <1>15 DEF SmFlies
<1>17. SmSound(w) /\ w.status = "running" /\ w.reason = "none" /\ w.tick = s.tick + 1 /\ w.dropped = s.dropped + drop
       /\ SmFilled(w.buckets) = SmFilled(s.buckets) + c /\ w.popped = s.popped + p
       /\ Len(w.smilies) = Len(s.smilies) + drop - c - p
  BY <1>3, <1>16 DEF SmSpends
<1>18. /\ SmSound(t) /\ SmJudged(w, t) /\ t.tick = w.tick /\ t.dropped = w.dropped
       /\ t.buckets = w.buckets /\ t.popped = w.popped /\ t.smilies = w.smilies
  BY <1>17, SmJudges
<1> HIDE DEF t, n
<1>19. SmJudged(t, t)
  BY <1>18 DEF SmJudged
<1>20. \E drop_ \in 0 .. n - s.dropped, catch \in Nat, pop \in Nat :
          /\ t.dropped = s.dropped + drop_ /\ t.popped = s.popped + pop
          /\ SmFilled(t.buckets) = SmFilled(s.buckets) + catch
          /\ Len(t.smilies) = Len(s.smilies) + drop_ - catch - pop
  BY <1>17, <1>18
<1>21. SmTicked(s, t)
  BY <1>17, <1>18, <1>19, <1>20 DEF n, SmTicked
<1> QED BY <1>1, <1>21

-----------------------------------------------------------------------------
\* An engine that has not ended has no reason to; only what was scheduled fell.
SmInv ==
  /\ SmSound(smile) /\ smile.dropped <= Len(SmScenario.drops)
  /\ smile.status = "running" => smile.reason = "none"

\* The stage begins as its ledger does.
LEMMA SmBegins == SmInit => SmInv /\ Ledger!LgInit
<1> SUFFICES ASSUME SmInit PROVE SmInv /\ Ledger!LgInit
  OBVIOUS
<1> DEFINE A == {SmIdle, FALSE, <<>>, 0, SmScenario.hopCharges}
           b == SmScenario.buckets
           n == Len(b)
<1>1. smile = SmNew
  BY DEF SmInit
<1>2. b \in Seq(SmPails) /\ n \in Nat /\ DOMAIN b = 1 .. n /\ (\A k \in 1 .. n : b[k] \in SmPails)
      /\ smile.buckets = b /\ [k \in DOMAIN SmScenario.buckets |-> SmScenario.buckets[k]] = b
  <2>1. b \in Seq(SmPails)
    BY SmAssumption
  <2>2. n \in Nat /\ DOMAIN b = 1 .. n /\ (\A k \in 1 .. n : b[k] \in SmPails) /\ [k \in DOMAIN b |-> b[k]] = b
    BY <2>1
  <2>3. SmNew.buckets = [k \in DOMAIN SmScenario.buckets |-> SmScenario.buckets[k]]
    BY DEF SmNew
  <2> QED BY <1>1, <2>1, <2>2, <2>3
<1>3. \A x \in SmPails : x \in SmBuckets /\ x.filled = 0 /\ x.filled <= x.capacity
  BY DEF SmPails, SmBuckets
<1> HIDE DEF b, n
<1>4. b \in Seq(SmBuckets)
  BY <1>2, <1>3 DEF n
<1>5. SmFits(b)
  BY <1>2, <1>3, <1>4 DEF SmFits, n, b
<1>6. <<>> \in Seq(A) /\ SmIdle \in A /\ FALSE \in A /\ <<>> \in A /\ 0 \in A /\ SmScenario.hopCharges \in A
  OBVIOUS
<1> HIDE DEF A
<1>7. smile \in SmState(A)
  <2>1. SmNew = [tick |-> 0, status |-> "running", reason |-> "none", input |-> SmIdle, latch |-> FALSE,
                 smilies |-> <<>>, rocks |-> <<>>, dropped |-> 0, thrown |-> 0, buckets |-> b,
                 caught |-> 0, popped |-> 0, bonks |-> 0, combo |-> 0, best |-> 0, score |-> 0,
                 charges |-> SmScenario.hopCharges, progress |-> 0]
    <3>1. [k \in DOMAIN SmScenario.buckets |-> SmScenario.buckets[k]] = b
      BY <1>1, <1>2 DEF SmNew
    <3> QED BY <3>1 DEF SmNew
  <2> QED BY <1>1, <1>4, <1>6, <2>1 DEF SmState
<1>8. /\ smile.tick = 0 /\ smile.dropped = 0 /\ smile.smilies = <<>> /\ smile.popped = 0
      /\ smile.status = "running" /\ smile.reason = "none"
  BY <1>1 DEF SmNew
<1>9. Len(SmScenario.drops) \in Nat
  BY SmAssumption
<1>10. SmSound(smile)
  <2>1. SmFits(smile.buckets)
    BY <1>2, <1>5
  <2> QED BY <1>7, <2>1 DEF SmSound
<1>11. SmFilled(b) = 0
  <2> DEFINE f == [k \in DOMAIN b |-> b[k].filled]
  <2>1. f \in Seq(Int) /\ Len(f) = n /\ \A k \in 1 .. Len(f) : f[k] = f[k] - f[k]
    BY <1>2, <1>3
  <2> HIDE DEF f
  <2>2. Total(f) = Total(f) - Total(f) /\ Total(f) \in Int
    BY <2>1, TotalOfDifferences
  <2>3. Total(f) = 0
    BY <2>2
  <2> QED BY <2>3 DEF SmFilled, f
<1>12. SmInv
  BY <1>8, <1>9, <1>10 DEF SmInv
<1>13. Ledger!LgInit
  <2>1. Len(SmScenario.drops) - smile.dropped = Len(SmScenario.drops)
    BY <1>8, <1>9
  <2>2. Len(smile.smilies) = 0
    BY <1>8
  <2>3. SmFilled(smile.buckets) = 0
    BY <1>2, <1>11
  <2> QED BY <1>8, <2>1, <2>2, <2>3 DEF Ledger!LgInit
<1> QED BY <1>12, <1>13

\* Every tick keeps the invariant and is the ledger's.
LEMMA SmTicks == SmInv /\ [SmTick]_smile => SmInv' /\ [Ledger!LgTick]_(Ledger!ledger)
<1> SUFFICES ASSUME SmInv, [SmTick]_smile PROVE SmInv' /\ [Ledger!LgTick]_(Ledger!ledger)
  OBVIOUS
<1>1. CASE UNCHANGED smile
  BY <1>1 DEF SmInv, Ledger!ledger
<1>2. CASE SmTick
  <2>1. PICK input \in SmInputs : smile' = SmStep(SmSetInput(smile, input))
    BY <1>2 DEF SmTick
  <2> DEFINE s == SmSetInput(smile, input)
             n == Len(SmScenario.drops)
             cap == SmCapacity(SmScenario.buckets)
  <2>2. smile.status = "running" /\ smile.reason = "none" /\ SmSound(smile) /\ smile.dropped <= n
    BY <1>2 DEF SmTick, SmInv
  <2>3. /\ SmSound(s) /\ s.status = "running" /\ s.reason = "none" /\ s.dropped = smile.dropped
        /\ s.tick = smile.tick /\ s.popped = smile.popped /\ s.buckets = smile.buckets
        /\ s.smilies = smile.smilies
    <3>1. PICK A : smile \in SmState(A)
      BY <2>2 DEF SmSound
    <3> DEFINE latch == smile.latch /\ input.hop
               B == A \cup {input, latch}
    <3>2. smile.smilies \in Seq(A) /\ smile.smilies \in Seq(B)
      BY <3>1 DEF SmState
    <3>3. smile \in SmState(B) /\ input \in B /\ latch \in B
      BY <3>1, <3>2 DEF SmState
    <3>4. s = [smile EXCEPT !.input = input, !.latch = latch]
      BY <3>1 DEF SmState, SmSetInput
    <3> HIDE DEF latch, B, s
    <3>5. /\ s \in SmState(B) /\ s.status = smile.status /\ s.reason = smile.reason
          /\ s.dropped = smile.dropped /\ s.tick = smile.tick /\ s.popped = smile.popped
          /\ s.buckets = smile.buckets /\ s.smilies = smile.smilies
      BY <3>3, <3>4 DEF SmState
    <3> QED BY <2>2, <3>5 DEF SmSound
  <2> HIDE DEF s
  <2>4. /\ SmSound(smile') /\ SmJudged(smile', smile') /\ smile'.tick = smile.tick + 1
        /\ \E drop \in 0 .. n - smile.dropped, catch \in Nat, pop \in Nat :
             /\ smile'.dropped = smile.dropped + drop /\ smile'.popped = smile.popped + pop
             /\ SmFilled(smile'.buckets) = SmFilled(smile.buckets) + catch
             /\ Len(smile'.smilies) = Len(smile.smilies) + drop - catch - pop
    <3>1. smile' = SmStep(s)
      BY <2>1 DEF s
    <3>2. s.dropped <= Len(SmScenario.drops)
      BY <2>2, <2>3
    <3>3. SmTicked(s, smile')
      BY <2>3, <3>1, <3>2, SmSteps
    <3> QED BY <2>3, <3>3 DEF SmTicked
  <2>5. PICK drop \in 0 .. n - smile.dropped, catch \in Nat, pop \in Nat :
          /\ smile'.dropped = smile.dropped + drop /\ smile'.popped = smile.popped + pop
          /\ SmFilled(smile'.buckets) = SmFilled(smile.buckets) + catch
          /\ Len(smile'.smilies) = Len(smile.smilies) + drop - catch - pop
    BY <2>4
  <2>6. n \in Nat
    BY SmAssumption
  <2>7. /\ SmFilled(smile.buckets) \in Nat /\ smile.popped \in Nat /\ Len(smile.smilies) \in Nat
        /\ smile.dropped \in Nat /\ cap \in Nat
    BY <2>2, SmNumbers
  <2>8. /\ SmFilled(smile'.buckets) \in Nat /\ smile'.popped \in Nat /\ Len(smile'.smilies) \in Nat
        /\ smile'.dropped \in Nat /\ SmFilled(smile'.buckets) <= cap
    BY <2>4, SmNumbers
  <2> HIDE DEF n, cap
  <2>9. SmInv'
    <3>1. smile'.dropped <= n
      BY <2>2, <2>5, <2>6, <2>7
    <3>2. smile'.status = "running" => smile'.reason = "none"
      BY <2>4 DEF SmJudged
    <3>3. SmSound(smile)'
      BY <2>4 DEF SmSound, SmState, SmFits
    <3> QED BY <3>1, <3>2, <3>3 DEF SmInv, n
  <2>10. /\ drop \in 0 .. n - smile.dropped
         /\ catch \in 0 .. Len(smile.smilies) + drop /\ pop \in 0 .. Len(smile.smilies) + drop
         /\ catch + pop <= Len(smile.smilies) + drop /\ SmFilled(smile.buckets) + catch <= cap
         /\ n - smile'.dropped = n - smile.dropped - drop
         /\ Len(smile'.smilies) = Len(smile.smilies) + drop - catch - pop
         /\ SmFilled(smile'.buckets) = SmFilled(smile.buckets) + catch
         /\ smile'.popped = smile.popped + pop
    <3>1. n - smile'.dropped = n - smile.dropped - drop
      BY <2>5, <2>6, <2>7
    <3>2. SmFilled(smile.buckets) + catch <= cap
      BY <2>5, <2>8
    <3>3. Len(smile.smilies) + drop - catch - pop \in Nat
      BY <2>5, <2>8
    <3>4. drop \in Nat
      BY <2>6, <2>7
    <3>5. \A f, c, q \in Nat : f - c - q \in Nat => c + q <= f /\ c \in 0 .. f /\ q \in 0 .. f
      OBVIOUS
    <3>6. /\ catch \in 0 .. Len(smile.smilies) + drop /\ pop \in 0 .. Len(smile.smilies) + drop
          /\ catch + pop <= Len(smile.smilies) + drop
      <4> DEFINE f == Len(smile.smilies) + drop
      <4>1. f \in Nat /\ f - catch - pop \in Nat /\ catch \in Nat /\ pop \in Nat
        BY <2>7, <3>3, <3>4
      <4> HIDE DEF f
      <4>2. catch + pop <= f /\ catch \in 0 .. f /\ pop \in 0 .. f
        BY <3>5, <4>1
      <4> QED BY <4>2 DEF f
    <3> QED BY <2>5, <3>1, <3>2, <3>6
  <2>11. Ledger!LgOutcome
    BY <2>4 DEF Ledger!LgOutcome, SmJudged, n, cap
  <2>12. smile.status = "running" /\ smile'.tick = smile.tick + 1
    BY <2>2, <2>4
  <2>13. Ledger!LgTick
    BY <2>10, <2>11, <2>12 DEF Ledger!LgTick, n, cap
  <2> QED BY <2>9, <2>13
<1> QED BY <1>1, <1>2

(* The engine of a Smilefall stage keeps the ledger, whatever its geometry, *)
(* its schedule and its physics: each of its ticks is one of the ledger's,  *)
(* from the same beginning (core/engine.ts).                                *)
THEOREM EngineKeepsLedger == SmSpec => StageKeepsLedger
<1>1. SmSpec => []SmInv
  <2>1. SmInit => SmInv
    BY SmBegins
  <2>2. SmInv /\ [SmTick]_smile => SmInv'
    BY SmTicks
  <2> QED BY <2>1, <2>2, PTL DEF SmSpec
<1>2. SmInit => Ledger!LgInit
  BY SmBegins
<1>3. SmInv /\ [SmTick]_smile => [Ledger!LgTick]_(Ledger!ledger)
  BY SmTicks
<1> QED BY <1>1, <1>2, <1>3, PTL DEF SmSpec, StageKeepsLedger, Ledger!LgSpec

-----------------------------------------------------------------------------
(* What is left over when a time is cut into ticks is less than a tick.    *)
LEMMA Remainder ==
  ASSUME NEW a \in Nat, NEW t \in Nat \ {0}
  PROVE  /\ a \div t \in Nat
         /\ (a \div t) * t <= a
         /\ a - (a \div t) * t < t
OBVIOUS

(* A time of at most m ticks has at most m ticks in it, and m only if it   *)
(* is m ticks.                                                             *)
LEMMA Quotient ==
  ASSUME NEW a \in Nat, NEW t \in Nat \ {0}, NEW m \in Nat, a <= t * m
  PROVE  a \div t <= m /\ (a = t * m => a \div t = m)
<1> DEFINE q == a \div t
<1>1. q \in Nat /\ q * t <= a /\ a - q * t < t
  BY Remainder
<1> HIDE DEF q
<1>2. q <= m
  <2> SUFFICES ASSUME q >= m + 1 PROVE FALSE
    BY <1>1
  <2>1. q * t >= (m + 1) * t
    BY <1>1
  <2>2. (m + 1) * t = t * m + t
    OBVIOUS
  <2> QED
    BY <1>1, <2>1, <2>2
<1>3. ASSUME a = t * m PROVE q = m
  <2> SUFFICES ASSUME q <= m - 1 PROVE FALSE
    BY <1>1, <1>2
  <2>1. q * t <= (m - 1) * t
    BY <1>1
  <2>2. (m - 1) * t = t * m - t
    OBVIOUS
  <2> QED
    BY <1>1, <1>3, <2>1, <2>2
<1> QED
  BY <1>2, <1>3 DEF q

(* The clock starts with nothing to account for.                           *)
LEMMA ClockInit == CkInit => ClockKeepsTime
<1> SUFFICES ASSUME CkInit PROVE ClockKeepsTime
  OBVIOUS
<1>1. ckAnchored \in BOOLEAN
  BY Zenon DEF CkInit
<1>2. ckTick \in CkTicks /\ ckAccumulator = 0 /\ ckAnswer = Still /\ ckSince = Reckoning
  BY Zenon DEF CkInit
<1>3. CkCounts /\ CkAccount
  BY <1>2, CkAssumption DEF CkCounts, CkAccount, Still, Reckoning
<1> QED
  BY <1>1, <1>3 DEF ClockKeepsTime, CkTypeOK

(* An advance keeps the account.                                           *)
LEMMA ClockAdvance ==
  ASSUME ClockKeepsTime, NEW elapsed \in 0..CkMaxElapsed, CkAdvance(elapsed)
  PROVE  ClockKeepsTime'
<1> DEFINE time == ckAccumulator + elapsed
           kept == Kept(time)
           gone == Dropped(time)
           n == kept \div ckTick
<1>1. ckTick \in Nat \ {0} /\ CkMaxCatchUp \in Nat \ {0} /\ time \in Nat /\ Backlog \in Nat
  BY CkAssumption DEF ClockKeepsTime, CkTypeOK, CkCounts, Backlog
<1>2. /\ kept \in Nat /\ gone \in Nat /\ kept <= ckTick * CkMaxCatchUp /\ kept + gone = time
      /\ gone > 0 => kept = ckTick * CkMaxCatchUp
  BY <1>1 DEF Kept, Dropped, Backlog
<1> HIDE DEF kept, gone
<1>3. n \in Nat /\ n * ckTick <= kept /\ kept - n * ckTick < ckTick
  BY <1>1, <1>2, Remainder
<1>4. n <= CkMaxCatchUp /\ (gone > 0 => n = CkMaxCatchUp)
  BY <1>1, <1>2, Quotient
<1> HIDE DEF n
<1>5. Whole(kept) = n
  BY <1>1, <1>3, <1>4 DEF Whole, n
<1>6. /\ ckAccumulator' = kept - n * ckTick /\ ckTick' = ckTick
      /\ ckAnswer' = [ticks |-> n, dropped |-> gone]
      /\ ckSince' = [ckSince EXCEPT !.elapsed = @ + elapsed, !.run = @ + n * ckTick, !.dropped = @ + gone]
  BY <1>5 DEF CkAdvance, kept, gone
<1> DEFINE ran == n * ckTick
<1>7. ran \in Nat
  BY <1>1, <1>3
<1>8. gone > 0 => kept - ran = 0
  BY <1>1, <1>2, <1>4
<1> HIDE DEF ran
<1>9. ckAccumulator' = kept - ran /\ ran <= kept /\ kept - ran < ckTick
  BY <1>3, <1>6 DEF ran
<1>10. ckSince' = [ckSince EXCEPT !.elapsed = @ + elapsed, !.run = @ + ran, !.dropped = @ + gone]
  BY <1>6 DEF ran
<1>11. CkCounts /\ CkAccount
  BY DEF ClockKeepsTime, CkTypeOK
<1>12. CkCounts'
  <2>1. ckAccumulator' \in Nat /\ ckTick' \in CkTicks
    BY <1>2, <1>6, <1>7, <1>9, <1>11 DEF CkCounts
  <2>2. ckAnswer' \in [ticks : Nat, dropped : Nat]
    BY <1>2, <1>3, <1>6
  <2>3. elapsed \in Nat
    BY CkAssumption
  <2>4. ckSince' \in [elapsed : Nat, run : Nat, dropped : Nat, lost : Nat]
    <3>1. ckSince \in [elapsed : Nat, run : Nat, dropped : Nat, lost : Nat]
      BY <1>11 DEF CkCounts
    <3>2. /\ ckSince.elapsed + elapsed \in Nat
          /\ ckSince.run + ran \in Nat /\ ckSince.dropped + gone \in Nat
      BY <1>2, <1>7, <2>3, <3>1
    <3> QED
      BY <1>10, <3>1, <3>2
  <2> QED
    BY <2>1, <2>2, <2>4 DEF CkCounts
<1>13. CkAccount'
  BY <1>1, <1>2, <1>3, <1>4, <1>6, <1>7, <1>8, <1>9, <1>10, <1>11 DEF CkCounts, CkAccount
<1>14. (ckAnchored \in BOOLEAN)'
  BY Zenon DEF CkAdvance, ClockKeepsTime, CkTypeOK
<1> QED
  BY <1>12, <1>13, <1>14 DEF ClockKeepsTime, CkTypeOK

(* The time that passes is run, carried over, dropped and reported, or     *)
(* lost to a timestamp that ran backwards (fixed-step-clock.ts:52).        *)
THEOREM ClockConservation == CkSpec => []ClockKeepsTime
<1>1. ASSUME ClockKeepsTime, [CkNext]_ckVars PROVE ClockKeepsTime'
  <2>1. CkCounts /\ CkAccount /\ ckAnchored \in BOOLEAN
    BY <1>1 DEF ClockKeepsTime, CkTypeOK
  <2>2. ASSUME NEW length \in CkTicks, CkReset(length) PROVE ClockKeepsTime'
    <3>1. ckTick' = length /\ ckAccumulator' = 0 /\ ckAnswer' = Still /\ ckSince' = Reckoning
      BY <2>2, Zenon DEF CkReset
    <3>2. (CkCounts /\ CkAccount)'
      BY <3>1, CkAssumption DEF CkCounts, CkAccount, Still, Reckoning
    <3>3. (ckAnchored \in BOOLEAN)'
      BY <2>2, Zenon DEF CkReset
    <3> QED
      BY <3>2, <3>3 DEF ClockKeepsTime, CkTypeOK
  <2>3. ASSUME CkAnchor PROVE ClockKeepsTime'
    <3>1. /\ ckTick' = ckTick /\ ckAccumulator' = 0 /\ ckAnswer' = Still
          /\ ckSince' = [ckSince EXCEPT !.lost = @ + ckAccumulator]
      BY <2>3, Zenon DEF CkAnchor
    <3>2. (CkCounts /\ CkAccount)'
      BY <2>1, <3>1, CkAssumption DEF CkCounts, CkAccount, Still
    <3>3. (ckAnchored \in BOOLEAN)'
      BY <2>3, Zenon DEF CkAnchor
    <3> QED
      BY <3>2, <3>3 DEF ClockKeepsTime, CkTypeOK
  <2>4. ASSUME UNCHANGED ckVars PROVE ClockKeepsTime'
    BY <1>1, <2>4, Zenon DEF ckVars, ClockKeepsTime, CkTypeOK, CkCounts, CkAccount
  <2> QED
    BY <1>1, <2>2, <2>3, <2>4, ClockAdvance DEF CkNext
<1> QED
  BY <1>1, ClockInit, PTL DEF CkSpec

-----------------------------------------------------------------------------
(* The audio tool: what its files and locks rely on.                       *)

AuFiles == -1 .. AuRuns
AuJournals ==
  [said : SUBSET AskedFor, plan : AuPlans \cup {None}, source : AuFiles, ready : AuFiles, torn : BOOLEAN]
AuDisks ==
  [lock : 0 .. AuRuns, journal : AuJournals, source : AuFiles, workMaster : AuFiles, workRuntime : AuFiles,
   master : AuFiles, runtime : AuFiles, manifest : AuFiles]
AuBuying == {"request", "body", "response", "source", "acquired"}
AuMaking == {"master", "runtime", "ready"}
AuLinking == {"promoteMaster", "promoteRuntime", "normalized", "manifest", "completed"}
AuFinishing == {"check", "plan"} \cup AuMaking \cup AuLinking
AuBusy == {"prepare", "asset", "throw", "cleanup"} \cup AuBuying \cup AuFinishing
AuPlaces == {"idle", "lock", "release", "over"} \cup AuBusy
AuRunning ==
  [at : AuPlaces, resume : BOOLEAN, plan : AuPlans \cup {None}, asset : Asset, held : SUBSET Asset,
   seen : [Asset -> AuJournals], failed : BOOLEAN]

AuTyped ==
  /\ auDisk \in [Asset -> AuDisks] /\ auRun \in [1 .. AuRuns -> AuRunning]
  /\ auPaid \in [Asset -> Nat] /\ auFaults \in Nat

\* Who works on an asset has locked all of them.
AuLocked ==
  \A r \in 1 .. AuRuns :
    /\ auRun[r].at = "idle" => auRun[r].held = {} /\ auRun[r].asset = 1
    /\ auRun[r].at = "over" => auRun[r].held = {}
    /\ auRun[r].at = "lock" => auRun[r].held = 1 .. auRun[r].asset - 1
    /\ auRun[r].at \in AuBusy => auRun[r].held = Asset
    /\ \A a \in auRun[r].held : auDisk[a].lock = r

\* What is so of an asset and its journal whenever its run ends.
AuRests(d, paid) ==
  /\ paid \in {0, 1} /\ (paid = 1 => "request_started" \in d.journal.said \/ d.journal.torn)
  /\ "acquired" \in d.journal.said => d.source = d.journal.source
  /\ d.journal.ready # None <=> "normalization_ready" \in d.journal.said
  /\ d.journal.ready # None =>
       "acquired" \in d.journal.said /\ Recoverable(d, d.journal.ready) /\ d.manifest \in {None, Torn, d.journal.ready}
  /\ d.journal.ready = None => d.master = None /\ d.runtime = None /\ d.manifest = None
  /\ "completed" \in d.journal.said =>
       d.journal.ready # None /\ d.master = d.journal.ready /\ d.runtime = d.journal.ready /\ d.manifest = d.journal.ready

\* What a run remembers of a journal is what the file says, if it can be read.
AuAgrees(seen, journal) == seen.said = journal.said /\ seen.source = journal.source /\ seen.ready = journal.ready

\* Where a run is and what it has done of its asset.
AuPhase(r, place, seen, d, paid) ==
  /\ place = "request" => paid = 0 /\ "request_started" \in seen.said
  /\ place \in AuBuying => "acquired" \notin seen.said
  /\ place = "acquired" => d.source = r
  /\ place \in AuFinishing => "acquired" \in seen.said
  /\ place \in AuMaking => seen.ready = None
  /\ place \in {"runtime", "ready"} => d.workMaster = r
  /\ place = "ready" => d.workRuntime = r
  /\ place \in AuLinking => seen.ready # None
  /\ place \in AuLinking \ {"promoteMaster"} => d.master = seen.ready
  /\ place \in {"normalized", "manifest", "completed"} => d.runtime = seen.ready
  /\ place = "completed" => d.manifest = seen.ready

\* The assets a run has read or begun, and those among them it will ask for.
AuBegun(run) == {a \in Asset : run.at = "prepare" => a < run.asset}
AuAhead(run) ==
  {a \in Asset : ~run.resume /\ IF run.at = "prepare" THEN a < run.asset
                               ELSE a > run.asset \/ (a = run.asset /\ run.at = "asset")}
AuFollows(r) ==
  /\ \A a \in AuBegun(auRun[r]) : AuAgrees(auRun[r].seen[a], auDisk[a].journal)
  /\ \A a \in AuAhead(auRun[r]) : auPaid[a] = 0 /\ auRun[r].seen[a].said = {"reserved"}
  /\ AuPhase(r, auRun[r].at, Seen(r), Disk(r), auPaid[Here(r)])

AuInv ==
  /\ AuTyped /\ AuLocked
  /\ \A a \in Asset : AuRests(auDisk[a], auPaid[a])
  /\ \A r \in 1 .. AuRuns : auRun[r].at \in AuBusy => AuFollows(r)

\* The invariant says what is promised.
LEMMA AuInvIsEnough == AuInv => AudioStands
<1> SUFFICES ASSUME AuInv, NEW a \in Asset
             PROVE  /\ auPaid[a] <= 1 /\ (auPaid[a] = 1 => "request_started" \in auDisk[a].journal.said \/ auDisk[a].journal.torn)
                    /\ "completed" \in auDisk[a].journal.said =>
                         /\ auDisk[a].source = auDisk[a].journal.source
                         /\ {auDisk[a].master, auDisk[a].runtime, auDisk[a].manifest} = {auDisk[a].journal.ready}
                    /\ "acquired" \in auDisk[a].journal.said =>
                         /\ auDisk[a].source = auDisk[a].journal.source
                         /\ auDisk[a].journal.ready # None => Recoverable(auDisk[a], auDisk[a].journal.ready)
                         /\ auDisk[a].manifest \in {None, Torn, auDisk[a].journal.ready}
  BY DEF AudioStands, AudioIsPaidOnce, CompletedStands, AcquiredCanBeResumed
<1> DEFINE d == auDisk[a]
           p == auPaid[a]
<1>1. AuRests(d, p)
  BY DEF AuInv
<1> HIDE DEF d, p
<1>2. /\ p <= 1 /\ (p = 1 => "request_started" \in d.journal.said \/ d.journal.torn)
      /\ "completed" \in d.journal.said =>
           /\ d.source = d.journal.source
           /\ {d.master, d.runtime, d.manifest} = {d.journal.ready}
      /\ "acquired" \in d.journal.said =>
           /\ d.source = d.journal.source
           /\ d.journal.ready # None => Recoverable(d, d.journal.ready)
           /\ d.manifest \in {None, Torn, d.journal.ready}
  BY <1>1 DEF AuRests
<1> QED BY <1>2 DEF d, p

LEMMA AuNothing ==
  /\ NoJournal \in AuJournals /\ NoJournal.said = {} /\ NoJournal.ready = None /\ NoJournal.source = None
  /\ \A place \in AuPlaces : NewRun(place) \in AuRunning /\ NewRun(place).at = place /\ NewRun(place).held = {} /\ NewRun(place).asset = 1
<1>1. None \in AuFiles /\ {} \in SUBSET AskedFor /\ FALSE \in BOOLEAN /\ None \in AuPlans \cup {None}
  BY AudioAssumption DEF AuFiles, None
<1>2. NoJournal \in AuJournals /\ NoJournal.said = {} /\ NoJournal.ready = None /\ NoJournal.source = None
  BY <1>1 DEF NoJournal, AuJournals
<1>3. [a \in Asset |-> NoJournal] \in [Asset -> AuJournals] /\ 1 \in Asset
  BY <1>2, AudioAssumption DEF Asset
<1>4. ASSUME NEW place \in AuPlaces
      PROVE  NewRun(place) \in AuRunning /\ NewRun(place).at = place /\ NewRun(place).held = {} /\ NewRun(place).asset = 1
  <2> DEFINE seen == [a \in Asset |-> NoJournal]
  <2>1. seen \in [Asset -> AuJournals] /\ {} \in SUBSET Asset
    BY <1>3
  <2>2. NewRun(place) = [at |-> place, resume |-> FALSE, plan |-> None, asset |-> 1, held |-> {}, seen |-> seen, failed |-> FALSE]
    BY DEF NewRun
  <2> HIDE DEF seen
  <2> QED BY <1>1, <1>3, <2>1, <2>2 DEF AuRunning
<1> QED BY <1>2, <1>4

LEMMA AuBegins == AuInit => AuInv
<1> SUFFICES ASSUME AuInit PROVE AuInv
  OBVIOUS
<1> DEFINE d == [lock |-> None, journal |-> NoJournal, source |-> None, workMaster |-> None, workRuntime |-> None,
                 master |-> None, runtime |-> None, manifest |-> None]
<1>1. auDisk = [a \in Asset |-> d] /\ auRun = [r \in 1 .. AuRuns |-> NewRun("idle")] /\ auPaid = [a \in Asset |-> 0] /\ auFaults = 0
  BY DEF AuInit
<1>2. None \in AuFiles /\ None \in 0 .. AuRuns /\ 0 \in Nat
  BY AudioAssumption DEF AuFiles, None
<1>3. d \in AuDisks
  BY <1>2, AuNothing DEF AuDisks
<1>4. AuRests(d, 0)
  BY AuNothing DEF AuRests
<1> HIDE DEF d
<1>5. AuTyped
  BY <1>1, <1>2, <1>3, AuNothing DEF AuTyped, AuPlaces
<1>6. "idle" \in AuPlaces /\ "idle" \notin AuBusy
  BY DEF AuPlaces, AuBusy, AuBuying, AuFinishing, AuMaking, AuLinking
<1>7. \A r \in 1 .. AuRuns : auRun[r].at = "idle" /\ auRun[r].held = {} /\ auRun[r].asset = 1
  BY <1>1, <1>6, AuNothing
<1>8. AuLocked
  BY <1>6, <1>7 DEF AuLocked
<1> QED BY <1>1, <1>4, <1>5, <1>6, <1>7, <1>8 DEF AuInv

-----------------------------------------------------------------------------
(* What the steps of a run have in common.                                 *)

\* A run at work is the only one, for every asset is locked by it.
LEMMA AuAlone ==
  ASSUME AuInv, NEW r \in 1 .. AuRuns, auRun[r].at \in AuBusy, NEW s \in 1 .. AuRuns, auRun[s].at \in AuBusy
  PROVE  s = r
<1>1. 1 \in Asset
  BY AudioAssumption DEF Asset
<1>2. auRun[r].held = Asset /\ auRun[s].held = Asset
  BY DEF AuInv, AuLocked
<1> QED BY <1>1, <1>2 DEF AuInv, AuLocked

\* A run that works on its asset, or stops.
LEMMA AuWorks ==
  ASSUME AuInv, NEW r \in 1 .. AuRuns, auRun[r].at \in AuBusy,
         NEW run \in AuRunning, auRun' = [auRun EXCEPT ![r] = run],
         NEW d \in AuDisks, auDisk' = [auDisk EXCEPT ![Here(r)] = d], d.lock = Disk(r).lock,
         NEW p \in Nat, auPaid' = [auPaid EXCEPT ![Here(r)] = p], auFaults' \in Nat, AuRests(d, p),
         \/ run.held = auRun[r].held /\ run.at \in AuBusy \cup {"release"}
         \/ run.held = {} /\ run.at = "over",
         run.at \in AuBusy => AuFollows(r)'
  PROVE  AuInv'
<1>1. AuTyped /\ AuLocked
  BY DEF AuInv
<1>2. Here(r) \in Asset
  BY <1>1 DEF AuTyped, AuRunning, Here
<1> DEFINE h == Here(r)
<1>3. /\ auDisk'[h] = d /\ auPaid'[h] = p /\ auRun'[r] = run
      /\ \A a \in Asset : a # h => auDisk'[a] = auDisk[a] /\ auPaid'[a] = auPaid[a]
      /\ \A s \in 1 .. AuRuns : s # r => auRun'[s] = auRun[s]
  BY <1>1, <1>2 DEF AuTyped
<1>4. AuTyped'
  BY <1>1, <1>2 DEF AuTyped
<1>5. \A a \in Asset : auDisk'[a].lock = auDisk[a].lock
  BY <1>3 DEF Disk
<1>6. {"idle", "lock", "release", "over"} \cap AuBusy = {}
  BY DEF AuBusy, AuBuying, AuFinishing, AuMaking, AuLinking
<1>7. AuLocked'
  <2> SUFFICES ASSUME NEW s \in 1 .. AuRuns
               PROVE  /\ auRun'[s].at = "idle" => auRun'[s].held = {} /\ auRun'[s].asset = 1
                      /\ auRun'[s].at = "over" => auRun'[s].held = {}
                      /\ auRun'[s].at = "lock" => auRun'[s].held = 1 .. auRun'[s].asset - 1
                      /\ auRun'[s].at \in AuBusy => auRun'[s].held = Asset
                      /\ \A a \in auRun'[s].held : auDisk'[a].lock = s
    BY DEF AuLocked
  <2>1. auRun[s].held \subseteq Asset
    BY <1>1 DEF AuTyped, AuRunning
  <2>2. CASE s = r
    BY <1>1, <1>3, <1>5, <1>6, <2>1, <2>2 DEF AuLocked
  <2>3. CASE s # r
    BY <1>1, <1>3, <1>5, <2>1, <2>3 DEF AuLocked
  <2> QED BY <2>2, <2>3
<1>8. \A a \in Asset : AuRests(auDisk'[a], auPaid'[a])
  BY <1>3 DEF AuInv
<1>9. ASSUME NEW s \in 1 .. AuRuns, auRun'[s].at \in AuBusy PROVE AuFollows(s)'
  <2>1. s = r
    BY <1>3, <1>9, AuAlone
  <2> QED BY <1>3, <1>9, <2>1
<1> QED BY <1>4, <1>7, <1>8, <1>9 DEF AuInv

\* A run goes on with its asset.
LEMMA AuGoesOn ==
  ASSUME AuInv, NEW r \in 1 .. AuRuns, auRun[r].at \in AuBusy \ {"prepare"},
         NEW place \in AuBusy \ {"prepare", "asset"}, NEW journal \in AuJournals, NEW run \in AuRunning,
         auRun' = [auRun EXCEPT ![r] = run], run.at = place, run.asset = Here(r), run.held = auRun[r].held,
         run.resume = auRun[r].resume, run.seen = [auRun[r].seen EXCEPT ![Here(r)] = journal],
         NEW d \in AuDisks, auDisk' = [auDisk EXCEPT ![Here(r)] = d], d.lock = Disk(r).lock,
         NEW p \in Nat, auPaid' = [auPaid EXCEPT ![Here(r)] = p], auFaults' \in Nat,
         AuRests(d, p), AuAgrees(journal, d.journal), AuPhase(r, place, journal, d, p)
  PROVE  AuInv'
<1>1. AuTyped /\ AuFollows(r)
  BY DEF AuInv
<1>2. auRun[r] \in AuRunning
  BY <1>1 DEF AuTyped
<1> DEFINE h == Here(r)
<1>3. h \in Asset /\ auRun[r].seen \in [Asset -> AuJournals] /\ auRun[r].asset = h
  BY <1>2 DEF AuRunning, Here
<1>4. /\ auDisk'[h] = d /\ auPaid'[h] = p /\ auRun'[r] = run /\ Here(r)' = h
      /\ \A a \in Asset : a # h => auDisk'[a] = auDisk[a] /\ auPaid'[a] = auPaid[a] /\ run.seen[a] = auRun[r].seen[a]
      /\ run.seen[h] = journal
  BY <1>1, <1>3 DEF AuTyped, Here
<1> HIDE DEF h
<1>5. AuBegun(run) = Asset /\ AuBegun(auRun[r]) = Asset
  BY DEF AuBegun
<1>6. AuAhead(run) \subseteq AuAhead(auRun[r]) /\ h \notin AuAhead(run) /\ AuAhead(run) \subseteq Asset
  BY <1>3 DEF AuAhead, Asset, h
<1>7. \A a \in AuBegun(run) : AuAgrees(run.seen[a], auDisk'[a].journal)
  BY <1>1, <1>4, <1>5 DEF AuFollows
<1>8. \A a \in AuAhead(run) : auPaid'[a] = 0 /\ run.seen[a].said = {"reserved"}
  BY <1>1, <1>4, <1>6 DEF AuFollows
<1>9. AuFollows(r)'
  BY <1>4, <1>7, <1>8 DEF AuFollows, Seen, Disk
<1> QED BY <1>9, AuWorks DEF h

\* The asset a run is at, for a run at work.
LEMMA AuAtWork ==
  ASSUME AuInv, NEW r \in 1 .. AuRuns, auRun[r].at \in AuPlaces \ {"prepare"}
  PROVE  /\ AuTyped /\ Here(r) \in Asset /\ Here(r) = auRun[r].asset /\ auRun[r] \in AuRunning
         /\ Seen(r) = auRun[r].seen[Here(r)] /\ Seen(r) \in AuJournals /\ auRun[r].seen \in [Asset -> AuJournals]
         /\ Disk(r) = auDisk[Here(r)] /\ Disk(r) \in AuDisks /\ Disk(r).journal \in AuJournals
         /\ auPaid[Here(r)] \in Nat /\ AuRests(Disk(r), auPaid[Here(r)])
         /\ auRun[r].at \in AuBusy =>
              AuAgrees(Seen(r), Disk(r).journal) /\ AuPhase(r, auRun[r].at, Seen(r), Disk(r), auPaid[Here(r)])
<1>1. AuTyped /\ auRun[r] \in AuRunning
  BY DEF AuInv, AuTyped
<1>2. Here(r) \in Asset /\ auRun[r].seen \in [Asset -> AuJournals] /\ Here(r) = auRun[r].asset
  BY <1>1 DEF AuRunning, Here
<1>3. Disk(r) \in AuDisks /\ auPaid[Here(r)] \in Nat /\ Seen(r) \in AuJournals
  BY <1>1, <1>2 DEF AuTyped, Disk, Seen
<1>4. Disk(r).journal \in AuJournals
  BY <1>3 DEF AuDisks
<1>5. AuRests(Disk(r), auPaid[Here(r)])
  BY <1>2 DEF AuInv, Disk
<1>6. ASSUME auRun[r].at \in AuBusy
      PROVE  AuAgrees(Seen(r), Disk(r).journal) /\ AuPhase(r, auRun[r].at, Seen(r), Disk(r), auPaid[Here(r)])
  <2>1. AuFollows(r)
    BY <1>6 DEF AuInv
  <2>2. Here(r) \in AuBegun(auRun[r])
    BY <1>2 DEF AuBegun
  <2> QED BY <2>1, <2>2 DEF AuFollows, Seen, Disk
<1> QED BY <1>1, <1>2, <1>3, <1>4, <1>5, <1>6 DEF Seen, Disk

\* A run goes to another place, with the files of its asset as they come to be.
LEMMA AuSteps ==
  ASSUME AuInv, NEW r \in 1 .. AuRuns, auRun[r].at \in AuBusy \ {"prepare"},
         NEW place \in AuBusy \ {"prepare", "asset"}, GoOn(r, place),
         NEW d \in AuDisks, auDisk' = [auDisk EXCEPT ![Here(r)] = d], d.lock = Disk(r).lock,
         NEW p \in Nat, auPaid' = [auPaid EXCEPT ![Here(r)] = p], auFaults' \in Nat,
         AuRests(d, p), AuAgrees(Seen(r), d.journal), AuPhase(r, place, Seen(r), d, p)
  PROVE  AuInv'
<1> DEFINE run == [auRun[r] EXCEPT !.at = place]
<1>1. /\ Seen(r) \in AuJournals /\ auRun[r] \in AuRunning /\ Here(r) = auRun[r].asset /\ AuTyped
      /\ auRun[r].seen \in [Asset -> AuJournals] /\ Seen(r) = auRun[r].seen[Here(r)]
  BY AuAtWork DEF AuPlaces
<1>2. auRun' = [auRun EXCEPT ![r] = run]
  BY DEF GoOn
<1>3. run \in AuRunning /\ run.at = place /\ run.asset = Here(r) /\ run.held = auRun[r].held /\ run.resume = auRun[r].resume
      /\ run.seen = auRun[r].seen
  BY <1>1 DEF AuRunning, AuPlaces
<1>4. run.seen = [auRun[r].seen EXCEPT ![Here(r)] = Seen(r)]
  BY <1>1, <1>3
<1> HIDE DEF run
<1> QED BY <1>1, <1>2, <1>3, <1>4, AuGoesOn

\* What is not written stays.
LEMMA AuLeaves ==
  ASSUME AuTyped, NEW a \in Asset
  PROVE  auDisk = [auDisk EXCEPT ![a] = auDisk[a]] /\ auPaid = [auPaid EXCEPT ![a] = auPaid[a]]
BY DEF AuTyped

\* It goes on with nothing written.
LEMMA AuGoesBy ==
  ASSUME AuInv, NEW r \in 1 .. AuRuns, auRun[r].at \in AuBusy \ {"prepare"},
         NEW place \in AuBusy \ {"prepare", "asset"}, GoOn(r, place), UNCHANGED <<auDisk, auPaid>>, auFaults' \in Nat,
         AuPhase(r, place, Seen(r), Disk(r), auPaid[Here(r)])
  PROVE  AuInv'
<1>1. /\ AuTyped /\ Here(r) \in Asset /\ Disk(r) = auDisk[Here(r)] /\ Disk(r) \in AuDisks /\ auPaid[Here(r)] \in Nat
      /\ AuRests(Disk(r), auPaid[Here(r)]) /\ AuAgrees(Seen(r), Disk(r).journal)
  BY AuAtWork DEF AuPlaces
<1>2. /\ auDisk' = [auDisk EXCEPT ![Here(r)] = Disk(r)]
      /\ auPaid' = [auPaid EXCEPT ![Here(r)] = auPaid[Here(r)]]
  BY <1>1, AuLeaves
<1> QED BY <1>1, <1>2, AuSteps

\* Two disks with the same files.
AuSameFiles(d, e) ==
  /\ d.lock = e.lock /\ d.source = e.source /\ d.workMaster = e.workMaster /\ d.workRuntime = e.workRuntime
  /\ d.master = e.master /\ d.runtime = e.runtime /\ d.manifest = e.manifest

\* A line is appended to a journal; whether it can be read does not change.
LEMMA AuLine ==
  ASSUME NEW e \in AuDisks, NEW journal \in AuJournals, NEW torn \in BOOLEAN
  PROVE  LET d == [e EXCEPT !.journal = [journal EXCEPT !.torn = torn]]
         IN  d \in AuDisks /\ AuSameFiles(d, e) /\ AuAgrees(journal, d.journal) /\ d.journal.torn = torn
<1> DEFINE line == [journal EXCEPT !.torn = torn]
           d == [e EXCEPT !.journal = line]
<1>1. line \in AuJournals
  BY DEF AuJournals
<1>2. line.said = journal.said /\ line.source = journal.source /\ line.ready = journal.ready /\ line.torn = torn
  BY DEF AuJournals
<1> HIDE DEF line
<1>3. d \in AuDisks
  BY <1>1 DEF AuDisks
<1>4. /\ d.journal = line /\ d.lock = e.lock /\ d.source = e.source /\ d.workMaster = e.workMaster
      /\ d.workRuntime = e.workRuntime /\ d.master = e.master /\ d.runtime = e.runtime /\ d.manifest = e.manifest
  BY DEF AuDisks
<1> HIDE DEF d
<1>5. d \in AuDisks /\ AuSameFiles(d, e) /\ AuAgrees(journal, d.journal) /\ d.journal.torn = torn
  BY <1>2, <1>3, <1>4 DEF AuSameFiles, AuAgrees
<1> QED BY <1>5 DEF d, line

\* A run writes a line and goes on.  What it must know of the new journal is what
\* an asset rests on.
LEMMA AuAppends ==
  ASSUME AuInv, NEW r \in 1 .. AuRuns, auRun[r].at \in AuBusy \ {"prepare"},
         NEW place \in AuBusy \ {"prepare", "asset"}, NEW journal \in AuJournals, AuAppend(r, journal, place), AuSteady,
         Seen(r).said \subseteq journal.said,
         "acquired" \in journal.said => Disk(r).source = journal.source,
         journal.ready # None <=> "normalization_ready" \in journal.said,
         journal.ready # None => /\ "acquired" \in journal.said /\ Recoverable(Disk(r), journal.ready)
                                 /\ Disk(r).manifest \in {None, Torn, journal.ready},
         journal.ready = None => Disk(r).master = None /\ Disk(r).runtime = None /\ Disk(r).manifest = None,
         "completed" \in journal.said =>
           /\ journal.ready # None /\ Disk(r).master = journal.ready /\ Disk(r).runtime = journal.ready
           /\ Disk(r).manifest = journal.ready,
         AuPhase(r, place, journal, Disk(r), auPaid[Here(r)])
  PROVE  AuInv'
<1> DEFINE e == Disk(r)
           torn == Disk(r).journal.torn
           d == [e EXCEPT !.journal = [journal EXCEPT !.torn = torn]]
           run == [auRun[r] EXCEPT !.seen = [@ EXCEPT ![Here(r)] = journal], !.at = place]
           p == auPaid[Here(r)]
<1>1. /\ AuTyped /\ Here(r) \in Asset /\ Here(r) = auRun[r].asset /\ auRun[r] \in AuRunning
      /\ auRun[r].seen \in [Asset -> AuJournals] /\ e = auDisk[Here(r)] /\ e \in AuDisks /\ e.journal \in AuJournals
      /\ p \in Nat /\ AuRests(e, p) /\ AuAgrees(Seen(r), e.journal)
  BY AuAtWork DEF AuPlaces
<1>2. torn \in BOOLEAN
  BY <1>1 DEF AuJournals
<1>3. d \in AuDisks /\ AuSameFiles(d, e) /\ AuAgrees(journal, d.journal) /\ d.journal.torn = torn
  BY <1>1, <1>2, AuLine
<1>4. auDisk' = [auDisk EXCEPT ![Here(r)] = d]
  BY <1>1 DEF AuAppend, AuWrite
<1>5. auRun' = [auRun EXCEPT ![r] = run]
  BY DEF AuAppend
<1>6. run \in AuRunning /\ run.at = place /\ run.asset = Here(r) /\ run.held = auRun[r].held /\ run.resume = auRun[r].resume
      /\ run.seen = [auRun[r].seen EXCEPT ![Here(r)] = journal]
  <2> DEFINE seen == [auRun[r].seen EXCEPT ![Here(r)] = journal]
             new == [auRun[r] EXCEPT !.seen = seen, !.at = place]
  <2>1. seen \in [Asset -> AuJournals] /\ place \in AuPlaces
    BY <1>1 DEF AuPlaces
  <2>2. run = new
    OBVIOUS
  <2> HIDE DEF seen, run
  <2>3. new \in AuRunning /\ new.at = place /\ new.asset = auRun[r].asset /\ new.held = auRun[r].held
        /\ new.resume = auRun[r].resume /\ new.seen = seen
    BY <1>1, <2>1 DEF AuRunning
  <2> QED BY <1>1, <2>2, <2>3 DEF seen
<1>7. auPaid' = [auPaid EXCEPT ![Here(r)] = p] /\ auFaults' \in Nat
  BY <1>1, AuLeaves DEF AuSteady, AuTyped
<1>8. torn = e.journal.torn /\ e = Disk(r) /\ p = auPaid[Here(r)]
  OBVIOUS
<1> HIDE DEF d, run, torn, e, p
<1>9. AuRests(d, p)
  <2>1. /\ p \in {0, 1} /\ (p = 1 => "request_started" \in d.journal.said \/ d.journal.torn)
    BY <1>1, <1>3, <1>8 DEF AuRests, AuAgrees
  <2>2. Recoverable(e, journal.ready) => Recoverable(d, journal.ready)
    BY <1>3 DEF Recoverable, Recovered, AuSameFiles
  <2> QED BY <1>3, <1>8, <2>1, <2>2 DEF AuRests, AuAgrees, AuSameFiles
<1>10. AuPhase(r, place, journal, d, p)
  BY <1>3, <1>8 DEF AuPhase, AuSameFiles
<1>11. d.lock = Disk(r).lock
  BY <1>3, <1>8 DEF AuSameFiles
<1>12. /\ auRun[r].at \in AuBusy \ {"prepare"} /\ place \in AuBusy \ {"prepare", "asset"} /\ journal \in AuJournals
       /\ run \in AuRunning /\ auRun' = [auRun EXCEPT ![r] = run] /\ run.at = place /\ run.asset = Here(r)
       /\ run.held = auRun[r].held /\ run.resume = auRun[r].resume
  BY <1>5, <1>6
<1>13. /\ run.seen = [auRun[r].seen EXCEPT ![Here(r)] = journal]
       /\ d \in AuDisks /\ auDisk' = [auDisk EXCEPT ![Here(r)] = d] /\ d.lock = Disk(r).lock
  BY <1>3, <1>4, <1>6, <1>11
<1>14. /\ p \in Nat /\ auPaid' = [auPaid EXCEPT ![Here(r)] = p] /\ auFaults' \in Nat
       /\ AuRests(d, p) /\ AuAgrees(journal, d.journal) /\ AuPhase(r, place, journal, d, p)
  BY <1>1, <1>3, <1>7, <1>9, <1>10
<1> QED BY <1>12, <1>13, <1>14, AuGoesOn

\* A line that only says a state: what it must say of the files is small.
LEMMA AuSays ==
  ASSUME AuInv, NEW r \in 1 .. AuRuns, auRun[r].at \in AuBusy \ {"prepare"},
         NEW place \in AuBusy \ {"prepare", "asset"}, NEW state, AuAppendState(r, state, place), AuSteady,
         state \notin {"acquired", "normalization_ready"},
         state = "completed" =>
           /\ Seen(r).ready # None /\ Disk(r).master = Seen(r).ready /\ Disk(r).runtime = Seen(r).ready
           /\ Disk(r).manifest = Seen(r).ready,
         \A seen : seen.said = Seen(r).said \cup ({state} \cap AskedFor) /\ seen.source = Seen(r).source /\ seen.ready = Seen(r).ready
                     => AuPhase(r, place, seen, Disk(r), auPaid[Here(r)])
  PROVE  AuInv'
<1> DEFINE old == Seen(r)
           seen == AuWith(old, state)
<1>1. /\ old \in AuJournals /\ AuRests(Disk(r), auPaid[Here(r)]) /\ AuAgrees(old, Disk(r).journal)
  BY AuAtWork DEF AuPlaces
<1>2. /\ seen.said = old.said \cup ({state} \cap AskedFor) /\ seen.source = old.source /\ seen.ready = old.ready
      /\ seen \in AuJournals
  BY <1>1 DEF AuWith, AuJournals
<1>3. AuAppend(r, seen, place)
  BY DEF AuAppendState
<1>4. AuPhase(r, place, seen, Disk(r), auPaid[Here(r)])
  BY <1>2
<1>5. /\ "acquired" \in seen.said => Disk(r).source = seen.source
      /\ seen.ready # None <=> "normalization_ready" \in seen.said
      /\ seen.ready # None => /\ "acquired" \in seen.said /\ Recoverable(Disk(r), seen.ready)
                              /\ Disk(r).manifest \in {None, Torn, seen.ready}
      /\ seen.ready = None => Disk(r).master = None /\ Disk(r).runtime = None /\ Disk(r).manifest = None
      /\ "completed" \in seen.said =>
           /\ seen.ready # None /\ Disk(r).master = seen.ready /\ Disk(r).runtime = seen.ready
           /\ Disk(r).manifest = seen.ready
  BY <1>1, <1>2 DEF AuRests, AuAgrees
<1>6. old.said \subseteq seen.said
  BY <1>2
<1> HIDE DEF seen
<1> QED BY <1>2, <1>3, <1>4, <1>5, <1>6, AuAppends

-----------------------------------------------------------------------------
(* The steps of a run on one asset.                                        *)

\* A file is written.
AuNames == {"source", "workMaster", "workRuntime", "master", "runtime", "manifest"}
AuWritten(d, e, file, content) ==
  /\ d.lock = e.lock /\ d.journal = e.journal
  /\ d.source = (IF file = "source" THEN content ELSE e.source)
  /\ d.workMaster = (IF file = "workMaster" THEN content ELSE e.workMaster)
  /\ d.workRuntime = (IF file = "workRuntime" THEN content ELSE e.workRuntime)
  /\ d.master = (IF file = "master" THEN content ELSE e.master)
  /\ d.runtime = (IF file = "runtime" THEN content ELSE e.runtime)
  /\ d.manifest = (IF file = "manifest" THEN content ELSE e.manifest)

LEMMA AuWrites ==
  ASSUME AuTyped, NEW r, Here(r) \in Asset, NEW file \in AuNames, NEW content \in AuFiles,
         AuWrite(r, file, content)
  PROVE  \E d \in AuDisks : AuWritten(d, Disk(r), file, content) /\ auDisk' = [auDisk EXCEPT ![Here(r)] = d]
<1> DEFINE e == Disk(r)
           d == [e EXCEPT ![file] = content]
<1>1. e \in AuDisks
  BY DEF AuTyped, Disk
<1>2. auDisk' = [auDisk EXCEPT ![Here(r)] = d]
  BY DEF AuWrite, Disk
<1> HIDE DEF e
<1>3. d \in AuDisks /\ AuWritten(d, e, file, content)
  <2>1. CASE file = "source"
    BY <1>1, <2>1 DEF AuDisks, AuWritten
  <2>2. CASE file = "workMaster"
    BY <1>1, <2>2 DEF AuDisks, AuWritten
  <2>3. CASE file = "workRuntime"
    BY <1>1, <2>3 DEF AuDisks, AuWritten
  <2>4. CASE file = "master"
    BY <1>1, <2>4 DEF AuDisks, AuWritten
  <2>5. CASE file = "runtime"
    BY <1>1, <2>5 DEF AuDisks, AuWritten
  <2>6. CASE file = "manifest"
    BY <1>1, <2>6 DEF AuDisks, AuWritten
  <2> QED BY <2>1, <2>2, <2>3, <2>4, <2>5, <2>6 DEF AuNames
<1> HIDE DEF d
<1> QED BY <1>2, <1>3 DEF e

\* It writes a file of its asset and goes on.
LEMMA AuWritesOn ==
  ASSUME AuInv, NEW r \in 1 .. AuRuns, auRun[r].at \in AuBusy \ {"prepare"},
         NEW place \in AuBusy \ {"prepare", "asset"}, GoOn(r, place), UNCHANGED auPaid, auFaults' \in Nat,
         NEW file \in AuNames, NEW content \in AuFiles, AuWrite(r, file, content),
         \A d : AuWritten(d, Disk(r), file, content) => AuRests(d, auPaid[Here(r)]) /\ AuPhase(r, place, Seen(r), d, auPaid[Here(r)])
  PROVE  AuInv'
<1>1. /\ AuTyped /\ Here(r) \in Asset /\ auPaid[Here(r)] \in Nat /\ AuAgrees(Seen(r), Disk(r).journal)
  BY AuAtWork DEF AuPlaces
<1>2. PICK d \in AuDisks : AuWritten(d, Disk(r), file, content) /\ auDisk' = [auDisk EXCEPT ![Here(r)] = d]
  BY <1>1, AuWrites
<1>3. auPaid' = [auPaid EXCEPT ![Here(r)] = auPaid[Here(r)]]
  BY <1>1, AuLeaves
<1>4. d.lock = Disk(r).lock /\ AuAgrees(Seen(r), d.journal)
  BY <1>1, <1>2 DEF AuWritten
<1>5. AuRests(d, auPaid[Here(r)]) /\ AuPhase(r, place, Seen(r), d, auPaid[Here(r)])
  BY <1>2
<1> QED BY <1>1, <1>2, <1>3, <1>4, <1>5, AuSteps

\* An error is caught by the handler of the asset.
LEMMA AuThrows ==
  ASSUME AuInv, NEW r \in 1 .. AuRuns, auRun[r].at \in AuBusy \ {"prepare"}, Throw(r), UNCHANGED <<auDisk, auPaid>>,
         auFaults' \in Nat
  PROVE  AuInv'
<1>1. /\ "throw" \in AuBusy \ {"prepare", "asset"} /\ "throw" \notin AuBuying \cup AuFinishing
      /\ "throw" \notin AuMaking \cup AuLinking
  BY DEF AuBusy, AuBuying, AuFinishing, AuMaking, AuLinking
<1>2. AuPhase(r, "throw", Seen(r), Disk(r), auPaid[Here(r)])
  BY <1>1 DEF AuPhase
<1> QED BY <1>1, <1>2, AuGoesBy DEF Throw

\* acquireSource: the request, its answer, and the file.
LEMMA AuRequests == ASSUME AuInv, NEW r \in 1 .. AuRuns, AuRequest(r) PROVE AuInv'
<1> DEFINE h == Here(r)
<1>1. auRun[r].at = "request" /\ UNCHANGED <<auDisk, auFaults>> /\ auPaid' = [auPaid EXCEPT ![h] = @ + 1]
  BY DEF AuRequest, AuAt
<1>2. {"request", "body", "throw"} \subseteq AuBusy \ {"prepare", "asset"}
  BY DEF AuBusy, AuBuying
<1>3. /\ AuTyped /\ h \in Asset /\ Disk(r) = auDisk[h] /\ Disk(r) \in AuDisks /\ AuRests(Disk(r), auPaid[h])
      /\ AuAgrees(Seen(r), Disk(r).journal) /\ AuPhase(r, "request", Seen(r), Disk(r), auPaid[h])
  BY <1>1, <1>2, AuAtWork DEF AuPlaces
<1>4. auPaid[h] = 0 /\ "request_started" \in Seen(r).said /\ "acquired" \notin Seen(r).said
  BY <1>3 DEF AuPhase, AuBuying
<1>5. auPaid' = [auPaid EXCEPT ![h] = 1] /\ auDisk' = [auDisk EXCEPT ![h] = Disk(r)]
  BY <1>1, <1>3, <1>4, AuLeaves
<1>6. AuRests(Disk(r), 1)
  BY <1>3, <1>4 DEF AuRests, AuAgrees
<1>7. ASSUME NEW place \in {"body", "throw"} PROVE AuPhase(r, place, Seen(r), Disk(r), 1)
  BY <1>4 DEF AuPhase, AuBuying, AuFinishing, AuMaking, AuLinking
<1>8. ASSUME NEW place \in {"body", "throw"}, GoOn(r, place) PROVE AuInv'
  BY <1>1, <1>2, <1>3, <1>5, <1>6, <1>7, <1>8, AuSteps DEF AuTyped
<1> QED BY <1>8 DEF AuRequest, Throw

LEMMA AuBodies == ASSUME AuInv, NEW r \in 1 .. AuRuns, AuBody(r) PROVE AuInv'
<1>1. auRun[r].at = "body" /\ UNCHANGED <<auDisk, auPaid, auFaults>> /\ (GoOn(r, "response") \/ Throw(r))
  BY DEF AuBody, AuAt, AuSteady
<1>2. {"body", "response"} \subseteq AuBusy \ {"prepare", "asset"}
  BY DEF AuBusy, AuBuying
<1>3. auFaults' \in Nat /\ AuPhase(r, "body", Seen(r), Disk(r), auPaid[Here(r)])
  BY <1>1, <1>2, AuAtWork DEF AuPlaces, AuTyped
<1>4. AuPhase(r, "response", Seen(r), Disk(r), auPaid[Here(r)])
  BY <1>3 DEF AuPhase, AuBuying, AuFinishing, AuMaking, AuLinking
<1> QED BY <1>1, <1>2, <1>3, <1>4, AuThrows, AuGoesBy

LEMMA AuResponses == ASSUME AuInv, NEW r \in 1 .. AuRuns, AuResponse(r) PROVE AuInv'
<1>1. auRun[r].at = "response" /\ AuSteady /\ AuAppendState(r, "response_received", "source")
  BY DEF AuResponse, AuAt
<1>2. {"response", "source"} \subseteq AuBusy \ {"prepare", "asset"}
  BY DEF AuBusy, AuBuying
<1>3. AuPhase(r, "response", Seen(r), Disk(r), auPaid[Here(r)])
  BY <1>1, <1>2, AuAtWork DEF AuPlaces
<1>4. \A seen : seen.said = Seen(r).said \cup ({"response_received"} \cap AskedFor) /\ seen.source = Seen(r).source
                /\ seen.ready = Seen(r).ready => AuPhase(r, "source", seen, Disk(r), auPaid[Here(r)])
  BY <1>3 DEF AuPhase, AuBuying, AuFinishing, AuMaking, AuLinking, AskedFor
<1> QED BY <1>1, <1>2, <1>4, AuSays

LEMMA AuSources == ASSUME AuInv, NEW r \in 1 .. AuRuns, AuSource(r) PROVE AuInv'
<1>1. auRun[r].at = "source" /\ AuSteady /\ AuWrite(r, "source", r) /\ GoOn(r, "acquired")
  BY DEF AuSource, AuAt
<1>2. {"source", "acquired"} \subseteq AuBusy \ {"prepare", "asset"} /\ "source" \in AuNames /\ r \in AuFiles
  BY DEF AuBusy, AuBuying, AuNames, AuFiles
<1>3. /\ AuPhase(r, "source", Seen(r), Disk(r), auPaid[Here(r)]) /\ AuRests(Disk(r), auPaid[Here(r)])
      /\ AuAgrees(Seen(r), Disk(r).journal) /\ AuTyped
  BY <1>1, <1>2, AuAtWork DEF AuPlaces
<1>4. "acquired" \notin Seen(r).said
  BY <1>3 DEF AuPhase, AuBuying
<1>5. ASSUME NEW d, AuWritten(d, Disk(r), "source", r)
      PROVE  AuRests(d, auPaid[Here(r)]) /\ AuPhase(r, "acquired", Seen(r), d, auPaid[Here(r)])
  <2>1. Seen(r).ready = None
    BY <1>3, <1>4 DEF AuRests, AuAgrees
  <2>2. AuRests(d, auPaid[Here(r)])
    BY <1>3, <1>4, <1>5, <2>1 DEF AuRests, AuAgrees, AuWritten
  <2>3. AuPhase(r, "acquired", Seen(r), d, auPaid[Here(r)])
    BY <1>4, <1>5 DEF AuPhase, AuWritten, AuBuying, AuFinishing, AuMaking, AuLinking
  <2> QED BY <2>2, <2>3
<1>6. auFaults' \in Nat /\ UNCHANGED auPaid
  BY <1>1, <1>3 DEF AuTyped, AuSteady
<1> QED BY <1>1, <1>2, <1>5, <1>6, AuWritesOn

LEMMA AuAcquires == ASSUME AuInv, NEW r \in 1 .. AuRuns, AuAcquired(r) PROVE AuInv'
<1> DEFINE old == Seen(r)
           seen == [AuWith(old, "acquired") EXCEPT !.source = r]
<1>1. auRun[r].at = "acquired" /\ AuSteady /\ AuAppend(r, seen, "check")
  BY DEF AuAcquired, AuAt
<1>2. {"acquired", "check"} \subseteq AuBusy \ {"prepare", "asset"} /\ r \in AuFiles /\ "acquired" \in AskedFor
  BY DEF AuBusy, AuBuying, AuFinishing, AuFiles, AskedFor
<1>3. /\ AuPhase(r, "acquired", old, Disk(r), auPaid[Here(r)]) /\ AuRests(Disk(r), auPaid[Here(r)])
      /\ AuAgrees(old, Disk(r).journal) /\ old \in AuJournals
  BY <1>1, <1>2, AuAtWork DEF AuPlaces
<1>4. "acquired" \notin old.said /\ Disk(r).source = r
  BY <1>3 DEF AuPhase, AuBuying
<1>5. seen \in AuJournals /\ seen.said = old.said \cup {"acquired"} /\ seen.source = r /\ seen.ready = old.ready
  BY <1>2, <1>3 DEF AuWith, AuJournals
<1>6. old.ready = None
  BY <1>3, <1>4 DEF AuRests, AuAgrees
<1> HIDE DEF seen
<1>7. /\ Seen(r).said \subseteq seen.said
      /\ "acquired" \in seen.said => Disk(r).source = seen.source
      /\ seen.ready # None <=> "normalization_ready" \in seen.said
      /\ seen.ready = None
      /\ Disk(r).master = None /\ Disk(r).runtime = None /\ Disk(r).manifest = None
      /\ "completed" \notin seen.said
  BY <1>3, <1>4, <1>5, <1>6 DEF AuRests, AuAgrees
<1>8. AuPhase(r, "check", seen, Disk(r), auPaid[Here(r)])
  BY <1>5 DEF AuPhase, AuBuying, AuFinishing, AuMaking, AuLinking
<1> QED BY <1>1, <1>2, <1>5, <1>7, <1>8, AuAppends

\* finishAsset: the source is checked and said to be valid.
LEMMA AuChecks == ASSUME AuInv, NEW r \in 1 .. AuRuns, AuCheck(r) PROVE AuInv'
<1>1. auRun[r].at = "check" /\ AuSteady
  BY DEF AuCheck, AuAt
<1>2. {"check", "plan"} \subseteq AuBusy \ {"prepare", "asset"}
  BY DEF AuBusy, AuFinishing
<1>3. AuPhase(r, "check", Seen(r), Disk(r), auPaid[Here(r)]) /\ AuTyped
  BY <1>1, <1>2, AuAtWork DEF AuPlaces
<1>4. auFaults' \in Nat /\ UNCHANGED auPaid
  BY <1>1, <1>3 DEF AuTyped, AuSteady
<1>5. AuPhase(r, "plan", Seen(r), Disk(r), auPaid[Here(r)])
  BY <1>3 DEF AuPhase, AuBuying, AuFinishing, AuMaking, AuLinking
<1>6. CASE UNCHANGED auDisk /\ Throw(r)
  BY <1>1, <1>2, <1>4, <1>6, AuThrows
<1>7. CASE UNCHANGED auDisk /\ GoOn(r, "plan")
  BY <1>1, <1>2, <1>4, <1>5, <1>7, AuGoesBy
<1>8. CASE AuAppendState(r, "source_validated", "plan")
  <2>1. \A seen : seen.said = Seen(r).said \cup ({"source_validated"} \cap AskedFor) /\ seen.source = Seen(r).source
                  /\ seen.ready = Seen(r).ready => AuPhase(r, "plan", seen, Disk(r), auPaid[Here(r)])
    BY <1>3 DEF AuPhase, AuBuying, AuFinishing, AuMaking, AuLinking
  <2> QED BY <1>1, <1>2, <1>8, <2>1, AuSays
<1> QED BY <1>6, <1>7, <1>8 DEF AuCheck

\* It is normalized anew, or what an earlier run made of it is still there.
LEMMA AuPlansOn == ASSUME AuInv, NEW r \in 1 .. AuRuns, AuPlan(r) PROVE AuInv'
<1>1. auRun[r].at = "plan" /\ AuSteady
  BY DEF AuPlan, AuAt
<1>2. {"plan", "master", "promoteMaster"} \subseteq AuBusy \ {"prepare", "asset"}
  BY DEF AuBusy, AuFinishing, AuMaking, AuLinking
<1>3. AuPhase(r, "plan", Seen(r), Disk(r), auPaid[Here(r)]) /\ AuTyped
  BY <1>1, <1>2, AuAtWork DEF AuPlaces
<1>4. auFaults' \in Nat /\ UNCHANGED auPaid
  BY <1>1, <1>3 DEF AuTyped, AuSteady
<1>5. CASE UNCHANGED auDisk /\ Throw(r)
  BY <1>1, <1>2, <1>4, <1>5, AuThrows
<1>6. CASE Seen(r).ready # None /\ UNCHANGED auDisk /\ GoOn(r, "promoteMaster")
  <2>1. AuPhase(r, "promoteMaster", Seen(r), Disk(r), auPaid[Here(r)])
    BY <1>3, <1>6 DEF AuPhase, AuBuying, AuFinishing, AuMaking, AuLinking
  <2> QED BY <1>1, <1>2, <1>4, <1>6, <2>1, AuGoesBy
<1>7. CASE Seen(r).ready = None /\ AuAppendState(r, "normalization_started", "master")
  <2>1. \A seen : seen.said = Seen(r).said \cup ({"normalization_started"} \cap AskedFor) /\ seen.source = Seen(r).source
                  /\ seen.ready = Seen(r).ready => AuPhase(r, "master", seen, Disk(r), auPaid[Here(r)])
    BY <1>3, <1>7 DEF AuPhase, AuBuying, AuFinishing, AuMaking, AuLinking
  <2> QED BY <1>1, <1>2, <1>7, <2>1, AuSays
<1> QED BY <1>5, <1>6, <1>7 DEF AuPlan

\* A work file nobody relies on yet.
LEMMA AuNormalizes ==
  ASSUME AuInv, NEW r \in 1 .. AuRuns,
         NEW place, NEW work, NEW next,
         \/ place = "master" /\ work = "workMaster" /\ next = "runtime"
         \/ place = "runtime" /\ work = "workRuntime" /\ next = "ready",
         AuNormalize(r, place, work, next)
  PROVE  AuInv'
<1>1. auRun[r].at = place /\ AuSteady
  BY DEF AuNormalize, AuAt
<1>2. /\ {place, next} \subseteq AuBusy \ {"prepare", "asset"} /\ work \in AuNames /\ r \in AuFiles
  BY DEF AuBusy, AuFinishing, AuMaking, AuNames, AuFiles
<1>3. /\ AuPhase(r, place, Seen(r), Disk(r), auPaid[Here(r)]) /\ AuTyped /\ AuRests(Disk(r), auPaid[Here(r)])
      /\ AuAgrees(Seen(r), Disk(r).journal)
  BY <1>1, <1>2, AuAtWork DEF AuPlaces
<1>4. auFaults' \in Nat /\ UNCHANGED auPaid
  BY <1>1, <1>3 DEF AuTyped, AuSteady
<1>5. Seen(r).ready = None /\ "acquired" \in Seen(r).said
  BY <1>3 DEF AuPhase, AuMaking, AuFinishing
<1>6. CASE UNCHANGED auDisk /\ Throw(r)
  BY <1>1, <1>2, <1>4, <1>6, AuThrows
<1>7. CASE AuWrite(r, work, r) /\ GoOn(r, next)
  <2>1. ASSUME NEW d, AuWritten(d, Disk(r), work, r)
        PROVE  AuRests(d, auPaid[Here(r)]) /\ AuPhase(r, next, Seen(r), d, auPaid[Here(r)])
    <3>1. AuRests(d, auPaid[Here(r)])
      BY <1>3, <1>5, <2>1 DEF AuRests, AuAgrees, AuWritten
    <3>2. AuPhase(r, next, Seen(r), d, auPaid[Here(r)])
      BY <1>3, <1>5, <2>1 DEF AuPhase, AuWritten, AuBuying, AuFinishing, AuMaking, AuLinking
    <3> QED BY <3>1, <3>2
  <2> QED BY <1>1, <1>2, <1>4, <1>7, <2>1, AuWritesOn
<1> QED BY <1>6, <1>7 DEF AuNormalize

LEMMA AuReadies == ASSUME AuInv, NEW r \in 1 .. AuRuns, AuReady(r) PROVE AuInv'
<1> DEFINE old == Seen(r)
           seen == [AuWith(old, "normalization_ready") EXCEPT !.ready = r]
<1>1. auRun[r].at = "ready" /\ AuSteady /\ AuAppend(r, seen, "promoteMaster")
  BY DEF AuReady, AuAt
<1>2. /\ {"ready", "promoteMaster"} \subseteq AuBusy \ {"prepare", "asset"} /\ r \in AuFiles
      /\ "normalization_ready" \in AskedFor /\ r # None
  BY DEF AuBusy, AuFinishing, AuMaking, AuLinking, AuFiles, AskedFor, None
<1>3. /\ AuPhase(r, "ready", old, Disk(r), auPaid[Here(r)]) /\ AuRests(Disk(r), auPaid[Here(r)])
      /\ AuAgrees(old, Disk(r).journal) /\ old \in AuJournals
  BY <1>1, <1>2, AuAtWork DEF AuPlaces
<1>4. /\ "acquired" \in old.said /\ old.ready = None /\ Disk(r).workMaster = r /\ Disk(r).workRuntime = r
  BY <1>3 DEF AuPhase, AuFinishing, AuMaking
<1>5. seen \in AuJournals /\ seen.said = old.said \cup {"normalization_ready"} /\ seen.source = old.source /\ seen.ready = r
  BY <1>2, <1>3 DEF AuWith, AuJournals
<1> HIDE DEF seen
<1>6. Recoverable(Disk(r), r) /\ Disk(r).manifest = None
  BY <1>2, <1>3, <1>4 DEF Recoverable, Recovered, AuRests, AuAgrees
<1>7. /\ Seen(r).said \subseteq seen.said
      /\ "acquired" \in seen.said => Disk(r).source = seen.source
      /\ seen.ready # None /\ "normalization_ready" \in seen.said
      /\ "acquired" \in seen.said /\ Recoverable(Disk(r), seen.ready) /\ Disk(r).manifest \in {None, Torn, seen.ready}
      /\ "completed" \notin seen.said
  BY <1>2, <1>3, <1>4, <1>5, <1>6 DEF AuRests, AuAgrees
<1>8. AuPhase(r, "promoteMaster", seen, Disk(r), auPaid[Here(r)])
  BY <1>2, <1>4, <1>5 DEF AuPhase, AuBuying, AuFinishing, AuMaking, AuLinking
<1> QED BY <1>1, <1>2, <1>5, <1>7, <1>8, AuAppends

\* promoteExclusive: at every point a file that was made is under one of its names.
LEMMA AuPromotes ==
  ASSUME AuInv, NEW r \in 1 .. AuRuns, NEW place, NEW work, NEW final, NEW next,
         \/ place = "promoteMaster" /\ work = "workMaster" /\ final = "master" /\ next = "promoteRuntime"
         \/ place = "promoteRuntime" /\ work = "workRuntime" /\ final = "runtime" /\ next = "normalized",
         AuPromote(r, place, work, final, next)
  PROVE  AuInv'
<1> DEFINE e == Disk(r)
           ready == Seen(r).ready
           p == auPaid[Here(r)]
<1>1. auRun[r].at = place /\ AuSteady
  BY DEF AuPromote, AuAt
<1>2. {place, next} \subseteq AuBusy \ {"prepare", "asset"} /\ {work, final} \subseteq AuNames /\ None \in AuFiles
  BY AudioAssumption DEF AuBusy, AuFinishing, AuLinking, AuNames, AuFiles, None
<1>3. /\ AuPhase(r, place, Seen(r), e, p) /\ AuTyped /\ AuRests(e, p) /\ AuAgrees(Seen(r), e.journal) /\ e \in AuDisks
  BY <1>1, <1>2, AuAtWork DEF AuPlaces
<1>4. auFaults' \in Nat /\ UNCHANGED auPaid
  BY <1>1, <1>3 DEF AuTyped, AuSteady
<1>5. /\ ready # None /\ ready = e.journal.ready /\ "acquired" \in Seen(r).said /\ Recoverable(e, ready)
      /\ place = "promoteRuntime" => e.master = ready
  BY <1>3 DEF AuPhase, AuLinking, AuFinishing, AuRests, AuAgrees
<1>6. CASE UNCHANGED auDisk /\ Throw(r)
  BY <1>1, <1>2, <1>4, <1>6, AuThrows
<1>7. CASE e[final] = ready /\ AuWrite(r, work, None) /\ GoOn(r, next)
  <2>1. ASSUME NEW d, AuWritten(d, e, work, None) PROVE AuRests(d, p) /\ AuPhase(r, next, Seen(r), d, p)
    <3>1. Recoverable(d, ready)
      BY <1>5, <1>7, <2>1 DEF Recoverable, Recovered, AuWritten
    <3>2. AuRests(d, p)
      BY <1>3, <1>5, <2>1, <3>1 DEF AuRests, AuAgrees, AuWritten
    <3>3. AuPhase(r, next, Seen(r), d, p)
      BY <1>5, <1>7, <2>1 DEF AuPhase, AuWritten, AuBuying, AuFinishing, AuMaking, AuLinking
    <3> QED BY <3>2, <3>3
  <2> QED BY <1>1, <1>2, <1>4, <1>7, <2>1, AuWritesOn
<1>8. CASE e[final] = None /\ e[work] = ready /\ AuWrite(r, final, e[work]) /\ GoOn(r, place)
  <2>1. ready \in AuFiles /\ AuWrite(r, final, ready)
    BY <1>3, <1>8, AuAtWork, <1>1, <1>2 DEF AuPlaces, AuJournals
  <2>2. ASSUME NEW d, AuWritten(d, e, final, ready) PROVE AuRests(d, p) /\ AuPhase(r, place, Seen(r), d, p)
    <3>1. Recoverable(d, ready)
      BY <1>5, <1>8, <2>2 DEF Recoverable, Recovered, AuWritten
    <3>2. AuRests(d, p)
      BY <1>3, <1>5, <1>8, <2>2, <3>1 DEF AuRests, AuAgrees, AuWritten
    <3>3. AuPhase(r, place, Seen(r), d, p)
      BY <1>3, <1>5, <1>8, <2>2 DEF AuPhase, AuWritten, AuBuying, AuFinishing, AuMaking, AuLinking
    <3> QED BY <3>2, <3>3
  <2> QED BY <1>1, <1>2, <1>4, <1>8, <2>1, <2>2, AuWritesOn
<1> QED BY <1>5, <1>6, <1>7, <1>8 DEF AuPromote

LEMMA AuNormalizedOn == ASSUME AuInv, NEW r \in 1 .. AuRuns, AuNormalized(r) PROVE AuInv'
<1>1. auRun[r].at = "normalized" /\ AuSteady
  BY DEF AuNormalized, AuAt
<1>2. {"normalized", "manifest"} \subseteq AuBusy \ {"prepare", "asset"}
  BY DEF AuBusy, AuFinishing, AuLinking
<1>3. AuPhase(r, "normalized", Seen(r), Disk(r), auPaid[Here(r)]) /\ AuTyped
  BY <1>1, <1>2, AuAtWork DEF AuPlaces
<1>4. auFaults' \in Nat /\ UNCHANGED auPaid
  BY <1>1, <1>3 DEF AuTyped, AuSteady
<1>5. CASE UNCHANGED auDisk /\ GoOn(r, "manifest")
  <2>1. AuPhase(r, "manifest", Seen(r), Disk(r), auPaid[Here(r)])
    BY <1>3 DEF AuPhase, AuBuying, AuFinishing, AuMaking, AuLinking
  <2> QED BY <1>1, <1>2, <1>4, <1>5, <2>1, AuGoesBy
<1>6. CASE AuAppendState(r, "normalized", "manifest")
  <2>1. \A seen : seen.said = Seen(r).said \cup ({"normalized"} \cap AskedFor) /\ seen.source = Seen(r).source
                  /\ seen.ready = Seen(r).ready => AuPhase(r, "manifest", seen, Disk(r), auPaid[Here(r)])
    BY <1>3 DEF AuPhase, AuBuying, AuFinishing, AuMaking, AuLinking
  <2> QED BY <1>1, <1>2, <1>6, <2>1, AuSays
<1> QED BY <1>5, <1>6 DEF AuNormalized

LEMMA AuManifests == ASSUME AuInv, NEW r \in 1 .. AuRuns, AuManifest(r) PROVE AuInv'
<1> DEFINE e == Disk(r)
           ready == Seen(r).ready
           p == auPaid[Here(r)]
<1>1. auRun[r].at = "manifest" /\ AuSteady
  BY DEF AuManifest, AuAt
<1>2. {"manifest", "completed"} \subseteq AuBusy \ {"prepare", "asset"} /\ "manifest" \in AuNames
  BY DEF AuBusy, AuFinishing, AuLinking, AuNames
<1>3. /\ AuPhase(r, "manifest", Seen(r), e, p) /\ AuTyped /\ AuRests(e, p) /\ AuAgrees(Seen(r), e.journal)
      /\ Seen(r) \in AuJournals
  BY <1>1, <1>2, AuAtWork DEF AuPlaces
<1>4. auFaults' \in Nat /\ UNCHANGED auPaid /\ ready \in AuFiles
  BY <1>1, <1>3 DEF AuTyped, AuSteady, AuJournals
<1>5. /\ ready # None /\ "acquired" \in Seen(r).said /\ e.master = ready /\ e.runtime = ready
  BY <1>3 DEF AuPhase, AuLinking, AuFinishing
<1>6. CASE UNCHANGED auDisk /\ Throw(r)
  BY <1>1, <1>2, <1>4, <1>6, AuThrows
<1>7. CASE e.manifest = ready /\ UNCHANGED auDisk /\ GoOn(r, "completed")
  <2>1. AuPhase(r, "completed", Seen(r), e, p)
    BY <1>5, <1>7 DEF AuPhase, AuBuying, AuFinishing, AuMaking, AuLinking
  <2> QED BY <1>1, <1>2, <1>4, <1>7, <2>1, AuGoesBy
<1>8. CASE AuWrite(r, "manifest", ready) /\ GoOn(r, "completed")
  <2>1. ASSUME NEW d, AuWritten(d, e, "manifest", ready) PROVE AuRests(d, p) /\ AuPhase(r, "completed", Seen(r), d, p)
    <3>1. AuRests(d, p)
      BY <1>3, <1>5, <2>1 DEF AuRests, AuAgrees, AuWritten, Recoverable, Recovered
    <3>2. AuPhase(r, "completed", Seen(r), d, p)
      BY <1>5, <2>1 DEF AuPhase, AuWritten, AuBuying, AuFinishing, AuMaking, AuLinking
    <3> QED BY <3>1, <3>2
  <2> QED BY <1>1, <1>2, <1>4, <1>8, <2>1, AuWritesOn
<1> QED BY <1>6, <1>7, <1>8 DEF AuManifest

LEMMA AuCompletes == ASSUME AuInv, NEW r \in 1 .. AuRuns, AuCompleted(r) PROVE AuInv'
<1>1. auRun[r].at = "completed" /\ AuSteady /\ AuAppendState(r, "completed", "cleanup")
  BY DEF AuCompleted, AuAt
<1>2. {"completed", "cleanup"} \subseteq AuBusy \ {"prepare", "asset"}
  BY DEF AuBusy, AuFinishing, AuLinking
<1>3. AuPhase(r, "completed", Seen(r), Disk(r), auPaid[Here(r)])
  BY <1>1, <1>2, AuAtWork DEF AuPlaces
<1>4. /\ Seen(r).ready # None /\ Disk(r).master = Seen(r).ready /\ Disk(r).runtime = Seen(r).ready
      /\ Disk(r).manifest = Seen(r).ready
  BY <1>3 DEF AuPhase, AuLinking
<1>5. \A seen : seen.said = Seen(r).said \cup ({"completed"} \cap AskedFor) /\ seen.source = Seen(r).source
                /\ seen.ready = Seen(r).ready => AuPhase(r, "cleanup", seen, Disk(r), auPaid[Here(r)])
  BY DEF AuPhase, AuBuying, AuFinishing, AuMaking, AuLinking
<1> QED BY <1>1, <1>2, <1>4, <1>5, AuSays

-----------------------------------------------------------------------------
(* Where a run takes up an asset and leaves it.                            *)

\* What an asset rests on says nothing of its lock.
AuSameButLock(d, e) ==
  /\ d.journal = e.journal /\ d.source = e.source /\ d.workMaster = e.workMaster /\ d.workRuntime = e.workRuntime
  /\ d.master = e.master /\ d.runtime = e.runtime /\ d.manifest = e.manifest

\* The asset a run is at, while it is still preparing.
LEMMA AuAtHand ==
  ASSUME AuInv, NEW r \in 1 .. AuRuns
  PROVE  /\ AuTyped /\ Here(r) \in Asset /\ Here(r) = auRun[r].asset /\ auRun[r] \in AuRunning
         /\ auRun[r].seen \in [Asset -> AuJournals] /\ Disk(r) = auDisk[Here(r)] /\ Disk(r) \in AuDisks
         /\ Disk(r).journal \in AuJournals /\ auPaid[Here(r)] \in Nat /\ AuRests(Disk(r), auPaid[Here(r)])
<1>1. AuTyped /\ auRun[r] \in AuRunning
  BY DEF AuInv, AuTyped
<1>2. Here(r) \in Asset /\ auRun[r].seen \in [Asset -> AuJournals] /\ Here(r) = auRun[r].asset
  BY <1>1 DEF AuRunning, Here
<1>3. Disk(r) \in AuDisks /\ auPaid[Here(r)] \in Nat
  BY <1>1, <1>2 DEF AuTyped, Disk
<1>4. Disk(r).journal \in AuJournals
  BY <1>3 DEF AuDisks
<1>5. AuRests(Disk(r), auPaid[Here(r)])
  BY <1>2 DEF AuInv, Disk
<1> QED BY <1>1, <1>2, <1>3, <1>4, <1>5 DEF Disk

\* A run stops, at an error or because it dies.
LEMMA AuStops ==
  ASSUME AuInv, NEW r \in 1 .. AuRuns, auRun[r].at \in AuBusy, Abort(r) \/ AuOver(r),
         NEW d \in AuDisks, auDisk' = [auDisk EXCEPT ![Here(r)] = d], d.lock = Disk(r).lock,
         UNCHANGED auPaid, auFaults' \in Nat, AuRests(d, auPaid[Here(r)])
  PROVE  AuInv'
<1>1. /\ AuTyped /\ Here(r) \in Asset /\ auRun[r] \in AuRunning /\ auPaid[Here(r)] \in Nat
  BY AuAtHand
<1>2. auPaid' = [auPaid EXCEPT ![Here(r)] = auPaid[Here(r)]]
  BY <1>1, AuLeaves
<1>3. {"release", "over"} \cap AuBusy = {} /\ {"release", "over"} \subseteq AuPlaces
  BY DEF AuPlaces, AuBusy, AuBuying, AuFinishing, AuMaking, AuLinking
<1>4. CASE Abort(r)
  <2> DEFINE run == [auRun[r] EXCEPT !.at = "release"]
  <2>1. auRun' = [auRun EXCEPT ![r] = run]
    BY <1>4 DEF Abort, GoOn
  <2>2. run \in AuRunning /\ run.at = "release" /\ run.held = auRun[r].held
    BY <1>1, <1>3 DEF AuRunning
  <2> HIDE DEF run
  <2> QED BY <1>1, <1>2, <1>3, <2>1, <2>2, AuWorks
<1>5. CASE AuOver(r)
  <2> DEFINE run == NewRun("over")
  <2>1. auRun' = [auRun EXCEPT ![r] = run]
    BY <1>5 DEF AuOver
  <2>2. run \in AuRunning /\ run.at = "over" /\ run.held = {}
    BY <1>3, AuNothing
  <2> HIDE DEF run
  <2> QED BY <1>1, <1>2, <1>3, <2>1, <2>2, AuWorks
<1> QED BY <1>4, <1>5

\* It goes to the next asset, or is through.
LEMMA AuNexts ==
  ASSUME AuInv, NEW r \in 1 .. AuRuns, auRun[r].at \in AuBusy \ {"prepare"}, NextAsset(r),
         NEW d \in AuDisks, auDisk' = [auDisk EXCEPT ![Here(r)] = d], d.lock = Disk(r).lock,
         UNCHANGED auPaid, auFaults' \in Nat, AuRests(d, auPaid[Here(r)]), AuAgrees(Seen(r), d.journal)
  PROVE  AuInv'
<1> DEFINE h == Here(r)
           next == IF h = AuAssets THEN h ELSE h + 1
           place == IF h = AuAssets THEN "release" ELSE "asset"
           run == [auRun[r] EXCEPT !.asset = next, !.at = place]
<1>1. /\ AuTyped /\ h \in Asset /\ h = auRun[r].asset /\ auRun[r] \in AuRunning /\ auPaid[h] \in Nat
      /\ auRun[r].seen \in [Asset -> AuJournals] /\ AuFollows(r)
  BY AuAtHand DEF AuInv
<1>2. auPaid' = [auPaid EXCEPT ![h] = auPaid[h]]
  BY <1>1, AuLeaves
<1>3. /\ "release" \notin AuBusy /\ "asset" \in AuBusy /\ place \in AuPlaces
      /\ "asset" \notin AuBuying \cup AuFinishing \cup AuMaking \cup AuLinking
  BY DEF AuPlaces, AuBusy, AuBuying, AuFinishing, AuMaking, AuLinking
<1>4. next \in Asset
  BY <1>1, AudioAssumption DEF Asset
<1>5. auRun' = [auRun EXCEPT ![r] = run]
  BY <1>1 DEF NextAsset, Here
<1>6. h # AuAssets => next = h + 1 /\ place = "asset"
  OBVIOUS
<1>7. place = "release" \/ (place = "asset" /\ h # AuAssets)
  OBVIOUS
<1> HIDE DEF next, place
<1>8. /\ run \in AuRunning /\ run.at = place /\ run.asset = next /\ run.held = auRun[r].held /\ run.seen = auRun[r].seen
      /\ run.resume = auRun[r].resume
  BY <1>1, <1>3, <1>4 DEF AuRunning
<1> HIDE DEF run, h
<1>9. ASSUME run.at \in AuBusy PROVE AuFollows(r)'
  <2>1. place = "asset" /\ next = h + 1
    BY <1>3, <1>6, <1>7, <1>8, <1>9
  <2>2. AuBegun(run) \subseteq Asset /\ AuBegun(auRun[r]) = Asset
    BY DEF AuBegun
  <2>3. AuAhead(run) \subseteq AuAhead(auRun[r]) /\ h \notin AuAhead(run) /\ AuAhead(run) \subseteq Asset
    BY <1>1, <1>8, <2>1 DEF AuAhead, Asset
  <2>4. /\ auRun'[r] = run /\ auDisk'[h] = d /\ auRun[r].seen[h] = Seen(r)
        /\ \A a \in Asset : a # h => auDisk'[a] = auDisk[a]
    BY <1>1, <1>5 DEF AuTyped, Seen, h
  <2>5. \A a \in AuBegun(run) : AuAgrees(run.seen[a], auDisk'[a].journal)
    BY <1>1, <1>8, <2>2, <2>4 DEF AuFollows
  <2>6. \A a \in AuAhead(run) : auPaid'[a] = 0 /\ run.seen[a].said = {"reserved"}
    BY <1>1, <1>8, <2>3 DEF AuFollows
  <2>7. AuPhase(r, "asset", Seen(r)', Disk(r)', auPaid[Here(r)]')
    BY <1>3 DEF AuPhase
  <2> QED BY <1>8, <2>1, <2>4, <2>5, <2>6, <2>7 DEF AuFollows
<1>10. /\ run \in AuRunning /\ auRun' = [auRun EXCEPT ![r] = run]
       /\ run.held = auRun[r].held /\ run.at \in AuBusy \cup {"release"}
  BY <1>3, <1>5, <1>7, <1>8
<1> QED BY <1>1, <1>2, <1>9, <1>10, AuWorks DEF h

\* It has read or begun the journal of an asset.
LEMMA AuPreparesOne ==
  ASSUME AuInv, NEW r \in 1 .. AuRuns, auRun[r].at = "prepare", NEW journal \in AuJournals, Prepared(r, journal),
         NEW d \in AuDisks, auDisk' = [auDisk EXCEPT ![Here(r)] = d], d.lock = Disk(r).lock,
         UNCHANGED auPaid, auFaults' \in Nat, AuRests(d, auPaid[Here(r)]), AuAgrees(journal, d.journal),
         ~auRun[r].resume => auPaid[Here(r)] = 0 /\ journal.said = {"reserved"}
  PROVE  AuInv'
<1> DEFINE h == Here(r)
           next == IF h = AuAssets THEN 1 ELSE h + 1
           place == IF h = AuAssets THEN "asset" ELSE "prepare"
           seen == [auRun[r].seen EXCEPT ![h] = journal]
           run == [auRun[r] EXCEPT !.seen = seen, !.asset = next, !.at = place]
<1>1. /\ AuTyped /\ h \in Asset /\ h = auRun[r].asset /\ auRun[r] \in AuRunning /\ auPaid[h] \in Nat
      /\ auRun[r].seen \in [Asset -> AuJournals]
  BY AuAtHand
<1>2. auPaid' = [auPaid EXCEPT ![h] = auPaid[h]]
  BY <1>1, AuLeaves
<1>3. /\ {"asset", "prepare"} \subseteq AuBusy /\ place \in AuPlaces /\ place \in {"asset", "prepare"}
      /\ {"asset", "prepare"} \cap (AuBuying \cup AuFinishing \cup AuMaking \cup AuLinking) = {}
  BY DEF AuPlaces, AuBusy, AuBuying, AuFinishing, AuMaking, AuLinking
<1>4. next \in Asset /\ seen \in [Asset -> AuJournals]
  BY <1>1, AudioAssumption DEF Asset
<1>5. auRun' = [auRun EXCEPT ![r] = run]
  BY <1>1 DEF Prepared, Here
<1>6. \/ h = AuAssets /\ place = "asset"
      \/ place = "prepare" /\ next = h + 1
  OBVIOUS
<1>7. seen[h] = journal /\ \A a \in Asset : a # h => seen[a] = auRun[r].seen[a]
  BY <1>1
<1> HIDE DEF next, place, seen
<1>8. /\ run \in AuRunning /\ run.at = place /\ run.asset = next /\ run.held = auRun[r].held /\ run.seen = seen
      /\ run.resume = auRun[r].resume
  BY <1>1, <1>3, <1>4 DEF AuRunning
<1> HIDE DEF run, h
<1>9. AuFollows(r)'
  <2>1. AuFollows(r)
    BY <1>3 DEF AuInv
  <2>2. AuBegun(run) \subseteq AuBegun(auRun[r]) \cup {h} /\ AuBegun(run) \subseteq Asset
    BY <1>1, <1>6, <1>8 DEF AuBegun, Asset
  <2>3. /\ AuAhead(run) \subseteq AuAhead(auRun[r]) \cup {h} /\ AuAhead(run) \subseteq Asset
        /\ auRun[r].resume => AuAhead(run) = {}
    BY <1>1, <1>6, <1>8 DEF AuAhead, Asset
  <2>4. /\ auRun'[r] = run /\ auDisk'[h] = d
        /\ \A a \in Asset : a # h => auDisk'[a] = auDisk[a]
    BY <1>1, <1>5 DEF AuTyped, h
  <2>5. \A a \in AuBegun(run) : AuAgrees(run.seen[a], auDisk'[a].journal)
    BY <1>7, <1>8, <2>1, <2>2, <2>4 DEF AuFollows
  <2>6. \A a \in AuAhead(run) : auPaid'[a] = 0 /\ run.seen[a].said = {"reserved"}
    BY <1>7, <1>8, <2>1, <2>3 DEF AuFollows, h
  <2>7. AuPhase(r, place, Seen(r)', Disk(r)', auPaid[Here(r)]')
    BY <1>3 DEF AuPhase
  <2> QED BY <1>8, <2>4, <2>5, <2>6, <2>7 DEF AuFollows
<1>10. /\ run \in AuRunning /\ auRun' = [auRun EXCEPT ![r] = run] /\ auRun[r].at \in AuBusy
       /\ run.held = auRun[r].held /\ run.at \in AuBusy \cup {"release"}
  BY <1>3, <1>5, <1>8
<1> QED BY <1>1, <1>2, <1>9, <1>10, AuWorks DEF h

LEMMA AuPrepares == ASSUME AuInv, NEW r \in 1 .. AuRuns, AuPrepare(r) PROVE AuInv'
<1> DEFINE begun == [NoJournal EXCEPT !.said = {"reserved"}, !.plan = auRun[r].plan]
           e == Disk(r)
           p == auPaid[Here(r)]
<1>1. auRun[r].at = "prepare" /\ AuSteady /\ "prepare" \in AuBusy
  BY DEF AuPrepare, AuAt, AuBusy
<1>2. /\ AuTyped /\ Here(r) \in Asset /\ e = auDisk[Here(r)] /\ e \in AuDisks /\ e.journal \in AuJournals
      /\ AuRests(e, p) /\ auRun[r] \in AuRunning /\ p \in Nat
  BY AuAtHand
<1>3. auFaults' \in Nat /\ UNCHANGED auPaid
  BY <1>1, <1>2 DEF AuTyped, AuSteady
<1>4. auDisk = [auDisk EXCEPT ![Here(r)] = e]
  BY <1>2, AuLeaves
<1>5. CASE auRun[r].resume /\ Prepared(r, e.journal) /\ UNCHANGED auDisk
  <2>1. AuAgrees(e.journal, e.journal) /\ auDisk' = [auDisk EXCEPT ![Here(r)] = e]
    BY <1>4, <1>5 DEF AuAgrees
  <2> QED BY <1>1, <1>2, <1>3, <1>5, <2>1, AuPreparesOne
<1>6. CASE ~auRun[r].resume /\ Untouched(e) /\ Prepared(r, begun) /\ AuWrite(r, "journal", begun)
  <2> DEFINE d == [e EXCEPT !.journal = begun]
  <2>1. auRun[r].plan \in AuPlans \cup {None} /\ {"reserved"} \in SUBSET AskedFor
    BY <1>2 DEF AuRunning, AskedFor
  <2>2. begun \in AuJournals /\ begun.said = {"reserved"} /\ begun.source = None /\ begun.ready = None
    BY <2>1, AuNothing DEF AuJournals
  <2>3. auDisk' = [auDisk EXCEPT ![Here(r)] = d]
    BY <1>2, <1>6 DEF AuWrite
  <2> HIDE DEF begun
  <2>4. /\ d \in AuDisks /\ d.journal = begun /\ d.lock = e.lock /\ d.source = e.source /\ d.master = e.master
        /\ d.runtime = e.runtime /\ d.manifest = e.manifest
    BY <1>2, <2>2 DEF AuDisks
  <2>5. e.journal = NoJournal /\ e.master = None /\ e.runtime = None /\ e.manifest = None
    BY <1>6 DEF Untouched
  <2>6. p = 0
    <3>1. NoJournal.said = {} /\ NoJournal.torn = FALSE
      BY DEF NoJournal
    <3> QED BY <1>2, <2>5, <3>1 DEF AuRests
  <2> HIDE DEF d
  <2>7. AuRests(d, p) /\ AuAgrees(begun, d.journal)
    BY <2>2, <2>4, <2>5, <2>6 DEF AuRests, AuAgrees
  <2> QED BY <1>1, <1>3, <1>6, <2>2, <2>3, <2>4, <2>6, <2>7, AuPreparesOne
<1>7. CASE Abort(r) /\ UNCHANGED auDisk
  BY <1>1, <1>2, <1>3, <1>4, <1>7, AuStops
<1> QED BY <1>5, <1>6, <1>7 DEF AuPrepare

\* processAsset: a completed asset is let be, an acquired one is resumed, a new
\* one is asked for.
LEMMA AuAssetsOn == ASSUME AuInv, NEW r \in 1 .. AuRuns, AuAsset(r) PROVE AuInv'
<1> DEFINE e == Disk(r)
           p == auPaid[Here(r)]
<1>1. auRun[r].at = "asset" /\ AuSteady
  BY DEF AuAsset, AuAt
<1>2. /\ "asset" \in AuBusy \ {"prepare"} /\ {"check", "request"} \subseteq AuBusy \ {"prepare", "asset"}
  BY DEF AuBusy, AuBuying, AuFinishing
<1>3. /\ AuTyped /\ Here(r) \in Asset /\ e = auDisk[Here(r)] /\ e \in AuDisks /\ AuRests(e, p)
      /\ AuAgrees(Seen(r), e.journal) /\ Here(r) = auRun[r].asset /\ Seen(r) = auRun[r].seen[Here(r)]
  BY <1>1, <1>2, AuAtWork DEF AuPlaces
<1>4. auFaults' \in Nat /\ UNCHANGED auPaid /\ auDisk = [auDisk EXCEPT ![Here(r)] = e]
  BY <1>1, <1>3, AuLeaves DEF AuTyped, AuSteady
<1>5. CASE UNCHANGED auDisk /\ NextAsset(r)
  BY <1>1, <1>2, <1>3, <1>4, <1>5, AuNexts
<1>6. CASE UNCHANGED auDisk /\ Abort(r)
  BY <1>1, <1>2, <1>3, <1>4, <1>6, AuStops
<1>7. CASE UNCHANGED auDisk /\ Throw(r)
  BY <1>1, <1>2, <1>4, <1>7, AuThrows
<1>8. CASE Said(r, "acquired") /\ AuAppendState(r, "resume_started", "check")
  <2>1. \A seen : seen.said = Seen(r).said \cup ({"resume_started"} \cap AskedFor) /\ seen.source = Seen(r).source
                  /\ seen.ready = Seen(r).ready => AuPhase(r, "check", seen, e, p)
    BY <1>8 DEF AuPhase, AuBuying, AuFinishing, AuMaking, AuLinking, Said
  <2> QED BY <1>1, <1>2, <1>8, <2>1, AuSays
<1>9. CASE ~auRun[r].resume /\ AuAppendState(r, "request_started", "request")
  <2>1. Here(r) \in AuAhead(auRun[r])
    BY <1>1, <1>3, <1>9 DEF AuAhead
  <2>2. p = 0 /\ Seen(r).said = {"reserved"}
    BY <1>1, <1>2, <1>3, <2>1 DEF AuInv, AuFollows
  <2>3. \A seen : seen.said = Seen(r).said \cup ({"request_started"} \cap AskedFor) /\ seen.source = Seen(r).source
                  /\ seen.ready = Seen(r).ready => AuPhase(r, "request", seen, e, p)
    BY <2>2 DEF AuPhase, AuBuying, AuFinishing, AuMaking, AuLinking, AskedFor
  <2> QED BY <1>1, <1>2, <1>9, <2>3, AuSays
<1> QED BY <1>5, <1>6, <1>7, <1>8, <1>9 DEF AuAsset

\* The handler writes that it failed, if it can, and cleans up.
LEMMA AuFails ==
  ASSUME AuInv, NEW r \in 1 .. AuRuns, auRun[r].at = "throw",
         auRun' = [auRun EXCEPT ![r].at = "cleanup", ![r].failed = TRUE],
         NEW d \in AuDisks, auDisk' = [auDisk EXCEPT ![Here(r)] = d], d.lock = Disk(r).lock,
         UNCHANGED auPaid, auFaults' \in Nat, AuRests(d, auPaid[Here(r)]), AuAgrees(Seen(r), d.journal)
  PROVE  AuInv'
<1> DEFINE yes == TRUE
           place == "cleanup"
           run == [auRun[r] EXCEPT !.at = place, !.failed = yes]
<1>1. /\ {"throw", "cleanup"} \subseteq AuBusy \ {"prepare", "asset"} /\ "cleanup" \in AuPlaces
      /\ "cleanup" \notin AuBuying \cup AuFinishing \cup AuMaking \cup AuLinking
  BY DEF AuPlaces, AuBusy, AuBuying, AuFinishing, AuMaking, AuLinking
<1>2. /\ AuTyped /\ Here(r) \in Asset /\ Here(r) = auRun[r].asset /\ auRun[r] \in AuRunning /\ auPaid[Here(r)] \in Nat
      /\ auRun[r].seen \in [Asset -> AuJournals] /\ Seen(r) = auRun[r].seen[Here(r)] /\ Seen(r) \in AuJournals
  BY <1>1, AuAtWork DEF AuPlaces
<1>3. auPaid' = [auPaid EXCEPT ![Here(r)] = auPaid[Here(r)]]
  BY <1>2, AuLeaves
<1>4. auRun' = [auRun EXCEPT ![r] = run] /\ yes \in BOOLEAN /\ place \in AuPlaces
  BY <1>1
<1> HIDE DEF yes, place
<1>5. run \in AuRunning /\ run.at = place /\ run.asset = Here(r) /\ run.held = auRun[r].held /\ run.resume = auRun[r].resume
      /\ run.seen = auRun[r].seen
  BY <1>2, <1>4 DEF AuRunning
<1>6. run.seen = [auRun[r].seen EXCEPT ![Here(r)] = Seen(r)]
  BY <1>2, <1>5
<1>7. AuPhase(r, place, Seen(r), d, auPaid[Here(r)])
  BY <1>1 DEF AuPhase, place
<1>8. auRun[r].at \in AuBusy \ {"prepare"} /\ place \in AuBusy \ {"prepare", "asset"}
  BY <1>1 DEF place
<1> HIDE DEF run
<1> QED BY <1>2, <1>3, <1>4, <1>5, <1>6, <1>7, <1>8, AuGoesOn

\* A line that is in none of the journals' questions changes no answer.
LEMMA AuThrowsOn == ASSUME AuInv, NEW r \in 1 .. AuRuns, AuThrow(r) PROVE AuInv'
<1> DEFINE e == Disk(r)
           p == auPaid[Here(r)]
           line == AuWith(Seen(r), "failed")
           torn == e.journal.torn
           d == [e EXCEPT !.journal = [line EXCEPT !.torn = torn]]
<1>1. /\ auRun[r].at = "throw" /\ AuSteady /\ auRun' = [auRun EXCEPT ![r].at = "cleanup", ![r].failed = TRUE]
      /\ AuWrite(r, "journal", [line EXCEPT !.torn = torn]) /\ "throw" \in AuBusy \ {"prepare", "asset"}
  BY DEF AuThrow, AuAt, AuBusy
<1>2. /\ AuTyped /\ Here(r) \in Asset /\ e = auDisk[Here(r)] /\ e \in AuDisks /\ e.journal \in AuJournals
      /\ AuRests(e, p) /\ AuAgrees(Seen(r), e.journal) /\ Seen(r) \in AuJournals
  BY <1>1, AuAtWork DEF AuPlaces
<1>3. auDisk' = [auDisk EXCEPT ![Here(r)] = d]
  BY <1>1, <1>2 DEF AuWrite
<1>4. torn \in BOOLEAN /\ auFaults' \in Nat /\ UNCHANGED auPaid
  BY <1>1, <1>2 DEF AuJournals, AuTyped, AuSteady
<1>5. line \in AuJournals /\ line.said = Seen(r).said /\ line.source = Seen(r).source /\ line.ready = Seen(r).ready
  BY <1>2 DEF AuWith, AuJournals, AskedFor
<1>6. torn = e.journal.torn
  OBVIOUS
<1> HIDE DEF torn, line
<1>7. d \in AuDisks /\ AuSameFiles(d, e) /\ AuAgrees(line, d.journal) /\ d.journal.torn = torn
  BY <1>2, <1>4, <1>5, AuLine
<1> HIDE DEF d
<1>8. AuAgrees(Seen(r), d.journal)
  BY <1>5, <1>7 DEF AuAgrees
<1>9. AuRests(d, p)
  <2>1. \A ready : Recoverable(e, ready) => Recoverable(d, ready)
    BY <1>7 DEF Recoverable, Recovered, AuSameFiles
  <2> QED BY <1>2, <1>6, <1>7, <1>8, <2>1 DEF AuRests, AuAgrees, AuSameFiles
<1>10. d.lock = e.lock
  BY <1>7 DEF AuSameFiles
<1> QED BY <1>1, <1>3, <1>4, <1>7, <1>8, <1>9, <1>10, AuFails

\* Work files go only when no journal asks for them.
LEMMA AuCleans == ASSUME AuInv, NEW r \in 1 .. AuRuns, AuCleanup(r) PROVE AuInv'
<1> DEFINE e == Disk(r)
           p == auPaid[Here(r)]
           none == None
           cleaned == [e EXCEPT !.workMaster = none, !.workRuntime = none]
           d == IF KeepsWork(r) THEN e ELSE cleaned
<1>1. auRun[r].at = "cleanup" /\ AuSteady /\ "cleanup" \in AuBusy \ {"prepare", "asset"}
  BY DEF AuCleanup, AuAt, AuBusy
<1>2. /\ AuTyped /\ Here(r) \in Asset /\ e = auDisk[Here(r)] /\ e \in AuDisks
      /\ AuRests(e, p) /\ AuAgrees(Seen(r), e.journal) /\ auDisk = [auDisk EXCEPT ![Here(r)] = e]
  BY <1>1, AuAtWork, AuLeaves DEF AuPlaces
<1>3. auFaults' \in Nat /\ UNCHANGED auPaid
  BY <1>1, <1>2 DEF AuTyped, AuSteady
<1>4. auDisk' = [auDisk EXCEPT ![Here(r)] = d]
  BY <1>2 DEF AuCleanup
<1>5. none \in AuFiles
  BY AudioAssumption DEF AuFiles, None
<1> HIDE DEF none, e
<1>6. /\ cleaned \in AuDisks /\ cleaned.lock = e.lock /\ cleaned.journal = e.journal /\ cleaned.source = e.source
      /\ cleaned.master = e.master /\ cleaned.runtime = e.runtime /\ cleaned.manifest = e.manifest
      /\ cleaned.workMaster = none /\ cleaned.workRuntime = none
  BY <1>2, <1>5 DEF AuDisks
<1> HIDE DEF cleaned
<1>7. d \in AuDisks /\ d.lock = e.lock /\ d.journal = e.journal
  BY <1>2, <1>6
<1>8. AuRests(d, p)
  <2>1. CASE KeepsWork(r)
    BY <1>2, <2>1
  <2>2. CASE ~KeepsWork(r)
    <3>1. e.journal.ready # None => e.master = e.journal.ready /\ e.runtime = e.journal.ready
      BY <1>2, <2>2 DEF KeepsWork, Said, AuRests, AuAgrees
    <3>2. e.journal.ready # None => Recoverable(cleaned, e.journal.ready)
      BY <1>6, <3>1 DEF Recoverable, Recovered, none
    <3> QED BY <1>2, <1>6, <2>2, <3>2 DEF AuRests
  <2> QED BY <2>1, <2>2
<1>9. AuAgrees(Seen(r), d.journal)
  BY <1>2, <1>7
<1> HIDE DEF d, p
<1>10. d.lock = Disk(r).lock /\ AuRests(d, auPaid[Here(r)])
  BY <1>7, <1>8 DEF e, p
<1>11. CASE Abort(r)
  BY <1>1, <1>3, <1>4, <1>7, <1>10, <1>11, AuStops
<1>12. CASE NextAsset(r)
  BY <1>1, <1>3, <1>4, <1>7, <1>9, <1>10, <1>12, AuNexts
<1> QED BY <1>11, <1>12 DEF AuCleanup

-----------------------------------------------------------------------------
(* Writes that are cut off, and runs that die.                             *)

\* What half a write leaves of an asset: nothing that it rests on is gone.
AuSpares(r) ==
  \E d \in AuDisks :
    /\ auDisk' = [auDisk EXCEPT ![Here(r)] = d] /\ d.lock = Disk(r).lock /\ AuRests(d, auPaid[Here(r)])
    /\ auRun[r].at # "prepare" => AuAgrees(Seen(r), d.journal)

LEMMA AuSparesAll ==
  ASSUME AuInv, NEW r \in 1 .. AuRuns, auRun[r].at \in AuBusy, UNCHANGED auDisk
  PROVE  AuSpares(r)
<1>1. /\ AuTyped /\ Here(r) \in Asset /\ Disk(r) = auDisk[Here(r)] /\ Disk(r) \in AuDisks /\ AuRests(Disk(r), auPaid[Here(r)])
  BY AuAtHand
<1>2. auDisk' = [auDisk EXCEPT ![Here(r)] = Disk(r)]
  BY <1>1, AuLeaves
<1>3. auRun[r].at # "prepare" => AuAgrees(Seen(r), Disk(r).journal)
  BY AuAtWork DEF AuPlaces
<1> QED BY <1>1, <1>2, <1>3 DEF AuSpares

\* A line cut off in a journal.
LEMMA AuSparesLine ==
  ASSUME AuInv, NEW r \in 1 .. AuRuns, auRun[r].at \in AuBusy \ {"prepare"},
         auDisk' = [auDisk EXCEPT ![Here(r)].journal.torn = TRUE]
  PROVE  AuSpares(r)
<1> DEFINE e == Disk(r)
           p == auPaid[Here(r)]
           yes == TRUE
           d == [e EXCEPT !.journal = [e.journal EXCEPT !.torn = yes]]
<1>1. /\ AuTyped /\ Here(r) \in Asset /\ e = auDisk[Here(r)] /\ e \in AuDisks /\ e.journal \in AuJournals
      /\ AuRests(e, p) /\ AuAgrees(Seen(r), e.journal)
  BY AuAtWork DEF AuPlaces
<1>2. auDisk' = [auDisk EXCEPT ![Here(r)] = d] /\ yes \in BOOLEAN
  BY <1>1
<1> HIDE DEF yes
<1>3. d \in AuDisks /\ AuSameFiles(d, e) /\ AuAgrees(e.journal, d.journal) /\ d.journal.torn = yes
  BY <1>1, <1>2, AuLine
<1> HIDE DEF d
<1>4. AuRests(d, p)
  <2>1. \A ready : Recoverable(e, ready) => Recoverable(d, ready)
    BY <1>3 DEF Recoverable, Recovered, AuSameFiles
  <2> QED BY <1>1, <1>3, <2>1 DEF AuRests, AuAgrees, AuSameFiles, yes
<1>5. AuAgrees(Seen(r), d.journal) /\ d.lock = e.lock
  BY <1>1, <1>3 DEF AuAgrees, AuSameFiles
<1> QED BY <1>2, <1>3, <1>4, <1>5 DEF AuSpares

\* A file cut off while it is written for the first time.
LEMMA AuSparesFile ==
  ASSUME AuInv, NEW r \in 1 .. AuRuns, auRun[r].at \in AuBusy \ {"prepare"}, NEW file, AuWrite(r, file, Torn),
         \/ auRun[r].at = "source" /\ file = "source"
         \/ auRun[r].at = "master" /\ file = "workMaster"
         \/ auRun[r].at = "runtime" /\ file = "workRuntime"
         \/ auRun[r].at = "manifest" /\ file = "manifest" /\ Disk(r).manifest = None
  PROVE  AuSpares(r)
<1> DEFINE e == Disk(r)
           p == auPaid[Here(r)]
<1>1. /\ AuTyped /\ Here(r) \in Asset /\ e \in AuDisks /\ AuRests(e, p) /\ AuAgrees(Seen(r), e.journal)
      /\ AuPhase(r, auRun[r].at, Seen(r), e, p)
  BY AuAtWork DEF AuPlaces
<1>2. file \in AuNames /\ Torn \in AuFiles
  BY AudioAssumption DEF AuNames, AuFiles, Torn
<1>3. PICK d \in AuDisks : AuWritten(d, e, file, Torn) /\ auDisk' = [auDisk EXCEPT ![Here(r)] = d]
  BY <1>1, <1>2, AuWrites
<1>4. AuRests(d, p)
  <2>1. CASE auRun[r].at = "source" /\ file = "source"
    <3>1. "acquired" \notin Seen(r).said
      BY <1>1, <2>1 DEF AuPhase, AuBuying
    <3> QED BY <1>1, <1>3, <2>1, <3>1 DEF AuRests, AuAgrees, AuWritten
  <2>2. CASE auRun[r].at \in {"master", "runtime"} /\ file \in {"workMaster", "workRuntime"}
    <3>1. Seen(r).ready = None
      BY <1>1, <2>2 DEF AuPhase, AuMaking
    <3> QED BY <1>1, <1>3, <2>2, <3>1 DEF AuRests, AuAgrees, AuWritten
  <2>3. CASE auRun[r].at = "manifest" /\ file = "manifest" /\ e.manifest = None
    <3>1. Seen(r).ready # None
      BY <1>1, <2>3 DEF AuPhase, AuLinking
    <3>2. \A ready : Recoverable(e, ready) => Recoverable(d, ready)
      BY <1>3, <2>3 DEF Recoverable, Recovered, AuWritten
    <3> QED BY <1>1, <1>3, <2>3, <3>1, <3>2 DEF AuRests, AuAgrees, AuWritten
  <2> QED BY <2>1, <2>2, <2>3
<1>5. AuAgrees(Seen(r), d.journal) /\ d.lock = e.lock
  BY <1>1, <1>3 DEF AuWritten
<1> QED BY <1>3, <1>4, <1>5 DEF AuSpares

\* The first line of a journal, cut off.
LEMMA AuSparesFirst ==
  ASSUME AuInv, NEW r \in 1 .. AuRuns, auRun[r].at = "prepare", Untouched(Disk(r)),
         auDisk' = [auDisk EXCEPT ![Here(r)].journal = [NoJournal EXCEPT !.torn = TRUE]]
  PROVE  AuSpares(r)
<1> DEFINE e == Disk(r)
           p == auPaid[Here(r)]
           yes == TRUE
           line == [NoJournal EXCEPT !.torn = yes]
           d == [e EXCEPT !.journal = line]
<1>1. /\ AuTyped /\ Here(r) \in Asset /\ e = auDisk[Here(r)] /\ e \in AuDisks /\ AuRests(e, p)
  BY AuAtHand
<1>2. auDisk' = [auDisk EXCEPT ![Here(r)] = d] /\ yes \in BOOLEAN
  BY <1>1
<1> HIDE DEF yes
<1>3. line \in AuJournals /\ line.said = {} /\ line.source = None /\ line.ready = None /\ line.torn = yes
  BY <1>2, AuNothing DEF AuJournals
<1> HIDE DEF line
<1>4. /\ d \in AuDisks /\ d.journal = line /\ d.lock = e.lock /\ d.master = e.master /\ d.runtime = e.runtime
      /\ d.manifest = e.manifest
  BY <1>1, <1>3 DEF AuDisks
<1> HIDE DEF d
<1>5. e.master = None /\ e.runtime = None /\ e.manifest = None
  BY DEF Untouched
<1>6. AuRests(d, p)
  BY <1>1, <1>3, <1>4, <1>5 DEF AuRests, yes
<1> QED BY <1>2, <1>4, <1>6 DEF AuSpares

\* Whatever write is cut off.
LEMMA AuSparesHalf ==
  ASSUME AuInv, NEW r \in 1 .. AuRuns, auRun[r].at \in AuBusy, auDisk' \in {auDisk, AuHalf(r)}
  PROVE  AuSpares(r)
<1>1. CASE UNCHANGED auDisk
  BY <1>1, AuSparesAll
<1>2. CASE auDisk' = AuHalf(r)
  <2> DEFINE torn == [auDisk EXCEPT ![Here(r)].journal.torn = TRUE]
             first == [auDisk EXCEPT ![Here(r)].journal = [NoJournal EXCEPT !.torn = TRUE]]
             WasTorn(name) == [auDisk EXCEPT ![Here(r)][name] = Torn]
  <2>1. "lock" \notin AuBusy
    BY DEF AuBusy, AuBuying, AuFinishing, AuMaking, AuLinking
  <2>2. \/ auRun[r].at = "prepare" /\ Untouched(Disk(r)) /\ AuHalf(r) = first
        \/ auRun[r].at = "source" /\ AuHalf(r) = WasTorn("source")
        \/ auRun[r].at = "master" /\ AuHalf(r) = WasTorn("workMaster")
        \/ auRun[r].at = "runtime" /\ AuHalf(r) = WasTorn("workRuntime")
        \/ auRun[r].at = "manifest" /\ Disk(r).manifest = None /\ AuHalf(r) = WasTorn("manifest")
        \/ auRun[r].at # "prepare" /\ AuHalf(r) = torn
        \/ AuHalf(r) = auDisk
    BY <2>1 DEF AuHalf, AuAt
  <2>3. CASE auRun[r].at = "prepare" /\ Untouched(Disk(r)) /\ AuHalf(r) = first
    BY <1>2, <2>3, AuSparesFirst
  <2>4. CASE auRun[r].at # "prepare" /\ AuHalf(r) = torn
    BY <1>2, <2>4, AuSparesLine
  <2>5. CASE AuHalf(r) = auDisk
    BY <1>2, <2>5, AuSparesAll
  <2>6. ASSUME NEW file, AuHalf(r) = WasTorn(file),
               \/ auRun[r].at = "source" /\ file = "source"
               \/ auRun[r].at = "master" /\ file = "workMaster"
               \/ auRun[r].at = "runtime" /\ file = "workRuntime"
               \/ auRun[r].at = "manifest" /\ file = "manifest" /\ Disk(r).manifest = None
        PROVE  AuSpares(r)
    <3>1. AuWrite(r, file, Torn)
      BY <1>2, <2>6 DEF AuWrite
    <3> QED BY <2>6, <3>1, AuSparesFile
  <2> HIDE DEF torn, first, WasTorn
  <2> QED BY <2>2, <2>3, <2>4, <2>5, <2>6
<1> QED BY <1>1, <1>2

\* However a run goes on from a fault, its assets stand.
LEMMA AuSurvives ==
  ASSUME AuInv, NEW r \in 1 .. AuRuns, auRun[r].at \in AuBusy, AuSpares(r), UNCHANGED auPaid, auFaults' \in Nat,
         \/ AuOver(r) \/ Abort(r)
         \/ auRun[r].at # "prepare" /\ Throw(r)
         \/ auRun[r].at = "throw" /\ auRun' = [auRun EXCEPT ![r].at = "cleanup", ![r].failed = TRUE]
  PROVE  AuInv'
<1>1. PICK d \in AuDisks :
        /\ auDisk' = [auDisk EXCEPT ![Here(r)] = d] /\ d.lock = Disk(r).lock /\ AuRests(d, auPaid[Here(r)])
        /\ auRun[r].at # "prepare" => AuAgrees(Seen(r), d.journal)
  BY DEF AuSpares
<1>2. CASE AuOver(r) \/ Abort(r)
  BY <1>1, <1>2, AuStops
<1>3. CASE auRun[r].at # "prepare" /\ Throw(r)
  <2>1. AuTyped /\ Here(r) \in Asset /\ auPaid[Here(r)] \in Nat
    BY AuAtHand
  <2>2. auPaid' = [auPaid EXCEPT ![Here(r)] = auPaid[Here(r)]]
    BY <2>1, AuLeaves
  <2>3. /\ "throw" \in AuBusy \ {"prepare", "asset"} /\ "throw" \notin AuBuying \cup AuFinishing
        /\ "throw" \notin AuMaking \cup AuLinking
    BY DEF AuBusy, AuBuying, AuFinishing, AuMaking, AuLinking
  <2>4. AuPhase(r, "throw", Seen(r), d, auPaid[Here(r)])
    BY <2>3 DEF AuPhase
  <2> QED BY <1>1, <1>3, <2>1, <2>2, <2>3, <2>4, AuSteps DEF Throw
<1>4. CASE auRun[r].at = "throw" /\ auRun' = [auRun EXCEPT ![r].at = "cleanup", ![r].failed = TRUE]
  BY <1>1, <1>4, AuFails
<1> QED BY <1>2, <1>3, <1>4

-----------------------------------------------------------------------------
(* Locks.                                                                  *)

\* A run is started, takes a lock or gives its locks back.
LEMMA AuTakesLocks ==
  ASSUME AuInv, NEW r \in 1 .. AuRuns, NEW run \in AuRunning, auRun' = [auRun EXCEPT ![r] = run],
         auDisk' \in [Asset -> AuDisks], \A a \in Asset : AuSameButLock(auDisk'[a], auDisk[a]),
         \A s \in 1 .. AuRuns : s # r => \A a \in auRun[s].held : auDisk'[a].lock = s,
         UNCHANGED auPaid, auFaults' \in Nat,
         run.at \in {"lock", "prepare", "release", "over"},
         run.at = "over" => run.held = {},
         run.at = "lock" => run.held = 1 .. run.asset - 1,
         run.at = "prepare" => run.held = Asset /\ run.asset = 1,
         \A a \in run.held : auDisk'[a].lock = r
  PROVE  AuInv'
<1>1. AuTyped /\ AuLocked
  BY DEF AuInv
<1>2. auRun'[r] = run /\ \A s \in 1 .. AuRuns : s # r => auRun'[s] = auRun[s]
  BY <1>1 DEF AuTyped
<1>3. AuTyped'
  BY <1>1 DEF AuTyped
<1>4. /\ {"idle", "lock", "release", "over"} \cap AuBusy = {}
      /\ "prepare" \notin AuBuying \cup AuFinishing \cup AuMaking \cup AuLinking
  BY DEF AuBusy, AuBuying, AuFinishing, AuMaking, AuLinking
<1>5. AuLocked'
  <2> SUFFICES ASSUME NEW s \in 1 .. AuRuns
               PROVE  /\ auRun'[s].at = "idle" => auRun'[s].held = {} /\ auRun'[s].asset = 1
                      /\ auRun'[s].at = "over" => auRun'[s].held = {}
                      /\ auRun'[s].at = "lock" => auRun'[s].held = 1 .. auRun'[s].asset - 1
                      /\ auRun'[s].at \in AuBusy => auRun'[s].held = Asset
                      /\ \A a \in auRun'[s].held : auDisk'[a].lock = s
    BY DEF AuLocked
  <2>1. CASE s = r
    BY <1>2, <1>4, <2>1
  <2>2. CASE s # r
    BY <1>1, <1>2, <2>2 DEF AuLocked
  <2> QED BY <2>1, <2>2
<1>6. ASSUME NEW a \in Asset PROVE AuRests(auDisk'[a], auPaid'[a])
  <2>1. AuRests(auDisk[a], auPaid[a]) /\ AuSameButLock(auDisk'[a], auDisk[a]) /\ auPaid'[a] = auPaid[a]
    BY DEF AuInv
  <2>2. \A ready : Recoverable(auDisk[a], ready) => Recoverable(auDisk'[a], ready)
    BY <2>1 DEF Recoverable, Recovered, AuSameButLock
  <2> QED BY <2>1, <2>2 DEF AuRests, AuSameButLock
<1>7. ASSUME NEW s \in 1 .. AuRuns, auRun'[s].at \in AuBusy PROVE AuFollows(s)'
  <2>1. CASE s = r
    <3>1. run.at = "prepare" /\ run.asset = 1
      BY <1>2, <1>4, <1>7, <2>1
    <3>2. AuBegun(run) = {} /\ AuAhead(run) = {}
      BY <3>1 DEF AuBegun, AuAhead, Asset
    <3>3. AuPhase(s, "prepare", Seen(s)', Disk(s)', auPaid[Here(s)]')
      BY <1>4 DEF AuPhase
    <3> QED BY <1>2, <2>1, <3>1, <3>2, <3>3 DEF AuFollows
  <2>2. CASE s # r
    <3>1. auRun'[s] = auRun[s] /\ AuFollows(s)
      BY <1>2, <1>7, <2>2 DEF AuInv
    <3>2. \A a \in AuBegun(auRun[s]) : AuAgrees(auRun[s].seen[a], auDisk'[a].journal)
      BY <3>1 DEF AuFollows, AuSameButLock, AuBegun
    <3>3. \A a \in AuAhead(auRun[s]) : auPaid'[a] = 0 /\ auRun[s].seen[a].said = {"reserved"}
      BY <3>1 DEF AuFollows
    <3>4. AuPhase(s, auRun[s].at, Seen(s), auDisk'[Here(s)], auPaid[Here(s)])
      <4>1. Here(s) \in Asset
        BY AuAtHand
      <4>2. AuSameButLock(auDisk'[Here(s)], Disk(s)) /\ AuPhase(s, auRun[s].at, Seen(s), Disk(s), auPaid[Here(s)])
        BY <3>1, <4>1 DEF AuFollows, Disk
      <4> QED BY <4>2 DEF AuPhase, AuSameButLock
    <3>5. Here(s)' = Here(s) /\ Seen(s)' = Seen(s) /\ Disk(s)' = auDisk'[Here(s)]
      BY <3>1 DEF Here, Seen, Disk
    <3> QED BY <3>1, <3>2, <3>3, <3>4, <3>5 DEF AuFollows
  <2> QED BY <2>1, <2>2
<1> QED BY <1>3, <1>5, <1>6, <1>7 DEF AuInv

LEMMA AuSameDisk == ASSUME AuTyped PROVE auDisk \in [Asset -> AuDisks] /\ \A a \in Asset : AuSameButLock(auDisk[a], auDisk[a])
BY DEF AuTyped, AuSameButLock

LEMMA AuStarts == ASSUME AuInv, NEW r \in 1 .. AuRuns, AuStart(r) PROVE AuInv'
<1>1. PICK resume \in BOOLEAN, plan \in AuPlans :
        auRun' = [auRun EXCEPT ![r].at = "lock", ![r].resume = resume, ![r].plan = plan]
  BY DEF AuStart
<1> DEFINE place == "lock"
           run == [auRun[r] EXCEPT !.at = place, !.resume = resume, !.plan = plan]
<1>2. auRun[r].at = "idle" /\ UNCHANGED <<auDisk, auPaid, auFaults>>
  BY DEF AuStart, AuAt, AuSteady
<1>3. AuTyped /\ auRun[r] \in AuRunning /\ auRun[r].held = {} /\ auRun[r].asset = 1 /\ AuLocked
  BY <1>2 DEF AuInv, AuTyped, AuLocked
<1>4. auRun' = [auRun EXCEPT ![r] = run] /\ place \in AuPlaces
  BY <1>1 DEF AuPlaces
<1> HIDE DEF place
<1>5. run \in AuRunning /\ run.at = place /\ run.held = {} /\ run.asset = 1
  BY <1>3, <1>4 DEF AuRunning
<1> HIDE DEF run
<1>6. /\ auDisk' \in [Asset -> AuDisks] /\ \A a \in Asset : AuSameButLock(auDisk'[a], auDisk[a])
      /\ \A s \in 1 .. AuRuns : s # r => \A a \in auRun[s].held : auDisk'[a].lock = s
      /\ UNCHANGED auPaid /\ auFaults' \in Nat
  BY <1>2, <1>3, AuSameDisk DEF AuLocked, AuTyped
<1>7. /\ run.at = "lock" /\ run.held = 1 .. run.asset - 1 /\ \A a \in run.held : auDisk'[a].lock = r
  BY <1>5 DEF place
<1> QED BY <1>4, <1>5, <1>6, <1>7, AuTakesLocks

\* The lock of an asset that nobody has locked.
LEMMA AuLockOf ==
  ASSUME AuInv, NEW r \in 1 .. AuRuns, Disk(r).lock = None, AuWrite(r, "lock", r)
  PROVE  /\ auDisk' \in [Asset -> AuDisks] /\ \A a \in Asset : AuSameButLock(auDisk'[a], auDisk[a])
         /\ \A s \in 1 .. AuRuns : \A a \in auRun[s].held : auDisk'[a].lock = s
         /\ auDisk'[Here(r)].lock = r
<1> DEFINE h == Here(r)
           e == Disk(r)
           d == [e EXCEPT !.lock = r]
<1>1. AuTyped /\ h \in Asset /\ e = auDisk[h] /\ e \in AuDisks /\ AuLocked
  BY AuAtHand DEF AuInv
<1>2. auDisk' = [auDisk EXCEPT ![h] = d]
  BY <1>1 DEF AuWrite
<1>2a. r \in 0 .. AuRuns /\ r # None
  BY AudioAssumption DEF None
<1>3. d \in AuDisks /\ d.lock = r /\ AuSameButLock(d, e)
  BY <1>1, <1>2a DEF AuDisks, AuSameButLock
<1> HIDE DEF d
<1>4. auDisk'[h] = d /\ \A a \in Asset : a # h => auDisk'[a] = auDisk[a]
  BY <1>1, <1>2 DEF AuTyped
<1>5. auDisk' \in [Asset -> AuDisks] /\ \A a \in Asset : AuSameButLock(auDisk'[a], auDisk[a])
  BY <1>1, <1>2, <1>3, <1>4, AuSameDisk DEF AuTyped
<1>6. ASSUME NEW s \in 1 .. AuRuns, NEW a \in auRun[s].held PROVE auDisk'[a].lock = s
  <2>1. a \in Asset /\ auDisk[a].lock = s /\ s # None
    BY <1>1 DEF AuTyped, AuRunning, AuLocked, None
  <2>2. a # h
    BY <1>1, <2>1
  <2> QED BY <1>4, <2>1, <2>2
<1> QED BY <1>3, <1>4, <1>5, <1>6

\* A run that is at its locks stops, and may leave one nobody holds.
LEMMA AuLeavesLocks ==
  ASSUME AuInv, NEW r \in 1 .. AuRuns, Abort(r) \/ AuOver(r),
         \/ UNCHANGED auDisk
         \/ Disk(r).lock = None /\ AuWrite(r, "lock", r),
         UNCHANGED auPaid, auFaults' \in Nat
  PROVE  AuInv'
<1>1. AuTyped /\ AuLocked /\ auRun[r] \in AuRunning
  BY DEF AuInv, AuTyped
<1>2. /\ auDisk' \in [Asset -> AuDisks] /\ \A a \in Asset : AuSameButLock(auDisk'[a], auDisk[a])
      /\ \A s \in 1 .. AuRuns : \A a \in auRun[s].held : auDisk'[a].lock = s
  BY <1>1, AuSameDisk, AuLockOf DEF AuLocked
<1>3. {"release", "over"} \subseteq AuPlaces
  BY DEF AuPlaces
<1>4. CASE Abort(r)
  <2> DEFINE run == [auRun[r] EXCEPT !.at = "release"]
  <2>1. auRun' = [auRun EXCEPT ![r] = run]
    BY <1>4 DEF Abort, GoOn
  <2>2. run \in AuRunning /\ run.at = "release" /\ run.held = auRun[r].held
    BY <1>1, <1>3 DEF AuRunning
  <2> HIDE DEF run
  <2>3. \A a \in run.held : auDisk'[a].lock = r
    BY <1>2, <2>2
  <2>4. \A s \in 1 .. AuRuns : s # r => \A a \in auRun[s].held : auDisk'[a].lock = s
    BY <1>2
  <2>5. run.at \in {"lock", "prepare", "release", "over"} /\ run.at \notin {"over", "lock", "prepare"}
    BY <2>2
  <2> QED BY <1>2, <2>1, <2>2, <2>3, <2>4, <2>5, AuTakesLocks
<1>5. CASE AuOver(r)
  <2> DEFINE run == NewRun("over")
  <2>1. auRun' = [auRun EXCEPT ![r] = run]
    BY <1>5 DEF AuOver
  <2>2. run \in AuRunning /\ run.at = "over" /\ run.held = {}
    BY <1>3, AuNothing
  <2> HIDE DEF run
  <2> QED BY <1>2, <2>1, <2>2, AuTakesLocks
<1> QED BY <1>4, <1>5

\* acquireAssetLock for every asset, in order.
LEMMA AuLocks == ASSUME AuInv, NEW r \in 1 .. AuRuns, AuLock(r) PROVE AuInv'
<1> DEFINE h == Here(r)
           next == IF h = AuAssets THEN 1 ELSE h + 1
           place == IF h = AuAssets THEN "prepare" ELSE "lock"
           held == auRun[r].held \cup {h}
           run == [auRun[r] EXCEPT !.held = held, !.asset = next, !.at = place]
<1>1. auRun[r].at = "lock" /\ AuSteady
  BY DEF AuLock, AuAt
<1>2. /\ AuTyped /\ h \in Asset /\ h = auRun[r].asset /\ auRun[r] \in AuRunning /\ AuLocked
  BY AuAtHand DEF AuInv
<1>3. auFaults' \in Nat /\ UNCHANGED auPaid
  BY <1>1, <1>2 DEF AuTyped, AuSteady
<1>4. CASE ~TakesLock(r)
  BY <1>3, <1>4, AuLeavesLocks DEF AuLock
<1>5. CASE TakesLock(r)
  <2>1. Disk(r).lock = None /\ AuWrite(r, "lock", r) /\ auRun' = [auRun EXCEPT ![r] = run]
    BY <1>2, <1>5 DEF TakesLock, AuLock, Here
  <2>2. /\ auDisk' \in [Asset -> AuDisks] /\ \A a \in Asset : AuSameButLock(auDisk'[a], auDisk[a])
        /\ \A s \in 1 .. AuRuns : \A a \in auRun[s].held : auDisk'[a].lock = s
        /\ auDisk'[h].lock = r
    BY <2>1, AuLockOf
  <2>3. held = 1 .. h /\ held \subseteq Asset
    <3>1. auRun[r].held = 1 .. h - 1
      BY <1>1, <1>2 DEF AuLocked
    <3>2. h \in 1 .. AuAssets
      BY <1>2 DEF Asset
    <3> HIDE DEF h
    <3> QED BY <3>1, <3>2, AudioAssumption DEF Asset
  <2>4. next \in Asset /\ place \in AuPlaces
    BY <1>2, AudioAssumption DEF Asset, AuPlaces, AuBusy
  <2>5. \/ h = AuAssets /\ place = "prepare" /\ next = 1
        \/ place = "lock" /\ next = h + 1
    OBVIOUS
  <2>6. \A a \in held : auDisk'[a].lock = r
    BY <2>2
  <2> HIDE DEF held, next, place
  <2>7. run \in AuRunning /\ run.at = place /\ run.held = held /\ run.asset = next
    BY <1>2, <2>3, <2>4 DEF AuRunning
  <2> HIDE DEF run
  <2>8. /\ run.at \in {"lock", "prepare", "release", "over"} /\ run.at # "over"
        /\ run.at = "lock" => run.held = 1 .. run.asset - 1
        /\ run.at = "prepare" => run.held = Asset /\ run.asset = 1
    BY <1>2, <2>3, <2>5, <2>7 DEF Asset
  <2> HIDE DEF h
  <2> QED BY <1>3, <2>1, <2>2, <2>6, <2>7, <2>8, AuTakesLocks
<1> QED BY <1>4, <1>5

\* releaseAssetLocks: only what bears the run's own token goes.
LEMMA AuReleases == ASSUME AuInv, NEW r \in 1 .. AuRuns, AuRelease(r) PROVE AuInv'
<1> DEFINE run == NewRun("over")
           none == None
           freed(e) == [e EXCEPT !.lock = none]
<1>1. AuTyped /\ AuLocked
  BY DEF AuInv
<1>2. /\ auDisk' = [a \in Asset |-> IF a \in auRun[r].held /\ auDisk[a].lock = r THEN freed(auDisk[a]) ELSE auDisk[a]]
      /\ auRun' = [auRun EXCEPT ![r] = run] /\ AuSteady
  BY DEF AuRelease, AuOver
<1>3. none \in 0 .. AuRuns
  BY AudioAssumption DEF None
<1> HIDE DEF none
<1>4. \A e \in AuDisks : freed(e) \in AuDisks /\ AuSameButLock(freed(e), e)
  BY <1>3 DEF AuDisks, AuSameButLock
<1> HIDE DEF freed
<1>5. auDisk' \in [Asset -> AuDisks] /\ \A a \in Asset : AuSameButLock(auDisk'[a], auDisk[a])
  BY <1>1, <1>2, <1>4, AuSameDisk DEF AuTyped
<1>6. ASSUME NEW s \in 1 .. AuRuns, s # r, NEW a \in auRun[s].held PROVE auDisk'[a].lock = s
  <2>1. a \in Asset /\ auDisk[a].lock = s
    BY <1>1 DEF AuTyped, AuRunning, AuLocked
  <2> QED BY <1>2, <1>6, <2>1
<1>7. run \in AuRunning /\ run.at = "over" /\ run.held = {}
  BY AuNothing DEF AuPlaces
<1>8. auFaults' \in Nat /\ UNCHANGED auPaid
  BY <1>1, <1>2 DEF AuTyped, AuSteady
<1> HIDE DEF run
<1> QED BY <1>2, <1>5, <1>6, <1>7, <1>8, AuTakesLocks

\* A lock of a run that is gone is nobody's.
LEMMA AuUnlocks == ASSUME AuInv, NEW a \in Asset, AuUnlock(a) PROVE AuInv'
<1> DEFINE r == auDisk[a].lock
           e == auDisk[a]
           none == None
           d == [e EXCEPT !.lock = none]
<1>1. AuTyped /\ AuLocked /\ e \in AuDisks /\ UNCHANGED <<auRun, auPaid, auFaults>>
  BY DEF AuInv, AuTyped, AuUnlock
<1>2. r \in 1 .. AuRuns /\ auRun[r].at = "over"
  BY <1>1 DEF AuUnlock, AuGone, AuAt, AuDisks, None
<1>3. \A s \in 1 .. AuRuns : a \notin auRun[s].held
  BY <1>1, <1>2 DEF AuLocked
<1>4. none \in 0 .. AuRuns
  BY AudioAssumption DEF None
<1>5. auDisk' = [auDisk EXCEPT ![a] = d]
  BY DEF AuUnlock
<1> HIDE DEF none, r, e
<1>6. d \in AuDisks /\ AuSameButLock(d, e)
  BY <1>1, <1>4 DEF AuDisks, AuSameButLock
<1> HIDE DEF d
<1>7. auDisk' \in [Asset -> AuDisks] /\ \A b \in Asset : AuSameButLock(auDisk'[b], auDisk[b])
  BY <1>1, <1>5, <1>6, AuSameDisk DEF AuTyped, e
<1>8. ASSUME NEW s \in 1 .. AuRuns, NEW b \in auRun[s].held PROVE auDisk'[b].lock = s
  <2>1. b \in Asset /\ auDisk[b].lock = s /\ b # a
    BY <1>1, <1>3 DEF AuTyped, AuRunning, AuLocked
  <2> QED BY <1>1, <1>5, <2>1 DEF AuTyped
<1>9. "over" \notin AuBusy
  BY DEF AuBusy, AuBuying, AuFinishing, AuMaking, AuLinking
<1>10. auRun[r] \in AuRunning /\ auRun' = [auRun EXCEPT ![r] = auRun[r]] /\ auRun[r].held = {}
  BY <1>1, <1>2 DEF AuTyped, AuLocked
<1>11. auFaults' \in Nat /\ UNCHANGED auPaid
  BY <1>1 DEF AuTyped
<1> QED BY <1>2, <1>7, <1>8, <1>10, <1>11, AuTakesLocks

-----------------------------------------------------------------------------
(* Faults, and the promise.                                                *)

LEMMA AuToolsFail == ASSUME AuInv, NEW r \in 1 .. AuRuns, AuToolFails(r) PROVE AuInv'
<1>1. /\ auRun[r].at \in AuBusy /\ auRun[r].at # "prepare"
  BY DEF AuToolFails, AuBusy, AuFinishing, AuMaking
<1>2. AuTyped
  BY DEF AuInv
<1>3. auDisk' \in {auDisk, AuHalf(r)} /\ Throw(r) /\ UNCHANGED auPaid /\ auFaults' \in Nat
  BY <1>2 DEF AuToolFails, AuTyped
<1> QED BY <1>1, <1>3, AuSparesHalf, AuSurvives

LEMMA AuFaultsAll == ASSUME AuInv, NEW r \in 1 .. AuRuns, AuFault(r) PROVE AuInv'
<1>1. AuTyped /\ auRun[r] \in AuRunning
  BY DEF AuInv, AuTyped
<1>2. auDisk' \in {auDisk, AuHalf(r)} /\ UNCHANGED auPaid /\ auFaults' \in Nat /\ auRun[r].at \notin {"idle", "over"}
  BY <1>1 DEF AuFault, AuTyped, AuLive, AuGone, AuAt
<1>3. CASE auRun[r].at \in AuBusy
  <2>1. "prepare" \in AuBusy /\ "lock" \notin AuBusy /\ "release" \notin AuBusy
    BY DEF AuBusy, AuBuying, AuFinishing, AuMaking, AuLinking
  <2>2. AuSpares(r)
    BY <1>2, <1>3, AuSparesHalf
  <2>3. \/ AuOver(r) \/ Abort(r)
        \/ auRun[r].at # "prepare" /\ Throw(r)
        \/ auRun[r].at = "throw" /\ auRun' = [auRun EXCEPT ![r].at = "cleanup", ![r].failed = TRUE]
    BY DEF AuFault, AuAt
  <2> QED BY <1>2, <1>3, <2>2, <2>3, AuSurvives
<1>4. CASE auRun[r].at \in {"lock", "release"}
  <2>1. \/ UNCHANGED auDisk
        \/ Disk(r).lock = None /\ AuWrite(r, "lock", r)
    <3>1. CASE auRun[r].at = "lock" /\ Disk(r).lock = None
      <4>1. AuHalf(r) = [auDisk EXCEPT ![Here(r)].lock = r]
        BY <3>1 DEF AuHalf, AuAt
      <4> QED BY <1>2, <3>1, <4>1 DEF AuWrite
    <3>2. CASE ~(auRun[r].at = "lock" /\ Disk(r).lock = None)
      <4>1. AuHalf(r) = auDisk
        BY <1>4, <3>2 DEF AuHalf, AuAt
      <4> QED BY <1>2, <4>1
    <3> QED BY <3>1, <3>2
  <2>2. Abort(r) \/ AuOver(r)
    BY <1>4 DEF AuFault, AuAt
  <2> QED BY <1>2, <2>1, <2>2, AuLeavesLocks
<1>5. auRun[r].at \in AuPlaces
  BY <1>1 DEF AuRunning
<1> QED BY <1>2, <1>3, <1>4, <1>5 DEF AuPlaces

LEMMA AuStep == AuInv /\ [AuNext]_auVars => AuInv'
<1> SUFFICES ASSUME AuInv, [AuNext]_auVars PROVE AuInv'
  OBVIOUS
<1>1. CASE UNCHANGED auVars
  BY <1>1 DEF auVars, AuInv, AuTyped, AuLocked, AuFollows, AuPhase, AuBegun, AuAhead, Seen, Disk, Here
<1>2. ASSUME NEW a \in Asset, AuUnlock(a) PROVE AuInv'
  BY <1>2, AuUnlocks
<1>3. ASSUME NEW r \in 1 .. AuRuns,
             \/ AuStart(r) \/ AuLock(r) \/ AuPrepare(r) \/ AuAsset(r) \/ AuRequest(r) \/ AuBody(r) \/ AuResponse(r)
             \/ AuSource(r) \/ AuAcquired(r) \/ AuCheck(r) \/ AuPlan(r)
      PROVE  AuInv'
  BY <1>3, AuStarts, AuLocks, AuPrepares, AuAssetsOn, AuRequests, AuBodies, AuResponses, AuSources, AuAcquires, AuChecks, AuPlansOn
<1>4. ASSUME NEW r \in 1 .. AuRuns,
             \/ AuNormalize(r, "master", "workMaster", "runtime") \/ AuNormalize(r, "runtime", "workRuntime", "ready")
             \/ AuReady(r) \/ AuPromote(r, "promoteMaster", "workMaster", "master", "promoteRuntime")
             \/ AuPromote(r, "promoteRuntime", "workRuntime", "runtime", "normalized")
             \/ AuNormalized(r) \/ AuManifest(r) \/ AuCompleted(r)
      PROVE  AuInv'
  BY <1>4, AuNormalizes, AuReadies, AuPromotes, AuNormalizedOn, AuManifests, AuCompletes
<1>5. ASSUME NEW r \in 1 .. AuRuns, AuThrow(r) \/ AuCleanup(r) \/ AuRelease(r) \/ AuToolFails(r) \/ AuFault(r)
      PROVE  AuInv'
  BY <1>5, AuThrowsOn, AuCleans, AuReleases, AuToolsFail, AuFaultsAll
<1> QED BY <1>1, <1>2, <1>3, <1>4, <1>5 DEF AuNext

\* Whatever fails, in whatever order runs are started, die and are resumed, a
\* sound is paid for once, what a journal says is completed is there, and an
\* acquired asset has on disk what a resume will ask for (executeApprovedPlan).
THEOREM AudioIsKept == AuSpec => []AudioStands
<1>1. AuInit => AuInv
  BY AuBegins
<1>2. AuInv /\ [AuNext]_auVars => AuInv'
  BY AuStep
<1>3. AuInv => AudioStands
  BY AuInvIsEnough
<1> QED BY <1>1, <1>2, <1>3, PTL DEF AuSpec

\* What the properties rest on, in one inductive invariant.
IInv ==
  /\ Good(field) /\ Confined(field) /\ Sealed(field)
  /\ at \in 0 .. Len(Bodies) + 1
  /\ at > 0 => Settled(field)

\* A field starts with every anomaly in the open field and nothing captured.
LEMMA InitIInv == Init => IInv
<1> SUFFICES ASSUME Init PROVE IInv
  OBVIOUS
<1>1. Good(field)
  BY NewFieldGood DEF Init
<1>2. field.stab = {} /\ field.bodies = Bodies /\ field.status = "running"
  BY DEF Init, NewField
<1>3. Confined(field) /\ Sealed(field)
  BY <1>2, ScenarioAssumption DEF Confined, Sealed, Open, CellOf
<1>4. Len(Bodies) \in Nat
  BY ScenarioAssumption
<1> QED BY <1>1, <1>3, <1>4 DEF Init, IInv

\* Every action keeps it.
LEMMA NextIInv == IInv /\ [Next]_vars => IInv'
<1> SUFFICES ASSUME IInv, [Next]_vars PROVE IInv'
  OBVIOUS
<1>0. Len(Bodies) \in Nat
  BY ScenarioAssumption
<1>1. CASE Steer
  <2>1. PICK i \in Inputs : field' = SetInput(field, i)
    BY <1>1 DEF Steer
  <2>2. Good(field')
    BY <2>1, SetInputGood DEF IInv
  <2>3. /\ field'.stab = field.stab /\ field'.walls = field.walls
        /\ field'.bodies = field.bodies
    BY <2>1 DEF SetInput, IInv, Good, Fields
  <2>4. Confined(field') /\ Sealed(field')
    BY <2>3 DEF IInv, Confined, Sealed, Open
  <2> QED BY <1>1, <2>2, <2>4 DEF Steer, IInv
<1>2. CASE StepSpark
  <2>1. field' = SparkPhase(field) /\ field.status = "running" /\ at' = 1
    BY <1>2 DEF StepSpark
  <2>2. Good(field')
    BY <2>1, SparkPhaseGood DEF IInv
  <2>3. Confined(field') /\ Sealed(field') /\ Settled(field')
    BY <2>1, SparkPhaseSafe DEF IInv
  <2> QED BY <1>0, <2>1, <2>2, <2>3 DEF IInv
<1>3. CASE StepAnomaly
  <2>1. field' = MoveAnomaly(field, at) /\ at \in 1 .. Len(Bodies) /\ at' = at + 1
    BY <1>3, ScenarioAssumption DEF StepAnomaly
  <2>2. CellOf(field.bodies[at].at) \in Open(field)
    BY <2>1 DEF IInv, Confined
  <2>3. /\ Good(field') /\ Disturbs(field, field')
        /\ CellOf(field'.bodies[at].at) \in Open(field)
        /\ \A j \in 1 .. Len(Bodies) : j # at => field'.bodies[j] = field.bodies[j]
    BY <2>1, <2>2, MoveAnomalyGood DEF IInv
  <2>4. Confined(field') /\ Sealed(field')
    BY <2>3 DEF IInv, Confined, Sealed, Open, Disturbs
  <2>5. Settled(field')
    BY <2>1, <2>3 DEF IInv, Settled, Disturbs, Spared, Severed
  <2> QED BY <1>0, <2>1, <2>3, <2>4, <2>5 DEF IInv
<1>4. CASE StepVerdict
  <2>1. field' = Judge(field) /\ at' = 0
    BY <1>4 DEF StepVerdict
  <2>2. /\ Good(field') /\ field'.bodies = field.bodies /\ field'.stab = field.stab
        /\ field'.walls = field.walls
    BY <2>1, JudgeGood DEF IInv
  <2>3. Confined(field') /\ Sealed(field')
    BY <2>2 DEF IInv, Confined, Sealed, Open
  <2> QED BY <1>0, <2>1, <2>2, <2>3 DEF IInv
<1>5. CASE UNCHANGED vars
  BY <1>5 DEF IInv, vars
<1> QED BY <1>1, <1>2, <1>3, <1>4, <1>5 DEF Next

\* The invariant holds throughout.
LEMMA Invariance == Spec => []IInv
  BY InitIInv, NextIInv, PTL DEF Spec

\* The state of a field keeps its types.
THEOREM FieldIsTyped == Spec => []TypeOK
<1>1. IInv => TypeOK
  BY DEF IInv, Good, TypeOK
<1> QED BY <1>1, Invariance, PTL

\* No anomaly ever leaves the open field: on any board, at any speed.
THEOREM FieldConfinesAnomalies == Spec => []AnomaliesAreConfined
<1>1. IInv => AnomaliesAreConfined
  BY DEF IInv, Good, Confined, AnomaliesAreConfined
<1> QED BY <1>1, Invariance, PTL

\* What has been captured stays walled off from the open field.
THEOREM FieldSealsCaptures == Spec => []CapturesAreSealed
<1>1. IInv => CapturesAreSealed
  BY DEF IInv, Sealed, CapturesAreSealed
<1> QED BY <1>1, Invariance, PTL

\* Together: on every board and after every cut, the anomalies are walled in
\* and what has been captured is walled off from them.
THEOREM FieldStaysSealed == Spec => []FieldIsSealed
<1>1. AnomaliesAreConfined /\ CapturesAreSealed => FieldIsSealed
  BY DEF FieldIsSealed
<1> QED BY <1>1, FieldConfinesAnomalies, FieldSealsCaptures, PTL

\* The first verdict of a field is its last.
THEOREM FieldVerdictStands == Spec => FirstVerdictStands
<1>1. IInv /\ [Next]_vars =>
        [field.status # "running" =>
           /\ field'.status = field.status /\ field'.reason = field.reason
           /\ field'.integrity = field.integrity]_vars
  <2> SUFFICES ASSUME IInv, [Next]_vars, field.status # "running"
               PROVE  \/ /\ field'.status = field.status /\ field'.reason = field.reason
                         /\ field'.integrity = field.integrity
                      \/ UNCHANGED vars
    OBVIOUS
  <2>1. CASE StepAnomaly
    <3>1. field' = MoveAnomaly(field, at) /\ at \in 1 .. Len(Bodies) /\ at > 0
      BY <2>1, ScenarioAssumption DEF StepAnomaly
    <3>2. CellOf(field.bodies[at].at) \in Open(field)
      BY <3>1 DEF IInv, Confined
    <3>3. Disturbs(field, field')
      BY <3>1, <3>2, MoveAnomalyGood DEF IInv
    <3> QED BY <3>1, <3>3 DEF IInv, Settled, Disturbs, Spared, Severed
  <2>2. CASE StepVerdict
    BY <2>2 DEF StepVerdict, Judge
  <2> QED BY <2>1, <2>2 DEF Next, Steer, StepSpark
<1> QED BY <1>1, Invariance, PTL DEF Spec, FirstVerdictStands

\* The trace is an open cut throughout.
LEMMA CutInvariance == Spec => []CutIsOpen(field)
<1>1. Init => CutIsOpen(field)
  BY ScenarioAssumption DEF Init, NewField, CutIsOpen, AtWall
<1>2. IInv /\ CutIsOpen(field) /\ [Next]_vars => CutIsOpen(field)'
  <2> SUFFICES ASSUME IInv, CutIsOpen(field), [Next]_vars PROVE CutIsOpen(field')
    OBVIOUS
  <2>1. CASE Steer
    <3>1. PICK i \in Inputs : field' = SetInput(field, i)
      BY <2>1 DEF Steer
    <3>2. /\ field'.drawing = field.drawing /\ field'.trace = field.trace
          /\ field'.start = field.start /\ field'.pos = field.pos /\ field'.walls = field.walls
      BY <3>1 DEF SetInput, IInv, Good, Fields
    <3> QED BY <3>2, SameCut
  <2>2. CASE StepSpark
    BY <2>2, SparkPhaseCut DEF StepSpark, IInv
  <2>3. CASE StepAnomaly
    <3>1. field' = MoveAnomaly(field, at) /\ at \in 1 .. Len(Bodies)
      BY <2>3 DEF StepAnomaly
    <3>2. CellOf(field.bodies[at].at) \in Open(field)
      BY <3>1 DEF IInv, Confined
    <3> QED BY <3>1, <3>2, MoveAnomalyGood, DisturbsCut DEF IInv
  <2>4. CASE StepVerdict
    <3>1. /\ field'.drawing = field.drawing /\ field'.trace = field.trace
          /\ field'.start = field.start /\ field'.pos = field.pos /\ field'.walls = field.walls
      BY <2>4, JudgeGood DEF StepVerdict, IInv
    <3> QED BY <3>1, SameCut
  <2>5. CASE UNCHANGED vars
    BY <2>5 DEF vars
  <2> QED BY <2>1, <2>2, <2>3, <2>4, <2>5 DEF Next
<1> QED BY <1>1, <1>2, Invariance, PTL DEF Spec

\* The trace of a drawing spark is a simple path from a wall to the spark, and a
\* spark that does not draw is on a wall: whatever the anomalies hit and when.
THEOREM FieldCutsAreOpen == Spec => []TraceIsAnOpenCut
<1>1. CutIsOpen(field) => TraceIsAnOpenCut
  BY DEF CutIsOpen, Drawn, PathOff, AtWall, Ends, Met, Degree, TraceIsAnOpenCut, TracePoints
<1> QED BY <1>1, CutInvariance, PTL

-----------------------------------------------------------------------------
(* A playtest and its record                                               *)

LbRuns == [lives : Nat, score : Int]
LbPauses == [from : Nat, for : Nat]
LbOpens == [from : Nat, before : Nat] \cup {NoInterruption}
LbTimings ==
  [origin : Nat, at : Nat, active : BOOLEAN, play : Nat, paused : Nat, done : Seq(LbPauses), open : LbOpens]
\* The ledger of time, at a moment, with what was shown as play until then.
LbTimed(t, now, played) ==
  /\ t \in LbTimings /\ now \in Nat /\ t.at <= now /\ TimingOk(t)
  /\ Accrued(t, now) = played /\ t.play + t.paused <= t.at - t.origin
  /\ IsOpen(t) => Len(t.done) < LabInterruptions

LbStages ==
  [stage : Nat, status : {"won", "lost"}, observed : {"engine", "synthetic"}, start : LbRuns, ticks : Nat,
   inputs : Nat, score : Int, delta : Int, lives : Nat, losses : Nat]
LbPulsed == [stage : Nat, status : {"won", "lost"}]
LbRounds ==
  [exposure : {"pending", "none", "partial", "full"}, initial : {FreshRun}, stages : Seq(LbStages),
   pulses : Seq(LbPulsed)]
LbSessions ==
  [phase : {"welcome", "practice", "round1", "round2", "stage-pulse", "intermission", "comparison", "frozen", "debrief"},
   mode : {"human", "test-driver"}, stage : Nat, run : LbRuns, ticks : Nat, inputs : Nat, pending : Nat,
   practice : Seq(LbStages), rounds : Seq(LbRounds), frozen : BOOLEAN]

\* Stages of a record, from the first on.
LbChain(mode, stages, first, last) ==
  \A k \in 1 .. Len(stages) :
    /\ StageOk(mode, stages[k], first, last) /\ stages[k].stage = first + k - 1
    /\ stages[k].inputs = stages[k].ticks /\ (stages[k].observed = "engine" => stages[k].ticks > 0)
    /\ stages[k].start = IF k = 1 THEN FreshRun ELSE [lives |-> stages[k - 1].lives, score |-> stages[k - 1].score]
    /\ k < Len(stages) => stages[k].status = "won"
\* The run the next stage of them starts with.
LbGoesOn(stages, run) ==
  IF Len(stages) = 0 THEN run = FreshRun
  ELSE /\ stages[Len(stages)].status = "won"
       /\ run = [lives |-> stages[Len(stages)].lives, score |-> stages[Len(stages)].score]
LbOver(stages, last) == Len(stages) > 0 /\ (stages[Len(stages)].status = "won" => stages[Len(stages)].stage = last)
LbAnswered(round) == \A k \in 1 .. Len(round.pulses) : PulseOk(round.pulses[k], round.stages[k])

LbPracticed(s) == LbChain(s.mode, s.practice, 1, LabPractice) /\ LbOver(s.practice, LabPractice)
LbDone(mode, round) ==
  /\ LbChain(mode, round.stages, LabFirst, LabLast) /\ LbOver(round.stages, LabLast)
  /\ Len(round.pulses) = Len(round.stages) /\ LbAnswered(round)
  /\ round.exposure = Exposure(round.stages[Len(round.stages)].stage)
LbUnderway(mode, round, stage, run) ==
  /\ LbChain(mode, round.stages, LabFirst, LabLast) /\ LbGoesOn(round.stages, run)
  /\ Len(round.pulses) = Len(round.stages) /\ LbAnswered(round)
  /\ stage = LabFirst + Len(round.stages) /\ stage <= LabLast
LbAwaits(mode, round) ==
  /\ LbChain(mode, round.stages, LabFirst, LabLast) /\ Len(round.stages) > 0
  /\ Len(round.pulses) = Len(round.stages) - 1 /\ LbAnswered(round)

\* A record in each of its phases.
LbRecord(s) ==
  /\ s \in LbSessions
  /\ s.phase = "welcome" => Len(s.practice) = 0 /\ Len(s.rounds) = 0
  /\ s.phase = "practice" =>
       /\ Len(s.rounds) = 0 /\ s.stage = Len(s.practice) + 1 /\ s.stage <= LabPractice
       /\ LbChain(s.mode, s.practice, 1, LabPractice) /\ LbGoesOn(s.practice, s.run)
  /\ s.phase \notin {"welcome", "practice"} => LbPracticed(s)
  /\ s.phase = "round1" => Len(s.rounds) = 1 /\ LbUnderway(s.mode, s.rounds[1], s.stage, s.run)
  /\ s.phase = "round2" =>
       /\ Len(s.rounds) = 2 /\ LbDone(s.mode, s.rounds[1])
       /\ LbUnderway(s.mode, s.rounds[2], s.stage, s.run)
  /\ s.phase = "stage-pulse" =>
       /\ s.pending \in 1 .. 2 /\ Len(s.rounds) = s.pending /\ LbAwaits(s.mode, s.rounds[s.pending])
       /\ s.pending = 2 => LbDone(s.mode, s.rounds[1])
  /\ s.phase = "intermission" => Len(s.rounds) = 1 /\ LbDone(s.mode, s.rounds[1])
  /\ s.phase \in {"comparison", "frozen", "debrief"} =>
       Len(s.rounds) = 2 /\ LbDone(s.mode, s.rounds[1]) /\ LbDone(s.mode, s.rounds[2])

LbEngines == [tick : Nat, lives : Nat, score : Int, losses : Nat]
\* The engine plays the stage the record is at.
LbPlays(s, e) ==
  /\ e \in LbEngines /\ e.tick = s.ticks /\ s.inputs = s.ticks /\ s.stage > 0
  /\ e.lives + e.losses = s.run.lives /\ e.score >= s.run.score
\* A stage that ended so, observed so, and what its terminal says.
LbTerminal(s, e, result, observed) ==
  [status |-> result, observed |-> observed, score |-> e.score, delta |-> e.score - s.run.score,
   lives |-> IF result = "lost" THEN 0 ELSE e.lives, losses |-> e.losses]
LbEnds(s, e, result, observed) ==
  /\ result \in {"won", "lost"} /\ observed \in {"engine", "synthetic"}
  /\ result = "won" => e.lives > 0
  /\ observed = "engine" => s.ticks > 0 /\ (result = "lost" => e.lives = 0)
  /\ s.mode = "human" => observed = "engine"

LbOnStage == {"stage-card", "countdown", "playing"}
LbPriors ==
  {"welcome", "stage-card", "playing", "terminal", "stage-pulse", "intermission", "round-experience", "comparison",
   "frozen", "debrief"}
LbSurfaces == LbPriors \cup {"countdown", "paused", "stopped"}
\* What is shown, or was before the pause.
LbFace(l) == IF l.surface = "paused" THEN l.prior ELSE l.surface
LbPhases(face) ==
  CASE face \in LbOnStage \cup {"terminal"} -> LabPlay
    [] face \in {"round-experience", "comparison"} -> {"comparison"}
    [] OTHER -> {face}

\* What is shown is what the record is at, with what it needs at hand.
LbPage(l) ==
  /\ l.surface \in LbSurfaces /\ l.prior \in LbPriors /\ l.timer \in Nat
  /\ LbFace(l) # "stopped" => l.session.phase \in LbPhases(LbFace(l))
  /\ l.session.phase \in LabPlay => LbPlays(l.session, l.engine)
  /\ LbFace(l) \in LbOnStage => l.terminal = NoTerminal /\ l.engine.lives > 0
  /\ LbFace(l) = "terminal" =>
       \E result \in {"won", "lost"}, observed \in {"engine", "synthetic"} :
         LbEnds(l.session, l.engine, result, observed)
         /\ l.terminal = LbTerminal(l.session, l.engine, result, observed)
  /\ LbFace(l) = "stage-pulse" =>
       LET stages == l.session.rounds[l.session.pending].stages  last == stages[Len(stages)]
       IN  l.pulse = [stage |-> last.stage, status |-> last.status]
  /\ l.action = "commitTerminal" => LbFace(l) = "terminal"
  /\ l.action = "beginRoundTwo" => LbFace(l) = "intermission"
  /\ l.action = "startTestPractice" => LbFace(l) = "welcome"
\* Time is stopped while the page is paused, and runs as play while it is shown.
LbShows(l, w) ==
  /\ l.surface = "paused" <=> IsOpen(l.timing)
  /\ l.timing.active <=> l.surface = "playing"
  /\ l.surface = "countdown" <=> l.timer > 0
  /\ l.surface = "playing" => Fit(w)

LbWorlds == [now : Nat, front : BOOLEAN, fits : BOOLEAN]
LbGood(l, w, played) ==
  /\ l.threw = {} /\ LbTimed(l.timing, w.now, played) /\ LbRecord(l.session) /\ LbPage(l) /\ LbShows(l, w)
LbFields == {"session", "timing", "engine", "surface", "prior", "action", "terminal", "pulse", "timer", "threw", "passed"}
LbActions == {"none", "beginCountdown", "commitTerminal", "beginRoundTwo", "startTestPractice"}
LbShape(l) == DOMAIN l = LbFields /\ l.action \in LbActions /\ l.passed \in BOOLEAN
LbInv ==
  /\ LbShape(lab) /\ labWorld \in LbWorlds /\ labPlayed \in Nat
  /\ LabByTheRules => LbGood(lab, labWorld, labPlayed)

\* The partial sums of whole numbers, and their total.
LEMMA TotalSums ==
  ASSUME NEW seq \in Seq(Int)
  PROVE  \E g : /\ Total(seq) = g[Len(seq)] /\ g[0] = 0 /\ \A k \in 0 .. Len(seq) : g[k] \in Int
               /\ \A k \in 1 .. Len(seq) : g[k] = g[k - 1] + seq[k]
<1>1. Len(seq) \in Nat /\ \A k \in 1 .. Len(seq) : seq[k] \in Int
  OBVIOUS
<1>2. PICK g : Sums(seq, g, Len(seq)) /\ Total(seq) = g[Len(seq)]
  BY <1>1, TotalIs
<1>3. /\ g[0] = 0 /\ \A k \in 0 .. Len(seq) : g[k] \in Int
      /\ \A k \in 1 .. Len(seq) : g[k] = g[k - 1] + seq[k]
  BY <1>1, <1>2, SumsTyped
<1> QED BY <1>2, <1>3

\* A sequence that grows by one term.
LEMMA TotalOfAppended ==
  ASSUME NEW a \in Seq(Int), NEW b \in Seq(Int), Len(b) = Len(a) + 1, \A k \in 1 .. Len(a) : b[k] = a[k]
  PROVE  Total(b) = Total(a) + b[Len(b)] /\ Total(a) \in Int
<1> DEFINE n == Len(a)
<1>0. n \in Nat /\ Len(b) = n + 1
  OBVIOUS
<1>1. \A k \in 1 .. n : a[k] \in Int
  OBVIOUS
<1>11. \A k \in 1 .. n : b[k] = a[k]
  OBVIOUS
<1>3. PICK g : /\ Total(a) = g[n] /\ g[0] = 0 /\ \A k \in 0 .. n : g[k] \in Int
               /\ \A k \in 1 .. n : g[k] = g[k - 1] + a[k]
  BY TotalSums
<1>4. PICK h : /\ Total(b) = h[Len(b)] /\ h[0] = 0 /\ \A k \in 0 .. Len(b) : h[k] \in Int
               /\ \A k \in 1 .. Len(b) : h[k] = h[k - 1] + b[k]
  BY TotalSums
<1> HIDE DEF n
<1>5. /\ g[0] = 0 /\ \A k \in 0 .. n : g[k] \in Int
      /\ \A k \in 1 .. n : g[k] = g[k - 1] + a[k]
  BY <1>3
<1>6. /\ h[0] = 0 /\ \A k \in 0 .. n + 1 : h[k] \in Int
      /\ \A k \in 1 .. n + 1 : h[k] = h[k - 1] + b[k]
  BY <1>0, <1>4
<1> DEFINE T == {k \in 0 .. n : h[k] = g[k]}
<1>7. 0 .. n \subseteq T
  <2>1. 0 \in T
    BY <1>0, <1>5, <1>6
  <2>2. ASSUME NEW k \in 0 .. n - 1, k \in T PROVE k + 1 \in T
    <3>1. k + 1 \in 1 .. n /\ k + 1 \in 1 .. n + 1 /\ k + 1 \in 0 .. n /\ (k + 1) - 1 = k
      BY <1>0
    <3>2. h[k + 1] = h[k] + b[k + 1] /\ g[k + 1] = g[k] + a[k + 1]
      BY <1>5, <1>6, <3>1
    <3>3. h[k] = g[k] /\ b[k + 1] = a[k + 1]
      BY <1>11, <2>2, <3>1
    <3> QED BY <3>1, <3>2, <3>3
  <2> HIDE DEF T
  <2> QED BY <1>0, <2>1, <2>2, Upwards
<1>8. h[n] = g[n] /\ g[n] \in Int
  BY <1>0, <1>5, <1>7
<1>9. h[n + 1] = h[n] + b[n + 1]
  <2>1. n + 1 \in 1 .. n + 1 /\ (n + 1) - 1 = n
    BY <1>0
  <2> QED BY <1>6, <2>1
<1> QED BY <1>0, <1>3, <1>4, <1>8, <1>9 DEF n

-----------------------------------------------------------------------------
(* The ledger of time                                                      *)

\* What a ledger of time is made of.
LEMMA LbTimes ==
  ASSUME NEW t \in LbTimings
  PROVE  /\ t.origin \in Nat /\ t.at \in Nat /\ t.active \in BOOLEAN /\ t.play \in Nat /\ t.paused \in Nat
         /\ t.done \in Seq(LbPauses) /\ Len(t.done) \in Nat /\ DOMAIN t.done = 1 .. Len(t.done)
         /\ \A k \in 1 .. Len(t.done) : t.done[k].from \in Nat /\ t.done[k].for \in Nat
         /\ IsOpen(t) => t.open.from \in Nat /\ t.open.before \in Nat
<1>1. /\ t.origin \in Nat /\ t.at \in Nat /\ t.active \in BOOLEAN /\ t.play \in Nat /\ t.paused \in Nat
      /\ t.done \in Seq(LbPauses) /\ t.open \in LbOpens
  BY DEF LbTimings
<1>2. Len(t.done) \in Nat /\ DOMAIN t.done = 1 .. Len(t.done) /\ \A k \in 1 .. Len(t.done) : t.done[k] \in LbPauses
  BY <1>1
<1>3. \A p \in LbPauses : p.from \in Nat /\ p.for \in Nat
  BY DEF LbPauses
<1>4. IsOpen(t) => t.open.from \in Nat /\ t.open.before \in Nat
  BY <1>1 DEF IsOpen, LbOpens
<1> QED BY <1>1, <1>2, <1>3, <1>4

\* Play is begun, or ended, outside an interruption.
LEMMA LbActs ==
  ASSUME NEW t, NEW now, NEW played, LbTimed(t, now, played), ~IsOpen(t), NEW on \in BOOLEAN
  PROVE  LET u == SetActive(t, now, on)
         IN  LbTimed(u, now, played) /\ ~IsOpen(u) /\ u.active = on
<1> DEFINE u == SetActive(t, now, on)
           play == Accrued(t, now)
<1>1. t \in LbTimings /\ now \in Nat /\ t.at <= now /\ TimingOk(t) /\ play = played
      /\ t.play + t.paused <= t.at - t.origin
  BY DEF LbTimed
<1>2. t.origin \in Nat /\ t.at \in Nat /\ t.play \in Nat /\ t.paused \in Nat
  BY <1>1, LbTimes
<1>3. play \in Nat /\ play + t.paused <= now - t.origin
  BY <1>1, <1>2 DEF Accrued
<1>4. u = [t EXCEPT !.at = now, !.active = on, !.play = play]
  BY DEF SetActive
<1> HIDE DEF u, play
<1>5. /\ u \in LbTimings /\ u.at = now /\ u.active = on /\ u.play = play /\ u.paused = t.paused
      /\ u.done = t.done /\ u.open = t.open /\ u.origin = t.origin
  BY <1>1, <1>3, <1>4 DEF LbTimings
<1>6. ~IsOpen(u)
  BY <1>5 DEF IsOpen
<1>7. TimingOk(u)
  <2>1. u.at >= u.origin
    BY <1>1, <1>2, <1>5 DEF TimingOk
  <2>2. Ordered(u.done, u.origin, u.at)
    <3>1. Ordered(t.done, t.origin, t.at)
      BY <1>1 DEF TimingOk
    <3>2. \A k \in 1 .. Len(t.done) : t.done[k].from + t.done[k].for \in Int
      BY <1>1, LbTimes
    <3> QED BY <1>1, <1>2, <1>5, <3>1, <3>2 DEF Ordered
  <2> QED BY <1>1, <1>5, <1>6, <2>1, <2>2 DEF TimingOk
<1>8. Accrued(u, now) = play
  BY <1>1, <1>3, <1>5 DEF Accrued
<1> QED BY <1>1, <1>3, <1>5, <1>6, <1>7, <1>8 DEF LbTimed, u

\* The page is interrupted, with room for one more interruption.
LEMMA LbInterrupted ==
  ASSUME NEW t, NEW now, NEW played, LbTimed(t, now, played), ~IsOpen(t), PauseLegal(t)
  PROVE  LET u == Pause(t, now)
         IN  LbTimed(u, now, played) /\ IsOpen(u) /\ ~u.active
<1> DEFINE u == Pause(t, now)
           play == Accrued(t, now)
           open == [from |-> now, before |-> t.paused]
<1>1. t \in LbTimings /\ now \in Nat /\ t.at <= now /\ TimingOk(t) /\ play = played
      /\ t.play + t.paused <= t.at - t.origin
  BY DEF LbTimed
<1>2. /\ t.origin \in Nat /\ t.at \in Nat /\ t.play \in Nat /\ t.paused \in Nat /\ Len(t.done) \in Nat
      /\ \A k \in 1 .. Len(t.done) : t.done[k].from \in Nat /\ t.done[k].for \in Nat
  BY <1>1, LbTimes
<1>3. play \in Nat /\ play + t.paused <= now - t.origin
  <2>1. t.origin \in Nat /\ t.at \in Nat /\ t.play \in Nat /\ t.paused \in Nat
    BY <1>2
  <2> QED BY <1>1, <2>1 DEF Accrued
<1>4. u = [t EXCEPT !.at = now, !.active = FALSE, !.play = play, !.open = open]
  BY DEF Pause
<1>5. open \in LbOpens /\ open.from = now /\ open.before = t.paused /\ open # NoInterruption
  BY <1>1, <1>2 DEF LbOpens, NoInterruption
<1> HIDE DEF u, play, open
<1>6. /\ u \in LbTimings /\ u.at = now /\ u.active = FALSE /\ u.play = play /\ u.paused = t.paused
      /\ u.done = t.done /\ u.open = open /\ u.origin = t.origin
  BY <1>1, <1>3, <1>4, <1>5 DEF LbTimings
<1>7. IsOpen(u)
  BY <1>5, <1>6 DEF IsOpen
<1>8. TimingOk(u)
  <2>1. u.at >= u.origin /\ Len(u.done) <= LabInterruptions /\ u.paused = PausedIn(u.done)
    BY <1>1, <1>2, <1>6 DEF TimingOk
  <2>2. Ordered(t.done, t.origin, t.at)
    BY <1>1 DEF TimingOk
  <2>3. Ordered(u.done, u.origin, u.at)
    <3>1. \A k \in 1 .. Len(t.done) : t.done[k].from + t.done[k].for \in Int
      BY <1>2
    <3> QED BY <1>1, <1>2, <1>6, <2>2, <3>1 DEF Ordered
  <2>4. u.open.from <= u.at /\ u.open.before = PausedIn(u.done) /\ u.paused = u.open.before + (u.at - u.open.from)
    BY <1>1, <1>2, <1>5, <1>6, <2>1
  <2>5. u.done # <<>> => u.open.from >= Last(u.done).from + Last(u.done).for
    <3>1. ASSUME t.done # <<>> PROVE t.done[Len(t.done)].from + t.done[Len(t.done)].for <= t.at
      <4>1. t.done \in Seq(LbPauses)
        BY <1>1, LbTimes
      <4>2. Len(t.done) \in 1 .. Len(t.done)
        BY <1>2, <3>1, <4>1
      <4> QED BY <2>2, <4>2 DEF Ordered
    <3>2. t.done # <<>> => t.done[Len(t.done)].from + t.done[Len(t.done)].for \in Int
      <4>1. t.done \in Seq(LbPauses)
        BY <1>1, LbTimes
      <4>2. t.done # <<>> => Len(t.done) \in 1 .. Len(t.done)
        BY <1>2, <4>1
      <4> QED BY <1>2, <4>2
    <3> QED BY <1>1, <1>2, <1>5, <1>6, <3>1, <3>2 DEF Last
  <2> QED BY <1>6, <1>7, <2>1, <2>3, <2>4, <2>5 DEF TimingOk
<1>9. Accrued(u, now) = play
  BY <1>6 DEF Accrued
<1>10. Len(u.done) < LabInterruptions
  BY <1>6 DEF PauseLegal
<1> QED BY <1>1, <1>3, <1>6, <1>7, <1>8, <1>9, <1>10 DEF LbTimed, u

\* The interruption ends.
LEMMA LbResumed ==
  ASSUME NEW t, NEW now, NEW played, LbTimed(t, now, played), IsOpen(t), NEW on \in BOOLEAN
  PROVE  LET u == Resume(t, now, on)
         IN  LbTimed(u, now, played) /\ ~IsOpen(u) /\ u.active = on
<1> DEFINE u == Resume(t, now, on)
           from == t.open.from
           for == now - from
           paused == t.open.before + for
           pause == [from |-> from, for |-> for]
           n == Len(t.done)
           done == Append(t.done, pause)
<1>1. /\ t \in LbTimings /\ now \in Nat /\ t.at <= now /\ TimingOk(t) /\ Accrued(t, now) = played
      /\ t.play + t.paused <= t.at - t.origin /\ n < LabInterruptions
  BY DEF LbTimed
<1>2. /\ t.origin \in Nat /\ t.at \in Nat /\ t.play \in Nat /\ t.paused \in Nat /\ n \in Nat
      /\ \A k \in 1 .. n : t.done[k].from \in Nat /\ t.done[k].for \in Nat
      /\ from \in Nat /\ t.open.before \in Nat /\ t.done \in Seq(LbPauses)
  BY <1>1, LbTimes
<1>3. /\ t.at >= t.origin /\ Ordered(t.done, t.origin, t.at) /\ from <= t.at /\ t.open.before = PausedIn(t.done)
      /\ t.done # <<>> => from >= Last(t.done).from + Last(t.done).for
      /\ t.paused = t.open.before + (t.at - from) /\ ~t.active
  BY <1>1 DEF TimingOk
<1>4. t.play = played
  BY <1>1, <1>3 DEF Accrued
<1>5. for \in Nat /\ paused \in Nat /\ from + for = now
  <2>1. from \in Nat /\ t.at \in Nat /\ from <= t.at /\ t.at <= now /\ now \in Nat /\ t.open.before \in Nat
    BY <1>1, <1>2, <1>3
  <2> HIDE DEF from
  <2> QED BY <2>1
<1>6. pause \in LbPauses /\ pause.from = from /\ pause.for = for
  BY <1>2, <1>5 DEF LbPauses
<1>7. u = [t EXCEPT !.at = now, !.active = on, !.paused = paused, !.done = done, !.open = NoInterruption]
  BY <1>1 DEF LbTimings, Resume
<1> HIDE DEF u, from, for, paused, pause, n
<1>8. /\ done \in Seq(LbPauses) /\ Len(done) = n + 1 /\ done[n + 1] = pause
      /\ \A k \in 1 .. n : done[k] = t.done[k]
  BY <1>2, <1>6 DEF n
<1> HIDE DEF done
<1>9. /\ u \in LbTimings /\ u.at = now /\ u.active = on /\ u.play = t.play /\ u.paused = paused
      /\ u.done = done /\ u.open = NoInterruption /\ u.origin = t.origin
  BY <1>1, <1>5, <1>7, <1>8 DEF LbTimings, LbOpens
<1>10. ~IsOpen(u)
  BY <1>9 DEF IsOpen
<1>11. PausedIn(done) = paused
  <2> DEFINE a == [k \in DOMAIN t.done |-> t.done[k].for]
             b == [k \in DOMAIN done |-> done[k].for]
  <2>1. DOMAIN t.done = 1 .. n /\ DOMAIN done = 1 .. n + 1
    BY <1>2, <1>8 DEF n
  <2>2. \A k \in 1 .. n + 1 : done[k].for \in Int
    <3>1. \A k \in 1 .. n + 1 : k = n + 1 \/ k \in 1 .. n
      BY <1>2
    <3>2. done[n + 1].for \in Int /\ \A k \in 1 .. n : done[k].for \in Int
      BY <1>2, <1>5, <1>6, <1>8
    <3> QED BY <3>1, <3>2
  <2>3. a \in Seq(Int) /\ Len(a) = n
    BY <1>2, <2>1
  <2>4. b \in Seq(Int) /\ Len(b) = n + 1
    <3>1. n + 1 \in Nat
      BY <1>2
    <3> QED BY <2>1, <2>2, <3>1
  <2>5. (\A k \in 1 .. n : b[k] = a[k]) /\ b[n + 1] = for
    BY <1>2, <1>6, <1>8, <2>1
  <2> HIDE DEF a, b
  <2>6. Total(b) = Total(a) + for
    <3>1. Len(b) = Len(a) + 1 /\ (\A k \in 1 .. Len(a) : b[k] = a[k])
      BY <2>3, <2>4, <2>5
    <3> QED BY <2>3, <2>4, <2>5, <3>1, TotalOfAppended
  <2>7. PausedIn(t.done) = Total(a) /\ PausedIn(done) = Total(b)
    BY DEF PausedIn, a, b
  <2> QED BY <1>3, <2>6, <2>7 DEF paused
<1>12. Ordered(done, t.origin, now)
  <2>1. ASSUME NEW k \in 1 .. n + 1
        PROVE  /\ done[k].for >= 0 /\ done[k].from + done[k].for <= now
               /\ done[k].from >= IF k = 1 THEN t.origin ELSE done[k - 1].from + done[k - 1].for
    <3>1. CASE k = n + 1
      <4>1. done[k].from = from /\ done[k].for = for
        BY <1>6, <1>8, <3>1
      <4>2. k = 1 => from >= t.origin
        <5>1. CASE n = 0
          <6>1. t.paused = t.at - from
            <7>1. PausedIn(t.done) = 0
              <8>1. [i \in DOMAIN t.done |-> t.done[i].for] = <<>>
                BY <1>2, <5>1 DEF n
              <8>2. Total(<<>>) = 0
                <9>1. \E g : Sums(<<>>, g, Len(<<>>)) /\ Total(<<>>) = g[Len(<<>>)]
                  BY TotalIs
                <9> QED BY <9>1 DEF Sums
              <8> QED BY <8>1, <8>2 DEF PausedIn
            <7> QED BY <1>2, <1>3, <7>1
          <6> QED BY <1>1, <1>2, <6>1
        <5> QED BY <1>2, <3>1, <5>1
      <4>3. k # 1 => from >= done[k - 1].from + done[k - 1].for
        <5> SUFFICES ASSUME k # 1 PROVE from >= done[k - 1].from + done[k - 1].for
          OBVIOUS
        <5>1. k - 1 = n /\ n \in 1 .. n /\ t.done # <<>>
          BY <1>2, <3>1 DEF n
        <5>2. done[k - 1] = t.done[n] /\ Last(t.done) = t.done[n]
          BY <1>8, <5>1 DEF Last, n
        <5> QED BY <1>3, <5>1, <5>2
      <4> QED BY <1>5, <1>2, <1>1, <4>1, <4>2, <4>3
    <3>2. CASE k # n + 1
      <4>1. k \in 1 .. n /\ (k # 1 => k - 1 \in 1 .. n)
        BY <1>2, <3>2
      <4>2. /\ t.done[k].for >= 0 /\ t.done[k].from + t.done[k].for <= t.at
            /\ t.done[k].from >= IF k = 1 THEN t.origin ELSE t.done[k - 1].from + t.done[k - 1].for
        BY <1>3, <4>1 DEF Ordered, n
      <4>3. done[k] = t.done[k] /\ (k # 1 => done[k - 1] = t.done[k - 1])
        BY <1>8, <4>1
      <4>4. t.done[k].from \in Nat /\ t.done[k].for \in Nat
        BY <1>2, <4>1
      <4>5. t.done[k].from + t.done[k].for <= now
        <5>1. now \in Nat /\ t.at \in Nat /\ t.at <= now
          BY <1>1, <1>2
        <5> QED BY <4>2, <4>4, <5>1
      <4> QED BY <4>2, <4>3, <4>5
    <3> QED BY <3>1, <3>2
  <2> QED BY <1>8, <2>1 DEF Ordered
<1>13. TimingOk(u)
  <2>1. n + 1 <= LabInterruptions
    BY <1>1, <1>2, LabAssumption
  <2>2. now >= t.origin
    BY <1>1, <1>2, <1>3
  <2> QED BY <1>8, <1>9, <1>10, <1>11, <1>12, <2>1, <2>2 DEF TimingOk
<1>14. Accrued(u, now) = played
  BY <1>1, <1>2, <1>4, <1>9 DEF Accrued
<1>15. u.play + u.paused <= u.at - u.origin
  BY <1>1, <1>2, <1>3, <1>9 DEF paused, for
<1> QED BY <1>1, <1>9, <1>10, <1>13, <1>14, <1>15 DEF LbTimed, u

\* A moment passes, which counts as play only if play is on.
LEMMA LbPasses ==
  ASSUME NEW t, NEW now, NEW played, LbTimed(t, now, played)
  PROVE  LbTimed(t, now + 1, played + (IF t.active THEN 1 ELSE 0)) /\ played \in Nat
<1>1. t \in LbTimings /\ now \in Nat /\ t.at <= now /\ Accrued(t, now) = played
  BY DEF LbTimed
<1>2. t.at \in Nat /\ t.play \in Nat /\ t.active \in BOOLEAN
  BY <1>1, LbTimes
<1>3. now + 1 \in Nat /\ t.at <= now + 1 /\ played \in Nat
  BY <1>1, <1>2 DEF Accrued
<1>4. Accrued(t, now + 1) = played + (IF t.active THEN 1 ELSE 0)
  BY <1>1, <1>2 DEF Accrued
<1> QED BY <1>3, <1>4 DEF LbTimed

\* A ledger without an open interruption can be closed at any moment.
LEMMA LbCloses ==
  ASSUME NEW t, NEW now, NEW played, LbTimed(t, now, played), ~IsOpen(t)
  PROVE  SnapshotOk(t, now)
<1>1. /\ t \in LbTimings /\ now \in Nat /\ t.at <= now /\ TimingOk(t)
      /\ t.play + t.paused <= t.at - t.origin
  BY DEF LbTimed
<1>2. /\ t.origin \in Nat /\ t.at \in Nat /\ t.play \in Nat /\ t.paused \in Nat
      /\ t.done \in Seq(LbPauses) /\ Len(t.done) \in Nat
      /\ \A k \in 1 .. Len(t.done) : t.done[k].from \in Nat /\ t.done[k].for \in Nat
  BY <1>1, LbTimes
<1>3. Ordered(t.done, t.origin, t.at) /\ t.paused = PausedIn(t.done)
  BY <1>1 DEF TimingOk
<1> DEFINE n == Len(t.done)
           moved == [k \in 1 .. n |-> [t.done[k] EXCEPT !.from = @ - t.origin]]
<1>4. Len(moved) = n /\ \A k \in 1 .. n : moved[k].from = t.done[k].from - t.origin /\ moved[k].for = t.done[k].for
  <2>1. \A p \in LbPauses, o \in Nat :
          [p EXCEPT !.from = @ - o].from = p.from - o /\ [p EXCEPT !.from = @ - o].for = p.for
    BY DEF LbPauses
  <2>2. \A k \in 1 .. n : t.done[k] \in LbPauses
    BY <1>2
  <2> HIDE DEF n
  <2>3. Len(moved) = n
    BY <1>2 DEF n
  <2> QED BY <1>2, <2>1, <2>2, <2>3
<1> HIDE DEF moved
<1>5. Ordered(moved, 0, now - t.origin)
  <2>1. ASSUME NEW k \in 1 .. n
        PROVE  /\ moved[k].for >= 0 /\ moved[k].from + moved[k].for <= now - t.origin
               /\ moved[k].from >= IF k = 1 THEN 0 ELSE moved[k - 1].from + moved[k - 1].for
    <3>1. k # 1 => k - 1 \in 1 .. n
      BY <1>2
    <3>2. /\ t.done[k].for >= 0 /\ t.done[k].from + t.done[k].for <= t.at
          /\ t.done[k].from >= IF k = 1 THEN t.origin ELSE t.done[k - 1].from + t.done[k - 1].for
      BY <1>3 DEF Ordered
    <3>3. /\ moved[k].from = t.done[k].from - t.origin /\ moved[k].for = t.done[k].for
          /\ t.done[k].from \in Nat /\ t.done[k].for \in Nat
      BY <1>2, <1>4
    <3>4. t.origin \in Nat /\ t.at \in Nat /\ t.at <= now /\ now \in Nat
      BY <1>1, <1>2
    <3>5. moved[k].for >= 0 /\ moved[k].from + moved[k].for <= now - t.origin
      BY <3>2, <3>3, <3>4
    <3>6. CASE k = 1
      BY <3>2, <3>3, <3>4, <3>5, <3>6
    <3>7. CASE k # 1
      <4>1. /\ moved[k - 1].from = t.done[k - 1].from - t.origin /\ moved[k - 1].for = t.done[k - 1].for
            /\ t.done[k - 1].from \in Nat /\ t.done[k - 1].for \in Nat
        BY <1>2, <1>4, <3>1, <3>7
      <4>2. t.done[k].from >= t.done[k - 1].from + t.done[k - 1].for
        BY <3>2, <3>7
      <4>3. moved[k].from >= moved[k - 1].from + moved[k - 1].for
        <5>1. \A a, b, c, o \in Nat : a >= b + c => a - o >= (b - o) + c
          OBVIOUS
        <5>2. t.done[k].from - t.origin >= (t.done[k - 1].from - t.origin) + t.done[k - 1].for
          BY <3>3, <3>4, <4>1, <4>2, <5>1
        <5> QED BY <3>3, <4>1, <5>2
      <4> QED BY <3>5, <3>7, <4>3
    <3> QED BY <3>6, <3>7
  <2> QED BY <1>4, <2>1 DEF Ordered
<1>6. Accrued(t, now) + t.paused <= now - t.origin
  <2>1. t.origin \in Nat /\ t.at \in Nat /\ t.play \in Nat /\ t.paused \in Nat /\ now \in Nat /\ t.at <= now
    BY <1>1, <1>2
  <2> QED BY <1>1, <2>1 DEF Accrued
<1> QED BY <1>1, <1>2, <1>3, <1>5, <1>6 DEF SnapshotOk, moved
-----------------------------------------------------------------------------
(* The record of a playtest                                                *)

\* What a record is made of.
LEMMA LbParts ==
  ASSUME NEW s \in LbSessions
  PROVE  /\ s.mode \in {"human", "test-driver"} /\ s.stage \in Nat /\ s.run \in LbRuns /\ s.ticks \in Nat
         /\ s.inputs \in Nat /\ s.pending \in Nat /\ s.frozen \in BOOLEAN
         /\ s.practice \in Seq(LbStages) /\ Len(s.practice) \in Nat
         /\ s.rounds \in Seq(LbRounds) /\ Len(s.rounds) \in Nat
         /\ \A k \in 1 .. Len(s.rounds) : s.rounds[k] \in LbRounds
<1>1. s.practice \in Seq(LbStages) /\ s.rounds \in Seq(LbRounds)
  BY DEF LbSessions
<1>2. Len(s.practice) \in Nat /\ Len(s.rounds) \in Nat /\ \A k \in 1 .. Len(s.rounds) : s.rounds[k] \in LbRounds
  BY <1>1
<1> QED BY <1>1, <1>2 DEF LbSessions

\* What a round is made of.
LEMMA LbRoundParts ==
  ASSUME NEW r \in LbRounds
  PROVE  /\ r.initial = FreshRun /\ r.stages \in Seq(LbStages) /\ Len(r.stages) \in Nat
         /\ DOMAIN r.stages = 1 .. Len(r.stages) /\ \A k \in 1 .. Len(r.stages) : r.stages[k] \in LbStages
         /\ r.pulses \in Seq(LbPulsed) /\ Len(r.pulses) \in Nat
<1>1. r.initial = FreshRun /\ r.stages \in Seq(LbStages) /\ r.pulses \in Seq(LbPulsed)
  BY DEF LbRounds
<1>2. /\ Len(r.stages) \in Nat /\ DOMAIN r.stages = 1 .. Len(r.stages)
      /\ \A k \in 1 .. Len(r.stages) : r.stages[k] \in LbStages
  BY <1>1
<1>3. Len(r.pulses) \in Nat
  BY <1>1
<1> QED BY <1>1, <1>2, <1>3

\* Stages in a row are a chain the boundary accepts, and not too many.
LEMMA LbChains ==
  ASSUME NEW mode, NEW stages \in Seq(LbStages), NEW first \in Nat, NEW last \in Nat,
         LbChain(mode, stages, first, last), LbOver(stages, last)
  PROVE  /\ Len(stages) \in 1 .. last - first + 1 /\ \A r \in Range(stages) : StageOk(mode, r, first, last)
         /\ \A r \in Range(stages) : r.observed = "engine" => r.ticks > 0
         /\ Chained(stages, first) /\ (Last(stages).status = "won" => Last(stages).stage = last)
<1> DEFINE n == Len(stages)
<1>1. n \in Nat /\ n > 0 /\ DOMAIN stages = 1 .. n
  BY DEF LbOver
<1> HIDE DEF n
<1>2. \A k \in 1 .. n :
         /\ StageOk(mode, stages[k], first, last) /\ stages[k].stage = first + k - 1
         /\ stages[k].inputs = stages[k].ticks /\ (stages[k].observed = "engine" => stages[k].ticks > 0)
         /\ stages[k].start = IF k = 1 THEN FreshRun ELSE [lives |-> stages[k - 1].lives, score |-> stages[k - 1].score]
         /\ k < n => stages[k].status = "won"
  BY DEF LbChain, n
<1>3. n \in 1 .. last - first + 1
  <2>1. n \in 1 .. n
    BY <1>1
  <2>2. stages[n].stage = first + n - 1 /\ stages[n].stage <= last
    <3>1. StageOk(mode, stages[n], first, last) /\ stages[n].stage = first + n - 1
      BY <1>2, <2>1
    <3>2. stages[n].stage \in first .. last
      BY <3>1 DEF StageOk
    <3> QED BY <3>1, <3>2
  <2> QED BY <1>1, <2>2
<1>4. \A r \in Range(stages) : StageOk(mode, r, first, last) /\ (r.observed = "engine" => r.ticks > 0)
  <2>1. ASSUME NEW r \in Range(stages)
        PROVE  StageOk(mode, r, first, last) /\ (r.observed = "engine" => r.ticks > 0)
    <3>1. PICK k \in 1 .. n : r = stages[k]
      BY <1>1, <2>1 DEF Range
    <3> QED BY <1>2, <3>1
  <2> QED BY <2>1
<1>5. Chained(stages, first)
  <2>1. \A k \in 1 .. n : stages[k].stage = first + k - 1 /\ stages[k].inputs = stages[k].ticks
    BY <1>2
  <2>2. stages[1].start = FreshRun
    <3>1. 1 \in 1 .. n
      BY <1>1
    <3> QED BY <1>2, <3>1
  <2>3. ASSUME NEW k \in 2 .. n
        PROVE  /\ stages[k - 1].status = "won"
               /\ stages[k].start = [lives |-> stages[k - 1].lives, score |-> stages[k - 1].score]
    <3>1. k \in 1 .. n /\ k - 1 \in 1 .. n /\ k - 1 < n /\ k # 1
      BY <1>1
    <3>2. stages[k - 1].status = "won"
      BY <1>2, <3>1
    <3>3. stages[k].start = [lives |-> stages[k - 1].lives, score |-> stages[k - 1].score]
      BY <1>2, <3>1
    <3> QED BY <3>2, <3>3
  <2> QED BY <2>1, <2>2, <2>3 DEF Chained, n
<1> QED BY <1>3, <1>4, <1>5 DEF LbOver, Last, n

\* A record that has reached the comparison is one its boundary accepts.
LEMMA LbAccepted ==
  ASSUME NEW s, LbRecord(s), s.phase = "comparison"
  PROVE  ArtifactOk(s) /\ Len(s.rounds) = 2
<1>1. s \in LbSessions /\ Len(s.rounds) = 2 /\ LbDone(s.mode, s.rounds[1]) /\ LbDone(s.mode, s.rounds[2])
      /\ LbPracticed(s)
  BY DEF LbRecord
<1>2. s.practice \in Seq(LbStages) /\ s.rounds[1] \in LbRounds /\ s.rounds[2] \in LbRounds
  BY <1>1, LbParts
<1>3. LabPractice \in Nat /\ LabFirst \in Nat /\ LabLast \in Nat /\ LabLast - LabFirst + 1 = LabLast - LabPractice
  BY LabAssumption DEF LabFirst
<1>4. PracticeOk(s) /\ \A r \in Range(s.practice) : r.observed = "engine" => r.ticks > 0
  <2>1. LbChain(s.mode, s.practice, 1, LabPractice) /\ LbOver(s.practice, LabPractice)
    BY <1>1 DEF LbPracticed
  <2>2. LabPractice - 1 + 1 = LabPractice
    BY <1>3
  <2>3. /\ Len(s.practice) \in 1 .. LabPractice - 1 + 1
        /\ \A r \in Range(s.practice) : StageOk(s.mode, r, 1, LabPractice)
        /\ \A r \in Range(s.practice) : r.observed = "engine" => r.ticks > 0
        /\ Chained(s.practice, 1) /\ (Last(s.practice).status = "won" => Last(s.practice).stage = LabPractice)
    BY <1>2, <1>3, <2>1, LbChains
  <2> QED BY <2>2, <2>3 DEF PracticeOk
<1>5. ASSUME NEW n \in 1 .. 2
      PROVE  RoundOk(s, n) /\ \A r \in Range(s.rounds[n].stages) : r.observed = "engine" => r.ticks > 0
  <2> DEFINE round == s.rounds[n]
  <2>1. LbDone(s.mode, round) /\ round \in LbRounds
    BY <1>1, <1>2, <1>5
  <2> HIDE DEF round
  <2>2. round.initial = FreshRun /\ round.stages \in Seq(LbStages)
    BY <2>1, LbRoundParts
  <2>3. LbChain(s.mode, round.stages, LabFirst, LabLast) /\ LbOver(round.stages, LabLast)
    BY <2>1 DEF LbDone
  <2>4. /\ Len(round.stages) \in 1 .. LabLast - LabFirst + 1
        /\ \A r \in Range(round.stages) : StageOk(s.mode, r, LabFirst, LabLast)
        /\ \A r \in Range(round.stages) : r.observed = "engine" => r.ticks > 0
        /\ Chained(round.stages, LabFirst)
        /\ (Last(round.stages).status = "won" => Last(round.stages).stage = LabLast)
    BY <1>3, <2>2, <2>3, LbChains
  <2>5. /\ Len(round.pulses) = Len(round.stages)
        /\ \A k \in 1 .. Len(round.stages) : PulseOk(round.pulses[k], round.stages[k])
        /\ round.exposure = Exposure(Last(round.stages).stage)
    BY <2>1 DEF LbDone, LbAnswered, Last
  <2> QED BY <1>3, <2>2, <2>4, <2>5 DEF RoundOk, round
<1>6. \A r \in Range(s.practice \o s.rounds[1].stages \o s.rounds[2].stages) :
        r.observed = "engine" => r.ticks > 0
  <2> DEFINE a == s.practice
             b == s.rounds[1].stages
             c == s.rounds[2].stages
  <2>1. a \in Seq(LbStages) /\ b \in Seq(LbStages) /\ c \in Seq(LbStages)
    BY <1>2, LbRoundParts
  <2>2. /\ \A r \in Range(a) : r.observed = "engine" => r.ticks > 0
        /\ \A r \in Range(b) : r.observed = "engine" => r.ticks > 0
        /\ \A r \in Range(c) : r.observed = "engine" => r.ticks > 0
    <3>1. 1 \in 1 .. 2 /\ 2 \in 1 .. 2
      OBVIOUS
    <3> QED BY <1>4, <1>5, <3>1
  <2> HIDE DEF a, b, c
  <2>3. Range(a \o b \o c) \subseteq Range(a) \cup Range(b) \cup Range(c)
    <3>1. ASSUME NEW x \in Seq(LbStages), NEW y \in Seq(LbStages)
          PROVE  Range(x \o y) \subseteq Range(x) \cup Range(y)
      <4>1. Len(x) \in Nat /\ Len(y) \in Nat /\ DOMAIN x = 1 .. Len(x) /\ DOMAIN y = 1 .. Len(y)
        OBVIOUS
      <4>2. DOMAIN (x \o y) = 1 .. Len(x) + Len(y)
        OBVIOUS
      <4>3. ASSUME NEW k \in 1 .. Len(x) + Len(y)
            PROVE  (x \o y)[k] \in Range(x) \cup Range(y)
        <5>1. CASE k <= Len(x)
          <6>1. (x \o y)[k] = x[k] /\ k \in 1 .. Len(x)
            BY <4>1, <5>1
          <6> QED BY <4>1, <6>1 DEF Range
        <5>2. CASE k > Len(x)
          <6>1. (x \o y)[k] = y[k - Len(x)] /\ k - Len(x) \in 1 .. Len(y)
            BY <4>1, <5>2
          <6> QED BY <4>1, <6>1 DEF Range
        <5> QED BY <4>1, <5>1, <5>2
      <4>4. \A k \in DOMAIN (x \o y) : (x \o y)[k] \in Range(x) \cup Range(y)
        BY <4>2, <4>3
      <4> QED BY <4>4 DEF Range
    <3>2. a \o b \in Seq(LbStages)
      BY <2>1
    <3>3. Range(a \o b \o c) \subseteq Range(a \o b) \cup Range(c)
      BY <2>1, <3>1, <3>2
    <3>4. Range(a \o b) \subseteq Range(a) \cup Range(b)
      BY <2>1, <3>1
    <3> QED BY <3>3, <3>4
  <2>4. \A r \in Range(a \o b \o c) : r.observed = "engine" => r.ticks > 0
    BY <2>2, <2>3
  <2> QED BY <2>4 DEF a, b, c
<1>7. RoundOk(s, 1) /\ RoundOk(s, 2)
  <2>1. 1 \in 1 .. 2 /\ 2 \in 1 .. 2
    OBVIOUS
  <2> QED BY <1>5, <2>1
<1> QED BY <1>1, <1>4, <1>6, <1>7 DEF ArtifactOk

\* A run that has just begun a stage.
LbFresh(s) == s.ticks = 0 /\ s.inputs = 0 /\ s.stage > 0 /\ s.run.lives > 0

\* What appending does.
LEMMA Appending ==
  ASSUME NEW A, NEW a \in Seq(A), NEW x \in A
  PROVE  /\ Append(a, x) \in Seq(A) /\ Len(Append(a, x)) = Len(a) + 1 /\ Append(a, x)[Len(a) + 1] = x
         /\ \A k \in 1 .. Len(a) : Append(a, x)[k] = a[k]
OBVIOUS

\* The record before it is consented to.
LEMMA LbNew ==
  ASSUME NEW mode \in {"human", "test-driver"}
  PROVE  LbRecord(LabNewSession(mode)) /\ LabNewSession(mode).phase = "welcome" /\ LabNewSession(mode).mode = mode
<1> DEFINE s == LabNewSession(mode)
<1>1. FreshRun \in LbRuns
  BY LabAssumption DEF FreshRun, LbRuns
<1>2. <<>> \in Seq(LbStages) /\ <<>> \in Seq(LbRounds) /\ Len(<<>>) = 0
  OBVIOUS
<1>3. s \in LbSessions
  BY <1>1, <1>2 DEF LbSessions, LabNewSession
<1>4. s.phase = "welcome" /\ s.practice = <<>> /\ s.rounds = <<>> /\ s.mode = mode
  BY DEF LabNewSession
<1> HIDE DEF s
<1> QED BY <1>2, <1>3, <1>4 DEF LbRecord, s

\* A stage is begun.
LEMMA LbStarts ==
  ASSUME NEW s \in LbSessions, NEW phase \in LabPlay, NEW stage \in Nat, stage > 0, NEW run \in LbRuns, run.lives > 0
  PROVE  LET u == StartStage(s, phase, stage, run)
         IN  /\ u \in LbSessions /\ u.phase = phase /\ u.stage = stage /\ u.run = run /\ u.mode = s.mode
             /\ u.practice = s.practice /\ u.rounds = s.rounds /\ LbFresh(u)
<1>1. /\ StartStage(s, phase, stage, run) \in LbSessions
      /\ StartStage(s, phase, stage, run).phase = phase /\ StartStage(s, phase, stage, run).stage = stage
      /\ StartStage(s, phase, stage, run).run = run /\ StartStage(s, phase, stage, run).mode = s.mode
      /\ StartStage(s, phase, stage, run).practice = s.practice
      /\ StartStage(s, phase, stage, run).rounds = s.rounds
      /\ StartStage(s, phase, stage, run).ticks = 0 /\ StartStage(s, phase, stage, run).inputs = 0
  BY DEF StartStage, LbSessions, LabPlay
<1> QED BY <1>1 DEF LbFresh

\* No stage is on.
LEMMA LbRests ==
  ASSUME NEW s \in LbSessions
  PROVE  LET u == Resting(s)
         IN  /\ u \in LbSessions /\ u.phase = s.phase /\ u.mode = s.mode /\ u.pending = 0
             /\ u.practice = s.practice /\ u.rounds = s.rounds
<1>1. FreshRun \in LbRuns
  BY LabAssumption DEF FreshRun, LbRuns
<1> QED BY <1>1 DEF Resting, LbSessions

\* A fresh run has lives.
LEMMA LbLives == FreshRun \in LbRuns /\ FreshRun.lives > 0
  BY LabAssumption DEF FreshRun, LbRuns

\* The run a row of stages goes on with has lives.
LEMMA LbGoing ==
  ASSUME NEW mode, NEW stages \in Seq(LbStages), NEW first, NEW last, NEW run,
         LbChain(mode, stages, first, last), LbGoesOn(stages, run)
  PROVE  run \in LbRuns /\ run.lives > 0
<1>1. CASE Len(stages) = 0
  BY <1>1, LbLives DEF LbGoesOn
<1>2. CASE Len(stages) # 0
  <2> DEFINE r == stages[Len(stages)]
  <2>1. Len(stages) \in 1 .. Len(stages)
    <3>1. Len(stages) \in Nat
      OBVIOUS
    <3> QED BY <1>2, <3>1
  <2>2. r \in LbStages /\ StageOk(mode, r, first, last)
    <3>1. r \in LbStages
      BY <2>1
    <3>2. \A k \in 1 .. Len(stages) : StageOk(mode, stages[k], first, last)
      BY DEF LbChain
    <3> QED BY <2>1, <3>1, <3>2
  <2>3. r.status = "won" /\ run = [lives |-> r.lives, score |-> r.score]
    BY <1>2 DEF LbGoesOn
  <2> HIDE DEF r
  <2>4. r.lives \in Nat /\ r.score \in Int /\ r.lives # 0
    BY <2>2, <2>3 DEF LbStages, StageOk
  <2> QED BY <2>3, <2>4 DEF LbRuns
<1> QED BY <1>1, <1>2

\* One more stage in the row.
LEMMA LbAppends ==
  ASSUME NEW mode, NEW stages \in Seq(LbStages), NEW first \in Nat, NEW last \in Nat, NEW run, NEW r \in LbStages,
         LbChain(mode, stages, first, last), LbGoesOn(stages, run), r.stage = first + Len(stages),
         StageOk(mode, r, first, last), r.inputs = r.ticks, r.observed = "engine" => r.ticks > 0, r.start = run
  PROVE  LET more == Append(stages, r)
         IN  /\ more \in Seq(LbStages) /\ Len(more) = Len(stages) + 1 /\ more[Len(more)] = r
             /\ \A k \in 1 .. Len(stages) : more[k] = stages[k]
             /\ LbChain(mode, more, first, last)
<1> DEFINE n == Len(stages)
           more == Append(stages, r)
<1>1. /\ n \in Nat /\ more \in Seq(LbStages) /\ Len(more) = n + 1 /\ more[n + 1] = r
      /\ \A k \in 1 .. n : more[k] = stages[k]
  OBVIOUS
<1>2. n = 0 => run = FreshRun
  BY DEF LbGoesOn
<1>3. n # 0 => stages[n].status = "won" /\ run = [lives |-> stages[n].lives, score |-> stages[n].score]
  BY DEF LbGoesOn
<1>4. \A k \in 1 .. n :
         /\ StageOk(mode, stages[k], first, last) /\ stages[k].stage = first + k - 1
         /\ stages[k].inputs = stages[k].ticks /\ (stages[k].observed = "engine" => stages[k].ticks > 0)
         /\ stages[k].start = IF k = 1 THEN FreshRun ELSE [lives |-> stages[k - 1].lives, score |-> stages[k - 1].score]
         /\ k < n => stages[k].status = "won"
  BY DEF LbChain
<1>5. r.stage = first + n
  OBVIOUS
<1> HIDE DEF n, more
<1>6. ASSUME NEW k \in 1 .. n + 1
      PROVE  /\ StageOk(mode, more[k], first, last) /\ more[k].stage = first + k - 1
             /\ more[k].inputs = more[k].ticks /\ (more[k].observed = "engine" => more[k].ticks > 0)
             /\ more[k].start = IF k = 1 THEN FreshRun ELSE [lives |-> more[k - 1].lives, score |-> more[k - 1].score]
             /\ k < n + 1 => more[k].status = "won"
  <2>1. CASE k = n + 1
    <3>1. more[k] = r /\ ~(k < n + 1)
      BY <1>1, <2>1
    <3>2. r.stage = first + k - 1
      BY <1>1, <1>5, <2>1
    <3>3. r.start = IF k = 1 THEN FreshRun ELSE [lives |-> more[k - 1].lives, score |-> more[k - 1].score]
      <4>1. CASE n = 0
        BY <1>2, <2>1, <4>1
      <4>2. CASE n # 0
        <5>1. k # 1 /\ k - 1 = n /\ more[k - 1] = stages[n]
          BY <1>1, <2>1, <4>2
        <5> QED BY <1>3, <4>2, <5>1
      <4> QED BY <4>1, <4>2
    <3> QED BY <3>1, <3>2, <3>3
  <2>2. CASE k # n + 1
    <3>1. k \in 1 .. n /\ more[k] = stages[k] /\ (k # 1 => k - 1 \in 1 .. n /\ more[k - 1] = stages[k - 1])
      BY <1>1, <2>2
    <3>2. /\ StageOk(mode, stages[k], first, last) /\ stages[k].stage = first + k - 1
          /\ stages[k].inputs = stages[k].ticks /\ (stages[k].observed = "engine" => stages[k].ticks > 0)
          /\ stages[k].start = IF k = 1 THEN FreshRun ELSE [lives |-> stages[k - 1].lives, score |-> stages[k - 1].score]
      BY <1>4, <3>1
    <3>3. stages[k].status = "won"
      <4>1. CASE k < n
        BY <1>4, <3>1, <4>1
      <4>2. CASE k = n
        BY <1>1, <1>3, <3>1, <4>2
      <4> QED BY <1>1, <3>1, <4>1, <4>2
    <3> QED BY <3>1, <3>2, <3>3
  <2> QED BY <2>1, <2>2
<1>7. LbChain(mode, more, first, last)
  BY <1>1, <1>6 DEF LbChain
<1> QED BY <1>1, <1>7 DEF n, more

\* Consent begins practice.
LEMMA LbConsents ==
  ASSUME NEW s, LbRecord(s), s.phase = "welcome"
  PROVE  LET u == Consent(s) IN LbRecord(u) /\ u.phase = "practice" /\ LbFresh(u) /\ u.mode = s.mode
<1> DEFINE u == Consent(s)
<1>1. s \in LbSessions /\ Len(s.practice) = 0 /\ Len(s.rounds) = 0
  BY DEF LbRecord
<1>2. 1 \in Nat /\ 1 > 0 /\ "practice" \in LabPlay
  BY DEF LabPlay
<1>3. /\ u \in LbSessions /\ u.phase = "practice" /\ u.stage = 1 /\ u.run = FreshRun /\ u.mode = s.mode
      /\ u.practice = s.practice /\ u.rounds = s.rounds /\ LbFresh(u)
  BY <1>1, <1>2, LbStarts, LbLives DEF Consent
<1> HIDE DEF u
<1>4. LbChain(u.mode, u.practice, 1, LabPractice) /\ LbGoesOn(u.practice, u.run)
  BY <1>1, <1>3 DEF LbChain, LbGoesOn
<1>5. 1 <= LabPractice /\ 1 = 0 + 1
  BY LabAssumption
<1> QED BY <1>1, <1>3, <1>4, <1>5 DEF LbRecord, u

\* A tick of the stage on play.
LEMMA LbTicks ==
  ASSUME NEW s, LbRecord(s), s.phase \in LabPlay
  PROVE  LET u == LabTick(s)
         IN  /\ LbRecord(u) /\ u.phase = s.phase /\ u.stage = s.stage /\ u.run = s.run /\ u.mode = s.mode
             /\ u.ticks = s.ticks + 1 /\ u.inputs = s.inputs + 1
<1> DEFINE u == LabTick(s)
           ticks == s.ticks + 1
           inputs == s.inputs + 1
<1>1. s \in LbSessions /\ ticks \in Nat /\ inputs \in Nat
  BY LbParts DEF LbRecord
<1>2. u = [s EXCEPT !.ticks = ticks, !.inputs = inputs]
  BY <1>1 DEF LabTick, LbSessions
<1> HIDE DEF u, ticks, inputs
<1>3. /\ u \in LbSessions /\ u.phase = s.phase /\ u.stage = s.stage /\ u.run = s.run /\ u.mode = s.mode
      /\ u.ticks = ticks /\ u.inputs = inputs /\ u.practice = s.practice /\ u.rounds = s.rounds
      /\ u.pending = s.pending
  BY <1>1, <1>2 DEF LbSessions
<1>4. LbRecord(u)
  BY <1>3 DEF LbRecord, LbPracticed
<1> QED BY <1>3, <1>4 DEF u, ticks, inputs

\* The second round begins.
LEMMA LbSeconds ==
  ASSUME NEW s, LbRecord(s), s.phase = "intermission"
  PROVE  LET u == BeginRoundTwo(s) IN LbRecord(u) /\ u.phase = "round2" /\ LbFresh(u) /\ u.mode = s.mode
<1> DEFINE rounds == Append(s.rounds, NewRound)
           told == [s EXCEPT !.rounds = rounds]
           u == BeginRoundTwo(s)
<1>1. s \in LbSessions /\ Len(s.rounds) = 1 /\ LbDone(s.mode, s.rounds[1]) /\ LbPracticed(s)
  BY DEF LbRecord
<1>2. NewRound \in LbRounds /\ NewRound.stages = <<>> /\ NewRound.pulses = <<>>
  <2>1. <<>> \in Seq(LbStages) /\ <<>> \in Seq(LbPulsed)
    OBVIOUS
  <2> QED BY <2>1 DEF NewRound, LbRounds
<1>3. s.rounds \in Seq(LbRounds)
  BY <1>1, LbParts
<1>4. rounds \in Seq(LbRounds) /\ Len(rounds) = 2 /\ rounds[1] = s.rounds[1] /\ rounds[2] = NewRound
  <2>1. /\ rounds \in Seq(LbRounds) /\ Len(rounds) = Len(s.rounds) + 1 /\ rounds[Len(s.rounds) + 1] = NewRound
        /\ \A k \in 1 .. Len(s.rounds) : rounds[k] = s.rounds[k]
    BY <1>2, <1>3, Appending
  <2> HIDE DEF rounds
  <2>2. 1 \in 1 .. Len(s.rounds) /\ Len(s.rounds) + 1 = 2
    BY <1>1
  <2> QED BY <2>1, <2>2
<1> HIDE DEF rounds
<1>5. /\ told \in LbSessions /\ told.rounds = rounds /\ told.mode = s.mode /\ told.practice = s.practice
  BY <1>1, <1>4 DEF LbSessions
<1>6. u = StartStage(told, "round2", LabFirst, FreshRun)
  BY <1>1 DEF BeginRoundTwo, rounds, LbSessions
<1> HIDE DEF told
<1>7. LabFirst \in Nat /\ LabFirst > 0 /\ LabFirst <= LabLast /\ "round2" \in LabPlay
  BY LabAssumption DEF LabFirst, LabPlay
<1>8. /\ u \in LbSessions /\ u.phase = "round2" /\ u.stage = LabFirst /\ u.run = FreshRun /\ u.mode = s.mode
      /\ u.practice = s.practice /\ u.rounds = rounds /\ LbFresh(u)
  BY <1>5, <1>6, <1>7, LbStarts, LbLives
<1> HIDE DEF u
<1>9. LbUnderway(u.mode, NewRound, u.stage, u.run)
  <2>1. Len(NewRound.stages) = 0 /\ Len(NewRound.pulses) = 0
    BY <1>2
  <2>2. LabFirst = LabFirst + 0
    BY <1>7
  <2> HIDE <1>2
  <2> QED BY <1>7, <1>8, <2>1, <2>2 DEF LbUnderway, LbChain, LbGoesOn, LbAnswered
<1>10. LbPracticed(u)
  BY <1>1, <1>8 DEF LbPracticed
<1> QED BY <1>1, <1>4, <1>8, <1>9, <1>10 DEF LbRecord, u

\* What was accepted is kept.
LEMMA LbKept ==
  ASSUME NEW s, LbRecord(s)
  PROVE  /\ s.phase = "comparison" => LbRecord(Freeze(s)) /\ Freeze(s).phase = "frozen" /\ Freeze(s).mode = s.mode
         /\ s.phase = "frozen" => LbRecord(Debrief(s)) /\ Debrief(s).phase = "debrief" /\ Debrief(s).mode = s.mode
<1>1. s \in LbSessions
  BY DEF LbRecord
<1>2. ASSUME NEW u \in LbSessions, NEW phase \in {"frozen", "debrief"}, u.phase = phase,
             s.phase \in {"comparison", "frozen"}, u.mode = s.mode, u.practice = s.practice, u.rounds = s.rounds
      PROVE  LbRecord(u)
  BY <1>2 DEF LbRecord, LbPracticed
<1>3. /\ Freeze(s) \in LbSessions /\ Freeze(s).phase = "frozen" /\ Freeze(s).mode = s.mode
      /\ Freeze(s).practice = s.practice /\ Freeze(s).rounds = s.rounds
  BY <1>1 DEF Freeze, LbSessions
<1>4. /\ Debrief(s) \in LbSessions /\ Debrief(s).phase = "debrief" /\ Debrief(s).mode = s.mode
      /\ Debrief(s).practice = s.practice /\ Debrief(s).rounds = s.rounds
  BY <1>1 DEF Debrief, LbSessions
<1> QED BY <1>2, <1>3, <1>4

\* The record of a stage that ended is one the boundary believes.
LEMMA LbRecords ==
  ASSUME NEW s \in LbSessions, NEW e, LbPlays(s, e), NEW result, NEW observed, LbEnds(s, e, result, observed),
         NEW first \in Nat, NEW last \in Nat, first <= s.stage, s.stage <= last
  PROVE  LET t == LbTerminal(s, e, result, observed)  r == StageRecord(s, t)
         IN  /\ r \in LbStages /\ r.stage = s.stage /\ r.status = result /\ r.start = s.run
             /\ r.inputs = r.ticks /\ (r.observed = "engine" => r.ticks > 0) /\ StageOk(s.mode, r, first, last)
             /\ t.status = result /\ t.lives = r.lives /\ t.score = r.score
<1> DEFINE t == LbTerminal(s, e, result, observed)
           r == StageRecord(s, t)
           delta == e.score - s.run.score
           lives == IF result = "lost" THEN 0 ELSE e.lives
<1>1. /\ s.mode \in {"human", "test-driver"} /\ s.stage \in Nat /\ s.run \in LbRuns /\ s.ticks \in Nat
      /\ s.inputs \in Nat
  BY LbParts
<1>2. s.run.lives \in Nat /\ s.run.score \in Int
  BY <1>1 DEF LbRuns
<1>3. /\ e.lives \in Nat /\ e.score \in Int /\ e.losses \in Nat /\ s.inputs = s.ticks
      /\ e.lives + e.losses = s.run.lives /\ e.score >= s.run.score
  BY DEF LbPlays, LbEngines
<1>4. /\ result \in {"won", "lost"} /\ observed \in {"engine", "synthetic"}
      /\ result = "won" => e.lives > 0
      /\ observed = "engine" => s.ticks > 0 /\ (result = "lost" => e.lives = 0)
      /\ s.mode = "human" => observed = "engine"
  BY DEF LbEnds
<1>5. delta \in Int /\ lives \in Nat /\ lives <= s.run.lives /\ (result = "lost" <=> lives = 0)
      /\ (observed = "engine" => s.run.lives - lives = e.losses) /\ e.score - s.run.score = delta
  BY <1>2, <1>3, <1>4
<1> HIDE DEF delta, lives
<1>6. t = [status |-> result, observed |-> observed, score |-> e.score, delta |-> delta, lives |-> lives,
           losses |-> e.losses]
  BY DEF LbTerminal, delta, lives
<1> HIDE DEF t
<1>7. r = [stage |-> s.stage, status |-> result, observed |-> observed, start |-> s.run, ticks |-> s.ticks,
           inputs |-> s.inputs, score |-> e.score, delta |-> delta, lives |-> lives, losses |-> e.losses]
  BY <1>6 DEF StageRecord
<1> HIDE DEF r
<1>8. r \in LbStages
  BY <1>1, <1>3, <1>4, <1>5, <1>7 DEF LbStages
<1>9. StageOk(s.mode, r, first, last)
  <2>1. r.stage \in first .. last /\ (s.mode = "human" => r.observed = "engine")
    BY <1>1, <1>4, <1>7
  <2>2. r.score >= r.start.score /\ r.score - r.start.score = r.delta
    BY <1>3, <1>5, <1>7
  <2>3. r.lives <= r.start.lives /\ (r.status = "lost" <=> r.lives = 0)
        /\ (r.observed = "engine" => r.start.lives - r.lives = r.losses)
    BY <1>5, <1>7
  <2> QED BY <2>1, <2>2, <2>3 DEF StageOk
<1> QED BY <1>3, <1>4, <1>6, <1>7, <1>8, <1>9 DEF t, r

\* A record after a stage ended: it goes on, or asks for the answers to it.
LbToldOf(s, u, result) ==
  /\ LbRecord(u) /\ u.mode = s.mode
  /\ \/ u.phase \in LabPlay /\ LbFresh(u)
     \/ /\ u.phase = "stage-pulse"
        /\ LET stages == u.rounds[u.pending].stages  last == stages[Len(stages)]
           IN  last.stage = s.stage /\ last.status = result

\* A stage of practice ends.
LEMMA LbPractices ==
  ASSUME NEW s, LbRecord(s), s.phase = "practice", NEW e, LbPlays(s, e), NEW result, NEW observed,
         LbEnds(s, e, result, observed)
  PROVE  LET t == LbTerminal(s, e, result, observed)
         IN  TerminalLegal(s, s.stage, t) /\ LbToldOf(s, StageTerminal(s, t), result)
<1> DEFINE t == LbTerminal(s, e, result, observed)
           r == StageRecord(s, t)
           more == Append(s.practice, r)
           told == [s EXCEPT !.practice = more]
           u == StageTerminal(s, t)
           run == [lives |-> t.lives, score |-> t.score]
<1>1. /\ s \in LbSessions /\ Len(s.rounds) = 0 /\ s.stage = Len(s.practice) + 1 /\ s.stage <= LabPractice
      /\ LbChain(s.mode, s.practice, 1, LabPractice) /\ LbGoesOn(s.practice, s.run)
  BY DEF LbRecord
<1>2. /\ s.practice \in Seq(LbStages) /\ Len(s.practice) \in Nat /\ s.stage \in Nat /\ s.rounds \in Seq(LbRounds)
      /\ LabPractice \in Nat /\ 1 \in Nat /\ 1 <= s.stage
  BY <1>1, LbParts, LabAssumption
<1>3. /\ r \in LbStages /\ r.stage = s.stage /\ r.status = result /\ r.start = s.run
      /\ r.inputs = r.ticks /\ (r.observed = "engine" => r.ticks > 0) /\ StageOk(s.mode, r, 1, LabPractice)
      /\ t.status = result /\ t.lives = r.lives /\ t.score = r.score
  BY <1>1, <1>2, LbRecords
<1>4. TerminalLegal(s, s.stage, t)
  BY <1>3 DEF TerminalLegal, LabPlay
<1>5. result \in {"won", "lost"}
  BY DEF LbEnds
<1>6. /\ u = IF result = "won" /\ s.stage < LabPractice
             THEN StartStage(told, "practice", s.stage + 1, run)
             ELSE StartStage([told EXCEPT !.rounds = <<NewRound>>], "round1", LabFirst, FreshRun)
  BY <1>3 DEF StageTerminal
<1> HIDE DEF t, r, u
<1>7. /\ more \in Seq(LbStages) /\ Len(more) = Len(s.practice) + 1 /\ more[Len(more)] = r
      /\ LbChain(s.mode, more, 1, LabPractice)
  <2>1. r.stage = 1 + Len(s.practice)
    BY <1>1, <1>2, <1>3
  <2> QED BY <1>1, <1>2, <1>3, <2>1, LbAppends
<1> HIDE DEF more
<1>8. told \in LbSessions /\ told.practice = more /\ told.mode = s.mode /\ told.rounds = s.rounds
  BY <1>1, <1>7 DEF LbSessions
<1> HIDE DEF told
<1>9. CASE result = "won" /\ s.stage < LabPractice
  <2>1. LbGoesOn(more, run)
    <3>1. Len(more) # 0
      BY <1>2, <1>7
    <3> QED BY <1>3, <1>7, <1>9, <3>1 DEF LbGoesOn
  <2>2. run \in LbRuns /\ run.lives > 0
    <3> HIDE DEF run
    <3> QED BY <1>7, <2>1, LbGoing
  <2> HIDE DEF run
  <2>3. s.stage + 1 \in Nat /\ s.stage + 1 > 0 /\ "practice" \in LabPlay
    BY <1>2 DEF LabPlay
  <2>4. u = StartStage(told, "practice", s.stage + 1, run)
    BY <1>6, <1>9
  <2>5. /\ u \in LbSessions /\ u.phase = "practice" /\ u.stage = s.stage + 1 /\ u.run = run /\ u.mode = s.mode
        /\ u.practice = more /\ u.rounds = s.rounds /\ LbFresh(u)
    BY <1>8, <2>2, <2>3, <2>4, LbStarts
  <2>6. LbRecord(u)
    <3>1. u.stage = Len(u.practice) + 1 /\ u.stage <= LabPractice
      BY <1>1, <1>2, <1>7, <1>9, <2>5
    <3> QED BY <1>1, <1>7, <2>1, <2>5, <3>1 DEF LbRecord
  <2> QED BY <1>4, <2>3, <2>5, <2>6 DEF LbToldOf, t, u
<1>10. CASE ~(result = "won" /\ s.stage < LabPractice)
  <2> DEFINE rounds == <<NewRound>>
             v == [told EXCEPT !.rounds = rounds]
  <2>1. NewRound \in LbRounds /\ Len(NewRound.stages) = 0 /\ Len(NewRound.pulses) = 0
    <3>1. <<>> \in Seq(LbStages) /\ <<>> \in Seq(LbPulsed) /\ Len(<<>>) = 0
      OBVIOUS
    <3> QED BY <3>1 DEF NewRound, LbRounds
  <2>2. rounds \in Seq(LbRounds) /\ Len(rounds) = 1 /\ rounds[1] = NewRound
    BY <2>1
  <2> HIDE DEF rounds
  <2>3. v \in LbSessions /\ v.practice = more /\ v.mode = s.mode /\ v.rounds = rounds
    BY <1>8, <2>2 DEF LbSessions
  <2>4. u = StartStage(v, "round1", LabFirst, FreshRun)
    BY <1>6, <1>10 DEF rounds
  <2> HIDE DEF v
  <2>5. LabFirst \in Nat /\ LabFirst > 0 /\ LabFirst <= LabLast /\ "round1" \in LabPlay /\ LabFirst = LabFirst + 0
    BY LabAssumption DEF LabFirst, LabPlay
  <2>6. /\ u \in LbSessions /\ u.phase = "round1" /\ u.stage = LabFirst /\ u.run = FreshRun /\ u.mode = s.mode
        /\ u.practice = more /\ u.rounds = rounds /\ LbFresh(u)
    BY <2>3, <2>4, <2>5, LbStarts, LbLives
  <2>7. LbUnderway(u.mode, NewRound, u.stage, u.run)
    BY <2>1, <2>5, <2>6 DEF LbUnderway, LbChain, LbGoesOn, LbAnswered
  <2>8. LbPracticed(u)
    <3>1. Len(more) > 0
      BY <1>2, <1>7
    <3>2. result = "won" => s.stage = LabPractice
      BY <1>1, <1>2, <1>10
    <3> QED BY <1>3, <1>7, <2>6, <3>1, <3>2 DEF LbPracticed, LbOver
  <2>9. LbRecord(u)
    BY <2>2, <2>6, <2>7, <2>8 DEF LbRecord
  <2> QED BY <1>4, <2>5, <2>6, <2>9 DEF LbToldOf, t, u
<1> QED BY <1>9, <1>10

\* A stage of a round ends.
LEMMA LbRoundEnds ==
  ASSUME NEW s, LbRecord(s), s.phase \in {"round1", "round2"}, NEW e, LbPlays(s, e), NEW result, NEW observed,
         LbEnds(s, e, result, observed)
  PROVE  LET t == LbTerminal(s, e, result, observed)
         IN  TerminalLegal(s, s.stage, t) /\ LbToldOf(s, StageTerminal(s, t), result)
<1> DEFINE t == LbTerminal(s, e, result, observed)
           n == IF s.phase = "round1" THEN 1 ELSE 2
           round == s.rounds[n]
           r == StageRecord(s, t)
           more == Append(round.stages, r)
           after == [round EXCEPT !.stages = more]
           rounds == [s.rounds EXCEPT ![n] = after]
           told == [s EXCEPT !.rounds = rounds]
           v == Resting(told)
           u == StageTerminal(s, t)
<1>1. /\ s \in LbSessions /\ n \in 1 .. 2 /\ Len(s.rounds) = n /\ LbUnderway(s.mode, round, s.stage, s.run)
      /\ LbPracticed(s) /\ (n = 2 => LbDone(s.mode, s.rounds[1]))
  <2>1. CASE s.phase = "round1"
    <3>1. n = 1
      BY <2>1
    <3>2. /\ s \in LbSessions /\ Len(s.rounds) = 1 /\ LbUnderway(s.mode, s.rounds[1], s.stage, s.run)
          /\ LbPracticed(s)
      BY <2>1 DEF LbRecord
    <3> HIDE DEF n
    <3> QED BY <3>1, <3>2
  <2>2. CASE s.phase = "round2"
    <3>1. n = 2
      BY <2>2
    <3>2. /\ s \in LbSessions /\ Len(s.rounds) = 2 /\ LbUnderway(s.mode, s.rounds[2], s.stage, s.run)
          /\ LbPracticed(s) /\ LbDone(s.mode, s.rounds[1])
      BY <2>2 DEF LbRecord
    <3> HIDE DEF n
    <3> QED BY <3>1, <3>2
  <2> QED BY <2>1, <2>2
<1>2. s.rounds \in Seq(LbRounds) /\ s.stage \in Nat /\ n \in 1 .. Len(s.rounds) /\ round \in LbRounds
  <2>1. s.rounds \in Seq(LbRounds) /\ s.stage \in Nat /\ \A k \in 1 .. Len(s.rounds) : s.rounds[k] \in LbRounds
    BY <1>1, LbParts
  <2>2. n \in 1 .. Len(s.rounds)
    BY <1>1
  <2> QED BY <2>1, <2>2
<1>3. /\ u = [Resting([s EXCEPT !.rounds[n].stages = Append(@, r)]) EXCEPT !.phase = "stage-pulse", !.pending = n]
      /\ TerminalLegal(s, s.stage, t) <=> StageOk(s.mode, r, LabFirst, LabLast)
  <2>1. s.phase # "practice" /\ s.phase \in LabPlay
    BY DEF LabPlay
  <2> QED BY <2>1 DEF StageTerminal, TerminalLegal
<1> HIDE DEF n
<1>4. [s EXCEPT !.rounds[n].stages = Append(@, r)] = told
  OBVIOUS
<1> HIDE DEF round
<1>5. /\ round.stages \in Seq(LbStages) /\ Len(round.stages) \in Nat /\ round.pulses \in Seq(LbPulsed)
      /\ Len(round.pulses) \in Nat
  BY <1>2, LbRoundParts
<1>6. /\ LbChain(s.mode, round.stages, LabFirst, LabLast) /\ LbGoesOn(round.stages, s.run)
      /\ Len(round.pulses) = Len(round.stages) /\ LbAnswered(round)
      /\ s.stage = LabFirst + Len(round.stages) /\ s.stage <= LabLast
  BY <1>1 DEF LbUnderway
<1>7. LabFirst \in Nat /\ LabLast \in Nat /\ LabFirst <= s.stage
  <2>1. LabFirst \in Nat /\ LabLast \in Nat
    BY LabAssumption DEF LabFirst
  <2> QED BY <1>5, <1>6, <2>1
<1>8. /\ r \in LbStages /\ r.stage = s.stage /\ r.status = result /\ r.start = s.run
      /\ r.inputs = r.ticks /\ (r.observed = "engine" => r.ticks > 0) /\ StageOk(s.mode, r, LabFirst, LabLast)
  BY <1>1, <1>6, <1>7, LbRecords
<1> HIDE DEF t, r, u
<1>9. /\ more \in Seq(LbStages) /\ Len(more) = Len(round.stages) + 1 /\ more[Len(more)] = r
      /\ \A k \in 1 .. Len(round.stages) : more[k] = round.stages[k]
      /\ LbChain(s.mode, more, LabFirst, LabLast)
  BY <1>5, <1>6, <1>7, <1>8, LbAppends
<1> HIDE DEF more
<1>10. /\ after \in LbRounds /\ after.stages = more /\ after.pulses = round.pulses
  BY <1>2, <1>9 DEF LbRounds
<1> HIDE DEF after
<1>11. /\ rounds \in Seq(LbRounds) /\ Len(rounds) = n /\ rounds[n] = after
       /\ (n = 2 => rounds[1] = s.rounds[1])
  <2>1. rounds \in Seq(LbRounds) /\ Len(rounds) = Len(s.rounds) /\ rounds[n] = after
    BY <1>2, <1>10
  <2>2. n = 2 => rounds[1] = s.rounds[1]
    BY <1>2
  <2> QED BY <1>1, <2>1, <2>2
<1> HIDE DEF rounds
<1>12. told \in LbSessions /\ told.rounds = rounds /\ told.mode = s.mode /\ told.practice = s.practice
  BY <1>1, <1>11 DEF LbSessions
<1> HIDE DEF told
<1>13. v \in LbSessions /\ v.mode = s.mode /\ v.practice = s.practice /\ v.rounds = rounds
  BY <1>12, LbRests
<1> HIDE DEF v
<1>14. u = [v EXCEPT !.phase = "stage-pulse", !.pending = n]
  BY <1>3, <1>4 DEF v
<1>15. /\ u \in LbSessions /\ u.phase = "stage-pulse" /\ u.pending = n /\ u.mode = s.mode
       /\ u.practice = s.practice /\ u.rounds = rounds
  <2>1. n \in Nat
    BY <1>1
  <2> QED BY <1>13, <1>14, <2>1 DEF LbSessions
<1>16. LbAwaits(u.mode, after)
  <2>1. Len(after.stages) > 0 /\ Len(after.pulses) = Len(after.stages) - 1
    BY <1>5, <1>6, <1>9, <1>10
  <2>2. LbAnswered(after)
    BY <1>6, <1>9, <1>10 DEF LbAnswered
  <2> QED BY <1>9, <1>10, <1>15, <2>1, <2>2 DEF LbAwaits
<1>17. LbRecord(u)
  BY <1>1, <1>11, <1>15, <1>16 DEF LbRecord, LbPracticed
<1>18. LbToldOf(s, u, result)
  BY <1>8, <1>9, <1>10, <1>11, <1>15, <1>17 DEF LbToldOf
<1> QED BY <1>3, <1>8, <1>18 DEF u, t

\* The answers to a stage are told, and the round goes on or is over.
LEMMA LbPulses ==
  ASSUME NEW s, LbRecord(s), s.phase = "stage-pulse", NEW p,
         LET stages == s.rounds[s.pending].stages  last == stages[Len(stages)]
         IN  p = [stage |-> last.stage, status |-> last.status]
  PROVE  LET u == Pulse(s, s.pending, p)
         IN  /\ PulseLegal(s, s.pending, p) /\ LbRecord(u) /\ u.mode = s.mode
             /\ (u.phase \in LabPlay /\ LbFresh(u)) \/ u.phase \in {"intermission", "comparison"}
<1> DEFINE n == s.pending
           round == s.rounds[n]
           last == round.stages[Len(round.stages)]
           more == Append(round.pulses, p)
           after == [round EXCEPT !.pulses = more]
           rounds == [s.rounds EXCEPT ![n] = after]
           told == [s EXCEPT !.rounds = rounds]
           u == Pulse(s, n, p)
<1>1. /\ s \in LbSessions /\ n \in 1 .. 2 /\ Len(s.rounds) = n /\ LbAwaits(s.mode, round)
      /\ LbPracticed(s) /\ (n = 2 => LbDone(s.mode, s.rounds[1]))
  BY DEF LbRecord
<1>2. s.rounds \in Seq(LbRounds) /\ n \in 1 .. Len(s.rounds) /\ round \in LbRounds
  <2>1. s.rounds \in Seq(LbRounds) /\ \A k \in 1 .. Len(s.rounds) : s.rounds[k] \in LbRounds
    BY <1>1, LbParts
  <2>2. n \in 1 .. Len(s.rounds)
    BY <1>1
  <2> QED BY <2>1, <2>2
<1>3. p = [stage |-> last.stage, status |-> last.status]
  OBVIOUS
<1>4. [s EXCEPT !.rounds[n].pulses = Append(@, p)] = told
  OBVIOUS
<1>5. /\ u = IF last.status = "won" /\ last.stage < LabLast
             THEN StartStage(told, IF n = 1 THEN "round1" ELSE "round2", last.stage + 1,
                             [lives |-> last.lives, score |-> last.score])
             ELSE FinishRound(told, n)
      /\ PulseLegal(s, n, p) <=> Len(round.pulses) = Len(round.stages) - 1 /\ PulseOk(p, last)
  BY <1>4 DEF Pulse, PulseLegal, Last
<1> HIDE DEF n, round, u
<1>6. /\ round.stages \in Seq(LbStages) /\ Len(round.stages) \in Nat /\ round.pulses \in Seq(LbPulsed)
      /\ Len(round.pulses) \in Nat
  BY <1>2, LbRoundParts
<1>7. /\ LbChain(s.mode, round.stages, LabFirst, LabLast) /\ Len(round.stages) > 0
      /\ Len(round.pulses) = Len(round.stages) - 1 /\ LbAnswered(round)
  BY <1>1 DEF LbAwaits
<1>8. last \in LbStages /\ StageOk(s.mode, last, LabFirst, LabLast) /\ last.stage = LabFirst + Len(round.stages) - 1
  <2>1. Len(round.stages) \in 1 .. Len(round.stages)
    BY <1>6, <1>7
  <2>2. last \in LbStages
    BY <1>6, <2>1
  <2> QED BY <1>7, <2>1, <2>2 DEF LbChain
<1> HIDE DEF last
<1>9. last.stage \in Nat /\ last.status \in {"won", "lost"} /\ last.stage <= LabLast /\ last.stage >= LabFirst
  <2>1. last.stage \in LabFirst .. LabLast
    BY <1>8 DEF StageOk
  <2>2. LabFirst \in Nat /\ LabLast \in Nat
    BY LabAssumption DEF LabFirst
  <2> QED BY <1>8, <2>1, <2>2 DEF LbStages
<1>10. p \in LbPulsed /\ PulseOk(p, last)
  BY <1>3, <1>9 DEF LbPulsed, PulseOk
<1>11. /\ more \in Seq(LbPulsed) /\ Len(more) = Len(round.stages) /\ more[Len(round.stages)] = p
       /\ \A k \in 1 .. Len(round.pulses) : more[k] = round.pulses[k]
  <2>1. /\ more \in Seq(LbPulsed) /\ Len(more) = Len(round.pulses) + 1 /\ more[Len(round.pulses) + 1] = p
        /\ \A k \in 1 .. Len(round.pulses) : more[k] = round.pulses[k]
    <3> DEFINE pulses == round.pulses
    <3>1. pulses \in Seq(LbPulsed) /\ p \in LbPulsed
      BY <1>6, <1>10
    <3>2. more = Append(pulses, p)
      OBVIOUS
    <3> HIDE DEF pulses, more
    <3>3. /\ more \in Seq(LbPulsed) /\ Len(more) = Len(pulses) + 1 /\ more[Len(pulses) + 1] = p
          /\ \A k \in 1 .. Len(pulses) : more[k] = pulses[k]
      BY <3>1, <3>2, Appending
    <3> QED BY <3>3 DEF pulses
  <2>2. Len(round.pulses) + 1 = Len(round.stages)
    BY <1>6, <1>7
  <2> HIDE DEF more
  <2> QED BY <2>1, <2>2
<1> HIDE DEF more
<1>12. after \in LbRounds /\ after.stages = round.stages /\ after.pulses = more
  BY <1>2, <1>11 DEF LbRounds
<1> HIDE DEF after
<1>13. LbAnswered(after)
  <2>1. ASSUME NEW k \in 1 .. Len(more) PROVE PulseOk(more[k], round.stages[k])
    <3>1. CASE k = Len(round.stages)
      BY <1>10, <1>11, <3>1 DEF last
    <3>2. CASE k # Len(round.stages)
      <4>1. k \in 1 .. Len(round.pulses)
        BY <1>6, <1>7, <1>11, <3>2
      <4> QED BY <1>7, <1>11, <4>1 DEF LbAnswered
    <3> QED BY <3>1, <3>2
  <2> QED BY <1>12, <2>1 DEF LbAnswered
<1>14. rounds \in Seq(LbRounds) /\ Len(rounds) = n /\ rounds[n] = after /\ (n = 2 => rounds[1] = s.rounds[1])
  <2>1. rounds \in Seq(LbRounds) /\ Len(rounds) = Len(s.rounds) /\ rounds[n] = after
    BY <1>2, <1>12
  <2>2. n = 2 => rounds[1] = s.rounds[1]
    BY <1>2
  <2> QED BY <1>1, <2>1, <2>2
<1> HIDE DEF rounds
<1>15. told \in LbSessions /\ told.rounds = rounds /\ told.mode = s.mode /\ told.practice = s.practice
  BY <1>1, <1>14 DEF LbSessions
<1> HIDE DEF told
<1>16. PulseLegal(s, n, p)
  BY <1>5, <1>7, <1>10
<1>17. CASE last.status = "won" /\ last.stage < LabLast
  <2> DEFINE run == [lives |-> last.lives, score |-> last.score]
             phase == IF n = 1 THEN "round1" ELSE "round2"
             stage == last.stage + 1
  <2>1. LbGoesOn(after.stages, run)
    BY <1>7, <1>12, <1>17 DEF LbGoesOn, last
  <2>2. run \in LbRuns /\ run.lives > 0
    <3> HIDE DEF run
    <3> QED BY <1>6, <1>7, <1>12, <2>1, LbGoing
  <2>3. u = StartStage(told, phase, stage, run)
    BY <1>5, <1>17
  <2>4. phase \in LabPlay /\ stage \in Nat /\ stage > 0 /\ stage <= LabLast /\ stage = LabFirst + Len(after.stages)
    <3>1. LabFirst \in Nat /\ LabLast \in Nat
      BY LabAssumption DEF LabFirst
    <3> QED BY <1>6, <1>8, <1>9, <1>12, <1>17, <3>1 DEF LabPlay
  <2> HIDE DEF run, stage
  <2>5. /\ u \in LbSessions /\ u.phase = phase /\ u.stage = stage /\ u.run = run /\ u.mode = s.mode
        /\ u.practice = s.practice /\ u.rounds = rounds /\ LbFresh(u)
    BY <1>15, <2>2, <2>3, <2>4, LbStarts
  <2>6. LbUnderway(u.mode, after, u.stage, u.run)
    BY <1>7, <1>11, <1>12, <1>13, <2>1, <2>4, <2>5 DEF LbUnderway
  <2>7. LbRecord(u)
    <3>1. LbPracticed(u)
      BY <1>1, <2>5 DEF LbPracticed
    <3>2. CASE n = 1
      BY <1>14, <2>5, <2>6, <3>1, <3>2 DEF LbRecord
    <3>3. CASE n = 2
      BY <1>1, <1>14, <2>5, <2>6, <3>1, <3>3 DEF LbRecord
    <3> QED BY <1>1, <3>2, <3>3
  <2> QED BY <1>16, <2>4, <2>5, <2>7 DEF u, n
<1>18. CASE ~(last.status = "won" /\ last.stage < LabLast)
  <2> DEFINE done == [after EXCEPT !.exposure = Exposure(last.stage)]
             all == [rounds EXCEPT ![n] = done]
             w == [told EXCEPT !.rounds = all]
             v == Resting(w)
             phase == IF n = 1 THEN "intermission" ELSE "comparison"
  <2>1. Exposure(last.stage) \in {"none", "partial", "full"}
    BY DEF Exposure
  <2>2. done \in LbRounds /\ done.stages = round.stages /\ done.pulses = more /\ done.exposure = Exposure(last.stage)
    BY <1>12, <2>1 DEF LbRounds
  <2>3. [told EXCEPT !.rounds[n].exposure = Exposure(Last(told.rounds[n].stages).stage)] = w
    BY <1>12, <1>14, <1>15 DEF Last, last
  <2>4. u = [v EXCEPT !.phase = phase]
    BY <1>5, <1>18, <2>3 DEF FinishRound
  <2> HIDE DEF done
  <2>5. all \in Seq(LbRounds) /\ Len(all) = n /\ all[n] = done /\ (n = 2 => all[1] = s.rounds[1])
    <3>1. n \in 1 .. Len(rounds)
      BY <1>2, <1>14, <1>1
    <3> QED BY <1>14, <2>2, <3>1
  <2> HIDE DEF all
  <2>6. w \in LbSessions /\ w.rounds = all /\ w.mode = s.mode /\ w.practice = s.practice
    BY <1>15, <2>5 DEF LbSessions
  <2> HIDE DEF w
  <2>7. v \in LbSessions /\ v.rounds = all /\ v.mode = s.mode /\ v.practice = s.practice
    BY <2>6, LbRests
  <2> HIDE DEF v
  <2>8. u \in LbSessions /\ u.phase = phase /\ u.rounds = all /\ u.mode = s.mode /\ u.practice = s.practice
    BY <2>4, <2>7 DEF LbSessions
  <2>9. LbDone(u.mode, done)
    <3>1. LbOver(round.stages, LabLast)
      <4>1. LabLast \in Nat
        BY LabAssumption
      <4>2. last.status = "won" => last.stage = LabLast
        BY <1>9, <1>18, <4>1
      <4> QED BY <1>7, <4>2 DEF LbOver, last
    <3>2. LbAnswered(done)
      BY <1>12, <1>13, <2>2 DEF LbAnswered
    <3> QED BY <1>7, <1>11, <2>2, <2>8, <3>1, <3>2 DEF LbDone, last
  <2>10. LbRecord(u)
    <3>1. LbPracticed(u)
      BY <1>1, <2>8 DEF LbPracticed
    <3>2. CASE n = 1
      BY <2>5, <2>8, <2>9, <3>1, <3>2 DEF LbRecord
    <3>3. CASE n = 2
      BY <1>1, <2>5, <2>8, <2>9, <3>1, <3>3 DEF LbRecord
    <3> QED BY <1>1, <3>2, <3>3
  <2> QED BY <1>16, <2>8, <2>10 DEF u, n
<1> QED BY <1>17, <1>18

-----------------------------------------------------------------------------
(* The page: what it noted stays noted                                     *)

\* A page u after a page l: faults that were noted still are.
LbLater(l, u) == LbShape(u) /\ l.threw \subseteq u.threw /\ (l.passed => u.passed)

\* One thing after another.
LEMMA LbLaterStill ==
  ASSUME NEW l, NEW u, NEW v, LbLater(l, u), LbLater(u, v)
  PROVE  LbLater(l, v)
BY DEF LbLater

\* Fields a surface sets keep what was noted.
LEMMA LbSets ==
  ASSUME NEW l, LbShape(l)
  PROVE  /\ LbLater(l, l) /\ LbLater(l, Welcome(l)) /\ LbLater(l, ShowStageCard(l)) /\ LbLater(l, Intermission(l))
         /\ LbLater(l, ShowStagePulse(l)) /\ LbLater(l, RoundExperience(l))
         /\ \A what : LbLater(l, Throws(l, what))
BY DEF LbLater, LbShape, LbFields, LbActions, Welcome, ShowStageCard, Intermission, ShowStagePulse, RoundExperience,
       Throws

\* So do the fields of the record, of the ledger and of the engine.
LEMMA LbWrites ==
  ASSUME NEW l, LbShape(l), NEW x
  PROVE  /\ LbLater(l, [l EXCEPT !.session = x]) /\ LbLater(l, [l EXCEPT !.timing = x])
         /\ LbLater(l, [l EXCEPT !.engine = x]) /\ LbLater(l, [l EXCEPT !.terminal = x])
         /\ LbLater(l, [l EXCEPT !.pulse = x]) /\ LbLater(l, [l EXCEPT !.timer = x])
         /\ LbLater(l, [l EXCEPT !.surface = x]) /\ LbLater(l, [l EXCEPT !.prior = x])
BY DEF LbLater, LbShape, LbFields

\* A stage is put on play.
LEMMA LbBeginsLater ==
  ASSUME NEW l, LbShape(l)
  PROVE  LbLater(l, BeginCurrentEngine(l))
<1> DEFINE u == [l EXCEPT !.engine = LabNewEngine(l.session.run), !.terminal = NoTerminal]
<1>1. LbLater(l, u)
  BY DEF LbLater, LbShape, LbFields
<1>2. LbShape(u)
  BY <1>1 DEF LbLater
<1> HIDE DEF u
<1>3. LbLater(u, ShowStageCard(u))
  BY <1>2, LbSets
<1> QED BY <1>1, <1>3, LbLaterStill DEF BeginCurrentEngine, u

\* A pause.
LEMMA LbPausesLater ==
  ASSUME NEW l, LbShape(l), NEW w
  PROVE  LbLater(l, PauseLab(l, w))
<1>1. CASE l.surface = "stopped"
  BY <1>1, LbSets DEF PauseLab
<1>2. CASE l.surface = "paused"
  BY <1>2, LbWrites DEF PauseLab
<1>3. CASE l.surface \notin {"stopped", "paused"} /\ ~PauseLegal(l.timing)
  <2> DEFINE u == [l EXCEPT !.timer = 0]
  <2>1. LbLater(l, u) /\ LbShape(u)
    BY LbWrites DEF LbLater
  <2>2. PauseLab(l, w) = Throws(u, "full")
    BY <1>3 DEF PauseLab
  <2> HIDE DEF u
  <2>3. LbLater(u, Throws(u, "full"))
    BY <2>1, LbSets
  <2> QED BY <2>1, <2>2, <2>3, LbLaterStill
<1>4. CASE l.surface \notin {"stopped", "paused"} /\ PauseLegal(l.timing)
  <2> DEFINE timing == Pause(l.timing, w.now)
             prior == IF l.surface = "countdown" THEN "stage-card" ELSE l.surface
  <2>1. PauseLab(l, w) = [l EXCEPT !.timer = 0, !.timing = timing, !.surface = "paused", !.prior = prior]
    BY <1>4 DEF PauseLab
  <2> HIDE DEF timing, prior
  <2> QED BY <2>1 DEF LbLater, LbShape, LbFields
<1> QED BY <1>1, <1>2, <1>3, <1>4

\* Play.
LEMMA LbPlaysLater ==
  ASSUME NEW l, LbShape(l), NEW w
  PROVE  LbLater(l, EnterPlaying(l, w)) /\ LbLater(l, BeginCountdown(l, w))
<1> DEFINE on == SetActive(l.timing, w.now, TRUE)
           off == SetActive(l.timing, w.now, FALSE)
<1>1. LbLater(l, Throws([l EXCEPT !.timer = 0, !.surface = "playing"], "interrupted"))
  BY DEF LbLater, LbShape, LbFields, Throws
<1>2. LbLater(l, Throws([l EXCEPT !.timer = 0], "interrupted"))
  BY DEF LbLater, LbShape, LbFields, Throws
<1>3. LbLater(l, [l EXCEPT !.timer = 0, !.surface = "playing", !.timing = on])
  <2> HIDE DEF on
  <2> QED BY DEF LbLater, LbShape, LbFields
<1>4. LbLater(l, [l EXCEPT !.timing = off, !.surface = "countdown", !.action = "none", !.timer = 4])
  <2> HIDE DEF off
  <2> QED BY DEF LbLater, LbShape, LbFields, LbActions
<1>5. LbLater(l, PauseLab(l, w)) /\ LbLater(l, l)
  BY LbPausesLater, LbSets
<1>6. LbLater(l, EnterPlaying(l, w))
  BY <1>1, <1>3, <1>5 DEF EnterPlaying
<1>7. LbLater(l, BeginCountdown(l, w))
  BY <1>2, <1>4, <1>5 DEF BeginCountdown
<1> QED BY <1>6, <1>7

\* The end of a stage.
LEMMA LbEndsLater ==
  ASSUME NEW l, LbShape(l), NEW w, NEW result, NEW observed
  PROVE  LbLater(l, Ended(l, w, result, observed))
<1> DEFINE timing == SetActive(l.timing, w.now, FALSE)
           terminal == [status |-> result, observed |-> observed, score |-> l.engine.score,
                        delta |-> l.engine.score - l.session.run.score,
                        lives |-> IF result = "lost" THEN 0 ELSE l.engine.lives, losses |-> l.engine.losses]
           u == [l EXCEPT !.timing = timing, !.surface = "terminal", !.action = "commitTerminal", !.terminal = terminal]
<1>1. LbLater(l, l) /\ LbLater(l, Throws(l, "interrupted"))
  BY LbSets
<1>2. Ended(l, w, result, observed) \in {l, Throws(l, "interrupted"), u}
  BY DEF Ended
<1>3. \A x, y : LbLater(l, [l EXCEPT !.timing = x, !.surface = "terminal", !.action = "commitTerminal", !.terminal = y])
  BY DEF LbLater, LbShape, LbFields, LbActions
<1>4. LbLater(l, u)
  BY <1>3
<1> HIDE DEF u
<1> QED BY <1>1, <1>2, <1>4

\* What the action a surface offers does.
LEMMA LbActsLater ==
  ASSUME NEW l, LbShape(l), NEW w
  PROVE  /\ LbLater(l, CommitTerminal(l)) /\ LbLater(l, BeginSecond(l)) /\ LbLater(l, BeginPractice(l))
         /\ l.action # "none" => LbLater(l, Acted(l, w))
<1>1. LbLater(l, l) /\ LbLater(l, Throws(l, "refused"))
  BY LbSets
<1>2. ASSUME NEW s PROVE LbLater(l, BeginCurrentEngine([l EXCEPT !.session = s]))
  <2> DEFINE u == [l EXCEPT !.session = s]
  <2>1. LbLater(l, u) /\ LbShape(u)
    BY LbWrites DEF LbLater
  <2> HIDE DEF u
  <2>2. LbLater(u, BeginCurrentEngine(u))
    BY <2>1, LbBeginsLater
  <2>3. LbLater(l, BeginCurrentEngine(u))
    BY <2>1, <2>2, LbLaterStill
  <2> QED BY <2>3 DEF u
<1>3. LbLater(l, BeginSecond(l)) /\ LbLater(l, BeginPractice(l))
  BY <1>1, <1>2 DEF BeginSecond, BeginPractice
<1>4. LbLater(l, CommitTerminal(l))
  <2> DEFINE session == StageTerminal(l.session, l.terminal)
             pulse == [stage |-> l.session.stage, status |-> l.terminal.status]
             u == [l EXCEPT !.session = session, !.terminal = NoTerminal]
             v == [u EXCEPT !.pulse = pulse]
  <2>1. CommitTerminal(l) \in {l, Throws(l, "refused"), BeginCurrentEngine(u), ShowStagePulse(v)}
    BY DEF CommitTerminal
  <2> HIDE DEF session, pulse
  <2>2. LbLater(l, u) /\ LbShape(u)
    BY DEF LbLater, LbShape, LbFields
  <2> HIDE DEF u
  <2>3. LbLater(u, v) /\ LbShape(v)
    BY <2>2, LbWrites DEF LbLater
  <2> HIDE DEF v
  <2>4. LbLater(l, BeginCurrentEngine(u)) /\ LbLater(l, ShowStagePulse(v))
    BY <2>2, <2>3, LbBeginsLater, LbSets, LbLaterStill
  <2> QED BY <1>1, <2>1, <2>4
<1>5. l.action # "none" => LbLater(l, Acted(l, w))
  <2>1. l.action \in LbActions
    BY DEF LbShape
  <2> QED BY <1>3, <1>4, <2>1, LbPlaysLater DEF Acted, LbActions
<1> QED BY <1>3, <1>4, <1>5

\* The end of a pause.
LEMMA LbResumesLater ==
  ASSUME NEW l, LbShape(l), NEW w
  PROVE  LbLater(l, Resumed(l, w))
<1> DEFINE timing == Resume(l.timing, w.now, l.prior = "playing")
           on == [l EXCEPT !.timing = timing]
           done == l.terminal
           again == [on EXCEPT !.terminal = NoTerminal, !.surface = "playing"]
           back == [on EXCEPT !.surface = l.prior, !.action = "none"]
<1>1. Resumed(l, w) \in {l, on, EnterPlaying(on, w), Welcome(on), ShowStageCard(on),
                         Ended(again, w, done.status, done.observed), Intermission(on), Throws(on, "refused"),
                         ShowStagePulse(on), RoundExperience(on), back}
  BY DEF Resumed
<1> HIDE DEF timing
<1>2. LbLater(l, l) /\ LbLater(l, on) /\ LbShape(on)
  BY LbSets, LbWrites DEF LbLater
<1> HIDE DEF on, done
<1>3. LbLater(on, again) /\ LbShape(again) /\ LbLater(on, back)
  BY <1>2 DEF LbLater, LbShape, LbFields, LbActions
<1> HIDE DEF again, back
<1>4. LbLater(again, Ended(again, w, done.status, done.observed))
  BY <1>3, LbEndsLater
<1>5. /\ LbLater(on, Welcome(on)) /\ LbLater(on, ShowStageCard(on)) /\ LbLater(on, Intermission(on))
      /\ LbLater(on, Throws(on, "refused")) /\ LbLater(on, ShowStagePulse(on)) /\ LbLater(on, RoundExperience(on))
      /\ LbLater(on, EnterPlaying(on, w)) /\ LbLater(on, Ended(again, w, done.status, done.observed))
  BY <1>2, <1>3, <1>4, LbSets, LbPlaysLater, LbLaterStill
<1> QED BY <1>1, <1>2, <1>3, <1>5, LbLaterStill

-----------------------------------------------------------------------------
(* The page: what each thing it does makes of it                           *)

\* What is shown but for the timer, and for whether play is seen.
LbNear(l, w, played) ==
  /\ l.threw = {} /\ LbTimed(l.timing, w.now, played) /\ LbRecord(l.session) /\ LbPage(l)
  /\ l.surface = "paused" <=> IsOpen(l.timing)
  /\ l.timing.active <=> l.surface = "playing"
  /\ l.surface = "stopped" => l.timer = 0

\* A stage card.
LEMMA LbCards ==
  ASSUME NEW l, LbShape(l), NEW w, NEW played, l.threw = {}, LbTimed(l.timing, w.now, played), ~IsOpen(l.timing),
         l.timing.active = FALSE, LbRecord(l.session), l.session.phase \in LabPlay, LbPlays(l.session, l.engine),
         l.engine.lives > 0, l.terminal = NoTerminal, l.prior \in LbPriors
  PROVE  LbGood(ShowStageCard(l), w, played) /\ ShowStageCard(l).surface = "stage-card"
<1> DEFINE u == ShowStageCard(l)
<1>1. /\ u.threw = l.threw /\ u.timing = l.timing /\ u.session = l.session /\ u.engine = l.engine
      /\ u.surface = "stage-card" /\ u.action = "beginCountdown" /\ u.timer = 0 /\ u.terminal = l.terminal
      /\ u.prior = l.prior
  BY DEF LbShape, LbFields, ShowStageCard
<1> HIDE DEF u
<1>2. LbFace(u) = "stage-card"
  BY <1>1 DEF LbFace
<1>3. LbPage(u)
  BY <1>1, <1>2 DEF LbPage, LbPhases, LbOnStage, LbSurfaces, LbPriors
<1>4. LbShows(u, w)
  BY <1>1 DEF LbShows
<1> QED BY <1>1, <1>3, <1>4 DEF LbGood, u

\* A stage is put on play.
LEMMA LbBegun ==
  ASSUME NEW l, LbShape(l), NEW w, NEW played, l.threw = {}, LbTimed(l.timing, w.now, played), ~IsOpen(l.timing),
         l.timing.active = FALSE, LbRecord(l.session), l.session.phase \in LabPlay, LbFresh(l.session),
         l.prior \in LbPriors
  PROVE  LbGood(BeginCurrentEngine(l), w, played)
<1> DEFINE engine == LabNewEngine(l.session.run)
           u == [l EXCEPT !.engine = engine, !.terminal = NoTerminal]
<1>1. l.session.run \in LbRuns
  BY LbParts DEF LbRecord
<1>2. LbPlays(l.session, engine) /\ engine.lives > 0
  <2>1. l.session.run.lives \in Nat /\ l.session.run.score \in Int /\ l.session.run.lives > 0
    BY <1>1 DEF LbRuns, LbFresh
  <2>2. engine = [tick |-> 0, lives |-> l.session.run.lives, score |-> l.session.run.score, losses |-> 0]
    BY DEF LabNewEngine
  <2> HIDE DEF engine
  <2>3. engine \in LbEngines
    BY <2>1, <2>2 DEF LbEngines
  <2> QED BY <2>1, <2>2, <2>3 DEF LbPlays, LbFresh
<1>3. BeginCurrentEngine(l) = ShowStageCard(u)
  BY DEF BeginCurrentEngine
<1> HIDE DEF engine
<1>4. /\ u.threw = l.threw /\ u.timing = l.timing /\ u.session = l.session /\ u.engine = engine
      /\ u.terminal = NoTerminal /\ u.prior = l.prior /\ LbShape(u)
  BY DEF LbShape, LbFields
<1> HIDE DEF u
<1>5. LbGood(ShowStageCard(u), w, played)
  BY <1>2, <1>4, LbCards
<1> QED BY <1>3, <1>5

\* A pause.
LEMMA LbPaused ==
  ASSUME NEW l, LbShape(l), NEW w, NEW played, LbNear(l, w, played), "full" \notin PauseLab(l, w).threw
  PROVE  LbGood(PauseLab(l, w), w, played)
<1>1. /\ l.threw = {} /\ LbTimed(l.timing, w.now, played) /\ LbRecord(l.session) /\ LbPage(l)
      /\ l.surface = "paused" <=> IsOpen(l.timing)
      /\ l.timing.active <=> l.surface = "playing"
      /\ l.surface = "stopped" => l.timer = 0
  BY DEF LbNear
<1>2. CASE l.surface = "stopped"
  <2>1. LbShows(l, w)
    BY <1>1, <1>2 DEF LbShows
  <2> QED BY <1>1, <1>2, <2>1 DEF LbGood, PauseLab
<1>3. CASE l.surface = "paused"
  <2> DEFINE u == [l EXCEPT !.timer = 0]
  <2>1. /\ u.threw = l.threw /\ u.timing = l.timing /\ u.session = l.session /\ u.engine = l.engine
        /\ u.surface = l.surface /\ u.action = l.action /\ u.timer = 0 /\ u.terminal = l.terminal
        /\ u.prior = l.prior /\ u.pulse = l.pulse
    BY DEF LbShape, LbFields
  <2>2. PauseLab(l, w) = u
    BY <1>3 DEF PauseLab
  <2> HIDE DEF u
  <2>3. LbFace(u) = LbFace(l)
    BY <2>1 DEF LbFace
  <2>4. LbPage(u)
    BY <1>1, <2>1, <2>3 DEF LbPage
  <2>5. LbShows(u, w)
    BY <1>1, <1>3, <2>1 DEF LbShows
  <2> QED BY <1>1, <2>1, <2>2, <2>4, <2>5 DEF LbGood
<1>4. CASE l.surface \notin {"stopped", "paused"} /\ ~PauseLegal(l.timing)
  <2> DEFINE u == [l EXCEPT !.timer = 0]
  <2>1. PauseLab(l, w) = Throws(u, "full")
    BY <1>4 DEF PauseLab
  <2>2. DOMAIN u = LbFields
    BY DEF LbShape
  <2> HIDE DEF u
  <2>3. "full" \in Throws(u, "full").threw
    BY <2>2 DEF Throws, LbFields
  <2> QED BY <2>1, <2>3
<1>5. CASE l.surface \notin {"stopped", "paused"} /\ PauseLegal(l.timing)
  <2> DEFINE timing == Pause(l.timing, w.now)
             prior == IF l.surface = "countdown" THEN "stage-card" ELSE l.surface
             u == [l EXCEPT !.timer = 0, !.timing = timing, !.surface = "paused", !.prior = prior]
  <2>1. PauseLab(l, w) = u
    BY <1>5 DEF PauseLab
  <2>2. LbTimed(timing, w.now, played) /\ IsOpen(timing) /\ ~timing.active
    BY <1>1, <1>5, LbInterrupted
  <2>3. /\ prior \in LbPriors /\ (prior \in LbOnStage <=> LbFace(l) \in LbOnStage)
        /\ LbPhases(prior) = LbPhases(LbFace(l)) /\ LbFace(l) # "stopped"
        /\ \A face \in {"terminal", "stage-pulse", "intermission", "welcome"} : prior = face <=> LbFace(l) = face
    <3>1. LbFace(l) = l.surface /\ l.surface \in LbSurfaces
      BY <1>1, <1>5 DEF LbFace, LbPage
    <3> QED BY <1>5, <3>1 DEF LbSurfaces, LbPriors, LbOnStage, LbPhases
  <2> HIDE DEF timing, prior
  <2>4. /\ u.threw = l.threw /\ u.timing = timing /\ u.session = l.session /\ u.engine = l.engine
        /\ u.surface = "paused" /\ u.action = l.action /\ u.timer = 0 /\ u.terminal = l.terminal
        /\ u.prior = prior /\ u.pulse = l.pulse
    BY DEF LbShape, LbFields
  <2> HIDE DEF u
  <2>5. LbFace(u) = prior
    BY <2>4 DEF LbFace
  <2>6. LbPage(u)
    BY <1>1, <2>3, <2>4, <2>5 DEF LbPage, LbSurfaces
  <2>7. LbShows(u, w)
    BY <2>2, <2>4 DEF LbShows
  <2> QED BY <1>1, <2>1, <2>2, <2>4, <2>6, <2>7 DEF LbGood
<1> QED BY <1>2, <1>3, <1>4, <1>5

\* Play, once it is seen.
LEMMA LbPlaying ==
  ASSUME NEW l, LbShape(l), NEW w, NEW played, l.threw = {}, LbTimed(l.timing, w.now, played), ~IsOpen(l.timing),
         LbRecord(l.session), LbPage(l), LbFace(l) \in LbOnStage, Fit(w)
  PROVE  LbGood(EnterPlaying(l, w), w, played)
<1> DEFINE timing == SetActive(l.timing, w.now, TRUE)
           u == [l EXCEPT !.timer = 0, !.surface = "playing", !.timing = timing]
<1>1. EnterPlaying(l, w) = u
  BY DEF EnterPlaying, SetActiveLegal
<1>2. LbTimed(timing, w.now, played) /\ ~IsOpen(timing) /\ timing.active = TRUE
  BY LbActs
<1> HIDE DEF timing
<1>3. /\ u.threw = l.threw /\ u.timing = timing /\ u.session = l.session /\ u.engine = l.engine
      /\ u.surface = "playing" /\ u.action = l.action /\ u.timer = 0 /\ u.terminal = l.terminal
      /\ u.prior = l.prior /\ u.pulse = l.pulse
  BY DEF LbShape, LbFields
<1> HIDE DEF u
<1>4. LbFace(u) = "playing"
  BY <1>3 DEF LbFace
<1>5. LbPage(u)
  BY <1>3, <1>4 DEF LbPage, LbPhases, LbOnStage, LbSurfaces, LbPriors
<1>6. LbShows(u, w)
  BY <1>2, <1>3 DEF LbShows
<1> QED BY <1>1, <1>2, <1>3, <1>5, <1>6 DEF LbGood

\* The countdown begins.
LEMMA LbCounting ==
  ASSUME NEW l, LbShape(l), NEW w, NEW played, LbGood(l, w, played)
  PROVE  LbGood(BeginCountdown(l, w), w, played)
<1>1. CASE l.surface # "stage-card"
  BY <1>1 DEF BeginCountdown
<1>2. CASE l.surface = "stage-card"
  <2> DEFINE timing == SetActive(l.timing, w.now, FALSE)
             u == [l EXCEPT !.timing = timing, !.surface = "countdown", !.action = "none", !.timer = 4]
  <2>1. l.threw = {} /\ LbTimed(l.timing, w.now, played) /\ ~IsOpen(l.timing) /\ LbRecord(l.session) /\ LbPage(l)
    BY <1>2 DEF LbGood, LbShows
  <2>2. BeginCountdown(l, w) = u
    BY <1>2, <2>1 DEF BeginCountdown, SetActiveLegal
  <2>3. LbTimed(timing, w.now, played) /\ ~IsOpen(timing) /\ timing.active = FALSE
    BY <2>1, LbActs
  <2> HIDE DEF timing
  <2>4. /\ u.threw = l.threw /\ u.timing = timing /\ u.session = l.session /\ u.engine = l.engine
        /\ u.surface = "countdown" /\ u.action = "none" /\ u.timer = 4 /\ u.terminal = l.terminal
        /\ u.prior = l.prior /\ u.pulse = l.pulse
    BY DEF LbShape, LbFields
  <2> HIDE DEF u
  <2>5. LbFace(u) = "countdown" /\ LbFace(l) = "stage-card"
    BY <1>2, <2>4 DEF LbFace
  <2>6. LbPage(u)
    BY <2>1, <2>4, <2>5 DEF LbPage, LbPhases, LbOnStage, LbSurfaces, LbPriors
  <2>7. LbShows(u, w)
    BY <2>3, <2>4 DEF LbShows
  <2> QED BY <2>1, <2>2, <2>3, <2>4, <2>6, <2>7 DEF LbGood
<1> QED BY <1>1, <1>2

\* The end of a stage.
LEMMA LbEnding ==
  ASSUME NEW l, LbShape(l), NEW w, NEW played, NEW result, NEW observed, l.threw = {},
         LbTimed(l.timing, w.now, played), ~IsOpen(l.timing), LbRecord(l.session), l.session.phase \in LabPlay,
         LbPlays(l.session, l.engine), LbEnds(l.session, l.engine, result, observed), l.surface = "playing",
         l.terminal = NoTerminal, l.prior \in LbPriors, l.timer = 0
  PROVE  LbGood(Ended(l, w, result, observed), w, played)
<1> DEFINE timing == SetActive(l.timing, w.now, FALSE)
           terminal == LbTerminal(l.session, l.engine, result, observed)
           u == [l EXCEPT !.timing = timing, !.surface = "terminal", !.action = "commitTerminal", !.terminal = terminal]
<1>1. Ended(l, w, result, observed) = u
  BY DEF Ended, SetActiveLegal, LbTerminal
<1>2. LbTimed(timing, w.now, played) /\ ~IsOpen(timing) /\ timing.active = FALSE
  BY LbActs
<1> HIDE DEF timing, terminal
<1>3. /\ u.threw = l.threw /\ u.timing = timing /\ u.session = l.session /\ u.engine = l.engine
      /\ u.surface = "terminal" /\ u.action = "commitTerminal" /\ u.timer = 0 /\ u.terminal = terminal
      /\ u.prior = l.prior /\ u.pulse = l.pulse
  BY DEF LbShape, LbFields
<1> HIDE DEF u
<1>4. LbFace(u) = "terminal"
  BY <1>3 DEF LbFace
<1>5. \E a \in {"won", "lost"}, b \in {"engine", "synthetic"} :
        LbEnds(u.session, u.engine, a, b) /\ u.terminal = LbTerminal(u.session, u.engine, a, b)
  BY <1>3 DEF LbEnds, terminal
<1>6. LbPage(u)
  BY <1>3, <1>4, <1>5 DEF LbPage, LbPhases, LbOnStage, LbSurfaces, LbPriors
<1>7. LbShows(u, w)
  BY <1>2, <1>3 DEF LbShows
<1> QED BY <1>1, <1>2, <1>3, <1>6, <1>7 DEF LbGood

\* What ended is told to the record, which goes on or asks for the answers.
LEMMA LbCommits ==
  ASSUME NEW l, LbShape(l), NEW w, NEW played, LbGood(l, w, played), LbFace(l) = "terminal"
  PROVE  /\ CommitTerminal(l).surface # "paused"
         /\ l.surface # "paused" => LbGood(CommitTerminal(l), w, played)
<1> DEFINE s == l.session
           t == l.terminal
           session == StageTerminal(s, t)
           pulse == [stage |-> s.stage, status |-> t.status]
           u == [l EXCEPT !.session = session, !.terminal = NoTerminal]
           v == [u EXCEPT !.pulse = pulse]
           z == CommitTerminal(l)
<1>1. /\ l.threw = {} /\ LbTimed(l.timing, w.now, played) /\ LbRecord(s) /\ LbPage(l) /\ LbShows(l, w)
  BY DEF LbGood
<1>2. s.phase \in LabPlay /\ LbPlays(s, l.engine) /\ l.prior \in LbPriors /\ l.surface \in LbSurfaces
  BY <1>1 DEF LbPage, LbPhases, LbOnStage
<1>3. PICK result \in {"won", "lost"}, observed \in {"engine", "synthetic"} :
        LbEnds(s, l.engine, result, observed) /\ t = LbTerminal(s, l.engine, result, observed)
  BY <1>1 DEF LbPage
<1>4. t # NoTerminal /\ t.status = result /\ s.stage # 0
  <2>1. t.status = result
    BY <1>3 DEF LbTerminal
  <2>2. NoTerminal.status = "none"
    BY DEF NoTerminal
  <2>3. s.stage > 0 /\ s.stage \in Nat
    BY <1>1, <1>2, LbParts DEF LbPlays, LbRecord
  <2> QED BY <2>1, <2>2, <2>3
<1>5. TerminalLegal(s, s.stage, t) /\ LbToldOf(s, session, result)
  <2>1. CASE s.phase = "practice"
    BY <1>1, <1>2, <1>3, <2>1, LbPractices
  <2>2. CASE s.phase \in {"round1", "round2"}
    BY <1>1, <1>2, <1>3, <2>2, LbRoundEnds
  <2> QED BY <1>2, <2>1, <2>2 DEF LabPlay
<1> HIDE DEF session
<1>6. /\ u.threw = l.threw /\ u.timing = l.timing /\ u.session = session /\ u.engine = l.engine
      /\ u.surface = l.surface /\ u.action = l.action /\ u.timer = l.timer /\ u.terminal = NoTerminal
      /\ u.prior = l.prior /\ u.pulse = l.pulse /\ LbShape(u)
  BY DEF LbShape, LbFields
<1>7. z = IF session.phase \in LabPlay THEN BeginCurrentEngine(u) ELSE ShowStagePulse(v)
  BY <1>4, <1>5, <1>6 DEF CommitTerminal, session
<1> HIDE DEF u, t, pulse, z
<1>8. /\ v.threw = l.threw /\ v.timing = l.timing /\ v.session = session /\ v.engine = l.engine
      /\ v.surface = l.surface /\ v.action = l.action /\ v.timer = l.timer /\ v.terminal = NoTerminal
      /\ v.prior = l.prior /\ v.pulse = pulse /\ LbShape(v)
  BY <1>6 DEF LbShape, LbFields
<1> HIDE DEF v
<1>9. LbRecord(session)
  BY <1>5 DEF LbToldOf
<1>10. CASE session.phase \in LabPlay
  <2>1. z = BeginCurrentEngine(u) /\ LbFresh(session)
    BY <1>5, <1>7, <1>10 DEF LbToldOf, LabPlay
  <2>2. z.surface = "stage-card"
    <3>1. \A x : LbShape(x) => BeginCurrentEngine(x).surface = "stage-card"
      BY DEF LbShape, LbFields, BeginCurrentEngine, ShowStageCard
    <3> QED BY <1>6, <2>1, <3>1
  <2>3. l.surface # "paused" => LbGood(z, w, played)
    <3> SUFFICES ASSUME l.surface # "paused" PROVE LbGood(z, w, played)
      OBVIOUS
    <3>1. l.surface = "terminal"
      BY DEF LbFace
    <3>2. ~IsOpen(l.timing) /\ l.timing.active = FALSE
      <4>1. l.timing.active \in BOOLEAN
        BY <1>1 DEF LbTimed, LbTimings
      <4> QED BY <1>1, <3>1, <4>1 DEF LbShows
    <3> QED BY <1>1, <1>2, <1>6, <1>9, <1>10, <2>1, <3>2, LbBegun
  <2> QED BY <2>2, <2>3 DEF z
<1>11. CASE session.phase \notin LabPlay
  <2>1. /\ session.phase = "stage-pulse"
        /\ LET stages == session.rounds[session.pending].stages  last == stages[Len(stages)]
           IN  pulse = [stage |-> last.stage, status |-> last.status]
    BY <1>4, <1>5, <1>11 DEF LbToldOf, pulse
  <2>2. z = ShowStagePulse(v)
    BY <1>7, <1>11
  <2>3. /\ z.threw = l.threw /\ z.timing = l.timing /\ z.session = session
        /\ z.surface = "stage-pulse" /\ z.action = "none" /\ z.timer = l.timer
        /\ z.prior = l.prior /\ z.pulse = pulse
    BY <1>8, <2>2 DEF LbShape, LbFields, ShowStagePulse
  <2>4. LbFace(z) = "stage-pulse"
    BY <2>3 DEF LbFace
  <2>5. l.timer \in Nat
    BY <1>1 DEF LbPage
  <2>6. LbPage(z)
    BY <1>2, <1>11, <2>1, <2>3, <2>4, <2>5 DEF LbPage, LbPhases, LbOnStage, LbSurfaces, LbPriors
  <2>7. l.surface # "paused" => LbShows(z, w)
    <3> SUFFICES ASSUME l.surface # "paused" PROVE LbShows(z, w)
      OBVIOUS
    <3>1. l.surface = "terminal"
      BY DEF LbFace
    <3> QED BY <1>1, <2>3, <3>1 DEF LbShows
  <2> QED BY <1>1, <1>9, <2>3, <2>6, <2>7 DEF LbGood, z
<1> QED BY <1>10, <1>11

\* The second round, or practice, begins.
LEMMA LbBegins ==
  ASSUME NEW l, LbShape(l), NEW w, NEW played, LbGood(l, w, played)
  PROVE  /\ LbFace(l) = "intermission" =>
              BeginSecond(l).surface # "paused" /\ (l.surface # "paused" => LbGood(BeginSecond(l), w, played))
         /\ LbFace(l) = "welcome" =>
              BeginPractice(l).surface # "paused" /\ (l.surface # "paused" => LbGood(BeginPractice(l), w, played))
<1>1. /\ l.threw = {} /\ LbTimed(l.timing, w.now, played) /\ LbRecord(l.session) /\ LbPage(l) /\ LbShows(l, w)
  BY DEF LbGood
<1>2. ASSUME NEW s, LbRecord(s), s.phase \in LabPlay, LbFresh(s), LbFace(l) \in {"intermission", "welcome"}
      PROVE  LET z == BeginCurrentEngine([l EXCEPT !.session = s])
             IN  z.surface # "paused" /\ (l.surface # "paused" => LbGood(z, w, played))
  <2> DEFINE u == [l EXCEPT !.session = s]
             z == BeginCurrentEngine(u)
  <2>1. /\ u.threw = l.threw /\ u.timing = l.timing /\ u.session = s /\ u.prior = l.prior /\ LbShape(u)
    BY DEF LbShape, LbFields
  <2>2. l.prior \in LbPriors
    BY <1>1 DEF LbPage
  <2> HIDE DEF u
  <2>3. z.surface = "stage-card"
    <3>1. \A x : LbShape(x) => BeginCurrentEngine(x).surface = "stage-card"
      BY DEF LbShape, LbFields, BeginCurrentEngine, ShowStageCard
    <3> QED BY <2>1, <3>1
  <2>4. ASSUME l.surface # "paused" PROVE LbGood(z, w, played)
    <3>1. l.surface \in {"intermission", "welcome"}
      BY <1>2, <2>4 DEF LbFace
    <3>2. l.timing.active \in BOOLEAN
      BY <1>1 DEF LbTimed, LbTimings
    <3>3. ~IsOpen(l.timing) /\ l.timing.active = FALSE
      BY <1>1, <3>1, <3>2 DEF LbShows
    <3> QED BY <1>1, <1>2, <2>1, <2>2, <3>3, LbBegun
  <2> HIDE DEF z
  <2>5. z.surface # "paused" /\ (l.surface # "paused" => LbGood(z, w, played))
    BY <2>3, <2>4
  <2> QED BY <2>5 DEF z, u
<1>3. ASSUME LbFace(l) = "intermission"
      PROVE  BeginSecond(l).surface # "paused" /\ (l.surface # "paused" => LbGood(BeginSecond(l), w, played))
  <2>1. l.session.phase = "intermission"
    BY <1>1, <1>3 DEF LbPage, LbPhases, LbOnStage
  <2> DEFINE s == BeginRoundTwo(l.session)
  <2>2. LbRecord(s) /\ s.phase \in LabPlay /\ LbFresh(s)
    BY <1>1, <2>1, LbSeconds DEF LabPlay
  <2>3. BeginSecond(l) = BeginCurrentEngine([l EXCEPT !.session = s])
    BY <2>1 DEF BeginSecond, RoundTwoLegal
  <2> HIDE DEF s
  <2> QED BY <1>2, <1>3, <2>2, <2>3
<1>4. ASSUME LbFace(l) = "welcome"
      PROVE  BeginPractice(l).surface # "paused" /\ (l.surface # "paused" => LbGood(BeginPractice(l), w, played))
  <2>1. l.session.phase = "welcome"
    BY <1>1, <1>4 DEF LbPage, LbPhases, LbOnStage
  <2> DEFINE s == Consent(l.session)
  <2>2. LbRecord(s) /\ s.phase \in LabPlay /\ LbFresh(s)
    BY <1>1, <2>1, LbConsents DEF LabPlay
  <2>3. BeginPractice(l) = BeginCurrentEngine([l EXCEPT !.session = s])
    BY <2>1 DEF BeginPractice, ConsentLegal
  <2> HIDE DEF s
  <2> QED BY <1>2, <1>4, <2>2, <2>3
<1> QED BY <1>3, <1>4

\* The surface that was left is shown again.
LEMMA LbShownAgain ==
  ASSUME NEW l, NEW u, NEW w, NEW played, LbGood(l, w, played), l.surface = "paused",
         l.prior \notin {"playing", "stopped"},
         u.threw = l.threw, LbTimed(u.timing, w.now, played), ~IsOpen(u.timing), ~u.timing.active,
         u.session = l.session, u.engine = l.engine, u.surface = l.prior, u.prior \in LbPriors,
         u.action \in {"none", "beginCountdown", "beginRoundTwo", "startTestPractice"},
         u.action = "beginRoundTwo" => l.prior = "intermission",
         u.action = "startTestPractice" => l.prior = "welcome",
         u.timer = 0, u.terminal = l.terminal, u.pulse = l.pulse
  PROVE  LbGood(u, w, played)
<1>1. l.threw = {} /\ LbRecord(l.session) /\ LbPage(l)
  BY DEF LbGood
<1>2. l.prior \in LbPriors
  BY <1>1 DEF LbPage
<1>3. LbFace(l) = l.prior /\ LbFace(u) = l.prior
  BY <1>2 DEF LbFace, LbPriors
<1>4. LbPage(u)
  BY <1>1, <1>2, <1>3 DEF LbPage, LbSurfaces
<1>5. LbShows(u, w)
  BY <1>2 DEF LbShows, LbPriors
<1> QED BY <1>1, <1>4, <1>5 DEF LbGood

\* The end of a pause.
LEMMA LbResuming ==
  ASSUME NEW l, LbShape(l), NEW w, NEW played, LbGood(l, w, played)
  PROVE  LbGood(Resumed(l, w), w, played)
<1>1. CASE l.surface # "paused" \/ ~Fit(w)
  BY <1>1 DEF Resumed
<1>2. CASE l.surface = "paused" /\ Fit(w)
  <2> DEFINE timing == Resume(l.timing, w.now, l.prior = "playing")
             on == [l EXCEPT !.timing = timing]
             done == l.terminal
             again == [on EXCEPT !.terminal = NoTerminal, !.surface = "playing"]
             back == [on EXCEPT !.surface = l.prior, !.action = "none"]
             z == Resumed(l, w)
  <2>1. l.threw = {} /\ LbTimed(l.timing, w.now, played) /\ LbRecord(l.session) /\ LbPage(l) /\ LbShows(l, w)
    BY DEF LbGood
  <2>2. IsOpen(l.timing) /\ l.timer \in Nat /\ ~(l.timer > 0) /\ l.prior \in LbPriors
    BY <1>2, <2>1 DEF LbShows, LbPage
  <2>3. LbTimed(timing, w.now, played) /\ ~IsOpen(timing) /\ timing.active = (l.prior = "playing")
    BY <2>1, <2>2, LbResumed
  <2>4. LbFace(l) = l.prior /\ l.timer = 0
    BY <1>2, <2>2 DEF LbFace
  <2>5. z = CASE l.prior = "playing"    -> EnterPlaying(on, w)
             [] l.prior = "welcome"    -> Welcome(on)
             [] l.prior = "stage-card" -> ShowStageCard(on)
             [] l.prior = "terminal" /\ done # NoTerminal -> Ended(again, w, done.status, done.observed)
             [] l.prior = "terminal" /\ done = NoTerminal -> on
             [] l.prior = "intermission" -> Intermission(on)
             [] l.prior = "stage-pulse" -> IF l.pulse = NoPulse THEN Throws(on, "refused") ELSE ShowStagePulse(on)
             [] l.prior = "round-experience" -> RoundExperience(on)
             [] OTHER -> back
    BY <1>2 DEF Resumed
  <2> HIDE DEF timing
  <2>6. /\ on.threw = l.threw /\ on.timing = timing /\ on.session = l.session /\ on.engine = l.engine
        /\ on.surface = "paused" /\ on.action = l.action /\ on.timer = l.timer /\ on.terminal = l.terminal
        /\ on.prior = l.prior /\ on.pulse = l.pulse /\ LbShape(on)
    BY <1>2 DEF LbShape, LbFields
  <2> HIDE DEF on, done, z
  <2>7. CASE l.prior = "playing"
    <3>1. z = EnterPlaying(on, w)
      BY <2>5, <2>7
    <3>2. LbFace(on) = LbFace(l)
      BY <1>2, <2>6 DEF LbFace
    <3>3. LbPage(on)
      BY <1>2, <2>1, <2>6, <3>2 DEF LbPage
    <3>4. LbFace(on) \in LbOnStage
      BY <2>4, <2>7, <3>2 DEF LbOnStage
    <3>5. LbGood(EnterPlaying(on, w), w, played)
      BY <1>2, <2>1, <2>3, <2>6, <3>3, <3>4, LbPlaying
    <3> QED BY <3>1, <3>5 DEF z
  <2>8. CASE l.prior = "terminal"
    <3>1. PICK result \in {"won", "lost"}, observed \in {"engine", "synthetic"} :
            LbEnds(l.session, l.engine, result, observed) /\ done = LbTerminal(l.session, l.engine, result, observed)
      BY <2>1, <2>4, <2>8 DEF LbPage, done
    <3>2. done.status = result /\ done.observed = observed /\ done # NoTerminal
      <4>1. done.status = result /\ done.observed = observed
        BY <3>1 DEF LbTerminal
      <4>2. NoTerminal.status = "none"
        BY DEF NoTerminal
      <4> QED BY <4>1, <4>2
    <3>3. z = Ended(again, w, result, observed)
      BY <2>5, <2>8, <3>2
    <3>4. /\ again.threw = l.threw /\ again.timing = timing /\ again.session = l.session /\ again.engine = l.engine
          /\ again.surface = "playing" /\ again.timer = 0 /\ again.terminal = NoTerminal
          /\ again.prior = l.prior /\ LbShape(again)
      BY <2>4, <2>6 DEF LbShape, LbFields
    <3> HIDE DEF again
    <3>5. l.session.phase \in LabPlay /\ LbPlays(l.session, l.engine)
      BY <2>1, <2>4, <2>8 DEF LbPage, LbPhases, LbOnStage
    <3>6. LbGood(Ended(again, w, result, observed), w, played)
      BY <2>1, <2>2, <2>3, <3>1, <3>4, <3>5, LbEnding
    <3> QED BY <3>3, <3>6 DEF z
  <2>9. CASE l.prior \notin {"playing", "terminal"}
    <3>1. l.prior = "stage-pulse" => l.pulse # NoPulse
      <4> SUFFICES ASSUME l.prior = "stage-pulse" PROVE l.pulse # NoPulse
        OBVIOUS
      <4>1. PICK r : l.pulse = [stage |-> r.stage, status |-> r.status] /\ r.status \in {"won", "lost"}
        <5> DEFINE s == l.session
                   stages == s.rounds[s.pending].stages
                   r == stages[Len(stages)]
        <5>1. l.pulse = [stage |-> r.stage, status |-> r.status]
          BY <2>1, <2>4 DEF LbPage
        <5>2. s.phase = "stage-pulse"
          BY <2>1, <2>4 DEF LbPage, LbPhases, LbOnStage
        <5>3. /\ s \in LbSessions /\ s.pending \in 1 .. 2 /\ Len(s.rounds) = s.pending
              /\ LbAwaits(s.mode, s.rounds[s.pending])
          BY <2>1, <5>2 DEF LbRecord
        <5>4. s.rounds[s.pending] \in LbRounds /\ Len(stages) > 0
          BY <5>3, LbParts DEF LbAwaits
        <5>5. stages \in Seq(LbStages) /\ Len(stages) \in Nat
          BY <5>4, LbRoundParts
        <5>6. Len(stages) \in 1 .. Len(stages)
          BY <5>4, <5>5
        <5> HIDE DEF stages
        <5>7. r \in LbStages
          BY <5>5, <5>6
        <5>8. r.status \in {"won", "lost"}
          BY <5>7 DEF LbStages
        <5> QED BY <5>1, <5>8
      <4>2. l.pulse.status \in {"won", "lost"}
        BY <4>1
      <4>3. NoPulse.status = "none"
        BY DEF NoPulse
      <4> QED BY <4>2, <4>3
    <3>2. z \in {Welcome(on), ShowStageCard(on), Intermission(on), ShowStagePulse(on), RoundExperience(on), back}
          /\ (l.prior = "welcome" => z = Welcome(on))
          /\ (l.prior = "stage-card" => z = ShowStageCard(on))
          /\ (l.prior = "intermission" => z = Intermission(on))
          /\ (l.prior = "stage-pulse" => z = ShowStagePulse(on))
          /\ (l.prior = "round-experience" => z = RoundExperience(on))
          /\ (l.prior \notin {"welcome", "stage-card", "intermission", "stage-pulse", "round-experience"} => z = back)
      BY <2>5, <2>9, <3>1
    <3>3. /\ z.threw = l.threw /\ z.timing = timing /\ z.session = l.session /\ z.engine = l.engine
          /\ z.surface = l.prior /\ z.timer = 0 /\ z.terminal = l.terminal
          /\ z.prior = l.prior /\ z.pulse = l.pulse
          /\ z.action \in {"none", "beginCountdown", "beginRoundTwo", "startTestPractice"}
          /\ (z.action = "beginRoundTwo" => l.prior = "intermission")
          /\ (z.action = "startTestPractice" => l.prior = "welcome")
      <4> DEFINE Same(x) == /\ x.threw = on.threw /\ x.timing = on.timing /\ x.session = on.session
                            /\ x.engine = on.engine /\ x.timer = 0 /\ x.terminal = on.terminal
                            /\ x.prior = on.prior /\ x.pulse = on.pulse
      <4>1. on.timer = 0 /\ DOMAIN on = LbFields
        BY <2>4, <2>6 DEF LbShape
      <4>2. Same(Welcome(on)) /\ Welcome(on).surface = "welcome" /\ Welcome(on).action \in {"none", "startTestPractice"}
        BY <4>1 DEF LbFields, Welcome
      <4>3. /\ Same(ShowStageCard(on)) /\ ShowStageCard(on).surface = "stage-card"
            /\ ShowStageCard(on).action = "beginCountdown"
        BY <4>1 DEF LbFields, ShowStageCard
      <4>4. /\ Same(Intermission(on)) /\ Intermission(on).surface = "intermission"
            /\ Intermission(on).action = "beginRoundTwo"
        BY <4>1 DEF LbFields, Intermission
      <4>5. /\ Same(ShowStagePulse(on)) /\ ShowStagePulse(on).surface = "stage-pulse"
            /\ ShowStagePulse(on).action = "none"
        BY <4>1 DEF LbFields, ShowStagePulse
      <4>6. /\ Same(RoundExperience(on)) /\ RoundExperience(on).surface = "round-experience"
            /\ RoundExperience(on).action = "none"
        BY <4>1 DEF LbFields, RoundExperience
      <4>7. Same(back) /\ back.surface = l.prior /\ back.action = "none"
        BY <4>1 DEF LbFields
      <4> HIDE DEF Same, back
      <4>8. /\ Same(z) /\ z.surface = l.prior
            /\ z.action \in {"none", "beginCountdown", "beginRoundTwo", "startTestPractice"}
            /\ (z.action = "beginRoundTwo" => l.prior = "intermission")
            /\ (z.action = "startTestPractice" => l.prior = "welcome")
        BY <3>2, <4>2, <4>3, <4>4, <4>5, <4>6, <4>7
      <4> QED BY <2>6, <4>8 DEF Same
    <3>4. l.prior \notin {"playing", "stopped"}
      BY <2>2, <2>9 DEF LbPriors
    <3> QED BY <1>2, <2>2, <2>3, <2>9, <3>3, <3>4, LbShownAgain DEF z
  <2> QED BY <2>7, <2>8, <2>9
<1> QED BY <1>1, <1>2

-----------------------------------------------------------------------------
(* The page: every step                                                    *)

\* A step of the page alone keeps the invariant, if what follows the rules does.
LEMMA LbMoves ==
  ASSUME LbInv, NEW next, lab' = next, UNCHANGED <<labWorld, labPlayed>>, LbLater(lab, next),
         LbGood(lab, labWorld, labPlayed) /\ ~next.passed /\ "full" \notin next.threw
           => LbGood(next, labWorld, labPlayed)
  PROVE  LbInv'
BY DEF LbInv, LbLater, LabByTheRules

\* What can be relied on, on a page.
LEMMA LbParted ==
  ASSUME NEW l, NEW w, NEW played, LbGood(l, w, played)
  PROVE  /\ l.threw = {} /\ LbTimed(l.timing, w.now, played) /\ LbRecord(l.session) /\ LbPage(l) /\ LbShows(l, w)
         /\ l.timing.active \in BOOLEAN /\ l.timer \in Nat /\ l.prior \in LbPriors /\ l.surface \in LbSurfaces
         /\ LbNear(l, w, played)
<1>1. l.threw = {} /\ LbTimed(l.timing, w.now, played) /\ LbRecord(l.session) /\ LbPage(l) /\ LbShows(l, w)
  BY DEF LbGood
<1>2. l.timing.active \in BOOLEAN
  BY <1>1 DEF LbTimed, LbTimings
<1>3. l.timer \in Nat /\ l.prior \in LbPriors /\ l.surface \in LbSurfaces
  BY <1>1 DEF LbPage
<1>4. LbNear(l, w, played)
  BY <1>1, <1>3 DEF LbNear, LbShows
<1> QED BY <1>1, <1>2, <1>3, <1>4

\* The form, and the action that is armed.
LEMMA LbActKept ==
  ASSUME LbInv, LabConsent \/ LabAct
  PROVE  LbInv'
<1>1. LbShape(lab)
  BY DEF LbInv
<1>2. CASE LabConsent
  <2> DEFINE next == BeginPractice(lab)
  <2>1. lab' = next /\ UNCHANGED <<labWorld, labPlayed>> /\ lab.surface = "welcome"
    BY <1>2 DEF LabConsent, LabDo
  <2>2. LbLater(lab, next)
    BY <1>1, LbActsLater
  <2>3. LbGood(lab, labWorld, labPlayed) => LbGood(next, labWorld, labPlayed)
    <3>1. LbFace(lab) = "welcome"
      BY <2>1 DEF LbFace
    <3> QED BY <1>1, <2>1, <3>1, LbBegins
  <2> HIDE DEF next
  <2> QED BY <2>1, <2>2, <2>3, LbMoves
<1>3. CASE LabAct
  <2> DEFINE act == Acted(lab, labWorld)
             passes == act.passed \/ (lab.surface = "paused" /\ act.surface # "paused")
             next == [act EXCEPT !.passed = passes]
  <2>1. lab' = next /\ UNCHANGED <<labWorld, labPlayed>> /\ lab.action # "none"
    BY <1>3 DEF LabAct, LabDo
  <2>2. LbLater(lab, act)
    BY <1>1, <2>1, LbActsLater
  <2>3. LbGood(lab, labWorld, labPlayed) =>
          /\ lab.surface # "paused" => LbGood(act, labWorld, labPlayed)
          /\ lab.surface = "paused" => act.surface # "paused" \/ LbGood(act, labWorld, labPlayed)
    <3> SUFFICES ASSUME LbGood(lab, labWorld, labPlayed)
                 PROVE  /\ lab.surface # "paused" => LbGood(act, labWorld, labPlayed)
                        /\ lab.surface = "paused" => act.surface # "paused" \/ LbGood(act, labWorld, labPlayed)
      OBVIOUS
    <3>1. /\ lab.action = "commitTerminal" => LbFace(lab) = "terminal"
          /\ lab.action = "beginRoundTwo" => LbFace(lab) = "intermission"
          /\ lab.action = "startTestPractice" => LbFace(lab) = "welcome"
      BY LbParted DEF LbPage
    <3>2. CASE lab.action = "beginCountdown"
      <4>1. act = BeginCountdown(lab, labWorld)
        BY <3>2 DEF Acted
      <4> QED BY <1>1, <4>1, LbCounting
    <3>3. CASE lab.action = "commitTerminal"
      <4>1. act = CommitTerminal(lab)
        BY <3>3 DEF Acted
      <4> QED BY <1>1, <3>1, <3>3, <4>1, LbCommits
    <3>4. CASE lab.action = "beginRoundTwo"
      <4>1. act = BeginSecond(lab)
        BY <3>4 DEF Acted
      <4> QED BY <1>1, <3>1, <3>4, <4>1, LbBegins
    <3>5. CASE lab.action = "startTestPractice"
      <4>1. act = BeginPractice(lab)
        BY <3>5 DEF Acted
      <4> QED BY <1>1, <3>1, <3>5, <4>1, LbBegins
    <3> QED BY <1>1, <2>1, <3>2, <3>3, <3>4, <3>5 DEF LbShape, LbActions
  <2> HIDE DEF act
  <2>4. lab.passed \in BOOLEAN /\ act.passed \in BOOLEAN /\ (lab.passed => act.passed) /\ DOMAIN act = LbFields
    BY <1>1, <2>2 DEF LbShape, LbLater
  <2>5. passes \in BOOLEAN /\ (lab.passed => passes)
    BY <2>4
  <2>6. ~passes => (lab.surface = "paused" => act.surface = "paused")
    BY <2>4
  <2> HIDE DEF passes
  <2>7. LbLater(lab, next) /\ next.passed = passes
    BY <2>2, <2>4, <2>5 DEF LbLater, LbShape, LbFields
  <2>8. LbGood(act, labWorld, labPlayed) => LbGood(next, labWorld, labPlayed)
    <3>1. /\ next.threw = act.threw /\ next.timing = act.timing /\ next.session = act.session /\ next.engine = act.engine
          /\ next.surface = act.surface /\ next.action = act.action /\ next.timer = act.timer
          /\ next.terminal = act.terminal /\ next.prior = act.prior /\ next.pulse = act.pulse
      BY <2>4 DEF LbFields
    <3> HIDE DEF next
    <3>2. LbFace(next) = LbFace(act)
      BY <3>1 DEF LbFace
    <3>3. LbPage(act) => LbPage(next)
      BY <3>1, <3>2 DEF LbPage
    <3>4. LbShows(act, labWorld) => LbShows(next, labWorld)
      BY <3>1 DEF LbShows
    <3> QED BY <3>1, <3>3, <3>4 DEF LbGood
  <2> HIDE DEF next
  <2> QED BY <2>1, <2>3, <2>6, <2>7, <2>8, LbMoves
<1> QED BY <1>2, <1>3

\* The countdown, and what cuts it short.
LEMMA LbCountKept ==
  ASSUME LbInv, LabCount \/ LabSkipCountdown
  PROVE  LbInv'
<1> DEFINE l == lab  w == labWorld  played == labPlayed
           off == [l EXCEPT !.timer = 0]
           less == [l EXCEPT !.timer = l.timer - 1]
<1>1. LbShape(l)
  BY DEF LbInv
<1>2. UNCHANGED <<labWorld, labPlayed>>
  BY DEF LabCount, LabSkipCountdown, LabDo
<1>3. /\ off.threw = l.threw /\ off.timing = l.timing /\ off.session = l.session /\ off.engine = l.engine
      /\ off.surface = l.surface /\ off.action = l.action /\ off.timer = 0 /\ off.terminal = l.terminal
      /\ off.prior = l.prior /\ off.pulse = l.pulse /\ LbLater(l, off) /\ LbShape(off)
  BY <1>1 DEF LbShape, LbFields, LbLater
<1>4. /\ less.threw = l.threw /\ less.timing = l.timing /\ less.session = l.session /\ less.engine = l.engine
      /\ less.surface = l.surface /\ less.action = l.action /\ less.timer = l.timer - 1 /\ less.terminal = l.terminal
      /\ less.prior = l.prior /\ less.pulse = l.pulse /\ LbLater(l, less)
  <2>1. \A x : LET y == [l EXCEPT !.timer = x]
               IN  /\ y.threw = l.threw /\ y.timing = l.timing /\ y.session = l.session /\ y.engine = l.engine
                   /\ y.surface = l.surface /\ y.action = l.action /\ y.timer = x /\ y.terminal = l.terminal
                   /\ y.prior = l.prior /\ y.pulse = l.pulse /\ LbLater(l, y)
    BY <1>1 DEF LbShape, LbFields, LbLater
  <2> QED BY <2>1
<1>5. \/ lab' = off /\ l.timer > 0 /\ l.surface # "countdown"
      \/ lab' = EnterPlaying(off, w) /\ l.surface = "countdown"
      \/ lab' = less /\ l.timer > 0 /\ l.timer # 1 /\ l.surface = "countdown"
  BY DEF LabCount, LabSkipCountdown, LabDo
<1> HIDE DEF off, less
<1>6. CASE lab' = off /\ l.timer > 0 /\ l.surface # "countdown"
  <2>1. ~LbGood(l, w, played)
    BY <1>6, LbParted DEF LbShows
  <2> QED BY <1>2, <1>3, <1>6, <2>1, LbMoves
<1>7. CASE lab' = EnterPlaying(off, w) /\ l.surface = "countdown"
  <2> DEFINE next == EnterPlaying(off, w)
  <2>1. LbLater(l, next)
    BY <1>3, LbPlaysLater, LbLaterStill
  <2>2. LbGood(l, w, played) /\ "full" \notin next.threw => LbGood(next, w, played)
    <3> SUFFICES ASSUME LbGood(l, w, played), "full" \notin next.threw PROVE LbGood(next, w, played)
      OBVIOUS
    <3>1. /\ l.threw = {} /\ LbTimed(l.timing, w.now, played) /\ LbRecord(l.session) /\ LbPage(l) /\ LbShows(l, w)
      BY LbParted
    <3>2. LbFace(off) = "countdown" /\ LbFace(l) = "countdown"
      BY <1>3, <1>7 DEF LbFace
    <3>3. LbPage(off)
      BY <1>3, <3>1, <3>2 DEF LbPage
    <3>4. CASE Fit(w)
      <4>1. ~IsOpen(l.timing)
        BY <1>7, <3>1 DEF LbShows
      <4>2. "countdown" \in LbOnStage
        BY DEF LbOnStage
      <4> QED BY <1>3, <3>1, <3>2, <3>3, <3>4, <4>1, <4>2, LbPlaying
    <3>5. CASE ~Fit(w)
      <4>1. next = PauseLab(off, w)
        BY <3>5 DEF EnterPlaying
      <4>2. LbNear(off, w, played)
        BY <1>3, <1>7, <3>1, <3>3 DEF LbNear, LbShows
      <4> QED BY <1>3, <4>1, <4>2, LbPaused
    <3> QED BY <3>4, <3>5
  <2> HIDE DEF next
  <2>3. lab' = next
    BY <1>7 DEF next
  <2> QED BY <1>2, <2>1, <2>2, <2>3, LbMoves
<1>8. CASE lab' = less /\ l.timer > 0 /\ l.timer # 1 /\ l.surface = "countdown"
  <2>1. LbGood(l, w, played) => LbGood(less, w, played)
    <3> SUFFICES ASSUME LbGood(l, w, played) PROVE LbGood(less, w, played)
      OBVIOUS
    <3>1. /\ l.threw = {} /\ LbTimed(l.timing, w.now, played) /\ LbRecord(l.session) /\ LbPage(l) /\ LbShows(l, w)
          /\ l.timer \in Nat
      BY LbParted
    <3>2. less.timer \in Nat /\ less.timer > 0
      BY <1>4, <1>8, <3>1
    <3>3. LbFace(less) = LbFace(l)
      BY <1>4 DEF LbFace
    <3>4. LbPage(less)
      BY <1>4, <3>1, <3>2, <3>3 DEF LbPage
    <3>5. LbShows(less, w)
      BY <1>4, <1>8, <3>1, <3>2 DEF LbShows
    <3> QED BY <1>4, <3>1, <3>4, <3>5 DEF LbGood
  <2> QED BY <1>2, <1>4, <1>8, <2>1, LbMoves
<1> QED BY <1>5, <1>6, <1>7, <1>8

\* A tick of a frame, which may end the stage.
LEMMA LbFrameKept ==
  ASSUME LbInv, LabFrame
  PROVE  LbInv'
<1> DEFINE l == lab  w == labWorld  played == labPlayed  s == l.session  e == l.engine
<1>1. LbShape(l) /\ l.surface = "playing" /\ Fit(w) /\ UNCHANGED <<labWorld, labPlayed>>
  BY DEF LbInv, LabFrame, LabDo
<1>2. CASE ~LabTickLegal(s, s.stage)
  <2>1. lab' = Throws(l, "refused")
    BY <1>2 DEF LabFrame, LabDo
  <2>2. LbLater(l, Throws(l, "refused"))
    BY <1>1, LbSets
  <2>3. ~LbGood(l, w, played)
    <3> SUFFICES ASSUME LbGood(l, w, played) PROVE FALSE
      OBVIOUS
    <3>1. LbFace(l) = "playing"
      BY <1>1 DEF LbFace
    <3>2. s.phase \in LabPlay
      BY <3>1, LbParted DEF LbPage, LbPhases, LbOnStage
    <3> QED BY <1>2, <3>2 DEF LabTickLegal
  <2> QED BY <1>1, <2>1, <2>2, <2>3, LbMoves
<1>3. CASE LabTickLegal(s, s.stage)
  <2>1. PICK lost \in 0 .. e.lives, end \in BOOLEAN :
          LET after == [tick |-> e.tick + 1, lives |-> e.lives - lost,
                        score |-> e.score + (IF lost = 0 THEN 1 ELSE 0), losses |-> e.losses + lost]
              next  == [l EXCEPT !.session = LabTick(@), !.engine = after]
          IN  /\ e.tick < LabTicks
              /\ after.lives = 0 \/ after.tick = LabTicks => end
              /\ LabDo(IF ~end THEN next
                       ELSE Ended(next, w, IF after.lives = 0 THEN "lost" ELSE "won", "engine"))
    BY <1>3 DEF LabFrame
  <2> DEFINE after == [tick |-> e.tick + 1, lives |-> e.lives - lost,
                       score |-> e.score + (IF lost = 0 THEN 1 ELSE 0), losses |-> e.losses + lost]
             session == LabTick(s)
             next == [l EXCEPT !.session = session, !.engine = after]
             result == IF after.lives = 0 THEN "lost" ELSE "won"
  <2>2. /\ after.lives = 0 => end
        /\ lab' = IF ~end THEN next ELSE Ended(next, w, result, "engine")
    BY <2>1 DEF LabDo
  <2>3. LbPlays(s, e) /\ LbRecord(s) =>
          /\ after \in LbEngines /\ after.tick = e.tick + 1 /\ after.lives + after.losses = s.run.lives
          /\ after.score >= s.run.score /\ after.lives \in Nat
    <3> SUFFICES ASSUME LbPlays(s, e), LbRecord(s)
                 PROVE  /\ after \in LbEngines /\ after.tick = e.tick + 1 /\ after.lives + after.losses = s.run.lives
                        /\ after.score >= s.run.score /\ after.lives \in Nat
      OBVIOUS
    <3> DEFINE ticked == e.tick + 1
               lives == e.lives - lost
               score == e.score + (IF lost = 0 THEN 1 ELSE 0)
               losses == e.losses + lost
    <3>1. /\ e.tick \in Nat /\ e.lives \in Nat /\ e.score \in Int /\ e.losses \in Nat
          /\ e.lives + e.losses = s.run.lives /\ e.score >= s.run.score
      BY DEF LbPlays, LbEngines
    <3>2. score >= e.score /\ score \in Int
      BY <3>1
    <3>3. ticked \in Nat /\ lives \in Nat /\ losses \in Nat /\ lives + losses = e.lives + e.losses
      BY <3>1
    <3>4. s.run.score \in Int
      BY LbParts DEF LbRecord, LbRuns
    <3>5. score >= s.run.score
      BY <3>1, <3>2, <3>4
    <3> HIDE DEF ticked, lives, score, losses
    <3>6. after = [tick |-> ticked, lives |-> lives, score |-> score, losses |-> losses]
      BY DEF ticked, lives, score, losses
    <3> HIDE DEF after
    <3> QED BY <3>1, <3>2, <3>3, <3>5, <3>6 DEF LbEngines, ticked
  <2> HIDE DEF after, session
  <2>4. /\ next.threw = l.threw /\ next.timing = l.timing /\ next.session = session /\ next.engine = after
        /\ next.surface = l.surface /\ next.action = l.action /\ next.timer = l.timer /\ next.terminal = l.terminal
        /\ next.prior = l.prior /\ next.pulse = l.pulse /\ LbLater(l, next) /\ LbShape(next)
    BY <1>1 DEF LbShape, LbFields, LbLater
  <2> HIDE DEF next
  <2>5. LbLater(l, lab')
    BY <2>2, <2>4, LbEndsLater, LbLaterStill
  <2>6. LbGood(l, w, played) => LbGood(lab', w, played)
    <3> SUFFICES ASSUME LbGood(l, w, played) PROVE LbGood(lab', w, played)
      OBVIOUS
    <3>1. /\ l.threw = {} /\ LbTimed(l.timing, w.now, played) /\ LbRecord(s) /\ LbPage(l) /\ LbShows(l, w)
          /\ l.prior \in LbPriors /\ l.timer \in Nat
      BY LbParted
    <3>2. LbFace(l) = "playing" /\ LbFace(next) = "playing"
      BY <1>1, <2>4 DEF LbFace
    <3>3. s.phase \in LabPlay /\ LbPlays(s, e) /\ l.terminal = NoTerminal
      BY <3>1, <3>2 DEF LbPage, LbPhases, LbOnStage
    <3>4. /\ LbRecord(session) /\ session.phase = s.phase /\ session.stage = s.stage /\ session.run = s.run
          /\ session.mode = s.mode /\ session.ticks = s.ticks + 1 /\ session.inputs = s.inputs + 1
      BY <3>1, <3>3, LbTicks DEF session
    <3>5. LbPlays(session, after)
      <4>1. s.ticks = e.tick /\ s.inputs = s.ticks /\ s.stage > 0
        BY <3>3 DEF LbPlays
      <4> QED BY <2>3, <3>1, <3>3, <3>4, <4>1 DEF LbPlays
    <3>6. ~IsOpen(l.timing) /\ l.timer = 0
      BY <1>1, <3>1 DEF LbShows
    <3>7. CASE ~end
      <4>1. after.lives > 0
        BY <2>2, <2>3, <3>1, <3>3, <3>7
      <4>2. LbPage(next)
        BY <2>4, <3>1, <3>2, <3>3, <3>4, <3>5, <4>1 DEF LbPage, LbPhases, LbOnStage
      <4>3. LbShows(next, w)
        BY <2>4, <3>1 DEF LbShows
      <4> QED BY <2>2, <2>4, <3>1, <3>4, <3>7, <4>2, <4>3 DEF LbGood
    <3>8. CASE end
      <4>1. LbEnds(session, after, result, "engine")
        <5>1. s.ticks \in Nat
          BY <3>1, LbParts DEF LbRecord
        <5>2. session.ticks > 0
          BY <3>4, <5>1
        <5>3. after.lives \in Nat
          BY <2>3, <3>1, <3>3
        <5> QED BY <5>2, <5>3 DEF LbEnds
      <4>2. lab' = Ended(next, w, result, "engine")
        BY <2>2, <3>8
      <4> HIDE DEF result
      <4> QED BY <1>1, <2>4, <3>1, <3>3, <3>4, <3>5, <3>6, <4>1, <4>2, LbEnding
    <3> QED BY <3>7, <3>8
  <2> QED BY <1>1, <2>5, <2>6, LbMoves
<1> QED BY <1>2, <1>3

\* What pauses the page, resumes it or ends a stage from outside.
LEMMA LbAskedKept ==
  ASSUME LbInv, LabBacklog \/ LabPauseRequest \/ LabResume \/ LabFinish
  PROVE  LbInv'
<1> DEFINE l == lab  w == labWorld  played == labPlayed
<1>1. LbShape(l) /\ UNCHANGED <<labWorld, labPlayed>>
  BY DEF LbInv, LabBacklog, LabPauseRequest, LabResume, LabFinish, LabDo
<1>2. CASE LabBacklog \/ LabPauseRequest
  <2> DEFINE next == PauseLab(l, w)
  <2>1. lab' = next
    BY <1>2 DEF LabBacklog, LabPauseRequest, LabDo
  <2>2. LbLater(l, next)
    BY <1>1, LbPausesLater
  <2>3. LbGood(l, w, played) /\ "full" \notin next.threw => LbGood(next, w, played)
    BY <1>1, LbParted, LbPaused
  <2> HIDE DEF next
  <2> QED BY <1>1, <2>1, <2>2, <2>3, LbMoves
<1>3. CASE LabResume
  <2> DEFINE next == Resumed(l, w)
  <2>1. lab' = next
    BY <1>3 DEF LabResume, LabDo
  <2>2. LbLater(l, next)
    BY <1>1, LbResumesLater
  <2>3. LbGood(l, w, played) => LbGood(next, w, played)
    BY <1>1, LbResuming
  <2> HIDE DEF next
  <2> QED BY <1>1, <2>1, <2>2, <2>3, LbMoves
<1>4. CASE LabFinish
  <2>1. PICK result \in {"won", "lost"} : lab' = Ended(l, w, result, "synthetic")
    BY <1>4 DEF LabFinish, LabDo
  <2>2. l.session.mode = "test-driver"
    BY <1>4 DEF LabFinish
  <2> DEFINE next == Ended(l, w, result, "synthetic")
  <2>3. LbLater(l, next)
    BY <1>1, LbEndsLater
  <2>4. LbGood(l, w, played) => LbGood(next, w, played)
    <3> SUFFICES ASSUME LbGood(l, w, played) PROVE LbGood(next, w, played)
      OBVIOUS
    <3>1. CASE l.surface # "playing" \/ l.terminal # NoTerminal
      BY <3>1 DEF Ended
    <3>2. CASE l.surface = "playing" /\ l.terminal = NoTerminal
      <4>1. /\ l.threw = {} /\ LbTimed(l.timing, w.now, played) /\ LbRecord(l.session) /\ LbPage(l) /\ LbShows(l, w)
            /\ l.prior \in LbPriors /\ l.timer \in Nat
        BY LbParted
      <4>2. LbFace(l) = "playing"
        BY <3>2 DEF LbFace
      <4>3. l.session.phase \in LabPlay /\ LbPlays(l.session, l.engine) /\ l.engine.lives > 0
        BY <4>1, <4>2 DEF LbPage, LbPhases, LbOnStage
      <4>4. ~IsOpen(l.timing) /\ l.timer = 0
        BY <3>2, <4>1 DEF LbShows
      <4>5. LbEnds(l.session, l.engine, result, "synthetic")
        BY <2>2, <4>3 DEF LbEnds
      <4> QED BY <1>1, <3>2, <4>1, <4>3, <4>4, <4>5, LbEnding
    <3> QED BY <3>1, <3>2
  <2> HIDE DEF next
  <2>5. lab' = next
    BY <2>1 DEF next
  <2> QED BY <1>1, <2>3, <2>4, <2>5, LbMoves
<1> QED BY <1>2, <1>3, <1>4

\* The answers to a stage.
LEMMA LbPulseKept ==
  ASSUME LbInv, LabPulse
  PROVE  LbInv'
<1> DEFINE l == lab  w == labWorld  played == labPlayed  s == l.session  n == s.pending
           session == Pulse(s, n, l.pulse)
           next == [l EXCEPT !.session = session, !.pulse = NoPulse]
           z == IF ~PulseLegal(s, n, l.pulse) THEN Throws(l, "refused")
                ELSE IF next.session.phase \in LabPlay THEN BeginCurrentEngine(next)
                ELSE IF next.session.phase = "intermission" THEN Intermission(next) ELSE RoundExperience(next)
<1>1. LbShape(l) /\ UNCHANGED <<labWorld, labPlayed>> /\ l.surface = "stage-pulse"
  BY DEF LbInv, LabPulse, LabDo
<1>2. lab' = z
  BY DEF LabPulse, LabDo
<1> HIDE DEF session
<1>3. /\ next.threw = l.threw /\ next.timing = l.timing /\ next.session = session /\ next.engine = l.engine
      /\ next.surface = l.surface /\ next.action = l.action /\ next.timer = l.timer /\ next.terminal = l.terminal
      /\ next.prior = l.prior /\ LbLater(l, next) /\ LbShape(next)
  BY <1>1 DEF LbShape, LbFields, LbLater
<1> HIDE DEF next
<1>4. LbLater(l, z)
  <2>1. LbLater(l, Throws(l, "refused"))
    BY <1>1, LbSets
  <2>2. LbLater(l, BeginCurrentEngine(next)) /\ LbLater(l, Intermission(next)) /\ LbLater(l, RoundExperience(next))
    BY <1>3, LbBeginsLater, LbSets, LbLaterStill
  <2> QED BY <2>1, <2>2
<1>5. LbGood(l, w, played) => LbGood(z, w, played)
  <2> SUFFICES ASSUME LbGood(l, w, played) PROVE LbGood(z, w, played)
    OBVIOUS
  <2>1. /\ l.threw = {} /\ LbTimed(l.timing, w.now, played) /\ LbRecord(s) /\ LbPage(l) /\ LbShows(l, w)
        /\ l.prior \in LbPriors /\ l.timer \in Nat /\ l.timing.active \in BOOLEAN
    BY LbParted
  <2>2. LbFace(l) = "stage-pulse"
    BY <1>1 DEF LbFace
  <2>3. /\ s.phase = "stage-pulse"
        /\ LET stages == s.rounds[s.pending].stages  last == stages[Len(stages)]
           IN  l.pulse = [stage |-> last.stage, status |-> last.status]
    BY <2>1, <2>2 DEF LbPage, LbPhases, LbOnStage
  <2>4. /\ PulseLegal(s, n, l.pulse) /\ LbRecord(session)
        /\ (session.phase \in LabPlay /\ LbFresh(session)) \/ session.phase \in {"intermission", "comparison"}
    BY <2>1, <2>3, LbPulses DEF session
  <2>5. ~IsOpen(l.timing) /\ l.timing.active = FALSE /\ l.timer = 0
    BY <1>1, <2>1 DEF LbShows
  <2>6. CASE session.phase \in LabPlay
    <3>1. LbFresh(session)
      BY <2>4, <2>6 DEF LabPlay
    <3>2. z = BeginCurrentEngine(next)
      BY <1>3, <2>4, <2>6
    <3>3. LbGood(BeginCurrentEngine(next), w, played)
      BY <1>3, <2>1, <2>4, <2>5, <2>6, <3>1, LbBegun
    <3> QED BY <3>2, <3>3
  <2>7. CASE session.phase \notin LabPlay
    <3>1. /\ session.phase \in {"intermission", "comparison"}
          /\ z = IF session.phase = "intermission" THEN Intermission(next) ELSE RoundExperience(next)
      BY <1>3, <2>4, <2>7
    <3>2. /\ z.threw = l.threw /\ z.timing = l.timing /\ z.session = session /\ z.timer = 0 /\ z.prior = l.prior
          /\ session.phase = "intermission" => z.surface = "intermission" /\ z.action = "beginRoundTwo"
          /\ session.phase = "comparison" => z.surface = "round-experience" /\ z.action = "none"
      <4>1. \A x : LbShape(x) =>
              /\ Intermission(x).threw = x.threw /\ Intermission(x).timing = x.timing
              /\ Intermission(x).session = x.session /\ Intermission(x).timer = x.timer
              /\ Intermission(x).prior = x.prior /\ Intermission(x).surface = "intermission"
              /\ Intermission(x).action = "beginRoundTwo"
        BY DEF LbShape, LbFields, Intermission
      <4>2. \A x : LbShape(x) =>
              /\ RoundExperience(x).threw = x.threw /\ RoundExperience(x).timing = x.timing
              /\ RoundExperience(x).session = x.session /\ RoundExperience(x).timer = x.timer
              /\ RoundExperience(x).prior = x.prior /\ RoundExperience(x).surface = "round-experience"
              /\ RoundExperience(x).action = "none"
        BY DEF LbShape, LbFields, RoundExperience
      <4>3. CASE session.phase = "intermission"
        BY <1>3, <2>5, <3>1, <4>1, <4>3
      <4>4. CASE session.phase = "comparison"
        BY <1>3, <2>5, <3>1, <4>2, <4>4
      <4> QED BY <3>1, <4>3, <4>4
    <3> HIDE DEF z
    <3>3. z.surface = LbFace(z)
      BY <3>1, <3>2 DEF LbFace
    <3>4. LbPage(z)
      <4>1. session.phase \in {"intermission", "comparison"}
        BY <3>1
      <4> HIDE <3>1
      <4>2. CASE session.phase = "intermission"
        BY <2>1, <2>7, <3>2, <3>3, <4>2 DEF LbPage, LbPhases, LbOnStage, LbSurfaces, LbPriors
      <4>3. CASE session.phase = "comparison"
        BY <2>1, <2>7, <3>2, <3>3, <4>3 DEF LbPage, LbPhases, LbOnStage, LbSurfaces, LbPriors
      <4> QED BY <4>1, <4>2, <4>3
    <3>5. LbShows(z, w)
      BY <2>5, <3>1, <3>2 DEF LbShows
    <3> QED BY <2>1, <2>4, <3>2, <3>4, <3>5 DEF LbGood
  <2> QED BY <2>6, <2>7
<1> HIDE DEF z
<1> QED BY <1>1, <1>2, <1>4, <1>5, LbMoves

\* A surface after the rounds, without the record or with it.
LEMMA LbShownNext ==
  ASSUME NEW l, NEW u, NEW w, NEW played, LbGood(l, w, played),
         l.surface \in {"round-experience", "comparison", "frozen"}, u.surface \in {"comparison", "frozen", "debrief"},
         u.threw = l.threw, u.timing = l.timing, LbRecord(u.session), u.session.phase = u.surface,
         u.prior = l.prior, u.action = l.action, u.timer = l.timer
  PROVE  LbGood(u, w, played)
<1>1. /\ l.threw = {} /\ LbTimed(l.timing, w.now, played) /\ LbPage(l) /\ LbShows(l, w)
      /\ l.prior \in LbPriors /\ l.timer \in Nat
  BY LbParted
<1>2. LbFace(l) = l.surface /\ LbFace(u) = u.surface
  BY DEF LbFace
<1>3. u.action \notin {"commitTerminal", "beginRoundTwo", "startTestPractice"}
  BY <1>1, <1>2 DEF LbPage
<1>4. LbPage(u)
  BY <1>1, <1>2, <1>3 DEF LbPage, LbPhases, LbOnStage, LbSurfaces, LbPriors, LabPlay
<1>5. LbShows(u, w)
  BY <1>1 DEF LbShows
<1> QED BY <1>1, <1>4, <1>5 DEF LbGood

\* What follows the rounds: the comparison, the frozen answers and the debrief.
LEMMA LbFrozenKept ==
  ASSUME LbInv, LabCompare \/ LabFreeze \/ LabDebrief
  PROVE  LbInv'
<1> DEFINE l == lab  w == labWorld  played == labPlayed  s == l.session
<1>1. LbShape(l) /\ UNCHANGED <<labWorld, labPlayed>>
  BY DEF LbInv, LabCompare, LabFreeze, LabDebrief, LabDo
<1>2. \A y : LET u == [l EXCEPT !.surface = y]
             IN  /\ LbLater(l, u) /\ u.session = s /\ u.surface = y /\ u.threw = l.threw /\ u.timing = l.timing
                 /\ u.prior = l.prior /\ u.action = l.action /\ u.timer = l.timer
  BY <1>1 DEF LbLater, LbShape, LbFields
<1>3. LbGood(l, w, played) => LbRecord(s) /\ LbPage(l) /\ LbShows(l, w) /\ LbTimed(l.timing, w.now, played)
  BY LbParted
<1>4. CASE LabCompare
  <2> DEFINE u == [l EXCEPT !.surface = "comparison"]
  <2>1. lab' = u /\ l.surface = "round-experience"
    BY <1>4 DEF LabCompare, LabDo
  <2>2. /\ LbLater(l, u) /\ u.session = s /\ u.surface = "comparison" /\ u.threw = l.threw /\ u.timing = l.timing
        /\ u.prior = l.prior /\ u.action = l.action /\ u.timer = l.timer
    BY <1>2
  <2> HIDE DEF u
  <2>3. LbGood(l, w, played) => LbGood(u, w, played)
    <3> SUFFICES ASSUME LbGood(l, w, played) PROVE LbGood(u, w, played)
      OBVIOUS
    <3>1. LbFace(l) = "round-experience"
      BY <2>1 DEF LbFace
    <3>2. s.phase = "comparison"
      BY <1>3, <3>1 DEF LbPage, LbPhases, LbOnStage
    <3> QED BY <1>3, <2>1, <2>2, <3>2, LbShownNext
  <2> QED BY <1>1, <2>1, <2>2, <2>3, LbMoves
<1>5. CASE LabFreeze
  <2> DEFINE session == Freeze(s)
             u == [l EXCEPT !.session = session, !.surface = "frozen"]
             z == IF FreezeLegal(s, l.timing, w.now) THEN u ELSE Throws(l, "refused")
  <2>1. lab' = z /\ l.surface = "comparison"
    BY <1>5 DEF LabFreeze, LabDo
  <2> HIDE DEF session
  <2>2. /\ LbLater(l, u) /\ u.session = session /\ u.surface = "frozen" /\ u.threw = l.threw /\ u.timing = l.timing
        /\ u.prior = l.prior /\ u.action = l.action /\ u.timer = l.timer
    BY <1>1 DEF LbLater, LbShape, LbFields
  <2> HIDE DEF u
  <2>3. LbLater(l, z)
    BY <1>1, <2>2, LbSets
  <2>4. LbGood(l, w, played) => LbGood(z, w, played)
    <3> SUFFICES ASSUME LbGood(l, w, played) PROVE LbGood(z, w, played)
      OBVIOUS
    <3>1. LbFace(l) = "comparison"
      BY <2>1 DEF LbFace
    <3>2. s.phase = "comparison"
      BY <1>3, <3>1 DEF LbPage, LbPhases, LbOnStage
    <3>3. ~IsOpen(l.timing)
      BY <1>3, <2>1 DEF LbShows
    <3>4. FreezeLegal(s, l.timing, w.now)
      BY <1>3, <3>2, <3>3, LbAccepted, LbCloses DEF FreezeLegal
    <3>5. LbRecord(session) /\ session.phase = "frozen"
      BY <1>3, <3>2, LbKept DEF session
    <3> QED BY <2>1, <2>2, <3>4, <3>5, LbShownNext
  <2> HIDE DEF z
  <2> QED BY <1>1, <2>1, <2>3, <2>4, LbMoves
<1>6. CASE LabDebrief
  <2> DEFINE session == Debrief(s)
             u == [l EXCEPT !.session = session, !.surface = "debrief"]
  <2>1. lab' = u /\ l.surface = "frozen"
    BY <1>6 DEF LabDebrief, LabDo
  <2> HIDE DEF session
  <2>2. /\ LbLater(l, u) /\ u.session = session /\ u.surface = "debrief" /\ u.threw = l.threw /\ u.timing = l.timing
        /\ u.prior = l.prior /\ u.action = l.action /\ u.timer = l.timer
    BY <1>1 DEF LbLater, LbShape, LbFields
  <2> HIDE DEF u
  <2>3. LbGood(l, w, played) => LbGood(u, w, played)
    <3> SUFFICES ASSUME LbGood(l, w, played) PROVE LbGood(u, w, played)
      OBVIOUS
    <3>1. LbFace(l) = "frozen"
      BY <2>1 DEF LbFace
    <3>2. s.phase = "frozen"
      BY <1>3, <3>1 DEF LbPage, LbPhases, LbOnStage
    <3>3. LbRecord(session) /\ session.phase = "debrief"
      BY <1>3, <3>2, LbKept DEF session
    <3> QED BY <2>1, <2>2, <3>3, LbShownNext
  <2> QED BY <1>1, <2>1, <2>2, <2>3, LbMoves
<1> QED BY <1>4, <1>5, <1>6

\* The page is left without the record being kept.
LEMMA LbStopKept ==
  ASSUME LbInv, LabStop
  PROVE  LbInv'
<1> DEFINE l == lab  w == labWorld  played == labPlayed
           timing == IF IsOpen(l.timing) THEN Resume(l.timing, w.now, FALSE) ELSE SetActive(l.timing, w.now, FALSE)
           u == [l EXCEPT !.timer = 0, !.surface = "stopped", !.action = "none", !.terminal = NoTerminal,
                          !.pulse = NoPulse, !.timing = timing]
<1>1. LbShape(l) /\ UNCHANGED <<labWorld, labPlayed>>
  BY DEF LbInv, LabStop, LabDo
<1>2. lab' = u
  BY DEF LabStop, LabDo
<1> HIDE DEF timing
<1>3. /\ LbLater(l, u) /\ u.session = l.session /\ u.surface = "stopped" /\ u.threw = l.threw /\ u.timing = timing
      /\ u.prior = l.prior /\ u.action = "none" /\ u.timer = 0 /\ u.engine = l.engine
  BY <1>1 DEF LbLater, LbShape, LbFields, LbActions
<1> HIDE DEF u
<1>4. LbGood(l, w, played) => LbGood(u, w, played)
  <2> SUFFICES ASSUME LbGood(l, w, played) PROVE LbGood(u, w, played)
    OBVIOUS
  <2>1. /\ l.threw = {} /\ LbTimed(l.timing, w.now, played) /\ LbRecord(l.session) /\ LbPage(l)
        /\ l.prior \in LbPriors
    BY LbParted
  <2>2. LbTimed(timing, w.now, played) /\ ~IsOpen(timing) /\ timing.active = FALSE
    <3>1. CASE IsOpen(l.timing)
      BY <2>1, <3>1, LbResumed DEF timing
    <3>2. CASE ~IsOpen(l.timing)
      BY <2>1, <3>2, LbActs DEF timing
    <3> QED BY <3>1, <3>2
  <2>3. LbFace(u) = "stopped"
    BY <1>3 DEF LbFace
  <2>4. LbPage(u)
    BY <1>3, <2>1, <2>3 DEF LbPage, LbOnStage, LbSurfaces, LbPriors
  <2>5. LbShows(u, w)
    BY <1>3, <2>2 DEF LbShows
  <2> QED BY <1>3, <2>1, <2>2, <2>4, <2>5 DEF LbGood
<1> QED BY <1>1, <1>2, <1>3, <1>4, LbMoves

\* The window changes.
LEMMA LbWindowKept ==
  ASSUME LbInv, LabWindow
  PROVE  LbInv'
<1> DEFINE l == lab  w == labWorld  played == labPlayed
<1>1. LbShape(l) /\ w \in LbWorlds /\ played \in Nat /\ labPlayed' = labPlayed
  BY DEF LbInv, LabWindow
<1>2. PICK v \in {[w EXCEPT !.front = ~@], [w EXCEPT !.fits = ~@]} :
        /\ labWorld' = v
        /\ lab' = IF (w.front /\ ~v.front) \/ (w.fits /\ ~v.fits) THEN PauseLab(l, v) ELSE l
  BY DEF LabWindow
<1>3. w.front \in BOOLEAN /\ w.fits \in BOOLEAN /\ w.now \in Nat
  BY <1>1 DEF LbWorlds
<1>4. v \in LbWorlds /\ v.now = w.now
  BY <1>1, <1>2, <1>3 DEF LbWorlds
<1>5. LbLater(l, lab')
  BY <1>1, <1>2, LbPausesLater, LbSets
<1>6. LbGood(l, w, played) /\ "full" \notin lab'.threw => LbGood(lab', v, played)
  <2> SUFFICES ASSUME LbGood(l, w, played), "full" \notin lab'.threw PROVE LbGood(lab', v, played)
    OBVIOUS
  <2>1. CASE (w.front /\ ~v.front) \/ (w.fits /\ ~v.fits)
    <3>1. lab' = PauseLab(l, v)
      BY <1>2, <2>1
    <3>2. LbNear(l, v, played)
      BY <1>4, LbParted DEF LbNear
    <3> QED BY <1>1, <3>1, <3>2, LbPaused
  <2>2. CASE ~((w.front /\ ~v.front) \/ (w.fits /\ ~v.fits))
    <3>1. lab' = l
      BY <1>2, <2>2
    <3>2. Fit(w) => Fit(v)
      BY <1>3, <2>2 DEF Fit
    <3>3. LbShows(l, v)
      BY <3>2 DEF LbGood, LbShows
    <3> QED BY <1>4, <3>1, <3>3 DEF LbGood
  <2> QED BY <2>1, <2>2
<1>7. LbShape(lab') /\ (LabByTheRules' => LabByTheRules /\ "full" \notin lab'.threw)
  BY <1>5 DEF LbLater, LabByTheRules
<1>8. LabByTheRules' => LbGood(lab', labWorld', labPlayed')
  BY <1>1, <1>2, <1>6, <1>7 DEF LbInv
<1> QED BY <1>1, <1>2, <1>4, <1>7, <1>8 DEF LbInv

\* Time passes.
LEMMA LbTimeKept ==
  ASSUME LbInv, LabTime
  PROVE  LbInv'
<1> DEFINE l == lab  w == labWorld  v == labWorld'  played == labPlayed
           more == IF l.surface = "playing" THEN 1 ELSE 0
<1>1. LbShape(l) /\ w \in LbWorlds /\ played \in Nat /\ lab' = lab /\ labPlayed' = played + more
  BY DEF LbInv, LabTime
<1>2. w.front \in BOOLEAN /\ w.fits \in BOOLEAN /\ w.now \in Nat
  BY <1>1 DEF LbWorlds
<1>3. v = [w EXCEPT !.now = w.now + 1]
  BY DEF LabTime
<1>4. v \in LbWorlds /\ v.now = w.now + 1 /\ v.front = w.front /\ v.fits = w.fits
  <2> DEFINE later == w.now + 1
  <2>1. later \in Nat
    BY <1>2
  <2> HIDE DEF later
  <2>2. [w EXCEPT !.now = later] \in LbWorlds /\ [w EXCEPT !.now = later].now = later
        /\ [w EXCEPT !.now = later].front = w.front /\ [w EXCEPT !.now = later].fits = w.fits
    BY <1>1, <2>1 DEF LbWorlds
  <2> QED BY <1>3, <2>2 DEF later
<1>5. played + more \in Nat
  BY <1>1
<1>6. LbGood(l, w, played) => LbGood(l, v, played + more)
  <2> SUFFICES ASSUME LbGood(l, w, played) PROVE LbGood(l, v, played + more)
    OBVIOUS
  <2>1. /\ l.threw = {} /\ LbTimed(l.timing, w.now, played) /\ LbRecord(l.session) /\ LbPage(l) /\ LbShows(l, w)
        /\ l.timing.active \in BOOLEAN
    BY LbParted
  <2>2. LbTimed(l.timing, w.now + 1, played + (IF l.timing.active THEN 1 ELSE 0))
    BY <2>1, LbPasses
  <2>3. l.timing.active <=> l.surface = "playing"
    BY <2>1 DEF LbShows
  <2>4. LbTimed(l.timing, v.now, played + more)
    BY <1>4, <2>2, <2>3
  <2>5. LbShows(l, v)
    BY <1>4, <2>1 DEF LbShows, Fit
  <2> QED BY <2>1, <2>4, <2>5 DEF LbGood
<1> HIDE DEF more
<1>7. LabByTheRules' => LabByTheRules
  BY <1>1 DEF LabByTheRules
<1> QED BY <1>1, <1>4, <1>5, <1>6, <1>7 DEF LbInv

\* A ledger of time that begins.
LEMMA LbOpened == LbTimed(NewTiming(0), 0, 0) /\ ~IsOpen(NewTiming(0)) /\ NewTiming(0).active = FALSE
<1> DEFINE t == NewTiming(0)
           none == [k \in DOMAIN t.done |-> t.done[k].for]
<1>1. /\ t.origin = 0 /\ t.at = 0 /\ t.active = FALSE /\ t.play = 0 /\ t.paused = 0 /\ t.done = <<>>
      /\ t.open = NoInterruption
  BY DEF NewTiming
<1>2. <<>> \in Seq(LbPauses) /\ Len(<<>>) = 0
  OBVIOUS
<1>3. t \in LbTimings
  BY <1>2 DEF NewTiming, LbTimings, LbOpens
<1>4. PausedIn(t.done) = 0
  <2>1. none = <<>> /\ <<>> \in Seq(Int)
    BY <1>1
  <2>2. PausedIn(t.done) = Total(<<>>)
    BY <2>1 DEF PausedIn
  <2>3. PICK g : Total(<<>>) = g[Len(<<>>)] /\ g[0] = 0
    <3>1. \A seq \in Seq(Int) : \E g : Total(seq) = g[Len(seq)] /\ g[0] = 0
      BY TotalSums
    <3> QED BY <2>1, <3>1
  <2> QED BY <1>2, <2>2, <2>3
<1> HIDE DEF t
<1>5. LabInterruptions \in Nat
  BY LabAssumption
<1>6. ~IsOpen(t)
  BY <1>1 DEF IsOpen
<1>7. TimingOk(t)
  BY <1>1, <1>2, <1>4, <1>5, <1>6 DEF TimingOk, Ordered
<1>8. Accrued(t, 0) = 0
  BY <1>1 DEF Accrued
<1> QED BY <1>1, <1>3, <1>6, <1>7, <1>8 DEF LbTimed, t

\* The page opens so.
LEMMA LbInitKept ==
  ASSUME LabInit
  PROVE  LbInv
<1>1. PICK mode \in {"human", "test-driver"} :
        lab = Welcome([session |-> LabNewSession(mode), timing |-> NewTiming(0), engine |-> LabNewEngine(FreshRun),
                       surface |-> "welcome", prior |-> "welcome", action |-> "none", terminal |-> NoTerminal,
                       pulse |-> NoPulse, timer |-> 0, threw |-> {}, passed |-> FALSE])
  BY DEF LabInit
<1> DEFINE s == LabNewSession(mode)
           t == NewTiming(0)
           e == LabNewEngine(FreshRun)
<1>2. LbRecord(s) /\ s.phase = "welcome"
  BY LbNew
<1>3. LbTimed(t, 0, 0) /\ ~IsOpen(t) /\ t.active = FALSE
  BY LbOpened
<1> HIDE DEF s, t, e
<1>4. /\ lab.session = s /\ lab.timing = t /\ lab.surface = "welcome" /\ lab.prior = "welcome"
      /\ lab.action \in {"none", "startTestPractice"} /\ lab.timer = 0 /\ lab.threw = {} /\ LbShape(lab)
  BY <1>1 DEF LbShape, LbFields, LbActions, Welcome, s, t, e
<1>5. labWorld \in LbWorlds /\ labWorld.now = 0 /\ labPlayed = 0
  <2>1. labWorld \in [now : {0}, front : BOOLEAN, fits : {TRUE}] /\ labPlayed = 0
    BY DEF LabInit
  <2>2. /\ labWorld.now = 0 /\ labWorld.front \in BOOLEAN /\ labWorld.fits \in BOOLEAN
        /\ labWorld = [now |-> labWorld.now, front |-> labWorld.front, fits |-> labWorld.fits]
    BY <2>1
  <2> QED BY <2>1, <2>2 DEF LbWorlds
<1>6. LbFace(lab) = "welcome"
  BY <1>4 DEF LbFace
<1>7. LbPage(lab)
  BY <1>2, <1>4, <1>6 DEF LbPage, LbPhases, LbOnStage, LbSurfaces, LbPriors, LabPlay
<1>8. LbShows(lab, labWorld)
  BY <1>3, <1>4 DEF LbShows
<1>9. LbGood(lab, labWorld, labPlayed)
  BY <1>2, <1>3, <1>4, <1>5, <1>7, <1>8 DEF LbGood
<1> QED BY <1>4, <1>5, <1>9 DEF LbInv

\* Every step keeps what the page relies on.
LEMMA LbStepKept ==
  ASSUME LbInv, [LabNext]_labVars
  PROVE  LbInv'
<1>1. CASE UNCHANGED labVars
  BY <1>1 DEF labVars, LbInv, LabByTheRules
<1>2. CASE LabConsent \/ LabAct
  BY <1>2, LbActKept
<1>3. CASE LabCount \/ LabSkipCountdown
  BY <1>3, LbCountKept
<1>4. CASE LabFrame
  BY <1>4, LbFrameKept
<1>5. CASE LabBacklog \/ LabPauseRequest \/ LabResume \/ LabFinish
  BY <1>5, LbAskedKept
<1>6. CASE LabPulse
  BY <1>6, LbPulseKept
<1>7. CASE LabCompare \/ LabFreeze \/ LabDebrief
  BY <1>7, LbFrozenKept
<1>8. CASE LabStop
  BY <1>8, LbStopKept
<1>9. CASE LabWindow
  BY <1>9, LbWindowKept
<1>10. CASE LabTime
  BY <1>10, LbTimeKept
<1> QED BY <1>1, <1>2, <1>3, <1>4, <1>5, <1>6, <1>7, <1>8, <1>9, <1>10 DEF LabNext

\* It is what the record stands on.
LEMMA LbStands ==
  ASSUME LbInv
  PROVE  LabRecordStands
<1> DEFINE l == lab  w == labWorld  s == l.session
<1> SUFFICES ASSUME LabByTheRules
             PROVE  /\ l.threw = {}
                    /\ l.surface = "paused" <=> IsOpen(l.timing)
                    /\ l.surface = "playing" => Fit(w)
                    /\ l.timing.active <=> l.surface = "playing"
                    /\ l.surface = "countdown" <=> l.timer > 0
                    /\ TimingOk(l.timing) /\ Accrued(l.timing, w.now) = labPlayed
                    /\ s.phase \in LabPlay => s.ticks = l.engine.tick /\ s.stage > 0
                    /\ s.phase = "comparison" => ArtifactOk(s)
                    /\ s.phase = "comparison" /\ l.surface # "paused" =>
                         l.surface = "stopped" \/ FreezeLegal(s, l.timing, w.now)
  BY DEF LabRecordStands
<1>1. LbGood(l, w, labPlayed)
  BY DEF LbInv
<1>2. l.threw = {} /\ LbTimed(l.timing, w.now, labPlayed) /\ LbRecord(s) /\ LbPage(l) /\ LbShows(l, w)
  BY <1>1, LbParted
<1>3. TimingOk(l.timing) /\ Accrued(l.timing, w.now) = labPlayed
  BY <1>2 DEF LbTimed
<1>4. s.phase \in LabPlay => s.ticks = l.engine.tick /\ s.stage > 0
  BY <1>2 DEF LbPage, LbPlays
<1>5. s.phase = "comparison" => ArtifactOk(s) /\ Len(s.rounds) = 2
  BY <1>2, LbAccepted
<1>6. s.phase = "comparison" /\ l.surface # "paused" => FreezeLegal(s, l.timing, w.now)
  <2>1. l.surface # "paused" => SnapshotOk(l.timing, w.now)
    BY <1>2, LbCloses DEF LbShows
  <2> QED BY <1>5, <2>1 DEF FreezeLegal
<1> QED BY <1>2, <1>3, <1>4, <1>5, <1>6 DEF LbShows

\* A playtest that keeps to the rules of its page keeps a record its own boundary
\* accepts: time told as played is the time play was shown, a pause holds, nothing
\* counts down or is timed unseen, and the comparison can always be frozen.
THEOREM LabRecordIsKept == LabSpec => []LabRecordStands
<1>1. LabInit => LbInv
  BY LbInitKept
<1>2. LbInv /\ [LabNext]_labVars => LbInv'
  BY LbStepKept
<1>3. LbInv => LabRecordStands
  BY LbStands
<1> QED BY <1>1, <1>2, <1>3, PTL DEF LabSpec
=============================================================================
