------------------------ MODULE MaltlineEngineProofs ------------------------
(***************************************************************************)
(* What a stage of Maltline promises, for every bar, every number of       *)
(* customers, jars and lives, and every sequence of inputs: no jar and no  *)
(* customer is lost on the way, and every point was earned.                *)
(*                                                                         *)
(* The invariant counts.  A step moves a jar from one place to another, or *)
(* smashes it and takes a life; it moves a customer through the shop, or   *)
(* out of it; and it pays for a first order or a caught jar.  So each step *)
(* is a small change to the cardinalities of a few sets, and most of the   *)
(* work is in the lemmas that say how much.                                *)
(***************************************************************************)
EXTENDS MaltlineEngine, FiniteSetTheorems, FunctionTheorems, SequenceTheorems, TLAPS

-----------------------------------------------------------------------------
(* Sequences and least elements                                            *)

(* A set of natural numbers that is not empty has a least element, and     *)
(* Least finds it.                                                         *)
LEMMA LeastIsLeast ==
  ASSUME NEW S, S \subseteq Nat, S # {}
  PROVE  Least(S) \in S /\ \A j \in S : Least(S) <= j
<1>1. \E i \in S : \A j \in S : ~(<<j, i>> \in OpToRel(<, Nat))
  BY NatLessThanWellFounded, WFMin
<1>2. PICK i \in S : \A j \in S : ~(<<j, i>> \in OpToRel(<, Nat))
  BY <1>1
<1>3. \A j \in S : i <= j
  <2>1. ASSUME NEW j \in S PROVE i <= j
    <3>1. ~(<<j, i>> \in OpToRel(<, Nat))
      BY <1>2, <2>1
    <3>2. <<j, i>> \in Nat \X Nat
      OBVIOUS
    <3>3. ~(j < i)
      BY <3>1, <3>2 DEF OpToRel
    <3> QED BY <3>3
  <2> QED BY <2>1
<1> QED BY <1>3 DEF Least

(* A sequence without its i-th element.                                    *)
LEMMA WithoutIsShorter ==
  ASSUME NEW T, NEW s \in Seq(T), NEW i \in 1 .. Len(s)
  PROVE  Without(s, i) \in Seq(T) /\ Len(Without(s, i)) = Len(s) - 1
<1> DEFINE n == Len(s) - 1
<1>1. n \in Nat /\ Len(s) \in Nat /\ s \in [1 .. Len(s) -> T]
  OBVIOUS
<1>2. Without(s, i) \in [1 .. n -> T]
  BY <1>1 DEF Without
<1>3. Without(s, i) \in Seq(T)
  BY <1>1, <1>2, SeqDef
<1>4. Len(Without(s, i)) \in Nat /\ 1 .. Len(Without(s, i)) = 1 .. n
  BY <1>2, <1>3, LenProperties
<1>5. ASSUME NEW a \in Nat, NEW b \in Nat, 1 .. a = 1 .. b PROVE a = b
  BY <1>5, FS_Interval
<1> QED BY <1>1, <1>3, <1>4, <1>5

-----------------------------------------------------------------------------
(* The bar: what the player does moves jars and loses none.                *)

Hand(b) == (IF b.holding = Nothing THEN 0 ELSE 1) + (IF b.blending = Nothing THEN 0 ELSE 1)
Jars(b) == b.free + Len(b.washing) + Hand(b)

\* One jar at most is in the player's hands.
OneHand(b) == b \in Bar /\ (b.holding = Nothing \/ b.blending = Nothing)

(* The bar keeps its jars from b to d.                                     *)
Keeps(b, d) == OneHand(d) /\ Jars(d) = Jars(b)

(* A flavor is not the empty hand.                                         *)
LEMMA FlavorIsSomething == Nothing \notin Flavors
BY StageShape DEF Flavors

(* What a bar is made of.                                                  *)
LEMMA BarFields ==
  ASSUME NEW b \in Bar
  PROVE  /\ b.lane \in Lane /\ b.station \in 1 .. Len(Stations) /\ b.x \in 0 .. Reach
         /\ b.holding \in Flavors \cup {Nothing} /\ b.blending \in Flavors \cup {Nothing}
         /\ b.progress \in 0 .. BlendTicks /\ b.free \in Nat /\ b.washing \in Seq(1 .. WashTicks)
         /\ Len(b.washing) \in Nat
BY DEF Bar

(* A place for a jar in the wash.                                          *)
LEMMA WashAppended ==
  ASSUME NEW s \in Seq(1 .. WashTicks)
  PROVE  /\ Append(s, WashTicks) \in Seq(1 .. WashTicks) /\ Len(Append(s, WashTicks)) = Len(s) + 1
BY StageShape

(* A pour given up puts its jar back.                                      *)
LEMMA LosePourKeeps ==
  ASSUME NEW b, OneHand(b) PROVE Keeps(b, LosePour(b)) /\ LosePour(b).holding = b.holding /\ LosePour(b).blending = Nothing
<1>1. CASE b.blending = Nothing
  BY <1>1 DEF LosePour, Keeps
<1>2. CASE b.blending # Nothing
  <2>1. LosePour(b) = [b EXCEPT !.blending = Nothing, !.progress = 0, !.free = @ + 1]
    BY <1>2 DEF LosePour
  <2>2. LosePour(b) \in Bar
    <3>1. 0 \in 0 .. BlendTicks /\ b.free + 1 \in Nat
      BY BarFields, StageShape DEF OneHand
    <3> QED BY <2>1, <3>1 DEF OneHand, Bar
  <2>3. /\ LosePour(b).holding = b.holding /\ LosePour(b).blending = Nothing /\ LosePour(b).washing = b.washing
        /\ LosePour(b).free = b.free + 1
    BY <2>1 DEF OneHand, Bar
  <2>4. b \in Bar /\ b.free \in Nat /\ Len(b.washing) \in Nat
    BY BarFields DEF OneHand
  <2> QED BY <1>2, <2>2, <2>3, <2>4 DEF Keeps, OneHand, Jars, Hand
<1> QED BY <1>1, <1>2

(* A shake thrown away leaves its jar in the wash.                         *)
LEMMA DiscardKeeps ==
  ASSUME NEW b, OneHand(b) PROVE Keeps(b, Discard(b)) /\ Discard(b).blending = b.blending
<1>1. CASE b.holding = Nothing
  BY <1>1 DEF Discard, Keeps
<1>2. CASE b.holding # Nothing
  <2>1. Discard(b) = [b EXCEPT !.holding = Nothing, !.washing = Append(b.washing, WashTicks)]
    BY <1>2 DEF Discard
  <2>2. /\ Append(b.washing, WashTicks) \in Seq(1 .. WashTicks) /\ Len(Append(b.washing, WashTicks)) = Len(b.washing) + 1
        /\ b.free \in Nat /\ Len(b.washing) \in Nat
    BY BarFields, WashAppended DEF OneHand
  <2>3. Discard(b) \in Bar
    BY <2>1, <2>2 DEF OneHand, Bar
  <2>4. /\ Discard(b).holding = Nothing /\ Discard(b).blending = b.blending /\ Discard(b).free = b.free
        /\ Discard(b).washing = Append(b.washing, WashTicks)
    BY <2>1 DEF OneHand, Bar
  <2> QED BY <1>2, <2>2, <2>3, <2>4 DEF Keeps, OneHand, Jars, Hand
<1> QED BY <1>1, <1>2

(* Moving the player, or the station he stands at, moves no jar.           *)
LEMMA MovedKeeps ==
  ASSUME NEW b, OneHand(b), NEW lane \in Lane, NEW station \in 1 .. Len(Stations), NEW x \in 0 .. Reach
  PROVE  /\ Keeps(b, [b EXCEPT !.lane = lane, !.x = x]) /\ Keeps(b, [b EXCEPT !.x = x])
         /\ Keeps(b, [b EXCEPT !.station = station])
BY DEF Keeps, OneHand, Bar, Jars, Hand

(* Keeping the jars twice keeps them.                                      *)
LEMMA KeepsOn ==
  ASSUME NEW b, NEW c, NEW d, Keeps(b, c), Keeps(c, d) PROVE Keeps(b, d)
BY DEF Keeps

(* Running along the counter loses a pour and no jar.                      *)
LEMMA RunKeeps ==
  ASSUME NEW b, OneHand(b), NEW dir \in {-1, 1} PROVE Keeps(b, RunAlong(b, dir))
<1> DEFINE x == b.x + Stride * dir
           y == IF x < 0 THEN 0 ELSE IF x > Reach THEN Reach ELSE x
           z == IF dir < 0 /\ y <= Home THEN 0 ELSE y
<1>1. x \in Int
  BY BarFields, StageShape DEF OneHand
<1>2. z \in 0 .. Reach
  <2> HIDE DEF x
  <2> QED BY <1>1, StageShape
<1>3. RunAlong(b, dir) = [LosePour(b) EXCEPT !.x = z]
  BY DEF RunAlong
<1> HIDE DEF z
<1>4. Keeps(b, LosePour(b))
  BY LosePourKeeps
<1>5. Keeps(LosePour(b), [LosePour(b) EXCEPT !.x = z])
  <2>1. OneHand(LosePour(b)) /\ 0 \in Lane /\ 1 \in 1 .. Len(Stations)
    BY <1>4, StageShape DEF Keeps, Lane
  <2> QED BY <1>2, <2>1, MovedKeeps
<1> QED BY <1>3, <1>4, <1>5, KeepsOn

(* Nor does another station, under either set of controls.                 *)
LEMMA SelectStationKeeps ==
  ASSUME NEW b, OneHand(b), NEW dir \in {-1, 1} PROVE Keeps(b, SelectStation(b, dir))
<1> DEFINE n == Len(Stations)
           next == b.station + dir
           round == IF next < 1 THEN n ELSE IF next > n THEN 1 ELSE next
           stop == IF next < 1 THEN 1 ELSE IF next > n THEN n ELSE next
<1>1. n \in Nat /\ n > 0 /\ next \in Int /\ 0 \in Lane /\ 0 \in 0 .. Reach
  BY BarFields, StageShape DEF OneHand, Lane
<1>2. round \in 1 .. n /\ stop \in 1 .. n
  <2> HIDE DEF next, n
  <2> QED BY <1>1
<1>3. SelectStation(b, dir) = IF TwoButton THEN [LosePour(Discard(b)) EXCEPT !.station = round] ELSE [b EXCEPT !.station = stop]
  BY DEF SelectStation
<1> HIDE DEF round, stop
<1>4. Keeps(b, [b EXCEPT !.station = stop])
  BY <1>1, <1>2, MovedKeeps
<1>5. Keeps(b, Discard(b)) /\ Keeps(Discard(b), LosePour(Discard(b)))
  BY DiscardKeeps, LosePourKeeps DEF Keeps
<1>6. Keeps(LosePour(Discard(b)), [LosePour(Discard(b)) EXCEPT !.station = round])
  BY <1>1, <1>2, <1>5, MovedKeeps DEF Keeps
<1> QED BY <1>3, <1>4, <1>5, <1>6, KeepsOn

(* Running or turning to a station.                                        *)
LEMMA TurnKeeps ==
  ASSUME NEW b, OneHand(b), NEW i \in Inputs PROVE Keeps(b, Turn(b, i))
<1>1. i.station \in {-1, 0, 1}
  BY DEF Inputs
<1>2. Keeps(b, b)
  BY DEF Keeps
<1> QED BY <1>1, <1>2, RunKeeps, SelectStationKeeps DEF Turn, Running

(* Changing the lane.                                                      *)
LEMMA ChangeLaneKeeps ==
  ASSUME NEW b, OneHand(b), NEW i \in Inputs PROVE Keeps(b, ChangeLane(b, i))
<1> DEFINE lane == (b.lane + i.lane + Lanes) % Lanes
<1>1. lane \in Lane
  <2>1. b.lane + i.lane + Lanes \in Int /\ Lanes \in Nat \ {0}
    BY BarFields, StageShape DEF OneHand, Inputs, Lane
  <2> QED BY <2>1 DEF Lane
<1>2. ChangeLane(b, i) = b \/ ChangeLane(b, i) = [b EXCEPT !.lane = lane, !.x = 0]
  BY DEF ChangeLane
<1> HIDE DEF lane
<1>3. 0 \in 0 .. Reach /\ 1 \in 1 .. Len(Stations) /\ Keeps(b, b)
  BY StageShape DEF Keeps
<1>4. Keeps(b, [b EXCEPT !.lane = lane, !.x = 0])
  BY <1>1, <1>3, MovedKeeps
<1> QED BY <1>2, <1>3, <1>4

(* Being called back to the mixer.                                         *)
LEMMA RecallKeeps ==
  ASSUME NEW b, OneHand(b), NEW i \in Inputs PROVE Keeps(b, Recall(b, i))
<1>1. Recall(b, i) = b \/ Recall(b, i) = [b EXCEPT !.x = 0]
  BY DEF Recall
<1>2. 0 \in 0 .. Reach /\ 1 \in 1 .. Len(Stations) /\ 0 \in Lane /\ Keeps(b, b)
  BY StageShape DEF Keeps, Lane
<1> QED BY <1>1, <1>2, MovedKeeps

(* A pour takes a free jar to hand.                                        *)
LEMMA StartPourKeeps ==
  ASSUME NEW b, OneHand(b), b.blending = Nothing, b.holding = Nothing, b.free > 0 PROVE Keeps(b, StartPour(b))
<1> DEFINE flavor == Stations[b.station]
<1>1. flavor \in Flavors /\ flavor # Nothing /\ b.free - 1 \in Nat /\ Len(b.washing) \in Nat
  BY BarFields, StageShape DEF OneHand, Flavors
<1>2. StartPour(b) = [b EXCEPT !.blending = flavor, !.progress = 0, !.free = b.free - 1]
  BY DEF StartPour
<1> HIDE DEF flavor
<1>3. StartPour(b) \in Bar
  <2>1. 0 \in 0 .. BlendTicks
    BY StageShape
  <2> QED BY <1>1, <1>2, <2>1 DEF OneHand, Bar
<1>4. /\ StartPour(b).holding = b.holding /\ StartPour(b).blending = flavor /\ StartPour(b).washing = b.washing
      /\ StartPour(b).free = b.free - 1
  BY <1>2 DEF OneHand, Bar
<1>5. OneHand(StartPour(b))
  BY <1>3, <1>4 DEF OneHand
<1>6. Hand(b) = 0 /\ Hand(StartPour(b)) = 1
  BY <1>1, <1>4 DEF Hand
<1>7. b.free \in Nat
  BY BarFields DEF OneHand
<1> QED BY <1>1, <1>4, <1>5, <1>6, <1>7 DEF Keeps, Jars

(* A pour goes on, or is done and in the hand.                             *)
LEMMA PourKeeps ==
  ASSUME NEW b, OneHand(b), b.blending # Nothing PROVE Keeps(b, Pour(b))
<1>1. b.holding = Nothing /\ b.blending \in Flavors /\ b.progress \in 0 .. BlendTicks /\ b.free \in Nat /\ Len(b.washing) \in Nat
  BY BarFields DEF OneHand
<1>2. CASE b.progress + 1 >= BlendTicks
  <2>1. Pour(b) = [b EXCEPT !.holding = b.blending, !.blending = Nothing, !.progress = 0]
    BY <1>2 DEF Pour
  <2>2. Pour(b) \in Bar
    <3>1. 0 \in 0 .. BlendTicks
      BY StageShape
    <3> QED BY <1>1, <2>1, <3>1 DEF OneHand, Bar
  <2>3. Pour(b).holding = b.blending /\ Pour(b).blending = Nothing /\ Pour(b).washing = b.washing /\ Pour(b).free = b.free
    BY <2>1 DEF OneHand, Bar
  <2> QED BY <1>1, <2>2, <2>3 DEF Keeps, OneHand, Jars, Hand
<1>3. CASE ~(b.progress + 1 >= BlendTicks)
  <2>1. Pour(b) = [b EXCEPT !.progress = b.progress + 1]
    BY <1>3 DEF Pour
  <2>2. b.progress + 1 \in 0 .. BlendTicks
    BY <1>1, <1>3, StageShape
  <2>3. Pour(b) \in Bar
    BY <2>1, <2>2 DEF OneHand, Bar
  <2>4. Pour(b).holding = b.holding /\ Pour(b).blending = b.blending /\ Pour(b).washing = b.washing /\ Pour(b).free = b.free
    BY <2>1 DEF OneHand, Bar
  <2> QED BY <1>1, <2>3, <2>4 DEF Keeps, OneHand, Jars, Hand
<1> QED BY <1>2, <1>3

(* Starting, going on and giving up.                                       *)
LEMMA WorkKeeps ==
  ASSUME NEW b, OneHand(b), NEW i \in Inputs PROVE Keeps(b, Work(b, i))
<1>1. Keeps(b, b)
  BY DEF Keeps
<1> QED BY <1>1, StartPourKeeps, PourKeeps, LosePourKeeps DEF Work

(* One input, from turning to pouring, keeps every jar.                    *)
LEMMA WorkedKeeps ==
  ASSUME OneHand(bar), NEW i \in Inputs PROVE Keeps(bar, Worked(i))
<1> DEFINE t == Turn(bar, i)
           l == ChangeLane(t, i)
           r == Recall(l, i)
<1>1. Keeps(bar, t) /\ OneHand(t)
  BY TurnKeeps DEF Keeps
<1>2. Keeps(t, l) /\ OneHand(l)
  BY <1>1, ChangeLaneKeeps DEF Keeps
<1>3. Keeps(l, r) /\ OneHand(r)
  BY <1>2, RecallKeeps DEF Keeps
<1>4. Keeps(r, Work(r, i))
  BY <1>3, WorkKeeps
<1>5. Worked(i) = Work(r, i)
  BY DEF Worked
<1> HIDE DEF t, l, r
<1> QED BY <1>1, <1>2, <1>3, <1>4, <1>5, KeepsOn

-----------------------------------------------------------------------------
(* Counting customers and jars                                             *)

Satisfied == {c \in Customer : customers[c].fulfilled}
Waiting == {c \in Customer : customers[c].phase # "none" /\ ~customers[c].fulfilled}
Rewarded == {c \in Customer : customers[c].bonus}
Bonuses(s) == {j \in 1 .. Len(s) : s[j].bonus}
Jar == [lane : Lane, x : 0 .. LaneLength, bonus : BOOLEAN]
Shake == [lane : Lane, x : 0 .. LaneLength, flavor : Flavors]
Bit(p) == IF p THEN 1 ELSE 0

Guests == Cardinality(Present)
Drinkers == Cardinality(Drinking)
Pleased == Cardinality(Satisfied)
Unserved == Cardinality(Waiting)
Promised == Cardinality(Rewarded)
Pending == Cardinality(Bonuses(jars))
Owed == Promised + Pending
BarJars == Jars(bar)
Shakes == Len(slides)
Empties == Len(jars)

(* Customers can be counted.                                               *)
LEMMA CustomersAreFinite ==
  ASSUME NEW S \in SUBSET Customer PROVE IsFiniteSet(S) /\ Cardinality(S) \in Nat
<1>1. IsFiniteSet(Customer)
  BY FS_Interval, StageShape DEF Customer
<1> QED BY <1>1, FS_Subset, FS_CardinalityType

(* Two sets that differ in one member at most.                             *)
LEMMA OneMemberApart ==
  ASSUME NEW S, NEW T, IsFiniteSet(S), IsFiniteSet(T), NEW c, \A d \in (S \cup T) \ {c} : d \in S /\ d \in T
  PROVE  Cardinality(T) = Cardinality(S) + Bit(c \in T) - Bit(c \in S)
<1>1. S \ {c} = T \ {c}
  OBVIOUS
<1>2. /\ Cardinality(S \ {c}) = IF c \in S THEN Cardinality(S) - 1 ELSE Cardinality(S)
      /\ Cardinality(T \ {c}) = IF c \in T THEN Cardinality(T) - 1 ELSE Cardinality(T)
      /\ Cardinality(S) \in Nat /\ Cardinality(T) \in Nat
  BY FS_RemoveElement, FS_CardinalityType
<1> QED BY <1>1, <1>2 DEF Bit

(* What a change of one customer's record does to the counts.              *)
LEMMA OneRecordChanges ==
  ASSUME customers \in [Customer -> Record], NEW c \in Customer, NEW r, customers' = [customers EXCEPT ![c] = r]
  PROVE  /\ Guests' = Guests + Bit(r.phase # "none") - Bit(customers[c].phase # "none")
         /\ Drinkers' = Drinkers + Bit(r.phase = "drinking") - Bit(customers[c].phase = "drinking")
         /\ Pleased' = Pleased + Bit(r.fulfilled) - Bit(customers[c].fulfilled)
         /\ Unserved' = Unserved + Bit(r.phase # "none" /\ ~r.fulfilled)
                       - Bit(customers[c].phase # "none" /\ ~customers[c].fulfilled)
         /\ Promised' = Promised + Bit(r.bonus) - Bit(customers[c].bonus)
<1>1. customers'[c] = r /\ \A d \in Customer \ {c} : customers'[d] = customers[d]
  OBVIOUS
<1>2. \A S \in SUBSET Customer : IsFiniteSet(S)
  BY CustomersAreFinite
<1>3. Guests' = Guests + Bit(r.phase # "none") - Bit(customers[c].phase # "none")
  <2>1. Present \subseteq Customer /\ Present' \subseteq Customer
    BY DEF Present
  <2>2. \A d \in (Present \cup Present') \ {c} : d \in Present /\ d \in Present'
    BY <1>1 DEF Present
  <2>3. (c \in Present' <=> r.phase # "none") /\ (c \in Present <=> customers[c].phase # "none")
    BY <1>1 DEF Present
  <2>4. Cardinality(Present') = Cardinality(Present) + Bit(c \in Present') - Bit(c \in Present)
    BY <1>2, <2>1, <2>2, OneMemberApart
  <2> QED BY <2>3, <2>4 DEF Bit, Guests
<1>4. Drinkers' = Drinkers + Bit(r.phase = "drinking") - Bit(customers[c].phase = "drinking")
  <2>1. Drinking \subseteq Customer /\ Drinking' \subseteq Customer
    BY DEF Drinking
  <2>2. \A d \in (Drinking \cup Drinking') \ {c} : d \in Drinking /\ d \in Drinking'
    BY <1>1 DEF Drinking
  <2>3. (c \in Drinking' <=> r.phase = "drinking") /\ (c \in Drinking <=> customers[c].phase = "drinking")
    BY <1>1 DEF Drinking
  <2>4. Cardinality(Drinking') = Cardinality(Drinking) + Bit(c \in Drinking') - Bit(c \in Drinking)
    BY <1>2, <2>1, <2>2, OneMemberApart
  <2> QED BY <2>3, <2>4 DEF Bit, Drinkers
<1>5. Pleased' = Pleased + Bit(r.fulfilled) - Bit(customers[c].fulfilled)
  <2>1. Satisfied \subseteq Customer /\ Satisfied' \subseteq Customer
    BY DEF Satisfied
  <2>2. \A d \in (Satisfied \cup Satisfied') \ {c} : d \in Satisfied /\ d \in Satisfied'
    BY <1>1 DEF Satisfied
  <2>3. (c \in Satisfied' <=> r.fulfilled) /\ (c \in Satisfied <=> customers[c].fulfilled)
    BY <1>1 DEF Satisfied
  <2>4. Cardinality(Satisfied') = Cardinality(Satisfied) + Bit(c \in Satisfied') - Bit(c \in Satisfied)
    BY <1>2, <2>1, <2>2, OneMemberApart
  <2> QED BY <2>3, <2>4 DEF Bit, Pleased
<1>6. Unserved' = Unserved + Bit(r.phase # "none" /\ ~r.fulfilled)
                               - Bit(customers[c].phase # "none" /\ ~customers[c].fulfilled)
  <2>1. Waiting \subseteq Customer /\ Waiting' \subseteq Customer
    BY DEF Waiting
  <2>2. \A d \in (Waiting \cup Waiting') \ {c} : d \in Waiting /\ d \in Waiting'
    BY <1>1 DEF Waiting
  <2>3. /\ c \in Waiting' <=> r.phase # "none" /\ ~r.fulfilled
        /\ c \in Waiting <=> customers[c].phase # "none" /\ ~customers[c].fulfilled
    BY <1>1 DEF Waiting
  <2>4. Cardinality(Waiting') = Cardinality(Waiting) + Bit(c \in Waiting') - Bit(c \in Waiting)
    BY <1>2, <2>1, <2>2, OneMemberApart
  <2> QED BY <2>3, <2>4 DEF Bit, Unserved
<1>7. Promised' = Promised + Bit(r.bonus) - Bit(customers[c].bonus)
  <2>1. Rewarded \subseteq Customer /\ Rewarded' \subseteq Customer
    BY DEF Rewarded
  <2>2. \A d \in (Rewarded \cup Rewarded') \ {c} : d \in Rewarded /\ d \in Rewarded'
    BY <1>1 DEF Rewarded
  <2>3. (c \in Rewarded' <=> r.bonus) /\ (c \in Rewarded <=> customers[c].bonus)
    BY <1>1 DEF Rewarded
  <2>4. Cardinality(Rewarded') = Cardinality(Rewarded) + Bit(c \in Rewarded') - Bit(c \in Rewarded)
    BY <1>2, <2>1, <2>2, OneMemberApart
  <2> QED BY <2>3, <2>4 DEF Bit, Promised
<1> QED BY <1>3, <1>4, <1>5, <1>6, <1>7

(* So can the jars with a bonus.                                           *)
LEMMA BonusesAreFinite ==
  ASSUME NEW s \in Seq(Jar) PROVE IsFiniteSet(Bonuses(s)) /\ Cardinality(Bonuses(s)) \in Nat
<1>1. IsFiniteSet(1 .. Len(s)) /\ Bonuses(s) \subseteq 1 .. Len(s)
  BY FS_Interval, LenProperties DEF Bonuses
<1> QED BY <1>1, FS_Subset, FS_CardinalityType

(* A jar set on the counter.                                               *)
LEMMA BonusAppended ==
  ASSUME NEW s \in Seq(Jar), NEW e \in Jar
  PROVE  Cardinality(Bonuses(Append(s, e))) = Cardinality(Bonuses(s)) + Bit(e.bonus)
<1> DEFINE t == Append(s, e)
           n == Len(s) + 1
<1>1. t \in Seq(Jar) /\ Len(t) = n /\ t[n] = e /\ n \in Nat /\ n > Len(s) /\ \A j \in 1 .. Len(s) : t[j] = s[j]
  BY LenProperties
<1> HIDE DEF t
<1>2. \A d \in (Bonuses(s) \cup Bonuses(t)) \ {n} : d \in Bonuses(s) /\ d \in Bonuses(t)
  BY <1>1 DEF Bonuses
<1>3. n \notin Bonuses(s) /\ (n \in Bonuses(t) <=> e.bonus)
  BY <1>1 DEF Bonuses
<1>4. Cardinality(Bonuses(t)) = Cardinality(Bonuses(s)) + Bit(n \in Bonuses(t)) - Bit(n \in Bonuses(s))
  BY <1>1, <1>2, BonusesAreFinite, OneMemberApart
<1>5. Cardinality(Bonuses(s)) \in Nat /\ Cardinality(Bonuses(t)) \in Nat
  BY <1>1, BonusesAreFinite
<1> QED BY <1>3, <1>4, <1>5 DEF Bit, t

(* A jar taken off it: the jars behind it move up.                         *)
LEMMA BonusTaken ==
  ASSUME NEW s \in Seq(Jar), NEW i \in 1 .. Len(s)
  PROVE  Cardinality(Bonuses(Without(s, i))) = Cardinality(Bonuses(s)) - Bit(s[i].bonus)
<1> DEFINE t == Without(s, i)
           rest == Bonuses(s) \ {i}
           f == [j \in rest |-> IF j < i THEN j ELSE j - 1]
<1>1. /\ t \in Seq(Jar) /\ Len(t) = Len(s) - 1 /\ Len(s) \in Nat /\ i \in Nat /\ i > 0 /\ i <= Len(s)
      /\ \A j \in 1 .. Len(t) : t[j] = IF j < i THEN s[j] ELSE s[j + 1]
  BY WithoutIsShorter, LenProperties DEF Without
<1> HIDE DEF t
<1>2. /\ \A j \in rest : j \in 1 .. Len(s) /\ j # i /\ s[j].bonus
      /\ \A j \in 1 .. Len(s) : j # i /\ s[j].bonus => j \in rest
  BY DEF Bonuses
<1>3. \A j \in rest : f[j] \in Bonuses(t)
  <2> HIDE DEF rest, f
  <2>1. ASSUME NEW j \in rest, NEW k \in Int, k = IF j < i THEN j ELSE j - 1 PROVE k \in Bonuses(t)
    <3>1. j \in 1 .. Len(s) /\ j # i /\ s[j].bonus
      BY <1>2
    <3>2. k \in 1 .. Len(t)
      BY <1>1, <2>1, <3>1
    <3>3. t[k] = s[j]
      BY <1>1, <2>1, <3>1, <3>2
    <3> QED BY <3>1, <3>2, <3>3 DEF Bonuses
  <2>2. ASSUME NEW j \in rest PROVE f[j] \in Int /\ f[j] = IF j < i THEN j ELSE j - 1
    BY <1>2 DEF f
  <2> QED BY <2>1, <2>2
<1>4. \A j, k \in rest : f[j] = f[k] => j = k
  BY <1>1, <1>2
<1>5. \A k \in Bonuses(t) : \E j \in rest : f[j] = k
  <2>1. ASSUME NEW k \in Bonuses(t) PROVE \E j \in rest : f[j] = k
    <3>1. k \in 1 .. Len(t) /\ t[k].bonus
      BY <2>1 DEF Bonuses
    <3>2. CASE k < i
      <4>1. k \in rest
        BY <1>1, <1>2, <3>1, <3>2
      <4> QED BY <3>2, <4>1
    <3>3. CASE ~(k < i)
      <4>1. k + 1 \in rest /\ ~(k + 1 < i) /\ k + 1 - 1 = k
        BY <1>1, <1>2, <3>1, <3>3
      <4>2. PICK j \in rest : j = k + 1
        <5> HIDE DEF rest
        <5> QED BY <4>1
      <4>3. f[j] = k
        <5> HIDE DEF rest
        <5>1. f[j] = IF j < i THEN j ELSE j - 1
          BY <4>2
        <5> HIDE DEF f
        <5>2. k \in Int /\ i \in Int
          BY <1>1, <3>1
        <5> QED BY <4>1, <4>2, <5>1, <5>2
      <4> QED BY <4>2, <4>3
    <3> QED BY <3>2, <3>3
  <2> QED BY <2>1
<1>6. f \in [rest -> Bonuses(t)]
  BY <1>3
<1>7. ExistsBijection(rest, Bonuses(t))
  <2> HIDE DEF f, rest
  <2>1. f \in Bijection(rest, Bonuses(t))
    BY <1>4, <1>5, <1>6, Fun_IsBij
  <2> QED BY <2>1 DEF ExistsBijection
<1>8. IsFiniteSet(rest) /\ Cardinality(rest) = IF i \in Bonuses(s) THEN Cardinality(Bonuses(s)) - 1 ELSE Cardinality(Bonuses(s))
  BY BonusesAreFinite, FS_RemoveElement
<1>9. Cardinality(Bonuses(t)) = Cardinality(rest)
  <2> HIDE DEF f, rest
  <2> QED BY <1>7, <1>8, FS_Bijection
<1>10. i \in Bonuses(s) <=> s[i].bonus
  BY DEF Bonuses
<1>11. Cardinality(Bonuses(s)) \in Nat
  BY BonusesAreFinite
<1> QED BY <1>8, <1>9, <1>10, <1>11 DEF Bit, t

-----------------------------------------------------------------------------
(* The inductive invariant                                                 *)

\* TypeOK without prevServe, which is all there is to say of it.
StageOK ==
  /\ phase \in Phases /\ at \in Nat /\ beat \in 0 .. Beats - 1
  /\ status \in {"running", "won", "lost"} /\ score \in Nat /\ lives \in 0 .. StartLives
  /\ streak \in Nat /\ controlMode \in {"generation-2", "two-button-v1"} /\ bar \in Bar
  /\ customers \in [Customer -> Record]
  /\ slides \in Seq(Shake)
  /\ jars \in Seq(Jar)
  /\ spawnCountdown \in Nat
  /\ spawned \in 0 .. CustomerCount /\ serviceActions \in Nat /\ fulfilled \in Nat
  /\ walkouts \in Nat /\ resolved \in Nat /\ exited \in Nat

\* The loops start at their first element, the washing at its last.
Placed ==
  /\ phase \in {"customers", "slides", "jars"} => at >= 1
  /\ phase = "washing" => at <= Len(bar.washing)

\* Who drinks or leaves was served, and a bonus waits only on a glass in use.
WellServed(r) ==
  /\ r.phase = "none" => ~r.fulfilled /\ ~r.bonus
  /\ r.phase \in {"drinking", "leaving"} => r.fulfilled
  /\ r.bonus => r.phase = "drinking"
Kept == \A c \in Customer : WellServed(customers[c]) /\ (c > spawned => customers[c].phase = "none")

\* JarsAreAccounted, without a difference.
JarsHeld == BarJars + Shakes + Drinkers + Empties + StartLives = JarPool + lives + walkouts

\* Everyone satisfied left or is in the shop, and who is not served yet is still to be counted.
CustomersHeld ==
  /\ spawned = Guests + resolved /\ resolved = walkouts + exited
  /\ Pleased + exited <= fulfilled /\ fulfilled + Unserved <= spawned

EndHeld == (status = "lost" <=> lives = 0) /\ (status = "won" => Cleared)

Points(served, unpaid) == StartScore + served * (ServeBase + ServeStep * ServeCap) + (served - unpaid) * JarCatch
ScoreHeld ==
  score <= Points(fulfilled, Owed) + (IF status = "won" THEN ClearBonus * lives ELSE 0)

StageInv == StageOK /\ OneHand(bar) /\ Placed /\ Kept /\ JarsHeld /\ CustomersHeld /\ EndHeld /\ ScoreHeld

-----------------------------------------------------------------------------
(* What the steps have in common                                           *)

\* What is counted.
Numbers ==
  /\ Guests \in Nat /\ Drinkers \in Nat /\ Pleased \in Nat /\ Unserved \in Nat
  /\ Promised \in Nat /\ Pending \in Nat /\ Owed \in Nat /\ BarJars \in Nat /\ Shakes \in Nat /\ Empties \in Nat
  /\ lives \in Nat /\ walkouts \in Nat /\ exited \in Nat /\ resolved \in Nat /\ fulfilled \in Nat
  /\ spawned \in Nat /\ score \in Nat /\ streak \in Nat
  /\ StartLives \in Nat /\ JarPool \in Nat /\ CustomerCount \in Nat

(* In a stage of the right shape all of them are numbers.                  *)
LEMMA StageOKNumbers == StageOK => Numbers
<1> SUFFICES ASSUME StageOK PROVE Numbers
  OBVIOUS
<1>1. StartLives \in Nat /\ JarPool \in Nat /\ CustomerCount \in Nat
  BY StageShape
<1>2. /\ lives \in Nat /\ walkouts \in Nat /\ exited \in Nat /\ resolved \in Nat /\ fulfilled \in Nat
      /\ spawned \in Nat /\ score \in Nat /\ streak \in Nat
  BY <1>1 DEF StageOK
<1>3. /\ Present \in SUBSET Customer /\ Drinking \in SUBSET Customer /\ Satisfied \in SUBSET Customer
      /\ Waiting \in SUBSET Customer /\ Rewarded \in SUBSET Customer
  BY DEF Present, Drinking, Satisfied, Waiting, Rewarded
<1>4. Guests \in Nat /\ Drinkers \in Nat /\ Pleased \in Nat /\ Unserved \in Nat /\ Promised \in Nat
  BY <1>3, CustomersAreFinite DEF Guests, Drinkers, Pleased, Unserved, Promised
<1>5. Pending \in Nat /\ Shakes \in Nat /\ Empties \in Nat
  BY BonusesAreFinite, LenProperties DEF StageOK, Pending, Shakes, Empties
<1>6. BarJars \in Nat
  BY BarFields DEF StageOK, BarJars, Jars, Hand
<1> QED BY <1>1, <1>2, <1>4, <1>5, <1>6 DEF Numbers, Owed

(* After a step as well.                                                   *)
LEMMA StayNumbers == StageOK' => Numbers'
<1>1. StageOK => Numbers
  BY StageOKNumbers
<1> QED BY <1>1, PTL

(* The jars are held as long as what comes to one place leaves another, or *)
(* costs a life that no walkout cost.                                      *)
LEMMA JarsStayHeld ==
  ASSUME StageOK, StageOK', JarsHeld,
         BarJars' + Shakes' + Drinkers' + Empties' + lives + walkouts
           = BarJars + Shakes + Drinkers + Empties + lives' + walkouts'
  PROVE  JarsHeld'
<1>1. Numbers /\ Numbers'
  BY StageOKNumbers, StayNumbers
<1> DEFINE b == BarJars'  s == Shakes'  d == Drinkers'  e == Empties'  l == lives'  w == walkouts'
<1>2. b + s + d + e + lives + walkouts = BarJars + Shakes + Drinkers + Empties + l + w
  OBVIOUS
<1>3. JarsHeld' <=> b + s + d + e + StartLives = JarPool + l + w
  BY DEF JarsHeld
<1>4. b \in Nat /\ s \in Nat /\ d \in Nat /\ e \in Nat /\ l \in Nat /\ w \in Nat
  BY <1>1 DEF Numbers
<1>5. BarJars + Shakes + Drinkers + Empties + StartLives = JarPool + lives + walkouts
  BY DEF JarsHeld
<1> HIDE DEF b, s, d, e, l, w
<1>6. b + s + d + e + StartLives = JarPool + l + w
  BY <1>1, <1>2, <1>4, <1>5 DEF Numbers
<1> QED BY <1>3, <1>6

(* The customers are held as long as who leaves is counted.                *)
LEMMA CustomersStayHeld ==
  ASSUME StageOK, StageOK', CustomersHeld,
         spawned' + Guests + resolved = spawned + Guests' + resolved',
         resolved' + walkouts + exited = resolved + walkouts' + exited',
         Pleased' + exited' + fulfilled <= Pleased + exited + fulfilled',
         fulfilled' + Unserved' + spawned <= fulfilled + Unserved + spawned'
  PROVE  CustomersHeld'
<1>1. Numbers /\ Numbers'
  BY StageOKNumbers, StayNumbers
<1> DEFINE n == spawned'  g == Guests'  r == resolved'  w == walkouts'  x == exited'
           p == Pleased'  f == fulfilled'  u == Unserved'
<1>2. /\ n + Guests + resolved = spawned + g + r /\ r + walkouts + exited = resolved + w + x
      /\ p + x + fulfilled <= Pleased + exited + f /\ f + u + spawned <= fulfilled + Unserved + n
  OBVIOUS
<1>3. CustomersHeld' <=> n = g + r /\ r = w + x /\ p + x <= f /\ f + u <= n
  BY DEF CustomersHeld
<1>4. /\ n \in Nat /\ g \in Nat /\ r \in Nat /\ w \in Nat /\ x \in Nat
      /\ p \in Nat /\ f \in Nat /\ u \in Nat
  BY <1>1 DEF Numbers
<1>5. spawned = Guests + resolved /\ resolved = walkouts + exited /\ Pleased + exited <= fulfilled /\ fulfilled + Unserved <= spawned
  BY DEF CustomersHeld
<1> HIDE DEF n, g, r, w, x, p, f, u
<1>6. n = g + r /\ r = w + x
  BY <1>1, <1>2, <1>4, <1>5 DEF Numbers
<1>7. p + x <= f /\ f + u <= n
  BY <1>1, <1>2, <1>4, <1>5 DEF Numbers
<1> QED BY <1>3, <1>6, <1>7

(* The score stays earned while nothing is paid, served or promised.       *)
LEMMA ScoreStaysHeld ==
  ASSUME ScoreHeld, status = "running", status' \in {"running", "lost"}, UNCHANGED <<score, fulfilled, Owed>>
  PROVE  ScoreHeld'
BY DEF ScoreHeld, Points

(* One element more at the end of a sequence.                              *)
LEMMA Appended ==
  ASSUME NEW T, NEW s \in Seq(T), NEW e \in T PROVE Append(s, e) \in Seq(T) /\ Len(Append(s, e)) = Len(s) + 1
OBVIOUS

(* An order served, a bonus handed out and a jar paid for.                 *)
LEMMA PointsAdd ==
  ASSUME NEW f \in Int, NEW u \in Int
  PROVE  /\ Points(f, u) \in Int
         /\ Points(f + 1, u + 1) = Points(f, u) + ServeBase + ServeStep * ServeCap
         /\ Points(f, u - 1) = Points(f, u) + JarCatch
<1> DEFINE order == ServeBase + ServeStep * ServeCap
<1>1. order \in Nat /\ JarCatch \in Nat /\ StartScore \in Nat
  BY StageShape
<1>2. ASSUME NEW a \in Int, NEW k \in Int PROVE a * k \in Int /\ (a + 1) * k = a * k + k
  OBVIOUS
<1>3. (f + 1) * order = f * order + order /\ f * order \in Int
  <2> HIDE DEF order
  <2> QED BY <1>1, <1>2
<1>4. (f - (u - 1)) * JarCatch = (f - u) * JarCatch + JarCatch /\ (f - u) * JarCatch \in Int
  <2>1. f - u \in Int /\ f - (u - 1) = (f - u) + 1
    OBVIOUS
  <2> QED BY <1>1, <1>2, <2>1
<1>5. (f + 1) - (u + 1) = f - u
  OBVIOUS
<1>6. /\ Points(f, u) = StartScore + f * order + (f - u) * JarCatch
      /\ Points(f + 1, u + 1) = StartScore + (f + 1) * order + ((f + 1) - (u + 1)) * JarCatch
      /\ Points(f, u - 1) = StartScore + f * order + (f - (u - 1)) * JarCatch
  BY DEF Points
<1>7. Points(f + 1, u + 1) = Points(f, u) + order
  <2> HIDE DEF order
  <2> QED BY <1>1, <1>3, <1>4, <1>5, <1>6
<1>8. Points(f, u) \in Int /\ Points(f, u - 1) = Points(f, u) + JarCatch
  <2> HIDE DEF order
  <2> QED BY <1>1, <1>3, <1>4, <1>6
<1>9. ServeStep * ServeCap \in Nat /\ ServeBase \in Nat
  BY StageShape
<1> QED BY <1>7, <1>8, <1>9

(* A step that leaves the customers alone leaves their counts alone.       *)
LEMMA SameCustomers ==
  ASSUME customers' = customers
  PROVE  Guests' = Guests /\ Drinkers' = Drinkers /\ Pleased' = Pleased /\ Unserved' = Unserved /\ Promised' = Promised
BY DEF Guests, Drinkers, Pleased, Unserved, Promised, Present, Drinking, Satisfied, Waiting, Rewarded

(* A record changed to a sound one leaves the records sound.               *)
LEMMA OneRecordKept ==
  ASSUME customers \in [Customer -> Record], Kept, NEW c \in Customer, NEW r \in Record, WellServed(r),
         customers' = [customers EXCEPT ![c] = r], spawned' >= spawned, spawned \in Int, spawned' \in Int,
         c <= spawned' \/ r.phase = "none"
  PROVE  customers' \in [Customer -> Record] /\ Kept'
<1>1. customers' \in [Customer -> Record] /\ customers'[c] = r /\ \A d \in Customer \ {c} : customers'[d] = customers[d]
  OBVIOUS
<1>2. ASSUME NEW d \in Customer PROVE WellServed(customers'[d]) /\ (d > spawned' => customers'[d].phase = "none")
  <2>1. d \in Int /\ CustomerCount \in Nat
    BY StageShape DEF Customer
  <2>2. WellServed(customers[d]) /\ (d > spawned => customers[d].phase = "none")
    BY DEF Kept
  <2> QED BY <1>1, <2>1, <2>2
<1>3. Kept'
  BY <1>2 DEF Kept, WellServed
<1> QED BY <1>1, <1>3

(* Records nobody touched are as sound as they were.                       *)
LEMMA SameRecordsKept ==
  ASSUME Kept, UNCHANGED <<customers, spawned>> PROVE Kept'
BY DEF Kept, WellServed

(* A life lost: the last one ends the stage.                               *)
LEMMA LifeLost ==
  ASSUME StageOK, EndHeld, status = "running", LoseLife
  PROVE  /\ lives' = lives - 1 /\ lives' \in 0 .. StartLives /\ streak' \in Nat /\ status' \in {"running", "lost"}
         /\ EndHeld'
BY StageShape DEF StageOK, EndHeld, LoseLife

-----------------------------------------------------------------------------
(* The steps                                                               *)

(* Input moves jars between hand, counter, wash and lane (applyInput).     *)
LEMMA ApplyInputStep ==
  ASSUME StageInv, NEW i \in Inputs, ApplyInput(i) PROVE StageInv'
<1> USE DEF StageInv
<1> DEFINE b == Worked(i)
<1>1. /\ status = "running" /\ phase = "input" /\ phase' = "spawn" /\ beat' = (beat + 1) % Beats
      /\ UNCHANGED <<at, controlMode, status, score, lives, streak, customers, jars, spawnCountdown, spawned,
                     serviceActions, fulfilled, walkouts, resolved, exited>>
      /\ IF Launches(b, i)
         THEN /\ slides' = Append(slides, [lane |-> b.lane, x |-> 0, flavor |-> b.holding])
              /\ bar' = [b EXCEPT !.holding = Nothing]
         ELSE bar' = b /\ slides' = slides
  BY DEF ApplyInput, life, counts
<1>2. OneHand(b) /\ Jars(b) = Jars(bar)
  BY WorkedKeeps DEF Keeps
<1> HIDE DEF b
<1>3. beat' \in 0 .. Beats - 1
  <2>1. ASSUME NEW m \in Nat \ {0}, NEW n \in Nat \ {0} PROVE m * n \in Nat \ {0}
    OBVIOUS
  <2>2. Beats \in Nat \ {0}
    BY <2>1, StageShape DEF Beats
  <2>3. beat + 1 \in Nat
    BY <2>2 DEF StageOK
  <2> QED BY <1>1, <2>2, <2>3
<1>4. /\ OneHand(bar') /\ slides' \in Seq(Shake)
      /\ Jars(bar') + Len(slides') = Jars(bar) + Len(slides)
  <2>0. slides \in Seq(Shake) /\ Len(slides) \in Nat
    BY LenProperties DEF StageOK
  <2>1. CASE Launches(b, i)
    <3>1. /\ b.holding # Nothing /\ b.holding \in Flavors /\ b.blending = Nothing /\ b.lane \in Lane
          /\ b.free \in Nat /\ Len(b.washing) \in Nat
      BY <1>2, <2>1, BarFields DEF Launches, OneHand
    <3>2. [lane |-> b.lane, x |-> 0, flavor |-> b.holding] \in Shake
      BY <3>1, StageShape DEF Shake
    <3>3. slides' \in Seq(Shake) /\ Len(slides') = Len(slides) + 1
      BY <1>1, <2>0, <2>1, <3>2, Appended
    <3>4. bar' = [b EXCEPT !.holding = Nothing]
      BY <1>1, <2>1
    <3>5. bar' \in Bar /\ bar'.holding = Nothing /\ bar'.blending = Nothing /\ bar'.free = b.free /\ bar'.washing = b.washing
      BY <1>2, <3>1, <3>4 DEF OneHand, Bar
    <3>6. Jars(bar') = Jars(b) - 1
      BY <3>1, <3>5 DEF Jars, Hand
    <3>7. Jars(b) \in Nat
      BY <3>1 DEF Jars, Hand
    <3> QED BY <1>2, <2>0, <3>3, <3>5, <3>6, <3>7 DEF OneHand
  <2>2. CASE ~Launches(b, i)
    BY <1>1, <1>2, <2>0, <2>2
  <2> QED BY <2>1, <2>2
<1>5. StageOK'
  BY <1>1, <1>3, <1>4 DEF StageOK, OneHand, Phases
<1>6. Placed' /\ EndHeld'
  BY <1>1 DEF Placed, EndHeld
<1>7. Kept' /\ CustomersHeld' /\ ScoreHeld'
  BY <1>1, SameCustomers, SameRecordsKept DEF CustomersHeld, ScoreHeld, Points, Owed, Pending, Bonuses
<1>8. JarsHeld'
  <2>1. BarJars' + Shakes' = BarJars + Shakes /\ Empties' = Empties /\ Drinkers' = Drinkers
    BY <1>1, <1>4, SameCustomers DEF BarJars, Shakes, Empties
  <2>2. Numbers
    BY StageOKNumbers
  <2> QED BY <1>1, <1>5, <2>1, <2>2, JarsStayHeld DEF Numbers
<1>9. OneHand(bar)'
  BY <1>4 DEF OneHand
<1> QED BY <1>5, <1>6, <1>7, <1>8, <1>9

(* Whoever is spread comes to a lane there is.                             *)
LEMMA SpreadIsALane ==
  ASSUME NEW drawn \in Lane PROVE Spread(drawn) \in Lane
<1> DEFINE lightest == {l \in Lane : \A k \in Lane : Load(l) <= Load(k)}
<1>1. \A l \in Lane : Load(l) \in Nat
  <2>1. ASSUME NEW l \in Lane PROVE Load(l) \in Nat
    <3>1. {c \in Present : customers[c].lane = l} \in SUBSET Customer
      BY DEF Present
    <3> QED BY <3>1, CustomersAreFinite DEF Load
  <2> QED BY <2>1
<1>2. Lane \subseteq Nat /\ 0 \in Lane
  BY StageShape DEF Lane
<1>3. lightest # {}
  <2> DEFINE loads == {Load(l) : l \in Lane}
  <2>1. loads \subseteq Nat /\ loads # {}
    BY <1>1, <1>2
  <2>2. Least(loads) \in loads /\ \A n \in loads : Least(loads) <= n
    BY <2>1, LeastIsLeast
  <2>3. PICK l \in Lane : Load(l) = Least(loads)
    BY <2>2
  <2>4. l \in lightest
    BY <2>2, <2>3
  <2> QED BY <2>4
<1>4. lightest \subseteq Nat /\ lightest \subseteq Lane
  BY <1>2
<1>5. Spread(drawn) \in {drawn, Least(lightest)}
  BY DEF Spread
<1> HIDE DEF lightest
<1>6. Least(lightest) \in Lane
  BY <1>3, <1>4, LeastIsLeast
<1> QED BY <1>5, <1>6

(* A customer comes in, or the next one is waited for (spawn).             *)
LEMMA SpawnStep ==
  ASSUME StageInv, NEW drawn \in Lane, NEW flavor \in Flavors, Spawn(drawn, flavor) PROVE StageInv'
<1> USE DEF StageInv
<1>1. /\ status = "running" /\ phase = "spawn" /\ phase' = "customers" /\ at' = 1
      /\ UNCHANGED <<beat, status, score, lives, streak, controlMode, bar, slides, jars, serviceActions, fulfilled,
                     walkouts, resolved, exited>>
  BY DEF Spawn, life, controls
<1>2. Placed' /\ OneHand(bar)'
  BY <1>1 DEF Placed, OneHand
<1>3. spawnCountdown' \in Nat
  <2>1. SpawnInterval - (spawned + 1) * SpawnAcceleration \in Int
    <3>1. spawned + 1 \in Int /\ SpawnAcceleration \in Int /\ SpawnInterval \in Int
      BY StageShape DEF StageOK
    <3> QED BY <3>1
  <2> DEFINE gap == SpawnInterval - (spawned + 1) * SpawnAcceleration
  <2>2. spawnCountdown' \in {IF gap > SpawnFloor THEN gap ELSE SpawnFloor, IF spawnCountdown > 0 THEN spawnCountdown - 1 ELSE 0}
    BY DEF Spawn
  <2>3. gap \in Int
    BY <2>1
  <2> HIDE DEF gap
  <2>4. spawnCountdown \in Nat /\ SpawnFloor \in Nat
    BY StageShape DEF StageOK
  <2> QED BY <2>2, <2>3, <2>4
<1>4. CASE Arrives
  <2> DEFINE c == spawned + 1
             r == [Nobody EXCEPT !.phase = "marching", !.lane = Spread(drawn), !.x = LaneLength, !.flavor = flavor]
  <2>1. c \in Customer /\ c > spawned /\ spawned' = spawned + 1 /\ spawned' \in 0 .. CustomerCount
    <3>1. CustomerCount \in Nat /\ spawned \in Nat /\ spawned < CustomerCount
      BY <1>4, StageOKNumbers DEF Arrives, Numbers
    <3>2. spawned' = spawned + 1
      BY <1>4 DEF Spawn
    <3> QED BY <3>1, <3>2 DEF Customer
  <2>2. customers' = [customers EXCEPT ![c] = r]
    BY <1>4 DEF Spawn
  <2>3. r \in Record /\ r.phase = "marching" /\ r.fulfilled = FALSE /\ r.bonus = FALSE
    <3>1. Spread(drawn) \in Lane /\ LaneLength \in 0 .. LaneLength /\ 0 \in 0 .. DrinkTicks /\ 0 \in 0 .. MaxRequeues
      BY SpreadIsALane, StageShape
    <3> QED BY <3>1 DEF Nobody, Record
  <2> HIDE DEF r
  <2>4. WellServed(r) /\ customers[c].phase = "none" /\ ~customers[c].fulfilled /\ ~customers[c].bonus
    BY <2>1, <2>3 DEF WellServed, Kept
  <2>5. customers \in [Customer -> Record] /\ spawned \in Nat
    BY DEF StageOK
  <2>6. customers' \in [Customer -> Record] /\ Kept'
    <3> HIDE DEF c
    <3>1. c <= spawned' /\ spawned' >= spawned /\ spawned' \in Int /\ spawned \in Int
      BY <2>1, <2>5 DEF c
    <3> QED BY <2>1, <2>2, <2>3, <2>4, <2>5, <3>1, OneRecordKept
  <2>7. StageOK'
    BY <1>1, <1>3, <2>1, <2>6 DEF StageOK, Phases
  <2>8. Guests' = Guests + 1 /\ Drinkers' = Drinkers /\ Pleased' = Pleased /\ Unserved' = Unserved + 1 /\ Promised' = Promised
    <3> HIDE DEF c
    <3>2. c \in Customer
      BY <2>1 DEF c
    <3>3. /\ Guests' = Guests + Bit(r.phase # "none") - Bit(customers[c].phase # "none")
          /\ Drinkers' = Drinkers + Bit(r.phase = "drinking") - Bit(customers[c].phase = "drinking")
          /\ Pleased' = Pleased + Bit(r.fulfilled) - Bit(customers[c].fulfilled)
          /\ Unserved' = Unserved + Bit(r.phase # "none" /\ ~r.fulfilled)
                        - Bit(customers[c].phase # "none" /\ ~customers[c].fulfilled)
          /\ Promised' = Promised + Bit(r.bonus) - Bit(customers[c].bonus)
      BY <2>2, <2>5, <3>2, OneRecordChanges
    <3>4. Numbers
      BY StageOKNumbers
    <3> QED BY <2>3, <2>4, <3>3, <3>4 DEF Numbers, Bit
  <2>9. JarsHeld' /\ CustomersHeld'
    <3>1. BarJars' = BarJars /\ Shakes' = Shakes /\ Empties' = Empties
      BY <1>1 DEF BarJars, Jars, Hand, Shakes, Empties
    <3>2. JarsHeld'
      BY <1>1, <2>7, <2>8, <3>1, JarsStayHeld
    <3>3. Numbers
      BY StageOKNumbers
    <3> HIDE DEF c
    <3>4. /\ spawned' + Guests + resolved = spawned + Guests' + resolved'
          /\ resolved' + walkouts + exited = resolved + walkouts' + exited'
          /\ Pleased' + exited' + fulfilled <= Pleased + exited + fulfilled'
          /\ fulfilled' + Unserved' + spawned <= fulfilled + Unserved + spawned'
      BY <1>1, <2>1, <2>8, <3>3 DEF Numbers
    <3> QED BY <2>7, <3>2, <3>4, CustomersStayHeld
  <2>10. EndHeld' /\ ScoreHeld'
    BY <1>1, <2>8 DEF EndHeld, ScoreHeld, Points, Owed, Pending, Bonuses
  <2> QED BY <1>2, <2>6, <2>7, <2>9, <2>10
<1>5. CASE ~Arrives
  <2>1. UNCHANGED <<customers, spawned>>
    BY <1>5 DEF Spawn
  <2>2. StageOK'
    BY <1>1, <1>3, <2>1 DEF StageOK, Phases
  <2>3. Kept' /\ JarsHeld' /\ CustomersHeld' /\ ScoreHeld' /\ EndHeld'
    BY <1>1, <2>1, SameCustomers, SameRecordsKept
    DEF JarsHeld, CustomersHeld, ScoreHeld, EndHeld, Points, Owed, Pending, Bonuses, BarJars, Jars, Hand, Shakes, Empties
  <2> QED BY <1>2, <2>2, <2>3
<1> QED BY <1>4, <1>5

-----------------------------------------------------------------------------
(* The customers' steps                                                    *)

(* The customer whose turn it is.                                          *)
LEMMA ItsTurn ==
  ASSUME StageInv, Visiting("customers", spawned)
  PROVE  /\ at \in Customer /\ at <= spawned /\ at + 1 \in Nat /\ at + 1 >= 1 /\ customers[at] \in Record
         /\ customers \in [Customer -> Record] /\ WellServed(customers[at])
<1>1. at \in Nat /\ at >= 1 /\ at <= spawned /\ spawned \in 0 .. CustomerCount /\ CustomerCount \in Nat
  BY StageOKNumbers DEF StageInv, StageOK, Placed, Visiting, Numbers
<1>2. at \in Customer
  BY <1>1 DEF Customer
<1> QED BY <1>1, <1>2 DEF StageInv, StageOK, Kept

(* A customer who only moves or drinks on changes no count.                *)
LEMMA CustomerMoves ==
  ASSUME StageInv, Visiting("customers", spawned), NextVisit, NEW r \in Record,
         r.phase = customers[at].phase, r.fulfilled = customers[at].fulfilled, r.bonus = customers[at].bonus,
         customers' = [customers EXCEPT ![at] = r],
         UNCHANGED <<phase, beat, status, score, lives, streak, controlMode, bar, slides, jars, spawnCountdown, spawned,
                     serviceActions, fulfilled, walkouts, resolved, exited>>
  PROVE  StageInv'
<1> USE DEF StageInv
<1>1. /\ at \in Customer /\ at <= spawned /\ at' \in Nat /\ at' >= 1 /\ customers \in [Customer -> Record]
      /\ WellServed(customers[at])
  BY ItsTurn DEF NextVisit
<1>2. WellServed(r)
  BY <1>1 DEF WellServed
<1>3. customers' \in [Customer -> Record] /\ Kept'
  <2>1. spawned' >= spawned /\ spawned \in Int /\ spawned' \in Int /\ at <= spawned'
    BY <1>1, StageOKNumbers DEF Numbers
  <2> QED BY <1>1, <1>2, <2>1, OneRecordKept
<1>4. StageOK'
  BY <1>1, <1>3 DEF StageOK
<1>5. Guests' = Guests /\ Drinkers' = Drinkers /\ Pleased' = Pleased /\ Unserved' = Unserved /\ Promised' = Promised
  <2>1. /\ Guests' = Guests + Bit(r.phase # "none") - Bit(customers[at].phase # "none")
        /\ Drinkers' = Drinkers + Bit(r.phase = "drinking") - Bit(customers[at].phase = "drinking")
        /\ Pleased' = Pleased + Bit(r.fulfilled) - Bit(customers[at].fulfilled)
        /\ Unserved' = Unserved + Bit(r.phase # "none" /\ ~r.fulfilled)
                      - Bit(customers[at].phase # "none" /\ ~customers[at].fulfilled)
        /\ Promised' = Promised + Bit(r.bonus) - Bit(customers[at].bonus)
    BY <1>1, OneRecordChanges
  <2>2. Numbers
    BY StageOKNumbers
  <2> QED BY <2>1, <2>2 DEF Numbers, Bit
<1>6. BarJars' = BarJars /\ Shakes' = Shakes /\ Empties' = Empties /\ Pending' = Pending
  BY DEF BarJars, Jars, Hand, Shakes, Empties, Pending, Bonuses
<1>7. JarsHeld' /\ CustomersHeld'
  BY <1>5, <1>6 DEF JarsHeld, CustomersHeld
<1>8. EndHeld' /\ ScoreHeld'
  BY <1>5, <1>6 DEF EndHeld, ScoreHeld, Points, Owed, Visiting
<1>9. OneHand(bar)' /\ Placed'
  BY <1>1 DEF OneHand, Placed, Visiting
<1> QED BY <1>3, <1>4, <1>7, <1>8, <1>9

(* Walking in, drinking and walking out leave a record a record.           *)
LEMMA RecordWalks ==
  ASSUME NEW r \in Record, NEW x \in 0 .. LaneLength, NEW t \in 0 .. DrinkTicks
  PROVE  /\ [r EXCEPT !.x = x] \in Record /\ [r EXCEPT !.timer = t] \in Record
         /\ [r EXCEPT !.x = x].phase = r.phase /\ [r EXCEPT !.timer = t].phase = r.phase
         /\ [r EXCEPT !.x = x].fulfilled = r.fulfilled /\ [r EXCEPT !.timer = t].fulfilled = r.fulfilled
         /\ [r EXCEPT !.x = x].bonus = r.bonus /\ [r EXCEPT !.timer = t].bonus = r.bonus
BY DEF Record

(* A customer who is gone is counted out; he held no bonus if he did not   *)
(* drink.                                                                  *)
LEMMA CustomerGoes ==
  ASSUME StageOK, Kept, NEW c \in Customer, Gone(c), customers[c].phase \notin {"none", "drinking"}
  PROVE  /\ Guests' = Guests - 1 /\ Drinkers' = Drinkers /\ Promised' = Promised
         /\ Pleased' = Pleased - Bit(customers[c].fulfilled) /\ Unserved' = Unserved - Bit(~customers[c].fulfilled)
<1>1. customers \in [Customer -> Record] /\ customers' = [customers EXCEPT ![c] = Nobody]
  BY DEF StageOK, Gone
<1>2. /\ Guests' = Guests + Bit(Nobody.phase # "none") - Bit(customers[c].phase # "none")
      /\ Drinkers' = Drinkers + Bit(Nobody.phase = "drinking") - Bit(customers[c].phase = "drinking")
      /\ Pleased' = Pleased + Bit(Nobody.fulfilled) - Bit(customers[c].fulfilled)
      /\ Unserved' = Unserved + Bit(Nobody.phase # "none" /\ ~Nobody.fulfilled)
                    - Bit(customers[c].phase # "none" /\ ~customers[c].fulfilled)
      /\ Promised' = Promised + Bit(Nobody.bonus) - Bit(customers[c].bonus)
  BY <1>1, OneRecordChanges
<1>3. Nobody.phase = "none" /\ ~Nobody.fulfilled /\ ~Nobody.bonus
  BY DEF Nobody
<1>4. ~customers[c].bonus
  BY DEF Kept, WellServed
<1>5. Numbers
  BY StageOKNumbers
<1> QED BY <1>2, <1>3, <1>4, <1>5 DEF Numbers, Bit

(* Nobody has a record too.                                                *)
LEMMA NobodyIsARecord == Nobody \in Record /\ Nobody.phase = "none" /\ WellServed(Nobody)
<1>1. 0 \in Lane /\ 0 \in 0 .. LaneLength /\ 0 \in 0 .. DrinkTicks /\ 0 \in 0 .. MaxRequeues
  BY StageShape DEF Lane
<1> QED BY <1>1 DEF Nobody, Record, WellServed

(* Nobody served him in time: a customer walks out and a life is lost.     *)
LEMMA WalkOutStep ==
  ASSUME StageInv, WalkOut PROVE StageInv'
<1> USE DEF StageInv
<1>1. /\ Visiting("customers", spawned) /\ customers[at].phase = "marching" /\ Gone(at) /\ at' = at + 1
      /\ walkouts' = walkouts + 1 /\ exited' = exited /\ resolved' = resolved + 1 /\ LoseLife
      /\ UNCHANGED <<phase, beat, score, controlMode, bar, slides, jars, spawnCountdown, spawned, serviceActions, fulfilled>>
  BY DEF WalkOut, NextVisit, Resolved, controls
<1>2. /\ at \in Customer /\ at <= spawned /\ at' \in Nat /\ at' >= 1 /\ customers \in [Customer -> Record]
  BY <1>1, ItsTurn
<1>3. customers' \in [Customer -> Record] /\ Kept'
  <2>1. spawned' >= spawned /\ spawned \in Int /\ spawned' \in Int
    BY <1>1, StageOKNumbers DEF Numbers
  <2> QED BY <1>1, <1>2, <2>1, NobodyIsARecord, OneRecordKept DEF Gone
<1>4. /\ lives' = lives - 1 /\ lives' \in 0 .. StartLives /\ streak' \in Nat /\ status' \in {"running", "lost"} /\ EndHeld'
  BY <1>1, LifeLost DEF Visiting
<1>5. Numbers
  BY StageOKNumbers
<1>6. walkouts' \in Nat /\ resolved' \in Nat
  BY <1>1, <1>5 DEF Numbers
<1>7. StageOK'
  BY <1>1, <1>2, <1>3, <1>4, <1>6 DEF StageOK
<1> DEFINE k == Bit(customers[at].fulfilled)  n == Bit(~customers[at].fulfilled)
<1>8. /\ Guests' = Guests - 1 /\ Drinkers' = Drinkers /\ Promised' = Promised
      /\ Pleased' = Pleased - k /\ Unserved' = Unserved - n /\ k \in 0 .. 1 /\ n \in 0 .. 1
  <2>1. customers[at].phase \notin {"none", "drinking"}
    BY <1>1
  <2>2. /\ Guests' = Guests - 1 /\ Drinkers' = Drinkers /\ Promised' = Promised
        /\ Pleased' = Pleased - Bit(customers[at].fulfilled) /\ Unserved' = Unserved - Bit(~customers[at].fulfilled)
    BY <1>1, <1>2, <2>1, CustomerGoes
  <2> QED BY <2>2 DEF Bit
<1> HIDE DEF k, n
<1>9. BarJars' = BarJars /\ Shakes' = Shakes /\ Empties' = Empties /\ Owed' = Owed
  BY <1>1, <1>8 DEF BarJars, Jars, Hand, Shakes, Empties, Owed, Pending, Bonuses
<1>10. JarsHeld'
  <2>1. BarJars' + Shakes' + Drinkers' + Empties' + lives + walkouts
         = BarJars + Shakes + Drinkers + Empties + lives' + walkouts'
    BY <1>1, <1>4, <1>5, <1>8, <1>9 DEF Numbers
  <2> QED BY <1>7, <2>1, JarsStayHeld
<1>11. CustomersHeld'
  <2>2. /\ spawned' + Guests + resolved = spawned + Guests' + resolved'
        /\ resolved' + walkouts + exited = resolved + walkouts' + exited'
    BY <1>1, <1>5, <1>8 DEF Numbers
  <2>3. Pleased' + exited' + fulfilled <= Pleased + exited + fulfilled'
    BY <1>1, <1>5, <1>8 DEF Numbers
  <2>4. fulfilled' + Unserved' + spawned <= fulfilled + Unserved + spawned'
    BY <1>1, <1>5, <1>8 DEF Numbers
  <2> QED BY <1>7, <2>2, <2>3, <2>4, CustomersStayHeld
<1>12. ScoreHeld'
  BY <1>1, <1>4, <1>9, ScoreStaysHeld DEF Visiting
<1>13. OneHand(bar)' /\ Placed'
  BY <1>1, <1>2 DEF OneHand, Placed, Visiting
<1> QED BY <1>3, <1>4, <1>7, <1>10, <1>11, <1>12, <1>13

(* The last sip: the glass is an empty jar, with the bonus it carries.     *)
LEMMA LastSip ==
  ASSUME StageInv, Visiting("customers", spawned), NextVisit, customers[at].phase = "drinking",
         jars' = Append(jars, [lane |-> customers[at].lane, x |-> customers[at].x, bonus |-> customers[at].bonus]),
         customers' = [customers EXCEPT ![at] = AfterDrink(at)],
         UNCHANGED <<phase, beat, status, score, lives, streak, controlMode, bar, slides, spawnCountdown, spawned,
                     serviceActions, fulfilled, walkouts, resolved, exited>>
  PROVE  StageInv'
<1> USE DEF StageInv
<1> DEFINE c == customers[at]
           e == [lane |-> c.lane, x |-> c.x, bonus |-> c.bonus]
           r == AfterDrink(at)
<1>1. /\ at \in Customer /\ at <= spawned /\ at' \in Nat /\ at' >= 1 /\ customers \in [Customer -> Record]
      /\ c \in Record /\ WellServed(c)
  BY ItsTurn DEF NextVisit
<1>2. r \in Record /\ r.phase \in {"leaving", "marching"} /\ r.fulfilled = c.fulfilled /\ ~r.bonus
  <2>1. 0 \in 0 .. DrinkTicks
    BY StageShape
  <2>2. r = [c EXCEPT !.timer = 0, !.bonus = FALSE, !.phase = IF c.leaves THEN "leaving" ELSE "marching"]
    BY DEF AfterDrink
  <2> HIDE DEF c
  <2> QED BY <1>1, <2>1, <2>2 DEF Record
<1>3. c.fulfilled
  BY <1>1 DEF WellServed
<1>4. e \in Jar /\ e.bonus = c.bonus
  <2> HIDE DEF c
  <2> QED BY <1>1 DEF Jar, Record
<1> HIDE DEF e, r
<1>5. WellServed(r)
  BY <1>2, <1>3 DEF WellServed
<1>6. customers' \in [Customer -> Record] /\ Kept'
  <2>1. spawned' >= spawned /\ spawned \in Int /\ spawned' \in Int /\ at <= spawned' /\ customers' = [customers EXCEPT ![at] = r]
    BY <1>1, StageOKNumbers DEF Numbers, r
  <2> QED BY <1>1, <1>2, <1>5, <2>1, OneRecordKept
<1>7. jars' \in Seq(Jar) /\ Len(jars') = Len(jars) + 1 /\ jars' = Append(jars, e) /\ jars \in Seq(Jar)
  <2>1. jars' = Append(jars, e) /\ jars \in Seq(Jar)
    BY DEF e, StageOK
  <2> QED BY <1>4, <2>1, Appended
<1>8. StageOK'
  BY <1>1, <1>6, <1>7 DEF StageOK
<1>9. Numbers
  BY StageOKNumbers
<1> DEFINE k == Bit(c.bonus)
<1>10. k \in 0 .. 1
  BY DEF Bit
<1>11. /\ Guests' = Guests /\ Drinkers' = Drinkers - 1 /\ Pleased' = Pleased /\ Unserved' = Unserved /\ Promised' = Promised - k
  <2>1. /\ Guests' = Guests + Bit(r.phase # "none") - Bit(c.phase # "none")
        /\ Drinkers' = Drinkers + Bit(r.phase = "drinking") - Bit(c.phase = "drinking")
        /\ Pleased' = Pleased + Bit(r.fulfilled) - Bit(c.fulfilled)
        /\ Unserved' = Unserved + Bit(r.phase # "none" /\ ~r.fulfilled) - Bit(c.phase # "none" /\ ~c.fulfilled)
        /\ Promised' = Promised + Bit(r.bonus) - Bit(c.bonus)
    BY <1>1, OneRecordChanges DEF r
  <2>2. c.phase = "drinking"
    OBVIOUS
  <2> HIDE DEF c
  <2> QED BY <1>2, <1>3, <1>9, <1>10, <2>1, <2>2 DEF Numbers, Bit
<1>12. Pending' = Pending + k
  <2>1. Cardinality(Bonuses(Append(jars, e))) = Cardinality(Bonuses(jars)) + Bit(e.bonus)
    BY <1>4, <1>7, BonusAppended
  <2>2. Pending' = Cardinality(Bonuses(jars'))
    BY DEF Pending, Bonuses
  <2> QED BY <1>4, <1>7, <2>1, <2>2 DEF Pending
<1> HIDE DEF c, k
<1>13. BarJars' = BarJars /\ Shakes' = Shakes /\ Empties' = Empties + 1 /\ Owed' = Owed
  <2>1. Owed' = Owed
    BY <1>9, <1>10, <1>11, <1>12 DEF Numbers, Owed
  <2> QED BY <1>7, <2>1 DEF BarJars, Jars, Hand, Shakes, Empties
<1>14. JarsHeld'
  <2>1. BarJars' + Shakes' + Drinkers' + Empties' + lives + walkouts
         = BarJars + Shakes + Drinkers + Empties + lives' + walkouts'
    BY <1>9, <1>11, <1>13 DEF Numbers
  <2> QED BY <1>8, <2>1, JarsStayHeld
<1>15. CustomersHeld' /\ EndHeld'
  BY <1>11 DEF CustomersHeld, EndHeld, Visiting
<1>16. ScoreHeld'
  BY <1>13, ScoreStaysHeld DEF Visiting
<1>17. OneHand(bar)' /\ Placed'
  BY <1>1 DEF OneHand, Placed, Visiting
<1> QED BY <1>6, <1>8, <1>14, <1>15, <1>16, <1>17

(* Out of the door: one more who leaves, served.                           *)
LEMMA OutOfTheDoor ==
  ASSUME StageInv, Visiting("customers", spawned), NextVisit, customers[at].phase = "leaving", Gone(at),
         exited' = exited + 1, resolved' = resolved + 1,
         UNCHANGED <<phase, beat, status, score, lives, streak, controlMode, bar, slides, jars, spawnCountdown, spawned,
                     serviceActions, fulfilled, walkouts>>
  PROVE  StageInv'
<1> USE DEF StageInv
<1>1. /\ at \in Customer /\ at <= spawned /\ at' \in Nat /\ at' >= 1 /\ customers \in [Customer -> Record]
      /\ WellServed(customers[at])
  BY ItsTurn DEF NextVisit
<1>2. customers' \in [Customer -> Record] /\ Kept'
  <2>1. spawned' >= spawned /\ spawned \in Int /\ spawned' \in Int
    BY StageOKNumbers DEF Numbers
  <2> QED BY <1>1, <2>1, NobodyIsARecord, OneRecordKept DEF Gone
<1>3. Numbers
  BY StageOKNumbers
<1>4. StageOK'
  <2>1. exited' \in Nat /\ resolved' \in Nat
    BY <1>3 DEF Numbers
  <2> QED BY <1>1, <1>2, <2>1 DEF StageOK
<1>5. Guests' = Guests - 1 /\ Drinkers' = Drinkers /\ Promised' = Promised /\ Pleased' = Pleased - 1 /\ Unserved' = Unserved
  <2>1. customers[at].phase \notin {"none", "drinking"} /\ customers[at].fulfilled
    BY <1>1 DEF WellServed
  <2>2. /\ Guests' = Guests - 1 /\ Drinkers' = Drinkers /\ Promised' = Promised
        /\ Pleased' = Pleased - Bit(customers[at].fulfilled) /\ Unserved' = Unserved - Bit(~customers[at].fulfilled)
    BY <1>1, <2>1, CustomerGoes
  <2> QED BY <1>3, <2>1, <2>2 DEF Bit, Numbers
<1>6. BarJars' = BarJars /\ Shakes' = Shakes /\ Empties' = Empties /\ Owed' = Owed
  BY <1>5 DEF BarJars, Jars, Hand, Shakes, Empties, Owed, Pending, Bonuses
<1>7. JarsHeld'
  BY <1>5, <1>6 DEF JarsHeld
<1>8. CustomersHeld'
  <2>1. /\ spawned' + Guests + resolved = spawned + Guests' + resolved'
        /\ resolved' + walkouts + exited = resolved + walkouts' + exited'
    BY <1>3, <1>5 DEF Numbers
  <2>2. Pleased' + exited' + fulfilled <= Pleased + exited + fulfilled'
    BY <1>3, <1>5 DEF Numbers
  <2>3. fulfilled' + Unserved' + spawned <= fulfilled + Unserved + spawned'
    BY <1>3, <1>5 DEF Numbers
  <2> QED BY <1>4, <2>1, <2>2, <2>3, CustomersStayHeld
<1>9. EndHeld' /\ ScoreHeld'
  BY <1>6, ScoreStaysHeld DEF EndHeld, Visiting
<1>10. OneHand(bar)' /\ Placed'
  BY <1>1 DEF OneHand, Placed, Visiting
<1> QED BY <1>2, <1>4, <1>7, <1>8, <1>9, <1>10

(* A customer marches, drinks or walks to the door (moveCustomers).        *)
LEMMA MoveCustomerStep ==
  ASSUME StageInv, MoveCustomer PROVE StageInv'
<1> DEFINE c == customers[at]
<1>1. /\ Visiting("customers", spawned) /\ NextVisit
      /\ UNCHANGED <<phase, beat, status, score, lives, streak, controlMode, bar, slides, spawnCountdown, spawned,
                     serviceActions, fulfilled, walkouts>>
  BY DEF MoveCustomer, life, controls
<1>2. at \in Customer /\ c \in Record /\ customers \in [Customer -> Record]
  BY <1>1, ItsTurn
<1>3. /\ c.x \in 0 .. LaneLength /\ c.timer \in 0 .. DrinkTicks
      /\ MarchSpeed \in Nat /\ LeaveSpeed \in Nat /\ LaneLength \in Nat /\ DrinkTicks \in Nat
  <2> HIDE DEF c
  <2> QED BY <1>2, StageShape DEF Record
<1>4. CASE c.phase = "none" /\ UNCHANGED <<customers, jars, resolved, exited>>
  <2>1. customers' = [customers EXCEPT ![at] = c]
    BY <1>2, <1>4
  <2> QED BY <1>1, <1>2, <1>4, <2>1, CustomerMoves
<1>5. CASE /\ c.phase = "marching" /\ c.x - MarchSpeed > 0
           /\ customers' = [customers EXCEPT ![at].x = @ - MarchSpeed]
           /\ UNCHANGED <<jars, resolved, exited>>
  <2> DEFINE x == c.x - MarchSpeed
             r == [c EXCEPT !.x = x]
  <2>1. x \in 0 .. LaneLength /\ 0 \in 0 .. DrinkTicks
    BY <1>3, <1>5
  <2>2. customers' = [customers EXCEPT ![at] = r]
    BY <1>2, <1>5
  <2> HIDE DEF x, c
  <2>3. r \in Record /\ r.phase = c.phase /\ r.fulfilled = c.fulfilled /\ r.bonus = c.bonus
    BY <1>2, <2>1, RecordWalks
  <2> HIDE DEF r
  <2> QED BY <1>1, <1>5, <2>2, <2>3, CustomerMoves DEF c
<1>6. CASE /\ c.phase = "drinking" /\ c.timer > 1
           /\ customers' = [customers EXCEPT ![at].timer = @ - 1]
           /\ UNCHANGED <<jars, resolved, exited>>
  <2> DEFINE t == c.timer - 1
             r == [c EXCEPT !.timer = t]
  <2>1. t \in 0 .. DrinkTicks /\ 0 \in 0 .. LaneLength
    BY <1>3, <1>6
  <2>2. customers' = [customers EXCEPT ![at] = r]
    BY <1>2, <1>6
  <2> HIDE DEF t, c
  <2>3. r \in Record /\ r.phase = c.phase /\ r.fulfilled = c.fulfilled /\ r.bonus = c.bonus
    BY <1>2, <2>1, RecordWalks
  <2> HIDE DEF r
  <2> QED BY <1>1, <1>6, <2>2, <2>3, CustomerMoves DEF c
<1>7. CASE /\ c.phase = "drinking" /\ c.timer <= 1
           /\ jars' = Append(jars, [lane |-> c.lane, x |-> c.x, bonus |-> c.bonus])
           /\ customers' = [customers EXCEPT ![at] = AfterDrink(at)]
           /\ UNCHANGED <<resolved, exited>>
  BY <1>1, <1>7, LastSip
<1>8. CASE /\ c.phase = "leaving" /\ c.x + LeaveSpeed < LaneLength
           /\ customers' = [customers EXCEPT ![at].x = @ + LeaveSpeed]
           /\ UNCHANGED <<jars, resolved, exited>>
  <2> DEFINE x == c.x + LeaveSpeed
             r == [c EXCEPT !.x = x]
  <2>1. x \in 0 .. LaneLength /\ 0 \in 0 .. DrinkTicks
    BY <1>3, <1>8
  <2>2. customers' = [customers EXCEPT ![at] = r]
    BY <1>2, <1>8
  <2> HIDE DEF x, c
  <2>3. r \in Record /\ r.phase = c.phase /\ r.fulfilled = c.fulfilled /\ r.bonus = c.bonus
    BY <1>2, <2>1, RecordWalks
  <2> HIDE DEF r
  <2> QED BY <1>1, <1>8, <2>2, <2>3, CustomerMoves DEF c
<1>9. CASE /\ c.phase = "leaving" /\ c.x + LeaveSpeed >= LaneLength
           /\ Gone(at) /\ exited' = exited + 1 /\ resolved' = resolved + 1 /\ UNCHANGED jars
  BY <1>1, <1>9, OutOfTheDoor
<1> QED BY <1>4, <1>5, <1>6, <1>7, <1>8, <1>9 DEF MoveCustomer, Resolved

-----------------------------------------------------------------------------
(* The ends of the loops                                                   *)

(* A loop that is through hands over to the next with its first element.   *)
LEMMA ThroughStep ==
  ASSUME StageInv, NEW p, NEW n, NEW q \in Phases, NEW start \in Nat, Through(p, n, q, start),
         q \in {"customers", "slides", "jars"} => start >= 1, q = "washing" => start <= Len(bar.washing)
  PROVE  StageInv'
<1> USE DEF StageInv
<1>1. /\ status = "running" /\ phase' = q /\ at' = start
      /\ UNCHANGED <<beat, status, score, lives, streak, controlMode, bar, customers, slides, jars, spawnCountdown, spawned,
                     serviceActions, fulfilled, walkouts, resolved, exited>>
  BY DEF Through, life, controls, counts
<1>2. Guests' = Guests /\ Drinkers' = Drinkers /\ Pleased' = Pleased /\ Unserved' = Unserved /\ Promised' = Promised
  BY <1>1, SameCustomers
<1>3. BarJars' = BarJars /\ Shakes' = Shakes /\ Empties' = Empties /\ Owed' = Owed
  BY <1>1, <1>2 DEF BarJars, Jars, Hand, Shakes, Empties, Owed, Pending, Bonuses
<1>4. StageOK'
  BY <1>1 DEF StageOK
<1>5. JarsHeld' /\ CustomersHeld'
  BY <1>1, <1>2, <1>3 DEF JarsHeld, CustomersHeld
<1>6. EndHeld' /\ ScoreHeld' /\ Kept'
  BY <1>1, <1>3, ScoreStaysHeld, SameRecordsKept DEF EndHeld
<1>7. OneHand(bar)' /\ Placed'
  BY <1>1 DEF OneHand, Placed
<1> QED BY <1>4, <1>5, <1>6, <1>7

(* The three loops that hand over.                                         *)
LEMMA LoopsEnd ==
  ASSUME StageInv, CustomersDone \/ SlidesDone \/ JarsDone PROVE StageInv'
<1>1. "slides" \in Phases /\ "jars" \in Phases /\ "washing" \in Phases
  BY DEF Phases
<1>2. Len(bar.washing) \in Nat /\ Len(bar.washing) <= Len(bar.washing) /\ 1 \in Nat /\ 1 >= 1
  BY BarFields DEF StageInv, StageOK
<1>3. CASE CustomersDone
  BY <1>1, <1>2, <1>3, ThroughStep DEF CustomersDone
<1>4. CASE SlidesDone
  BY <1>1, <1>2, <1>4, ThroughStep DEF SlidesDone
<1>5. CASE JarsDone
  BY <1>1, <1>2, <1>5, ThroughStep DEF JarsDone
<1> QED BY <1>3, <1>4, <1>5

-----------------------------------------------------------------------------
(* The shakes' steps                                                       *)

(* The shake whose turn it is.                                             *)
LEMMA TheSlideAt ==
  ASSUME StageInv, Visiting("slides", Len(slides))
  PROVE  /\ at \in 1 .. Len(slides) /\ slides \in Seq(Shake) /\ slides[at] \in Shake
         /\ Without(slides, at) \in Seq(Shake) /\ Len(Without(slides, at)) = Len(slides) - 1
<1>1. at \in Nat /\ at >= 1 /\ at <= Len(slides) /\ slides \in Seq(Shake)
  BY DEF StageInv, StageOK, Placed, Visiting
<1>2. at \in 1 .. Len(slides)
  BY <1>1
<1>3. slides[at] \in Shake
  BY <1>1, <1>2
<1> QED BY <1>1, <1>2, <1>3, WithoutIsShorter

(* The customer who takes the shake is one of those it has come past.      *)
LEMMA TakerTakes ==
  ASSUME customers \in [Customer -> Record], Takers # {} PROVE Taker \in Takers
<1> DEFINE places == {customers[c].x : c \in Takers}
           closest == {c \in Takers : \A d \in Takers : customers[c].x <= customers[d].x}
<1>1. \A c \in Takers : c \in Customer /\ customers[c] \in Record
  BY DEF Takers
<1>2. \A c \in Takers : c \in Nat /\ customers[c].x \in Nat
  <2>1. CustomerCount \in Nat /\ LaneLength \in Nat
    BY StageShape
  <2>2. ASSUME NEW c \in Takers PROVE c \in Nat /\ customers[c].x \in Nat
    <3>1. c \in 1 .. CustomerCount /\ customers[c] \in Record
      BY <1>1 DEF Customer
    <3>2. \A r \in Record : r.x \in 0 .. LaneLength
      BY DEF Record
    <3> QED BY <2>1, <3>1, <3>2
  <2> QED BY <2>2
<1>3. places \subseteq Nat /\ places # {}
  BY <1>2
<1>4. Least(places) \in places /\ \A x \in places : Least(places) <= x
  BY <1>3, LeastIsLeast
<1>5. PICK c \in Takers : customers[c].x = Least(places)
  BY <1>4
<1>6. c \in closest
  BY <1>4, <1>5
<1>7. closest \subseteq Nat /\ closest # {}
  BY <1>2, <1>6
<1>8. Least(closest) \in closest
  <2> HIDE DEF closest
  <2> QED BY <1>7, LeastIsLeast
<1> QED BY <1>8 DEF Taker

(* A served customer's record.                                             *)
LEMMA ServedIsSound ==
  ASSUME customers \in [Customer -> Record], NEW c \in Customer, customers[c].phase = "marching"
  PROVE  /\ Served(c) \in Record /\ Served(c).phase = "drinking" /\ Served(c).fulfilled
         /\ (Served(c).bonus <=> ~customers[c].fulfilled)
<1> DEFINE r == customers[c]
           n == IF MayRequeue(c) THEN r.requeues + 1 ELSE r.requeues
           leaves == ~MayRequeue(c)
           bonus == BonusJar(c)
<1>1. r \in Record /\ r.requeues \in 0 .. MaxRequeues /\ DrinkTicks \in 0 .. DrinkTicks
  BY StageShape DEF Record
<1>2. n \in 0 .. MaxRequeues
  BY <1>1, StageShape DEF MayRequeue
<1>3. leaves \in BOOLEAN /\ bonus \in BOOLEAN /\ (bonus <=> ~r.fulfilled)
  BY DEF MayRequeue, BonusJar, FirstOrder
<1>4. Served(c) = [r EXCEPT !.phase = "drinking", !.timer = DrinkTicks, !.fulfilled = TRUE,
                            !.leaves = leaves, !.requeues = n, !.bonus = bonus]
  BY DEF Served
<1> HIDE DEF r, n, leaves, bonus
<1>5. Served(c) \in Record
  BY <1>1, <1>2, <1>3, <1>4 DEF Record
<1>6. Served(c).phase = "drinking" /\ Served(c).fulfilled = TRUE /\ Served(c).bonus = bonus
  BY <1>1, <1>4 DEF Record
<1> QED BY <1>3, <1>5, <1>6 DEF r

(* Products grow with their factors.                                       *)
LEMMA TimesIsMonotone ==
  ASSUME NEW a \in Nat, NEW m \in Nat, NEW n \in Nat, m <= n PROVE a * m <= a * n
<1>1. n - m \in Nat /\ n = m + (n - m)
  OBVIOUS
<1>2. \A k \in Nat : a * k \in Nat /\ a * (m + k) = a * m + a * k
  OBVIOUS
<1>3. a * m \in Nat /\ a * (n - m) \in Nat /\ a * n = a * m + a * (n - m)
  BY <1>1, <1>2
<1> QED BY <1>3

(* The shake is taken (moveSlides): a first order is paid for.             *)
LEMMA ServeSlideStep ==
  ASSUME StageInv, ServeSlide PROVE StageInv'
<1> USE DEF StageInv
<1> DEFINE c == Taker
           r == Served(c)
<1>1. /\ Visiting("slides", Len(slides)) /\ Takers # {}
      /\ customers' = [customers EXCEPT ![c] = r] /\ slides' = Without(slides, at) /\ serviceActions' = serviceActions + 1
      /\ UNCHANGED <<phase, at, beat, status, lives, controlMode, bar, jars, spawnCountdown, spawned, walkouts, resolved, exited>>
  BY DEF ServeSlide, controls
<1>2. IF FirstOrder(c)
      THEN /\ fulfilled' = fulfilled + 1 /\ streak' = streak + 1
           /\ score' = score + ServeBase + ServeStep * (IF streak < ServeCap THEN streak ELSE ServeCap)
      ELSE UNCHANGED <<fulfilled, streak, score>>
  BY DEF ServeSlide
<1>3. customers \in [Customer -> Record] /\ c \in Customer /\ customers[c].phase = "marching" /\ c <= spawned
  <2>1. customers \in [Customer -> Record]
    BY DEF StageOK
  <2>2. c \in Takers
    BY <1>1, <2>1, TakerTakes
  <2>3. c \in Customer /\ customers[c].phase = "marching"
    BY <2>2 DEF Takers
  <2>4. c \in Int /\ spawned \in Int
    BY <2>3, StageOKNumbers DEF Customer, Numbers
  <2>5. ~(c > spawned)
    BY <2>3 DEF Kept
  <2> HIDE DEF c
  <2> QED BY <2>1, <2>3, <2>4, <2>5
<1> HIDE DEF c
<1>4. /\ r \in Record /\ r.phase = "drinking" /\ r.fulfilled /\ (r.bonus <=> ~customers[c].fulfilled)
      /\ ~customers[c].bonus
  BY <1>3, ServedIsSound DEF Kept, WellServed
<1> HIDE DEF r
<1>5. WellServed(r)
  BY <1>4 DEF WellServed
<1>6. Numbers
  BY StageOKNumbers
<1>7. customers' \in [Customer -> Record] /\ Kept'
  <2>1. spawned' >= spawned /\ spawned \in Int /\ spawned' \in Int /\ c <= spawned'
    BY <1>1, <1>3, <1>6 DEF Numbers
  <2> QED BY <1>1, <1>3, <1>4, <1>5, <2>1, OneRecordKept
<1>8. slides' \in Seq(Shake) /\ Shakes' = Shakes - 1
  BY <1>1, TheSlideAt DEF Shakes
<1>9. BarJars' = BarJars /\ Empties' = Empties /\ Pending' = Pending
  BY <1>1 DEF BarJars, Jars, Hand, Empties, Pending, Bonuses
<1>10. /\ Guests' = Guests + Bit(r.phase # "none") - Bit(customers[c].phase # "none")
       /\ Drinkers' = Drinkers + Bit(r.phase = "drinking") - Bit(customers[c].phase = "drinking")
       /\ Pleased' = Pleased + Bit(r.fulfilled) - Bit(customers[c].fulfilled)
       /\ Unserved' = Unserved + Bit(r.phase # "none" /\ ~r.fulfilled)
                     - Bit(customers[c].phase # "none" /\ ~customers[c].fulfilled)
       /\ Promised' = Promised + Bit(r.bonus) - Bit(customers[c].bonus)
  BY <1>1, <1>3, OneRecordChanges
<1>11. Guests' = Guests /\ Drinkers' = Drinkers + 1
  BY <1>3, <1>4, <1>6, <1>10 DEF Numbers, Bit
<1>12. ASSUME StageOK' PROVE JarsHeld'
  <2>1. BarJars' + Shakes' + Drinkers' + Empties' + lives + walkouts
         = BarJars + Shakes + Drinkers + Empties + lives' + walkouts'
    BY <1>1, <1>6, <1>8, <1>9, <1>11 DEF Numbers
  <2> QED BY <1>12, <2>1, JarsStayHeld
<1>13. EndHeld' /\ OneHand(bar)' /\ Placed'
  BY <1>1 DEF EndHeld, OneHand, Placed, Visiting
<1>14. CASE FirstOrder(c)
  <2>1. ~customers[c].fulfilled
    BY <1>14 DEF FirstOrder
  <2>2. Pleased' = Pleased + 1 /\ Unserved' = Unserved - 1 /\ Promised' = Promised + 1
    BY <1>3, <1>4, <1>6, <1>10, <2>1 DEF Numbers, Bit
  <2> DEFINE m == IF streak < ServeCap THEN streak ELSE ServeCap
             paid == ServeStep * m
             most == ServeStep * ServeCap
  <2>3. fulfilled' = fulfilled + 1 /\ streak' = streak + 1 /\ score' = score + ServeBase + paid
    BY <1>2, <1>14
  <2>4. paid \in Nat /\ most \in Nat /\ paid <= most /\ ServeBase \in Nat
    <3>1. m \in Nat /\ m <= ServeCap /\ ServeCap \in Nat /\ ServeStep \in Nat /\ ServeBase \in Nat
      BY <1>6, StageShape DEF Numbers
    <3> HIDE DEF m
    <3>2. \A a, b \in Nat : a * b \in Nat
      OBVIOUS
    <3> QED BY <3>1, <3>2, TimesIsMonotone
  <2> HIDE DEF paid
  <2>5. fulfilled' \in Nat /\ streak' \in Nat /\ score' \in Nat /\ serviceActions' \in Nat
    BY <1>1, <1>6, <2>3, <2>4 DEF Numbers, StageOK
  <2>6. StageOK'
    BY <1>1, <1>7, <1>8, <2>5 DEF StageOK
  <2>7. CustomersHeld'
    <3>1. /\ spawned' + Guests + resolved = spawned + Guests' + resolved'
          /\ resolved' + walkouts + exited = resolved + walkouts' + exited'
      BY <1>1, <1>6, <1>11 DEF Numbers
    <3>2. Pleased' + exited' + fulfilled <= Pleased + exited + fulfilled'
      BY <1>1, <1>6, <2>2, <2>3 DEF Numbers
    <3>3. fulfilled' + Unserved' + spawned <= fulfilled + Unserved + spawned'
      BY <1>1, <1>6, <2>2, <2>3 DEF Numbers
    <3> QED BY <2>6, <3>1, <3>2, <3>3, CustomersStayHeld
  <2>8. ScoreHeld'
    <3>1. Owed' = Owed + 1
      BY <1>6, <1>9, <2>2 DEF Numbers, Owed
    <3>2. Points(fulfilled, Owed) \in Int /\ Points(fulfilled + 1, Owed + 1) = Points(fulfilled, Owed) + ServeBase + most
      BY <1>6, PointsAdd DEF Numbers
    <3> HIDE DEF most
    <3>3. score <= Points(fulfilled, Owed)
      <4>1. status = "running" /\ score <= Points(fulfilled, Owed) + (IF status = "won" THEN ClearBonus * lives ELSE 0)
        BY <1>1 DEF ScoreHeld, Visiting
      <4> QED BY <3>2, <4>1
    <3>4. score' <= Points(fulfilled + 1, Owed + 1)
      BY <1>6, <2>3, <2>4, <3>2, <3>3 DEF Numbers
    <3>5. status' = "running"
      BY <1>1 DEF Visiting
    <3>6. ScoreHeld' <=> score' <= Points(fulfilled', Owed') + (IF status' = "won" THEN ClearBonus * lives' ELSE 0)
      BY DEF ScoreHeld, Points
    <3>7. Points(fulfilled', Owed') = Points(fulfilled + 1, Owed + 1)
      BY <2>3, <3>1
    <3>8. Points(fulfilled + 1, Owed + 1) \in Int
      BY <3>2, <2>4
    <3> QED BY <3>4, <3>5, <3>6, <3>7, <3>8
  <2> QED BY <1>7, <1>12, <1>13, <2>6, <2>7, <2>8
<1>15. CASE ~FirstOrder(c)
  <2>1. customers[c].fulfilled
    BY <1>15 DEF FirstOrder
  <2>2. Pleased' = Pleased /\ Unserved' = Unserved /\ Promised' = Promised
    BY <1>3, <1>4, <1>6, <1>10, <2>1 DEF Numbers, Bit
  <2>3. UNCHANGED <<fulfilled, streak, score>>
    BY <1>2, <1>15
  <2>4. serviceActions' \in Nat
    BY <1>1 DEF StageOK
  <2>5. StageOK'
    BY <1>1, <1>7, <1>8, <2>3, <2>4 DEF StageOK
  <2>6. CustomersHeld'
    BY <1>1, <1>11, <2>2, <2>3 DEF CustomersHeld
  <2>7. ScoreHeld'
    BY <1>1, <1>9, <2>2, <2>3, ScoreStaysHeld DEF Visiting, Owed
  <2> QED BY <1>7, <1>12, <1>13, <2>5, <2>6, <2>7
<1> QED BY <1>14, <1>15

(* A shake or jar smashed costs a life.                                    *)
LEMMA SmashSlideStep ==
  ASSUME StageInv, SmashSlide PROVE StageInv'
<1> USE DEF StageInv
<1>1. /\ Visiting("slides", Len(slides)) /\ slides' = Without(slides, at) /\ LoseLife
      /\ UNCHANGED <<phase, at, beat, score, controlMode, bar, customers, jars, spawnCountdown, spawned, serviceActions,
                     fulfilled, walkouts, resolved, exited>>
  BY DEF SmashSlide, controls, counts
<1>2. slides' \in Seq(Shake) /\ Shakes' = Shakes - 1
  BY <1>1, TheSlideAt DEF Shakes
<1>3. lives' = lives - 1 /\ lives' \in 0 .. StartLives /\ streak' \in Nat /\ status' \in {"running", "lost"} /\ EndHeld'
  BY <1>1, LifeLost DEF Visiting
<1>4. StageOK'
  BY <1>1, <1>2, <1>3 DEF StageOK
<1>5. Guests' = Guests /\ Drinkers' = Drinkers /\ Pleased' = Pleased /\ Unserved' = Unserved /\ Promised' = Promised
  BY <1>1, SameCustomers
<1>6. BarJars' = BarJars /\ Empties' = Empties /\ Owed' = Owed
  BY <1>1, <1>5 DEF BarJars, Jars, Hand, Empties, Owed, Pending, Bonuses
<1>7. JarsHeld'
  <2>1. Numbers
    BY StageOKNumbers
  <2>2. BarJars' + Shakes' + Drinkers' + Empties' + lives + walkouts
         = BarJars + Shakes + Drinkers + Empties + lives' + walkouts'
    BY <1>1, <1>2, <1>3, <1>5, <1>6, <2>1 DEF Numbers
  <2> QED BY <1>4, <2>2, JarsStayHeld
<1>8. CustomersHeld' /\ Kept'
  BY <1>1, <1>5, SameRecordsKept DEF CustomersHeld
<1>9. ScoreHeld'
  BY <1>1, <1>3, <1>6, ScoreStaysHeld DEF Visiting
<1>10. OneHand(bar)' /\ Placed'
  BY <1>1 DEF OneHand, Placed
<1> QED BY <1>3, <1>4, <1>7, <1>8, <1>9, <1>10

(* A shake slides on (moveSlides).                                         *)
LEMMA MoveSlideStep ==
  ASSUME StageInv, MoveSlide PROVE StageInv'
<1> USE DEF StageInv
<1>1. /\ Visiting("slides", Len(slides)) /\ SlideX <= LaneLength /\ slides' = [slides EXCEPT ![at].x = SlideX] /\ at' = at + 1
      /\ UNCHANGED <<phase, beat, status, score, lives, streak, controlMode, bar, customers, jars, spawnCountdown, spawned,
                     serviceActions, fulfilled, walkouts, resolved, exited>>
  BY DEF MoveSlide, NextVisit, life, controls, counts
<1>2. at \in 1 .. Len(slides) /\ slides \in Seq(Shake) /\ slides[at] \in Shake
  BY <1>1, TheSlideAt
<1>3. SlideX \in 0 .. LaneLength
  <2>1. slides[at].x \in 0 .. LaneLength /\ SlideSpeed \in Nat /\ LaneLength \in Nat
    BY <1>2, StageShape DEF Shake
  <2> QED BY <1>1, <2>1 DEF SlideX
<1>4. [slides[at] EXCEPT !.x = SlideX] \in Shake
  BY <1>2, <1>3 DEF Shake
<1>5. slides' \in Seq(Shake) /\ Shakes' = Shakes
  <2>1. slides' = [slides EXCEPT ![at] = [slides[at] EXCEPT !.x = SlideX]]
    BY <1>1, <1>2
  <2> QED BY <1>2, <1>4, <2>1 DEF Shakes
<1>6. at' \in Nat /\ at' >= 1
  BY <1>1, <1>2
<1>7. StageOK'
  BY <1>1, <1>5, <1>6 DEF StageOK
<1>8. Guests' = Guests /\ Drinkers' = Drinkers /\ Pleased' = Pleased /\ Unserved' = Unserved /\ Promised' = Promised
  BY <1>1, SameCustomers
<1>9. BarJars' = BarJars /\ Empties' = Empties /\ Owed' = Owed
  BY <1>1, <1>8 DEF BarJars, Jars, Hand, Empties, Owed, Pending, Bonuses
<1>10. JarsHeld' /\ CustomersHeld' /\ Kept'
  BY <1>1, <1>5, <1>8, <1>9, SameRecordsKept DEF JarsHeld, CustomersHeld
<1>11. EndHeld' /\ ScoreHeld'
  BY <1>1, <1>9, ScoreStaysHeld DEF EndHeld, Visiting
<1>12. OneHand(bar)' /\ Placed'
  BY <1>1, <1>6 DEF OneHand, Placed, Visiting
<1> QED BY <1>7, <1>10, <1>11, <1>12

-----------------------------------------------------------------------------
(* The jars' steps                                                         *)

(* A jar leaves the counter, and its bonus with it.                        *)
LEMMA TheJarAt ==
  ASSUME StageInv, Visiting("jars", Len(jars))
  PROVE  at \in 1 .. Len(jars) /\ jars \in Seq(Jar) /\ jars[at] \in Jar
<1>1. at \in Nat /\ at >= 1 /\ at <= Len(jars) /\ jars \in Seq(Jar)
  BY DEF StageInv, StageOK, Placed, Visiting
<1>2. at \in 1 .. Len(jars)
  BY <1>1
<1> QED BY <1>1, <1>2

(* What its leaving does to the counts.                                    *)
LEMMA JarTaken ==
  ASSUME StageInv, Visiting("jars", Len(jars)), jars' = Without(jars, at), UNCHANGED customers
  PROVE  jars' \in Seq(Jar) /\ Empties' = Empties - 1 /\ Owed' = Owed - Bit(jars[at].bonus)
<1>1. at \in 1 .. Len(jars) /\ jars \in Seq(Jar)
  BY TheJarAt
<1>2. jars' \in Seq(Jar) /\ Empties' = Empties - 1
  BY <1>1, WithoutIsShorter DEF Empties
<1>3. Pending' = Pending - Bit(jars[at].bonus)
  <2>1. Cardinality(Bonuses(Without(jars, at))) = Cardinality(Bonuses(jars)) - Bit(jars[at].bonus)
    BY <1>1, BonusTaken
  <2>2. Pending' = Cardinality(Bonuses(jars'))
    BY DEF Pending, Bonuses
  <2> QED BY <2>1, <2>2 DEF Pending
<1>4. Promised' = Promised
  BY SameCustomers
<1>5. Bit(jars[at].bonus) \in 0 .. 1
  BY DEF Bit
<1>6. Owed' = Owed - Bit(jars[at].bonus)
  <2> DEFINE k == Bit(jars[at].bonus)
  <2> SUFFICES Owed' = Owed - k
    OBVIOUS
  <2>1. k \in 0 .. 1 /\ Pending' = Pending - k
    BY <1>3, <1>5
  <2>2. Promised \in Nat /\ Pending \in Nat
    BY StageOKNumbers DEF StageInv, Numbers
  <2> HIDE DEF k
  <2> QED BY <1>4, <2>1, <2>2 DEF Owed
<1> QED BY <1>2, <1>6

(* A jar caught goes to the wash, and its bonus is paid (moveJars).        *)
LEMMA CatchJarStep ==
  ASSUME StageInv, CatchJar PROVE StageInv'
<1> USE DEF StageInv
<1>1. /\ Visiting("jars", Len(jars)) /\ bar' = Caught /\ jars' = Without(jars, at)
      /\ score' = score + (IF jars[at].bonus THEN JarCatch ELSE 0)
      /\ UNCHANGED <<phase, at, beat, status, lives, streak, controlMode, customers, slides, spawnCountdown, spawned,
                     serviceActions, fulfilled, walkouts, resolved, exited>>
  BY DEF CatchJar, controls, counts
<1>2. jars' \in Seq(Jar) /\ Empties' = Empties - 1 /\ Owed' = Owed - Bit(jars[at].bonus)
  BY <1>1, JarTaken
<1>3. OneHand(bar') /\ BarJars' = BarJars + 1
  <2>1. /\ Append(bar.washing, WashTicks) \in Seq(1 .. WashTicks) /\ Len(Append(bar.washing, WashTicks)) = Len(bar.washing) + 1
        /\ bar.free \in Nat /\ Len(bar.washing) \in Nat
    BY BarFields, WashAppended DEF OneHand
  <2>2. bar' = [bar EXCEPT !.washing = Append(bar.washing, WashTicks)]
    BY <1>1 DEF Caught
  <2>3. bar' \in Bar
    BY <2>1, <2>2 DEF OneHand, Bar
  <2>4. /\ bar'.holding = bar.holding /\ bar'.blending = bar.blending /\ bar'.free = bar.free
        /\ bar'.washing = Append(bar.washing, WashTicks)
    BY <2>2 DEF OneHand, Bar
  <2>5. Hand(bar') = Hand(bar) /\ Hand(bar) \in Nat
    BY <2>4 DEF Hand
  <2>6. BarJars' = bar'.free + Len(bar'.washing) + Hand(bar')
    BY DEF BarJars, Jars, Hand
  <2>7. BarJars = bar.free + Len(bar.washing) + Hand(bar)
    BY DEF BarJars, Jars
  <2>8. BarJars' = bar.free + (Len(bar.washing) + 1) + Hand(bar)
    BY <2>1, <2>4, <2>5, <2>6
  <2>9. BarJars' = BarJars + 1
    BY <2>1, <2>5, <2>7, <2>8
  <2> QED BY <2>3, <2>4, <2>9 DEF OneHand
<1>4. Numbers
  BY StageOKNumbers
<1>5. score' \in Nat /\ JarCatch \in Nat
  BY <1>1, <1>4, StageShape DEF Numbers
<1>6. StageOK'
  BY <1>1, <1>2, <1>3, <1>5 DEF StageOK, OneHand
<1>7. Guests' = Guests /\ Drinkers' = Drinkers /\ Pleased' = Pleased /\ Unserved' = Unserved
  BY <1>1, SameCustomers
<1>8. Shakes' = Shakes
  BY <1>1 DEF Shakes
<1>9. JarsHeld'
  <2>1. BarJars' + Shakes' + Drinkers' + Empties' + lives + walkouts
         = BarJars + Shakes + Drinkers + Empties + lives' + walkouts'
    BY <1>1, <1>2, <1>3, <1>4, <1>7, <1>8 DEF Numbers
  <2> QED BY <1>6, <2>1, JarsStayHeld
<1>10. CustomersHeld' /\ Kept' /\ EndHeld'
  BY <1>1, <1>7, SameRecordsKept DEF CustomersHeld, EndHeld, Visiting
<1>11. ScoreHeld'
  <2>1. status = "running" /\ Points(fulfilled, Owed) \in Int /\ Points(fulfilled, Owed - 1) = Points(fulfilled, Owed) + JarCatch
    <3>1. fulfilled \in Int /\ Owed \in Int
      BY <1>4 DEF Numbers
    <3>2. Points(fulfilled, Owed) \in Int /\ Points(fulfilled, Owed - 1) = Points(fulfilled, Owed) + JarCatch
      BY <3>1, PointsAdd
    <3> QED BY <1>1, <3>2 DEF Visiting
  <2>2. score <= Points(fulfilled, Owed)
    <3>1. score <= Points(fulfilled, Owed) + (IF status = "won" THEN ClearBonus * lives ELSE 0)
      BY DEF ScoreHeld
    <3> QED BY <2>1, <3>1
  <2>3. score' <= Points(fulfilled, Owed')
    <3>1. CASE jars[at].bonus
      <4>1. Owed' = Owed - 1 /\ score' = score + JarCatch
        BY <1>1, <1>2, <3>1 DEF Bit
      <4> QED BY <1>4, <1>5, <2>1, <2>2, <4>1 DEF Numbers
    <3>2. CASE ~jars[at].bonus
      <4>1. Owed' = Owed /\ score' = score
        BY <1>1, <1>2, <1>4, <3>2 DEF Bit, Numbers
      <4> QED BY <2>2, <4>1
    <3> QED BY <3>1, <3>2
  <2>4. ScoreHeld' <=> score' <= Points(fulfilled', Owed') + (IF status' = "won" THEN ClearBonus * lives' ELSE 0)
    BY DEF ScoreHeld, Points
  <2>5. Points(fulfilled, Owed') \in Int
    <3>1. Owed' \in Int
      BY <1>6, StayNumbers DEF Numbers
    <3> QED BY <1>4, <3>1, PointsAdd DEF Numbers
  <2> QED BY <1>1, <2>1, <2>3, <2>4, <2>5
<1>12. OneHand(bar)' /\ Placed'
  BY <1>1, <1>3 DEF OneHand, Placed, Visiting
<1> QED BY <1>6, <1>9, <1>10, <1>11, <1>12

(* A jar nobody caught is smashed: a life, and the bonus it carried.       *)
LEMMA SmashJarStep ==
  ASSUME StageInv, SmashJar PROVE StageInv'
<1> USE DEF StageInv
<1>1. /\ Visiting("jars", Len(jars)) /\ jars' = Without(jars, at) /\ LoseLife
      /\ UNCHANGED <<phase, at, beat, score, controlMode, bar, customers, slides, spawnCountdown, spawned, serviceActions,
                     fulfilled, walkouts, resolved, exited>>
  BY DEF SmashJar, controls, counts
<1>2. jars' \in Seq(Jar) /\ Empties' = Empties - 1 /\ Owed' = Owed - Bit(jars[at].bonus)
  BY <1>1, JarTaken
<1>3. lives' = lives - 1 /\ lives' \in 0 .. StartLives /\ streak' \in Nat /\ status' \in {"running", "lost"} /\ EndHeld'
  BY <1>1, LifeLost DEF Visiting
<1>4. StageOK'
  BY <1>1, <1>2, <1>3 DEF StageOK
<1>5. Guests' = Guests /\ Drinkers' = Drinkers /\ Pleased' = Pleased /\ Unserved' = Unserved
  BY <1>1, SameCustomers
<1>6. BarJars' = BarJars /\ Shakes' = Shakes
  BY <1>1 DEF BarJars, Jars, Hand, Shakes
<1>7. Numbers
  BY StageOKNumbers
<1>8. JarsHeld'
  <2>1. BarJars' + Shakes' + Drinkers' + Empties' + lives + walkouts
         = BarJars + Shakes + Drinkers + Empties + lives' + walkouts'
    BY <1>1, <1>2, <1>3, <1>5, <1>6, <1>7 DEF Numbers
  <2> QED BY <1>4, <2>1, JarsStayHeld
<1>9. CustomersHeld' /\ Kept'
  BY <1>1, <1>5, SameRecordsKept DEF CustomersHeld
<1>10. ScoreHeld'
  <2>1. /\ status = "running" /\ JarCatch \in Nat
        /\ Points(fulfilled, Owed) \in Int /\ Points(fulfilled, Owed - 1) = Points(fulfilled, Owed) + JarCatch
    <3>1. fulfilled \in Int /\ Owed \in Int
      BY <1>7 DEF Numbers
    <3>2. Points(fulfilled, Owed) \in Int /\ Points(fulfilled, Owed - 1) = Points(fulfilled, Owed) + JarCatch
      BY <3>1, PointsAdd
    <3> QED BY <1>1, <3>2, StageShape DEF Visiting
  <2>2. score <= Points(fulfilled, Owed)
    <3>1. score <= Points(fulfilled, Owed) + (IF status = "won" THEN ClearBonus * lives ELSE 0)
      BY DEF ScoreHeld
    <3> QED BY <2>1, <3>1
  <2>3. Owed' \in {Owed, Owed - 1}
    BY <1>2, <1>7 DEF Bit, Numbers
  <2>4. score <= Points(fulfilled, Owed') /\ Points(fulfilled, Owed') \in Int
    BY <1>7, <2>1, <2>2, <2>3 DEF Numbers
  <2>5. ScoreHeld' <=> score' <= Points(fulfilled', Owed') + (IF status' = "won" THEN ClearBonus * lives' ELSE 0)
    BY DEF ScoreHeld, Points
  <2>6. status' # "won"
    BY <1>3
  <2> QED BY <1>1, <2>4, <2>5, <2>6
<1>11. OneHand(bar)' /\ Placed'
  BY <1>1 DEF OneHand, Placed
<1> QED BY <1>3, <1>4, <1>8, <1>9, <1>10, <1>11

(* A jar slides on (moveJars).                                             *)
LEMMA MoveJarStep ==
  ASSUME StageInv, MoveJar PROVE StageInv'
<1> USE DEF StageInv
<1> DEFINE e == [jars[at] EXCEPT !.x = JarX]
<1>1. /\ Visiting("jars", Len(jars)) /\ JarX > 0 /\ jars' = [jars EXCEPT ![at].x = JarX] /\ at' = at + 1
      /\ UNCHANGED <<phase, beat, status, score, lives, streak, controlMode, bar, customers, slides, spawnCountdown, spawned,
                     serviceActions, fulfilled, walkouts, resolved, exited>>
  BY DEF MoveJar, NextVisit, life, controls, counts
<1>2. at \in 1 .. Len(jars) /\ jars \in Seq(Jar) /\ jars[at] \in Jar
  BY <1>1, TheJarAt
<1>3. JarX \in 0 .. LaneLength
  <2>1. jars[at].x \in 0 .. LaneLength /\ ReturnSpeed \in Nat /\ LaneLength \in Nat
    BY <1>2, StageShape DEF Jar
  <2> QED BY <1>1, <2>1 DEF JarX
<1>4. e \in Jar /\ e.bonus = jars[at].bonus
  BY <1>2, <1>3 DEF Jar
<1>5. jars' = [jars EXCEPT ![at] = e]
  BY <1>1, <1>2
<1> HIDE DEF e
<1>6. jars' \in Seq(Jar) /\ Len(jars') = Len(jars)
  BY <1>2, <1>4, <1>5
<1>7. Bonuses(jars') = Bonuses(jars)
  <2>1. \A j \in 1 .. Len(jars) : jars'[j] = IF j = at THEN e ELSE jars[j]
    BY <1>2, <1>5
  <2>2. \A j \in 1 .. Len(jars) : jars'[j].bonus <=> jars[j].bonus
    BY <1>4, <2>1
  <2> QED BY <1>6, <2>2 DEF Bonuses
<1>8. Empties' = Empties /\ Pending' = Pending
  BY <1>6, <1>7 DEF Empties, Pending, Bonuses
<1>9. at' \in Nat /\ at' >= 1
  BY <1>1, <1>2
<1>10. StageOK'
  BY <1>1, <1>6, <1>9 DEF StageOK
<1>11. Guests' = Guests /\ Drinkers' = Drinkers /\ Pleased' = Pleased /\ Unserved' = Unserved /\ Promised' = Promised
  BY <1>1, SameCustomers
<1>12. BarJars' = BarJars /\ Shakes' = Shakes /\ Owed' = Owed
  BY <1>1, <1>8, <1>11 DEF BarJars, Jars, Hand, Shakes, Owed
<1>13. JarsHeld' /\ CustomersHeld' /\ Kept'
  BY <1>1, <1>8, <1>11, <1>12, SameRecordsKept DEF JarsHeld, CustomersHeld
<1>14. EndHeld' /\ ScoreHeld'
  BY <1>1, <1>12, ScoreStaysHeld DEF EndHeld, Visiting
<1>15. OneHand(bar)' /\ Placed'
  BY <1>1, <1>9 DEF OneHand, Placed, Visiting
<1> QED BY <1>10, <1>13, <1>14, <1>15

-----------------------------------------------------------------------------
(* Washing and the end of the stage                                        *)

(* A clean jar is free again (tickWashing).                                *)
LEMMA WashStep ==
  ASSUME StageInv, Wash PROVE StageInv'
<1> USE DEF StageInv
<1> DEFINE w == bar.washing
<1>1. /\ status = "running" /\ phase = "washing" /\ at > 0 /\ at' = at - 1
      /\ bar' = (IF w[at] > 1 THEN [bar EXCEPT !.washing[at] = @ - 1]
                 ELSE [bar EXCEPT !.washing = Without(@, at), !.free = @ + 1])
      /\ UNCHANGED <<phase, beat, status, score, lives, streak, controlMode, customers, slides, jars, spawnCountdown, spawned,
                     serviceActions, fulfilled, walkouts, resolved, exited>>
  BY DEF Wash, life, controls, counts
<1>2. bar \in Bar /\ w \in Seq(1 .. WashTicks) /\ Len(w) \in Nat /\ bar.free \in Nat
  BY BarFields DEF OneHand
<1>3. at \in 1 .. Len(w) /\ at' \in Nat
  <2>1. at \in Nat /\ at <= Len(w)
    BY <1>1 DEF StageOK, Placed
  <2> QED BY <1>1, <1>2, <2>1
<1>4. OneHand(bar') /\ Jars(bar') = Jars(bar) /\ at' <= Len(bar'.washing)
  <2>1. Hand(bar) \in Nat
    BY DEF Hand
  <2>2. CASE w[at] > 1
    <3> DEFINE d == [w EXCEPT ![at] = w[at] - 1]
    <3>1. w[at] - 1 \in 1 .. WashTicks
      BY <1>2, <1>3, <2>2, StageShape
    <3>2. d \in Seq(1 .. WashTicks) /\ Len(d) = Len(w)
      BY <1>2, <1>3, <3>1
    <3>3. bar' = [bar EXCEPT !.washing = d]
      BY <1>1, <1>2, <2>2 DEF Bar
    <3> HIDE DEF d, w
    <3>4. bar' \in Bar /\ bar'.washing = d /\ bar'.free = bar.free /\ bar'.holding = bar.holding /\ bar'.blending = bar.blending
      BY <1>2, <3>2, <3>3 DEF Bar
    <3>5. Hand(bar') = Hand(bar)
      BY <3>4 DEF Hand
    <3>6. at' <= Len(w)
      BY <1>1, <1>2, <1>3
    <3> QED BY <3>2, <3>4, <3>5, <3>6 DEF OneHand, Jars, w
  <2>3. CASE ~(w[at] > 1)
    <3> DEFINE d == Without(w, at)
    <3>1. d \in Seq(1 .. WashTicks) /\ Len(d) = Len(w) - 1
      BY <1>2, <1>3, WithoutIsShorter
    <3>2. bar' = [bar EXCEPT !.washing = d, !.free = bar.free + 1]
      BY <1>1, <2>3
    <3>3. bar.free + 1 \in Nat
      BY <1>2
    <3> HIDE DEF d, w
    <3>4. bar' \in Bar /\ bar'.washing = d /\ bar'.free = bar.free + 1 /\ bar'.holding = bar.holding /\ bar'.blending = bar.blending
      BY <1>2, <3>1, <3>2, <3>3 DEF Bar
    <3>5. Hand(bar') = Hand(bar)
      BY <3>4 DEF Hand
    <3>6. at' <= Len(d)
      BY <1>1, <1>2, <1>3, <3>1
    <3>7. Jars(bar') = (bar.free + 1) + (Len(w) - 1) + Hand(bar) /\ Jars(bar) = bar.free + Len(w) + Hand(bar)
      BY <3>1, <3>4, <3>5 DEF Jars, w
    <3>8. Jars(bar') = Jars(bar)
      BY <1>2, <2>1, <3>7
    <3> QED BY <3>4, <3>6, <3>8 DEF OneHand
  <2> QED BY <2>2, <2>3
<1>5. StageOK'
  BY <1>1, <1>3, <1>4 DEF StageOK, OneHand
<1>6. Guests' = Guests /\ Drinkers' = Drinkers /\ Pleased' = Pleased /\ Unserved' = Unserved /\ Promised' = Promised
  BY <1>1, SameCustomers
<1>7. BarJars' = BarJars /\ Shakes' = Shakes /\ Empties' = Empties /\ Owed' = Owed
  <2>1. BarJars' = Jars(bar')
    BY DEF BarJars, Jars, Hand
  <2> QED BY <1>1, <1>4, <1>6, <2>1 DEF BarJars, Shakes, Empties, Owed, Pending, Bonuses
<1>8. JarsHeld' /\ CustomersHeld' /\ Kept'
  BY <1>1, <1>6, <1>7, SameRecordsKept DEF JarsHeld, CustomersHeld
<1>9. EndHeld' /\ ScoreHeld'
  BY <1>1, <1>7, ScoreStaysHeld DEF EndHeld
<1>10. OneHand(bar)' /\ Placed'
  BY <1>1, <1>4 DEF OneHand, Placed
<1> QED BY <1>5, <1>8, <1>9, <1>10

(* A stage is won when nothing and nobody is left (checkStageCleared).     *)
LEMMA CheckStageClearedStep ==
  ASSUME StageInv, CheckStageCleared PROVE StageInv'
<1> USE DEF StageInv
<1>1. /\ status = "running" /\ phase' = "input" /\ at' = 1
      /\ UNCHANGED <<beat, lives, streak, controlMode, bar, customers, slides, jars, spawnCountdown, spawned,
                     serviceActions, fulfilled, walkouts, resolved, exited>>
  BY DEF CheckStageCleared, controls, counts
<1>2. IF Cleared THEN status' = "won" /\ score' = score + ClearBonus * lives ELSE UNCHANGED <<status, score>>
  BY DEF CheckStageCleared
<1>3. Numbers
  BY StageOKNumbers
<1> DEFINE bonus == ClearBonus * lives
<1>4. bonus \in Nat
  <2>1. ClearBonus \in Nat /\ lives \in Nat
    BY <1>3, StageShape DEF Numbers
  <2> QED BY <2>1
<1>5. StageOK'
  <2>1. score' \in Nat /\ status' \in {"running", "won"}
    <3> HIDE DEF bonus
    <3>1. score' = score \/ score' = score + bonus
      BY <1>2 DEF bonus
    <3> QED BY <1>1, <1>2, <1>3, <1>4, <3>1 DEF Numbers
  <2> QED BY <1>1, <2>1 DEF StageOK, Phases
<1>6. Guests' = Guests /\ Drinkers' = Drinkers /\ Pleased' = Pleased /\ Unserved' = Unserved /\ Promised' = Promised
  BY <1>1, SameCustomers
<1>7. BarJars' = BarJars /\ Shakes' = Shakes /\ Empties' = Empties /\ Owed' = Owed
  BY <1>1, <1>6 DEF BarJars, Jars, Hand, Shakes, Empties, Owed, Pending, Bonuses
<1>8. JarsHeld' /\ CustomersHeld' /\ Kept'
  BY <1>1, <1>6, <1>7, SameRecordsKept DEF JarsHeld, CustomersHeld
<1>9. EndHeld'
  <2>1. Cleared' <=> Cleared
    BY <1>1 DEF Cleared, Present
  <2> QED BY <1>1, <1>2, <2>1 DEF EndHeld
<1>10. ScoreHeld'
  <2>1. CASE ~Cleared
    BY <1>1, <1>2, <1>7, <2>1, ScoreStaysHeld
  <2>2. CASE Cleared
    <3>1. ScoreHeld' <=> score' <= Points(fulfilled', Owed') + (IF status' = "won" THEN ClearBonus * lives' ELSE 0)
      BY DEF ScoreHeld, Points
    <3>2. score <= Points(fulfilled, Owed) + (IF status = "won" THEN ClearBonus * lives ELSE 0) /\ Points(fulfilled, Owed) \in Int
      BY <1>3, PointsAdd DEF ScoreHeld, Numbers
    <3>3. score <= Points(fulfilled, Owed)
      BY <1>1, <3>2
    <3>4. status' = "won" /\ score' = score + bonus /\ bonus = ClearBonus * lives'
      BY <1>1, <1>2, <2>2
    <3> HIDE DEF bonus
    <3>5. score + bonus <= Points(fulfilled, Owed) + bonus
      BY <1>3, <1>4, <3>2, <3>3 DEF Numbers
    <3> QED BY <1>1, <1>7, <3>1, <3>4, <3>5
  <2> QED BY <2>1, <2>2
<1>11. OneHand(bar)' /\ Placed'
  BY <1>1 DEF OneHand, Placed
<1> QED BY <1>5, <1>8, <1>9, <1>10, <1>11

(* A step that changes nothing.                                            *)
LEMMA NothingStep ==
  ASSUME StageInv, UNCHANGED vars PROVE StageInv'
<1> USE DEF StageInv
<1>1. UNCHANGED <<phase, at, beat, status, score, lives, streak, controlMode, bar, customers, slides, jars, spawnCountdown,
                  spawned, serviceActions, fulfilled, walkouts, resolved, exited>>
  BY DEF vars, life, controls, counts
<1>2. StageOK' /\ OneHand(bar)' /\ Placed' /\ Kept'
  BY <1>1, SameRecordsKept DEF StageOK, OneHand, Placed
<1>3. Guests' = Guests /\ Drinkers' = Drinkers /\ Pleased' = Pleased /\ Unserved' = Unserved /\ Promised' = Promised
  BY <1>1, SameCustomers
<1>4. BarJars' = BarJars /\ Shakes' = Shakes /\ Empties' = Empties /\ Owed' = Owed
  BY <1>1, <1>3 DEF BarJars, Jars, Hand, Shakes, Empties, Owed, Pending, Bonuses
<1>5. JarsHeld' /\ CustomersHeld' /\ ScoreHeld'
  BY <1>1, <1>3, <1>4 DEF JarsHeld, CustomersHeld, ScoreHeld, Points
<1>6. EndHeld'
  BY <1>1 DEF EndHeld, Cleared, Present
<1> QED BY <1>2, <1>5, <1>6

-----------------------------------------------------------------------------
(* The invariant holds, and what follows from it                           *)

(* The stage starts with nothing served, nobody in it and every jar free.  *)
LEMMA StageStart == Init => StageInv
<1> SUFFICES ASSUME Init PROVE StageInv
  OBVIOUS
<1>1. /\ phase = "input" /\ at = 1 /\ beat = 0 /\ score = StartScore /\ lives = StartLives /\ streak = 0
      /\ controlMode \in {"generation-2", "two-button-v1"} /\ status = (IF StartLives = 0 THEN "lost" ELSE "running")
      /\ customers = [c \in Customer |-> Nobody] /\ slides = <<>> /\ jars = <<>> /\ spawnCountdown = InitialDelay
      /\ spawned = 0 /\ serviceActions = 0 /\ fulfilled = 0 /\ walkouts = 0 /\ resolved = 0 /\ exited = 0
      /\ bar = [lane |-> 0, station |-> 1, x |-> 0, holding |-> Nothing, blending |-> Nothing,
                progress |-> 0, free |-> JarPool, washing |-> <<>>]
  BY DEF Init
<1>2. bar \in Bar /\ OneHand(bar) /\ BarJars = JarPool
  <2>1. 0 \in Lane /\ 1 \in 1 .. Len(Stations) /\ 0 \in 0 .. Reach /\ 0 \in 0 .. BlendTicks /\ JarPool \in Nat
    BY StageShape DEF Lane
  <2>2. bar \in Bar
    BY <1>1, <2>1 DEF Bar
  <2> QED BY <1>1, <2>1, <2>2 DEF OneHand, BarJars, Jars, Hand
<1>3. Nobody \in Record /\ WellServed(Nobody) /\ Nobody.phase = "none"
  BY NobodyIsARecord
<1>4. \A c \in Customer : customers[c] = Nobody
  BY <1>1
<1>5. customers \in [Customer -> Record] /\ Kept
  BY <1>1, <1>3, <1>4 DEF Kept
<1>6. StageOK
  <2>1. Beats \in Nat \ {0}
    <3>1. ASSUME NEW m \in Nat \ {0}, NEW n \in Nat \ {0} PROVE m * n \in Nat \ {0}
      OBVIOUS
    <3> QED BY <3>1, StageShape DEF Beats
  <2>2. 0 \in 0 .. Beats - 1
    BY <2>1
  <2>3. /\ StartScore \in Nat /\ StartLives \in 0 .. StartLives /\ InitialDelay \in Nat /\ 0 \in 0 .. CustomerCount
    BY StageShape
  <2> QED BY <1>1, <1>2, <1>5, <2>2, <2>3 DEF StageOK, Phases
<1>7. /\ Present = {} /\ Drinking = {} /\ Satisfied = {} /\ Waiting = {} /\ Rewarded = {} /\ Bonuses(jars) = {}
  <2>1. Nobody.phase = "none" /\ ~Nobody.fulfilled /\ ~Nobody.bonus
    BY DEF Nobody
  <2>2. Present = {} /\ Drinking = {} /\ Satisfied = {} /\ Waiting = {} /\ Rewarded = {}
    BY <1>4, <2>1 DEF Present, Drinking, Satisfied, Waiting, Rewarded
  <2>3. Bonuses(jars) = {}
    BY <1>1 DEF Bonuses
  <2> QED BY <2>2, <2>3
<1>8. /\ Guests = 0 /\ Drinkers = 0 /\ Pleased = 0 /\ Unserved = 0 /\ Owed = 0 /\ Shakes = 0 /\ Empties = 0
  <2>1. Cardinality({}) = 0
    BY FS_EmptySet
  <2>2. Guests = 0 /\ Drinkers = 0 /\ Pleased = 0 /\ Unserved = 0 /\ Promised = 0 /\ Pending = 0
    BY <1>7, <2>1 DEF Guests, Drinkers, Pleased, Unserved, Promised, Pending
  <2>3. Shakes = 0 /\ Empties = 0
    BY <1>1 DEF Shakes, Empties
  <2> QED BY <2>2, <2>3 DEF Owed
<1>9. Numbers
  BY <1>6, StageOKNumbers
<1>10. JarsHeld /\ CustomersHeld
  BY <1>1, <1>2, <1>8, <1>9 DEF JarsHeld, CustomersHeld, Numbers
<1>11. Placed /\ EndHeld
  BY <1>1 DEF Placed, EndHeld
<1>12. ScoreHeld
  <2>1. Points(0, 0) = StartScore
    <3>1. ServeBase + ServeStep * ServeCap \in Int /\ JarCatch \in Int /\ StartScore \in Nat
      <4>1. ServeStep \in Nat /\ ServeCap \in Nat /\ ServeBase \in Nat /\ JarCatch \in Nat /\ StartScore \in Nat
        BY StageShape
      <4> QED BY <4>1
    <3>2. \A a \in Int : 0 * a = 0
      OBVIOUS
    <3>3. Points(0, 0) = StartScore + 0 * (ServeBase + ServeStep * ServeCap) + 0 * JarCatch
      BY DEF Points
    <3>4. 0 * (ServeBase + ServeStep * ServeCap) = 0 /\ 0 * JarCatch = 0
      BY <3>1, <3>2
    <3> QED BY <3>1, <3>3, <3>4
  <2>2. score = StartScore /\ StartScore \in Nat /\ status # "won"
    BY <1>1, StageShape
  <2> QED BY <1>1, <1>8, <2>1, <2>2 DEF ScoreHeld
<1> QED BY <1>2, <1>5, <1>6, <1>10, <1>11, <1>12 DEF StageInv

(* Every step of a tick keeps the invariant.                               *)
LEMMA StageStep == StageInv /\ [Next]_vars => StageInv'
<1> SUFFICES ASSUME StageInv, [Next]_vars PROVE StageInv'
  OBVIOUS
<1>1. ASSUME NEW i \in Inputs, ApplyInput(i) PROVE StageInv'
  BY <1>1, ApplyInputStep
<1>2. ASSUME NEW l \in Lane, NEW f \in Flavors, Spawn(l, f) PROVE StageInv'
  BY <1>2, SpawnStep
<1>3. CASE WalkOut \/ MoveCustomer
  BY <1>3, WalkOutStep, MoveCustomerStep
<1>4. CASE ServeSlide \/ SmashSlide \/ MoveSlide
  BY <1>4, ServeSlideStep, SmashSlideStep, MoveSlideStep
<1>5. CASE CatchJar \/ SmashJar \/ MoveJar
  BY <1>5, CatchJarStep, SmashJarStep, MoveJarStep
<1>6. CASE Wash \/ CheckStageCleared
  BY <1>6, WashStep, CheckStageClearedStep
<1>7. CASE CustomersDone \/ SlidesDone \/ JarsDone
  BY <1>7, LoopsEnd
<1>8. CASE UNCHANGED vars
  BY <1>8, NothingStep
<1> QED BY <1>1, <1>2, <1>3, <1>4, <1>5, <1>6, <1>7, <1>8 DEF Next

\* prevServe is a Boolean, and that is all.
ServeOK == prevServe \in BOOLEAN

(* The first tick starts with the serve button up.                         *)
LEMMA ServeStart == Init => ServeOK
BY DEF Init, ServeOK

(* Only an input writes prevServe, and it writes a Boolean.                *)
LEMMA ServeKept == ServeOK /\ [Next]_vars => ServeOK'
<1> SUFFICES ASSUME ServeOK, [Next]_vars PROVE ServeOK'
  OBVIOUS
<1>1. ASSUME NEW i \in Inputs, ApplyInput(i) PROVE ServeOK'
  <2>1. prevServe' = (i.serve /\ ~Running(i))
    BY <1>1 DEF ApplyInput
  <2> QED BY <2>1, Zenon DEF ServeOK
<1>2. ASSUME ~(\E i \in Inputs : ApplyInput(i)) PROVE prevServe' = prevServe
  BY <1>2 DEF Next, vars, controls, Spawn, WalkOut, MoveCustomer, CustomersDone, ServeSlide, SmashSlide, MoveSlide,
              SlidesDone, CatchJar, SmashJar, MoveJar, JarsDone, Wash, CheckStageCleared, Through
<1>3. CASE prevServe' = prevServe
  BY <1>3 DEF ServeOK
<1> QED BY <1>1, <1>2, <1>3

(* The invariant accounts for everything.                                  *)
LEMMA StageIsAccounted == StageInv /\ ServeOK => AllAccounted
<1> SUFFICES ASSUME StageInv, ServeOK PROVE AllAccounted
  OBVIOUS
<1> USE DEF StageInv
<1>1. Numbers
  BY StageOKNumbers
<1>2. TypeOK
  BY DEF StageOK, ServeOK, TypeOK, Shake, Jar
<1>3. BarJars = bar.free + Len(bar.washing) + InHand /\ bar.free \in Nat /\ Len(bar.washing) \in Nat /\ InHand \in Nat
  BY BarFields DEF BarJars, Jars, Hand, InHand, OneHand
<1>4. JarsAreAccounted
  <2>1. OnCounter = Len(bar.washing) + InHand + Shakes + Drinkers + Empties
    BY DEF OnCounter, Shakes, Drinkers, Empties
  <2>2. BarJars + Shakes + Drinkers + Empties + StartLives = JarPool + lives + walkouts
    BY DEF JarsHeld
  <2> DEFINE wash == Len(bar.washing)  free == bar.free  hand == InHand
  <2>3. wash \in Nat /\ free \in Nat /\ hand \in Nat /\ BarJars = free + wash + hand
    BY <1>3
  <2>4. OnCounter = wash + hand + Shakes + Drinkers + Empties
    BY <2>1
  <2> SUFFICES free + OnCounter + (StartLives - lives - walkouts) = JarPool
    BY DEF JarsAreAccounted
  <2> HIDE DEF wash, free, hand
  <2> QED BY <1>1, <2>2, <2>3, <2>4 DEF Numbers
<1>5. CustomersAreAccounted
  <2>1. spawned = Cardinality(Present) + resolved
    BY DEF CustomersHeld, Guests
  <2>2. resolved = walkouts + exited /\ exited <= fulfilled /\ fulfilled <= spawned
    BY <1>1 DEF CustomersHeld, Numbers
  <2> QED BY <2>1, <2>2 DEF CustomersAreAccounted
<1>6. EndIsClean
  <2>1. ASSUME status = "won"
        PROVE  /\ walkouts + exited = CustomerCount /\ Present = {}
               /\ bar.free + Len(bar.washing) + InHand + (StartLives - lives - walkouts) = JarPool
    <3>1. spawned = CustomerCount /\ resolved >= CustomerCount /\ Present = {} /\ slides = <<>> /\ jars = <<>>
      BY <2>1 DEF EndHeld, Cleared
    <3>2. Drinking = {}
      BY <3>1 DEF Drinking, Present
    <3>3. Guests = 0 /\ Drinkers = 0 /\ Shakes = 0 /\ Empties = 0
      BY <3>1, <3>2, FS_EmptySet DEF Guests, Drinkers, Shakes, Empties
    <3>4. walkouts + exited = CustomerCount
      BY <1>1, <3>1, <3>3 DEF CustomersHeld, Numbers
    <3>5. BarJars + StartLives = JarPool + lives + walkouts
      BY <1>1, <3>3 DEF JarsHeld, Numbers
    <3>6. BarJars + (StartLives - lives - walkouts) = JarPool
      BY <1>1, <3>5 DEF Numbers
    <3> QED BY <1>3, <3>1, <3>4, <3>6
  <2>2. status = "lost" <=> lives = 0
    BY DEF EndHeld
  <2> QED BY <2>1, <2>2 DEF EndIsClean
<1> QED BY <1>2, <1>4, <1>5, <1>6 DEF AllAccounted

(* The bonuses still owed are the unpaid ones.                             *)
LEMMA StageScoreIsEarned == StageInv => ScoreIsEarned
<1> SUFFICES ASSUME StageInv PROVE ScoreIsEarned
  OBVIOUS
<1>1. Owed = Unpaid
  BY DEF Owed, Promised, Pending, Rewarded, Bonuses, Unpaid
<1>2. ScoreHeld
  BY DEF StageInv
<1> QED BY <1>1, <1>2 DEF ScoreHeld, Points, ScoreIsEarned

(* The invariant holds in every state of every stage.                      *)
THEOREM StageInvariant == Spec => [](StageInv /\ ServeOK)
BY StageStart, StageStep, ServeStart, ServeKept, PTL DEF Spec

(* Nothing and nobody is lost on the way.                                  *)
THEOREM NothingIsLost == Spec => []AllAccounted
BY StageInvariant, StageIsAccounted, PTL

(* Every point was earned.                                                 *)
THEOREM EveryPointIsEarned == Spec => []ScoreIsEarned
BY StageInvariant, StageScoreIsEarned, PTL
=============================================================================
