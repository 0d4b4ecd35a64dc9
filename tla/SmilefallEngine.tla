-------------------------- MODULE SmilefallEngine --------------------------
(***************************************************************************)
(* The simulation of a Smilefall stage: core/engine.ts, tick by tick, in   *)
(* its own fixed-point integers.  The constants of physics.ts and the      *)
(* scenario are parameters; the events of a tick, which only report what   *)
(* the state shows, are left out, and so are stages without a time limit.  *)
(***************************************************************************)
EXTENDS Totals, FiniteSetsExt

CONSTANTS
  SmPhysics,         \* the constants of physics.ts
  SmScenario         \* width, floor, hopCharges, hopRechargeTicks, limit,
                     \* buckets, platforms, spikes, drops and rocks

SmPails == [x : Int, width : Int, capacity : Nat, filled : {0}, v : Int, minX : Int, maxX : Int, base : Int]
ASSUME SmAssumption ==
  /\ SmScenario.limit \in Int /\ SmScenario.buckets \in Seq(SmPails)
  /\ SmScenario.drops \in Seq([tick : Int, x : Int, y : Int, vx : Int])

VARIABLE smile       \* the engine

SmTrunc(a, b) == IF a >= 0 THEN a \div b ELSE -((-a) \div b)
SmClamp(v, low, high) == IF v < low THEN low ELSE IF v > high THEN high ELSE v
SmOverlap(a, b) ==
  LET dx == a.x - b.x  dy == a.y - b.y  reach == a.radius + b.radius
  IN  dx * dx + dy * dy <= reach * reach

SmRadius == SmPhysics.radius
SmMouth(bucket) == bucket.base - SmPhysics.bucketHeight
SmIdle == [lean |-> "none", hop |-> FALSE]
SmInputs == [lean : {"left", "right", "none"}, hop : BOOLEAN]
SmFilled(buckets) == Total([k \in DOMAIN buckets |-> buckets[k].filled])
SmCapacity(buckets) == Total([k \in DOMAIN buckets |-> buckets[k].capacity])
SmSlots(s) == Total([k \in DOMAIN s.buckets |-> s.buckets[k].capacity - s.buckets[k].filled])
SmLeft(s) == Len(s.smilies) + Len(SmScenario.drops) - s.dropped

SmNew ==
  [tick |-> 0, status |-> "running", reason |-> "none", input |-> SmIdle, latch |-> FALSE,
   smilies |-> <<>>, rocks |-> <<>>, dropped |-> 0, thrown |-> 0,
   buckets |-> [k \in DOMAIN SmScenario.buckets |-> SmScenario.buckets[k]],
   caught |-> 0, popped |-> 0, bonks |-> 0, combo |-> 0, best |-> 0, score |-> 0,
   charges |-> SmScenario.hopCharges, progress |-> 0]

\* setInput: letting go of hop is what arms the next one.
SmSetInput(s, input) == [s EXCEPT !.input = input, !.latch = @ /\ input.hop]

-----------------------------------------------------------------------------
(* What happens to one smiley                                              *)

SmKeep(s, smiley) == [s EXCEPT !.smilies = Append(@, smiley)]

\* The smiley stays, with the bruises of this contact.
SmBruise(s, smiley, bruises) ==
  IF bruises = 0 THEN SmKeep(s, smiley)
  ELSE SmKeep([s EXCEPT !.bonks = @ + bruises, !.combo = 0],
              [smiley EXCEPT !.bruises = @ + bruises])
SmPop(s) == [s EXCEPT !.popped = @ + 1, !.combo = 0]

SmPoints(combo, bruises) ==
  LET full == SmPhysics.base + SmPhysics.perCombo * Min({combo - 1, SmPhysics.maxCombo})
  IN  Max({SmPhysics.minPoints, full \div 2 ^ Min({bruises, 30})})
SmCatch(s, smiley, k) ==
  [s EXCEPT !.buckets[k].filled = @ + 1, !.caught = @ + 1, !.combo = @ + 1,
            !.best = Max({@, s.combo + 1}),
            !.score = @ + SmPoints(s.combo + 1, smiley.bruises)]

-----------------------------------------------------------------------------
(* The phases of a tick                                                    *)

SmDue(schedule, from, tick) ==
  Cardinality({k \in DOMAIN schedule : k > from /\ schedule[k].tick <= tick})

\* The schedules of the scenario are in the order of their ticks.
SmSpawnDrops(s) ==
  LET due == SmDue(SmScenario.drops, s.dropped, s.tick)
      new == [k \in 1 .. due |->
                LET drop == SmScenario.drops[s.dropped + k]
                IN  [x |-> SmClamp(drop.x, SmRadius, SmScenario.width - SmRadius), y |-> drop.y,
                     vx |-> drop.vx, vy |-> 0, radius |-> SmRadius, bruises |-> 0, grace |-> 0]]
  IN  [s EXCEPT !.smilies = @ \o new, !.dropped = @ + due]

SmSpawnRocks(s) ==
  LET due == SmDue(SmScenario.rocks, s.thrown, s.tick)
      new == [k \in 1 .. due |->
                LET rock == SmScenario.rocks[s.thrown + k]
                IN  [x |-> IF rock.left THEN -rock.radius ELSE SmScenario.width + rock.radius,
                     y |-> rock.y, vx |-> IF rock.left THEN rock.speed ELSE -rock.speed,
                     vy |-> rock.drift, radius |-> rock.radius, spiked |-> rock.spiked]]
  IN  [s EXCEPT !.rocks = @ \o new, !.thrown = @ + due]

\* A press is spent on the tick it is seen, charge or no charge.
SmHop(s) ==
  IF ~s.input.hop \/ s.latch THEN s
  ELSE IF s.charges < 1 \/ s.smilies = <<>> THEN [s EXCEPT !.latch = TRUE]
  ELSE [s EXCEPT !.latch = TRUE, !.charges = @ - 1,
                 !.smilies = [k \in DOMAIN @ |-> [@[k] EXCEPT !.vy = -SmPhysics.hop]]]

SmMove(s, smiley) ==
  LET P == SmPhysics
      vx == SmClamp(CASE s.input.lean = "left" -> smiley.vx - P.leanAccel
                      [] s.input.lean = "right" -> smiley.vx + P.leanAccel
                      [] OTHER -> SmTrunc(smiley.vx * P.dragNumerator, P.dragDenominator),
                    -P.leanMax, P.leanMax)
      vy == Min({smiley.vy + P.gravity, P.terminal})
      x  == smiley.x + vx
      y  == smiley.y + vy
      low == SmRadius
      high == SmScenario.width - SmRadius
      walled  == (x < low /\ vx < 0) \/ (x > high /\ vx > 0)
      ceiling == y < low /\ vy < 0
  IN  SmBruise(s, [smiley EXCEPT
          !.grace = IF @ > 0 THEN @ - 1 ELSE 0,
          !.x = IF x < low THEN low ELSE IF x > high THEN high ELSE x,
          !.y = IF y < low THEN low ELSE y,
          !.vx = IF walled THEN SmTrunc(-vx * P.wallNumerator, P.wallDenominator) ELSE vx,
          !.vy = IF ceiling THEN 0 ELSE vy],
        (IF walled THEN 1 ELSE 0) + (IF ceiling THEN 1 ELSE 0))

SmMoveBuckets(s) ==
  [s EXCEPT !.buckets = [k \in DOMAIN @ |->
     LET b == @[k]  x == b.x + b.v  speed == IF b.v < 0 THEN -b.v ELSE b.v
     IN  IF b.v = 0 THEN b
         ELSE IF x <= b.minX THEN [b EXCEPT !.x = b.minX, !.v = speed]
         ELSE IF x >= b.maxX THEN [b EXCEPT !.x = b.maxX, !.v = -speed]
         ELSE [b EXCEPT !.x = x]]]

\* Rocks bounce between the sky and the mouth line of the ground, and leave.
SmRocksOn(rocks) ==
  LET low(r) == r.radius
      high(r) == SmScenario.floor - SmPhysics.bucketHeight - r.radius
      speed(v) == IF v < 0 THEN -v ELSE v
      moved(r) == LET y == r.y + r.vy
                  IN  [r EXCEPT !.x = @ + r.vx,
                         !.y = IF y < low(r) THEN low(r) ELSE IF y > high(r) THEN high(r) ELSE y,
                         !.vy = IF y < low(r) THEN speed(@)
                                ELSE IF y > high(r) THEN -speed(@) ELSE @]
      crossing(r) == IF r.vx < 0 THEN r.x > -r.radius ELSE r.x < SmScenario.width + r.radius
  IN  SelectSeq([k \in DOMAIN rocks |-> moved(rocks[k])], crossing)
SmMoveRocks(s) == [s EXCEPT !.rocks = SmRocksOn(@)]

SmFirst(seq, Test(_)) ==
  LET hits == {k \in DOMAIN seq : Test(seq[k])} IN IF hits = {} THEN 0 ELSE Min(hits)

\* A plain rock bonks a smiley and leaves it a time of grace, a spiked one pops it.
SmRockHit(s, smiley) ==
  LET k == IF smiley.grace > 0 THEN 0 ELSE SmFirst(s.rocks, LAMBDA r : SmOverlap(smiley, r))
      push == IF k > 0 /\ s.rocks[k].vx < 0 THEN -SmPhysics.bonkPush ELSE SmPhysics.bonkPush
  IN  IF k = 0 THEN SmKeep(s, smiley)
      ELSE IF s.rocks[k].spiked THEN SmPop(s)
      ELSE SmBruise(s, [smiley EXCEPT !.grace = SmPhysics.grace, !.vy = -SmPhysics.bonkLift,
                          !.vx = SmClamp(@ + push, -SmPhysics.leanMax, SmPhysics.leanMax)], 1)

SmSpiked(s, smiley) ==
  LET stabs(strip) ==
        LET top == IF strip.up THEN strip.y - SmPhysics.spikeHeight ELSE strip.y
        IN  /\ smiley.x + SmRadius > strip.x /\ smiley.x - SmRadius < strip.x + strip.width
            /\ smiley.y + SmRadius > top /\ smiley.y - SmRadius < top + SmPhysics.spikeHeight
  IN  IF SmFirst(SmScenario.spikes, stabs) > 0 THEN SmPop(s) ELSE SmKeep(s, smiley)

\* The pail whose mouth the smiley fell through this tick catches it, clonks
\* it off its rim or, full, burps it; below every mouth the ground bounces it.
SmLand(s, smiley) ==
  LET k == SmFirst(s.buckets, LAMBDA b :
             /\ smiley.y - smiley.vy < SmMouth(b) /\ smiley.y >= SmMouth(b)
             /\ smiley.x >= b.x /\ smiley.x <= b.x + b.width)
      b == s.buckets[k]
      inside == smiley.x >= b.x + SmPhysics.rim /\ smiley.x <= b.x + b.width - SmPhysics.rim
      away == IF 2 * smiley.x < 2 * b.x + b.width THEN -SmPhysics.sidekick ELSE SmPhysics.sidekick
      thrown(lift) == [smiley EXCEPT !.y = SmMouth(b) - 1, !.vy = -lift, !.vx = @ + away]
  IN  IF k > 0
      THEN IF ~inside THEN SmBruise(s, thrown(SmPhysics.rimBounce), 1)
           ELSE IF b.filled < b.capacity THEN SmCatch(s, smiley, k)
           ELSE SmBruise(s, thrown(SmPhysics.burp), 1)
      ELSE IF smiley.y >= SmScenario.floor - SmRadius
      THEN SmBruise(s, [smiley EXCEPT !.y = SmScenario.floor - SmRadius,
                                      !.vy = -SmPhysics.floorBounce], 1)
      ELSE SmKeep(s, smiley)

\* A contact: the smiley is pushed out, and bruised if it was moving in.
SmContact(smiley, moved, bruised) ==
  [moved EXCEPT !.x = SmClamp(@, SmRadius, SmScenario.width - SmRadius),
                !.bruises = @ + IF bruised THEN 1 ELSE 0]
SmHalf(v) == SmTrunc(-v, 2)

\* A ledge pushes out along the face the smiley is least far through.
SmLedge(smiley, p) ==
  LET bottom == p.y + SmPhysics.thickness
      right  == p.x + p.width
      top    == smiley.y + SmRadius - p.y
      below  == bottom - (smiley.y - SmRadius)
      before == smiley.x + SmRadius - p.x
      after  == right - (smiley.x - SmRadius)
      least  == Min({top, below, before, after})
  IN  IF Min({top, below, before, after}) <= 0 THEN smiley
      ELSE IF least = top
      THEN SmContact(smiley, [smiley EXCEPT !.y = p.y - SmRadius,
             !.vy = IF @ > 0 THEN -SmPhysics.ledgeBounce ELSE @], smiley.vy > 0)
      ELSE IF least = below
      THEN SmContact(smiley, [smiley EXCEPT !.y = bottom + SmRadius,
             !.vy = IF @ < 0 THEN 0 ELSE @], smiley.vy < 0)
      ELSE IF least = before
      THEN SmContact(smiley, [smiley EXCEPT !.x = p.x - SmRadius,
             !.vx = IF @ > 0 THEN SmHalf(@) ELSE @], smiley.vx > 0)
      ELSE SmContact(smiley, [smiley EXCEPT !.x = right + SmRadius,
             !.vx = IF @ < 0 THEN SmHalf(@) ELSE @], smiley.vx < 0)

\* A pail pushes out of its side a smiley that is below its mouth.
SmPail(smiley, b) ==
  LET right == b.x + b.width
      near  == 2 * smiley.x < 2 * b.x + b.width
  IN  IF \/ smiley.y < SmMouth(b) \/ smiley.y > b.base
         \/ smiley.x + SmRadius <= b.x \/ smiley.x - SmRadius >= right THEN smiley
      ELSE IF near
      THEN SmContact(smiley, [smiley EXCEPT !.x = b.x - SmRadius,
             !.vx = IF @ > 0 THEN SmHalf(@) ELSE @], smiley.vx > 0)
      ELSE SmContact(smiley, [smiley EXCEPT !.x = right + SmRadius,
             !.vx = IF @ < 0 THEN SmHalf(@) ELSE @], smiley.vx < 0)

\* Each smiley meets the ledges, or the pails, one after the other, where the
\* last one put it.
SmMet(phase, s, smiley) ==
  LET solids == IF phase = "ledges" THEN SmScenario.platforms ELSE s.buckets
      met[k \in 0 .. Len(solids)] ==
        IF k = 0 THEN smiley
        ELSE IF phase = "ledges" THEN SmLedge(met[k - 1], solids[k]) ELSE SmPail(met[k - 1], solids[k])
  IN  met[Len(solids)]
SmMeet(phase, s, smiley) ==
  LET met == SmMet(phase, s, smiley)
  IN  SmBruise(s, [met EXCEPT !.bruises = smiley.bruises], met.bruises - smiley.bruises)

\* What a phase of the tick does to a smiley, and to each of the flock in turn,
\* given the engine the ones before left.
SmVisit(phase, s, smiley) ==
  CASE phase = "move" -> SmMove(s, smiley)
    [] phase = "rocks" -> SmRockHit(s, smiley)
    [] phase = "spikes" -> SmSpiked(s, smiley)
    [] phase = "landings" -> SmLand(s, smiley)
    [] phase \in {"ledges", "pails"} -> SmMeet(phase, s, smiley)
SmEach(s, phase) ==
  LET after[k \in 0 .. Len(s.smilies)] ==
        IF k = 0 THEN [s EXCEPT !.smilies = <<>>] ELSE SmVisit(phase, after[k - 1], s.smilies[k])
  IN  after[Len(s.smilies)]

SmRecharge(s) ==
  IF s.charges >= SmScenario.hopCharges THEN [s EXCEPT !.progress = 0]
  ELSE IF s.progress + 1 >= SmScenario.hopRechargeTicks
  THEN [s EXCEPT !.progress = 0, !.charges = @ + 1]
  ELSE [s EXCEPT !.progress = @ + 1]

\* Mutant of SmOutcome: the reserve is looked at before the buckets.
SmOutcomeReserveFirst(s) ==
  IF SmLeft(s) <= SmSlots(s) THEN [s EXCEPT !.status = "lost", !.reason = "out_of_smilies"]
  ELSE IF \A k \in DOMAIN s.buckets : s.buckets[k].filled >= s.buckets[k].capacity
  THEN [s EXCEPT !.status = "won"]
  ELSE IF s.tick >= SmScenario.limit THEN [s EXCEPT !.status = "lost", !.reason = "timeout"]
  ELSE s
SmOutcome(s) ==
  IF \A k \in DOMAIN s.buckets : s.buckets[k].filled >= s.buckets[k].capacity
  THEN [s EXCEPT !.status = "won",
                 !.score = @ + SmScenario.timeBonus * Max({0, SmScenario.limit - s.tick})]
  ELSE IF SmLeft(s) <= SmSlots(s) THEN [s EXCEPT !.status = "lost", !.reason = "out_of_smilies"]
  ELSE IF s.tick >= SmScenario.limit THEN [s EXCEPT !.status = "lost", !.reason = "timeout"]
  ELSE s

SmStep(s) ==
  LET spawned == SmSpawnRocks(SmSpawnDrops([s EXCEPT !.tick = @ + 1]))
      moved   == SmMoveRocks(SmMoveBuckets(SmEach(SmHop(spawned), "move")))
      landed  == SmEach(SmEach(SmEach(moved, "rocks"), "spikes"), "landings")
  IN  SmOutcome(SmRecharge(SmEach(SmEach(landed, "ledges"), "pails")))

-----------------------------------------------------------------------------
SmInit == smile = SmNew

\* A tick of ContinuousSmilefallSession: the input held, then the step.
SmTick ==
  /\ smile.status = "running"
  /\ \E input \in SmInputs : smile' = SmStep(SmSetInput(smile, input))

SmSpec == SmInit /\ [][SmTick]_smile

-----------------------------------------------------------------------------
(* The stage keeps its ledger: whatever falls, bounces, is caught, burped, *)
(* bonked or popped in one tick, every smiley is counted once, only pops   *)
(* spend the reserve, and the outcome is the one the ledger gives.         *)
Ledger == INSTANCE SmilefallLedger WITH
  Drops <- Len(SmScenario.drops), Limit <- SmScenario.limit,
  Capacity <- SmCapacity(SmScenario.buckets),
  tick <- smile.tick, waiting <- Len(SmScenario.drops) - smile.dropped,
  flock <- Len(smile.smilies), filled <- SmFilled(smile.buckets),
  popped <- smile.popped, status <- smile.status, reason <- smile.reason
StageKeepsLedger == Ledger!LgSpec
=============================================================================
