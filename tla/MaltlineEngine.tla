--------------------------- MODULE MaltlineEngine ---------------------------
(***************************************************************************)
(* One stage of Maltline: MaltlineEngine of core/engine.ts.                *)
(*                                                                         *)
(* A tick runs through seven phases in a fixed order, and each loop over   *)
(* customers, shakes, jars or washing slots visits one element at a time:  *)
(* `phase' and `at' are the place reached in the tick.  Customers stay in  *)
(* the order they came, so a customer is the number of its arrival.  The   *)
(* draws of the random generator and the player's input are arbitrary.     *)
(* Positions are whole units; ids and events are left out.                 *)
(***************************************************************************)
EXTENDS Integers, Sequences, FiniteSets

CONSTANTS
  Lanes, LaneLength, Stations, JarPool, BlendTicks, WashTicks, DrinkTicks,
  CustomerCount, InitialDelay, SpawnInterval, SpawnAcceleration, SpawnFloor,
  MarchSpeed, LeaveSpeed, SlideSpeed, ReturnSpeed, ResumeExit,
  StationRepeat, LaneRepeat, StartLives, StartScore,
  Reach,          \* how far along the counter the player runs
  Stride,         \* distance run in a tick
  Home,           \* where a run back to the mixer snaps to it
  CatchRadius,
  ServeBase, ServeStep, ServeCap, JarCatch, ClearBonus, MaxRequeues,
  Nothing         \* no flavor

ASSUME StageShape ==
  /\ Lanes \in Nat \ {0} /\ LaneLength \in Nat \ {0} /\ JarPool \in Nat \ {0}
  /\ Stations \in Seq(STRING) /\ Len(Stations) > 0
  /\ \A i \in 1 .. Len(Stations) : Stations[i] # Nothing
  /\ BlendTicks \in Nat \ {0} /\ WashTicks \in Nat \ {0} /\ DrinkTicks \in Nat \ {0}
  /\ CustomerCount \in Nat /\ InitialDelay \in Nat \ {0}
  /\ SpawnInterval \in Nat \ {0} /\ SpawnAcceleration \in Nat
  /\ SpawnFloor \in 1 .. SpawnInterval
  /\ MarchSpeed \in Nat \ {0} /\ LeaveSpeed \in Nat \ {0}
  /\ SlideSpeed \in Nat \ {0} /\ ReturnSpeed \in Nat \ {0}
  /\ ResumeExit \in 0 .. LaneLength
  /\ StationRepeat \in Nat \ {0} /\ LaneRepeat \in Nat \ {0}
  /\ StartLives \in Nat /\ StartScore \in Nat
  /\ Reach \in Nat /\ Stride \in Nat /\ Home \in Nat /\ CatchRadius \in Nat
  /\ ServeBase \in Nat /\ ServeStep \in Nat /\ ServeCap \in Nat
  /\ JarCatch \in Nat /\ ClearBonus \in Nat /\ MaxRequeues \in Nat

Flavors == {Stations[i] : i \in 1 .. Len(Stations)}
Lane == 0 .. Lanes - 1
Customer == 1 .. CustomerCount
Beats == StationRepeat * LaneRepeat   \* the tick number matters modulo this

VARIABLES
  phase,         \* the phase of the tick that runs next
  at,            \* the element its loop has come to
  beat,          \* tickNumber
  status, score, lives, streak,
  prevServe, controlMode,
  bar,           \* the player, the free jars and the washing slots
  customers,     \* the record of each arrival, Nobody before and after
  slides,        \* shakes on their way to the door
  jars,          \* empty jars on their way back
  spawnCountdown,
  spawned, serviceActions, fulfilled, walkouts, resolved, exited

controls == <<prevServe, controlMode>>
counts == <<spawned, serviceActions, fulfilled, walkouts, resolved, exited>>
life == <<status, score, lives, streak>>
vars == <<phase, at, beat, life, controls, bar, customers, slides, jars, spawnCountdown, counts>>

Nobody == [phase |-> "none", lane |-> 0, x |-> 0, flavor |-> Nothing, timer |-> 0,
           fulfilled |-> FALSE, requeues |-> 0, bonus |-> FALSE, leaves |-> FALSE]
Present == {c \in Customer : customers[c].phase # "none"}
Least(S) == CHOOSE i \in S : \A j \in S : i <= j
Without(s, i) == [j \in 1 .. Len(s) - 1 |-> IF j < i THEN s[j] ELSE s[j + 1]]

-----------------------------------------------------------------------------
Init ==
  /\ phase = "input" /\ at = 1 /\ beat = 0
  /\ status = (IF StartLives = 0 THEN "lost" ELSE "running")
  /\ score = StartScore /\ lives = StartLives /\ streak = 0
  /\ prevServe = FALSE /\ controlMode \in {"generation-2", "two-button-v1"}
  /\ bar = [lane |-> 0, station |-> 1, x |-> 0, holding |-> Nothing, blending |-> Nothing,
            progress |-> 0, free |-> JarPool, washing |-> <<>>]
  /\ customers = [c \in Customer |-> Nobody] /\ slides = <<>> /\ jars = <<>>
  /\ spawnCountdown = InitialDelay
  /\ spawned = 0 /\ serviceActions = 0 /\ fulfilled = 0
  /\ walkouts = 0 /\ resolved = 0 /\ exited = 0

-----------------------------------------------------------------------------
(* The player: applyInput.                                                 *)

TwoButton == controlMode = "two-button-v1"

Inputs == [station : -1 .. 1, lane : -1 .. 1, blend : BOOLEAN, serve : BOOLEAN]

Due(repeat) == (beat + 1) % repeat = 0

\* Arrow running is the chord of both buttons and a direction.
Running(i) == i.blend /\ i.serve /\ i.station # 0

\* Mutant of LosePour: a lost pour keeps its jar.
LosePourAndJar(b) == [b EXCEPT !.blending = Nothing, !.progress = 0]

\* A pour that is given up puts its jar back.
LosePour(b) ==
  IF b.blending = Nothing THEN b
  ELSE [b EXCEPT !.blending = Nothing, !.progress = 0, !.free = @ + 1]

RunAlong(b, dir) ==
  LET x == b.x + Stride * dir
      y == IF x < 0 THEN 0 ELSE IF x > Reach THEN Reach ELSE x IN
  [LosePour(b) EXCEPT !.x = IF dir < 0 /\ y <= Home THEN 0 ELSE y]

\* Another flavor throws the shake in hand into the wash.
Discard(b) ==
  IF b.holding = Nothing THEN b
  ELSE [b EXCEPT !.holding = Nothing, !.washing = Append(@, WashTicks)]

SelectStation(b, dir) ==
  LET n == Len(Stations)  next == b.station + dir IN
  IF TwoButton
  THEN [LosePour(Discard(b)) EXCEPT !.station = IF next < 1 THEN n ELSE IF next > n THEN 1 ELSE next]
  ELSE [b EXCEPT !.station = IF next < 1 THEN 1 ELSE IF next > n THEN n ELSE next]

Turn(b, i) ==
  IF Running(i) THEN RunAlong(b, i.station)
  ELSE IF i.station # 0 /\ Due(StationRepeat) THEN SelectStation(b, i.station)
  ELSE b

ChangeLane(b, i) ==
  IF i.lane # 0 /\ Due(LaneRepeat)
  THEN [b EXCEPT !.lane = (@ + i.lane + Lanes) % Lanes, !.x = 0]
  ELSE b

\* Asking to pour or to serve calls the player back to the mixer.
Recall(b, i) ==
  IF ~Running(i) /\ \/ i.blend /\ b.holding = Nothing /\ b.blending = Nothing
                    \/ i.serve /\ b.holding # Nothing
  THEN [b EXCEPT !.x = 0]
  ELSE b

StartPour(b) == [b EXCEPT !.blending = Stations[b.station], !.progress = 0, !.free = @ - 1]

Pour(b) ==
  IF b.progress + 1 >= BlendTicks
  THEN [b EXCEPT !.holding = b.blending, !.blending = Nothing, !.progress = 0]
  ELSE [b EXCEPT !.progress = @ + 1]

Work(b, i) ==
  LET working == ~Running(i) /\ b.x = 0 IN
  IF b.blending = Nothing /\ b.holding = Nothing /\ working /\ i.blend /\ b.free > 0
    THEN StartPour(b)
  ELSE IF b.blending # Nothing /\ working /\ i.blend THEN Pour(b)
  ELSE IF b.blending # Nothing /\ ~i.blend THEN LosePour(b)
  ELSE b

Worked(i) == Work(Recall(ChangeLane(Turn(bar, i), i), i), i)

\* Serve launches on its edge, from the mixer, with a shake in hand.
Launches(b, i) == ~Running(i) /\ b.x = 0 /\ i.serve /\ ~prevServe /\ b.holding # Nothing

ApplyInput(i) ==
  /\ status = "running" /\ phase = "input"
  /\ LET b == Worked(i) IN
     IF Launches(b, i)
     THEN /\ slides' = Append(slides, [lane |-> b.lane, x |-> 0, flavor |-> b.holding])
          /\ bar' = [b EXCEPT !.holding = Nothing]
     ELSE bar' = b /\ UNCHANGED slides
  /\ prevServe' = (i.serve /\ ~Running(i))
  /\ beat' = (beat + 1) % Beats
  /\ phase' = "spawn" /\ UNCHANGED <<at, controlMode, life, customers, jars, spawnCountdown, counts>>

-----------------------------------------------------------------------------
(* Arrivals: spawn.                                                        *)

Load(l) == Cardinality({c \in Present : customers[c].lane = l})

\* A draw two above the emptiest lane is moved to the first such lane.
Spread(drawn) ==
  LET lightest == {l \in Lane : \A k \in Lane : Load(l) <= Load(k)}
      first == Least(lightest) IN
  IF Load(drawn) - Load(first) >= 2 THEN first ELSE drawn

\* Mutant of Arrives: one customer too many is let in.
ArrivesAlways == spawnCountdown <= 1

Arrives == spawnCountdown <= 1 /\ spawned < CustomerCount

\* The countdown keeps falling; below zero only its sign matters.
Spawn(drawn, flavor) ==
  /\ status = "running" /\ phase = "spawn"
  /\ IF Arrives
     THEN LET gap == SpawnInterval - (spawned + 1) * SpawnAcceleration IN
          /\ customers' = [customers EXCEPT ![spawned + 1] =
               [Nobody EXCEPT !.phase = "marching", !.lane = Spread(drawn), !.x = LaneLength,
                              !.flavor = flavor]]
          /\ spawned' = spawned + 1
          /\ spawnCountdown' = IF gap > SpawnFloor THEN gap ELSE SpawnFloor
     ELSE /\ spawnCountdown' = IF spawnCountdown > 0 THEN spawnCountdown - 1 ELSE 0
          /\ UNCHANGED <<customers, spawned>>
  /\ phase' = "customers" /\ at' = 1
  /\ UNCHANGED <<beat, life, controls, bar, slides, jars,
                 serviceActions, fulfilled, walkouts, resolved, exited>>

-----------------------------------------------------------------------------
(* Loops.                                                                  *)

LoseLife ==
  /\ lives' = (IF lives > 0 THEN lives - 1 ELSE 0)
  /\ streak' = 0
  /\ status' = IF lives' = 0 THEN "lost" ELSE status

Visiting(p, n) == status = "running" /\ phase = p /\ at <= n
NextVisit == at' = at + 1

\* The loop of phase p over n elements is through.
Through(p, n, q, start) ==
  /\ status = "running" /\ phase = p /\ at > n
  /\ phase' = q /\ at' = start
  /\ UNCHANGED <<beat, life, controls, bar, customers, slides, jars, spawnCountdown, counts>>

Gone(c) == customers' = [customers EXCEPT ![c] = Nobody]

\* Mutant of Resolved: a walkout is not counted as resolved.
ResolvedExit == resolved' = resolved + (exited' - exited)

Resolved == resolved' = resolved + 1

WalkOut ==
  /\ Visiting("customers", spawned)
  /\ customers[at].phase = "marching" /\ customers[at].x - MarchSpeed <= 0
  /\ Gone(at) /\ NextVisit
  /\ walkouts' = walkouts + 1 /\ UNCHANGED exited /\ Resolved
  /\ LoseLife
  /\ UNCHANGED <<phase, beat, score, controls, bar, slides, jars, spawnCountdown,
                 spawned, serviceActions, fulfilled>>

\* The customer after the last sip: his one bonus is on the jar now.
AfterDrink(c) == [customers[c] EXCEPT !.timer = 0, !.bonus = FALSE,
  !.phase = IF customers[c].leaves THEN "leaving" ELSE "marching"]

\* One customer marches, drinks or walks to the door.
MoveCustomer ==
  /\ Visiting("customers", spawned) /\ NextVisit
  /\ LET c == customers[at] IN
     \/ /\ c.phase = "none"
        /\ UNCHANGED <<customers, jars, resolved, exited>>
     \/ /\ c.phase = "marching" /\ c.x - MarchSpeed > 0
        /\ customers' = [customers EXCEPT ![at].x = @ - MarchSpeed]
        /\ UNCHANGED <<jars, resolved, exited>>
     \/ /\ c.phase = "drinking" /\ c.timer > 1
        /\ customers' = [customers EXCEPT ![at].timer = @ - 1]
        /\ UNCHANGED <<jars, resolved, exited>>
     \/ /\ c.phase = "drinking" /\ c.timer <= 1
        /\ jars' = Append(jars, [lane |-> c.lane, x |-> c.x, bonus |-> c.bonus])
        /\ customers' = [customers EXCEPT ![at] = AfterDrink(at)]
        /\ UNCHANGED <<resolved, exited>>
     \/ /\ c.phase = "leaving" /\ c.x + LeaveSpeed < LaneLength
        /\ customers' = [customers EXCEPT ![at].x = @ + LeaveSpeed]
        /\ UNCHANGED <<jars, resolved, exited>>
     \/ /\ c.phase = "leaving" /\ c.x + LeaveSpeed >= LaneLength
        /\ Gone(at)
        /\ exited' = exited + 1 /\ Resolved /\ UNCHANGED jars
  /\ UNCHANGED <<phase, beat, life, controls, bar, slides, spawnCountdown,
                 spawned, serviceActions, fulfilled, walkouts>>

-----------------------------------------------------------------------------
(* Shakes: moveSlides.                                                     *)

SlideX == slides[at].x + SlideSpeed

\* Who the shake has come past: the closest to the counter takes it.
Takers ==
  {c \in Customer : /\ customers[c].phase = "marching"
                    /\ customers[c].lane = slides[at].lane
                    /\ customers[c].flavor = slides[at].flavor
                    /\ customers[c].x <= SlideX}
Taker == Least({c \in Takers : \A d \in Takers : customers[c].x <= customers[d].x})

MayRequeue(c) == customers[c].x < ResumeExit /\ customers[c].requeues < MaxRequeues

FirstOrder(c) == ~customers[c].fulfilled

\* Mutant of BonusJar: the jar of every refill earns its catch.
BonusJarAlways(c) == customers[c].phase = "marching"

BonusJar(c) == FirstOrder(c)

Served(c) ==
  [customers[c] EXCEPT
     !.phase = "drinking", !.timer = DrinkTicks, !.fulfilled = TRUE,
     !.leaves = ~MayRequeue(c), !.requeues = IF MayRequeue(c) THEN @ + 1 ELSE @,
     !.bonus = BonusJar(c)]

ServeSlide ==
  /\ Visiting("slides", Len(slides)) /\ Takers # {}
  /\ LET c == Taker IN
     /\ customers' = [customers EXCEPT ![c] = Served(c)]
     /\ slides' = Without(slides, at)
     /\ serviceActions' = serviceActions + 1
     /\ IF FirstOrder(c)
        THEN /\ fulfilled' = fulfilled + 1 /\ streak' = streak + 1
             /\ score' = score + ServeBase + ServeStep * (IF streak < ServeCap THEN streak ELSE ServeCap)
        ELSE UNCHANGED <<fulfilled, streak, score>>
  /\ UNCHANGED <<phase, at, beat, status, lives, controls, bar, jars, spawnCountdown,
                 spawned, walkouts, resolved, exited>>

SmashSlide ==
  /\ Visiting("slides", Len(slides)) /\ Takers = {} /\ SlideX > LaneLength
  /\ slides' = Without(slides, at)
  /\ LoseLife
  /\ UNCHANGED <<phase, at, beat, score, controls, bar, customers, jars, spawnCountdown, counts>>

MoveSlide ==
  /\ Visiting("slides", Len(slides)) /\ Takers = {} /\ SlideX <= LaneLength
  /\ slides' = [slides EXCEPT ![at].x = SlideX] /\ NextVisit
  /\ UNCHANGED <<phase, beat, life, controls, bar, customers, jars, spawnCountdown, counts>>

-----------------------------------------------------------------------------
(* Jars: moveJars.                                                         *)

JarX == jars[at].x - ReturnSpeed

\* The player stands in the jar's way: at the mixer, or somewhere along the lane.
InReach ==
  /\ bar.lane = jars[at].lane
  /\ IF bar.x = 0 THEN JarX <= 0
     ELSE jars[at].x >= bar.x - CatchRadius /\ JarX <= bar.x + CatchRadius

Caught == [bar EXCEPT !.washing = Append(@, WashTicks)]

CatchJar ==
  /\ Visiting("jars", Len(jars)) /\ InReach
  /\ bar' = Caught
  /\ jars' = Without(jars, at)
  /\ score' = score + (IF jars[at].bonus THEN JarCatch ELSE 0)
  /\ UNCHANGED <<phase, at, beat, status, lives, streak, controls, customers, slides,
                 spawnCountdown, counts>>

SmashJar ==
  /\ Visiting("jars", Len(jars)) /\ ~InReach /\ JarX <= 0
  /\ jars' = Without(jars, at)
  /\ LoseLife
  /\ UNCHANGED <<phase, at, beat, score, controls, bar, customers, slides, spawnCountdown, counts>>

MoveJar ==
  /\ Visiting("jars", Len(jars)) /\ ~InReach /\ JarX > 0
  /\ jars' = [jars EXCEPT ![at].x = JarX] /\ NextVisit
  /\ UNCHANGED <<phase, beat, life, controls, bar, customers, slides, spawnCountdown, counts>>

-----------------------------------------------------------------------------
(* Washing and the end of the stage.                                       *)

\* tickWashing counts down from the last slot to the first.
Wash ==
  /\ status = "running" /\ phase = "washing" /\ at > 0
  /\ bar' = IF bar.washing[at] > 1 THEN [bar EXCEPT !.washing[at] = @ - 1]
            ELSE [bar EXCEPT !.washing = Without(@, at), !.free = @ + 1]
  /\ at' = at - 1
  /\ UNCHANGED <<phase, beat, life, controls, customers, slides, jars, spawnCountdown, counts>>

Cleared ==
  /\ spawned = CustomerCount /\ resolved >= CustomerCount
  /\ Present = {} /\ slides = <<>> /\ jars = <<>>

CheckStageCleared ==
  /\ status = "running" /\ phase = "washing" /\ at = 0
  /\ IF Cleared
     THEN status' = "won" /\ score' = score + ClearBonus * lives
     ELSE UNCHANGED <<status, score>>
  /\ phase' = "input" /\ at' = 1
  /\ UNCHANGED <<beat, lives, streak, controls, bar, customers, slides, jars, spawnCountdown, counts>>

-----------------------------------------------------------------------------
CustomersDone == Through("customers", spawned, "slides", 1)
SlidesDone == Through("slides", Len(slides), "jars", 1)
JarsDone == Through("jars", Len(jars), "washing", Len(bar.washing))

Next ==
  \/ \E i \in Inputs : ApplyInput(i)
  \/ \E l \in Lane, f \in Flavors : Spawn(l, f)
  \/ WalkOut \/ MoveCustomer \/ CustomersDone
  \/ ServeSlide \/ SmashSlide \/ MoveSlide \/ SlidesDone
  \/ CatchJar \/ SmashJar \/ MoveJar \/ JarsDone
  \/ Wash \/ CheckStageCleared

Spec == Init /\ [][Next]_vars

\* The host steps the engine until the stage ends.
FairSpec == Spec /\ WF_vars(Next)

-----------------------------------------------------------------------------
(* Properties.                                                             *)

Phases == {"input", "spawn", "customers", "slides", "jars", "washing"}
Record == [phase : {"none", "marching", "drinking", "leaving"}, lane : Lane, x : 0 .. LaneLength,
           flavor : Flavors \cup {Nothing}, timer : 0 .. DrinkTicks, fulfilled : BOOLEAN,
           requeues : 0 .. MaxRequeues, bonus : BOOLEAN, leaves : BOOLEAN]
Bar == [lane : Lane, station : 1 .. Len(Stations), x : 0 .. Reach, holding : Flavors \cup {Nothing},
        blending : Flavors \cup {Nothing}, progress : 0 .. BlendTicks, free : Nat,
        washing : Seq(1 .. WashTicks)]

\* The shape of the stage.
TypeOK ==
  /\ phase \in Phases /\ at \in Nat /\ beat \in 0 .. Beats - 1
  /\ status \in {"running", "won", "lost"} /\ score \in Nat /\ lives \in 0 .. StartLives
  /\ streak \in Nat /\ prevServe \in BOOLEAN
  /\ controlMode \in {"generation-2", "two-button-v1"} /\ bar \in Bar
  /\ customers \in [Customer -> Record]
  /\ slides \in Seq([lane : Lane, x : 0 .. LaneLength, flavor : Flavors])
  /\ jars \in Seq([lane : Lane, x : 0 .. LaneLength, bonus : BOOLEAN])
  /\ spawnCountdown \in Nat
  /\ spawned \in 0 .. CustomerCount /\ serviceActions \in Nat /\ fulfilled \in Nat
  /\ walkouts \in Nat /\ resolved \in Nat /\ exited \in Nat

Drinking == {c \in Customer : customers[c].phase = "drinking"}
InHand == (IF bar.holding = Nothing THEN 0 ELSE 1) + (IF bar.blending = Nothing THEN 0 ELSE 1)
OnCounter == Len(bar.washing) + InHand + Len(slides) + Cardinality(Drinking) + Len(jars)

\* Every jar of the pool is free, in the player's hand, on the counter, with a
\* customer or in the wash, except the ones smashed, each of which cost a life.
JarsAreAccounted ==
  bar.free + OnCounter + (StartLives - lives - walkouts) = JarPool

\* Every customer who came is in the shop or resolved, and nobody leaves
\* satisfied who was not served.
CustomersAreAccounted ==
  /\ spawned = Cardinality(Present) + resolved
  /\ resolved = walkouts + exited
  /\ exited <= fulfilled /\ fulfilled <= spawned

\* A stage is won with a life left, every customer resolved and nothing on the
\* counter, and lost exactly when the last life is.
EndIsClean ==
  /\ (status = "lost") <=> (lives = 0)
  /\ status = "won" =>
       /\ walkouts + exited = CustomerCount /\ Present = {}
       /\ bar.free + Len(bar.washing) + InHand + (StartLives - lives - walkouts) = JarPool

\* Nothing and nobody is lost on the way: the stage keeps its shape, every jar
\* of the pool is somewhere or was paid for with a life, every customer is in
\* the shop, walked out, or left after being served, and the end of the stage
\* leaves nothing behind.
AllAccounted == TypeOK /\ JarsAreAccounted /\ CustomersAreAccounted /\ EndIsClean

Unpaid == Cardinality({c \in Customer : customers[c].bonus}) + Cardinality({j \in 1 .. Len(jars) : jars[j].bonus})

\* The score is no more than one order and one caught jar per customer served
\* and the bonus of a cleared stage: refills and their jars earn nothing.
ScoreIsEarned ==
  score <= StartScore + fulfilled * (ServeBase + ServeStep * ServeCap) + (fulfilled - Unpaid) * JarCatch
           + (IF status = "won" THEN ClearBonus * lives ELSE 0)

\* Whatever the player does, a stage once begun comes to an end.
StageEnds == beat > 0 ~> status # "running"
=============================================================================
