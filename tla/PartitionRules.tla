--------------------------- MODULE PartitionRules ---------------------------
(***************************************************************************)
(* The rules of a Partition field: what PartitionEngine.setInput and step  *)
(* of core/engine.ts do to the state of a field.                           *)
(*                                                                         *)
(* A field is a record, so that a specification may hold several of them   *)
(* (a live field and the replay that re-simulates it).  Points and cells   *)
(* are pairs, an edge is the set of its two points, which is what edgeKey  *)
(* makes of it, and the order of the edges of a trace, which nothing       *)
(* reads, is left out, as are ids, events' payloads and drawMode.          *)
(***************************************************************************)
EXTENDS Integers, Sequences, FiniteSets

CONSTANTS
  Width, Height,
  Scale,             \* FIXED_SCALE
  Blocked,           \* scenario.blockedCells
  InitialWalls,      \* scenario.initialWalls
  SparkStart,        \* scenario.sparkStart
  Bodies,            \* scenario.anomalies, as <<[at, v], ...>> in fixed units
  Filaments,         \* the indices of the anomalies that are filaments
  Integrity,         \* scenario.integrity
  MoveEvery,         \* scenario.sparkMoveEveryTicks
  TargetCells,       \* targetFraction of the playable cells, rounded up
  TimeLimits,        \* {timeLimitTicks}, or {} for an untimed field
  FilamentTouches(_, _, _, _),   \* body, walls, trace, spark: the geometry
  NoPoint            \* traceStart when no trace is open

Cells  == (0 .. Width - 1) \X (0 .. Height - 1)
Points == (0 .. Width) \X (0 .. Height)
Directions == {"up", "down", "left", "right", "idle"}
Inputs == [direction : Directions, draw : {"off", "fast"}]
Idle   == [direction |-> "idle", draw |-> "off"]

Gap(a, b) == IF a < b THEN b - a ELSE a - b
Adjacent(p, q) == Gap(p[1], q[1]) + Gap(p[2], q[2]) = 1
Corners(c) == {c[1], c[1] + 1} \X {c[2], c[2] + 1}
Sides(c) == {{pq[1], pq[2]} : pq \in
               {r \in Corners(c) \X Corners(c) : Adjacent(r[1], r[2])}}

\* The edges around a set of cells: those of exactly one of them.
Rim(S) == {e \in UNION {Sides(c) : c \in S} :
             \A c, d \in S : e \in Sides(c) /\ e \in Sides(d) => c = d}
OuterWalls == Rim(Cells) \cup Rim(Blocked) \cup InitialWalls

ASSUME BoardAssumption ==
  /\ Width \in Nat \ {0} /\ Height \in Nat \ {0} /\ Scale \in Nat \ {0, 1}
  /\ Blocked \subseteq Cells /\ Blocked # Cells
  /\ InitialWalls \subseteq SUBSET Points
  /\ Integrity \in Nat /\ MoveEvery \in Nat \ {0} /\ TargetCells \in Nat
  /\ TimeLimits \subseteq Nat
  /\ NoPoint \notin Points

\* What the level tools check of an authored field.
ASSUME ScenarioAssumption ==
  /\ SparkStart \in Points /\ SparkStart \in UNION OuterWalls
  /\ Bodies \in Seq([at : Int \X Int, v : Int \X Int])
  /\ Filaments \subseteq 1 .. Len(Bodies)
  /\ \A k \in 1 .. Len(Bodies) :
       <<Bodies[k].at[1] \div Scale, Bodies[k].at[2] \div Scale>> \in Cells \ Blocked

NewField ==
  [tick |-> 0, status |-> "running", reason |-> "none", input |-> Idle,
   pos |-> SparkStart, heading |-> "idle", drawing |-> FALSE, release |-> FALSE,
   integrity |-> Integrity, start |-> NoPoint, trace |-> {},
   walls |-> OuterWalls, stab |-> {}, bodies |-> Bodies, events |-> {}]

\* The types of a field.
Fields == [tick : Nat, status : {"running", "won", "lost"},
           reason : {"none", "integrity", "timeout"}, input : Inputs,
           pos : Points, heading : Directions, drawing : BOOLEAN,
           release : BOOLEAN, integrity : Int, start : Points \cup {NoPoint},
           trace : SUBSET SUBSET Points, walls : SUBSET SUBSET Points,
           stab : SUBSET (Cells \ Blocked),
           bodies : Seq([at : Int \X Int, v : Int \X Int]),
           events : SUBSET {"trace_started", "trace_completed", "trace_hit"}]

\* activeCell: on the board, neither blocked nor stabilized.
Open(f) == Cells \ (Blocked \cup f.stab)
CellOf(at) == <<at[1] \div Scale, at[2] \div Scale>>

SetInput(f, i) ==
  [f EXCEPT !.input = i, !.release = @ /\ i.draw # "off"]

-----------------------------------------------------------------------------
(* The spark                                                               *)

Opposite(d) == CASE d = "up" -> "down" [] d = "down" -> "up"
                 [] d = "left" -> "right" [] d = "right" -> "left"
                 [] OTHER -> "idle"
NextPoint(p, d) == CASE d = "up"    -> <<p[1], p[2] - 1>>
                     [] d = "down"  -> <<p[1], p[2] + 1>>
                     [] d = "left"  -> <<p[1] - 1, p[2]>>
                     [] d = "right" -> <<p[1] + 1, p[2]>>
                     [] OTHER -> p

Target(f) == NextPoint(f.pos, f.input.direction)
MoveEdge(f) == {f.pos, Target(f)}
TouchesOpen(f, e) == \E c \in Open(f) : e \subseteq Corners(c)

\* Mutant of Stays: the trace may be crossed.
StaysUnlessCrossing(f) ==
  \/ f.input.direction = "idle"
  \/ f.drawing /\ Opposite(f.input.direction) = f.heading
  \/ Target(f) \notin Points

\* The early returns that come before the edge is looked at.
Stays(f) ==
  \/ f.input.direction = "idle"
  \/ f.drawing /\ Opposite(f.input.direction) = f.heading
  \/ Target(f) \notin Points
  \/ f.drawing /\ Target(f) \in UNION f.trace
Slides(f) == ~f.drawing /\ MoveEdge(f) \in f.walls
Cuts(f) ==
  /\ MoveEdge(f) \notin f.walls \cup f.trace
  /\ TouchesOpen(f, MoveEdge(f))
  /\ f.drawing \/ (f.input.draw # "off" /\ ~f.release)

\* captureEmptyComponents: the components of the open field without an anomaly,
\* which together are the largest set with no anomaly and no way out.
Joined(c, d, walls) == Adjacent(c, d) /\ Corners(c) \cap Corners(d) \notin walls
Occupied(f) == {CellOf(f.bodies[k].at) : k \in 1 .. Len(f.bodies)}

\* Mutant of Captured: the flood never fills the cell to the left.
CapturedOneWay(f, walls) ==
  LET ways == {w \in {<<c, d>> : c, d \in Open(f)} :
                 Joined(w[1], w[2], walls) /\ w[1][1] <= w[2][1]}
  IN  UNION {IF \A w \in ways : w[1] \in S => w[2] \in S THEN S ELSE {} : S \in SUBSET (Open(f) \ Occupied(f))}

Captured(f, walls) ==
  LET ways == {w \in {<<c, d>> : c, d \in Open(f)} : Joined(w[1], w[2], walls)}
  IN  UNION {IF \A w \in ways : w[1] \in S => w[2] \in S THEN S ELSE {} : S \in SUBSET (Open(f) \ Occupied(f))}

CompleteTrace(f) ==
  LET walls == f.walls \cup f.trace
      stab  == f.stab \cup Captured(f, walls)
  IN  [f EXCEPT !.walls = walls, !.stab = stab, !.trace = {}, !.start = NoPoint,
                !.drawing = FALSE, !.release = TRUE, !.input.draw = "off",
                !.events = @ \cup {"trace_completed"},
                !.status = IF Cardinality(stab) >= TargetCells THEN "won" ELSE @]

ExtendTrace(f) ==
  [f EXCEPT !.trace = @ \cup {MoveEdge(f)}, !.pos = Target(f),
            !.heading = f.input.direction, !.drawing = TRUE,
            !.start = IF f.drawing THEN @ ELSE f.pos,
            !.events = IF f.drawing THEN @ ELSE @ \cup {"trace_started"}]

MoveSpark(f) ==
  CASE Stays(f) -> f
    [] ~Stays(f) /\ Slides(f) ->
         [f EXCEPT !.pos = Target(f), !.heading = f.input.direction]
    [] ~Stays(f) /\ ~Slides(f) /\ Cuts(f) ->
         IF Target(f) \in UNION f.walls THEN CompleteTrace(ExtendTrace(f))
                                        ELSE ExtendTrace(f)
    [] OTHER -> f

\* The first part of a tick: the count, and the spark on its own cadence.
OpenTick(f) == [f EXCEPT !.tick = @ + 1, !.events = {}]
SparkPhase(f) ==
  IF f.tick % MoveEvery = 0 THEN MoveSpark(OpenTick(f)) ELSE OpenTick(f)

-----------------------------------------------------------------------------
(* The anomalies                                                           *)

HitTrace(f) ==
  IF ~f.drawing THEN f
  ELSE [f EXCEPT !.integrity = @ - 1, !.pos = f.start, !.heading = "idle",
                 !.drawing = FALSE, !.release = TRUE, !.start = NoPoint,
                 !.trace = {}, !.input = Idle, !.events = @ \cup {"trace_hit"}]

Clamp(low, high, n) == IF n < low THEN low ELSE IF n > high THEN high ELSE n
Span(axis) == (IF axis = 1 THEN Width ELSE Height) * Scale

\* The edge an anomaly meets when it leaves its cell along an axis.
Crossed(body, axis) ==
  LET from == body.at[axis]
      to   == from + body.v[axis]
      line == (IF body.v[axis] > 0 THEN to ELSE from) \div Scale
      lane == body.at[3 - axis] \div Scale
  IN  IF axis = 1 THEN {<<line, lane>>, <<line, lane + 1>>}
                  ELSE {<<lane, line>>, <<lane + 1, line>>}
Crosses(body, axis) ==
  body.at[axis] \div Scale # (body.at[axis] + body.v[axis]) \div Scale

MoveAxis(f, k, axis) ==
  LET body   == f.bodies[k]
      hits   == Crosses(body, axis) /\ Crossed(body, axis) \in f.trace
      turns  == Crosses(body, axis) /\ ~hits /\ Crossed(body, axis) \in f.walls
      speed  == IF turns THEN -body.v[axis] ELSE body.v[axis]
      moved  == [at |-> [body.at EXCEPT ![axis] = Clamp(1, Span(axis) - 1, @ + speed)],
                 v  |-> [body.v EXCEPT ![axis] = speed]]
      g      == [f EXCEPT !.bodies[k] = moved]
  IN  IF hits THEN HitTrace(g) ELSE g

\* A body that ends outside the open field goes back, reversed.
KeepInField(f, g, k) ==
  IF CellOf(g.bodies[k].at) \in Open(g) THEN g
  ELSE [g EXCEPT !.bodies[k] = [at |-> f.bodies[k].at,
          v |-> <<-f.bodies[k].v[1], -f.bodies[k].v[2]>>]]

TouchesTip(f, body) ==
  LET dx == body.at[1] - f.pos[1] * Scale
      dy == body.at[2] - f.pos[2] * Scale
  IN  9 * (dx * dx + dy * dy) <= Scale * Scale
TouchesTrace(f, k) ==
  \/ k \in Filaments /\ FilamentTouches(f.bodies[k], f.walls, f.trace, f.pos)
  \/ TouchesTip(f, f.bodies[k])

MoveAnomaly(f, k) ==
  LET g == KeepInField(f, MoveAxis(MoveAxis(f, k, 1), k, 2), k)
  IN  IF g.drawing /\ TouchesTrace(g, k) THEN HitTrace(g) ELSE g

-----------------------------------------------------------------------------
(* The end of a tick, and a whole tick                                     *)

OutOfLives(f) == f.integrity <= 0
OutOfTime(f)  == \E limit \in TimeLimits : f.tick >= limit

\* Mutant of Judge: the clock is looked at even when the field is won.
JudgeTimeAlways(f) ==
  IF OutOfLives(f) /\ f.status = "running"
  THEN [f EXCEPT !.status = "lost", !.reason = "integrity"]
  ELSE IF OutOfTime(f) THEN [f EXCEPT !.status = "lost", !.reason = "timeout"]
  ELSE f

Judge(f) ==
  IF f.status # "running" THEN f
  ELSE IF OutOfLives(f) THEN [f EXCEPT !.status = "lost", !.reason = "integrity"]
  ELSE IF OutOfTime(f) THEN [f EXCEPT !.status = "lost", !.reason = "timeout"]
  ELSE f

MoveAnomalies(f) ==
  LET after[k \in 0 .. Len(f.bodies)] ==
        IF k = 0 THEN f ELSE MoveAnomaly(after[k - 1], k)
  IN  after[Len(f.bodies)]

Step(f) == IF f.status # "running" THEN [f EXCEPT !.events = {}]
           ELSE Judge(MoveAnomalies(SparkPhase(f)))
=============================================================================
