------------------------ MODULE PartitionRulesProofs ------------------------
(***************************************************************************)
(* What the rules of Partition do to a field, for every board, wall        *)
(* layout, set of anomalies and geometry of the filaments: the parts of a  *)
(* tick, and the whole of it, with the anomalies moved one after the other *)
(* by a recursive function.                                                *)
(***************************************************************************)
EXTENDS PartitionRules, FiniteSetTheorems, WellFoundedInduction, TLAPS

Body == [at : Int \X Int, v : Int \X Int]

\* While the spark draws it knows where the trace began, so that a hit can
\* send it back to a point of the board.
StartIsKnown(f) == f.drawing => f.start \in Points
Good(f) == f \in Fields /\ StartIsKnown(f) /\ Len(f.bodies) = Len(Bodies)

\* Corners of a cell are points of the board.
LEMMA CornersArePoints == \A c \in Cells : Corners(c) \subseteq Points
  BY BoardAssumption DEF Cells, Corners, Points

\* The walls a field begins with join points of the board.
LEMMA OuterWallsArePoints == OuterWalls \subseteq SUBSET Points
<1>1. ASSUME NEW c \in Cells, NEW e \in Sides(c) PROVE e \in SUBSET Points
  BY <1>1, CornersArePoints DEF Sides
<1>2. Rim(Cells) \subseteq SUBSET Points
  BY <1>1 DEF Rim
<1>3. Rim(Blocked) \subseteq SUBSET Points
  BY <1>1, BoardAssumption DEF Rim
<1> QED BY <1>2, <1>3, BoardAssumption DEF OuterWalls

\* A field starts well typed.
LEMMA NewFieldGood == Good(NewField)
<1>1. NewField.walls \in SUBSET SUBSET Points
  BY OuterWallsArePoints DEF NewField
<1> QED BY <1>1, BoardAssumption, ScenarioAssumption
  DEF Good, StartIsKnown, NewField, Fields, Idle, Inputs, Directions

\* setInput keeps a field well typed.
LEMMA SetInputGood ==
  ASSUME NEW f, Good(f), NEW i \in Inputs
  PROVE  Good(SetInput(f, i))
  BY DEF Good, StartIsKnown, SetInput, Fields

\* What is captured was open.
LEMMA CapturedIsOpen ==
  ASSUME NEW f, NEW walls
  PROVE  Captured(f, walls) \subseteq Open(f)
  BY DEF Captured

\* The step of the spark along an edge, drawing it.
LEMMA ExtendTraceGood ==
  ASSUME NEW f, Good(f), ~Stays(f)
  PROVE  Good(ExtendTrace(f))
<1>1. Target(f) \in Points /\ f.pos \in Points /\ f.input.direction \in Directions
  BY DEF Stays, Good, Fields, Inputs
<1>2. MoveEdge(f) \in SUBSET Points
  BY <1>1 DEF MoveEdge
<1>3. f.trace \cup {MoveEdge(f)} \in SUBSET SUBSET Points
  BY <1>2 DEF Good, Fields
<1> QED BY <1>1, <1>3 DEF Good, StartIsKnown, ExtendTrace, Fields

\* Completing a trace keeps a field well typed.
LEMMA CompleteTraceGood ==
  ASSUME NEW f, Good(f)
  PROVE  Good(CompleteTrace(f))
<1> DEFINE w == f.walls \cup f.trace
           s == f.stab \cup Captured(f, w)
<1>1. w \in SUBSET SUBSET Points
  BY DEF Good, Fields
<1>2. s \in SUBSET (Cells \ Blocked)
  BY CapturedIsOpen DEF Good, Fields, Open
<1>3. [f.input EXCEPT !.draw = "off"] \in Inputs
  BY DEF Good, Fields, Inputs
<1> HIDE DEF s, w
<1> QED BY <1>1, <1>2, <1>3 DEF Good, StartIsKnown, CompleteTrace, Fields, w, s

\* Counting the tick keeps a field well typed.
LEMMA OpenTickGood ==
  ASSUME NEW f, Good(f)
  PROVE  Good(OpenTick(f))
<1>1. f.tick + 1 \in Nat
  BY DEF Good, Fields
<1> DEFINE n == f.tick + 1
<1> HIDE DEF n
<1> QED BY <1>1 DEF Good, StartIsKnown, OpenTick, Fields, n

\* The spark's part of a tick keeps a field well typed.
LEMMA SparkPhaseGood ==
  ASSUME NEW f, Good(f)
  PROVE  Good(SparkPhase(f))
<1> DEFINE g == OpenTick(f)
<1>1. Good(g)
  BY OpenTickGood
<1> HIDE DEF g
<1>2. CASE Stays(g)
  BY <1>1, <1>2 DEF SparkPhase, MoveSpark, g
<1>3. CASE ~Stays(g) /\ Slides(g)
  <2>1. Target(g) \in Points /\ g.input.direction \in Directions
    BY <1>1, <1>3 DEF Stays, Good, Fields, Inputs
  <2>2. Good([g EXCEPT !.pos = Target(g), !.heading = g.input.direction])
    BY <1>1, <2>1 DEF Good, StartIsKnown, Fields
  <2> QED BY <1>1, <1>3, <2>2 DEF SparkPhase, MoveSpark, g
<1>4. CASE ~Stays(g) /\ ~Slides(g) /\ Cuts(g)
  <2>1. Good(ExtendTrace(g))
    BY <1>1, <1>4, ExtendTraceGood
  <2>2. Good(CompleteTrace(ExtendTrace(g)))
    BY <2>1, CompleteTraceGood
  <2> QED BY <1>1, <1>4, <2>1, <2>2 DEF SparkPhase, MoveSpark, g
<1>5. CASE ~Stays(g) /\ ~Slides(g) /\ ~Cuts(g)
  BY <1>1, <1>5 DEF SparkPhase, MoveSpark, g
<1> QED BY <1>2, <1>3, <1>4, <1>5

-----------------------------------------------------------------------------
(* The anomalies                                                           *)

\* What the anomalies may do to the rest of a field: nothing, or sever the trace
\* and send the spark back to where it began.
Severed(f, g) ==
  /\ f.drawing /\ ~g.drawing /\ g.trace = {} /\ g.start = NoPoint /\ g.pos = f.start
  /\ "trace_hit" \in g.events
Spared(f, g) ==
  /\ g.drawing = f.drawing /\ g.trace = f.trace /\ g.start = f.start /\ g.pos = f.pos
  /\ g.integrity = f.integrity /\ g.input = f.input /\ g.release = f.release /\ g.events = f.events
Disturbs(f, g) ==
  /\ g.tick = f.tick
  /\ g.status = f.status /\ g.reason = f.reason /\ g.stab = f.stab /\ g.walls = f.walls
  /\ Spared(f, g) \/ Severed(f, g)

\* Two disturbances in a row are one, for a severed trace is gone.
LEMMA DisturbsTwice ==
  ASSUME NEW f, NEW g, NEW h, Disturbs(f, g), Disturbs(g, h)
  PROVE  Disturbs(f, h)
  BY DEF Disturbs, Spared, Severed

\* A hit sends the spark back and leaves a field well typed.
LEMMA HitTraceGood ==
  ASSUME NEW f, Good(f)
  PROVE  Good(HitTrace(f)) /\ HitTrace(f).bodies = f.bodies /\ Disturbs(f, HitTrace(f))
<1>1. f.integrity - 1 \in Int /\ Idle \in Inputs
  BY DEF Good, Fields, Idle, Inputs, Directions
<1> DEFINE n == f.integrity - 1
<1> HIDE DEF n
<1>2. Good(HitTrace(f))
  BY <1>1 DEF Good, StartIsKnown, HitTrace, Fields, Directions, n
<1>3. HitTrace(f).bodies = f.bodies /\ Disturbs(f, HitTrace(f))
  BY DEF Good, HitTrace, Fields, Disturbs, Spared, Severed
<1> QED BY <1>2, <1>3

\* Every anomaly has a place and a velocity.
LEMMA BodiesTyped ==
  ASSUME NEW f, Good(f), NEW k \in 1 .. Len(Bodies)
  PROVE  f.bodies[k] \in Body
<1>1. f.bodies \in Seq(Body) /\ k \in 1 .. Len(f.bodies)
  BY DEF Good, Fields, Body
<1> QED BY <1>1

\* A move along one axis changes the one anomaly and, if it hits, the spark.
LEMMA MoveAxisGood ==
  ASSUME NEW f, Good(f), NEW k \in 1 .. Len(Bodies), NEW axis \in {1, 2}
  PROVE  LET g == MoveAxis(f, k, axis)
         IN  /\ Good(g) /\ Disturbs(f, g)
             /\ \A j \in 1 .. Len(Bodies) : j # k => g.bodies[j] = f.bodies[j]
<1> DEFINE body  == f.bodies[k]
           hits  == Crosses(body, axis) /\ Crossed(body, axis) \in f.trace
           turns == Crosses(body, axis) /\ ~hits /\ Crossed(body, axis) \in f.walls
           speed == IF turns THEN -body.v[axis] ELSE body.v[axis]
           place == Clamp(1, Span(axis) - 1, body.at[axis] + speed)
           moved == [at |-> [body.at EXCEPT ![axis] = place],
                     v  |-> [body.v EXCEPT ![axis] = speed]]
           h     == [f EXCEPT !.bodies[k] = moved]
<1>1. body \in Body
  BY BodiesTyped
<1>2. speed \in Int
  BY <1>1 DEF Body
<1>3. Span(axis) \in Int
  BY BoardAssumption DEF Span
<1>4. place \in Int
  <2> HIDE DEF speed
  <2> QED BY <1>1, <1>2, <1>3 DEF Body, Clamp
<1>5. moved \in Body
  <2> HIDE DEF speed, place, body
  <2>1. body = [at |-> body.at, v |-> body.v] /\ body.at \in Int \X Int /\ body.v \in Int \X Int
    BY <1>1 DEF Body
  <2>2. [body.v EXCEPT ![axis] = speed] \in Int \X Int
    BY <1>2, <2>1
  <2>3. [body.at EXCEPT ![axis] = place] \in Int \X Int
    BY <1>4, <2>1
  <2> QED BY <2>2, <2>3 DEF Body
<1>6. /\ Good(h) /\ Disturbs(f, h)
      /\ \A j \in 1 .. Len(Bodies) : j # k => h.bodies[j] = f.bodies[j]
  <2> HIDE DEF moved
  <2>1. /\ [f.bodies EXCEPT ![k] = moved] \in Seq(Body)
        /\ Len([f.bodies EXCEPT ![k] = moved]) = Len(Bodies)
    BY <1>5 DEF Good, Fields, Body
  <2>2. h = [f EXCEPT !.bodies = [f.bodies EXCEPT ![k] = moved]]
    BY DEF Good, Fields
  <2> HIDE DEF h
  <2>3. \A j \in 1 .. Len(Bodies) : j # k => [f.bodies EXCEPT ![k] = moved][j] = f.bodies[j]
    BY DEF Good, Fields
  <2> DEFINE b == [f.bodies EXCEPT ![k] = moved]
  <2> HIDE DEF b
  <2>4. Good(h) /\ h.bodies = b
    BY <2>1, <2>2 DEF Good, StartIsKnown, Fields, Body, b
  <2>5. Disturbs(f, h)
    BY <2>2 DEF Good, Fields, Disturbs, Spared
  <2> QED BY <2>3, <2>4, <2>5 DEF b
<1>7. MoveAxis(f, k, axis) = IF hits THEN HitTrace(h) ELSE h
  BY DEF MoveAxis
<1> HIDE DEF h, hits
<1>8. Good(HitTrace(h)) /\ HitTrace(h).bodies = h.bodies /\ Disturbs(h, HitTrace(h))
  BY <1>6, HitTraceGood
<1>9. Disturbs(f, HitTrace(h))
  BY <1>6, <1>8, DisturbsTwice
<1> QED BY <1>6, <1>7, <1>8, <1>9

\* Putting an anomaly back where it was keeps a field well typed, and whatever
\* happens the anomaly is in the open field if it was there before.
LEMMA KeepInFieldGood ==
  ASSUME NEW f, Good(f), NEW g, Good(g), NEW k \in 1 .. Len(Bodies), g.stab = f.stab,
         CellOf(f.bodies[k].at) \in Open(f)
  PROVE  LET h == KeepInField(f, g, k)
         IN  /\ Good(h) /\ Disturbs(g, h)
             /\ CellOf(h.bodies[k].at) \in Open(f)
             /\ \A j \in 1 .. Len(Bodies) : j # k => h.bodies[j] = g.bodies[j]
<1>1. Open(g) = Open(f)
  BY DEF Open
<1>2. CASE CellOf(g.bodies[k].at) \in Open(g)
  BY <1>1, <1>2 DEF KeepInField, Disturbs, Spared
<1>3. CASE CellOf(g.bodies[k].at) \notin Open(g)
  <2> DEFINE back == [at |-> f.bodies[k].at, v |-> <<-f.bodies[k].v[1], -f.bodies[k].v[2]>>]
             b == [g.bodies EXCEPT ![k] = back]
             h == [g EXCEPT !.bodies = b]
  <2>1. back \in Body /\ back.at = f.bodies[k].at
    BY BodiesTyped DEF Body
  <2>2. KeepInField(f, g, k) = h
    BY <1>3 DEF KeepInField, Good, Fields
  <2> HIDE DEF back
  <2>3. /\ b \in Seq(Body) /\ Len(b) = Len(Bodies) /\ b[k] = back
        /\ \A j \in 1 .. Len(Bodies) : j # k => b[j] = g.bodies[j]
    BY <2>1 DEF Good, Fields, Body
  <2> HIDE DEF b
  <2>4. Good(h) /\ h.bodies = b
    BY <2>3 DEF Good, StartIsKnown, Fields, Body
  <2>5. Disturbs(g, h)
    BY DEF Good, Fields, Disturbs, Spared
  <2> HIDE DEF h
  <2> QED BY <2>1, <2>2, <2>3, <2>4, <2>5
<1> QED BY <1>2, <1>3

\* One anomaly's part of a tick.
LEMMA MoveAnomalyGood ==
  ASSUME NEW f, Good(f), NEW k \in 1 .. Len(Bodies), CellOf(f.bodies[k].at) \in Open(f)
  PROVE  LET g == MoveAnomaly(f, k)
         IN  /\ Good(g) /\ Disturbs(f, g)
             /\ CellOf(g.bodies[k].at) \in Open(f)
             /\ \A j \in 1 .. Len(Bodies) : j # k => g.bodies[j] = f.bodies[j]
<1> DEFINE x == MoveAxis(f, k, 1)
           y == MoveAxis(x, k, 2)
           h == KeepInField(f, y, k)
<1>1. /\ Good(x) /\ Disturbs(f, x)
      /\ \A j \in 1 .. Len(Bodies) : j # k => x.bodies[j] = f.bodies[j]
  BY MoveAxisGood
<1> HIDE DEF x
<1>2. /\ Good(y) /\ Disturbs(f, y)
      /\ \A j \in 1 .. Len(Bodies) : j # k => y.bodies[j] = x.bodies[j]
  BY <1>1, MoveAxisGood, DisturbsTwice
<1> HIDE DEF y
<1>3. /\ Good(h) /\ Disturbs(f, h)
      /\ CellOf(h.bodies[k].at) \in Open(f)
      /\ \A j \in 1 .. Len(Bodies) : j # k => h.bodies[j] = y.bodies[j]
  <2>1. y.stab = f.stab
    BY <1>2 DEF Disturbs
  <2> QED BY <1>2, <2>1, KeepInFieldGood, DisturbsTwice
<1>4. MoveAnomaly(f, k) = IF h.drawing /\ TouchesTrace(h, k) THEN HitTrace(h) ELSE h
  BY DEF MoveAnomaly, h, y, x
<1> HIDE DEF h
<1>5. Good(HitTrace(h)) /\ HitTrace(h).bodies = h.bodies /\ Disturbs(f, HitTrace(h))
  BY <1>3, HitTraceGood, DisturbsTwice
<1> QED BY <1>1, <1>2, <1>3, <1>4, <1>5

-----------------------------------------------------------------------------
(* The field as a whole                                                    *)

Confined(f) == \A k \in 1 .. Len(Bodies) : CellOf(f.bodies[k].at) \in Open(f)
Sealed(f) == \A c \in f.stab, d \in Open(f) : ~Joined(c, d, f.walls)

\* The cells where anomalies are survive every capture, and what is captured has
\* no way left to what stays open.
LEMMA CompleteTraceSafe ==
  ASSUME NEW f, Good(f), Confined(f), Sealed(f)
  PROVE  Confined(CompleteTrace(f)) /\ Sealed(CompleteTrace(f))
<1> DEFINE w == f.walls \cup f.trace
           s == f.stab \cup Captured(f, w)
           g == CompleteTrace(f)
<1>1. g.walls = w /\ g.stab = s /\ g.bodies = f.bodies
  BY DEF CompleteTrace, Good, Fields
<1>2. Open(g) = Open(f) \ Captured(f, w)
  BY <1>1 DEF Open
<1>3. Confined(g)
  <2>1. ASSUME NEW k \in 1 .. Len(Bodies) PROVE CellOf(f.bodies[k].at) \notin Captured(f, w)
    <3>1. CellOf(f.bodies[k].at) \in Occupied(f)
      BY DEF Occupied, Good
    <3> QED BY <3>1 DEF Captured
  <2> QED BY <1>1, <1>2, <2>1 DEF Confined
<1>4. Sealed(g)
  <2> SUFFICES ASSUME NEW c \in s, NEW d \in Open(f), d \notin Captured(f, w)
               PROVE  ~Joined(c, d, w)
    BY <1>1, <1>2 DEF Sealed
  <2>1. CASE c \in f.stab
    BY <2>1 DEF Sealed, Joined
  <2>2. CASE c \in Captured(f, w)
    <3> DEFINE ways == {u \in {<<a, b>> : a, b \in Open(f)} : Joined(u[1], u[2], w)}
    <3>1. PICK S \in SUBSET (Open(f) \ Occupied(f)) :
            c \in S /\ \A u \in ways : u[1] \in S => u[2] \in S
      BY <2>2 DEF Captured
    <3>2. S \subseteq Captured(f, w)
      BY <3>1 DEF Captured
    <3>3. Joined(c, d, w) => <<c, d>> \in ways
      BY <3>1
    <3>4. <<c, d>> \in ways => d \in S
      <4> HIDE DEF ways
      <4>1. <<c, d>> \in ways => (<<c, d>>[1] \in S => <<c, d>>[2] \in S)
        BY <3>1
      <4> QED BY <3>1, <4>1
    <3> QED BY <3>2, <3>3, <3>4
  <2> QED BY <2>1, <2>2
<1> QED BY <1>3, <1>4

\* A field that is over draws no trace: a win closes the trace it draws.
Settled(f) == f.status # "running" => ~f.drawing

\* The spark's part of a tick keeps anomalies confined and captures sealed, and
\* is taken while the field runs, so that only a completed trace ends it.
LEMMA SparkPhaseSafe ==
  ASSUME NEW f, Good(f), Confined(f), Sealed(f), f.status = "running"
  PROVE  LET g == SparkPhase(f) IN Confined(g) /\ Sealed(g) /\ Settled(g)
<1> DEFINE g == OpenTick(f)
<1>1. Good(g)
  BY OpenTickGood
<1>2. g.stab = f.stab /\ g.walls = f.walls /\ g.bodies = f.bodies /\ g.status = f.status
  BY DEF OpenTick, Good, Fields
<1>3. Confined(g) /\ Sealed(g) /\ Settled(g)
  BY <1>2 DEF Confined, Sealed, Settled, Open
<1> HIDE DEF g
<1>4. CASE Stays(g)
  BY <1>3, <1>4 DEF SparkPhase, MoveSpark, g
<1>5. CASE ~Stays(g) /\ Slides(g)
  <2> DEFINE h == [g EXCEPT !.pos = Target(g), !.heading = g.input.direction]
  <2>1. h.stab = g.stab /\ h.walls = g.walls /\ h.bodies = g.bodies /\ h.status = g.status
    BY <1>1 DEF Good, Fields
  <2>2. Confined(h) /\ Sealed(h) /\ Settled(h)
    BY <1>2, <1>3, <2>1 DEF Confined, Sealed, Settled, Open
  <2> QED BY <1>3, <1>5, <2>2 DEF SparkPhase, MoveSpark, g
<1>6. CASE ~Stays(g) /\ ~Slides(g) /\ Cuts(g)
  <2> DEFINE h == ExtendTrace(g)
  <2>1. h.stab = g.stab /\ h.walls = g.walls /\ h.bodies = g.bodies /\ h.status = g.status
    BY <1>1 DEF Good, Fields, ExtendTrace
  <2>2. Good(h)
    BY <1>1, <1>6, ExtendTraceGood
  <2>3. Confined(h) /\ Sealed(h) /\ Settled(h)
    BY <1>2, <1>3, <2>1 DEF Confined, Sealed, Settled, Open
  <2> HIDE DEF h
  <2>4. Confined(CompleteTrace(h)) /\ Sealed(CompleteTrace(h))
    BY <2>2, <2>3, CompleteTraceSafe
  <2>5. Settled(CompleteTrace(h))
    BY <2>2 DEF Settled, CompleteTrace, Good, Fields
  <2> QED BY <1>3, <1>6, <2>3, <2>4, <2>5 DEF SparkPhase, MoveSpark, g, h
<1>7. CASE ~Stays(g) /\ ~Slides(g) /\ ~Cuts(g)
  BY <1>3, <1>7 DEF SparkPhase, MoveSpark, g
<1> QED BY <1>4, <1>5, <1>6, <1>7

\* The verdict changes nothing but the verdict.
LEMMA JudgeGood ==
  ASSUME NEW f, Good(f)
  PROVE  LET g == Judge(f)
         IN  /\ Good(g) /\ g.bodies = f.bodies /\ g.stab = f.stab /\ g.walls = f.walls
             /\ g.drawing = f.drawing /\ g.trace = f.trace /\ g.start = f.start /\ g.pos = f.pos
             /\ g.tick = f.tick /\ g.release = f.release /\ g.events = f.events /\ g.input = f.input
<1>1. \A r \in {"integrity", "timeout"} :
        LET g == [f EXCEPT !.status = "lost", !.reason = r]
        IN  /\ Good(g) /\ g.bodies = f.bodies /\ g.stab = f.stab /\ g.walls = f.walls
            /\ g.drawing = f.drawing /\ g.trace = f.trace /\ g.start = f.start /\ g.pos = f.pos
            /\ g.tick = f.tick /\ g.release = f.release /\ g.events = f.events /\ g.input = f.input
  BY DEF Good, StartIsKnown, Fields
<1> QED BY <1>1 DEF Judge

-----------------------------------------------------------------------------
(* The trace                                                               *)

Ends(f) == {f.start, f.pos}
Met(f, p) == {e \in f.trace : p \in e}
Degree(f, p) == IF p \in Ends(f) THEN 1 ELSE 2

\* A trace in progress, through the points tp: a simple path off the walls.
PathOff(f, tp, walled) ==
  /\ IsFiniteSet(f.trace) /\ IsFiniteSet(tp)
  /\ f.start \in walled /\ f.pos \notin walled
  /\ Ends(f) \subseteq tp /\ tp \cap walled = {f.start}
  /\ Cardinality(tp) = Cardinality(f.trace) + 1
  /\ \A p \in tp : IsFiniteSet(Met(f, p)) /\ Cardinality(Met(f, p)) = Degree(f, p)
Drawn(f) == PathOff(f, UNION f.trace, UNION f.walls)
\* A spark at rest on a wall.
AtWall(f) == f.trace = {} /\ f.start = NoPoint /\ f.pos \in UNION f.walls
CutIsOpen(f) == IF f.drawing THEN Drawn(f) ELSE AtWall(f)

\* Counting one thing, and one more.
LEMMA One ==
  ASSUME NEW x
  PROVE  IsFiniteSet({x}) /\ Cardinality({x}) = 1
  BY FS_Singleton
LEMMA OneMore ==
  ASSUME NEW S, NEW x, IsFiniteSet(S), x \notin S
  PROVE  IsFiniteSet(S \cup {x}) /\ Cardinality(S \cup {x}) = Cardinality(S) + 1
  BY FS_AddElement

\* A trace is the same cut in two fields that agree on it.
LEMMA SameCut ==
  ASSUME NEW f, NEW g, CutIsOpen(f), g.drawing = f.drawing, g.trace = f.trace,
         g.start = f.start, g.pos = f.pos, g.walls = f.walls
  PROVE  CutIsOpen(g)
  BY DEF CutIsOpen, Drawn, PathOff, AtWall, Ends, Met, Degree

\* The first edge of a trace leads off the wall the spark stands on.
LEMMA FirstEdge ==
  ASSUME NEW f, Good(f), ~f.drawing, AtWall(f), Target(f) \notin UNION f.walls
  PROVE  Drawn(ExtendTrace(f))
<1> DEFINE g == ExtendTrace(f)
           e == {f.pos, Target(f)}
<1>1. /\ g.trace = {e} /\ g.start = f.pos /\ g.pos = Target(f) /\ g.walls = f.walls
  BY DEF ExtendTrace, Good, Fields, AtWall, MoveEdge
<1> HIDE DEF g
<1>2. f.pos # Target(f) /\ f.pos \in UNION f.walls
  BY DEF AtWall
<1>3. UNION g.trace = e
  BY <1>1
<1>4. IsFiniteSet(e) /\ Cardinality(e) = 2
  <2>1. IsFiniteSet({f.pos}) /\ Cardinality({f.pos}) = 1
    BY One
  <2>2. e = {f.pos} \cup {Target(f)} /\ Target(f) \notin {f.pos}
    BY <1>2
  <2>3. IsFiniteSet({f.pos} \cup {Target(f)})
        /\ Cardinality({f.pos} \cup {Target(f)}) = Cardinality({f.pos}) + 1
    BY <2>1, <2>2, OneMore
  <2> HIDE DEF e
  <2> QED BY <2>1, <2>2, <2>3
<1> HIDE DEF e
<1>5. IsFiniteSet(g.trace) /\ Cardinality(g.trace) = 1
  BY <1>1, One
<1>6. ASSUME NEW p \in e PROVE IsFiniteSet(Met(g, p)) /\ Cardinality(Met(g, p)) = Degree(g, p)
  <2>1. Met(g, p) = {e} /\ Degree(g, p) = 1
    BY <1>1, <1>6 DEF Met, Degree, Ends, e
  <2> QED BY <2>1, One
<1>7. Ends(g) \subseteq e /\ e \cap (UNION g.walls) = {g.start} /\ g.start \in UNION g.walls
      /\ g.pos \notin UNION g.walls
  BY <1>1, <1>2 DEF Ends, e
<1>8. g = ExtendTrace(f)
  BY DEF g
<1>9. PathOff(g, e, UNION g.walls)
  BY <1>4, <1>5, <1>6, <1>7 DEF PathOff
<1>10. Drawn(g)
  BY <1>3, <1>9, Zenon DEF Drawn
<1> QED BY <1>8, <1>10

\* Every further edge lengthens the path by a point it has not visited.
LEMMA NextEdge ==
  ASSUME NEW f, Good(f), f.drawing, Drawn(f), Target(f) \notin UNION f.walls,
         Target(f) \notin UNION f.trace
  PROVE  Drawn(ExtendTrace(f))
<1> DEFINE g  == ExtendTrace(f)
           e  == {f.pos, Target(f)}
           tp == UNION f.trace
<1>1. g.trace = f.trace \cup {e} /\ g.start = f.start /\ g.pos = Target(f) /\ g.walls = f.walls
  BY DEF ExtendTrace, Good, Fields, MoveEdge
<1> HIDE DEF g
<1>2. f.pos \in tp /\ f.start \in tp /\ f.pos # f.start /\ e \notin f.trace
  BY DEF Drawn, PathOff, Ends
<1>3. UNION g.trace = tp \cup {Target(f)}
  BY <1>1, <1>2
<1>4. IsFiniteSet(g.trace) /\ Cardinality(g.trace) = Cardinality(f.trace) + 1
  <2>1. IsFiniteSet(f.trace)
    BY DEF Drawn, PathOff
  <2> HIDE DEF e
  <2>2. /\ IsFiniteSet(f.trace \cup {e})
        /\ Cardinality(f.trace \cup {e}) = Cardinality(f.trace) + 1
    BY <1>2, <2>1, OneMore
  <2> QED BY <1>1, <2>2
<1>5. IsFiniteSet(UNION g.trace) /\ Cardinality(UNION g.trace) = Cardinality(tp) + 1
  <2>1. IsFiniteSet(tp) /\ Target(f) \notin tp
    BY DEF Drawn, PathOff
  <2> HIDE DEF tp
  <2>2. /\ IsFiniteSet(tp \cup {Target(f)})
        /\ Cardinality(tp \cup {Target(f)}) = Cardinality(tp) + 1
    BY <2>1, OneMore
  <2> QED BY <1>3, <2>2
<1>6. ASSUME NEW p \in UNION g.trace
      PROVE  IsFiniteSet(Met(g, p)) /\ Cardinality(Met(g, p)) = Degree(g, p)
  <2>1. CASE p = Target(f)
    <3>1. Met(g, p) = {e} /\ Degree(g, p) = 1
      BY <1>1, <2>1 DEF Met, Degree, Ends
    <3> QED BY <3>1, One
  <2>2. CASE p = f.pos
    <3>1. Met(g, p) = Met(f, p) \cup {e} /\ e \notin Met(f, p) /\ p # Target(f)
      BY <1>1, <1>2, <2>2 DEF Met
    <3>2. IsFiniteSet(Met(f, p)) /\ Cardinality(Met(f, p)) = 1
      BY <1>2, <2>2 DEF Drawn, PathOff, Degree, Ends
    <3>3. Degree(g, p) = 2
      BY <1>1, <1>2, <2>2, <3>1 DEF Degree, Ends
    <3>4. IsFiniteSet(Met(f, p) \cup {e}) /\ Cardinality(Met(f, p) \cup {e}) = 2
      <4> HIDE DEF e
      <4> QED BY <3>1, <3>2, OneMore
    <3> QED BY <3>1, <3>3, <3>4
  <2>3. CASE p # Target(f) /\ p # f.pos
    <3>1. Met(g, p) = Met(f, p) /\ Degree(g, p) = Degree(f, p) /\ p \in tp
      BY <1>1, <1>3, <2>3 DEF Met, Degree, Ends
    <3> QED BY <3>1 DEF Drawn, PathOff
  <2> QED BY <2>1, <2>2, <2>3
<1>7. /\ g.start \in UNION g.walls /\ g.pos \notin UNION g.walls
      /\ Ends(g) \subseteq UNION g.trace /\ (UNION g.trace) \cap (UNION g.walls) = {g.start}
  <2>1. g.start \in UNION g.walls /\ g.pos \notin UNION g.walls /\ Ends(g) \subseteq UNION g.trace
    BY <1>1, <1>2, <1>3 DEF Drawn, PathOff, Ends
  <2>2. tp \cap (UNION f.walls) = {f.start}
    BY DEF Drawn, PathOff
  <2>3. (tp \cup {Target(f)}) \cap (UNION f.walls) = {f.start}
    <3> HIDE DEF tp
    <3> QED BY <2>2
  <2>4. g.walls = f.walls /\ g.start = f.start
    BY <1>1
  <2>5. UNION g.walls = UNION f.walls
    BY <2>4, Zenon
  <2>6. (UNION g.trace) \cap (UNION g.walls) = {g.start}
    <3> HIDE DEF tp
    <3> QED BY <1>3, <2>3, <2>4, <2>5, Zenon
  <2> QED BY <2>1, <2>6
<1>8. Cardinality(f.trace) \in Nat /\ Cardinality(tp) = Cardinality(f.trace) + 1
  BY FS_CardinalityType DEF Drawn, PathOff
<1> HIDE DEF tp
<1>9. g = ExtendTrace(f)
  BY DEF g
<1>10. PathOff(g, UNION g.trace, UNION g.walls)
  BY <1>4, <1>5, <1>6, <1>7, <1>8 DEF PathOff
<1>11. Drawn(g)
  BY <1>10, Zenon DEF Drawn
<1> QED BY <1>9, <1>11

\* The spark's part of a tick keeps the trace an open cut.
LEMMA SparkPhaseCut ==
  ASSUME NEW f, Good(f), CutIsOpen(f)
  PROVE  CutIsOpen(SparkPhase(f))
<1> DEFINE g == OpenTick(f)
<1>1. Good(g)
  BY OpenTickGood
<1>2. CutIsOpen(g)
  BY DEF OpenTick, Good, Fields, CutIsOpen, Drawn, PathOff, AtWall, Ends, Met, Degree
<1> HIDE DEF g
<1>3. CASE Stays(g)
  BY <1>2, <1>3 DEF SparkPhase, MoveSpark, g
<1>4. CASE ~Stays(g) /\ Slides(g)
  <2> DEFINE h == [g EXCEPT !.pos = Target(g), !.heading = g.input.direction]
  <2>1. /\ h.trace = g.trace /\ h.start = g.start /\ h.walls = g.walls /\ ~h.drawing
        /\ h.pos = Target(g)
    BY <1>1, <1>4 DEF Good, Fields, Slides
  <2>2. Target(g) \in UNION g.walls
    BY <1>4 DEF Slides, MoveEdge
  <2>3. CutIsOpen(h)
    BY <1>2, <1>4, <2>1, <2>2 DEF CutIsOpen, AtWall, Slides
  <2> QED BY <1>2, <1>4, <2>3 DEF SparkPhase, MoveSpark, g
<1>5. CASE ~Stays(g) /\ ~Slides(g) /\ Cuts(g)
  <2> DEFINE h == ExtendTrace(g)
  <2>1. Good(h) /\ h.drawing /\ h.pos = Target(g) /\ h.walls = g.walls
    BY <1>1, <1>5, ExtendTraceGood DEF ExtendTrace, Good, Fields
  <2>2. CASE Target(g) \in UNION g.walls
    <3>1. /\ CompleteTrace(h).trace = {} /\ CompleteTrace(h).start = NoPoint
          /\ ~CompleteTrace(h).drawing /\ CompleteTrace(h).pos = h.pos
          /\ h.walls \subseteq CompleteTrace(h).walls
      <4> HIDE DEF h
      <4> QED BY <2>1 DEF CompleteTrace, Good, Fields
    <3>2. CutIsOpen(CompleteTrace(h))
      BY <2>1, <2>2, <3>1 DEF CutIsOpen, AtWall
    <3> QED BY <1>2, <1>5, <2>2, <3>2 DEF SparkPhase, MoveSpark, g
  <2>3. CASE Target(g) \notin UNION g.walls
    <3>1. Drawn(h)
      BY <1>1, <1>2, <1>5, <2>3, FirstEdge, NextEdge DEF CutIsOpen, Stays
    <3>2. CutIsOpen(h)
      BY <2>1, <3>1 DEF CutIsOpen
    <3> QED BY <1>2, <1>5, <2>3, <3>2 DEF SparkPhase, MoveSpark, g
  <2> QED BY <2>2, <2>3
<1>6. CASE ~Stays(g) /\ ~Slides(g) /\ ~Cuts(g)
  BY <1>2, <1>6 DEF SparkPhase, MoveSpark, g
<1> QED BY <1>3, <1>4, <1>5, <1>6

\* A trace the anomalies do not sever stays as it is, a severed one is gone.
LEMMA DisturbsCut ==
  ASSUME NEW f, NEW g, CutIsOpen(f), Disturbs(f, g)
  PROVE  CutIsOpen(g)
<1>1. CASE Spared(f, g)
  BY <1>1, SameCut DEF Disturbs, Spared
<1>2. CASE Severed(f, g)
  BY <1>2 DEF Disturbs, Severed, CutIsOpen, Drawn, PathOff, AtWall
<1> QED BY <1>1, <1>2 DEF Disturbs

-----------------------------------------------------------------------------
(* A whole tick                                                            *)

\* The least of a set of numbers, which stands for induction.
NatOrder == {p \in Nat \X Nat : p[1] < p[2]}
LEMMA LeastNumber ==
  ASSUME NEW T \in SUBSET Nat, T # {}
  PROVE  \E m \in T : \A k \in T : m <= k
<1>1. IsWellFoundedOn(OpToRel(<, Nat), Nat)
  BY NatLessThanWellFounded
<1>2. IsWellFoundedOn(NatOrder, Nat)
  BY <1>1 DEF OpToRel, NatOrder
<1>3. PICK m \in T : \A k \in T : ~ (<<k, m>> \in NatOrder)
  BY <1>2, WFMin
<1>4. ASSUME NEW k \in T PROVE m <= k
  <2>1. k \in Nat /\ m \in Nat
    OBVIOUS
  <2>2. <<k, m>> \in NatOrder <=> k < m
    BY <2>1 DEF NatOrder
  <2> QED BY <1>3, <2>1, <2>2
<1> QED BY <1>4

\* The fields between the moves of the anomalies: the first is the one the
\* spark left, each of the others is the one before with one anomaly moved.
InTurn(f, g, n) == g = [k \in 0 .. n |-> IF k = 0 THEN f ELSE MoveAnomaly(g[k - 1], k)]

\* There are such fields, for any number of anomalies.
LEMMA FieldsInTurn ==
  ASSUME NEW f, NEW n \in Nat
  PROVE  \E g : InTurn(f, g, n)
<1> DEFINE T == {m \in Nat : ~ \E g : InTurn(f, g, m)}
<1>1. CASE T = {}
  BY <1>1
<1>2. CASE T # {}
  <2>1. PICK m \in T : \A k \in T : m <= k
    <3>1. T \in SUBSET Nat
      OBVIOUS
    <3> HIDE DEF T
    <3> QED BY <1>2, <3>1, LeastNumber
  <2>2. m \in Nat /\ ~ \E g : InTurn(f, g, m)
    OBVIOUS
  <2>3. InTurn(f, [k \in 0 .. 0 |-> f], 0)
    BY DEF InTurn
  <2>4. m - 1 \in Nat /\ m # 0
    BY <2>2, <2>3
  <2>5. PICK g : InTurn(f, g, m - 1)
    <3>1. m - 1 \notin T
      <4> HIDE DEF T
      <4> QED BY <2>1, <2>2, <2>4
    <3> QED BY <2>4, <3>1
  <2> DEFINE h == [k \in 0 .. m |-> IF k = m THEN MoveAnomaly(g[m - 1], m) ELSE g[k]]
  <2>6. InTurn(f, h, m)
    <3>1. ASSUME NEW k \in 0 .. m
          PROVE  h[k] = IF k = 0 THEN f ELSE MoveAnomaly(h[k - 1], k)
      <4>1. CASE k = m
        <5>1. h[k] = MoveAnomaly(g[m - 1], m) /\ h[m - 1] = g[m - 1]
          BY <2>2, <2>4, <4>1
        <5> QED BY <2>4, <4>1, <5>1
      <4>2. CASE k = 0
        BY <2>2, <2>4, <2>5, <4>2 DEF InTurn
      <4>3. CASE k # m /\ k # 0
        <5>1. k \in 0 .. m - 1 /\ k - 1 \in 0 .. m - 1
          BY <2>2, <4>3
        <5>2. g[k] = MoveAnomaly(g[k - 1], k)
          BY <2>5, <4>3, <5>1 DEF InTurn
        <5>3. h[k] = g[k] /\ h[k - 1] = g[k - 1]
          BY <2>2, <4>3, <5>1
        <5> QED BY <4>3, <5>2, <5>3
      <4> QED BY <4>1, <4>2, <4>3
    <3> HIDE DEF T
    <3>2. h = [k \in 0 .. m |-> h[k]]
      OBVIOUS
    <3> DEFINE Moved(k) == IF k = 0 THEN f ELSE MoveAnomaly(h[k - 1], k)
    <3> HIDE DEF h
    <3>3. [k \in 0 .. m |-> h[k]] = [k \in 0 .. m |-> Moved(k)]
      BY <3>1
    <3> QED BY <3>2, <3>3 DEF InTurn
  <2> QED BY <2>2, <2>6
<1> QED BY <1>1, <1>2

\* MoveAnomalies is the last of them.
LEMMA AnomaliesInTurn ==
  ASSUME NEW f, Len(f.bodies) \in Nat
  PROVE  \E g : InTurn(f, g, Len(f.bodies)) /\ MoveAnomalies(f) = g[Len(f.bodies)]
<1> DEFINE n == Len(f.bodies)
           after == CHOOSE g : InTurn(f, g, n)
<1>1. InTurn(f, after, n)
  BY FieldsInTurn
<1>2. MoveAnomalies(f) = after[n]
  BY DEF MoveAnomalies, InTurn
<1> QED BY <1>1, <1>2

\* What a field must be for a tick to be of use: well typed, the anomalies in the
\* open field and what is captured walled off.
Sound(f) == Good(f) /\ Confined(f) /\ Sealed(f)

\* The field a stage begins with is sound.
LEMMA NewFieldSound == Sound(NewField)
<1>1. NewField.stab = {} /\ NewField.bodies = Bodies
  BY DEF NewField
<1>2. Confined(NewField) /\ Sealed(NewField)
  BY <1>1, ScenarioAssumption DEF Confined, Sealed, Open, CellOf
<1> QED BY <1>2, NewFieldGood DEF Sound

\* An input is set and nothing else: what is steered alike is alike.
LEMMA SetInputSound ==
  ASSUME NEW f, Sound(f), NEW i \in Inputs
  PROVE  /\ Sound(SetInput(f, i))
         /\ SetInput(f, i).tick = f.tick /\ SetInput(f, i).status = f.status
         /\ SetInput(f, i).drawing = f.drawing /\ SetInput(f, i).input = i
         /\ SetInput(f, i).release = (f.release /\ i.draw # "off")
<1>1. Good(SetInput(f, i))
  BY SetInputGood DEF Sound
<1>2. /\ SetInput(f, i).stab = f.stab /\ SetInput(f, i).walls = f.walls
      /\ SetInput(f, i).bodies = f.bodies
      /\ SetInput(f, i).tick = f.tick /\ SetInput(f, i).status = f.status
      /\ SetInput(f, i).drawing = f.drawing /\ SetInput(f, i).input = i
      /\ SetInput(f, i).release = (f.release /\ i.draw # "off")
  BY DEF SetInput, Sound, Good, Fields
<1>3. Confined(SetInput(f, i)) /\ Sealed(SetInput(f, i))
  BY <1>2 DEF Sound, Confined, Sealed, Open
<1> QED BY <1>1, <1>2, <1>3 DEF Sound

\* One anomaly after the other: the field stays sound and is disturbed at most by
\* a hit.
LEMMA MoveAnomaliesSound ==
  ASSUME NEW f, Sound(f)
  PROVE  Sound(MoveAnomalies(f)) /\ Disturbs(f, MoveAnomalies(f))
<1> DEFINE n == Len(f.bodies)
<1>1. n \in Nat /\ n = Len(Bodies)
  BY ScenarioAssumption DEF Sound, Good
<1>2. PICK g : InTurn(f, g, n) /\ MoveAnomalies(f) = g[n]
  BY <1>1, AnomaliesInTurn
<1> DEFINE Kept(k) == Sound(g[k]) /\ Disturbs(f, g[k])
           T == {k \in 0 .. n : ~Kept(k)}
<1>3. ASSUME T # {} PROVE FALSE
  <2>1. PICK m \in T : \A k \in T : m <= k
    <3>1. T \in SUBSET Nat
      BY <1>1
    <3> HIDE DEF T
    <3> QED BY <1>3, <3>1, LeastNumber
  <2>2. m \in 0 .. n /\ ~Kept(m)
    BY <2>1
  <2>3. CASE m = 0
    <3>1. g[m] = f
      BY <1>1, <1>2, <2>3 DEF InTurn
    <3> QED BY <2>2, <3>1 DEF Disturbs, Spared
  <2>4. CASE m # 0
    <3>1. m - 1 \in 0 .. n /\ m \in 1 .. n
      BY <1>1, <2>2, <2>4
    <3>2. Kept(m - 1)
      <4>1. m - 1 \notin T
        <5> HIDE DEF T
        <5> QED BY <1>1, <2>1, <2>2, <3>1
      <4> QED BY <3>1, <4>1
    <3>3. g[m] = MoveAnomaly(g[m - 1], m)
      BY <1>1, <1>2, <2>2, <2>4 DEF InTurn
    <3> DEFINE a == g[m - 1]
               b == g[m]
    <3>4. Sound(a) /\ Disturbs(f, a) /\ b = MoveAnomaly(a, m) /\ m \in 1 .. Len(Bodies)
      BY <1>1, <3>1, <3>2, <3>3
    <3> HIDE DEF a, b
    <3>5. CellOf(a.bodies[m].at) \in Open(a)
      BY <3>4 DEF Sound, Confined
    <3>6. /\ Good(b) /\ Disturbs(a, b)
          /\ CellOf(b.bodies[m].at) \in Open(a)
          /\ \A j \in 1 .. Len(Bodies) : j # m => b.bodies[j] = a.bodies[j]
      BY <3>4, <3>5, MoveAnomalyGood DEF Sound
    <3>7. Confined(b) /\ Sealed(b)
      BY <3>4, <3>6 DEF Sound, Confined, Sealed, Open, Disturbs
    <3>8. Disturbs(f, b)
      BY <3>4, <3>6, DisturbsTwice
    <3>9. Kept(m)
      BY <3>6, <3>7, <3>8 DEF Sound, b
    <3> QED BY <2>2, <3>9
  <2> QED BY <2>3, <2>4
<1>4. n \in 0 .. n
  BY <1>1
<1>5. Kept(n)
  BY <1>3, <1>4
<1> QED BY <1>2, <1>5

\* The end of a trace says so in the tick that asks for the button's release.
TraceEnded(f) == f.events \cap {"trace_completed", "trace_hit"} # {}
ReleaseIsTold(f) == f.release => TraceEnded(f)

\* What the spark does in its part of a tick: the count goes up by one, and only
\* a trace that ends asks for the release; at rest it does nothing else.
LEMMA SparkPhaseCounts ==
  ASSUME NEW f, Good(f)
  PROVE  LET g == SparkPhase(f)
         IN  /\ g.tick = f.tick + 1
             /\ ~f.release => ReleaseIsTold(g)
             /\ f.input.direction = "idle" =>
                  /\ g.input = f.input /\ g.drawing = f.drawing /\ g.release = f.release
<1> DEFINE g == OpenTick(f)
<1>1. Good(g)
  BY OpenTickGood
<1>2. /\ g.tick = f.tick + 1 /\ g.release = f.release /\ g.input = f.input
      /\ g.drawing = f.drawing
  BY DEF OpenTick, Good, Fields
<1> HIDE DEF g
<1>3. CASE Stays(g)
  BY <1>2, <1>3 DEF SparkPhase, MoveSpark, ReleaseIsTold, g
<1>4. CASE ~Stays(g) /\ Slides(g)
  <2> DEFINE h == [g EXCEPT !.pos = Target(g), !.heading = g.input.direction]
  <2>1. h.tick = g.tick /\ h.release = g.release
    BY <1>1 DEF Good, Fields
  <2>2. MoveSpark(g) = h
    BY <1>4 DEF MoveSpark
  <2> HIDE DEF h
  <2>3. ~Stays(g) => g.input.direction # "idle"
    BY DEF Stays
  <2> QED BY <1>2, <1>4, <2>1, <2>2, <2>3 DEF SparkPhase, ReleaseIsTold, g
<1>5. CASE ~Stays(g) /\ ~Slides(g) /\ Cuts(g)
  <2> DEFINE h == ExtendTrace(g)
             c == CompleteTrace(h)
  <2>1. Good(h) /\ h.tick = g.tick /\ h.release = g.release
    BY <1>1, <1>5, ExtendTraceGood DEF ExtendTrace, Good, Fields
  <2> HIDE DEF h
  <2>2. c.tick = h.tick /\ "trace_completed" \in c.events
    BY <2>1 DEF CompleteTrace, Good, Fields
  <2>3. ReleaseIsTold(c)
    BY <2>2 DEF ReleaseIsTold, TraceEnded
  <2> HIDE DEF c
  <2>4. MoveSpark(g) = c \/ MoveSpark(g) = h
    BY <1>5 DEF MoveSpark, c, h
  <2>5. ~Stays(g) => g.input.direction # "idle"
    BY DEF Stays
  <2> QED BY <1>2, <1>5, <2>1, <2>2, <2>3, <2>4, <2>5 DEF SparkPhase, ReleaseIsTold, g
<1>6. CASE ~Stays(g) /\ ~Slides(g) /\ ~Cuts(g)
  BY <1>2, <1>6 DEF SparkPhase, MoveSpark, ReleaseIsTold, g
<1> QED BY <1>3, <1>4, <1>5, <1>6

\* A tick of a running field: sound again, one further, and a release is asked
\* for only by the end of a trace it reports; a field that nobody steers and
\* that draws nothing goes on so.
LEMMA StepSound ==
  ASSUME NEW f, Sound(f), f.status = "running"
  PROVE  LET g == Step(f)
         IN  /\ Sound(g) /\ g.tick = f.tick + 1
             /\ ~f.release => ReleaseIsTold(g)
             /\ f.input = Idle /\ ~f.drawing /\ ~f.release =>
                  g.input = Idle /\ ~g.drawing /\ ~g.release
<1> DEFINE s == SparkPhase(f)
           a == MoveAnomalies(s)
           g == Judge(a)
<1>1. Sound(s)
  BY SparkPhaseGood, SparkPhaseSafe DEF Sound
<1>2. /\ s.tick = f.tick + 1 /\ (~f.release => ReleaseIsTold(s))
      /\ f.input = Idle => s.input = f.input /\ s.drawing = f.drawing /\ s.release = f.release
  BY SparkPhaseCounts DEF Sound, Idle
<1> HIDE DEF s
<1>3. Sound(a) /\ Disturbs(s, a)
  BY <1>1, MoveAnomaliesSound
<1> HIDE DEF a
<1>4. /\ Good(g) /\ g.bodies = a.bodies /\ g.stab = a.stab /\ g.walls = a.walls
      /\ g.tick = a.tick /\ g.release = a.release /\ g.events = a.events /\ g.input = a.input
      /\ g.drawing = a.drawing
  BY <1>3, JudgeGood DEF Sound
<1>5. Step(f) = g
  BY DEF Step, g, a, s
<1> HIDE DEF g
<1>6. Sound(g)
  BY <1>3, <1>4 DEF Sound, Confined, Sealed, Open
<1>7. g.tick = f.tick + 1
  BY <1>2, <1>3, <1>4 DEF Disturbs
<1>8. ~f.release => ReleaseIsTold(g)
  <2>1. CASE Spared(s, a)
    BY <1>2, <1>4, <2>1 DEF Spared, ReleaseIsTold, TraceEnded
  <2>2. CASE Severed(s, a)
    BY <1>4, <2>2 DEF Severed, ReleaseIsTold, TraceEnded
  <2> QED BY <1>3, <2>1, <2>2 DEF Disturbs
<1>9. f.input = Idle /\ ~f.drawing /\ ~f.release => g.input = Idle /\ ~g.drawing /\ ~g.release
  BY <1>2, <1>3, <1>4 DEF Disturbs, Spared, Severed
<1> QED BY <1>5, <1>6, <1>7, <1>8, <1>9

\* A field that is over takes a step without events and otherwise stays as it is.
LEMMA StepOver ==
  ASSUME NEW f, Sound(f), f.status # "running"
  PROVE  Sound(Step(f)) /\ Step(f) = [f EXCEPT !.events = {}]
<1> DEFINE g == [f EXCEPT !.events = {}]
<1>1. Good(g) /\ g.bodies = f.bodies /\ g.stab = f.stab /\ g.walls = f.walls
  BY DEF Sound, Good, StartIsKnown, Fields
<1>2. Sound(g)
  BY <1>1 DEF Sound, Confined, Sealed, Open
<1> QED BY <1>2 DEF Step
=============================================================================
