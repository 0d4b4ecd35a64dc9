--------------------------- MODULE PartitionField ---------------------------
(***************************************************************************)
(* One Partition field under any input: PartitionEngine driven by whoever  *)
(* calls setInput between two steps.                                       *)
(*                                                                         *)
(* A step is taken one anomaly at a time, `at' being the place reached in  *)
(* it: 0 between two steps, k before anomaly k moves, and one past the     *)
(* last anomaly before the verdict.  Nothing but the step acts in between. *)
(***************************************************************************)
EXTENDS PartitionRules

CONSTANT MaxTicks      \* bound on the length of an untimed field
ASSUME MaxTicksAssumption == MaxTicks \in Nat

VARIABLES field, at
vars == <<field, at>>

Init == field = NewField /\ at = 0

Steer ==
  /\ at = 0 /\ field.status = "running"
  /\ \E i \in Inputs : field' = SetInput(field, i)
  /\ UNCHANGED at

StepSpark ==
  /\ at = 0 /\ field.status = "running" /\ field.tick < MaxTicks
  /\ field' = SparkPhase(field)
  /\ at' = 1

StepAnomaly ==
  /\ at \in 1 .. Len(Bodies)
  /\ field' = MoveAnomaly(field, at)
  /\ at' = at + 1

StepVerdict ==
  /\ at = Len(Bodies) + 1
  /\ field' = Judge(field)
  /\ at' = 0

Next == Steer \/ StepSpark \/ StepAnomaly \/ StepVerdict
Spec == Init /\ [][Next]_vars

-----------------------------------------------------------------------------
(* Properties                                                              *)

\* The types of the state.
TypeOK ==
  /\ field \in Fields /\ Len(field.bodies) = Len(Bodies)
  /\ at \in 0 .. Len(Bodies) + 1

\* No anomaly is ever outside the open field: not off the board, not in a
\* blocked cell, and above all not in a cell a capture has stabilized.
AnomaliesAreConfined ==
  \A k \in 1 .. Len(field.bodies) : CellOf(field.bodies[k].at) \in Open(field)

\* A stabilized cell never borders an open cell without a wall between them:
\* what was captured is walled off from everything the anomalies can reach.
CapturesAreSealed ==
  \A c \in field.stab, d \in Open(field) : ~Joined(c, d, field.walls)

\* The anomalies and the captured field stay apart: no anomaly outside the open
\* field, and a wall on every border of what has been captured.
FieldIsSealed == AnomaliesAreConfined /\ CapturesAreSealed

\* While the spark draws, its trace is a simple path from a point of a wall to
\* the spark, and meets no wall on its way; while it does not draw there is no
\* trace and the spark stands on a wall, also after a hit sent it back.
TracePoints == UNION field.trace
TraceIsAnOpenCut ==
  LET walled == UNION field.walls
  IN  IF field.drawing
      THEN /\ field.start \in walled /\ field.pos \notin walled
           /\ {field.start, field.pos} \subseteq TracePoints
           /\ TracePoints \cap walled = {field.start}
           /\ Cardinality(TracePoints) = Cardinality(field.trace) + 1
           /\ \A p \in TracePoints :
                Cardinality({e \in field.trace : p \in e})
                  = IF p \in {field.start, field.pos} THEN 1 ELSE 2
      ELSE field.trace = {} /\ field.start = NoPoint /\ field.pos \in walled

\* The first verdict of a field stands: a field won on its last tick or with a
\* last life in danger is not turned into a loss by the rest of the same step,
\* and a field that is over takes no further damage.
FirstVerdictStands ==
  [][field.status # "running" =>
       /\ field'.status = field.status /\ field'.reason = field.reason
       /\ field'.integrity = field.integrity]_vars
=============================================================================
