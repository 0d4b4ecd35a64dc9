-------------------------- MODULE PartitionReplay ---------------------------
(***************************************************************************)
(* core/replay.ts: the re-simulation of recorded ticks.                    *)
(*                                                                         *)
(* Replaying is a fold over the records, so a recorder and the replay of   *)
(* what it has recorded can be kept in step: a replica is the state of the *)
(* replay after the ticks so far, and whether it accepted all of them.     *)
(***************************************************************************)
EXTENDS PartitionRules

Running(f) == f.status = "running"
NewReplay == [field |-> NewField, version |-> 0, ok |-> TRUE]

\* One more record: a tick out of line or events that
\* differ reject the replay, and a rejected replay goes no further.
Accepted(r, next, tick, events) == r.ok /\ tick = r.field.tick + 1 /\ next.events = events
Replayed(r, next, tick, v, events) ==
  IF Accepted(r, next, tick, events) THEN [field |-> next, version |-> v, ok |-> TRUE]
                                     ELSE [r EXCEPT !.ok = FALSE]
ReplayTick(r, tick, input, v, events) == Replayed(r, Step(SetInput(r.field, input)), tick, v, events)

\* What a snapshot shows of a field under the v-th controller, all of which the
\* recorded final state must match.
Shown(f, v) == <<v, f.tick, f.status, f.reason, f.input, f.pos, f.heading, f.drawing,
                 f.integrity, f.trace, f.walls, f.stab, f.bodies>>
Matches(r, f, v) == r.ok /\ Shown(r.field, r.version) = Shown(f, v)
=============================================================================
