----------------------------- MODULE LabSession ------------------------------
(***************************************************************************)
(* The record of a Maltline playtest (games/maltline/src/experiments/      *)
(* human-lab-session.ts and human-lab-timing.ts): a reducer that builds it *)
(* event by event, a ledger of the time played and interrupted, and the    *)
(* strict boundary at the end that judges the whole artifact anew.         *)
(* Each operator is a legality test or the state after a legal event: the  *)
(* code throws where the test fails.  Candidates, consent, scenario ids    *)
(* and survey texts are left out, the three reasons a life is lost for are *)
(* counted together, and time is whole units.                              *)
(***************************************************************************)
EXTENDS Totals, SequencesExt, FiniteSetsExt

CONSTANTS
  LabPractice,      \* stages of practice: 3 in the code
  LabLast,          \* the last stage of a round: 7 in the code
  LabLives,         \* lives of a fresh run: 4 in the code
  LabInterruptions  \* interruptions a timing state can hold: 1024 in the code

ASSUME LabAssumption ==
  /\ LabPractice \in Nat \ {0} /\ LabLast \in Nat /\ LabLast > LabPractice
  /\ LabLives \in Nat \ {0} /\ LabInterruptions \in Nat

LabFirst == LabPractice + 1
FreshRun == [lives |-> LabLives, score |-> 0]
LabPlay == {"practice", "round1", "round2"}

LabNewSession(mode) ==
  [phase |-> "welcome", mode |-> mode, stage |-> 0, run |-> FreshRun, ticks |-> 0, inputs |-> 0,
   pending |-> 0, practice |-> <<>>, rounds |-> <<>>, frozen |-> FALSE]
StartStage(s, phase, stage, run) ==
  [s EXCEPT !.phase = phase, !.stage = stage, !.run = run, !.ticks = 0, !.inputs = 0, !.pending = 0]
Resting(s) == [s EXCEPT !.stage = 0, !.run = FreshRun, !.ticks = 0, !.inputs = 0, !.pending = 0]
NewRound == [exposure |-> "pending", initial |-> FreshRun, stages |-> <<>>, pulses |-> <<>>]
Exposure(highest) ==
  IF highest = LabFirst THEN "none" ELSE IF highest = LabLast THEN "full" ELSE "partial"

ConsentLegal(s) == s.phase = "welcome"
Consent(s) == StartStage(s, "practice", 1, FreshRun)

LabTickLegal(s, stage) == s.phase \in LabPlay /\ stage = s.stage
LabTick(s) == [s EXCEPT !.ticks = @ + 1, !.inputs = @ + 1]

\* normalizeStage: what one stage of the record must say to be believed.
StageOk(mode, r, first, last) ==
  /\ r.stage \in first .. last
  /\ mode = "human" => r.observed = "engine"
  /\ r.score >= r.start.score /\ r.score - r.start.score = r.delta
  /\ r.lives <= r.start.lives /\ (r.status = "lost" <=> r.lives = 0)
  /\ r.observed = "engine" => r.start.lives - r.lives = r.losses

\* The record a terminal event e makes of the stage on play.
StageRecord(s, e) ==
  [stage |-> s.stage, status |-> e.status, observed |-> e.observed, start |-> s.run, ticks |-> s.ticks,
   inputs |-> s.inputs, score |-> e.score, delta |-> e.delta, lives |-> e.lives, losses |-> e.losses]
TerminalLegal(s, stage, e) ==
  /\ s.phase \in LabPlay /\ stage = s.stage
  /\ IF s.phase = "practice" THEN StageOk(s.mode, StageRecord(s, e), 1, LabPractice)
     ELSE StageOk(s.mode, StageRecord(s, e), LabFirst, LabLast)
\* A practice that is lost ends practice; a round's stage waits for its pulse.
StageTerminal(s, e) ==
  IF s.phase = "practice"
  THEN LET told == [s EXCEPT !.practice = Append(@, StageRecord(s, e))]
       IN  IF e.status = "won" /\ s.stage < LabPractice
           THEN StartStage(told, "practice", s.stage + 1, [lives |-> e.lives, score |-> e.score])
           ELSE StartStage([told EXCEPT !.rounds = <<NewRound>>], "round1", LabFirst, FreshRun)
  ELSE LET n == IF s.phase = "round1" THEN 1 ELSE 2
       IN  [Resting([s EXCEPT !.rounds[n].stages = Append(@, StageRecord(s, e))])
              EXCEPT !.phase = "stage-pulse", !.pending = n]

PulseOk(p, r) == p.stage = r.stage /\ p.status = r.status
PulseLegal(s, n, p) ==
  /\ s.phase = "stage-pulse" /\ s.pending = n
  /\ Len(s.rounds[n].pulses) = Len(s.rounds[n].stages) - 1
  /\ PulseOk(p, Last(s.rounds[n].stages))
FinishRound(s, n) ==
  [Resting([s EXCEPT !.rounds[n].exposure = Exposure(Last(s.rounds[n].stages).stage)])
     EXCEPT !.phase = IF n = 1 THEN "intermission" ELSE "comparison"]
Pulse(s, n, p) ==
  LET told == [s EXCEPT !.rounds[n].pulses = Append(@, p)]
      last == Last(s.rounds[n].stages)
  IN  IF last.status = "won" /\ last.stage < LabLast
      THEN StartStage(told, IF n = 1 THEN "round1" ELSE "round2", last.stage + 1,
                      [lives |-> last.lives, score |-> last.score])
      ELSE FinishRound(told, n)

RoundTwoLegal(s) == s.phase = "intermission"
BeginRoundTwo(s) == StartStage([s EXCEPT !.rounds = Append(@, NewRound)], "round2", LabFirst, FreshRun)

-----------------------------------------------------------------------------
\* human-lab-timing.ts: active is counted up to `at`; an open interruption has
\* its start and what was paused before it, and done holds those that ended.
NoInterruption == [from |-> -1, before |-> 0]
NewTiming(now) ==
  [origin |-> now, at |-> now, active |-> FALSE, play |-> 0, paused |-> 0, done |-> <<>>, open |-> NoInterruption]
IsOpen(t) == t.open # NoInterruption
Accrued(t, now) == IF t.active THEN t.play + (now - t.at) ELSE t.play

SetActiveLegal(t) == ~IsOpen(t)
SetActive(t, now, on) == [t EXCEPT !.at = now, !.active = on, !.play = Accrued(t, now)]
PauseLegal(t) == IsOpen(t) \/ Len(t.done) < LabInterruptions
Pause(t, now) ==
  IF IsOpen(t) THEN [t EXCEPT !.at = now, !.active = FALSE, !.paused = t.open.before + (now - t.open.from)]
  ELSE [t EXCEPT !.at = now, !.active = FALSE, !.play = Accrued(t, now),
                 !.open = [from |-> now, before |-> t.paused]]
ResumeLegal(t) == IsOpen(t)
Resume(t, now, on) ==
  [t EXCEPT !.at = now, !.active = on, !.paused = t.open.before + (now - t.open.from),
            !.done = Append(@, [from |-> t.open.from, for |-> now - t.open.from]), !.open = NoInterruption]

Ordered(done, from, upto) ==
  \A k \in 1 .. Len(done) :
    /\ done[k].for >= 0 /\ done[k].from + done[k].for <= upto
    /\ done[k].from >= IF k = 1 THEN from ELSE done[k - 1].from + done[k - 1].for
PausedIn(done) == Total([k \in DOMAIN done |-> done[k].for])
\* normalizeP108HumanLabTimingState, which every event of the ledger passes.
TimingOk(t) ==
  /\ t.at >= t.origin /\ Len(t.done) <= LabInterruptions /\ Ordered(t.done, t.origin, t.at)
  /\ IF IsOpen(t)
     THEN /\ t.open.from <= t.at /\ t.open.before = PausedIn(t.done)
          /\ t.done # <<>> => t.open.from >= Last(t.done).from + Last(t.done).for
          /\ t.paused = t.open.before + (t.at - t.open.from) /\ ~t.active
     ELSE t.paused = PausedIn(t.done)
\* snapshotP108HumanLabTiming and the boundary its result passes.
SnapshotOk(t, now) ==
  /\ now >= t.at /\ ~IsOpen(t)
  /\ Ordered([k \in 1 .. Len(t.done) |-> [t.done[k] EXCEPT !.from = @ - t.origin]], 0, now - t.origin)
  /\ t.paused = PausedIn(t.done) /\ Accrued(t, now) + t.paused <= now - t.origin

-----------------------------------------------------------------------------
\* Stages follow one another from the first, each goes on with what the one
\* before left and only the last may be lost.
Chained(stages, first) ==
  /\ \A k \in 1 .. Len(stages) : stages[k].stage = first + k - 1 /\ stages[k].inputs = stages[k].ticks
  /\ stages[1].start = FreshRun
  /\ \A k \in 2 .. Len(stages) :
       /\ stages[k - 1].status = "won"
       /\ stages[k].start = [lives |-> stages[k - 1].lives, score |-> stages[k - 1].score]

PracticeOk(s) ==
  /\ Len(s.practice) \in 1 .. LabPractice
  /\ \A r \in Range(s.practice) : StageOk(s.mode, r, 1, LabPractice)
  /\ Chained(s.practice, 1)
  /\ Last(s.practice).status = "won" => Last(s.practice).stage = LabPractice

RoundOk(s, n) ==
  LET round == s.rounds[n]
  IN  /\ round.initial = FreshRun /\ Len(round.stages) \in 1 .. LabLast - LabPractice
      /\ \A r \in Range(round.stages) : StageOk(s.mode, r, LabFirst, LabLast)
      /\ Len(round.pulses) = Len(round.stages)
      /\ \A k \in 1 .. Len(round.stages) : PulseOk(round.pulses[k], round.stages[k])
      /\ Chained(round.stages, LabFirst)
      /\ round.exposure = Exposure(Last(round.stages).stage)
      /\ Last(round.stages).status = "won" => Last(round.stages).stage = LabLast

\* normalizeP108HumanLabArtifact: also, what an engine was seen to play took time.
ArtifactOk(s) ==
  /\ PracticeOk(s) /\ Len(s.rounds) = 2 /\ RoundOk(s, 1) /\ RoundOk(s, 2)
  /\ \A r \in Range(s.practice \o s.rounds[1].stages \o s.rounds[2].stages) :
       r.observed = "engine" => r.ticks > 0

FreezeLegal(s, t, now) == s.phase = "comparison" /\ Len(s.rounds) = 2 /\ SnapshotOk(t, now) /\ ArtifactOk(s)
Freeze(s) == [s EXCEPT !.phase = "frozen", !.frozen = TRUE]
Debrief(s) == [s EXCEPT !.phase = "debrief"]
=============================================================================
