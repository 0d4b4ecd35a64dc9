--------------------------- MODULE MaltlineProof ----------------------------
(* The inputs-only proof of a Maltline run and its two verifiers: the one  *)
(* of ranked play (proof.ts) and the one of the cabinet (cabinet-proof.ts).*)
(* The engine is an operator of what it was fed: what becomes of a stage   *)
(* with so many lives after so many inputs.  A proof's stage is its number.*)
EXTENDS Integers, Sequences, SequencesExt

CONSTANTS
  PfStages,           \* stages of the campaign
  PfLives,            \* lives at the start of a run
  PfMaxRuns, PfMaxStageTicks, PfMaxTotalTicks,    \* the resource limits
  PfOutcome(_, _, _)  \* [status, lives] of a stage, from its lives and inputs

Fresh(stage, lives) == [stage |-> stage, lives |-> lives, fed |-> <<>>]
Outcome(engine) == PfOutcome(engine.stage, engine.lives, engine.fed)
\* setInput and step, n times; and for a list of runs.
Fed(engine, input, n) == [engine EXCEPT !.fed = @ \o [i \in 1..n |-> input]]
Expanded(runs) ==
  LET fed[n \in 0..Len(runs)] ==
        IF n = 0 THEN <<>> ELSE fed[n - 1] \o [i \in 1..runs[n].ticks |-> runs[n].input]
  IN fed[Len(runs)]
FedRuns(engine, runs) == [engine EXCEPT !.fed = @ \o Expanded(runs)]

AppendRun(runs, run) ==
  IF runs # <<>> /\ Last(runs).input = run.input
  THEN [runs EXCEPT ![Len(runs)].ticks = @ + run.ticks] ELSE Append(runs, run)

EncodeRuns(inputs) ==
  LET runs[n \in 0..Len(inputs)] ==
        IF n = 0 THEN <<>> ELSE AppendRun(runs[n - 1], [input |-> inputs[n], ticks |-> 1])
  IN runs[Len(inputs)]

-----------------------------------------------------------------------------
(* The ranked verifier: one pass, stage by stage and run by run.           *)

Begun == [ok |-> TRUE, engine |-> Fresh(0, PfLives), last |-> "none", stages |-> <<>>, runs |-> 0,
          ticks |-> 0, cleared |-> 0, lives |-> PfLives, canonical |-> <<>>]
Reject(v) == [v EXCEPT !.ok = FALSE]

\* Mutant of VerifyRun: the tick after the end is let through.
VerifyRunOneOver(v, run) ==
  IF \/ ~v.ok \/ run.ticks \notin 1..PfMaxStageTicks
     \/ Len(v.engine.fed) + run.ticks > PfMaxStageTicks \/ v.ticks + run.ticks > PfMaxTotalTicks
     \/ \E n \in 0..(run.ticks - 2) : Outcome(Fed(v.engine, run.input, n)).status # "running"
  THEN Reject(v)
  ELSE [v EXCEPT !.engine = Fed(v.engine, run.input, run.ticks), !.ticks = @ + run.ticks,
                 !.canonical = AppendRun(@, run)]

VerifyRun(v, run) ==
  IF \/ ~v.ok \/ run.ticks \notin 1..PfMaxStageTicks
     \/ Len(v.engine.fed) + run.ticks > PfMaxStageTicks \/ v.ticks + run.ticks > PfMaxTotalTicks
     \/ \E n \in 0..(run.ticks - 1) : Outcome(Fed(v.engine, run.input, n)).status # "running"
  THEN Reject(v)
  ELSE [v EXCEPT !.engine = Fed(v.engine, run.input, run.ticks), !.ticks = @ + run.ticks,
                 !.canonical = AppendRun(@, run)]

\* The runs of a stage before anything is said of the stage itself.
Entered(v, runs) ==
  [v EXCEPT !.engine = Fresh(Len(v.stages) + 1, v.lives), !.canonical = <<>>, !.runs = @ + Len(runs)]
VerifyRuns(v, runs) ==
  LET w[n \in 0..Len(runs)] == IF n = 0 THEN v ELSE VerifyRun(w[n - 1], runs[n]) IN w[Len(runs)]

\* ... and after: w is what they gave, end what became of the stage.
VerifyEnd(v, stage, w, end) ==
  IF \/ ~v.ok \/ v.last = "lost" \/ stage.id # Len(v.stages) + 1
     \/ Len(stage.runs) \notin 1..PfMaxRuns \/ w.runs > PfMaxRuns
     \/ ~w.ok \/ end.status = "running"
  THEN Reject(v)
  ELSE [w EXCEPT !.stages = Append(@, [id |-> stage.id, runs |-> w.canonical]), !.last = end.status,
                 !.cleared = IF end.status = "won" THEN @ + 1 ELSE @, !.lives = end.lives]

VerifyStage(v, stage) ==
  LET w == VerifyRuns(Entered(v, stage.runs), stage.runs) IN VerifyEnd(v, stage, w, Outcome(w.engine))

Refusal == [ok |-> FALSE]
Verdict(v) ==
  IF ~v.ok \/ (v.last = "won" /\ Len(v.stages) < PfStages) THEN Refusal
  ELSE [ok |-> TRUE, proof |-> v.stages,
        summary |-> [lives |-> v.lives, reached |-> Len(v.stages), cleared |-> v.cleared,
                     completed |-> v.last = "won", ticks |-> v.ticks]]
VerifyStages(begun, proof) ==
  LET v[n \in 0..Len(proof)] == IF n = 0 THEN begun ELSE VerifyStage(v[n - 1], proof[n]) IN v[Len(proof)]
Verified(proof) ==
  IF Len(proof) \notin 1..PfStages THEN Refusal ELSE Verdict(VerifyStages(Begun, proof))

-----------------------------------------------------------------------------
(* The cabinet's verifier: first the form and the limits, then the engine. *)

ParseRun(v, run) ==
  IF \/ run.ticks < 1 \/ v.stageTicks + run.ticks > PfMaxStageTicks
     \/ v.ticks + run.ticks > PfMaxTotalTicks \/ v.runs + 1 > PfMaxRuns
  THEN Reject(v)
  ELSE [v EXCEPT !.stageTicks = @ + run.ticks, !.ticks = @ + run.ticks, !.runs = @ + 1,
                 !.canonical = AppendRun(@, run)]

ParseRuns(v, runs) ==
  LET w[n \in 0..Len(runs)] == IF n = 0 THEN v ELSE ParseRun(w[n - 1], runs[n]) IN w[Len(runs)]

ParseStage(v, stage) ==
  LET w == ParseRuns([v EXCEPT !.stageTicks = 0, !.canonical = <<>>], stage.runs)
      i == Len(v.stages) + 1
  IN IF i > PfStages \/ stage.id # i \/ Len(stage.runs) \notin 1..PfMaxRuns THEN Reject(v)
     ELSE [w EXCEPT !.stages = Append(@, [id |-> i, runs |-> w.canonical])]

ParseStages(begun, proof) ==
  LET v[n \in 0..Len(proof)] == IF n = 0 THEN begun ELSE ParseStage(v[n - 1], proof[n]) IN v[Len(proof)]
Parsed(proof) ==
  ParseStages([ok |-> Len(proof) >= 1, stages |-> <<>>, stageTicks |-> 0, ticks |-> 0, runs |-> 0,
               canonical |-> <<>>], proof)

\* One stage of a parsed proof: the engine that was fed all of it, what
\* became of it, and whether the stage was to be the last.
ExecuteStage(v, end, o, isLast) ==
  IF \/ ~v.ok \/ o.status = "running" \/ (o.status = "lost" /\ ~isLast)
     \/ \E n \in 0..(Len(end.fed) - 1) :
          Outcome([end EXCEPT !.fed = SubSeq(@, 1, n)]).status # "running"
  THEN Reject(v)
  ELSE [v EXCEPT !.lives = o.lives, !.reached = @ + 1, !.ticks = @ + Len(end.fed),
                 !.cleared = IF o.status = "won" THEN @ + 1 ELSE @, !.finals = Append(@, o)]

ExecuteNext(v, stage, isLast) ==
  LET end == FedRuns(Fresh(stage.id, v.lives), stage.runs)
  IN ExecuteStage(v, end, Outcome(end), isLast)
ExecuteStages(begun, stages, last) ==
  LET v[n \in 0..Len(stages)] ==
        IF n = 0 THEN begun ELSE ExecuteNext(v[n - 1], stages[n], stages[n].id = last)
  IN v[Len(stages)]

\* The whole of it: the verdict on `stages`, from what the last one left.
ExecuteEnd(v, stages) ==
  IF ~v.ok \/ (Last(v.finals).status = "won" /\ Len(stages) # PfStages) THEN Refusal
  ELSE [ok |-> TRUE, proof |-> stages, finals |-> v.finals,
        summary |-> [lives |-> v.lives, reached |-> v.reached, cleared |-> v.cleared,
                     completed |-> Len(stages) = PfStages /\ Last(v.finals).status = "won",
                     ticks |-> v.ticks]]

Executed(stages) ==
  ExecuteEnd(ExecuteStages([ok |-> TRUE, lives |-> PfLives, reached |-> 0, cleared |-> 0, ticks |-> 0,
                            finals |-> <<>>], stages, Len(stages)), stages)

\* verify: what is parsed is executed.
ExecutedIf(parsed) == IF parsed.ok THEN Executed(parsed.stages) ELSE Refusal
Envelope(e) == IF e.ok THEN [ok |-> TRUE, proof |-> e.proof, summary |-> e.summary] ELSE Refusal
CabinetVerified(proof) == Envelope(ExecutedIf(Parsed(proof)))

\* buildMaltlineCabinetProof: the proof of recorded stages, each with the
\* inputs taken, the lives it began with and the state it ended in.
EncodedStages(replays) ==
  [i \in DOMAIN replays |-> [id |-> i, runs |-> EncodeRuns(replays[i].inputs)]]
Carried(e, i) == IF i = 1 THEN PfLives ELSE e.finals[i - 1].lives
BuiltFrom(replays, e) ==
  IF \/ Len(replays) \notin 1..PfStages \/ ~e.ok
     \/ \E i \in DOMAIN replays : replays[i].lives # Carried(e, i) \/ replays[i].final # e.finals[i]
  THEN Refusal ELSE [ok |-> TRUE, proof |-> e.proof]
CabinetBuilt(replays) == BuiltFrom(replays, ExecutedIf(Parsed(EncodedStages(replays))))
=============================================================================
