--------------------------- MODULE MaltlineReplay ---------------------------
(* A run of Maltline from the play to the replay somebody watches.  The    *)
(* ranked recorder takes down every tick; a proof, the recorded one or     *)
(* another, is verified and kept; the kept envelope is verified again when *)
(* it is opened; a cursor simulates it once more (playback.ts), one engine *)
(* going forward as long as it can, and the scrubber (replay-scrubber.ts)  *)
(* plays, drags and jumps over that cursor.                                *)
EXTENDS MaltlineProof, Totals, FiniteSets

CONSTANTS
  RpInputs,           \* what the controls can say in a tick
  RpHistory,          \* ticks the picture depends on (PRESENTATION_HISTORY_MS)
  RpMaxSteps,         \* MAXIMUM_TICKS_PER_FRAME
  RpSpeeds,           \* speeds, in half ticks for a unit of time
  RpMaxElapsed,       \* longest time between two frames
  RpMaxBacklog,       \* bound: half ticks the scrubber may be behind
  RpNone

\* What the engine makes of a stage within the limit: begun with a life it
\* runs, and won it leaves one (engine.ts: loseLife, checkStageCleared).
RpAssumption ==
  /\ {PfStages, PfLives, RpHistory} \subseteq Nat \ {0}
  /\ {PfMaxRuns, PfMaxStageTicks, PfMaxTotalTicks, RpMaxSteps, RpMaxElapsed, RpMaxBacklog} \subseteq Nat
  /\ RpSpeeds \subseteq Nat /\ RpSpeeds # {} /\ RpNone \notin [tick : Nat, stage : Nat]
  /\ \A stage \in 1..PfStages, lives \in 1..PfLives, n \in 0..PfMaxStageTicks : \A fed \in [1..n -> RpInputs] :
       LET o == PfOutcome(stage, lives, fed)
       IN /\ o \in [status : {"running", "won", "lost"}, lives : 0..PfLives]
          /\ (n = 0 => o.status = "running") /\ (o.status = "won" => o.lives # 0)
ASSUME RpAssumption

VARIABLES
  rp,        \* the run: phase, engine being played, inputs taken, completed stages
  rpKept,    \* the retained envelope: proof and summary
  rpSources, \* the playback's stages
  rpCursor,  \* the playback's cursor: where its engine is
  rpView     \* the scrubber

rpVars == <<rp, rpKept, rpSources, rpCursor, rpView>>

RpInit ==
  /\ rp = [phase |-> "play", engine |-> Fresh(1, PfLives), inputs |-> <<>>, done |-> <<>>]
  /\ rpKept = RpNone /\ rpSources = <<>> /\ rpCursor = RpNone /\ rpView = RpNone

-----------------------------------------------------------------------------
(* The play and the recorder.                                              *)

\* completeStage: what the recorder has, if the engine ran as many ticks.
Record(engine, inputs) ==
  [lives |-> engine.lives, inputs |-> inputs, final |-> Outcome(engine)]

RpPlayTick(input) ==
  /\ rp.phase = "play"
  /\ \E engine \in {Fed(rp.engine, input, 1)}, taken \in {Append(rp.inputs, input)} :
     \E end \in {Outcome(engine)}, done \in {Append(rp.done, Record(engine, taken))} :
       rp' = IF end.status = "running" THEN [rp EXCEPT !.engine = engine, !.inputs = taken]
             ELSE [rp EXCEPT !.done = done, !.inputs = <<>>, !.engine = Fresh(Len(done) + 1, end.lives),
                     !.phase = IF end.status = "lost" \/ Len(done) = PfStages THEN "played" ELSE "play"]
  /\ UNCHANGED <<rpKept, rpSources, rpCursor, rpView>>

\* finalizeProof.
Finalized(done) == EncodedStages(done)

-----------------------------------------------------------------------------
(* What may be submitted in the place of the recorded proof, or put in the *)
(* place of the kept one.                                                  *)

WithRuns(proof, i, runs) == [proof EXCEPT ![i].runs = runs]
SplitAt(runs, k) ==
  SubSeq(runs, 1, k - 1) \o << [runs[k] EXCEPT !.ticks = 1], [runs[k] EXCEPT !.ticks = @ - 1] >>
    \o SubSeq(runs, k + 1, Len(runs))
Longer(proof) ==
  LET runs == Last(proof).runs IN WithRuns(proof, Len(proof), [runs EXCEPT ![Len(runs)].ticks = @ + 1])
Shorter(proof) ==
  LET runs == Last(proof).runs IN WithRuns(proof, Len(proof), [runs EXCEPT ![Len(runs)].ticks = @ - 1])

OtherProofs(proof) ==
  {Longer(proof), Shorter(proof), Front(proof), Append(proof, Last(proof)), Tail(proof)}
  \cup {WithRuns(proof, i, SplitAt(proof[i].runs, 1)) : i \in DOMAIN proof}

RpSubmit(proof) ==
  /\ rp.phase = "played"
  /\ \E v \in {Verified(proof)} :
       /\ rp' = [rp EXCEPT !.phase = IF v.ok THEN "kept" ELSE "refused"]
       /\ rpKept' = IF v.ok THEN [proof |-> v.proof, summary |-> v.summary] ELSE rpKept
  /\ UNCHANGED <<rpSources, rpCursor, rpView>>

-----------------------------------------------------------------------------
(* The playback.                                                           *)

StageInputs(runs) ==
  [inputs |-> [k \in DOMAIN runs |-> runs[k].input],
   ends |-> [k \in DOMAIN runs |-> Total([j \in 1..k |-> runs[j].ticks])]]

\* The input of a tick, by bisection of the ends of the runs: one turn of
\* the loop, which has come to its end after as many as there are runs.
Halved(source, tick, at) ==
  LET middle == at.low + (at.high - at.low) \div 2
  IN IF at.low >= at.high THEN at
     ELSE IF source.ends[middle] < tick THEN [at EXCEPT !.low = middle + 1] ELSE [at EXCEPT !.high = middle]
Searched(source, tick, n) ==
  LET at[k \in 0..n] ==
        IF k = 0 THEN [low |-> 1, high |-> Len(source.ends)] ELSE Halved(source, tick, at[k - 1])
  IN at[n]
InputAt(source, tick) == source.inputs[Searched(source, tick, Len(source.ends)).low]

\* A stage more: what came before it has left lives and two starts.
SourceAfter(acc, stage) ==
  LET coded == StageInputs(stage.runs)
      ticks == Last(coded.ends)
  IN [lives |-> PfOutcome(stage.id, acc.lives, Expanded(stage.runs)).lives,
      runStart |-> acc.runStart + ticks, frameStart |-> acc.frameStart + ticks + 1,
      all |-> Append(acc.all, [ticks |-> ticks, runStart |-> acc.runStart, frameStart |-> acc.frameStart,
                               lives |-> acc.lives, inputs |-> coded.inputs, ends |-> coded.ends])]
SourcesFrom(begun, proof) ==
  LET acc[n \in 0..Len(proof)] == IF n = 0 THEN begun ELSE SourceAfter(acc[n - 1], proof[n])
  IN acc[Len(proof)]
Sources(proof) ==
  SourcesFrom([lives |-> PfLives, runStart |-> 0, frameStart |-> 0, all |-> <<>>], proof).all

\* positionAtFrame: the stage and tick of a frame's ordinal, by bisection.
Narrowed(sources, ordinal, at) ==
  LET middle == at.low + (at.high - at.low + 1) \div 2
  IN IF at.low >= at.high THEN at
     ELSE IF sources[middle].frameStart <= ordinal THEN [at EXCEPT !.low = middle]
     ELSE [at EXCEPT !.high = middle - 1]
Located(sources, ordinal, n) ==
  LET at[k \in 0..n] ==
        IF k = 0 THEN [low |-> 1, high |-> Len(sources)] ELSE Narrowed(sources, ordinal, at[k - 1])
  IN at[n]
PositionAtFrame(sources, ordinal) ==
  LET stage == Located(sources, ordinal, Len(sources)).low
  IN [stage |-> stage, tick |-> ordinal - sources[stage].frameStart]

\* createFrame.  `fed` stands for the state and the events of its last tick.
FrameOf(source, stage, tick, applied, engine) ==
  [stage |-> stage, tick |-> tick, ordinal |-> source.frameStart + tick, runTick |-> source.runStart + tick,
   applied |-> applied, lives |-> engine.lives, fed |-> engine.fed]

\* The cursor's engine is behind the frame asked for.
Reusable(cursor, stage, tick) ==
  cursor # RpNone /\ cursor.stage = stage /\ tick > cursor.tick

\* frameAt: the cursor it leaves, which holds the frame.
FrameOn(source, stage, tick, from, engine) ==
  [stage |-> stage, tick |-> tick, engine |-> engine,
   frame |-> FrameOf(source, stage, tick, IF tick = from THEN RpNone ELSE InputAt(source, tick), engine)]
FrameFrom(source, stage, tick, from, start) ==
  FrameOn(source, stage, tick, from,
          [start EXCEPT !.fed = @ \o [i \in 1..(tick - from) |-> InputAt(source, from + i)]])
FrameAt(sources, cursor, stage, tick) ==
  IF cursor # RpNone /\ cursor.stage = stage /\ cursor.tick = tick THEN cursor
  ELSE IF Reusable(cursor, stage, tick) THEN FrameFrom(sources[stage], stage, tick, cursor.tick, cursor.engine)
  ELSE FrameFrom(sources[stage], stage, tick, 0, Fresh(stage, sources[stage].lives))

\* step: RpNone at the end of the stage.
Stepped(sources, cursor) ==
  IF cursor.tick = sources[cursor.stage].ticks THEN RpNone
  ELSE FrameAt(sources, cursor, cursor.stage, cursor.tick + 1)

-----------------------------------------------------------------------------
(* The scrubber.                                                           *)

\* moveToFrame: from the start of the history to the frame, step by step.
Onward(sources, at) ==
  LET c == Stepped(sources, at.cursor) IN [cursor |-> c, history |-> Append(at.history, c.frame)]
Onwards(sources, first, n) ==
  LET at[k \in 0..n] == IF k = 0 THEN first ELSE Onward(sources, at[k - 1]) IN at[n]
Moved(sources, cursor, stage, tick) ==
  LET begin == IF tick > RpHistory THEN tick - RpHistory ELSE 0
      first == FrameAt(sources, cursor, stage, begin)
  IN Onwards(sources, [cursor |-> first, history |-> IF tick = 0 THEN <<first.frame>> ELSE <<>>], tick - begin)

\* appendPresentationFrame: the frames of the last ticks, and this one.
Recent(history, tick) ==
  LET kept[k \in 0..Len(history)] ==
        IF k = 0 THEN <<>>
        ELSE IF history[k].tick > tick - RpHistory THEN Append(kept[k - 1], history[k]) ELSE kept[k - 1]
  IN kept[Len(history)]
Appended(history, frame) == Append(Recent(history, frame.tick), frame)

Stopped(view) == [view EXCEPT !.playing = FALSE, !.anchored = FALSE, !.backlog = 0, !.animation = FALSE]
RangeCancelled(view) == [view EXCEPT !.rangeFrame = FALSE, !.rangeTick = RpNone]
Drawn(view) == [view EXCEPT !.drawn = view.history]
Placed(view, moved) == Drawn([view EXCEPT !.frame = moved.cursor.frame, !.history = moved.history])

\* The envelope is verified again and must be byte for byte what that gives.
Valid(envelope) ==
  Verified(envelope.proof) = [ok |-> TRUE, proof |-> envelope.proof, summary |-> envelope.summary]
RpOpen(envelope) ==
  /\ rp.phase = "kept" /\ UNCHANGED rpKept
  /\ \/ /\ Valid(envelope) /\ rp' = [rp EXCEPT !.phase = "open"]
        /\ rpSources' = Sources(envelope.proof)
        /\ rpCursor' = FrameAt(rpSources', RpNone, Len(rpSources'), 0)
        /\ rpView' = [frame |-> rpCursor'.frame, history |-> <<rpCursor'.frame>>, drawn |-> <<rpCursor'.frame>>,
                      playing |-> FALSE, animation |-> FALSE, rangeFrame |-> FALSE, rangeTick |-> RpNone,
                      anchored |-> FALSE, backlog |-> 0, speed |-> Min(RpSpeeds), closed |-> FALSE]
     \/ /\ ~Valid(envelope) /\ rp' = [rp EXCEPT !.phase = "refused"]
        /\ UNCHANGED <<rpSources, rpCursor, rpView>>

Showing == rp.phase = "open" /\ UNCHANGED <<rp, rpKept, rpSources>>
StageTicks == rpSources[rpView.frame.stage].ticks

\* A jump within the stage or to another one; playing stops.
Jump(view, stage, tick) ==
  \E moved \in {Moved(rpSources, rpCursor, stage, tick)} :
    rpCursor' = moved.cursor /\ rpView' = Placed(Stopped(view), moved)

Clamped(tick) == IF tick < 0 THEN 0 ELSE IF tick > StageTicks THEN StageTicks ELSE tick

RpSeek(tick) ==
  Showing /\ ~rpView.closed /\ Jump(RangeCancelled(rpView), rpView.frame.stage, Clamped(tick))

\* Mutant of RpSelectStage: a drag that waits is forgotten.
RpSelectStageOverDrag(stage) ==
  Showing /\ ~rpView.closed /\ Jump(rpView, stage, 0)

RpSelectStage(stage) ==
  Showing /\ ~rpView.closed /\ Jump(RangeCancelled(rpView), stage, 0)

\* At the end of a stage Play begins it again.
Playing(v) == [v EXCEPT !.playing = TRUE, !.anchored = FALSE, !.backlog = 0, !.animation = TRUE]
RpPlay ==
  /\ Showing /\ ~rpView.closed /\ ~rpView.playing
  /\ \/ /\ rpView.frame.tick = StageTicks
        /\ \E moved \in {Moved(rpSources, rpCursor, rpView.frame.stage, 0)} :
             rpCursor' = moved.cursor /\ rpView' = Playing(Placed(RangeCancelled(rpView), moved))
     \/ /\ rpView.frame.tick < StageTicks
        /\ rpView' = Playing(RangeCancelled(rpView)) /\ UNCHANGED rpCursor

\* The pause button, or the page is hidden.
RpPause ==
  Showing /\ ~rpView.closed /\ rpView.playing /\ rpView' = Stopped(rpView) /\ UNCHANGED rpCursor

RpSpeed(speed) ==
  Showing /\ ~rpView.closed /\ rpView' = [rpView EXCEPT !.speed = speed] /\ UNCHANGED rpCursor

\* An animation frame `elapsed` after the last; a timestamp may also run
\* backwards, which is no time at all.
Owed(elapsed) == rpView.backlog + (IF rpView.anchored THEN elapsed * rpView.speed ELSE 0)
Smaller(a, b) == IF a < b THEN a ELSE b
\* n steps from the frame shown.
RpStep(sources, at) ==
  LET c == Stepped(sources, at.cursor) IN [cursor |-> c, history |-> Appended(at.history, c.frame)]
Advanced(sources, shown, n) ==
  LET at[k \in 0..n] == IF k = 0 THEN shown ELSE RpStep(sources, at[k - 1]) IN at[n]
RpAnimate(elapsed) ==
  /\ Showing /\ rpView.animation /\ Owed(elapsed) <= RpMaxBacklog
  /\ IF ~rpView.playing \/ rpView.closed THEN rpView' = [rpView EXCEPT !.animation = FALSE] /\ UNCHANGED rpCursor
     ELSE \E due \in {Smaller(RpMaxSteps, Owed(elapsed) \div 2)}, left \in {StageTicks - rpView.frame.tick} :
          \E moved \in {Advanced(rpSources, [cursor |-> rpCursor, history |-> rpView.history], Smaller(due, left))} :
          \E shown \in {Placed([rpView EXCEPT !.anchored = TRUE, !.backlog = Owed(elapsed) - 2 * due], moved)} :
            /\ rpCursor' = moved.cursor
            /\ rpView' = IF due > 0 /\ left <= due THEN Stopped(shown) ELSE shown

\* The slider is dragged; the jump waits for a frame.
RpDrag(tick) ==
  /\ Showing /\ ~rpView.closed
  /\ rpView' = [Stopped(rpView) EXCEPT !.rangeTick = [tick |-> tick, stage |-> rpView.frame.stage], !.rangeFrame = TRUE]
  /\ UNCHANGED rpCursor

\* That frame comes, or the slider is let go.
Flush ==
  IF rpView.rangeTick = RpNone \/ rpView.closed
  THEN rpView' = RangeCancelled(rpView) /\ UNCHANGED rpCursor
  ELSE Jump(RangeCancelled(rpView), rpView.frame.stage, Clamped(rpView.rangeTick.tick))
RpRangeFrame == Showing /\ rpView.rangeFrame /\ Flush
RpLetGo == Showing /\ ~rpView.closed /\ Flush

\* The system's motion preference changes: the frame is drawn anew.
RpMotion ==
  Showing /\ ~rpView.closed /\ Jump(RangeCancelled(rpView), rpView.frame.stage, rpView.frame.tick)

RpDestroy ==
  /\ Showing /\ ~rpView.closed
  /\ rpView' = [RangeCancelled(Stopped(rpView)) EXCEPT !.closed = TRUE] /\ UNCHANGED rpCursor

RpNext ==
  \/ \E input \in RpInputs : RpPlayTick(input)
  \/ rp.phase = "played" /\ \E proof \in {Finalized(rp.done)} \cup OtherProofs(Finalized(rp.done)) : RpSubmit(proof)
  \/ rp.phase = "kept" /\ \E proof \in {rpKept.proof} \cup OtherProofs(rpKept.proof) :
       RpOpen([rpKept EXCEPT !.proof = proof])
  \/ rp.phase = "open" /\ \/ \E tick \in -1..(StageTicks + 1) : RpSeek(tick)
                          \/ \E tick \in 0..StageTicks : RpDrag(tick)
                          \/ \E stage \in DOMAIN rpSources : RpSelectStage(stage)
  \/ \E speed \in RpSpeeds : RpSpeed(speed)
  \/ \E elapsed \in 0..RpMaxElapsed : RpAnimate(elapsed)
  \/ RpPlay \/ RpPause \/ RpRangeFrame \/ RpLetGo \/ RpMotion \/ RpDestroy
RpSpec == RpInit /\ [][RpNext]_rpVars

-----------------------------------------------------------------------------
(* What the decoding of a proof must give, said once and without running.  *)

\* The inputs of a whole run: every stage goes to its end and not past it,
\* and only the last may be lost, or is the last of the campaign.
LivesLeft(plays) ==
  LET lives[i \in 0..Len(plays)] == IF i = 0 THEN PfLives ELSE PfOutcome(i, lives[i - 1], plays[i]).lives
  IN lives[Len(plays)]
WholeRun(plays) ==
  LET status(i, n) == PfOutcome(i, LivesLeft(SubSeq(plays, 1, i - 1)), SubSeq(plays[i], 1, n)).status
  IN /\ Len(plays) \in 1..PfStages
     /\ \A i \in DOMAIN plays :
          /\ \A n \in 0..(Len(plays[i]) - 1) : status(i, n) = "running"
          /\ status(i, Len(plays[i])) = IF i < Len(plays) THEN "won" ELSE status(i, Len(plays[i]))
          /\ status(i, Len(plays[i])) # "running"
     /\ Len(plays) = PfStages \/ status(Len(plays), Len(Last(plays))) = "lost"

Sized(seqs) == Total([i \in DOMAIN seqs |-> Len(seqs[i])])
Plays(proof) == [i \in DOMAIN proof |-> Expanded(proof[i].runs)]
Admissible(proof) ==
  LET plays == Plays(proof)
  IN /\ WholeRun(plays)
     /\ \A i \in DOMAIN proof : proof[i].id = i /\ \A k \in DOMAIN proof[i].runs : proof[i].runs[k].ticks >= 1
     /\ \A i \in DOMAIN plays : Len(plays[i]) <= PfMaxStageTicks
     /\ Sized(plays) <= PfMaxTotalTicks /\ Sized([i \in DOMAIN proof |-> proof[i].runs]) <= PfMaxRuns

(* A proof is taken by either verifier exactly if it is a whole run within *)
(* the limits; they agree on its one canonical form and on what came of    *)
(* it; and so the run that was played is taken as it was recorded, through *)
(* the ranked recorder and the cabinet's builder alike (proof.ts:491,      *)
(* cabinet-proof.ts:99, :141, :185).                                       *)
RpVerdictIsThePlay ==
  rp.phase = "played" =>
    LET recorded == Finalized(rp.done)
        built == CabinetBuilt(rp.done)
    IN /\ Verified(recorded).ok <=> Admissible(recorded)
       /\ Verified(recorded).ok => Verified(recorded).proof = recorded /\ built = [ok |-> TRUE, proof |-> recorded]
       /\ built.ok => Verified(recorded).ok
       /\ \A proof \in {recorded} \cup OtherProofs(recorded) : \A v \in {Verified(proof)} :
               /\ v.ok <=> Admissible(proof)
               /\ CabinetVerified(proof) = v
               /\ v.ok => /\ v.proof = Finalized([i \in DOMAIN proof |-> [inputs |-> Plays(proof)[i]]])
                          /\ v.summary.ticks = Sized(Plays(proof))

(* Whatever way the scrubber came to a frame, played, stepped, dragged or  *)
(* jumped, it shows the tick of the play that was recorded: the engine     *)
(* behind the cursor has been fed the inputs of that stage so far and      *)
(* nothing else, with the lives the stage began with, and the effects      *)
(* drawn are those of the last ticks before it (playback.ts:300, replay-   *)
(* scrubber.ts:408, :424).  It plays exactly while one animation frame is  *)
(* asked for, never at the end of a stage; a drag acts in the stage it was *)
(* made in; and a closed scrubber asks for nothing.                        *)
TrueFrame(f) ==
  LET plays == Plays(rpKept.proof)
      before == SubSeq(plays, 1, f.stage - 1)
  IN /\ f.fed = SubSeq(plays[f.stage], 1, f.tick)
     /\ f.lives = IF f.stage = 1 THEN PfLives ELSE PfOutcome(f.stage - 1, rpSources[f.stage - 1].lives, plays[f.stage - 1]).lives
     /\ f.applied = IF f.tick = 0 THEN RpNone ELSE plays[f.stage][f.tick]
     /\ f.runTick = Sized(before) + f.tick
     /\ f.ordinal = Sized(before) + Len(before) + f.tick
     /\ PositionAtFrame(rpSources, f.ordinal) = [stage |-> f.stage, tick |-> f.tick]

RpShowsTheRecord ==
  rp.phase = "open" =>
    LET f == rpView.frame
        ticks == {rpView.history[k].tick : k \in DOMAIN rpView.history}
    IN /\ rpCursor.frame = f /\ rpCursor.stage = f.stage /\ rpCursor.tick = f.tick /\ rpCursor.engine.fed = f.fed
       /\ Last(rpView.history) = f /\ rpView.drawn = rpView.history
       /\ \A k \in DOMAIN rpView.history : TrueFrame(rpView.history[k]) /\ rpView.history[k].stage = f.stage
       /\ ticks \ {0} = {t \in 1..f.tick : t > f.tick - RpHistory}
       /\ Cardinality(ticks) = Len(rpView.history)
       /\ rpView.playing <=> rpView.animation
       /\ rpView.playing => f.tick < StageTicks /\ ~rpView.closed
       /\ rpView.rangeFrame <=> rpView.rangeTick # RpNone
       /\ rpView.rangeTick # RpNone => rpView.rangeTick.stage = f.stage /\ ~rpView.closed

(* What the platform accepts is what was played, and what anyone who opens *)
(* it sees: both of the above.                                             *)
RpRecordIsThePlay == RpVerdictIsThePlay /\ RpShowsTheRecord
=============================================================================
