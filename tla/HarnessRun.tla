----------------------------- MODULE HarnessRun -----------------------------
(***************************************************************************)
(* A benchmark run: the loop of turns (packages/harness/src/runner.ts),    *)
(* the driver that talks to the provider (openai-responses.ts), the        *)
(* session whose game goes on in real time (partition/src/benchmark/       *)
(* session.ts) and the run directory (packages/bench-core/run-store.ts).   *)
(* A write to the directory may fail, the process may die between any two  *)
(* writes, and a request may be lost before or after it was answered.      *)
(***************************************************************************)
EXTENDS Integers, Sequences

CONSTANTS
  HrTurns,    \* maxTurns
  HrIdle,     \* maxIdleTurns
  HrRetries,  \* maxRetries of one request
  HrCalls,    \* tool calls of one response (bound of the model)
  HrFaults    \* writes that fail in a run (bound of the model)

ASSUME HrAssumption == HrTurns \in Nat /\ HrIdle \in Nat /\ HrRetries \in Nat /\ HrCalls \in Nat /\ HrFaults \in Nat

HrFinal == {"complete", "failed", "aborted"}

VARIABLES
  hrDisk,     \* the run directory: manifest, and the log of events by what it says
  hrMemory,   \* manifestValue of the store
  hrWrites,   \* writes the store's call under way has still to do
  hrLoop,     \* where runHarness stands
  hrDriver,   \* the driver: calls of the response it goes on from, what it will say and has asked
  hrSession   \* the game and its replay

hrVars == <<hrDisk, hrMemory, hrWrites, hrLoop, hrDriver, hrSession>>

NewManifest == [status |-> "created", usage |-> 0, artifacts |-> 0, score |-> "none"]

HrInit ==
  /\ hrMemory = NewManifest /\ hrWrites = <<>>
  /\ hrDisk = [manifest |-> NewManifest,
               log |-> [started |-> 0, usage |-> 0, called |-> 0, answered |-> 0, artifacts |-> 0, finishes |-> <<>>]]
  /\ hrLoop = [at |-> "start", turn |-> 0, idle |-> 0, calls |-> 0, results |-> 0, score |-> "none", end |-> "none", faults |-> 0]
  /\ hrDriver = [asked |-> [outputs |-> 0, says |-> FALSE], goesOn |-> 0, says |-> TRUE, tries |-> 0]
  /\ hrSession = [status |-> "running", closed |-> FALSE, replay |-> FALSE]

-----------------------------------------------------------------------------
(* The store.  A call changes the manifest in memory, then writes.         *)

Line(what) == [kind |-> what]
SaveManifest == [kind |-> "save"]

AddUsage  == hrMemory' = [hrMemory EXCEPT !.usage = @ + 1] /\ hrWrites' = <<SaveManifest, Line("usage")>>
AddArtifact == hrMemory' = [hrMemory EXCEPT !.artifacts = @ + 1] /\ hrWrites' = <<Line("artifacts"), SaveManifest>>

FinishMemory(status, score) == [hrMemory EXCEPT !.status = status, !.score = IF score = "none" THEN @ ELSE score]

\* Mutant of Finish: the manifest is saved before the event is in the log.
FinishSavesFirst(status, score) == hrMemory' = FinishMemory(status, score) /\ hrWrites' = <<SaveManifest, Line(status)>>

Finish(status, score) == hrMemory' = FinishMemory(status, score) /\ hrWrites' = <<Line(status), SaveManifest>>

\* The log after an event.
LogWith(log, e) ==
  IF e.kind \in HrFinal THEN [log EXCEPT !.finishes = Append(@, e.kind)] ELSE [log EXCEPT ![e.kind] = @ + 1]

HrWrite ==
  /\ hrWrites # <<>> /\ hrWrites' = Tail(hrWrites)
  /\ LET w == Head(hrWrites)
     IN hrDisk' = IF w.kind = "save" THEN [hrDisk EXCEPT !.manifest = hrMemory] ELSE [hrDisk EXCEPT !.log = LogWith(@, w)]
  /\ UNCHANGED <<hrMemory, hrLoop, hrDriver, hrSession>>

\* What is thrown in the loop is caught once, and the transcript's writes, which
\* are left out, throw no differently; thrown again, it ends the run
\* with whatever the manifest says.
Thrown(loop) == [loop EXCEPT !.at = IF loop.end = "failed" THEN "rejected" ELSE "closing", !.end = "failed"]

HrWriteFails ==
  /\ hrWrites # <<>> /\ hrLoop.faults < HrFaults
  /\ hrWrites' = <<>>
  /\ hrLoop' = IF hrLoop.turn = 0 THEN [hrLoop EXCEPT !.at = "rejected"]
               ELSE [Thrown(hrLoop) EXCEPT !.faults = @ + 1]
  /\ UNCHANGED <<hrDisk, hrMemory, hrDriver, hrSession>>

Written == hrWrites = <<>>

-----------------------------------------------------------------------------
(* runHarness.                                                             *)

\* store.start is outside the try: what it throws is not caught.
HrStart ==
  /\ hrLoop.at = "start"
  /\ hrMemory' = [hrMemory EXCEPT !.status = "running"] /\ hrWrites' = <<Line("started"), SaveManifest>>
  /\ hrLoop' = [hrLoop EXCEPT !.at = "turn"]
  /\ UNCHANGED <<hrDisk, hrDriver, hrSession>>

\* A turn begins with a look at the game, or the turns are spent.
HrTurn ==
  /\ hrLoop.at = "turn" /\ Written
  /\ hrLoop' = CASE hrLoop.turn = HrTurns -> [hrLoop EXCEPT !.at = "closing"]
                 [] hrLoop.turn < HrTurns /\ hrSession.status = "complete" ->
                      [hrLoop EXCEPT !.turn = @ + 1, !.score = hrSession.status, !.at = "closing"]
                 [] hrLoop.turn < HrTurns /\ hrSession.status = "failed" -> Thrown([hrLoop EXCEPT !.turn = @ + 1])
                 [] OTHER -> [hrLoop EXCEPT !.turn = @ + 1, !.at = "step"]
  /\ UNCHANGED <<hrDisk, hrMemory, hrWrites, hrDriver, hrSession>>

\* driver.step(pending): the results of the last turn and what the driver says.
HrStep ==
  /\ hrLoop.at = "step" /\ Written
  /\ hrDriver' = [hrDriver EXCEPT !.asked = [outputs |-> hrLoop.results, says |-> hrDriver.says], !.says = FALSE, !.tries = 0]
  /\ hrLoop' = [hrLoop EXCEPT !.at = "asking", !.results = 0]
  /\ UNCHANGED <<hrDisk, hrMemory, hrWrites, hrSession>>

\* No answer was heard, or one that allows a retry: the same body goes again.
HrRetry ==
  /\ hrLoop.at = "asking" /\ hrDriver.tries < HrRetries
  /\ hrDriver' = [hrDriver EXCEPT !.tries = @ + 1]
  /\ UNCHANGED <<hrDisk, hrMemory, hrWrites, hrLoop, hrSession>>

\* The retries are spent, or the provider refuses.
HrRefused ==
  /\ hrLoop.at = "asking"
  /\ hrLoop' = Thrown(hrLoop)
  /\ UNCHANGED <<hrDisk, hrMemory, hrWrites, hrDriver, hrSession>>

HrAnswered(n) ==
  /\ hrLoop.at = "asking"
  /\ hrDriver' = [hrDriver EXCEPT !.goesOn = n]
  /\ hrLoop' = [hrLoop EXCEPT !.at = "heard", !.calls = n]
  /\ AddUsage
  /\ UNCHANGED <<hrDisk, hrSession>>

\* A response without calls is an idle turn; too many fail the run.
HrIdleTurn ==
  /\ hrLoop.at = "heard" /\ Written /\ hrLoop.calls = 0
  /\ LET idle == hrLoop.idle + 1 IN
     IF idle >= HrIdle THEN hrLoop' = Thrown([hrLoop EXCEPT !.idle = idle]) /\ UNCHANGED hrDriver
     ELSE hrLoop' = [hrLoop EXCEPT !.idle = idle, !.at = "turn"] /\ hrDriver' = [hrDriver EXCEPT !.says = TRUE]
  /\ UNCHANGED <<hrDisk, hrMemory, hrWrites, hrSession>>

\* The next tool call: logged, handled while the game goes on, and answered.
HrCall ==
  /\ hrLoop.at = "heard" /\ Written /\ hrLoop.calls > 0
  /\ hrLoop' = [hrLoop EXCEPT !.idle = 0, !.at = "handling"] /\ hrWrites' = <<Line("called")>>
  /\ UNCHANGED <<hrDisk, hrMemory, hrDriver, hrSession>>

HrHandled ==
  /\ hrLoop.at = "handling" /\ Written
  /\ hrLoop' = [hrLoop EXCEPT !.at = "handled", !.results = @ + 1, !.calls = @ - 1] /\ hrWrites' = <<Line("answered")>>
  /\ UNCHANGED <<hrDisk, hrMemory, hrDriver, hrSession>>

\* A look at the game after every call: one that is over ends the turn.
HrAfterTool ==
  /\ hrLoop.at = "handled" /\ Written
  /\ hrLoop' = CASE hrSession.status = "complete" -> [hrLoop EXCEPT !.score = hrSession.status, !.at = "closing"]
                 [] hrSession.status = "failed" -> Thrown(hrLoop)
                 [] OTHER -> [hrLoop EXCEPT !.at = IF hrLoop.calls = 0 THEN "turn" ELSE "heard"]
  /\ UNCHANGED <<hrDisk, hrMemory, hrWrites, hrDriver, hrSession>>

\* The last snapshot and session.close, in the loop or in its catch; close
\* marks itself done before it writes the replay.
HrClose(writes) ==
  /\ hrLoop.at = "closing" /\ Written
  /\ hrSession' = [hrSession EXCEPT !.closed = TRUE, !.replay = @ \/ (~hrSession.closed /\ writes)]
  /\ LET seen == IF hrLoop.end = "failed" THEN hrLoop
                 ELSE [hrLoop EXCEPT !.end = IF hrSession.status = "complete" THEN "complete" ELSE "aborted",
                                     !.score = IF @ = "none" THEN hrSession.status ELSE @]
     IN IF hrSession.closed \/ writes THEN hrLoop' = [seen EXCEPT !.at = "artifacts"]
        ELSE hrLoop.faults < HrFaults /\ hrLoop' = [Thrown(seen) EXCEPT !.faults = @ + 1]
  /\ UNCHANGED <<hrDisk, hrMemory, hrWrites, hrDriver>>

HrArtifacts ==
  /\ hrLoop.at = "artifacts" /\ Written
  /\ hrLoop' = [hrLoop EXCEPT !.at = "finish"]
  /\ IF hrSession.replay THEN AddArtifact ELSE UNCHANGED <<hrMemory, hrWrites>>
  /\ UNCHANGED <<hrDisk, hrDriver, hrSession>>

HrFinish ==
  /\ hrLoop.at = "finish" /\ Written
  /\ hrLoop' = [hrLoop EXCEPT !.at = "done"]
  /\ Finish(hrLoop.end, hrLoop.score)
  /\ UNCHANGED <<hrDisk, hrDriver, hrSession>>

-----------------------------------------------------------------------------
(* The game goes on while the loop waits for the provider or a tool.       *)
HrPlay(status) ==
  /\ hrSession.status = "running" /\ ~hrSession.closed
  /\ hrLoop.at \in {"start", "asking", "handling"}
  /\ hrSession' = [hrSession EXCEPT !.status = status]
  /\ UNCHANGED <<hrDisk, hrMemory, hrWrites, hrLoop, hrDriver>>

HrDies ==
  /\ hrLoop.at \notin {"rejected", "dead"} /\ ~(hrLoop.at = "done" /\ Written)
  /\ hrLoop' = [hrLoop EXCEPT !.at = "dead"] /\ hrWrites' = <<>>
  /\ UNCHANGED <<hrDisk, hrMemory, hrDriver, hrSession>>

HrNext ==
  \/ HrWrite \/ HrWriteFails \/ HrStart \/ HrTurn \/ HrStep \/ HrRetry \/ HrRefused \/ HrIdleTurn
  \/ (\E n \in 0..HrCalls : HrAnswered(n)) \/ HrCall \/ HrHandled \/ HrAfterTool
  \/ (\E writes \in BOOLEAN : HrClose(writes)) \/ HrArtifacts \/ HrFinish \/ HrDies
  \/ \E status \in {"complete", "failed"} : HrPlay(status)

HrSpec == HrInit /\ [][HrNext]_hrVars

-----------------------------------------------------------------------------
\* Wherever a run is cut off with no write failed before, and wherever it is
\* brought to its end in spite of failed writes, a manifest that says it is over
\* is backed by the last line of the log, and lists no artifact the log does
\* not; one that ended as it should has one replay, and usage for each answer
\* in the log.  It is complete only with its game over and its score, aborted
\* only with its turns spent.  (After a failed write and then a death the
\* manifest may say what a later event would have taken back.)
HrManifestIsBacked ==
  LET man == hrDisk.manifest   log == hrDisk.log IN
  /\ man.usage - log.usage \in 0..1
  /\ man.status \in HrFinal /\ (hrLoop.faults = 0 \/ (hrLoop.at = "done" /\ Written)) =>
       /\ log.finishes # <<>> /\ log.finishes[Len(log.finishes)] = man.status
       /\ man.artifacts - log.artifacts \in 0..1
  /\ man.status = "complete" => hrSession.status = "complete" /\ man.score = "complete"
  /\ man.status \in {"complete", "aborted"} /\ hrLoop.faults = 0 => man.usage = log.usage /\ man.artifacts = 1 /\ log.artifacts = 1
  /\ man.status = "aborted" => hrLoop.turn = HrTurns

\* A request answers every call of the response it goes on from, and no other;
\* it speaks up when there is none to answer; and of the calls in the log at
\* most the last has no answer.
HrConversationHolds ==
  /\ hrLoop.at = "asking" =>
       /\ hrDriver.asked.outputs = hrDriver.goesOn
       /\ hrDriver.asked.says = (hrDriver.asked.outputs = 0)
  /\ hrDisk.log.answered \in {hrDisk.log.called - 1, hrDisk.log.called}

\* A run leaves a record that can be believed: its manifest is backed by its
\* log, and the model was told everything it had asked for.
HrRecordCanBeBelieved == HrManifestIsBacked /\ HrConversationHolds
=============================================================================
