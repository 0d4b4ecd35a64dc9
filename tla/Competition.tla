----------------------------- MODULE Competition -----------------------------
(***************************************************************************)
(* The Shift Board of Maltline (games/maltline/src/viewer/                 *)
(* competition-controller.ts and ranked-proof-recorder.ts): a challenge is *)
(* asked for while play begins, the recorder takes down every tick, and    *)
(* the finished run is offered, sent, retried and looked up on a panel.    *)
(* Four kinds of request are in flight at once, each tagged with the       *)
(* generation it belongs to or cut off by an AbortController; the service  *)
(* may have done what a request that failed or was cut off asked for.      *)
(* The service is apps/platform/src/maltline-worker.ts, which the module   *)
(* MaltlineProofs models step by step; here it is what an answer and the   *)
(* row behind it may be.  No page of the repository mounts the controller  *)
(* yet: the host is the one its visual fixture plays.                      *)
(***************************************************************************)
EXTENDS Integers, Sequences, FiniteSets

CONSTANTS
  CoAttempts,  \* attempts a player makes: generations 1..CoAttempts
  CoStages,    \* stages of the campaign
  CoRequests   \* requests in flight at once (bound of the model)

CoRun == 1..CoAttempts
SafeScreens == {"title", "card", "over"}   \* as opposed to "playing"

VARIABLES
  coGame,     \* the host: the stage on play, its tick, whether the attempt is over
  co,         \* the controller's own state
  coRecorder, \* the recorder of the attempt
  coNet,      \* requests: kind, what for, live (neither cut off nor overtaken), answer
  coServer,   \* the row the service holds of each run: none, pending, ready, failed
  coLapsed    \* runs whose window, and entries whose proof, has lapsed

coVars == <<coGame, co, coRecorder, coNet, coServer, coLapsed>>

NoProof == [attempt |-> 0, stages |-> <<>>]
Blank == [done |-> <<>>, active |-> 0, inputs |-> 0, terminal |-> FALSE, unavailable |-> FALSE]
NoInspection == [kind |-> "none", entry |-> 0, playback |-> 0]

CoInit ==
  /\ coGame = [stage |-> 0, tick |-> 0, log |-> <<>>, over |-> TRUE]
  /\ co = [screen |-> "title", open |-> FALSE, attempt |-> 0, challengeStatus |-> "idle", proofStatus |-> "none",
           challenge |-> 0, proof |-> NoProof, score |-> 0, invalid |-> FALSE, attempted |-> FALSE,
           submission |-> "none", standings |-> "loading", rows |-> {},
           inspection |-> NoInspection, destroyed |-> FALSE]
  /\ coRecorder = Blank /\ coNet = {}
  /\ coServer = [a \in CoRun |-> "none"] /\ coLapsed = [runs |-> {}, proofs |-> {}]

\* Requests of these kinds are cut off or overtaken.
CutOff(net, kinds) == {[q EXCEPT !.live = @ /\ q.kind \notin kinds] : q \in net}
Sent(kind, for) == [kind |-> kind, for |-> for, proof |-> NoProof, score |-> 0, live |-> TRUE, answer |-> "none"]

\* What the panel says of a finished run.
TerminalSubmission(c) ==
  CASE c.invalid -> [c EXCEPT !.submission = "ineligible"]
    [] ~c.invalid /\ c.challengeStatus = "unavailable" -> [c EXCEPT !.proofStatus = "ineligible", !.submission = "ineligible"]
    [] ~c.invalid /\ c.challengeStatus # "unavailable" /\ (c.challenge = 0 \/ c.proof = NoProof) -> [c EXCEPT !.submission = "none"]
    [] OTHER -> LET kind == IF c.challenge \in coLapsed.runs THEN "ineligible" ELSE "eligible"
                IN [c EXCEPT !.proofStatus = kind, !.submission = kind]
Refreshed(c) == IF c.score = 0 THEN c ELSE TerminalSubmission(c)

\* closePanel
Closed(c) == IF c.open THEN [c EXCEPT !.open = FALSE, !.inspection = NoInspection] ELSE c
\* loadStandings overtakes the listing before it.
Listing(net) == CutOff(net, {"list"}) \cup {Sent("list", 0)}

-----------------------------------------------------------------------------
(* The host's calls.                                                       *)

CoStart ==
  LET a == co.attempt + 1 IN
  /\ a \in CoRun /\ coGame.over
  /\ co' = [Closed(co) EXCEPT !.attempt = a, !.screen = "card", !.challengeStatus = "preparing", !.proofStatus = "recording",
            !.challenge = 0, !.proof = NoProof, !.score = 0, !.invalid = FALSE, !.attempted = FALSE,
            !.submission = "none", !.inspection = NoInspection]
  /\ coRecorder' = Blank
  /\ coGame' = [stage |-> 1, tick |-> 0, log |-> <<>>, over |-> FALSE]
  /\ coNet' = CutOff(coNet, {"begin", "list", "submit", "inspect"}) \cup {Sent("begin", a)}
  /\ UNCHANGED <<coServer, coLapsed>>

\* beginStage
CoBeginStage ==
  /\ co.screen = "card" /\ ~coGame.over
  /\ co' = [Closed(co) EXCEPT !.screen = "playing"]
  /\ coRecorder' = IF co.invalid THEN coRecorder ELSE [coRecorder EXCEPT !.active = coGame.stage, !.inputs = 0]
  /\ coNet' = IF co.open THEN CutOff(coNet, {"inspect"}) ELSE coNet
  /\ UNCHANGED <<coGame, coServer, coLapsed>>

\* recordTickInput, once for every tick; one tick stands for any number.
CoTick ==
  /\ co.screen = "playing" /\ coGame.tick = 0
  /\ coGame' = [coGame EXCEPT !.tick = 1]
  /\ coRecorder' = IF co.invalid THEN coRecorder ELSE [coRecorder EXCEPT !.inputs = @ + 1]
  /\ UNCHANGED <<co, coNet, coServer, coLapsed>>

\* The recorder's completeStage; the calls it refuses do not arise (CoFits).
Completed(status) ==
  [coRecorder EXCEPT !.done = Append(@, [stage |-> coRecorder.active, inputs |-> coRecorder.inputs]),
     !.active = 0, !.inputs = 0, !.terminal = status = "lost" \/ Len(coRecorder.done) + 1 = CoStages]

\* completeStage: a stage is won or lost, and with it perhaps the attempt.
CoCompleteStage(status) ==
  LET terminal == status = "lost" \/ coGame.stage = CoStages
      rec == IF co.invalid THEN coRecorder ELSE Completed(status)
      c   == [co EXCEPT !.screen = IF terminal THEN "over" ELSE "card"] IN
  /\ co.screen = "playing" /\ coGame.tick > 0
  /\ coRecorder' = rec
  /\ co' = IF ~terminal THEN c
           ELSE TerminalSubmission([c EXCEPT !.score = co.attempt,
                  !.proof = IF co.invalid THEN @ ELSE [attempt |-> co.attempt, stages |-> rec.done]])
  /\ coGame' = [stage |-> coGame.stage + (IF terminal THEN 0 ELSE 1), tick |-> 0, over |-> terminal,
                log |-> Append(coGame.log, [stage |-> coGame.stage, inputs |-> coGame.tick])]
  /\ UNCHANGED <<coNet, coServer, coLapsed>>

\* invalidate: the run was interrupted or resumed; captured inputs are dropped.
CoInvalidate ==
  /\ co.attempt > 0 /\ ~co.invalid
  /\ co' = Refreshed([co EXCEPT !.invalid = TRUE, !.proofStatus = "ineligible", !.proof = NoProof,
                      !.challengeStatus = IF co.challenge = 0 THEN "unavailable" ELSE "ready"])
  /\ coRecorder' = [Blank EXCEPT !.unavailable = TRUE]
  /\ coNet' = CutOff(coNet, {"begin"})
  /\ UNCHANGED <<coGame, coServer, coLapsed>>

\* The attempt is abandoned from its pause, for the title.
CoAbandon ==
  /\ ~coGame.over
  /\ coGame' = [coGame EXCEPT !.over = TRUE]
  /\ co' = [co EXCEPT !.screen = "title"]
  /\ UNCHANGED <<coRecorder, coNet, coServer, coLapsed>>

\* destroy: no answer is heard any more, so none is kept.
CoDestroy ==
  /\ co' = [co EXCEPT !.destroyed = TRUE] /\ coNet' = {}
  /\ UNCHANGED <<coGame, coRecorder, coServer, coLapsed>>

-----------------------------------------------------------------------------
(* The player's.                                                           *)

CoOpen ==
  /\ ~co.open /\ co.screen \in SafeScreens
  /\ co' = [co EXCEPT !.open = TRUE, !.standings = "loading"]
  /\ coNet' = Listing(coNet)
  /\ UNCHANGED <<coGame, coRecorder, coServer, coLapsed>>

CoClose ==
  /\ co.open
  /\ co' = Closed(co) /\ coNet' = CutOff(coNet, {"inspect"})
  /\ UNCHANGED <<coGame, coRecorder, coServer, coLapsed>>

CoRefresh ==
  /\ co.open /\ co.standings \in {"error", "ranked"}
  /\ co' = [co EXCEPT !.standings = "loading"] /\ coNet' = Listing(coNet)
  /\ UNCHANGED <<coGame, coRecorder, coServer, coLapsed>>

\* inspectProof; the row is on the board with its proof, or is the one whose
\* check has failed.
CoInspect(a) ==
  /\ co.open
  /\ (co.standings = "ranked" /\ a \in co.rows) \/ co.inspection = [kind |-> "error", entry |-> a, playback |-> 0]
  /\ co' = [co EXCEPT !.inspection = [kind |-> "loading", entry |-> a, playback |-> 0]]
  /\ coNet' = CutOff(coNet, {"inspect"}) \cup {Sent("inspect", a)}
  /\ UNCHANGED <<coGame, coRecorder, coServer, coLapsed>>

\* onDismissInspection
CoDismiss ==
  /\ co.open /\ co.inspection.kind # "none"
  /\ co' = [co EXCEPT !.inspection = NoInspection] /\ coNet' = CutOff(coNet, {"inspect"})
  /\ UNCHANGED <<coGame, coRecorder, coServer, coLapsed>>

\* The panel shows the form, or a button to try again.
Offered == co.open /\ co.submission \in {"eligible", "pending", "error"}
\* submit goes on past its first guard.
Submittable ==
  co.challenge # 0 /\ co.proof # NoProof /\ co.score # 0 /\ ~co.invalid /\ co.proofStatus \notin {"ineligible", "submitted"}

CoSubmit ==
  /\ Offered /\ Submittable
  /\ IF ~co.attempted /\ co.challenge \in coLapsed.runs
     THEN /\ co' = TerminalSubmission([co EXCEPT !.proofStatus = "ineligible"])
          /\ UNCHANGED coNet
     ELSE /\ co' = [co EXCEPT !.attempted = TRUE, !.submission = "submitting"]
          /\ coNet' = CutOff(coNet, {"submit"}) \cup
               {[Sent("submit", co.challenge) EXCEPT !.proof = co.proof, !.score = co.score]}
  /\ UNCHANGED <<coGame, coRecorder, coServer, coLapsed>>

-----------------------------------------------------------------------------
(* The service: it answers, fails before or after doing what was asked, or *)
(* is not heard.                                                           *)

Answered(q, answer) == coNet' = (coNet \ {q}) \cup {[q EXCEPT !.answer = answer]}

\* What a submission may leave of the row of its run: none while it has lapsed, or
\* one whose proof is still to be kept, is kept, or cannot be kept.  A row that is
\* ready or failed stays so.
RowsLeft(run) ==
  LET row == coServer[run] IN
  {row} \cup {after \in {"pending", "ready", "failed"} :
              row = "pending" \/ (row = "none" /\ run \notin coLapsed.runs)}

\* A callsign is judged before the row is looked for, and a run may be refused with
\* a row or without: sent as another, failed, or its proof too late or in conflict.
CoScored(q) ==
  \E answer \in {"ready", "pending", "callsign", "refused", "unresolved"}, row \in RowsLeft(q.for) :
    /\ answer \in {"ready", "pending"} => row = answer
    /\ answer = "callsign" => row = coServer[q.for]
    /\ answer = "refused" => row \in {coServer[q.for], "failed"}
    /\ Answered(q, answer) /\ coServer' = [coServer EXCEPT ![q.for] = row]

CoServe(q) ==
  /\ q.answer = "none"
  /\ CASE q.kind \in {"begin", "list"} -> (\E answer \in {"done", "unresolved"} : Answered(q, answer)) /\ UNCHANGED coServer
       [] q.kind = "inspect" ->
            (\E answer \in {"unresolved", IF q.for \in coLapsed.proofs THEN "gone" ELSE "done"} : Answered(q, answer)) /\ UNCHANGED coServer
       [] q.kind = "submit" -> CoScored(q)
  /\ UNCHANGED <<coGame, co, coRecorder, coLapsed>>

\* reconcileMaltlineProofs settles a row nobody has settled.
CoReconcile(a) ==
  /\ coServer[a] = "pending"
  /\ \E row \in {"ready", "failed"} : coServer' = [coServer EXCEPT ![a] = row]
  /\ UNCHANGED <<coGame, co, coRecorder, coNet, coLapsed>>

\* The windows of the runs close in the order they were opened.
CoLapse ==
  /\ \/ \E a \in CoRun \ coLapsed.runs : /\ a <= co.attempt /\ 1..(a - 1) \subseteq coLapsed.runs
                                       /\ coLapsed' = [coLapsed EXCEPT !.runs = @ \cup {a}]
     \/ \E a \in coLapsed.runs \ coLapsed.proofs : /\ coServer[a] = "ready"
                                                  /\ coLapsed' = [coLapsed EXCEPT !.proofs = @ \cup {a}]
  /\ UNCHANGED <<coGame, co, coRecorder, coNet, coServer>>

-----------------------------------------------------------------------------
(* Answers arrive; one that was cut off or overtaken is dropped.           *)

\* Mutant of Heeded: an answer is taken whenever its kind is still awaited.
HeededLate(q) == q.live \/ (q.kind = "begin" /\ co.challengeStatus = "preparing")

Heeded(q) == q.live

\* Mutant of Failure: every refusal may be tried again.
FailureRetried(c, answer) ==
  CASE answer = "callsign" -> [c EXCEPT !.submission = "eligible"]
    [] answer = "refused" -> [c EXCEPT !.proofStatus = "ineligible", !.submission = "error"]
    [] OTHER -> [c EXCEPT !.submission = "error"]

\* classifyMaltlineSubmissionFailure
Failure(c, answer) ==
  CASE answer = "callsign" -> [c EXCEPT !.submission = "eligible"]
    [] answer = "refused" -> [c EXCEPT !.proofStatus = "ineligible", !.submission = "ineligible"]
    [] OTHER -> [c EXCEPT !.submission = "error"]

Gets(q, kind) == q \in coNet /\ q.kind = kind /\ q.answer # "none" /\ Heeded(q)

CoDrop(q) ==
  /\ q.answer # "none" /\ ~Heeded(q) /\ coNet' = coNet \ {q}
  /\ UNCHANGED <<coGame, co, coRecorder, coServer, coLapsed>>

CoBegun(q) ==
  /\ Gets(q, "begin") /\ coNet' = coNet \ {q}
  /\ IF q.answer = "done"
     THEN co' = Refreshed([co EXCEPT !.challenge = q.for, !.challengeStatus = "ready"]) /\ UNCHANGED coRecorder
     ELSE /\ co' = Refreshed([co EXCEPT !.challengeStatus = "unavailable", !.proofStatus = "ineligible", !.invalid = TRUE])
          /\ coRecorder' = IF coRecorder.unavailable THEN coRecorder ELSE [Blank EXCEPT !.unavailable = TRUE]
  /\ UNCHANGED <<coGame, coServer, coLapsed>>

CoListed(q) ==
  /\ Gets(q, "list") /\ coNet' = coNet \ {q}
  /\ co' = IF q.answer = "done"
           THEN [co EXCEPT !.standings = "ranked", !.rows = {a \in CoRun : coServer[a] = "ready" /\ a \notin coLapsed.proofs}]
           ELSE [co EXCEPT !.standings = "error"]
  /\ UNCHANGED <<coGame, coRecorder, coServer, coLapsed>>

CoInspected(q) ==
  /\ Gets(q, "inspect") /\ coNet' = coNet \ {q}
  /\ co' = CASE q.answer = "done" -> [co EXCEPT !.inspection = [kind |-> "verified", entry |-> co.inspection.entry, playback |-> q.for]]
             [] q.answer = "gone" -> [co EXCEPT !.inspection.kind = "unavailable", !.rows = @ \ {q.for}]
             [] OTHER -> [co EXCEPT !.inspection.kind = "error"]
  /\ UNCHANGED <<coGame, coRecorder, coServer, coLapsed>>

CoSubmitted(q) ==
  /\ Gets(q, "submit")
  /\ CASE q.answer = "pending" -> co' = [co EXCEPT !.submission = "pending"] /\ coNet' = coNet \ {q}
       [] q.answer = "ready" -> /\ co' = [co EXCEPT !.proofStatus = "submitted", !.submission = "accepted", !.standings = "loading"]
                                /\ coNet' = Listing(coNet \ {q})
       [] OTHER -> co' = Failure(co, q.answer) /\ coNet' = coNet \ {q}
  /\ UNCHANGED <<coGame, coRecorder, coServer, coLapsed>>

CoStep ==
  \/ CoStart \/ CoBeginStage \/ CoTick \/ CoInvalidate \/ CoAbandon \/ CoDestroy \/ CoLapse
  \/ \E status \in {"won", "lost"} : CoCompleteStage(status)
  \/ CoOpen \/ CoClose \/ CoRefresh \/ CoDismiss \/ CoSubmit
  \/ \E a \in CoRun : CoInspect(a) \/ CoReconcile(a)
  \/ \E q \in coNet : CoServe(q) \/ CoDrop(q) \/ CoBegun(q) \/ CoListed(q) \/ CoInspected(q) \/ CoSubmitted(q)

\* destroy takes the listeners away.
CoNext == CoStep /\ ~co.destroyed /\ Cardinality(coNet') <= CoRequests

CoSpec == CoInit /\ [][CoNext]_coVars

-----------------------------------------------------------------------------
\* The recorder throws on a stage out of order, a tick without a stage and a
\* terminal tick that is not the number of its inputs: none of that arises.
RecorderFits ==
  ~co.invalid /\ co.attempt > 0 =>
    /\ coRecorder.done = coGame.log
    /\ co.screen # "playing" \/ (coRecorder.active = coGame.stage /\ coRecorder.inputs = coGame.tick)

\* A run is sent with the challenge, the proof and the score of one attempt,
\* whole; what the panel calls accepted is ready at the service, and for what it
\* calls pending there is a row.
CoAttemptsStayApart ==
  /\ co.challenge \in {0, co.attempt} /\ co.proof.attempt \in {0, co.attempt} /\ co.score \in {0, co.attempt}
  /\ RecorderFits
  /\ \A q \in coNet : q.kind = "submit" =>
       q.for = q.proof.attempt /\ q.for = q.score /\ (q.live => q.proof.stages = coGame.log)
  /\ co.submission = "accepted" => coServer[co.attempt] = "ready"
  /\ co.submission = "pending" => coServer[co.attempt] # "none"

\* A button the panel offers does something: the form and the two retries send
\* the run, unless the attempt was invalidated while an answer was on its way.
\* The panel is never over play, a proof that is shown is of the entry it is shown
\* for, and a closed panel shows none.
CoPanelKeepsFaith ==
  /\ Offered /\ ~co.invalid => Submittable
  /\ co.open => co.screen \in SafeScreens
  /\ co.inspection.kind = "verified" => co.inspection.playback = co.inspection.entry
  /\ ~co.open => co.inspection = NoInspection
=============================================================================
