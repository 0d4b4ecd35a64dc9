----------------------------- MODULE CabinetRun -----------------------------
(***************************************************************************)
(* A player's run on the live Maltline cabinet: the flow of screens        *)
(* (viewer-flow-controller.ts), the host that drives engine, clock and     *)
(* keys (main.ts) and the ranked session (cabinet-leaderboard.ts).         *)
(*                                                                         *)
(* All three run on one JavaScript thread, so an event handler is one      *)
(* step, with every synchronous callback it makes.  What interleaves are   *)
(* the handlers: keys, countdown timers, frames, blur and resize events,   *)
(* and the answers of the server, any of which may arrive when the run it  *)
(* belongs to is long gone.                                                *)
(***************************************************************************)
EXTENDS Integers, Sequences

CONSTANTS
  Enabled,        \* the page talks to ranked services
  StageCount,     \* stages of the campaign (eight)
  Break,          \* stages cleared before the intermission (four)
  Window,         \* ticks a challenge stays valid
  MaxAttempt,     \* bound of the model on attempts
  MaxCountdown,   \* bound of the model on countdowns
  MaxClock        \* bound of the model on time

ASSUME Shape ==
  /\ Enabled \in BOOLEAN
  /\ StageCount \in Nat \ {0} /\ Break \in Nat /\ Break < StageCount
  /\ Window \in Nat \ {0}
  /\ MaxAttempt \in Nat /\ MaxCountdown \in Nat /\ MaxClock \in Nat

VARIABLES
  clock,
  away,         \* the page is hidden or the window has no focus
  narrow,       \* the viewport is not a supported device
  screen, stage, attempt,   \* MaltlineViewerFlowState
  countdown,    \* identity of the latest countdown
  step,         \* its step: 3, 2, 1, and 0 for SERVE
  slot,         \* timerSlot: the callback the controller waits for
  timers,       \* callbacks the browser may still run
  fair,         \* MaltlineRunEligibility.rankEligible
  engine,       \* stage the engine was built for
  ticked,       \* stageInputs is not empty
  replays,      \* stageReplays, as the stages they are of
  prepared,     \* challengeStatus
  challenge,    \* the challenge held, NoChallenge for null
  locked, invalid,
  terminal,     \* attempt whose proof was built, 0 for null
  submitting,
  submitted,    \* attempt whose receipt is held, 0 for null
  dialog,       \* the Shift Board is open
  begins,       \* attempts whose begin-run request is not answered
  post,         \* each attempt's submission, as the client waits for it
  stray,        \* attempts with a given-up submission that may still land
  saved         \* attempts the server has recorded

envVars   == <<clock, away, narrow>>
flowVars  == <<screen, stage, attempt, countdown, step, slot, timers>>
playVars  == <<fair, engine, ticked, replays>>
rankVars  == <<prepared, challenge, locked, invalid, terminal, submitting, submitted>>
netVars   == <<begins, post, stray, saved>>
vars == <<envVars, flowVars, playVars, rankVars, dialog, netVars>>

Attempt == 1 .. MaxAttempt
NoChallenge == [run |-> 0, expires |-> 0]
NoTimer == [attempt |-> 0, stage |-> 0, countdown |-> 0, step |-> 0]
Upto(n) == [i \in 1 .. n |-> i - 1]   \* the stages before stage n, in order

-----------------------------------------------------------------------------
(* What handlers ask.                                                      *)

IsPlayable == ~away /\ ~narrow

Safe(s) == s \notin {"playing", "countdown"}

\* rankEligible
RankEligible == Enabled /\ ~invalid /\ challenge.run # 0 /\ challenge.expires > clock

\* protectsTerminalResult
Protected == terminal # 0 /\ submitted = 0 /\ RankEligible


\* hasUnsavedRun
HasUnsavedRun ==
  submitted = 0 /\ (screen \in {"countdown", "playing"} \/ ticked \/ replays # <<>>)

-----------------------------------------------------------------------------
Init ==
  /\ clock = 0 /\ away \in BOOLEAN /\ narrow \in BOOLEAN
  /\ screen = "title" /\ stage = 0 /\ attempt = 0
  /\ countdown = 0 /\ step = 0 /\ slot = NoTimer /\ timers = {}
  /\ fair = TRUE /\ engine = 0 /\ ticked = FALSE /\ replays = <<>>
  /\ prepared = "idle" /\ challenge = NoChallenge /\ locked = FALSE /\ invalid = FALSE
  /\ terminal = 0 /\ submitting = FALSE /\ submitted = 0
  /\ dialog = FALSE
  /\ begins = {} /\ post = [g \in Attempt |-> "none"] /\ stray = {} /\ saved = {}

-----------------------------------------------------------------------------
(* The flow controller's commit.                                           *)

\* The host shows a screen and tells the Shift Board, which closes over play.
Show(s) == screen' = s /\ dialog' = (dialog /\ Safe(s))

\* commit gives up the timer; cancelling it is advisory.
Disarm ==
  /\ slot' = NoTimer
  /\ timers' \in {timers, timers \ {slot}}

Callback(c, s) == [attempt |-> attempt, stage |-> stage, countdown |-> c, step |-> s]

\* commit, then scheduleCountdown; a scheduler that throws ends on the card.
Arm(c, s) ==
  LET t == Callback(c, s) IN
  \/ /\ Show("countdown") /\ step' = s /\ countdown' = c
     /\ slot' = t /\ timers' \in {timers \cup {t}, (timers \ {slot}) \cup {t}}
  \/ /\ Show("stage-card") /\ step' = 0 /\ countdown' = c
     /\ Disarm

\* The run is invalidated; a proof that was built stays but cannot be sent.
Unfair == fair' = FALSE /\ invalid' = TRUE

\* MaltlineCabinetLeaderboardSession.startAttempt up to its request.
ResetSession ==
  /\ prepared' = IF Enabled THEN "preparing" ELSE "unavailable"
  /\ challenge' = NoChallenge /\ locked' = FALSE /\ invalid' = FALSE
  /\ terminal' = 0 /\ submitting' = FALSE /\ submitted' = 0
  /\ begins' = IF Enabled THEN begins \cup {attempt + 1} ELSE begins

\* restart, with start-fresh-run applied by the host.
StartFreshRun ==
  /\ attempt < MaxAttempt
  /\ attempt' = attempt + 1 /\ stage' = 0 /\ step' = 0 /\ countdown' = countdown
  /\ screen' = "stage-card"
  /\ Disarm
  /\ fair' = TRUE /\ engine' = 0 /\ ticked' = FALSE /\ replays' = <<>>
  /\ ResetSession
  /\ UNCHANGED <<post, stray, saved>>

-----------------------------------------------------------------------------
(* Keys.  They reach the cabinet unless the Shift Board is open over it.   *)

KeysReach == ~narrow /\ ~dialog

\* Mutant of KeyRestart's guard: R discards a result that was not sent.
MayDiscardAlways == TRUE

\* R and Enter end a run only when no ranked result waits.
MayDiscard == ~Protected

KeyRestart ==
  /\ KeysReach
  /\ \/ MayDiscard /\ StartFreshRun /\ dialog' = FALSE
     \/ ~MayDiscard /\ dialog' = Safe(screen) /\ UNCHANGED <<flowVars, playVars, rankVars, netVars>>
  /\ UNCHANGED envVars

ShowInstructions ==
  /\ KeysReach /\ screen = "title"
  /\ Show("instructions") /\ Disarm
  /\ UNCHANGED <<envVars, stage, attempt, countdown, step, playVars, rankVars, netVars>>

\* Enter on the instructions or behind a finished run.
KeyNewRun ==
  /\ KeysReach /\ screen \in {"instructions", "gameover", "victory"}
  /\ \/ (screen = "instructions" \/ MayDiscard) /\ StartFreshRun /\ dialog' = FALSE
     \/ /\ screen # "instructions" /\ ~MayDiscard /\ dialog' = Safe(screen)
        /\ UNCHANGED <<flowVars, playVars, rankVars, netVars>>
  /\ UNCHANGED envVars

\* Mutant of LockForPlay: the card does not settle whether the run is ranked.
LockForPlayNever == UNCHANGED <<locked, invalid, challenge, prepared>>

\* lockForPlay: from now on the run is ranked or it is not.
LockForPlay ==
  /\ locked' = TRUE
  /\ IF locked \/ RankEligible
     THEN UNCHANGED <<invalid, challenge, prepared>>
     ELSE invalid' = TRUE /\ challenge' = NoChallenge /\ prepared' = "unavailable"

\* Enter on a stage card.
StartCountdown ==
  /\ KeysReach /\ screen = "stage-card" /\ countdown < MaxCountdown
  /\ IF stage = 0
     THEN ~(Enabled /\ prepared = "preparing") /\ LockForPlay
     ELSE UNCHANGED <<locked, invalid, challenge, prepared>>
  /\ Arm(countdown + 1, 3)
  /\ UNCHANGED <<envVars, stage, attempt, playVars, terminal, submitting, submitted, netVars>>

\* enterPlayingOrReturnToCard
EnterPlaying ==
  /\ Show(IF IsPlayable THEN "playing" ELSE "stage-card") /\ step' = 0
  /\ UNCHANGED <<stage, attempt, countdown>>

SkipCountdown ==
  /\ KeysReach /\ screen = "countdown"
  /\ EnterPlaying /\ Disarm
  /\ UNCHANGED <<envVars, playVars, rankVars, netVars>>

\* nextStage; the host builds the engine.
NextStage ==
  /\ Show("stage-card") /\ stage' = stage + 1
  /\ engine' = stage + 1 /\ ticked' = FALSE
  /\ UNCHANGED <<attempt, countdown, step, fair, replays>>

LastStage == stage + 1 = StageCount

\* Enter behind a cleared stage; victory opens the Shift Board.
KeyAfterStage ==
  /\ KeysReach /\ screen = "cleared"
  /\ \/ /\ LastStage
        /\ screen' = "victory" /\ dialog' = TRUE
        /\ UNCHANGED <<stage, attempt, countdown, step, playVars>>
     \/ /\ ~LastStage /\ stage + 1 = Break
        /\ Show("intermission")
        /\ UNCHANGED <<stage, attempt, countdown, step, playVars>>
     \/ ~LastStage /\ stage + 1 # Break /\ NextStage
  /\ Disarm
  /\ UNCHANGED <<envVars, rankVars, netVars>>

\* Enter, or the end of the intermission in a frame.
LeaveIntermission ==
  /\ screen = "intermission" /\ (KeysReach \/ IsPlayable)
  /\ NextStage /\ Disarm
  /\ UNCHANGED <<envVars, rankVars, netVars>>

KeyResume ==
  /\ KeysReach /\ screen = "interrupted" /\ IsPlayable
  /\ Show("playing") /\ Disarm
  /\ UNCHANGED <<envVars, stage, attempt, countdown, step, playVars, rankVars, netVars>>

-----------------------------------------------------------------------------
(* Timers and frames.                                                      *)

\* Mutant of Elapses: the countdown a callback belongs to is not compared.
ElapsesAnyCountdown(t) ==
  /\ screen = "countdown" /\ slot # NoTimer
  /\ t.attempt = attempt /\ t.stage = stage /\ t.step = step

\* The validation of countdown-elapsed.
Elapses(t) ==
  /\ screen = "countdown" /\ slot # NoTimer
  /\ t.attempt = attempt /\ t.stage = stage /\ t.countdown = countdown /\ t.step = step
  /\ slot = t

\* Mutant of Refused: the slot is cleared before the callback is validated.
RefusedDisarms == slot' = NoTimer

\* What a callback that fails validation does.
Refused == slot' = slot

TimerFires(t) ==
  /\ t \in timers
  /\ \/ /\ Elapses(t) /\ step > 0
        /\ \/ /\ Show("countdown") /\ step' = step - 1 /\ countdown' = countdown
              /\ slot' = Callback(countdown, step - 1)
              /\ timers' = (timers \ {t}) \cup {Callback(countdown, step - 1)}
           \/ /\ Show("stage-card") /\ step' = 0 /\ countdown' = countdown
              /\ slot' = NoTimer /\ timers' = timers \ {t}
        /\ UNCHANGED <<stage, attempt>>
     \/ /\ Elapses(t) /\ step = 0
        /\ EnterPlaying
        /\ slot' = NoTimer /\ timers' = timers \ {t}
     \/ /\ ~Elapses(t)
        /\ Refused /\ timers' = timers \ {t}
        /\ UNCHANGED <<screen, stage, attempt, countdown, step, dialog>>
  /\ UNCHANGED <<envVars, playVars, rankVars, netVars>>


\* recordStageReplay, after a tick.
Recorded == Append(replays, engine)

\* complete: the proof is built from the replays and verified on the spot; that
\* fails when a stage is missing or the run is longer than a proof may be.
Complete(eligible) ==
  IF ~eligible THEN UNCHANGED <<terminal, invalid>>
  ELSE \/ Recorded = Upto(stage + 1) /\ terminal' = challenge.run /\ UNCHANGED invalid
       \/ invalid' = TRUE /\ UNCHANGED terminal

\* A frame during play.  A backlog of time is dropped and ends the ranking; the
\* frame's ticks run all the same, and the last may end the stage or the run.
Frame(dropped, outcome) ==
  /\ screen = "playing" /\ IsPlayable
  /\ dropped => outcome # "waits"   \* what exceeds a full batch of ticks is dropped
  /\ ticked' = (ticked \/ outcome # "waits")
  /\ fair' = (fair /\ ~dropped)
  /\ \/ /\ outcome \in {"waits", "plays"}
        /\ invalid' = (invalid \/ dropped)
        /\ UNCHANGED <<flowVars, replays, terminal, dialog>>
     \/ /\ outcome = "clears"
        /\ Show("cleared") /\ Disarm
        /\ replays' = Recorded
        /\ IF LastStage /\ ~dropped
           THEN Complete(RankEligible)
           ELSE invalid' = (invalid \/ dropped) /\ UNCHANGED terminal
        /\ UNCHANGED <<stage, attempt, countdown, step>>
     \/ /\ outcome = "loses"
        /\ screen' = "gameover" /\ dialog' = TRUE /\ Disarm
        /\ replays' = Recorded
        /\ IF dropped THEN invalid' = TRUE /\ UNCHANGED terminal ELSE Complete(RankEligible)
        /\ UNCHANGED <<stage, attempt, countdown, step>>
  /\ UNCHANGED <<envVars, engine, prepared, challenge, locked, submitting, submitted, netVars>>

-----------------------------------------------------------------------------
(* The browser around it.                                                  *)

\* Mutant of Suspends: the ranked session is not told of a pause.
SuspendsQuietly ==
  fair' = (fair /\ screen # "playing") /\ UNCHANGED invalid

\* suspendLiveClockWithoutModal
Suspends == IF screen = "playing" THEN Unfair ELSE UNCHANGED <<fair, invalid>>

Suspend ==
  /\ away' = TRUE
  /\ Suspends
  /\ UNCHANGED <<clock, narrow, flowVars, engine, ticked, replays,
                 prepared, challenge, locked, terminal, submitting, submitted, dialog, netVars>>

Return ==
  /\ away /\ away' = FALSE
  /\ UNCHANGED <<clock, narrow, flowVars, playVars, rankVars, dialog, netVars>>

\* The dialog that asks whether to leave swallows blur events; a player who
\* stays may come back without focus.
AskToLeave ==
  /\ HasUnsavedRun /\ away' \in BOOLEAN
  /\ UNCHANGED <<clock, narrow, flowVars, playVars, rankVars, dialog, netVars>>

\* The viewport becomes too narrow: a countdown goes back to its card, a run
\* in play is interrupted.
Narrow ==
  /\ ~narrow /\ narrow' = TRUE
  /\ \/ screen = "countdown" /\ Show("stage-card") /\ step' = 0 /\ Disarm
        /\ UNCHANGED <<fair, invalid>>
     \/ screen \in {"playing", "interrupted"} /\ Show("interrupted") /\ Disarm /\ Unfair
        /\ UNCHANGED step
     \/ screen \notin {"countdown", "playing", "interrupted"}
        /\ UNCHANGED <<screen, step, slot, timers, dialog, fair, invalid>>
  /\ UNCHANGED <<clock, away, stage, attempt, countdown, engine, ticked, replays,
                 prepared, challenge, locked, terminal, submitting, submitted, netVars>>

Widen ==
  /\ narrow /\ narrow' = FALSE
  /\ UNCHANGED <<clock, away, flowVars, playVars, rankVars, dialog, netVars>>

-----------------------------------------------------------------------------
(* The Shift Board.                                                        *)

OpenPanel ==
  /\ ~dialog /\ Safe(screen) /\ dialog' = TRUE
  /\ UNCHANGED <<envVars, flowVars, playVars, rankVars, netVars>>

ClosePanel ==
  /\ dialog /\ dialog' = FALSE
  /\ UNCHANGED <<envVars, flowVars, playVars, rankVars, netVars>>

\* `Start a new run', the one way to discard a result.
PanelRestart ==
  /\ dialog /\ ~submitting /\ dialog' = FALSE
  /\ StartFreshRun
  /\ UNCHANGED envVars

\* submit
Submit ==
  /\ dialog
  /\ RankEligible /\ terminal # 0 /\ ~submitting /\ submitted = 0
  /\ submitting' = TRUE
  /\ post' = [post EXCEPT ![attempt] = "sent"]
  /\ UNCHANGED <<envVars, flowVars, playVars, prepared, challenge, locked, invalid, terminal,
                 submitted, dialog, begins, stray, saved>>

-----------------------------------------------------------------------------
(* Answers.                                                                *)

\* Mutant of Current: the answer is not tied to the attempt.
CurrentAnyAttempt(g) == g # 0

\* generation === this.generation
Current(g) == g = attempt


BeginFails == prepared' = "unavailable" /\ UNCHANGED challenge

\* startAttempt goes on: a valid challenge, or an error, a timeout, a bad one.
BeginAnswered(g) ==
  /\ g \in begins /\ begins' = begins \ {g}
  /\ \/ /\ Current(g) /\ ~locked
        /\ \/ prepared' = "ready" /\ challenge' = [run |-> g, expires |-> clock + Window]
           \/ BeginFails
     \/ ~(Current(g) /\ ~locked) /\ UNCHANGED <<prepared, challenge>>
  /\ UNCHANGED <<envVars, flowVars, playVars, locked, invalid, terminal, submitting, submitted,
                 dialog, post, stray, saved>>

\* The server records a run once.
PostDecided(g) ==
  /\ post[g] = "sent"
  /\ \/ g \notin saved /\ saved' = saved \cup {g} /\ post' = [post EXCEPT ![g] = "saved"]
     \/ post' = [post EXCEPT ![g] = "refused"] /\ UNCHANGED saved
  /\ UNCHANGED <<envVars, flowVars, playVars, rankVars, dialog, begins, stray>>

StrayLands(g) ==
  /\ g \in stray
  /\ saved' = saved \cup {g} /\ stray' = stray \ {g}
  /\ UNCHANGED <<envVars, flowVars, playVars, rankVars, dialog, begins, post>>

\* The finally of submit.
Settled(g) == submitting' = (submitting /\ ~Current(g))

\* submit goes on with a valid receipt.
SubmitAnswered(g) ==
  /\ post[g] = "saved" /\ post' = [post EXCEPT ![g] = "none"]
  /\ submitted' = IF Current(g) THEN g ELSE submitted
  /\ Settled(g)
  /\ UNCHANGED <<envVars, flowVars, playVars, prepared, challenge, locked, invalid, terminal,
                 dialog, begins, stray, saved>>

\* An error answer, an unusable receipt, or eight seconds without an answer.
SubmitFails(g) ==
  /\ post[g] # "none" /\ post' = [post EXCEPT ![g] = "none"]
  /\ stray' \in {stray, IF post[g] = "sent" THEN stray \cup {g} ELSE stray}
  /\ Settled(g)
  /\ UNCHANGED <<envVars, flowVars, playVars, prepared, challenge, locked, invalid, terminal,
                 submitted, dialog, begins, saved>>

Tick ==
  /\ clock < MaxClock /\ clock' = clock + 1
  /\ UNCHANGED <<away, narrow, flowVars, playVars, rankVars, dialog, netVars>>

-----------------------------------------------------------------------------
Keys ==
  \/ KeyRestart \/ ShowInstructions \/ KeyNewRun \/ StartCountdown \/ SkipCountdown
  \/ KeyAfterStage \/ LeaveIntermission \/ KeyResume

Browser ==
  \/ \E t \in timers : TimerFires(t)
  \/ \E dropped \in BOOLEAN, o \in {"waits", "plays", "clears", "loses"} : Frame(dropped, o)
  \/ Suspend \/ Return \/ AskToLeave \/ Narrow \/ Widen \/ Tick

Board == OpenPanel \/ ClosePanel \/ PanelRestart \/ Submit

Answers ==
  \E g \in Attempt :
    BeginAnswered(g) \/ PostDecided(g) \/ StrayLands(g) \/ SubmitAnswered(g) \/ SubmitFails(g)

Next == Keys \/ Browser \/ Board \/ Answers

Spec == Init /\ [][Next]_vars

\* Timers fire, and every request is answered or given up: the client waits eight
\* seconds for the headers, and a body that has begun is taken to come whole.
Fairness ==
  /\ WF_vars(slot \in timers /\ TimerFires(slot))
  /\ \A g \in Attempt : WF_vars(BeginAnswered(g)) /\ WF_vars(SubmitAnswered(g) \/ SubmitFails(g))

FairSpec == Spec /\ Fairness

-----------------------------------------------------------------------------
(* Properties.                                                             *)

Screens == {"title", "instructions", "stage-card", "countdown", "playing", "interrupted",
            "intermission", "cleared", "gameover", "victory"}
Timer == [attempt : Nat, stage : Nat, countdown : Nat, step : 0 .. 3]

FlowType ==
  /\ clock \in Nat /\ away \in BOOLEAN /\ narrow \in BOOLEAN /\ dialog \in BOOLEAN
  /\ screen \in Screens /\ stage \in 0 .. StageCount - 1 /\ attempt \in 0 .. MaxAttempt
  /\ countdown \in Nat /\ step \in 0 .. 3 /\ slot \in Timer /\ timers \subseteq Timer

PlayType ==
  /\ fair \in BOOLEAN /\ engine \in 0 .. StageCount - 1 /\ ticked \in BOOLEAN
  /\ replays \in Seq(0 .. StageCount - 1)

RankType ==
  /\ prepared \in {"idle", "preparing", "ready", "unavailable"}
  /\ challenge \in [run : 0 .. MaxAttempt, expires : Nat]
  /\ locked \in BOOLEAN /\ invalid \in BOOLEAN
  /\ terminal \in 0 .. MaxAttempt /\ submitting \in BOOLEAN /\ submitted \in 0 .. MaxAttempt

NetType ==
  /\ begins \subseteq Attempt /\ stray \subseteq Attempt /\ saved \subseteq Attempt
  /\ post \in [Attempt -> {"none", "sent", "saved", "refused"}]

\* The shape of the cabinet's state.
TypeOK == FlowType /\ PlayType /\ RankType /\ NetType

\* A proof that can be sent is of the attempt on screen, and that attempt was
\* played under its own challenge, stage by stage to its end, without a pause,
\* a narrow window or dropped time.
ResultIsFairAndWhole ==
  Protected =>
    /\ terminal = attempt /\ challenge.run = attempt
    /\ locked /\ fair
    /\ replays = Upto(stage + 1)
    /\ screen = "gameover" \/ (LastStage /\ screen \in {"cleared", "victory"})

\* A stage card and a countdown stand before a stage nobody has played yet, with
\* the replay of every stage before it, whatever timers and interruptions did.
CardsAreFresh ==
  screen \in {"stage-card", "countdown"} =>
    ~ticked /\ engine = stage /\ replays = Upto(stage)

\* A receipt on screen is the running attempt's and the server has that run.
ReceiptIsOurs == submitted # 0 => submitted = attempt /\ submitted \in saved

\* What was played and not recorded cannot be left without a question.
ResultIsGuarded == Protected => HasUnsavedRun

\* A countdown always waits for a callback the browser still holds, and the
\* Shift Board never covers a running countdown or stage.
CountdownIsArmed ==
  /\ screen = "countdown" => slot \in timers /\ slot.step = step
  /\ dialog => Safe(screen)

\* A countdown moves on by its own timer only: the step shown has been waited
\* for, however many abandoned callbacks fire.
CountdownIsPaced ==
  [][screen = "countdown" /\ screen' = "countdown" =>
       \/ step' = step /\ countdown' = countdown
       \/ step' = step - 1 /\ countdown' = countdown /\ slot \notin timers']_vars

\* A run that was started or goes on unranked stays unranked.
NeverUpgraded ==
  [][attempt' = attempt /\ attempt # 0 /\ ~RankEligible /\ prepared # "preparing"
       => ~RankEligible']_vars

\* Only the Shift Board gives up a result that can still be sent.
DiscardedOnPurpose == [][Protected /\ attempt' # attempt => dialog]_vars

\* No countdown and no submission hangs.
NothingHangs ==
  /\ screen = "countdown" ~> screen # "countdown"
  /\ submitting ~> ~submitting

-----------------------------------------------------------------------------
(* Why the cabinet is right: what its handlers keep true together.         *)

Ended == {"cleared", "intermission", "gameover", "victory"}

\* The timer slot is the countdown's own callback, and no run means no cards.
FlowInv ==
  /\ (slot = NoTimer) <=> (screen # "countdown")
  /\ screen = "countdown" => slot = Callback(countdown, step) /\ slot \in timers
  /\ (attempt = 0) <=> (screen \in {"title", "instructions"})
  /\ dialog => Safe(screen)

\* The recorded stages are those played, in order, and the engine is at the next.
PlayInv ==
  /\ engine = stage
  /\ replays = IF screen \in Ended THEN Upto(stage + 1) ELSE Upto(stage)
  /\ ticked => screen \notin {"title", "instructions", "stage-card", "countdown"}
  /\ attempt = 0 => stage = 0
  /\ screen = "intermission" => ~LastStage
  /\ screen = "victory" => LastStage

\* The ranking of the attempt: its challenge is its own, the lock closes before
\* play, a proof stands behind an end, and what was unfair is invalid.
RankInv ==
  /\ challenge.run \in {0, attempt}
  /\ begins \subseteq 1 .. attempt
  /\ prepared = "preparing" <=> attempt \in begins
  /\ prepared = "preparing" => Enabled /\ ~locked /\ challenge.run = 0
  /\ ~locked => stage = 0 /\ screen \in {"title", "instructions", "stage-card"}
  /\ terminal \in {0, attempt}
  /\ terminal # 0 => screen = "gameover" \/ (LastStage /\ screen \in {"cleared", "victory"})
  /\ ~fair => invalid

\* Requests in flight are of attempts that were made.
NetInv ==
  /\ submitting <=> \E g \in Attempt : g = attempt /\ post[g] # "none"
  /\ \A g \in Attempt : post[g] # "none" => g <= attempt
  /\ \A g \in Attempt : post[g] = "saved" => g \in saved
  /\ submitted # 0 => submitted = attempt /\ submitted \in saved /\ ~submitting
  /\ submitted # 0 \/ submitting => terminal # 0

IInv == FlowInv /\ PlayInv /\ RankInv /\ NetInv

-----------------------------------------------------------------------------
(* The promise of RankedRun, read off the session.                         *)

Phase ==
  CASE submitted # 0 -> "recorded"
    [] submitted = 0 /\ RankEligible ->
         IF terminal # 0 THEN "result" ELSE IF locked THEN "ranked" ELSE "offered"
    [] OTHER ->
         IF attempt = 0 THEN "idle" ELSE IF prepared = "preparing" THEN "preparing" ELSE "unranked"

Promise == INSTANCE RankedRun WITH phase <- Phase, sent <- submitting

\* The cabinet keeps that promise.
KeepsPromise == Promise!Spec
=============================================================================
