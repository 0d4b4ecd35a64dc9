--------------------------- MODULE SmilefallPlay ---------------------------
(***************************************************************************)
(* Smilefall in the browser: the screens, the attempts and the score entry *)
(* of games/smilefall/src/viewer/main.ts, with the verifier its scores are *)
(* sent to.  A stage is played under the challenge that was held when it   *)
(* was opened; its physics is reduced to the outcome of the frame that     *)
(* ends it.  The page talks to the platform twice, for a challenge and for *)
(* a score, and goes on meanwhile.                                         *)
(***************************************************************************)
EXTENDS Integers, Sequences, FiniteSets

CONSTANTS
  SfStages,          \* smilefallArcadeRun has the stages 1 .. SfStages
  SfMoods,           \* the difficulties
  SfMaxRuns,         \* bound on the challenges the platform hands out
  SfNone             \* null

ASSUME SfPlayAssumption == SfStages \in Nat \ {0} /\ SfMaxRuns \in Nat /\ SfMoods # {}

VARIABLES
  sfMode, sfPhase, sfContext, sfIndex, sfMood, sfSelected,
  sfSession,         \* the stage on screen: its level, mood, nonce and status
  sfCompleted,       \* completedStages: the selected level and the session
  sfRecorded,        \* stageRecorded
  sfChallenge,       \* rankedChallenge, whose nonce is named by its run, and
                     \* what the platform keeps for it, as it was `asked'
  sfPending,         \* the attempt that awaits its challenge; `current' says
                     \* that its generation is still attemptGeneration
  sfShown,           \* the result overlay: terminal, score disabled, form open
  sfSubmission,      \* the score in flight; scoreSubmit is disabled meanwhile
  sfSaved,           \* scoreSaved
  sfRuns,            \* how many challenges the platform has handed out
  sfTaken,           \* the runs a score was taken for
  sfStraggled        \* history: a stage ended while an attempt was pending
sfPage == <<sfContext, sfIndex, sfMood, sfSelected, sfSaved>>
sfField == <<sfSession, sfRecorded>>
sfPlatform == <<sfRuns, sfTaken>>
sfPlayVars == <<sfMode, sfPhase, sfPage, sfField, sfCompleted, sfChallenge,
                sfPending, sfShown, sfSubmission, sfPlatform, sfStraggled>>

SfLevels == 1 .. SfStages

\* The result overlay is painted anew each time it is shown.
SfNoResult == [terminal |-> FALSE, off |-> FALSE, form |-> FALSE]

SfInit ==
  /\ sfMode = "home" /\ sfPhase = "ready" /\ sfContext = "arcade" /\ sfIndex = 0
  /\ sfMood = CHOOSE m \in SfMoods : TRUE
  /\ sfSelected = 1 /\ sfSaved = FALSE
  /\ sfSession = [level |-> 1, mood |-> sfMood, nonce |-> SfNone, status |-> "running"]
  /\ sfCompleted = <<>> /\ sfRecorded = FALSE
  /\ sfChallenge = SfNone /\ sfPending = SfNone /\ sfSubmission = SfNone
  /\ sfShown = SfNoResult
  /\ sfRuns = 0 /\ sfTaken = {} /\ sfStraggled = FALSE

-----------------------------------------------------------------------------
(* What the platform makes of a score                                      *)

\* resolveOfficialSmilefallScenario: the inputs of a session lead to its
\* outcome under the level, mood and nonce they were played with.
SfReplays(record, mood, nonce) ==
  /\ record.session.level = record.level
  /\ record.session.mood = mood /\ record.session.nonce = nonce

SfWon(record) == record.session.status = "won"

SfSummary(run, records) ==
  IF run.board = "level"
  THEN [board |-> "level", mood |-> run.mood, level |-> run.level, won |-> SfWon(records[1])]
  ELSE LET cleared == Cardinality({k \in DOMAIN records : SfWon(records[k])})
       IN  [board |-> "arcade", mood |-> run.mood, completed |-> cleared = SfStages,
            reached |-> Len(records), cleared |-> cleared]

\* sameChallenge and verifySmilefallRankedProof.
SfVerifies(proof, run, nonce) ==
  /\ proof.board = run.board /\ proof.mood = run.mood /\ proof.level = run.level
  /\ Len(proof.records) \in 1 .. SfStages
  /\ \A k \in DOMAIN proof.records : SfReplays(proof.records[k], run.mood, nonce)
  /\ IF run.board = "level"
     THEN Len(proof.records) = 1 /\ proof.records[1].level = run.level
     ELSE LET n == Len(proof.records)
          IN  /\ \A k \in 1 .. n : proof.records[k].level = k
              /\ \A k \in 1 .. n - 1 : SfWon(proof.records[k])
              /\ SfWon(proof.records[n]) => n = SfStages

\* currentLeaderboardResult and currentProof, of the state they are called in.
SfClaim ==
  LET last == sfCompleted[Len(sfCompleted)]
      won  == {k \in DOMAIN sfCompleted : SfWon(sfCompleted[k])}
  IN  IF sfContext = "catalog"
      THEN [board |-> "level", mood |-> sfMood, level |-> last.level, won |-> SfWon(last)]
      ELSE [board |-> "arcade", mood |-> sfMood,
            completed |-> Len(sfCompleted) = SfStages /\ won = DOMAIN sfCompleted,
            reached |-> IF sfIndex + 1 > SfStages THEN SfStages ELSE sfIndex + 1,
            cleared |-> Cardinality(won)]
SfProof ==
  [board |-> SfClaim.board, mood |-> sfMood, records |-> sfCompleted,
   level |-> IF SfClaim.board = "level" THEN SfClaim.level ELSE SfNone]

\* verifySubmission of the platform adapter.
SfAccepted ==
  LET run == sfChallenge.asked
  IN  /\ sfChallenge.board = run.board
      /\ SfVerifies(SfProof, run, sfChallenge.run)
      /\ SfClaim = SfSummary(run, sfCompleted)

-----------------------------------------------------------------------------
(* The screens                                                             *)

\* setMode: leaving a screen calls a pending attempt off.
SfSetMode(next) ==
  /\ sfMode' = next
  /\ IF sfPending # SfNone /\ next # sfMode
     THEN sfPending' = [sfPending EXCEPT !.current = FALSE] /\ sfChallenge' = SfNone
     ELSE UNCHANGED <<sfPending, sfChallenge>>

SfNavigate ==
  /\ sfMode # "play"
  /\ \E next \in {"home", "catalog", "leaderboard"} \ {sfMode} : SfSetMode(next)
  /\ UNCHANGED <<sfPhase, sfPage, sfField, sfCompleted, sfShown, sfSubmission, sfPlatform,
                 sfStraggled>>

\* The three difficulty menus are disabled while an attempt is pending.
SfChooseMood ==
  /\ sfMode # "play" /\ sfPending = SfNone
  /\ sfMood' \in SfMoods \ {sfMood}
  /\ UNCHANGED <<sfMode, sfPhase, sfContext, sfIndex, sfSelected, sfSaved, sfField,
                 sfCompleted, sfChallenge, sfPending, sfShown, sfSubmission, sfPlatform, sfStraggled>>

\* activeRun: what confirmAbandon and the browser warn about.
SfActiveRun ==
  /\ sfMode = "play"
  /\ sfPhase = "result" =>
       \/ sfContext = "arcade" /\ sfSession.status = "won" /\ sfIndex < SfStages - 1
       \/ ~sfSaved /\ ~sfShown.off

\* goGameHome, from the pause or the result overlay.
SfHome ==
  /\ sfMode = "play" /\ sfPhase \in {"paused", "result"} /\ ~sfShown.form
  /\ sfMode' = IF sfContext = "catalog" THEN "catalog" ELSE "home"
  /\ sfPhase' = "ready" /\ sfCompleted' = <<>> /\ sfChallenge' = SfNone
  /\ sfPending' = IF sfPending = SfNone THEN SfNone
                  ELSE [sfPending EXCEPT !.current = FALSE]
  /\ sfStraggled' = FALSE /\ sfShown' = SfNoResult
  /\ UNCHANGED <<sfPage, sfField, sfSubmission, sfPlatform>>

-----------------------------------------------------------------------------
(* Attempts                                                                *)

\* Mutant of SfStart: scoreSaved is left as the last score set it.
SfStartSaved(scope, level) ==
  /\ sfPending = SfNone
  /\ sfSelected' = level /\ sfCompleted' = <<>>
  /\ sfContext' = IF scope = "arcade" THEN "arcade" ELSE "catalog"
  /\ sfIndex' = IF scope = "arcade" THEN 0 ELSE sfIndex
  /\ sfPending' = [board |-> scope, level |-> level, launch |-> sfMode,
                   mood |-> sfMood, current |-> TRUE]
  /\ sfChallenge' = SfNone /\ sfStraggled' = FALSE
  /\ UNCHANGED <<sfMode, sfPhase, sfMood, sfSaved, sfField, sfShown, sfSubmission, sfPlatform>>
\* startArcadeAttempt and startCatalogAttempt up to the await in beginChallenge.
SfStart(scope, level) ==
  /\ sfPending = SfNone
  /\ sfSaved' = FALSE /\ sfSelected' = level /\ sfCompleted' = <<>>
  /\ sfContext' = IF scope = "arcade" THEN "arcade" ELSE "catalog"
  /\ sfIndex' = IF scope = "arcade" THEN 0 ELSE sfIndex
  /\ sfPending' = [board |-> scope, level |-> level, launch |-> sfMode,
                   mood |-> sfMood, current |-> TRUE]
  /\ sfChallenge' = SfNone /\ sfStraggled' = FALSE
  /\ UNCHANGED <<sfMode, sfPhase, sfMood, sfField, sfShown, sfSubmission, sfPlatform>>

SfStartArcade == sfMode = "home" /\ SfStart("arcade", 1)
SfStartCatalog == sfMode = "catalog" /\ \E level \in SfLevels : SfStart("level", level)
\* RESTART of the pause overlay, AGAIN of a terminal result.
SfRestart ==
  /\ sfMode = "play"
  /\ sfPhase = "paused" \/ (sfPhase = "result" /\ sfShown.terminal /\ ~sfShown.form)
  /\ IF sfContext = "arcade" THEN SfStart("arcade", 1) ELSE SfStart("level", sfSelected)

\* Mutant of SfOpen: the session keeps the nonce of the one before.
SfOpenSameNonce(level, challenge) ==
  /\ sfSelected' = level
  /\ sfSession' = [sfSession EXCEPT !.level = level, !.mood = sfMood, !.status = "running"]
  /\ sfRecorded' = FALSE /\ sfMode' = "play" /\ sfPhase' = "ready"
  /\ sfShown' = SfNoResult
\* openStage with createSession and scenarioFor, under the challenge given.
SfOpen(level, challenge) ==
  /\ sfSelected' = level
  /\ sfSession' = [level |-> level, mood |-> sfMood, status |-> "running",
                   nonce |-> IF challenge # SfNone /\ challenge.mood = sfMood
                             THEN challenge.run ELSE SfNone]
  /\ sfRecorded' = FALSE /\ sfMode' = "play" /\ sfPhase' = "ready"
  /\ sfShown' = SfNoResult

\* The rest of the attempt, once its challenge is there or cannot be had.
SfProceed(challenge) ==
  /\ sfChallenge' = challenge /\ sfPending' = SfNone
  /\ IF sfMode = sfPending.launch
     THEN SfOpen(IF sfPending.board = "arcade" THEN sfSelected ELSE sfPending.level, challenge)
     ELSE UNCHANGED <<sfSelected, sfField, sfMode, sfPhase, sfShown>>
  /\ UNCHANGED <<sfContext, sfIndex, sfMood, sfSaved, sfCompleted, sfSubmission, sfStraggled>>

SfChallengeArrives ==
  /\ sfPending # SfNone /\ sfPending.current /\ sfRuns < SfMaxRuns
  /\ sfRuns' = sfRuns + 1 /\ UNCHANGED sfTaken
  /\ LET level == IF sfPending.board = "level" THEN sfPending.level ELSE SfNone
     IN  SfProceed([run |-> sfRuns', board |-> sfPending.board, mood |-> sfMood,
                    asked |-> [board |-> sfPending.board, mood |-> sfPending.mood,
                               level |-> level]])
SfChallengeFails ==
  /\ sfPending # SfNone /\ sfPending.current
  /\ SfProceed(SfNone) /\ UNCHANGED sfPlatform
\* The answer, good or bad, of a generation that is over.
SfChallengeIsStale ==
  /\ sfPending # SfNone /\ ~sfPending.current
  /\ sfPending' = SfNone
  /\ UNCHANGED <<sfMode, sfPhase, sfPage, sfField, sfCompleted, sfChallenge, sfShown,
                 sfSubmission, sfPlatform, sfStraggled>>

-----------------------------------------------------------------------------
(* Play                                                                    *)

SfSetPhase(from, next) ==
  /\ sfPhase \in from /\ sfPhase' = next
  /\ UNCHANGED <<sfMode, sfPage, sfField, sfCompleted, sfChallenge, sfPending, sfShown,
                 sfSubmission, sfPlatform, sfStraggled>>
SfBegin == sfMode = "play" /\ SfSetPhase({"ready", "paused"}, "running")
SfPause == SfSetPhase({"running"}, "paused")     \* by its button, or by a blur on any screen

SfTerminal(status) ==
  \/ sfContext = "catalog" \/ status # "won" \/ sfIndex >= SfStages - 1

\* The frame whose last tick ends the stage, on whatever screen, with
\* recordCompletedStage and finishStage.
SfFinish ==
  /\ sfPhase = "running"
  /\ \E status \in {"won", "lost"} :
       /\ sfSession' = [sfSession EXCEPT !.status = status]
       /\ sfCompleted' = IF sfRecorded THEN sfCompleted
                         ELSE Append(sfCompleted, [level |-> sfSelected, session |-> sfSession'])
       /\ sfShown' = [terminal |-> SfTerminal(status), off |-> sfChallenge = SfNone,
                      form |-> FALSE]
  /\ sfRecorded' = TRUE /\ sfPhase' = "result"
  /\ sfStraggled' = (sfStraggled \/ sfPending # SfNone)
  /\ UNCHANGED <<sfMode, sfPage, sfChallenge, sfPending, sfSubmission, sfPlatform>>

SfNextLevel ==
  /\ sfMode = "play" /\ sfPhase = "result" /\ ~sfShown.terminal /\ ~sfShown.form
  /\ sfIndex + 2 \in SfLevels
  /\ sfIndex' = sfIndex + 1 /\ SfOpen(sfIndex + 2, sfChallenge)
  /\ UNCHANGED <<sfContext, sfMood, sfSaved, sfCompleted, sfChallenge, sfPending,
                 sfSubmission, sfPlatform, sfStraggled>>

-----------------------------------------------------------------------------
(* The score entry                                                         *)

SfForm ==
  /\ sfMode = "play" /\ sfPhase = "result"
  /\ sfShown.form \/ (sfShown.terminal /\ ~sfShown.off)
  /\ sfShown' = [sfShown EXCEPT !.form = ~@]
  /\ UNCHANGED <<sfMode, sfPhase, sfPage, sfField, sfCompleted, sfChallenge, sfPending,
                 sfSubmission, sfPlatform, sfStraggled>>

\* submitScore; without a challenge it is refused before it is sent.
SfSubmit ==
  /\ sfMode = "play" /\ sfPhase = "result" /\ sfShown.form /\ sfSubmission = SfNone
  /\ sfChallenge # SfNone /\ sfCompleted # <<>>
  /\ sfSubmission' = [run |-> sfChallenge.run, good |-> SfAccepted, straggled |-> sfStraggled]
  /\ UNCHANGED <<sfMode, sfPhase, sfPage, sfField, sfCompleted, sfChallenge, sfPending,
                 sfShown, sfPlatform, sfStraggled>>

\* The platform takes the score, and its answer arrives.
SfScoreSaved ==
  /\ sfSubmission # SfNone /\ sfSubmission.good /\ sfSubmission.run \notin sfTaken
  /\ sfTaken' = sfTaken \cup {sfSubmission.run} /\ UNCHANGED sfRuns
  /\ sfSubmission' = SfNone /\ sfSaved' = TRUE /\ SfSetMode("leaderboard")
  /\ UNCHANGED <<sfPhase, sfContext, sfIndex, sfMood, sfSelected, sfField, sfCompleted,
                 sfShown, sfStraggled>>
\* It refuses the score, or an answer is lost after it was taken or before.
SfScoreFails ==
  /\ sfSubmission # SfNone /\ sfSubmission' = SfNone
  /\ \E took \in SUBSET {sfSubmission.run} :
       sfTaken' = sfTaken \cup (IF sfSubmission.good THEN took ELSE {})
  /\ UNCHANGED sfRuns
  /\ UNCHANGED <<sfMode, sfPhase, sfPage, sfField, sfCompleted, sfChallenge, sfPending,
                 sfShown, sfStraggled>>

SfNext ==
  \/ SfNavigate \/ SfChooseMood \/ SfHome
  \/ SfStartArcade \/ SfStartCatalog \/ SfRestart
  \/ SfChallengeArrives \/ SfChallengeFails \/ SfChallengeIsStale
  \/ SfBegin \/ SfPause \/ SfFinish \/ SfNextLevel
  \/ SfForm \/ SfSubmit \/ SfScoreSaved \/ SfScoreFails

SfPlaySpec == SfInit /\ [][SfNext]_sfPlayVars

-----------------------------------------------------------------------------
SfSessions == [level : SfLevels, mood : SfMoods, nonce : 1 .. SfMaxRuns \cup {SfNone},
               status : {"running", "won", "lost"}]

(* Every variable has its type, and a result is only shown of a stage that *)
(* was recorded.                                                           *)
SfTypeOK ==
  /\ sfMode \in {"home", "catalog", "leaderboard", "play"}
  /\ sfPhase \in {"ready", "running", "paused", "result"}
  /\ sfContext \in {"arcade", "catalog"} /\ sfIndex \in 0 .. SfStages - 1
  /\ sfMood \in SfMoods /\ sfSelected \in SfLevels /\ sfSession \in SfSessions
  /\ sfCompleted \in Seq([level : SfLevels, session : SfSessions])
  /\ sfShown \in [terminal : BOOLEAN, off : BOOLEAN, form : BOOLEAN]
  /\ {sfRecorded, sfSaved, sfStraggled} \subseteq BOOLEAN
  /\ sfPhase = "result" => sfRecorded

(* Whatever was restarted, called off or answered late on the way, a       *)
(* ranked score the form sends is one the platform's verifier accepts:     *)
(* its stages are the official progression, each played under the nonce of *)
(* the run it is sent for, and the claimed summary is the verified one.    *)
(* The one exception is a run whose attempt was pending while a stage of   *)
(* the run before it ended.                                                *)
SfSubmissionsVerify ==
  /\ SfTypeOK
  /\ sfSubmission # SfNone /\ ~sfSubmission.straggled => sfSubmission.good

(* The warning before a run is left is never silenced for a run on screen  *)
(* that still has something to lose: a stage to play, or a ranked score    *)
(* nobody has sent.  An answer to an earlier score sets the flag that      *)
(* silences it.                                                            *)
SfUnsavedRunsAreWarned ==
  sfMode = "play" /\ (sfPhase = "result" => sfShown.terminal /\ sfChallenge # SfNone
                                            /\ sfChallenge.run \notin sfTaken)
    => SfActiveRun
=============================================================================
