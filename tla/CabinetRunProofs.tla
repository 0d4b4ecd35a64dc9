-------------------------- MODULE CabinetRunProofs --------------------------
(***************************************************************************)
(* Proofs about the live cabinet.  One invariant, IInv, carries all of     *)
(* them: which part of it a step can disturb is one lemma each, with one   *)
(* case per action.                                                        *)
(***************************************************************************)
EXTENDS CabinetRun, TLAPS

\* The shape of the state, regrouped by what a prover can do in one go.
Flags ==
  /\ away \in BOOLEAN /\ narrow \in BOOLEAN /\ dialog \in BOOLEAN
  /\ fair \in BOOLEAN /\ ticked \in BOOLEAN /\ locked \in BOOLEAN /\ invalid \in BOOLEAN
  /\ submitting \in BOOLEAN

Numbers ==
  /\ clock \in Nat /\ screen \in Screens /\ stage \in 0 .. StageCount - 1 /\ attempt \in 0 .. MaxAttempt
  /\ countdown \in Nat /\ step \in 0 .. 3 /\ slot \in Timer /\ timers \subseteq Timer

Stages == engine \in 0 .. StageCount - 1 /\ replays \in Seq(0 .. StageCount - 1)

Ranks ==
  /\ prepared \in {"idle", "preparing", "ready", "unavailable"}
  /\ challenge \in [run : 0 .. MaxAttempt, expires : Nat]
  /\ terminal \in 0 .. MaxAttempt /\ submitted \in 0 .. MaxAttempt

\* No stage comes before the first.
LEMMA UptoZero == Upto(0) = <<>>
  BY DEF Upto

\* Recording a stage after those before it gives the stages before the next.
LEMMA UptoNext ==
  ASSUME NEW n \in Nat
  PROVE  Append(Upto(n), n) = Upto(n + 1)
  BY DEF Upto

\* Every step keeps the flags flags.
LEMMA FlagStep ==
  ASSUME TypeOK, IInv, [Next]_vars
  PROVE  Flags'
<1> USE Shape DEF TypeOK, FlowType, PlayType, RankType, NetType, NoTimer, NoChallenge, Attempt,
   Flags, Safe, RankEligible
<1>1. CASE KeyRestart
  BY <1>1 DEF KeyRestart, StartFreshRun, ResetSession, Disarm, envVars, flowVars, playVars,
     rankVars, netVars
<1>2. CASE ShowInstructions
  BY <1>2 DEF ShowInstructions, Show, Disarm, envVars, flowVars, playVars, rankVars, netVars
<1>3. CASE KeyNewRun
  BY <1>3 DEF KeyNewRun, StartFreshRun, ResetSession, Disarm, envVars, flowVars, playVars,
     rankVars, netVars
<1>4. CASE StartCountdown
  BY <1>4 DEF StartCountdown, LockForPlay, Arm, Show, Disarm, Callback, NoChallenge, envVars,
     flowVars, playVars, rankVars, netVars
<1>5. CASE SkipCountdown
  BY <1>5 DEF SkipCountdown, EnterPlaying, Show, Disarm, envVars, flowVars, playVars, rankVars,
     netVars
<1>6. CASE KeyAfterStage
  BY <1>6 DEF KeyAfterStage, NextStage, LastStage, Show, Disarm, envVars, flowVars, playVars,
     rankVars, netVars
<1>7. CASE LeaveIntermission
  BY <1>7 DEF LeaveIntermission, NextStage, LastStage, Show, Disarm, envVars, flowVars, playVars,
     rankVars, netVars
<1>8. CASE KeyResume
  BY <1>8 DEF KeyResume, Show, Disarm, envVars, flowVars, playVars, rankVars, netVars
<1>9. CASE \E t \in timers : TimerFires(t)
  BY <1>9 DEF TimerFires, Elapses, Refused, EnterPlaying, Show, Callback, envVars, flowVars,
     playVars, rankVars, netVars
<1>10. CASE \E dropped \in BOOLEAN, o \in {"waits", "plays", "clears", "loses"} : Frame(dropped, o)
  <2> PICK dropped \in BOOLEAN, o \in {"waits", "plays", "clears", "loses"} : Frame(dropped, o)
    BY <1>10
  <2>1. CASE o \in {"waits", "plays"}
    BY <2>1 DEF Frame, envVars, flowVars, playVars, rankVars, netVars
  <2>2. CASE o = "clears"
    <3>1. CASE LastStage /\ ~dropped
      BY <2>2, <3>1 DEF Frame, Recorded, Complete, Show, Disarm, LastStage, envVars, flowVars,
         playVars, rankVars, netVars
    <3>2. CASE ~(LastStage /\ ~dropped)
      BY <2>2, <3>2 DEF Frame, Recorded, Complete, Show, Disarm, LastStage, envVars, flowVars,
         playVars, rankVars, netVars
    <3> QED BY <3>1, <3>2
  <2>3. CASE o = "loses"
    BY <2>3 DEF Frame, Recorded, Complete, Disarm, envVars, flowVars, playVars, rankVars, netVars
  <2> QED BY <2>1, <2>2, <2>3
<1>11. CASE Suspend
  BY <1>11 DEF Suspend, Suspends, Unfair, envVars, flowVars, playVars, rankVars, netVars
<1>12. CASE Return
  BY <1>12 DEF Return, envVars, flowVars, playVars, rankVars, netVars
<1>13. CASE AskToLeave
  BY <1>13 DEF AskToLeave, envVars, flowVars, playVars, rankVars, netVars
<1>14. CASE Narrow
  BY <1>14 DEF Narrow, Show, Disarm, Unfair, envVars, flowVars, playVars, rankVars, netVars
<1>15. CASE Widen
  BY <1>15 DEF Widen, envVars, flowVars, playVars, rankVars, netVars
<1>16. CASE Tick
  BY <1>16 DEF Tick, envVars, flowVars, playVars, rankVars, netVars
<1>17. CASE OpenPanel
  BY <1>17 DEF OpenPanel, envVars, flowVars, playVars, rankVars, netVars
<1>18. CASE ClosePanel
  BY <1>18 DEF ClosePanel, envVars, flowVars, playVars, rankVars, netVars
<1>19. CASE PanelRestart
  BY <1>19 DEF PanelRestart, StartFreshRun, ResetSession, Disarm, envVars, flowVars, playVars,
     rankVars, netVars
<1>20. CASE Submit
  BY <1>20 DEF Submit, envVars, flowVars, playVars, rankVars, netVars
<1>21. CASE \E g \in Attempt : BeginAnswered(g)
  BY <1>21 DEF BeginAnswered, Current, BeginFails, envVars, flowVars, playVars, rankVars, netVars
<1>22. CASE \E g \in Attempt : PostDecided(g)
  BY <1>22 DEF PostDecided, envVars, flowVars, playVars, rankVars, netVars
<1>23. CASE \E g \in Attempt : StrayLands(g)
  BY <1>23 DEF StrayLands, envVars, flowVars, playVars, rankVars, netVars
<1>24. CASE \E g \in Attempt : SubmitAnswered(g)
  BY <1>24 DEF SubmitAnswered, Settled, Current, envVars, flowVars, playVars, rankVars, netVars
<1>25. CASE \E g \in Attempt : SubmitFails(g)
  BY <1>25 DEF SubmitFails, Settled, Current, envVars, flowVars, playVars, rankVars, netVars
<1>26. CASE UNCHANGED vars
  BY <1>26 DEF vars, envVars, flowVars, playVars, rankVars, netVars
<1> QED
  BY <1>1, <1>2, <1>3, <1>4, <1>5, <1>6, <1>7, <1>8, <1>9, <1>10, <1>11, <1>12, <1>13, <1>14,
     <1>15, <1>16, <1>17, <1>18, <1>19, <1>20, <1>21, <1>22, <1>23, <1>24, <1>25, <1>26 DEF Next,
     Keys, Browser, Board, Answers

\* Every step keeps the flow's values in range.
LEMMA NumberStep ==
  ASSUME TypeOK, IInv, [Next]_vars
  PROVE  Numbers'
<1> USE Shape DEF TypeOK, FlowType, PlayType, RankType, NetType, NoTimer, NoChallenge, Attempt,
   Numbers, Timer, Screens, IInv, PlayInv, LastStage
<1>1. CASE KeyRestart
  <2>1. CASE StartFreshRun /\ dialog' = FALSE /\ UNCHANGED envVars
    BY <2>1 DEF StartFreshRun, ResetSession, Disarm, envVars
  <2>2. CASE dialog' = Safe(screen) /\ UNCHANGED <<flowVars, playVars, rankVars, netVars, envVars>>
    BY <2>2 DEF envVars, flowVars, playVars, rankVars, netVars
  <2> QED BY <1>1, <2>1, <2>2 DEF KeyRestart
<1>2. CASE ShowInstructions
  BY <1>2 DEF ShowInstructions, Show, Disarm, envVars, flowVars, playVars, rankVars, netVars
<1>3. CASE KeyNewRun
  <2>1. CASE StartFreshRun /\ dialog' = FALSE /\ UNCHANGED envVars
    BY <2>1 DEF StartFreshRun, ResetSession, Disarm, envVars
  <2>2. CASE dialog' = Safe(screen) /\ UNCHANGED <<flowVars, playVars, rankVars, netVars, envVars>>
    BY <2>2 DEF envVars, flowVars, playVars, rankVars, netVars
  <2> QED BY <1>3, <2>1, <2>2 DEF KeyNewRun
<1>4. CASE StartCountdown
  <2>1. Arm(countdown + 1, 3) /\ UNCHANGED <<clock, stage, attempt>>
    BY <1>4 DEF StartCountdown, envVars
  <2>2. Callback(countdown + 1, 3) \in Timer
    BY DEF Callback
  <2>3. slot' \in Timer /\ timers' \subseteq Timer
    BY <2>1, <2>2 DEF Arm, Disarm
  <2>4. screen' \in Screens /\ step' \in 0 .. 3 /\ countdown' \in Nat
    BY <2>1 DEF Arm, Show
  <2> QED BY <2>1, <2>3, <2>4
<1>5. CASE SkipCountdown
  BY <1>5 DEF SkipCountdown, EnterPlaying, Show, Disarm, envVars, flowVars, playVars, rankVars,
     netVars
<1>6. CASE KeyAfterStage
  <2>1. CASE LastStage
    BY <1>6, <2>1 DEF KeyAfterStage, LastStage, Disarm, envVars, flowVars, playVars, rankVars,
       netVars
  <2>2. CASE ~LastStage /\ stage + 1 = Break
    BY <1>6, <2>2 DEF KeyAfterStage, LastStage, Show, Disarm, envVars, flowVars, playVars,
       rankVars, netVars
  <2>3. CASE ~LastStage /\ stage + 1 # Break
    BY <1>6, <2>3 DEF KeyAfterStage, LastStage, NextStage, Show, Disarm, envVars, flowVars,
       playVars, rankVars, netVars
  <2> QED BY <2>1, <2>2, <2>3
<1>7. CASE LeaveIntermission
  BY <1>7 DEF LeaveIntermission, NextStage, LastStage, Show, Disarm, envVars, flowVars, playVars,
     rankVars, netVars
<1>8. CASE KeyResume
  BY <1>8 DEF KeyResume, Show, Disarm, envVars, flowVars, playVars, rankVars, netVars
<1>9. CASE \E t \in timers : TimerFires(t)
  <2> PICK t \in timers : TimerFires(t)
    BY <1>9
  <2>1. CASE Elapses(t) /\ step > 0
    BY <2>1 DEF TimerFires, Elapses, Show, Callback, envVars, flowVars, playVars, rankVars,
       netVars
  <2>2. CASE Elapses(t) /\ step = 0
    BY <2>2 DEF TimerFires, Elapses, EnterPlaying, Show, envVars, flowVars, playVars, rankVars,
       netVars
  <2>3. CASE ~Elapses(t)
    BY <2>3 DEF TimerFires, Elapses, Refused, envVars, flowVars, playVars, rankVars, netVars
  <2> QED BY <2>1, <2>2, <2>3 DEF TimerFires
<1>10. CASE \E dropped \in BOOLEAN, o \in {"waits", "plays", "clears", "loses"} : Frame(dropped, o)
  <2> PICK dropped \in BOOLEAN, o \in {"waits", "plays", "clears", "loses"} : Frame(dropped, o)
    BY <1>10
  <2>1. CASE o \in {"waits", "plays"}
    BY <2>1 DEF Frame, envVars, flowVars, playVars, rankVars, netVars
  <2>2. CASE o = "clears"
    <3>1. CASE LastStage /\ ~dropped
      BY <2>2, <3>1 DEF Frame, Recorded, Complete, Show, Disarm, LastStage, envVars, flowVars,
         playVars, rankVars, netVars
    <3>2. CASE ~(LastStage /\ ~dropped)
      BY <2>2, <3>2 DEF Frame, Recorded, Complete, Show, Disarm, LastStage, envVars, flowVars,
         playVars, rankVars, netVars
    <3> QED BY <3>1, <3>2
  <2>3. CASE o = "loses"
    BY <2>3 DEF Frame, Recorded, Complete, Disarm, envVars, flowVars, playVars, rankVars, netVars
  <2> QED BY <2>1, <2>2, <2>3
<1>11. CASE Suspend
  BY <1>11 DEF Suspend, Suspends, Unfair, envVars, flowVars, playVars, rankVars, netVars
<1>12. CASE Return
  BY <1>12 DEF Return, envVars, flowVars, playVars, rankVars, netVars
<1>13. CASE AskToLeave
  BY <1>13 DEF AskToLeave, envVars, flowVars, playVars, rankVars, netVars
<1>14. CASE Narrow
  BY <1>14 DEF Narrow, Show, Disarm, Unfair, envVars, flowVars, playVars, rankVars, netVars
<1>15. CASE Widen
  BY <1>15 DEF Widen, envVars, flowVars, playVars, rankVars, netVars
<1>16. CASE Tick
  BY <1>16 DEF Tick, envVars, flowVars, playVars, rankVars, netVars
<1>17. CASE OpenPanel
  BY <1>17 DEF OpenPanel, envVars, flowVars, playVars, rankVars, netVars
<1>18. CASE ClosePanel
  BY <1>18 DEF ClosePanel, envVars, flowVars, playVars, rankVars, netVars
<1>19. CASE PanelRestart
  BY <1>19 DEF PanelRestart, StartFreshRun, ResetSession, Disarm, envVars, flowVars, playVars,
     rankVars, netVars
<1>20. CASE Submit
  BY <1>20 DEF Submit, envVars, flowVars, playVars, rankVars, netVars
<1>21. CASE \E g \in Attempt : BeginAnswered(g)
  BY <1>21 DEF BeginAnswered, Current, BeginFails, envVars, flowVars, playVars, rankVars, netVars
<1>22. CASE \E g \in Attempt : PostDecided(g)
  BY <1>22 DEF PostDecided, envVars, flowVars, playVars, rankVars, netVars
<1>23. CASE \E g \in Attempt : StrayLands(g)
  BY <1>23 DEF StrayLands, envVars, flowVars, playVars, rankVars, netVars
<1>24. CASE \E g \in Attempt : SubmitAnswered(g)
  BY <1>24 DEF SubmitAnswered, Settled, Current, envVars, flowVars, playVars, rankVars, netVars
<1>25. CASE \E g \in Attempt : SubmitFails(g)
  BY <1>25 DEF SubmitFails, Settled, Current, envVars, flowVars, playVars, rankVars, netVars
<1>26. CASE UNCHANGED vars
  BY <1>26 DEF vars, envVars, flowVars, playVars, rankVars, netVars
<1> QED
  BY <1>1, <1>2, <1>3, <1>4, <1>5, <1>6, <1>7, <1>8, <1>9, <1>10, <1>11, <1>12, <1>13, <1>14,
     <1>15, <1>16, <1>17, <1>18, <1>19, <1>20, <1>21, <1>22, <1>23, <1>24, <1>25, <1>26 DEF Next,
     Keys, Browser, Board, Answers

\* Every step keeps the recorded stages stages.
LEMMA StagesStep ==
  ASSUME TypeOK, IInv, [Next]_vars
  PROVE  Stages'
<1> USE Shape DEF TypeOK, FlowType, PlayType, RankType, NetType, NoTimer, NoChallenge, Attempt,
   Stages, IInv, PlayInv, LastStage
<1>1. CASE KeyRestart
  <2>1. CASE StartFreshRun /\ dialog' = FALSE /\ UNCHANGED envVars
    BY <2>1 DEF StartFreshRun, ResetSession, Disarm, envVars
  <2>2. CASE dialog' = Safe(screen) /\ UNCHANGED <<flowVars, playVars, rankVars, netVars, envVars>>
    BY <2>2 DEF envVars, flowVars, playVars, rankVars, netVars
  <2> QED BY <1>1, <2>1, <2>2 DEF KeyRestart
<1>2. CASE ShowInstructions
  BY <1>2 DEF ShowInstructions, Show, Disarm, envVars, flowVars, playVars, rankVars, netVars
<1>3. CASE KeyNewRun
  <2>1. CASE StartFreshRun /\ dialog' = FALSE /\ UNCHANGED envVars
    BY <2>1 DEF StartFreshRun, ResetSession, Disarm, envVars
  <2>2. CASE dialog' = Safe(screen) /\ UNCHANGED <<flowVars, playVars, rankVars, netVars, envVars>>
    BY <2>2 DEF envVars, flowVars, playVars, rankVars, netVars
  <2> QED BY <1>3, <2>1, <2>2 DEF KeyNewRun
<1>4. CASE StartCountdown
  BY <1>4 DEF StartCountdown, LockForPlay, Arm, Show, Disarm, Callback, NoChallenge, envVars,
     flowVars, playVars, rankVars, netVars
<1>5. CASE SkipCountdown
  BY <1>5 DEF SkipCountdown, EnterPlaying, Show, Disarm, envVars, flowVars, playVars, rankVars,
     netVars
<1>6. CASE KeyAfterStage
  BY <1>6 DEF KeyAfterStage, NextStage, LastStage, Show, Disarm, envVars, flowVars, playVars,
     rankVars, netVars
<1>7. CASE LeaveIntermission
  BY <1>7 DEF LeaveIntermission, NextStage, LastStage, Show, Disarm, envVars, flowVars, playVars,
     rankVars, netVars
<1>8. CASE KeyResume
  BY <1>8 DEF KeyResume, Show, Disarm, envVars, flowVars, playVars, rankVars, netVars
<1>9. CASE \E t \in timers : TimerFires(t)
  BY <1>9 DEF TimerFires, Elapses, Refused, EnterPlaying, Show, Callback, envVars, flowVars,
     playVars, rankVars, netVars
<1>10. CASE \E dropped \in BOOLEAN, o \in {"waits", "plays", "clears", "loses"} : Frame(dropped, o)
  <2> PICK dropped \in BOOLEAN, o \in {"waits", "plays", "clears", "loses"} : Frame(dropped, o)
    BY <1>10
  <2>4. Recorded \in Seq(0 .. StageCount - 1)
    BY DEF Recorded
  <2>1. CASE o \in {"waits", "plays"}
    BY <2>1 DEF Frame, envVars, flowVars, playVars, rankVars, netVars
  <2>2. CASE o = "clears"
    <3>1. CASE LastStage /\ ~dropped
      BY <2>4, <2>2, <3>1 DEF Frame, Complete, Show, Disarm, LastStage, envVars, flowVars,
         playVars, rankVars, netVars
    <3>2. CASE ~(LastStage /\ ~dropped)
      BY <2>4, <2>2, <3>2 DEF Frame, Complete, Show, Disarm, LastStage, envVars, flowVars,
         playVars, rankVars, netVars
    <3> QED BY <3>1, <3>2
  <2>3. CASE o = "loses"
    BY <2>4, <2>3 DEF Frame, Complete, Disarm, envVars, flowVars, playVars, rankVars, netVars
  <2> QED BY <2>1, <2>2, <2>3
<1>11. CASE Suspend
  BY <1>11 DEF Suspend, Suspends, Unfair, envVars, flowVars, playVars, rankVars, netVars
<1>12. CASE Return
  BY <1>12 DEF Return, envVars, flowVars, playVars, rankVars, netVars
<1>13. CASE AskToLeave
  BY <1>13 DEF AskToLeave, envVars, flowVars, playVars, rankVars, netVars
<1>14. CASE Narrow
  BY <1>14 DEF Narrow, Show, Disarm, Unfair, envVars, flowVars, playVars, rankVars, netVars
<1>15. CASE Widen
  BY <1>15 DEF Widen, envVars, flowVars, playVars, rankVars, netVars
<1>16. CASE Tick
  BY <1>16 DEF Tick, envVars, flowVars, playVars, rankVars, netVars
<1>17. CASE OpenPanel
  BY <1>17 DEF OpenPanel, envVars, flowVars, playVars, rankVars, netVars
<1>18. CASE ClosePanel
  BY <1>18 DEF ClosePanel, envVars, flowVars, playVars, rankVars, netVars
<1>19. CASE PanelRestart
  BY <1>19 DEF PanelRestart, StartFreshRun, ResetSession, Disarm, envVars, flowVars, playVars,
     rankVars, netVars
<1>20. CASE Submit
  BY <1>20 DEF Submit, envVars, flowVars, playVars, rankVars, netVars
<1>21. CASE \E g \in Attempt : BeginAnswered(g)
  BY <1>21 DEF BeginAnswered, Current, BeginFails, envVars, flowVars, playVars, rankVars, netVars
<1>22. CASE \E g \in Attempt : PostDecided(g)
  BY <1>22 DEF PostDecided, envVars, flowVars, playVars, rankVars, netVars
<1>23. CASE \E g \in Attempt : StrayLands(g)
  BY <1>23 DEF StrayLands, envVars, flowVars, playVars, rankVars, netVars
<1>24. CASE \E g \in Attempt : SubmitAnswered(g)
  BY <1>24 DEF SubmitAnswered, Settled, Current, envVars, flowVars, playVars, rankVars, netVars
<1>25. CASE \E g \in Attempt : SubmitFails(g)
  BY <1>25 DEF SubmitFails, Settled, Current, envVars, flowVars, playVars, rankVars, netVars
<1>26. CASE UNCHANGED vars
  BY <1>26 DEF vars, envVars, flowVars, playVars, rankVars, netVars
<1> QED
  BY <1>1, <1>2, <1>3, <1>4, <1>5, <1>6, <1>7, <1>8, <1>9, <1>10, <1>11, <1>12, <1>13, <1>14,
     <1>15, <1>16, <1>17, <1>18, <1>19, <1>20, <1>21, <1>22, <1>23, <1>24, <1>25, <1>26 DEF Next,
     Keys, Browser, Board, Answers

\* Every step keeps the ranked session's values in range.
LEMMA RanksStep ==
  ASSUME TypeOK, IInv, [Next]_vars
  PROVE  Ranks'
<1> USE Shape DEF TypeOK, FlowType, PlayType, RankType, NetType, NoTimer, NoChallenge, Attempt,
   Ranks, RankEligible
<1>1. CASE KeyRestart
  BY <1>1 DEF KeyRestart, StartFreshRun, ResetSession, Disarm, envVars, flowVars, playVars,
     rankVars, netVars
<1>2. CASE ShowInstructions
  BY <1>2 DEF ShowInstructions, Show, Disarm, envVars, flowVars, playVars, rankVars, netVars
<1>3. CASE KeyNewRun
  BY <1>3 DEF KeyNewRun, StartFreshRun, ResetSession, Disarm, envVars, flowVars, playVars,
     rankVars, netVars
<1>4. CASE StartCountdown
  BY <1>4 DEF StartCountdown, LockForPlay, Arm, Show, Disarm, Callback, NoChallenge, envVars,
     flowVars, playVars, rankVars, netVars
<1>5. CASE SkipCountdown
  BY <1>5 DEF SkipCountdown, EnterPlaying, Show, Disarm, envVars, flowVars, playVars, rankVars,
     netVars
<1>6. CASE KeyAfterStage
  BY <1>6 DEF KeyAfterStage, NextStage, LastStage, Show, Disarm, envVars, flowVars, playVars,
     rankVars, netVars
<1>7. CASE LeaveIntermission
  BY <1>7 DEF LeaveIntermission, NextStage, LastStage, Show, Disarm, envVars, flowVars, playVars,
     rankVars, netVars
<1>8. CASE KeyResume
  BY <1>8 DEF KeyResume, Show, Disarm, envVars, flowVars, playVars, rankVars, netVars
<1>9. CASE \E t \in timers : TimerFires(t)
  BY <1>9 DEF TimerFires, Elapses, Refused, EnterPlaying, Show, Callback, envVars, flowVars,
     playVars, rankVars, netVars
<1>10. CASE \E dropped \in BOOLEAN, o \in {"waits", "plays", "clears", "loses"} : Frame(dropped, o)
  BY <1>10 DEF Frame, Recorded, Complete, Show, Disarm, LastStage, envVars, flowVars, playVars,
     rankVars, netVars
<1>11. CASE Suspend
  BY <1>11 DEF Suspend, Suspends, Unfair, envVars, flowVars, playVars, rankVars, netVars
<1>12. CASE Return
  BY <1>12 DEF Return, envVars, flowVars, playVars, rankVars, netVars
<1>13. CASE AskToLeave
  BY <1>13 DEF AskToLeave, envVars, flowVars, playVars, rankVars, netVars
<1>14. CASE Narrow
  BY <1>14 DEF Narrow, Show, Disarm, Unfair, envVars, flowVars, playVars, rankVars, netVars
<1>15. CASE Widen
  BY <1>15 DEF Widen, envVars, flowVars, playVars, rankVars, netVars
<1>16. CASE Tick
  BY <1>16 DEF Tick, envVars, flowVars, playVars, rankVars, netVars
<1>17. CASE OpenPanel
  BY <1>17 DEF OpenPanel, envVars, flowVars, playVars, rankVars, netVars
<1>18. CASE ClosePanel
  BY <1>18 DEF ClosePanel, envVars, flowVars, playVars, rankVars, netVars
<1>19. CASE PanelRestart
  BY <1>19 DEF PanelRestart, StartFreshRun, ResetSession, Disarm, envVars, flowVars, playVars,
     rankVars, netVars
<1>20. CASE Submit
  BY <1>20 DEF Submit, envVars, flowVars, playVars, rankVars, netVars
<1>21. CASE \E g \in Attempt : BeginAnswered(g)
  BY <1>21 DEF BeginAnswered, Current, BeginFails, envVars, flowVars, playVars, rankVars, netVars
<1>22. CASE \E g \in Attempt : PostDecided(g)
  BY <1>22 DEF PostDecided, envVars, flowVars, playVars, rankVars, netVars
<1>23. CASE \E g \in Attempt : StrayLands(g)
  BY <1>23 DEF StrayLands, envVars, flowVars, playVars, rankVars, netVars
<1>24. CASE \E g \in Attempt : SubmitAnswered(g)
  BY <1>24 DEF SubmitAnswered, Settled, Current, envVars, flowVars, playVars, rankVars, netVars
<1>25. CASE \E g \in Attempt : SubmitFails(g)
  BY <1>25 DEF SubmitFails, Settled, Current, envVars, flowVars, playVars, rankVars, netVars
<1>26. CASE UNCHANGED vars
  BY <1>26 DEF vars, envVars, flowVars, playVars, rankVars, netVars
<1> QED
  BY <1>1, <1>2, <1>3, <1>4, <1>5, <1>6, <1>7, <1>8, <1>9, <1>10, <1>11, <1>12, <1>13, <1>14,
     <1>15, <1>16, <1>17, <1>18, <1>19, <1>20, <1>21, <1>22, <1>23, <1>24, <1>25, <1>26 DEF Next,
     Keys, Browser, Board, Answers

\* Every step keeps the shape of the requests in flight.
LEMMA NetTypeStep ==
  ASSUME TypeOK, IInv, [Next]_vars
  PROVE  NetType'
<1> USE Shape DEF TypeOK, FlowType, PlayType, RankType, NetType, NoTimer, NoChallenge, Attempt
<1>1. CASE KeyRestart
  <2>1. CASE StartFreshRun /\ dialog' = FALSE /\ UNCHANGED envVars
    BY <2>1 DEF StartFreshRun, ResetSession, Disarm, envVars
  <2>2. CASE dialog' = Safe(screen) /\ UNCHANGED <<flowVars, playVars, rankVars, netVars, envVars>>
    BY <2>2 DEF envVars, flowVars, playVars, rankVars, netVars
  <2> QED BY <1>1, <2>1, <2>2 DEF KeyRestart
<1>2. CASE ShowInstructions
  BY <1>2 DEF ShowInstructions, Show, Disarm, envVars, flowVars, playVars, rankVars, netVars
<1>3. CASE KeyNewRun
  <2>1. CASE StartFreshRun /\ dialog' = FALSE /\ UNCHANGED envVars
    BY <2>1 DEF StartFreshRun, ResetSession, Disarm, envVars
  <2>2. CASE dialog' = Safe(screen) /\ UNCHANGED <<flowVars, playVars, rankVars, netVars, envVars>>
    BY <2>2 DEF envVars, flowVars, playVars, rankVars, netVars
  <2> QED BY <1>3, <2>1, <2>2 DEF KeyNewRun
<1>4. CASE StartCountdown
  BY <1>4 DEF StartCountdown, LockForPlay, Arm, Show, Disarm, Callback, NoChallenge, envVars,
     flowVars, playVars, rankVars, netVars
<1>5. CASE SkipCountdown
  BY <1>5 DEF SkipCountdown, EnterPlaying, Show, Disarm, envVars, flowVars, playVars, rankVars,
     netVars
<1>6. CASE KeyAfterStage
  BY <1>6 DEF KeyAfterStage, NextStage, LastStage, Show, Disarm, envVars, flowVars, playVars,
     rankVars, netVars
<1>7. CASE LeaveIntermission
  BY <1>7 DEF LeaveIntermission, NextStage, LastStage, Show, Disarm, envVars, flowVars, playVars,
     rankVars, netVars
<1>8. CASE KeyResume
  BY <1>8 DEF KeyResume, Show, Disarm, envVars, flowVars, playVars, rankVars, netVars
<1>9. CASE \E t \in timers : TimerFires(t)
  BY <1>9 DEF TimerFires, Elapses, Refused, EnterPlaying, Show, Callback, envVars, flowVars,
     playVars, rankVars, netVars
<1>10. CASE \E dropped \in BOOLEAN, o \in {"waits", "plays", "clears", "loses"} : Frame(dropped, o)
  BY <1>10 DEF Frame, Recorded, Complete, Show, Disarm, LastStage, envVars, flowVars, playVars,
     rankVars, netVars
<1>11. CASE Suspend
  BY <1>11 DEF Suspend, Suspends, Unfair, envVars, flowVars, playVars, rankVars, netVars
<1>12. CASE Return
  BY <1>12 DEF Return, envVars, flowVars, playVars, rankVars, netVars
<1>13. CASE AskToLeave
  BY <1>13 DEF AskToLeave, envVars, flowVars, playVars, rankVars, netVars
<1>14. CASE Narrow
  BY <1>14 DEF Narrow, Show, Disarm, Unfair, envVars, flowVars, playVars, rankVars, netVars
<1>15. CASE Widen
  BY <1>15 DEF Widen, envVars, flowVars, playVars, rankVars, netVars
<1>16. CASE Tick
  BY <1>16 DEF Tick, envVars, flowVars, playVars, rankVars, netVars
<1>17. CASE OpenPanel
  BY <1>17 DEF OpenPanel, envVars, flowVars, playVars, rankVars, netVars
<1>18. CASE ClosePanel
  BY <1>18 DEF ClosePanel, envVars, flowVars, playVars, rankVars, netVars
<1>19. CASE PanelRestart
  BY <1>19 DEF PanelRestart, StartFreshRun, ResetSession, Disarm, envVars, flowVars, playVars,
     rankVars, netVars
<1>20. CASE Submit
  BY <1>20 DEF Submit, envVars, flowVars, playVars, rankVars, netVars
<1>21. CASE \E g \in Attempt : BeginAnswered(g)
  BY <1>21 DEF BeginAnswered, Current, BeginFails, envVars, flowVars, playVars, rankVars, netVars
<1>22. CASE \E g \in Attempt : PostDecided(g)
  BY <1>22 DEF PostDecided, envVars, flowVars, playVars, rankVars, netVars
<1>23. CASE \E g \in Attempt : StrayLands(g)
  BY <1>23 DEF StrayLands, envVars, flowVars, playVars, rankVars, netVars
<1>24. CASE \E g \in Attempt : SubmitAnswered(g)
  BY <1>24 DEF SubmitAnswered, Settled, Current, envVars, flowVars, playVars, rankVars, netVars
<1>25. CASE \E g \in Attempt : SubmitFails(g)
  BY <1>25 DEF SubmitFails, Settled, Current, envVars, flowVars, playVars, rankVars, netVars
<1>26. CASE UNCHANGED vars
  BY <1>26 DEF vars, envVars, flowVars, playVars, rankVars, netVars
<1> QED
  BY <1>1, <1>2, <1>3, <1>4, <1>5, <1>6, <1>7, <1>8, <1>9, <1>10, <1>11, <1>12, <1>13, <1>14,
     <1>15, <1>16, <1>17, <1>18, <1>19, <1>20, <1>21, <1>22, <1>23, <1>24, <1>25, <1>26 DEF Next,
     Keys, Browser, Board, Answers

\* Every step keeps the timer slot and the screen together.
LEMMA FlowStep ==
  ASSUME TypeOK, IInv, [Next]_vars
  PROVE  FlowInv'
<1> USE Shape DEF TypeOK, FlowType, PlayType, RankType, NetType, IInv, FlowInv, PlayInv, RankInv,
   NetInv, NoTimer, NoChallenge, Safe, Ended, Attempt, Timer, Screens, Callback
<1>1. CASE KeyRestart
  BY <1>1 DEF KeyRestart, StartFreshRun, ResetSession, Disarm, envVars, flowVars, playVars,
     rankVars, netVars
<1>2. CASE ShowInstructions
  BY <1>2 DEF ShowInstructions, Show, Disarm, envVars, flowVars, playVars, rankVars, netVars
<1>3. CASE KeyNewRun
  BY <1>3 DEF KeyNewRun, StartFreshRun, ResetSession, Disarm, envVars, flowVars, playVars,
     rankVars, netVars
<1>4. CASE StartCountdown
  BY <1>4 DEF StartCountdown, LockForPlay, Arm, Show, Disarm, Callback, NoChallenge, envVars,
     flowVars, playVars, rankVars, netVars
<1>5. CASE SkipCountdown
  BY <1>5 DEF SkipCountdown, EnterPlaying, Show, Disarm, envVars, flowVars, playVars, rankVars,
     netVars
<1>6. CASE KeyAfterStage
  BY <1>6 DEF KeyAfterStage, NextStage, LastStage, Show, Disarm, envVars, flowVars, playVars,
     rankVars, netVars
<1>7. CASE LeaveIntermission
  BY <1>7 DEF LeaveIntermission, NextStage, LastStage, Show, Disarm, envVars, flowVars, playVars,
     rankVars, netVars
<1>8. CASE KeyResume
  BY <1>8 DEF KeyResume, Show, Disarm, envVars, flowVars, playVars, rankVars, netVars
<1>9. CASE \E t \in timers : TimerFires(t)
  <2> PICK t \in timers : TimerFires(t)
    BY <1>9
  <2>1. CASE Elapses(t) /\ step > 0
    BY <2>1 DEF TimerFires, Elapses, Show, Callback, envVars, flowVars, playVars, rankVars,
       netVars
  <2>2. CASE Elapses(t) /\ step = 0
    BY <2>2 DEF TimerFires, Elapses, EnterPlaying, Show, envVars, flowVars, playVars, rankVars,
       netVars
  <2>3. CASE ~Elapses(t)
    BY <2>3 DEF TimerFires, Elapses, Refused, envVars, flowVars, playVars, rankVars, netVars
  <2> QED BY <2>1, <2>2, <2>3 DEF TimerFires
<1>10. CASE \E dropped \in BOOLEAN, o \in {"waits", "plays", "clears", "loses"} : Frame(dropped, o)
  BY <1>10 DEF Frame, Recorded, Complete, Show, Disarm, LastStage, envVars, flowVars, playVars,
     rankVars, netVars
<1>11. CASE Suspend
  BY <1>11 DEF Suspend, Suspends, Unfair, envVars, flowVars, playVars, rankVars, netVars
<1>12. CASE Return
  BY <1>12 DEF Return, envVars, flowVars, playVars, rankVars, netVars
<1>13. CASE AskToLeave
  BY <1>13 DEF AskToLeave, envVars, flowVars, playVars, rankVars, netVars
<1>14. CASE Narrow
  BY <1>14 DEF Narrow, Show, Disarm, Unfair, envVars, flowVars, playVars, rankVars, netVars
<1>15. CASE Widen
  BY <1>15 DEF Widen, envVars, flowVars, playVars, rankVars, netVars
<1>16. CASE Tick
  BY <1>16 DEF Tick, envVars, flowVars, playVars, rankVars, netVars
<1>17. CASE OpenPanel
  BY <1>17 DEF OpenPanel, envVars, flowVars, playVars, rankVars, netVars
<1>18. CASE ClosePanel
  BY <1>18 DEF ClosePanel, envVars, flowVars, playVars, rankVars, netVars
<1>19. CASE PanelRestart
  BY <1>19 DEF PanelRestart, StartFreshRun, ResetSession, Disarm, envVars, flowVars, playVars,
     rankVars, netVars
<1>20. CASE Submit
  BY <1>20 DEF Submit, envVars, flowVars, playVars, rankVars, netVars
<1>21. CASE \E g \in Attempt : BeginAnswered(g)
  BY <1>21 DEF BeginAnswered, Current, BeginFails, envVars, flowVars, playVars, rankVars, netVars
<1>22. CASE \E g \in Attempt : PostDecided(g)
  BY <1>22 DEF PostDecided, envVars, flowVars, playVars, rankVars, netVars
<1>23. CASE \E g \in Attempt : StrayLands(g)
  BY <1>23 DEF StrayLands, envVars, flowVars, playVars, rankVars, netVars
<1>24. CASE \E g \in Attempt : SubmitAnswered(g)
  BY <1>24 DEF SubmitAnswered, Settled, Current, envVars, flowVars, playVars, rankVars, netVars
<1>25. CASE \E g \in Attempt : SubmitFails(g)
  BY <1>25 DEF SubmitFails, Settled, Current, envVars, flowVars, playVars, rankVars, netVars
<1>26. CASE UNCHANGED vars
  BY <1>26 DEF vars, envVars, flowVars, playVars, rankVars, netVars
<1> QED
  BY <1>1, <1>2, <1>3, <1>4, <1>5, <1>6, <1>7, <1>8, <1>9, <1>10, <1>11, <1>12, <1>13, <1>14,
     <1>15, <1>16, <1>17, <1>18, <1>19, <1>20, <1>21, <1>22, <1>23, <1>24, <1>25, <1>26 DEF Next,
     Keys, Browser, Board, Answers

\* Every step keeps the record of the stages.
LEMMA PlayStep ==
  ASSUME TypeOK, IInv, [Next]_vars
  PROVE  PlayInv'
<1> USE Shape, UptoZero DEF TypeOK, FlowType, PlayType, RankType, NetType, IInv, FlowInv, PlayInv,
   RankInv, NetInv, NoTimer, NoChallenge, Safe, Ended, Attempt, LastStage
<1>1. CASE KeyRestart
  <2>1. CASE StartFreshRun /\ dialog' = FALSE /\ UNCHANGED envVars
    BY <2>1 DEF StartFreshRun, ResetSession, Disarm, envVars
  <2>2. CASE dialog' = Safe(screen) /\ UNCHANGED <<flowVars, playVars, rankVars, netVars, envVars>>
    BY <2>2 DEF envVars, flowVars, playVars, rankVars, netVars
  <2> QED BY <1>1, <2>1, <2>2 DEF KeyRestart
<1>2. CASE ShowInstructions
  BY <1>2 DEF ShowInstructions, Show, Disarm, envVars, flowVars, playVars, rankVars, netVars
<1>3. CASE KeyNewRun
  <2>1. CASE StartFreshRun /\ dialog' = FALSE /\ UNCHANGED envVars
    BY <2>1 DEF StartFreshRun, ResetSession, Disarm, envVars
  <2>2. CASE dialog' = Safe(screen) /\ UNCHANGED <<flowVars, playVars, rankVars, netVars, envVars>>
    BY <2>2 DEF envVars, flowVars, playVars, rankVars, netVars
  <2> QED BY <1>3, <2>1, <2>2 DEF KeyNewRun
<1>4. CASE StartCountdown
  BY <1>4 DEF StartCountdown, LockForPlay, Arm, Show, Disarm, Callback, NoChallenge, envVars,
     flowVars, playVars, rankVars, netVars
<1>5. CASE SkipCountdown
  BY <1>5 DEF SkipCountdown, EnterPlaying, Show, Disarm, envVars, flowVars, playVars, rankVars,
     netVars
<1>6. CASE KeyAfterStage
  BY <1>6 DEF KeyAfterStage, NextStage, LastStage, Show, Disarm, envVars, flowVars, playVars,
     rankVars, netVars
<1>7. CASE LeaveIntermission
  BY <1>7 DEF LeaveIntermission, NextStage, LastStage, Show, Disarm, envVars, flowVars, playVars,
     rankVars, netVars
<1>8. CASE KeyResume
  BY <1>8 DEF KeyResume, Show, Disarm, envVars, flowVars, playVars, rankVars, netVars
<1>9. CASE \E t \in timers : TimerFires(t)
  <2> PICK t \in timers : TimerFires(t)
    BY <1>9
  <2>1. CASE Elapses(t) /\ step > 0
    BY <2>1 DEF TimerFires, Elapses, Show, Callback, envVars, flowVars, playVars, rankVars,
       netVars
  <2>2. CASE Elapses(t) /\ step = 0
    BY <2>2 DEF TimerFires, Elapses, EnterPlaying, Show, envVars, flowVars, playVars, rankVars,
       netVars
  <2>3. CASE ~Elapses(t)
    BY <2>3 DEF TimerFires, Elapses, Refused, envVars, flowVars, playVars, rankVars, netVars
  <2> QED BY <2>1, <2>2, <2>3 DEF TimerFires
<1>10. CASE \E dropped \in BOOLEAN, o \in {"waits", "plays", "clears", "loses"} : Frame(dropped, o)
  <2> PICK dropped \in BOOLEAN, o \in {"waits", "plays", "clears", "loses"} : Frame(dropped, o)
    BY <1>10
  <2>4. screen = "playing" /\ Recorded = Upto(stage + 1)
    <3> screen = "playing" /\ replays = Upto(stage) /\ engine = stage /\ stage \in Nat
      BY DEF Frame
    <3> QED BY UptoNext DEF Recorded
  <2>1. CASE o \in {"waits", "plays"}
    BY <2>1 DEF Frame, envVars, flowVars, playVars, rankVars, netVars
  <2>2. CASE o = "clears"
    <3>1. CASE LastStage /\ ~dropped
      BY <2>4, <2>2, <3>1 DEF Frame, Complete, Show, Disarm, LastStage, envVars, flowVars,
         playVars, rankVars, netVars
    <3>2. CASE ~(LastStage /\ ~dropped)
      BY <2>4, <2>2, <3>2 DEF Frame, Complete, Show, Disarm, LastStage, envVars, flowVars,
         playVars, rankVars, netVars
    <3> QED BY <3>1, <3>2
  <2>3. CASE o = "loses"
    BY <2>4, <2>3 DEF Frame, Complete, Disarm, envVars, flowVars, playVars, rankVars, netVars
  <2> QED BY <2>1, <2>2, <2>3
<1>11. CASE Suspend
  BY <1>11 DEF Suspend, Suspends, Unfair, envVars, flowVars, playVars, rankVars, netVars
<1>12. CASE Return
  BY <1>12 DEF Return, envVars, flowVars, playVars, rankVars, netVars
<1>13. CASE AskToLeave
  BY <1>13 DEF AskToLeave, envVars, flowVars, playVars, rankVars, netVars
<1>14. CASE Narrow
  BY <1>14 DEF Narrow, Show, Disarm, Unfair, envVars, flowVars, playVars, rankVars, netVars
<1>15. CASE Widen
  BY <1>15 DEF Widen, envVars, flowVars, playVars, rankVars, netVars
<1>16. CASE Tick
  BY <1>16 DEF Tick, envVars, flowVars, playVars, rankVars, netVars
<1>17. CASE OpenPanel
  BY <1>17 DEF OpenPanel, envVars, flowVars, playVars, rankVars, netVars
<1>18. CASE ClosePanel
  BY <1>18 DEF ClosePanel, envVars, flowVars, playVars, rankVars, netVars
<1>19. CASE PanelRestart
  BY <1>19 DEF PanelRestart, StartFreshRun, ResetSession, Disarm, envVars, flowVars, playVars,
     rankVars, netVars
<1>20. CASE Submit
  BY <1>20 DEF Submit, envVars, flowVars, playVars, rankVars, netVars
<1>21. CASE \E g \in Attempt : BeginAnswered(g)
  BY <1>21 DEF BeginAnswered, Current, BeginFails, envVars, flowVars, playVars, rankVars, netVars
<1>22. CASE \E g \in Attempt : PostDecided(g)
  BY <1>22 DEF PostDecided, envVars, flowVars, playVars, rankVars, netVars
<1>23. CASE \E g \in Attempt : StrayLands(g)
  BY <1>23 DEF StrayLands, envVars, flowVars, playVars, rankVars, netVars
<1>24. CASE \E g \in Attempt : SubmitAnswered(g)
  BY <1>24 DEF SubmitAnswered, Settled, Current, envVars, flowVars, playVars, rankVars, netVars
<1>25. CASE \E g \in Attempt : SubmitFails(g)
  BY <1>25 DEF SubmitFails, Settled, Current, envVars, flowVars, playVars, rankVars, netVars
<1>26. CASE UNCHANGED vars
  BY <1>26 DEF vars, envVars, flowVars, playVars, rankVars, netVars
<1> QED
  BY <1>1, <1>2, <1>3, <1>4, <1>5, <1>6, <1>7, <1>8, <1>9, <1>10, <1>11, <1>12, <1>13, <1>14,
     <1>15, <1>16, <1>17, <1>18, <1>19, <1>20, <1>21, <1>22, <1>23, <1>24, <1>25, <1>26 DEF Next,
     Keys, Browser, Board, Answers

\* Every step keeps the ranking of the attempt.
LEMMA RankStep ==
  ASSUME TypeOK, IInv, [Next]_vars
  PROVE  RankInv'
<1> USE Shape DEF TypeOK, FlowType, PlayType, RankType, NetType, IInv, FlowInv, PlayInv, RankInv,
   NetInv, NoTimer, NoChallenge, Safe, Ended, Attempt, LastStage, RankEligible
<1>1. CASE KeyRestart
  <2>1. CASE StartFreshRun /\ dialog' = FALSE /\ UNCHANGED envVars
    BY <2>1 DEF StartFreshRun, ResetSession, Disarm, envVars
  <2>2. CASE dialog' = Safe(screen) /\ UNCHANGED <<flowVars, playVars, rankVars, netVars, envVars>>
    BY <2>2 DEF envVars, flowVars, playVars, rankVars, netVars
  <2> QED BY <1>1, <2>1, <2>2 DEF KeyRestart
<1>2. CASE ShowInstructions
  BY <1>2 DEF ShowInstructions, Show, Disarm, envVars, flowVars, playVars, rankVars, netVars
<1>3. CASE KeyNewRun
  <2>1. CASE StartFreshRun /\ dialog' = FALSE /\ UNCHANGED envVars
    BY <2>1 DEF StartFreshRun, ResetSession, Disarm, envVars
  <2>2. CASE dialog' = Safe(screen) /\ UNCHANGED <<flowVars, playVars, rankVars, netVars, envVars>>
    BY <2>2 DEF envVars, flowVars, playVars, rankVars, netVars
  <2> QED BY <1>3, <2>1, <2>2 DEF KeyNewRun
<1>4. CASE StartCountdown
  <2>1. CASE LockForPlay
    <3>1. CASE locked \/ RankEligible
      BY <1>4, <2>1, <3>1 DEF StartCountdown, LockForPlay, Arm, Show, Disarm, Callback, envVars,
         flowVars, playVars, rankVars, netVars
    <3>2. CASE ~(locked \/ RankEligible)
      <4>1. stage = 0 /\ prepared # "preparing" /\ screen = "stage-card"
        BY <1>4, <3>2 DEF StartCountdown
      <4>2. /\ locked' = TRUE /\ invalid' = TRUE /\ challenge' = NoChallenge /\ prepared' = "unavailable"
            /\ screen' \in {"countdown", "stage-card"}
            /\ UNCHANGED <<stage, attempt, fair, terminal, begins>>
        BY <1>4, <2>1, <3>2 DEF StartCountdown, LockForPlay, Arm, Show, envVars, flowVars,
           playVars, rankVars, netVars
      <4> QED BY <4>1, <4>2
    <3> QED BY <3>1, <3>2
  <2>2. CASE stage # 0 /\ UNCHANGED <<locked, invalid, challenge, prepared>>
    BY <1>4, <2>2 DEF StartCountdown, Arm, Show, Disarm, Callback, envVars, flowVars, playVars,
       rankVars, netVars
  <2> QED BY <1>4, <2>1, <2>2 DEF StartCountdown
<1>5. CASE SkipCountdown
  BY <1>5 DEF SkipCountdown, EnterPlaying, Show, Disarm, envVars, flowVars, playVars, rankVars,
     netVars
<1>6. CASE KeyAfterStage
  BY <1>6 DEF KeyAfterStage, NextStage, LastStage, Show, Disarm, envVars, flowVars, playVars,
     rankVars, netVars
<1>7. CASE LeaveIntermission
  BY <1>7 DEF LeaveIntermission, NextStage, LastStage, Show, Disarm, envVars, flowVars, playVars,
     rankVars, netVars
<1>8. CASE KeyResume
  BY <1>8 DEF KeyResume, Show, Disarm, envVars, flowVars, playVars, rankVars, netVars
<1>9. CASE \E t \in timers : TimerFires(t)
  <2> PICK t \in timers : TimerFires(t)
    BY <1>9
  <2>1. CASE Elapses(t) /\ step > 0
    BY <2>1 DEF TimerFires, Elapses, Show, Callback, envVars, flowVars, playVars, rankVars,
       netVars
  <2>2. CASE Elapses(t) /\ step = 0
    BY <2>2 DEF TimerFires, Elapses, EnterPlaying, Show, envVars, flowVars, playVars, rankVars,
       netVars
  <2>3. CASE ~Elapses(t)
    BY <2>3 DEF TimerFires, Elapses, Refused, envVars, flowVars, playVars, rankVars, netVars
  <2> QED BY <2>1, <2>2, <2>3 DEF TimerFires
<1>10. CASE \E dropped \in BOOLEAN, o \in {"waits", "plays", "clears", "loses"} : Frame(dropped, o)
  BY <1>10 DEF Frame, Recorded, Complete, Show, Disarm, LastStage, envVars, flowVars, playVars,
     rankVars, netVars
<1>11. CASE Suspend
  BY <1>11 DEF Suspend, Suspends, Unfair, envVars, flowVars, playVars, rankVars, netVars
<1>12. CASE Return
  BY <1>12 DEF Return, envVars, flowVars, playVars, rankVars, netVars
<1>13. CASE AskToLeave
  BY <1>13 DEF AskToLeave, envVars, flowVars, playVars, rankVars, netVars
<1>14. CASE Narrow
  BY <1>14 DEF Narrow, Show, Disarm, Unfair, envVars, flowVars, playVars, rankVars, netVars
<1>15. CASE Widen
  BY <1>15 DEF Widen, envVars, flowVars, playVars, rankVars, netVars
<1>16. CASE Tick
  BY <1>16 DEF Tick, envVars, flowVars, playVars, rankVars, netVars
<1>17. CASE OpenPanel
  BY <1>17 DEF OpenPanel, envVars, flowVars, playVars, rankVars, netVars
<1>18. CASE ClosePanel
  BY <1>18 DEF ClosePanel, envVars, flowVars, playVars, rankVars, netVars
<1>19. CASE PanelRestart
  BY <1>19 DEF PanelRestart, StartFreshRun, ResetSession, Disarm, envVars, flowVars, playVars,
     rankVars, netVars
<1>20. CASE Submit
  BY <1>20 DEF Submit, envVars, flowVars, playVars, rankVars, netVars
<1>21. CASE \E g \in Attempt : BeginAnswered(g)
  BY <1>21 DEF BeginAnswered, Current, BeginFails, envVars, flowVars, playVars, rankVars, netVars
<1>22. CASE \E g \in Attempt : PostDecided(g)
  BY <1>22 DEF PostDecided, envVars, flowVars, playVars, rankVars, netVars
<1>23. CASE \E g \in Attempt : StrayLands(g)
  BY <1>23 DEF StrayLands, envVars, flowVars, playVars, rankVars, netVars
<1>24. CASE \E g \in Attempt : SubmitAnswered(g)
  BY <1>24 DEF SubmitAnswered, Settled, Current, envVars, flowVars, playVars, rankVars, netVars
<1>25. CASE \E g \in Attempt : SubmitFails(g)
  BY <1>25 DEF SubmitFails, Settled, Current, envVars, flowVars, playVars, rankVars, netVars
<1>26. CASE UNCHANGED vars
  BY <1>26 DEF vars, envVars, flowVars, playVars, rankVars, netVars
<1> QED
  BY <1>1, <1>2, <1>3, <1>4, <1>5, <1>6, <1>7, <1>8, <1>9, <1>10, <1>11, <1>12, <1>13, <1>14,
     <1>15, <1>16, <1>17, <1>18, <1>19, <1>20, <1>21, <1>22, <1>23, <1>24, <1>25, <1>26 DEF Next,
     Keys, Browser, Board, Answers

\* Every step keeps the requests tied to attempts.
LEMMA NetStep ==
  ASSUME TypeOK, IInv, [Next]_vars
  PROVE  NetInv'
<1> USE Shape DEF TypeOK, FlowType, PlayType, RankType, NetType, IInv, FlowInv, PlayInv, RankInv,
   NetInv, NoTimer, NoChallenge, Safe, Ended, Attempt, RankEligible, LastStage
<1>1. CASE KeyRestart
  BY <1>1 DEF KeyRestart, StartFreshRun, ResetSession, Disarm, envVars, flowVars, playVars,
     rankVars, netVars
<1>2. CASE ShowInstructions
  BY <1>2 DEF ShowInstructions, Show, Disarm, envVars, flowVars, playVars, rankVars, netVars
<1>3. CASE KeyNewRun
  BY <1>3 DEF KeyNewRun, StartFreshRun, ResetSession, Disarm, envVars, flowVars, playVars,
     rankVars, netVars
<1>4. CASE StartCountdown
  BY <1>4 DEF StartCountdown, LockForPlay, Arm, Show, Disarm, Callback, NoChallenge, envVars,
     flowVars, playVars, rankVars, netVars
<1>5. CASE SkipCountdown
  BY <1>5 DEF SkipCountdown, EnterPlaying, Show, Disarm, envVars, flowVars, playVars, rankVars,
     netVars
<1>6. CASE KeyAfterStage
  BY <1>6 DEF KeyAfterStage, NextStage, LastStage, Show, Disarm, envVars, flowVars, playVars,
     rankVars, netVars
<1>7. CASE LeaveIntermission
  BY <1>7 DEF LeaveIntermission, NextStage, LastStage, Show, Disarm, envVars, flowVars, playVars,
     rankVars, netVars
<1>8. CASE KeyResume
  BY <1>8 DEF KeyResume, Show, Disarm, envVars, flowVars, playVars, rankVars, netVars
<1>9. CASE \E t \in timers : TimerFires(t)
  BY <1>9 DEF TimerFires, Elapses, Refused, EnterPlaying, Show, Callback, envVars, flowVars,
     playVars, rankVars, netVars
<1>10. CASE \E dropped \in BOOLEAN, o \in {"waits", "plays", "clears", "loses"} : Frame(dropped, o)
  BY <1>10 DEF Frame, Recorded, Complete, Show, Disarm, LastStage, envVars, flowVars, playVars,
     rankVars, netVars
<1>11. CASE Suspend
  BY <1>11 DEF Suspend, Suspends, Unfair, envVars, flowVars, playVars, rankVars, netVars
<1>12. CASE Return
  BY <1>12 DEF Return, envVars, flowVars, playVars, rankVars, netVars
<1>13. CASE AskToLeave
  BY <1>13 DEF AskToLeave, envVars, flowVars, playVars, rankVars, netVars
<1>14. CASE Narrow
  BY <1>14 DEF Narrow, Show, Disarm, Unfair, envVars, flowVars, playVars, rankVars, netVars
<1>15. CASE Widen
  BY <1>15 DEF Widen, envVars, flowVars, playVars, rankVars, netVars
<1>16. CASE Tick
  BY <1>16 DEF Tick, envVars, flowVars, playVars, rankVars, netVars
<1>17. CASE OpenPanel
  BY <1>17 DEF OpenPanel, envVars, flowVars, playVars, rankVars, netVars
<1>18. CASE ClosePanel
  BY <1>18 DEF ClosePanel, envVars, flowVars, playVars, rankVars, netVars
<1>19. CASE PanelRestart
  BY <1>19 DEF PanelRestart, StartFreshRun, ResetSession, Disarm, envVars, flowVars, playVars,
     rankVars, netVars
<1>20. CASE Submit
  BY <1>20 DEF Submit, envVars, flowVars, playVars, rankVars, netVars
<1>21. CASE \E g \in Attempt : BeginAnswered(g)
  BY <1>21 DEF BeginAnswered, Current, BeginFails, envVars, flowVars, playVars, rankVars, netVars
<1>22. CASE \E g \in Attempt : PostDecided(g)
  BY <1>22 DEF PostDecided, envVars, flowVars, playVars, rankVars, netVars
<1>23. CASE \E g \in Attempt : StrayLands(g)
  BY <1>23 DEF StrayLands, envVars, flowVars, playVars, rankVars, netVars
<1>24. CASE \E g \in Attempt : SubmitAnswered(g)
  <2> PICK g \in Attempt : SubmitAnswered(g)
    BY <1>24
  <2>1. CASE g = attempt
    BY <2>1 DEF SubmitAnswered, Settled, Current, envVars, flowVars, playVars, rankVars, netVars
  <2>2. CASE g # attempt
    BY <2>2 DEF SubmitAnswered, Settled, Current, envVars, flowVars, playVars, rankVars, netVars
  <2> QED BY <2>1, <2>2
<1>25. CASE \E g \in Attempt : SubmitFails(g)
  <2> PICK g \in Attempt : SubmitFails(g)
    BY <1>25
  <2>1. CASE g = attempt
    BY <2>1 DEF SubmitFails, Settled, Current, envVars, flowVars, playVars, rankVars, netVars
  <2>2. CASE g # attempt
    BY <2>2 DEF SubmitFails, Settled, Current, envVars, flowVars, playVars, rankVars, netVars
  <2> QED BY <2>1, <2>2
<1>26. CASE UNCHANGED vars
  BY <1>26 DEF vars, envVars, flowVars, playVars, rankVars, netVars
<1> QED
  BY <1>1, <1>2, <1>3, <1>4, <1>5, <1>6, <1>7, <1>8, <1>9, <1>10, <1>11, <1>12, <1>13, <1>14,
     <1>15, <1>16, <1>17, <1>18, <1>19, <1>20, <1>21, <1>22, <1>23, <1>24, <1>25, <1>26 DEF Next,
     Keys, Browser, Board, Answers

\* A countdown shown moves on by its own timer.
LEMMA PaceStep ==
  ASSUME TypeOK, IInv, [Next]_vars
  PROVE  screen = "countdown" /\ screen' = "countdown" => (step' = step /\ countdown' = countdown) \/ (step' = step - 1 /\ countdown' = countdown /\ slot \notin timers')
<1> USE Shape DEF TypeOK, FlowType, PlayType, RankType, NetType, IInv, FlowInv, PlayInv, RankInv,
   NetInv, NoTimer, NoChallenge, Safe, Ended, Attempt, Timer, Screens, Callback
<1>1. CASE KeyRestart
  BY <1>1 DEF KeyRestart, StartFreshRun, ResetSession, Disarm, envVars, flowVars, playVars,
     rankVars, netVars
<1>2. CASE ShowInstructions
  BY <1>2 DEF ShowInstructions, Show, Disarm, envVars, flowVars, playVars, rankVars, netVars
<1>3. CASE KeyNewRun
  BY <1>3 DEF KeyNewRun, StartFreshRun, ResetSession, Disarm, envVars, flowVars, playVars,
     rankVars, netVars
<1>4. CASE StartCountdown
  BY <1>4 DEF StartCountdown, LockForPlay, Arm, Show, Disarm, Callback, NoChallenge, envVars,
     flowVars, playVars, rankVars, netVars
<1>5. CASE SkipCountdown
  BY <1>5 DEF SkipCountdown, EnterPlaying, Show, Disarm, envVars, flowVars, playVars, rankVars,
     netVars
<1>6. CASE KeyAfterStage
  BY <1>6 DEF KeyAfterStage, NextStage, LastStage, Show, Disarm, envVars, flowVars, playVars,
     rankVars, netVars
<1>7. CASE LeaveIntermission
  BY <1>7 DEF LeaveIntermission, NextStage, LastStage, Show, Disarm, envVars, flowVars, playVars,
     rankVars, netVars
<1>8. CASE KeyResume
  BY <1>8 DEF KeyResume, Show, Disarm, envVars, flowVars, playVars, rankVars, netVars
<1>9. CASE \E t \in timers : TimerFires(t)
  BY <1>9 DEF TimerFires, Elapses, Refused, EnterPlaying, Show, Callback, envVars, flowVars,
     playVars, rankVars, netVars
<1>10. CASE \E dropped \in BOOLEAN, o \in {"waits", "plays", "clears", "loses"} : Frame(dropped, o)
  BY <1>10 DEF Frame, Recorded, Complete, Show, Disarm, LastStage, envVars, flowVars, playVars,
     rankVars, netVars
<1>11. CASE Suspend
  BY <1>11 DEF Suspend, Suspends, Unfair, envVars, flowVars, playVars, rankVars, netVars
<1>12. CASE Return
  BY <1>12 DEF Return, envVars, flowVars, playVars, rankVars, netVars
<1>13. CASE AskToLeave
  BY <1>13 DEF AskToLeave, envVars, flowVars, playVars, rankVars, netVars
<1>14. CASE Narrow
  BY <1>14 DEF Narrow, Show, Disarm, Unfair, envVars, flowVars, playVars, rankVars, netVars
<1>15. CASE Widen
  BY <1>15 DEF Widen, envVars, flowVars, playVars, rankVars, netVars
<1>16. CASE Tick
  BY <1>16 DEF Tick, envVars, flowVars, playVars, rankVars, netVars
<1>17. CASE OpenPanel
  BY <1>17 DEF OpenPanel, envVars, flowVars, playVars, rankVars, netVars
<1>18. CASE ClosePanel
  BY <1>18 DEF ClosePanel, envVars, flowVars, playVars, rankVars, netVars
<1>19. CASE PanelRestart
  BY <1>19 DEF PanelRestart, StartFreshRun, ResetSession, Disarm, envVars, flowVars, playVars,
     rankVars, netVars
<1>20. CASE Submit
  BY <1>20 DEF Submit, envVars, flowVars, playVars, rankVars, netVars
<1>21. CASE \E g \in Attempt : BeginAnswered(g)
  BY <1>21 DEF BeginAnswered, Current, BeginFails, envVars, flowVars, playVars, rankVars, netVars
<1>22. CASE \E g \in Attempt : PostDecided(g)
  BY <1>22 DEF PostDecided, envVars, flowVars, playVars, rankVars, netVars
<1>23. CASE \E g \in Attempt : StrayLands(g)
  BY <1>23 DEF StrayLands, envVars, flowVars, playVars, rankVars, netVars
<1>24. CASE \E g \in Attempt : SubmitAnswered(g)
  BY <1>24 DEF SubmitAnswered, Settled, Current, envVars, flowVars, playVars, rankVars, netVars
<1>25. CASE \E g \in Attempt : SubmitFails(g)
  BY <1>25 DEF SubmitFails, Settled, Current, envVars, flowVars, playVars, rankVars, netVars
<1>26. CASE UNCHANGED vars
  BY <1>26 DEF vars, envVars, flowVars, playVars, rankVars, netVars
<1> QED
  BY <1>1, <1>2, <1>3, <1>4, <1>5, <1>6, <1>7, <1>8, <1>9, <1>10, <1>11, <1>12, <1>13, <1>14,
     <1>15, <1>16, <1>17, <1>18, <1>19, <1>20, <1>21, <1>22, <1>23, <1>24, <1>25, <1>26 DEF Next,
     Keys, Browser, Board, Answers

\* No step ranks an attempt that is not ranked.
LEMMA UpgradeStep ==
  ASSUME TypeOK, IInv, [Next]_vars
  PROVE  attempt' = attempt /\ attempt # 0 /\ ~RankEligible /\ prepared # "preparing" => ~RankEligible'
<1> USE Shape DEF TypeOK, FlowType, PlayType, RankType, NetType, NoTimer, NoChallenge, Attempt,
   IInv, RankInv, RankEligible
<1>1. CASE KeyRestart
  BY <1>1 DEF KeyRestart, StartFreshRun, ResetSession, Disarm, envVars, flowVars, playVars,
     rankVars, netVars
<1>2. CASE ShowInstructions
  BY <1>2 DEF ShowInstructions, Show, Disarm, envVars, flowVars, playVars, rankVars, netVars
<1>3. CASE KeyNewRun
  BY <1>3 DEF KeyNewRun, StartFreshRun, ResetSession, Disarm, envVars, flowVars, playVars,
     rankVars, netVars
<1>4. CASE StartCountdown
  BY <1>4 DEF StartCountdown, LockForPlay, Arm, Show, Disarm, Callback, NoChallenge, envVars,
     flowVars, playVars, rankVars, netVars
<1>5. CASE SkipCountdown
  BY <1>5 DEF SkipCountdown, EnterPlaying, Show, Disarm, envVars, flowVars, playVars, rankVars,
     netVars
<1>6. CASE KeyAfterStage
  BY <1>6 DEF KeyAfterStage, NextStage, LastStage, Show, Disarm, envVars, flowVars, playVars,
     rankVars, netVars
<1>7. CASE LeaveIntermission
  BY <1>7 DEF LeaveIntermission, NextStage, LastStage, Show, Disarm, envVars, flowVars, playVars,
     rankVars, netVars
<1>8. CASE KeyResume
  BY <1>8 DEF KeyResume, Show, Disarm, envVars, flowVars, playVars, rankVars, netVars
<1>9. CASE \E t \in timers : TimerFires(t)
  BY <1>9 DEF TimerFires, Elapses, Refused, EnterPlaying, Show, Callback, envVars, flowVars,
     playVars, rankVars, netVars
<1>10. CASE \E dropped \in BOOLEAN, o \in {"waits", "plays", "clears", "loses"} : Frame(dropped, o)
  BY <1>10 DEF Frame, Recorded, Complete, Show, Disarm, LastStage, envVars, flowVars, playVars,
     rankVars, netVars
<1>11. CASE Suspend
  BY <1>11 DEF Suspend, Suspends, Unfair, envVars, flowVars, playVars, rankVars, netVars
<1>12. CASE Return
  BY <1>12 DEF Return, envVars, flowVars, playVars, rankVars, netVars
<1>13. CASE AskToLeave
  BY <1>13 DEF AskToLeave, envVars, flowVars, playVars, rankVars, netVars
<1>14. CASE Narrow
  BY <1>14 DEF Narrow, Show, Disarm, Unfair, envVars, flowVars, playVars, rankVars, netVars
<1>15. CASE Widen
  BY <1>15 DEF Widen, envVars, flowVars, playVars, rankVars, netVars
<1>16. CASE Tick
  BY <1>16 DEF Tick, envVars, flowVars, playVars, rankVars, netVars
<1>17. CASE OpenPanel
  BY <1>17 DEF OpenPanel, envVars, flowVars, playVars, rankVars, netVars
<1>18. CASE ClosePanel
  BY <1>18 DEF ClosePanel, envVars, flowVars, playVars, rankVars, netVars
<1>19. CASE PanelRestart
  BY <1>19 DEF PanelRestart, StartFreshRun, ResetSession, Disarm, envVars, flowVars, playVars,
     rankVars, netVars
<1>20. CASE Submit
  BY <1>20 DEF Submit, envVars, flowVars, playVars, rankVars, netVars
<1>21. CASE \E g \in Attempt : BeginAnswered(g)
  BY <1>21 DEF BeginAnswered, Current, BeginFails, envVars, flowVars, playVars, rankVars, netVars
<1>22. CASE \E g \in Attempt : PostDecided(g)
  BY <1>22 DEF PostDecided, envVars, flowVars, playVars, rankVars, netVars
<1>23. CASE \E g \in Attempt : StrayLands(g)
  BY <1>23 DEF StrayLands, envVars, flowVars, playVars, rankVars, netVars
<1>24. CASE \E g \in Attempt : SubmitAnswered(g)
  BY <1>24 DEF SubmitAnswered, Settled, Current, envVars, flowVars, playVars, rankVars, netVars
<1>25. CASE \E g \in Attempt : SubmitFails(g)
  BY <1>25 DEF SubmitFails, Settled, Current, envVars, flowVars, playVars, rankVars, netVars
<1>26. CASE UNCHANGED vars
  BY <1>26 DEF vars, envVars, flowVars, playVars, rankVars, netVars
<1> QED
  BY <1>1, <1>2, <1>3, <1>4, <1>5, <1>6, <1>7, <1>8, <1>9, <1>10, <1>11, <1>12, <1>13, <1>14,
     <1>15, <1>16, <1>17, <1>18, <1>19, <1>20, <1>21, <1>22, <1>23, <1>24, <1>25, <1>26 DEF Next,
     Keys, Browser, Board, Answers

\* Only the open board gives up a result that can be sent.
LEMMA DiscardStep ==
  ASSUME TypeOK, IInv, [Next]_vars
  PROVE  Protected /\ attempt' # attempt => dialog
<1> USE Shape DEF TypeOK, FlowType, PlayType, RankType, NetType, NoTimer, NoChallenge, Attempt,
   IInv, FlowInv, RankInv, MayDiscard, Protected, LastStage
<1>1. CASE KeyRestart
  BY <1>1 DEF KeyRestart, StartFreshRun, ResetSession, Disarm, envVars, flowVars, playVars,
     rankVars, netVars
<1>2. CASE ShowInstructions
  BY <1>2 DEF ShowInstructions, Show, Disarm, envVars, flowVars, playVars, rankVars, netVars
<1>3. CASE KeyNewRun
  BY <1>3 DEF KeyNewRun, StartFreshRun, ResetSession, Disarm, envVars, flowVars, playVars,
     rankVars, netVars
<1>4. CASE StartCountdown
  BY <1>4 DEF StartCountdown, LockForPlay, Arm, Show, Disarm, Callback, NoChallenge, envVars,
     flowVars, playVars, rankVars, netVars
<1>5. CASE SkipCountdown
  BY <1>5 DEF SkipCountdown, EnterPlaying, Show, Disarm, envVars, flowVars, playVars, rankVars,
     netVars
<1>6. CASE KeyAfterStage
  BY <1>6 DEF KeyAfterStage, NextStage, LastStage, Show, Disarm, envVars, flowVars, playVars,
     rankVars, netVars
<1>7. CASE LeaveIntermission
  BY <1>7 DEF LeaveIntermission, NextStage, LastStage, Show, Disarm, envVars, flowVars, playVars,
     rankVars, netVars
<1>8. CASE KeyResume
  BY <1>8 DEF KeyResume, Show, Disarm, envVars, flowVars, playVars, rankVars, netVars
<1>9. CASE \E t \in timers : TimerFires(t)
  BY <1>9 DEF TimerFires, Elapses, Refused, EnterPlaying, Show, Callback, envVars, flowVars,
     playVars, rankVars, netVars
<1>10. CASE \E dropped \in BOOLEAN, o \in {"waits", "plays", "clears", "loses"} : Frame(dropped, o)
  BY <1>10 DEF Frame, Recorded, Complete, Show, Disarm, LastStage, envVars, flowVars, playVars,
     rankVars, netVars
<1>11. CASE Suspend
  BY <1>11 DEF Suspend, Suspends, Unfair, envVars, flowVars, playVars, rankVars, netVars
<1>12. CASE Return
  BY <1>12 DEF Return, envVars, flowVars, playVars, rankVars, netVars
<1>13. CASE AskToLeave
  BY <1>13 DEF AskToLeave, envVars, flowVars, playVars, rankVars, netVars
<1>14. CASE Narrow
  BY <1>14 DEF Narrow, Show, Disarm, Unfair, envVars, flowVars, playVars, rankVars, netVars
<1>15. CASE Widen
  BY <1>15 DEF Widen, envVars, flowVars, playVars, rankVars, netVars
<1>16. CASE Tick
  BY <1>16 DEF Tick, envVars, flowVars, playVars, rankVars, netVars
<1>17. CASE OpenPanel
  BY <1>17 DEF OpenPanel, envVars, flowVars, playVars, rankVars, netVars
<1>18. CASE ClosePanel
  BY <1>18 DEF ClosePanel, envVars, flowVars, playVars, rankVars, netVars
<1>19. CASE PanelRestart
  BY <1>19 DEF PanelRestart, StartFreshRun, ResetSession, Disarm, envVars, flowVars, playVars,
     rankVars, netVars
<1>20. CASE Submit
  BY <1>20 DEF Submit, envVars, flowVars, playVars, rankVars, netVars
<1>21. CASE \E g \in Attempt : BeginAnswered(g)
  BY <1>21 DEF BeginAnswered, Current, BeginFails, envVars, flowVars, playVars, rankVars, netVars
<1>22. CASE \E g \in Attempt : PostDecided(g)
  BY <1>22 DEF PostDecided, envVars, flowVars, playVars, rankVars, netVars
<1>23. CASE \E g \in Attempt : StrayLands(g)
  BY <1>23 DEF StrayLands, envVars, flowVars, playVars, rankVars, netVars
<1>24. CASE \E g \in Attempt : SubmitAnswered(g)
  BY <1>24 DEF SubmitAnswered, Settled, Current, envVars, flowVars, playVars, rankVars, netVars
<1>25. CASE \E g \in Attempt : SubmitFails(g)
  BY <1>25 DEF SubmitFails, Settled, Current, envVars, flowVars, playVars, rankVars, netVars
<1>26. CASE UNCHANGED vars
  BY <1>26 DEF vars, envVars, flowVars, playVars, rankVars, netVars
<1> QED
  BY <1>1, <1>2, <1>3, <1>4, <1>5, <1>6, <1>7, <1>8, <1>9, <1>10, <1>11, <1>12, <1>13, <1>14,
     <1>15, <1>16, <1>17, <1>18, <1>19, <1>20, <1>21, <1>22, <1>23, <1>24, <1>25, <1>26 DEF Next,
     Keys, Browser, Board, Answers

\* Every step is a step of the promise or leaves it alone.
LEMMA PromiseStep ==
  ASSUME TypeOK, IInv, [Next]_vars
  PROVE  [Promise!Next]_<<attempt, Phase, submitting>>
<1> USE Shape DEF TypeOK, FlowType, PlayType, RankType, NetType, NoTimer, NoChallenge, Attempt,
   IInv, FlowInv, RankInv, NetInv, PlayInv, RankEligible, LastStage, Phase, Promise!Next,
   Promise!NewAttempt, Promise!Move, Promise!Send, Promise!SendFails, Promise!Record
<1>1. CASE KeyRestart
  <2>1. CASE StartFreshRun /\ dialog' = FALSE /\ UNCHANGED envVars
    BY <2>1 DEF StartFreshRun, ResetSession, Disarm, envVars
  <2>2. CASE dialog' = Safe(screen) /\ UNCHANGED <<flowVars, playVars, rankVars, netVars, envVars>>
    BY <2>2 DEF envVars, flowVars, playVars, rankVars, netVars
  <2> QED BY <1>1, <2>1, <2>2 DEF KeyRestart
<1>2. CASE ShowInstructions
  BY <1>2 DEF ShowInstructions, Show, Disarm, envVars, flowVars, playVars, rankVars, netVars
<1>3. CASE KeyNewRun
  <2>1. CASE StartFreshRun /\ dialog' = FALSE /\ UNCHANGED envVars
    BY <2>1 DEF StartFreshRun, ResetSession, Disarm, envVars
  <2>2. CASE dialog' = Safe(screen) /\ UNCHANGED <<flowVars, playVars, rankVars, netVars, envVars>>
    BY <2>2 DEF envVars, flowVars, playVars, rankVars, netVars
  <2> QED BY <1>3, <2>1, <2>2 DEF KeyNewRun
<1>4. CASE StartCountdown
  BY <1>4 DEF StartCountdown, LockForPlay, Arm, Show, Disarm, Callback, NoChallenge, envVars,
     flowVars, playVars, rankVars, netVars
<1>5. CASE SkipCountdown
  BY <1>5 DEF SkipCountdown, EnterPlaying, Show, Disarm, envVars, flowVars, playVars, rankVars,
     netVars
<1>6. CASE KeyAfterStage
  BY <1>6 DEF KeyAfterStage, NextStage, LastStage, Show, Disarm, envVars, flowVars, playVars,
     rankVars, netVars
<1>7. CASE LeaveIntermission
  BY <1>7 DEF LeaveIntermission, NextStage, LastStage, Show, Disarm, envVars, flowVars, playVars,
     rankVars, netVars
<1>8. CASE KeyResume
  BY <1>8 DEF KeyResume, Show, Disarm, envVars, flowVars, playVars, rankVars, netVars
<1>9. CASE \E t \in timers : TimerFires(t)
  BY <1>9 DEF TimerFires, Elapses, Refused, EnterPlaying, Show, Callback, envVars, flowVars,
     playVars, rankVars, netVars
<1>10. CASE \E dropped \in BOOLEAN, o \in {"waits", "plays", "clears", "loses"} : Frame(dropped, o)
  BY <1>10 DEF Frame, Recorded, Complete, Show, Disarm, LastStage, envVars, flowVars, playVars,
     rankVars, netVars
<1>11. CASE Suspend
  BY <1>11 DEF Suspend, Suspends, Unfair, envVars, flowVars, playVars, rankVars, netVars
<1>12. CASE Return
  BY <1>12 DEF Return, envVars, flowVars, playVars, rankVars, netVars
<1>13. CASE AskToLeave
  BY <1>13 DEF AskToLeave, envVars, flowVars, playVars, rankVars, netVars
<1>14. CASE Narrow
  BY <1>14 DEF Narrow, Show, Disarm, Unfair, envVars, flowVars, playVars, rankVars, netVars
<1>15. CASE Widen
  BY <1>15 DEF Widen, envVars, flowVars, playVars, rankVars, netVars
<1>16. CASE Tick
  BY <1>16 DEF Tick, envVars, flowVars, playVars, rankVars, netVars
<1>17. CASE OpenPanel
  BY <1>17 DEF OpenPanel, envVars, flowVars, playVars, rankVars, netVars
<1>18. CASE ClosePanel
  BY <1>18 DEF ClosePanel, envVars, flowVars, playVars, rankVars, netVars
<1>19. CASE PanelRestart
  BY <1>19 DEF PanelRestart, StartFreshRun, ResetSession, Disarm, envVars, flowVars, playVars,
     rankVars, netVars
<1>20. CASE Submit
  BY <1>20 DEF Submit, envVars, flowVars, playVars, rankVars, netVars
<1>21. CASE \E g \in Attempt : BeginAnswered(g)
  BY <1>21 DEF BeginAnswered, Current, BeginFails, envVars, flowVars, playVars, rankVars, netVars
<1>22. CASE \E g \in Attempt : PostDecided(g)
  BY <1>22 DEF PostDecided, envVars, flowVars, playVars, rankVars, netVars
<1>23. CASE \E g \in Attempt : StrayLands(g)
  BY <1>23 DEF StrayLands, envVars, flowVars, playVars, rankVars, netVars
<1>24. CASE \E g \in Attempt : SubmitAnswered(g)
  <2> PICK g \in Attempt : SubmitAnswered(g)
    BY <1>24
  <2>1. CASE g = attempt
    BY <2>1 DEF SubmitAnswered, Settled, Current, envVars, flowVars, playVars, rankVars, netVars
  <2>2. CASE g # attempt
    BY <2>2 DEF SubmitAnswered, Settled, Current, envVars, flowVars, playVars, rankVars, netVars
  <2> QED BY <2>1, <2>2
<1>25. CASE \E g \in Attempt : SubmitFails(g)
  <2> PICK g \in Attempt : SubmitFails(g)
    BY <1>25
  <2>1. CASE g = attempt
    BY <2>1 DEF SubmitFails, Settled, Current, envVars, flowVars, playVars, rankVars, netVars
  <2>2. CASE g # attempt
    BY <2>2 DEF SubmitFails, Settled, Current, envVars, flowVars, playVars, rankVars, netVars
  <2> QED BY <2>1, <2>2
<1>26. CASE UNCHANGED vars
  BY <1>26 DEF vars, envVars, flowVars, playVars, rankVars, netVars
<1> QED
  BY <1>1, <1>2, <1>3, <1>4, <1>5, <1>6, <1>7, <1>8, <1>9, <1>10, <1>11, <1>12, <1>13, <1>14,
     <1>15, <1>16, <1>17, <1>18, <1>19, <1>20, <1>21, <1>22, <1>23, <1>24, <1>25, <1>26 DEF Next,
     Keys, Browser, Board, Answers

\* No stage list that was added to is empty.
LEMMA UptoNonEmpty ==
  ASSUME NEW n \in Nat
  PROVE  Upto(n + 1) # <<>>
  BY DEF Upto

\* The cabinet starts in shape, with nothing played and nothing prepared.
LEMMA InitInv == Init => TypeOK /\ IInv
<1> SUFFICES ASSUME Init PROVE TypeOK /\ IInv
  OBVIOUS
<1> USE Shape, UptoZero
    DEF Init, Attempt, Timer, NoTimer, NoChallenge
<1>1. FlowType
  <2>1. away \in BOOLEAN /\ narrow \in BOOLEAN /\ dialog \in BOOLEAN
    OBVIOUS
  <2>2. clock \in Nat /\ screen \in Screens /\ stage \in 0 .. StageCount - 1 /\ attempt \in 0 .. MaxAttempt
    BY DEF Screens
  <2>3. countdown \in Nat /\ step \in 0 .. 3 /\ slot \in Timer /\ timers \subseteq Timer
    OBVIOUS
  <2> QED BY <2>1, <2>2, <2>3 DEF FlowType
<1>2. PlayType
  <2>1. engine \in 0 .. StageCount - 1 /\ replays \in Seq(0 .. StageCount - 1)
    OBVIOUS
  <2>2. fair \in BOOLEAN /\ ticked \in BOOLEAN
    OBVIOUS
  <2> QED BY <2>1, <2>2 DEF PlayType
<1>3. RankType
  <2>1. challenge \in [run : 0 .. MaxAttempt, expires : Nat]
    OBVIOUS
  <2>2. terminal \in 0 .. MaxAttempt /\ submitted \in 0 .. MaxAttempt
    OBVIOUS
  <2> QED BY <2>1, <2>2 DEF RankType
<1>4. NetType
  BY DEF NetType
<1>5. FlowInv
  BY DEF FlowInv, Safe
<1>6. PlayInv
  BY DEF PlayInv, Ended
<1>7. RankInv
  BY DEF RankInv
<1>8. NetInv
  BY DEF NetInv
<1> QED BY <1>1, <1>2, <1>3, <1>4, <1>5, <1>6, <1>7, <1>8 DEF TypeOK, IInv

\* Every step keeps the shape of the state.
LEMMA TypeStep ==
  ASSUME TypeOK, IInv, [Next]_vars
  PROVE  TypeOK'
<1>1. Flags' /\ Numbers' /\ Stages' /\ Ranks' /\ NetType'
  BY FlagStep, NumberStep, StagesStep, RanksStep, NetTypeStep
<1>2. FlowType'
  BY <1>1 DEF FlowType, Flags, Numbers
<1>3. PlayType'
  BY <1>1 DEF PlayType, Flags, Stages
<1>4. RankType'
  BY <1>1 DEF RankType, Flags, Ranks
<1> QED BY <1>1, <1>2, <1>3, <1>4 DEF TypeOK

\* The invariant is inductive and holds in every state of the cabinet.
THEOREM InvariantHolds == Spec => [](TypeOK /\ IInv)
<1>1. TypeOK /\ IInv /\ [Next]_vars => (TypeOK /\ IInv)'
  BY TypeStep, FlowStep, PlayStep, RankStep, NetStep DEF IInv
<1> QED BY InitInv, <1>1, PTL DEF Spec

\* A result that can be sent is a fair and whole run of the attempt on screen.
LEMMA FairAndWholeFromInv == TypeOK /\ IInv => ResultIsFairAndWhole
<1> SUFFICES ASSUME TypeOK, IInv, Protected
             PROVE  /\ terminal = attempt /\ challenge.run = attempt
                    /\ locked /\ fair
                    /\ replays = Upto(stage + 1)
                    /\ screen = "gameover" \/ (LastStage /\ screen \in {"cleared", "victory"})
  BY DEF ResultIsFairAndWhole
<1>1. terminal # 0 /\ challenge.run # 0 /\ ~invalid
  BY DEF Protected, RankEligible
<1>2. terminal = attempt /\ challenge.run = attempt
  BY <1>1 DEF IInv, RankInv
<1>3. screen = "gameover" \/ (LastStage /\ screen \in {"cleared", "victory"})
  BY <1>1 DEF IInv, RankInv
<1>4. locked
  BY <1>3 DEF IInv, RankInv
<1>5. fair
  BY <1>1 DEF IInv, RankInv
<1>6. replays = Upto(stage + 1)
  BY <1>3 DEF IInv, PlayInv, Ended
<1> QED BY <1>2, <1>3, <1>4, <1>5, <1>6

\* No key, timer, pause or late answer lets the cabinet offer a result that is
\* not the complete and uninterrupted run of its own challenge.
THEOREM FairAndWhole == Spec => []ResultIsFairAndWhole
<1> QED BY InvariantHolds, FairAndWholeFromInv, PTL

\* Cards and countdowns stand before a stage that nobody has played.
THEOREM FreshCards == Spec => []CardsAreFresh
<1>1. TypeOK /\ IInv => CardsAreFresh
  BY DEF CardsAreFresh, IInv, PlayInv, Ended
<1> QED BY <1>1, InvariantHolds, PTL

\* The receipt on screen is of the running attempt and the server has it.
THEOREM OurReceipt == Spec => []ReceiptIsOurs
<1>1. TypeOK /\ IInv => ReceiptIsOurs
  BY DEF ReceiptIsOurs, IInv, NetInv
<1> QED BY <1>1, InvariantHolds, PTL

\* Leaving the page with a result that was not sent asks first.
THEOREM GuardedResult == Spec => []ResultIsGuarded
<1>1. TypeOK /\ IInv => ResultIsGuarded
  <2> SUFFICES ASSUME TypeOK, IInv, Protected
               PROVE  HasUnsavedRun
    BY DEF ResultIsGuarded
  <2>1. replays = Upto(stage + 1)
    BY FairAndWholeFromInv DEF ResultIsFairAndWhole
  <2>2. replays # <<>>
    BY <2>1, UptoNonEmpty DEF TypeOK, FlowType
  <2> QED BY <2>2 DEF HasUnsavedRun, Protected
<1> QED BY <1>1, InvariantHolds, PTL

\* A countdown on screen always has the callback that moves it on.
THEOREM ArmedCountdown == Spec => []CountdownIsArmed
<1>1. TypeOK /\ IInv => CountdownIsArmed
  BY DEF CountdownIsArmed, IInv, FlowInv, Callback
<1> QED BY <1>1, InvariantHolds, PTL

\* Abandoned callbacks never hurry a countdown.
THEOREM PacedCountdown == Spec => CountdownIsPaced
<1>1. TypeOK /\ IInv /\ [Next]_vars =>
        [screen = "countdown" /\ screen' = "countdown" =>
           \/ step' = step /\ countdown' = countdown
           \/ step' = step - 1 /\ countdown' = countdown /\ slot \notin timers']_vars
  BY PaceStep
<1> QED BY <1>1, InvariantHolds, PTL DEF Spec, CountdownIsPaced

\* Ranking that was lost is never regained within the attempt.
THEOREM Downgraded == Spec => NeverUpgraded
<1>1. TypeOK /\ IInv /\ [Next]_vars =>
        [attempt' = attempt /\ attempt # 0 /\ ~RankEligible /\ prepared # "preparing"
           => ~RankEligible']_vars
  BY UpgradeStep
<1> QED BY <1>1, InvariantHolds, PTL DEF Spec, NeverUpgraded

\* A result that can be sent is given up on the Shift Board or not at all.
THEOREM OnPurpose == Spec => DiscardedOnPurpose
<1>1. TypeOK /\ IInv /\ [Next]_vars => [Protected /\ attempt' # attempt => dialog]_vars
  BY DiscardStep
<1> QED BY <1>1, InvariantHolds, PTL DEF Spec, DiscardedOnPurpose

\* The cabinet implements the promise of a ranked attempt.
THEOREM PromiseKept == Spec => KeepsPromise
<1>1. Init => Promise!Init
  BY DEF Init, Promise!Init, Phase, RankEligible, NoChallenge
<1>2. TypeOK /\ IInv /\ [Next]_vars => [Promise!Next]_<<attempt, Phase, submitting>>
  BY PromiseStep
<1> QED BY <1>1, <1>2, InvariantHolds, PTL DEF Spec, KeepsPromise, Promise!Spec
=============================================================================
