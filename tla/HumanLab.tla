------------------------------ MODULE HumanLab -------------------------------
(***************************************************************************)
(* The playtest page of Maltline (games/maltline/src/viewer/human-lab.ts): *)
(* consent, practice, two rounds with a survey after every stage, a final  *)
(* comparison and a file to download.  The page walks through surfaces and *)
(* tells the record (LabSession) what happened; the window may lose focus, *)
(* be hidden or change its width at any moment, which pauses it, and Enter *)
(* runs the action the surface offers.  `lab` is the page: the record, the *)
(* ledger of time, the engine on play and what is shown.                   *)
(***************************************************************************)
EXTENDS LabSession

CONSTANTS
  LabTicks,     \* ticks of a stage (bound of the model)
  LabDriven,    \* stages the test driver ends itself (bound of the model)
  LabHorizon,   \* units of time (bound of the model)
  LabFollow     \* whether the model follows the page past the known faults

VARIABLES lab, labWorld, labPlayed  \* labPlayed: the time play was shown
labVars == <<lab, labWorld, labPlayed>>

NoTerminal == [status |-> "none"]
NoPulse == [stage |-> 0, status |-> "none"]
LabNewEngine(run) == [tick |-> 0, lives |-> run.lives, score |-> run.score, losses |-> 0]
\* In front: focused and not hidden; fits: at the width that was assigned.
Fit(w) == w.front /\ w.fits

\* Welcome offers Enter to the test driver only; a participant fills in a form.
Welcome(l) ==
  [l EXCEPT !.surface = "welcome", !.action = IF l.session.mode = "human" THEN "none" ELSE "startTestPractice"]

LabInit ==
  /\ \E mode \in {"human", "test-driver"} :
       lab = Welcome([session |-> LabNewSession(mode), timing |-> NewTiming(0), engine |-> LabNewEngine(FreshRun),
                      surface |-> "welcome", prior |-> "welcome", action |-> "none", terminal |-> NoTerminal,
                      pulse |-> NoPulse, timer |-> 0, threw |-> {}, passed |-> FALSE])
  /\ labWorld \in [now : {0}, front : BOOLEAN, fits : {TRUE}]
  /\ labPlayed = 0

Throws(l, what) == [l EXCEPT !.threw = @ \cup {what}]

-----------------------------------------------------------------------------
ShowStageCard(l) == [l EXCEPT !.timer = 0, !.surface = "stage-card", !.action = "beginCountdown"]
BeginCurrentEngine(l) ==
  ShowStageCard([l EXCEPT !.engine = LabNewEngine(l.session.run), !.terminal = NoTerminal])
Intermission(l) == [l EXCEPT !.surface = "intermission", !.action = "beginRoundTwo"]
ShowStagePulse(l) == [l EXCEPT !.surface = "stage-pulse", !.action = "none"]
RoundExperience(l) == [l EXCEPT !.surface = "round-experience", !.action = "none"]

\* pauseLab.  The action of the surface that is left stays armed.
PauseLab(l, w) ==
  CASE l.surface = "stopped" -> l
    [] l.surface = "paused" -> [l EXCEPT !.timer = 0]
    [] l.surface \notin {"stopped", "paused"} /\ ~PauseLegal(l.timing) -> Throws([l EXCEPT !.timer = 0], "full")
    [] OTHER -> [l EXCEPT !.timer = 0, !.timing = Pause(@, w.now), !.surface = "paused",
                          !.prior = IF l.surface = "countdown" THEN "stage-card" ELSE l.surface]

BeginCountdown(l, w) ==
  IF l.surface # "stage-card" THEN l
  ELSE IF ~SetActiveLegal(l.timing) THEN Throws([l EXCEPT !.timer = 0], "interrupted")
  ELSE [l EXCEPT !.timing = SetActive(@, w.now, FALSE), !.surface = "countdown", !.action = "none", !.timer = 4]

\* Mutant of EnterPlaying: play begins whether or not the page is in front.
EnterPlayingUnseen(l, w) ==
  [l EXCEPT !.timer = 0, !.surface = "playing", !.timing = SetActive(@, w.now, TRUE)]
EnterPlaying(l, w) ==
  IF ~Fit(w) THEN PauseLab(l, w)
  ELSE IF ~SetActiveLegal(l.timing) THEN Throws([l EXCEPT !.timer = 0, !.surface = "playing"], "interrupted")
  ELSE [l EXCEPT !.timer = 0, !.surface = "playing", !.timing = SetActive(@, w.now, TRUE)]

Ended(l, w, status, observed) ==
  IF l.surface # "playing" \/ l.terminal # NoTerminal THEN l
  ELSE IF ~SetActiveLegal(l.timing) THEN Throws(l, "interrupted")
  ELSE [l EXCEPT !.timing = SetActive(@, w.now, FALSE), !.surface = "terminal", !.action = "commitTerminal",
                 !.terminal = [status |-> status, observed |-> observed, score |-> l.engine.score,
                               delta |-> l.engine.score - l.session.run.score,
                               lives |-> IF status = "lost" THEN 0 ELSE l.engine.lives,
                               losses |-> l.engine.losses]]

CommitTerminal(l) ==
  IF l.terminal = NoTerminal \/ l.session.stage = 0 THEN l
  ELSE IF ~TerminalLegal(l.session, l.session.stage, l.terminal) THEN Throws(l, "refused")
  ELSE LET next == [l EXCEPT !.session = StageTerminal(@, l.terminal), !.terminal = NoTerminal]
       IN  IF next.session.phase \in LabPlay THEN BeginCurrentEngine(next)
           ELSE ShowStagePulse([next EXCEPT !.pulse = [stage |-> l.session.stage, status |-> l.terminal.status]])

BeginSecond(l) ==
  IF RoundTwoLegal(l.session) THEN BeginCurrentEngine([l EXCEPT !.session = BeginRoundTwo(@)])
  ELSE Throws(l, "refused")
BeginPractice(l) ==
  IF ConsentLegal(l.session) THEN BeginCurrentEngine([l EXCEPT !.session = Consent(@)]) ELSE Throws(l, "refused")

\* resumeLab.
Resumed(l, w) ==
  IF l.surface # "paused" \/ ~Fit(w) THEN l
  ELSE LET on   == [l EXCEPT !.timing = Resume(@, w.now, l.prior = "playing")]
           done == l.terminal
       IN  CASE l.prior = "playing"    -> EnterPlaying(on, w)
             [] l.prior = "welcome"    -> Welcome(on)
             [] l.prior = "stage-card" -> ShowStageCard(on)
             [] l.prior = "terminal" /\ done # NoTerminal ->
                  Ended([on EXCEPT !.terminal = NoTerminal, !.surface = "playing"], w, done.status, done.observed)
             [] l.prior = "terminal" /\ done = NoTerminal -> on
             [] l.prior = "intermission" -> Intermission(on)
             [] l.prior = "stage-pulse" -> IF l.pulse = NoPulse THEN Throws(on, "refused") ELSE ShowStagePulse(on)
             [] l.prior = "round-experience" -> RoundExperience(on)
             [] OTHER -> [on EXCEPT !.surface = l.prior, !.action = "none"]

-----------------------------------------------------------------------------
LabDo(next) == lab' = next /\ UNCHANGED <<labWorld, labPlayed>>

\* The participant's form on the welcome surface.
LabConsent ==
  /\ lab.surface = "welcome" /\ lab.session.mode = "human" /\ labWorld.front
  /\ LabDo(BeginPractice(lab))

Acted(l, w) ==
  CASE l.action = "beginCountdown"    -> BeginCountdown(l, w)
    [] l.action = "commitTerminal"    -> CommitTerminal(l)
    [] l.action = "beginRoundTwo"     -> BeginSecond(l)
    [] l.action = "startTestPractice" -> BeginPractice(l)
\* Enter or Space outside a control, a click on the surface's button, or the
\* test driver's advance().  A pause that it passes by is noted.
LabAct ==
  /\ lab.action # "none" /\ lab.surface \notin {"stopped", "playing", "countdown"}
  /\ labWorld.front \/ lab.session.mode = "test-driver"
  /\ LET next == Acted(lab, labWorld)
     IN  LabDo([next EXCEPT !.passed = @ \/ (lab.surface = "paused" /\ next.surface # "paused")])

\* The countdown's timer, and the test driver's completeCountdown().
LabCount ==
  /\ lab.timer > 0
  /\ LabDo(IF lab.surface # "countdown" THEN [lab EXCEPT !.timer = 0]
           ELSE IF lab.timer = 1 THEN EnterPlaying([lab EXCEPT !.timer = 0], labWorld)
           ELSE [lab EXCEPT !.timer = @ - 1])
LabSkipCountdown ==
  /\ lab.session.mode = "test-driver" /\ lab.surface = "countdown"
  /\ LabDo(EnterPlaying([lab EXCEPT !.timer = 0], labWorld))

\* One tick of a frame: the input is told to the record, then the engine steps,
\* which loses lives or scores.
LabFrame ==
  /\ lab.surface = "playing" /\ Fit(labWorld)
  /\ IF ~LabTickLegal(lab.session, lab.session.stage) THEN LabDo(Throws(lab, "refused"))
     ELSE \E lost \in 0 .. lab.engine.lives, end \in BOOLEAN :
            LET after == [tick |-> lab.engine.tick + 1, lives |-> lab.engine.lives - lost,
                          score |-> lab.engine.score + (IF lost = 0 THEN 1 ELSE 0), losses |-> lab.engine.losses + lost]
                next  == [lab EXCEPT !.session = LabTick(@), !.engine = after]
            IN  /\ lab.engine.tick < LabTicks
                /\ after.lives = 0 \/ after.tick = LabTicks => end
                /\ LabDo(IF ~end THEN next
                         ELSE Ended(next, labWorld, IF after.lives = 0 THEN "lost" ELSE "won", "engine"))

\* A frame so late that the clock drops time.
LabBacklog == lab.surface = "playing" /\ Fit(labWorld) /\ LabDo(PauseLab(lab, labWorld))

\* The test driver ends a stage, and asks for a pause.
LabFinish ==
  /\ lab.session.mode = "test-driver" /\ lab.session.stage \in LabDriven
  /\ \E status \in {"won", "lost"} : LabDo(Ended(lab, labWorld, status, "synthetic"))
LabPauseRequest == lab.session.mode = "test-driver" /\ LabDo(PauseLab(lab, labWorld))
LabResume == (labWorld.front \/ lab.session.mode = "test-driver") /\ LabDo(Resumed(lab, labWorld))

LabPulse ==
  /\ lab.surface = "stage-pulse" /\ labWorld.front
  /\ LET n    == lab.session.pending
         next == [lab EXCEPT !.session = Pulse(@, n, lab.pulse), !.pulse = NoPulse]
     IN  LabDo(IF ~PulseLegal(lab.session, n, lab.pulse) THEN Throws(lab, "refused")
               ELSE IF next.session.phase \in LabPlay THEN BeginCurrentEngine(next)
               ELSE IF next.session.phase = "intermission" THEN Intermission(next) ELSE RoundExperience(next))

LabCompare ==
  /\ lab.surface = "round-experience" /\ labWorld.front
  /\ LabDo([lab EXCEPT !.surface = "comparison"])

\* The answers are frozen and the file offered, or the boundary refuses them.
LabFreeze ==
  /\ lab.surface = "comparison" /\ labWorld.front
  /\ LabDo(IF FreezeLegal(lab.session, lab.timing, labWorld.now)
           THEN [lab EXCEPT !.session = Freeze(@), !.surface = "frozen"]
           ELSE Throws(lab, "refused"))

LabDebrief ==
  /\ lab.surface = "frozen" /\ labWorld.front
  /\ LabDo([lab EXCEPT !.session = Debrief(@), !.surface = "debrief"])

\* stopWithoutSaving: from the form, or the banner's button once practice began.
LabStop ==
  /\ labWorld.front
  /\ \/ lab.surface = "welcome" /\ lab.session.mode = "human"
     \/ lab.surface # "stopped" /\ lab.session.phase \notin {"welcome", "frozen", "debrief"}
  /\ LabDo([lab EXCEPT !.timer = 0, !.surface = "stopped", !.action = "none", !.terminal = NoTerminal,
                       !.pulse = NoPulse,
                       !.timing = IF IsOpen(@) THEN Resume(@, labWorld.now, FALSE)
                                  ELSE SetActive(@, labWorld.now, FALSE)])

\* Focus, visibility and width change; what does not suit play pauses it.
LabWindow ==
  /\ lab.surface # "stopped"
  /\ \E w \in {[labWorld EXCEPT !.front = ~@], [labWorld EXCEPT !.fits = ~@]} :
       /\ labWorld' = w
       /\ lab' = IF (labWorld.front /\ ~w.front) \/ (labWorld.fits /\ ~w.fits) THEN PauseLab(lab, w) ELSE lab
  /\ UNCHANGED labPlayed

LabTime ==
  /\ labWorld.now < LabHorizon
  /\ labWorld' = [labWorld EXCEPT !.now = @ + 1]
  /\ labPlayed' = labPlayed + (IF lab.surface = "playing" THEN 1 ELSE 0)
  /\ UNCHANGED lab

\* Two ways out of the rules are known: Enter on a paused terminal, intermission
\* or test welcome runs the action the pause left armed (:1217), and the pause
\* after the last the ledger can hold throws before it is shown (:1154).
LabByTheRules == ~lab.passed /\ "full" \notin lab.threw

LabNext ==
  /\ LabFollow \/ LabByTheRules
  /\ \/ LabConsent \/ LabAct \/ LabCount \/ LabSkipCountdown \/ LabFrame \/ LabBacklog \/ LabFinish
     \/ LabPauseRequest \/ LabResume \/ LabPulse \/ LabCompare \/ LabFreeze \/ LabDebrief \/ LabStop
     \/ LabWindow \/ LabTime
LabSpec == LabInit /\ [][LabNext]_labVars

-----------------------------------------------------------------------------
\* A pause holds, and the record stays one its own boundary accepts: nothing is
\* played, counted or timed unless the page is in front at its width, a screen
\* that counts down counts, the time told as played is the time play was shown,
\* the ledger and the record are consistent after every event, and whoever
\* reaches the comparison can freeze it.
LabRecordStands ==
  LabByTheRules =>
    /\ lab.threw = {}
    /\ lab.surface = "paused" <=> IsOpen(lab.timing)
    /\ lab.surface = "playing" => Fit(labWorld)
    /\ lab.timing.active <=> lab.surface = "playing"
    /\ lab.surface = "countdown" <=> lab.timer > 0
    /\ TimingOk(lab.timing) /\ Accrued(lab.timing, labWorld.now) = labPlayed
    /\ lab.session.phase \in LabPlay => lab.session.ticks = lab.engine.tick /\ lab.session.stage > 0
    /\ lab.session.phase = "comparison" => ArtifactOk(lab.session)
    /\ lab.session.phase = "comparison" /\ lab.surface # "paused" =>
         lab.surface = "stopped" \/ FreezeLegal(lab.session, lab.timing, labWorld.now)
=============================================================================
