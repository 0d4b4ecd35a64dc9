-------------------------- MODULE PartitionSession --------------------------
(***************************************************************************)
(* A benchmark session of Partition (runtime/session.ts and                *)
(* benchmark/session.ts): a field that a timer ticks on while a model      *)
(* steers it, installs resident controllers, watches it, and closes it.    *)
(*                                                                         *)
(* `replica' is the replay of the ticks recorded so far.                   *)
(***************************************************************************)
EXTENDS PartitionReplay

CONSTANTS
  Programs,          \* the sequence programs a model may install
  Steers,            \* the inputs it may set itself
  Watches,           \* the watch requests of the session
  WatchTicks,        \* how long each may ask for
  SampleEvery,       \* and how often it samples
  NoController,
  MaxVersion         \* bound on the controllers installed

ASSUME SessionAssumption ==
  /\ \A p \in Programs : /\ p.steps \in Seq([ticks : Nat \ {0}, input : Inputs])
                         /\ p.steps # <<>> /\ p.loop \in BOOLEAN /\ p.fallback \in Inputs
  /\ Steers \subseteq Inputs
  /\ WatchTicks \subseteq Nat \ {0} /\ SampleEvery \in Nat \ {0} /\ MaxVersion \in Nat
  /\ NoController \notin [program : Programs, step : Nat, left : Nat]

VARIABLES
  field,             \* the live engine
  version,           \* its controllerVersion
  controller,        \* the resident program with its memory
  replica,           \* the replay: field, version, and whether it was accepted
  pending,           \* the versions installed since the last recorded tick
  log,               \* the events of the recorded ticks
  watch,             \* each watch request and its answer
  steered,           \* the model has set an input itself
  closed             \* the session wrote its artifact
vars == <<field, version, controller, replica, pending, log, watch, steered, closed>>

NotAsked == [phase |-> "none", from |-> 0, through |-> 0, to |-> 0,
             samples |-> {}, events |-> {}, terminal |-> FALSE]

Init ==
  /\ field = NewField /\ version = 0 /\ controller = NoController
  /\ replica = NewReplay /\ pending = {}
  /\ log = {} /\ watch = [w \in Watches |-> NotAsked]
  /\ steered = FALSE /\ closed = FALSE

-----------------------------------------------------------------------------
(* A sequence program: its input for this tick, and its memory after it.   *)

Exhausted(c) == c.step > Len(c.program.steps)
ProgramInput(c) ==
  IF Exhausted(c) THEN c.program.fallback ELSE c.program.steps[c.step].input
NextStep(c) ==
  IF c.step = Len(c.program.steps) /\ c.program.loop THEN 1 ELSE c.step + 1
At(c, step) ==
  [c EXCEPT !.step = step,
            !.left = IF step \in DOMAIN c.program.steps
                     THEN c.program.steps[step].ticks ELSE 0]

Advance(c) ==
  IF Exhausted(c) THEN c
  ELSE IF c.left > 1 THEN [c EXCEPT !.left = @ - 1]
  ELSE At(c, NextStep(c))
Reset(program) == At([program |-> program, step |-> 1, left |-> 0], 1)

-----------------------------------------------------------------------------
(* One tick of the timer                                                   *)

\* The controller's input, if there is one and the game is on.
Drive(f, c) ==
  IF c # NoController /\ Running(f) THEN SetInput(f, ProgramInput(c)) ELSE f

\* Mutant of Notify: a watch waits for its last tick even if the game is over.
NotifyAtLastTick(w, f) ==
  LET seen == [w EXCEPT
        !.samples = IF (f.tick - w.from) % SampleEvery = 0 THEN @ \cup {f.tick} ELSE @,
        !.events  = @ \cup ({f.tick} \X f.events)]
  IN  IF w.phase # "open" THEN w
      ELSE IF f.tick >= w.through
      THEN [seen EXCEPT !.phase = "answered", !.to = f.tick, !.terminal = ~Running(f)]
      ELSE seen

\* notifyWatchers: what a watch sees of a tick, and whether that answers it.
Notify(w, f) ==
  LET seen == [w EXCEPT
        !.samples = IF (f.tick - w.from) % SampleEvery = 0 THEN @ \cup {f.tick} ELSE @,
        !.events  = @ \cup ({f.tick} \X f.events)]
  IN  IF w.phase # "open" THEN w
      ELSE IF f.tick >= w.through \/ ~Running(f)
      THEN [seen EXCEPT !.phase = "answered", !.to = f.tick, !.terminal = ~Running(f)]
      ELSE seen

\* Mutant of Tick: the record holds the input as it is after the step.
TickRecordsAfter ==
  /\ ~closed
  /\ \E applied \in {Drive(field, controller)} : \E after \in {Step(applied)} :
       /\ field' = after
       /\ replica' = ReplayTick(replica, after.tick, after.input, version, after.events)
       /\ log' = log \cup ({after.tick} \X after.events)
       /\ watch' = [w \in Watches |-> Notify(watch[w], after)]
  /\ controller' = IF controller # NoController /\ Running(field) THEN Advance(controller) ELSE controller
  /\ pending' = {} /\ UNCHANGED <<version, steered, closed>>

\* The timer runs on after the game is over, and so does the recording.
Tick ==
  /\ ~closed
  /\ \E applied \in {Drive(field, controller)} : \E after \in {Step(applied)} :
       /\ field' = after
       /\ replica' = ReplayTick(replica, after.tick, applied.input, version, after.events)
       /\ log' = log \cup ({after.tick} \X after.events)
       /\ watch' = [w \in Watches |-> Notify(watch[w], after)]
  /\ controller' = IF controller # NoController /\ Running(field) THEN Advance(controller) ELSE controller
  /\ pending' = {} /\ UNCHANGED <<version, steered, closed>>

-----------------------------------------------------------------------------
(* The tools of the model                                                  *)

Steer ==
  /\ ~closed
  /\ \E i \in Steers : field' = SetInput(field, i)
  /\ steered' = TRUE
  /\ UNCHANGED <<version, controller, replica, pending, log, watch, closed>>

Install ==
  /\ ~closed /\ version < MaxVersion
  /\ \E p \in Programs : controller' = Reset(p)
  /\ version' = version + 1 /\ pending' = pending \cup {version + 1}
  /\ UNCHANGED <<field, replica, log, watch, steered, closed>>

\* A game that is over answers at once.
Watch(w) ==
  /\ ~closed /\ watch[w] = NotAsked
  /\ \E n \in WatchTicks :
       watch' = [watch EXCEPT ![w] =
         IF Running(field)
         THEN [@ EXCEPT !.phase = "open", !.from = field.tick, !.through = field.tick + n]
         ELSE [@ EXCEPT !.phase = "answered", !.from = field.tick, !.to = field.tick,
                        !.samples = {field.tick}, !.terminal = TRUE]]
  /\ UNCHANGED <<field, version, controller, replica, pending, log, steered, closed>>

\* The harness awaits every call of the model, so that none is pending here.
Close ==
  /\ ~closed /\ closed' = TRUE
  /\ \A w \in Watches : watch[w].phase # "open"
  /\ UNCHANGED <<field, version, controller, replica, pending, log, watch, steered>>

Next == Tick \/ Steer \/ Install \/ (\E w \in Watches : Watch(w)) \/ Close

Spec == Init /\ [][Next]_vars

-----------------------------------------------------------------------------
(* Properties                                                              *)

\* The types of the state.
TypeOK ==
  /\ version \in 0 .. MaxVersion /\ pending \subseteq 1 .. version
  /\ controller # NoController =>
       /\ controller.program \in Programs /\ controller.step \in Nat \ {0}
       /\ ~Exhausted(controller) =>
            controller.left \in 1 .. controller.program.steps[controller.step].ticks
  /\ replica.field.tick <= field.tick
  /\ log \subseteq Nat \X {"trace_started", "trace_completed", "trace_hit"}
  /\ \A w \in Watches : watch[w].phase \in {"none", "open", "answered"}
  /\ steered \in BOOLEAN /\ closed \in BOOLEAN

\* A session in which only resident controllers steer replays exactly, whichever
\* programs are installed and whenever, once a tick has recorded the last of them:
\* the engine ends traces by itself and asks for the draw button to be released, and
\* still no recorded tick goes another way in the replay.
ControlledRunReplays ==
  ~steered =>
    /\ Shown(replica.field, version) = Shown(field, version)
    /\ Running(field) => replica.ok
    /\ replica.ok /\ pending = {} => Matches(replica, field, version)

\* An answered watch covers the ticks it asked for, or all up to the end of the
\* game; it reports every event of them and no other, and samples on its grid.
Covers(a) ==
  /\ a.terminal \/ a.to = a.through
  /\ a.events = {e \in log : a.from < e[1] /\ e[1] <= a.to}
  /\ a.from < a.to =>
       a.samples = {t \in a.from + 1 .. a.to : (t - a.from) % SampleEvery = 0}
\* A watch that is open has ticks to come, so that the timer answers it; in a game
\* that is over, or past its last tick, none is open.
Pends(a) == Running(field) /\ field.tick < a.through
\* Every watch is served: answered with what it asked for, and never left waiting,
\* by a session whose state keeps its shape.
WatchesAreServed ==
  /\ TypeOK
  /\ \A w \in Watches : /\ watch[w].phase = "answered" => Covers(watch[w])
                        /\ watch[w].phase = "open" => Pends(watch[w])

\* "Replay Lab can load a partition-replay.json artifact": the artifact of a game
\* that only resident controllers steered, and that is over when the session is
\* closed, replays tick by tick.
FinishedReplayIsContiguous == closed /\ ~steered /\ ~Running(field) => replica.ok

\* The same of a game that is still on when the session is closed: its artifact
\* replays to the state the session closed with.
OpenReplayIsAccepted == closed /\ ~steered /\ Running(field) => Matches(replica, field, version)
=============================================================================
