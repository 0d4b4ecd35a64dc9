--------------------------- MODULE PartitionPlay ---------------------------
(***************************************************************************)
(* Human play of Partition in the browser: viewer/human-input.ts, and of   *)
(* viewer/main.ts the tick loop, the modes, the runs and the stages, and   *)
(* the replays a run records for its score entry.                          *)
(*                                                                         *)
(* Handlers, the tick interval and the answers of the ranked service are   *)
(* the steps; the service is asked between BeginRun and Launch, and the    *)
(* page goes on in between.                                                *)
(***************************************************************************)
EXTENDS PartitionReplay

CONSTANTS
  Codes,             \* the keys used: "Space" and directions for the arrows
  Pointers,          \* the touch pointers
  Actions,           \* the buttons they press: "trace" and directions
  Stages,            \* the stages of the arcade campaign
  MaxRecord          \* bound on the stages of one record

ASSUME PlayAssumption ==
  /\ Codes \subseteq {"Space"} \cup (Directions \ {"idle"})
  /\ Actions \subseteq {"trace"} \cup (Directions \ {"idle"})
  /\ Stages \in Nat \ {0} /\ MaxRecord \in Nat \ {0}

VARIABLES
  field,             \* engine
  human,             \* humanInput
  replica,           \* the replay of liveReplayTicks
  mode, started,     \* mode and liveStarted
  context, level,    \* playContext and selectedLevelIndex, from 1
  starting,          \* startingRankedRun: the context asked for, or "no"
  record,            \* runStageReplays; `own' while the run of a stage is on
  dropped            \* a clear took a draw release that no tick recorded
vars == <<field, human, replica, mode, started, context, level, starting,
          record, dropped>>

Contexts == {"arcade", "catalog"}
Modes == {"home", "catalog", "live", "replay"}
Released == [keys |-> {}, dirs |-> <<>>, pointers |-> <<>>, buffered |-> "idle",
             armed |-> FALSE, owes |-> FALSE]

Init ==
  /\ field = NewField /\ human = Released /\ replica = NewReplay
  /\ mode = "home" /\ started = FALSE /\ context = "arcade" /\ level = 1
  /\ starting = "no" /\ record = <<>> /\ dropped = FALSE

-----------------------------------------------------------------------------
(* PartitionHumanInput.  `owes' is its releaseRequired.                    *)

\* A filter: what is left of a sequence when the members of a set stay.
Only(s, T) ==
  LET left[n \in 0 .. Len(s)] ==
        IF n = 0 THEN <<>> ELSE IF s[n] \in T THEN Append(left[n - 1], s[n]) ELSE left[n - 1]
  IN  left[Len(s)]
Without(s, d) == Only(s, Directions \ {d})
Lifted(s, id) == Only(s, [id : Pointers \ {id}, action : Actions])
LastOr(s, other) == IF s = <<>> THEN other ELSE s[Len(s)]

Arm(h, f) == [h EXCEPT !.armed = @ \/ (Running(f) /\ ~f.drawing)]

Press(h, code, f) ==
  IF code \in h.keys THEN h
  ELSE IF code = "Space" THEN Arm([h EXCEPT !.keys = @ \cup {code}], f)
  ELSE [h EXCEPT !.keys = @ \cup {code}, !.dirs = Append(Without(@, code), code),
                 !.buffered = code]
Release(h, code) ==
  [h EXCEPT !.keys = @ \ {code}, !.dirs = Without(@, code)]

Touch(h, id, action, f) ==
  LET g == [h EXCEPT !.pointers = Append(Lifted(@, id), [id |-> id, action |-> action])]
  IN  IF action = "trace" THEN Arm(g, f) ELSE [g EXCEPT !.buffered = action]
Lift(h, id) == [h EXCEPT !.pointers = Lifted(@, id)]
CancelTouch(h, id) ==
  LET held == {p \in {h.pointers[k] : k \in 1 .. Len(h.pointers)} : p.id = id}
      acts == {p.action : p \in held}
  IN  [Lift(h, id) EXCEPT !.armed = @ /\ "trace" \notin acts,
         !.buffered = IF "trace" \notin acts /\ @ \in acts THEN "idle" ELSE @]

\* nextStage: held devices stay, taps and turns do not; holding TRACE arms.
HeldOver(h) ==
  [h EXCEPT !.buffered = "idle", !.owes = FALSE,
            !.armed = "Space" \in h.keys \/ \E k \in 1 .. Len(h.pointers) :
                                              h.pointers[k].action = "trace"]

Moves(f) == f.tick % MoveEvery = 0
Steered(h, f) ==
  LET touched == Only([k \in 1 .. Len(h.pointers) |-> h.pointers[k].action], Directions)
      held    == LastOr(h.dirs, LastOr(touched, "idle"))
  IN  IF Moves(f) /\ held = "idle" THEN h.buffered ELSE held

\* What sample returns while the field runs, and what it leaves.
Sample(h, f) ==
  IF h.owes /\ h.armed THEN Idle
  ELSE [direction |-> Steered(h, f),
        draw |-> IF h.armed /\ ~f.drawing /\ ~h.owes THEN "fast" ELSE "off"]
Sampled(h, f) ==
  IF h.owes /\ h.armed THEN [h EXCEPT !.owes = FALSE]
  ELSE [h EXCEPT !.owes = FALSE, !.buffered = IF Moves(f) THEN "idle" ELSE @]

Observe(h, f) ==
  LET ended == f.events \cap {"trace_completed", "trace_hit"} # {}
  IN  [h EXCEPT !.owes = @ \/ ended,
                !.armed = @ /\ ~(~Running(f) \/ f.drawing \/ f.events # {})]

-----------------------------------------------------------------------------
(* The controls                                                            *)

Page == <<mode, context, level, starting, record>>
Untouched == UNCHANGED <<field, replica, dropped>> /\ UNCHANGED Page

\* The first key or button of a field starts it (startHumanPlay).
KeyDown ==
  /\ mode = "live" /\ started' = TRUE
  /\ \E code \in Codes : human' = Press(human, code, field)
  /\ Untouched
KeyUp ==
  /\ \E code \in Codes : human' = Release(human, code)
  /\ UNCHANGED started /\ Untouched
PointerDown ==
  /\ mode = "live" /\ started' = TRUE
  /\ \E id \in Pointers, action \in Actions : human' = Touch(human, id, action, field)
  /\ Untouched
PointerEnd ==
  /\ \E id \in Pointers : human' \in {Lift(human, id), CancelTouch(human, id)}
  /\ UNCHANGED started /\ Untouched
\* A click without a pointer: the button's action and nothing held.
Click ==
  /\ mode = "live" /\ started' = TRUE
  /\ \E action \in Actions :
       human' = IF action = "trace" THEN Arm(human, field)
                                    ELSE [human EXCEPT !.buffered = action]
  /\ Untouched

\* Mutant of Clear: the controls are reset, the engine keeps its input.
ClearControlsOnly == human' = Released /\ UNCHANGED <<field, dropped>>

\* clearHumanControls: the controls and the engine's input, off the record.
Clear ==
  /\ human' = Released /\ field' = SetInput(field, Idle)
  /\ dropped' = (dropped \/ (Running(field) /\ field.release))

\* The window loses focus or is hidden, a dialog or the score entry takes over.
Blur == Clear /\ UNCHANGED <<replica, started>> /\ UNCHANGED Page

\* showHowToPlay.
HowToPlay ==
  /\ mode = "live" /\ Clear /\ started' = FALSE
  /\ UNCHANGED replica /\ UNCHANGED Page

\* setMode: a tab, or a button that leads to another mode.
SetMode(m) ==
  /\ m # mode /\ mode' = m /\ Clear
  /\ started' = (started /\ m \in {"live", "replay"})
  /\ IF m = "home" THEN context' = "arcade" /\ level' = 1 ELSE UNCHANGED <<context, level>>
  /\ UNCHANGED <<replica, starting, record>>

-----------------------------------------------------------------------------
(* The tick loop                                                           *)

LastOfRun(f) == context = "catalog" \/ f.status = "lost" \/ level = Stages
\* What the properties ask of a recorded replay: whether it is a stage of the run
\* that is on, and whether it is accepted or a dropped release excuses it.  The page
\* installs no controller: its version is 0.
Recorded(r, f) == [own |-> TRUE, verifies |-> dropped \/ Matches(r, f, 0)]

\* Mutant of Tick: the record holds the input as it was before the sample.
TickRecordsBefore ==
  /\ mode = "live" /\ started /\ Running(field)
  /\ \E in \in {Sample(human, field)} : \E after \in {Step(SetInput(field, in))} :
       /\ replica' = ReplayTick(replica, after.tick, field.input, 0, after.events)
       /\ record' = IF Running(after) THEN record ELSE Append(record, Recorded(replica', after))
       /\ IF ~Running(after) /\ LastOfRun(after)
          THEN field' = SetInput(after, Idle) /\ human' = Released
          ELSE field' = after /\ human' = Observe(Sampled(human, field), after)
  /\ UNCHANGED <<mode, started, context, level, starting, dropped>>

\* A field that ends is recorded (recordStageResult); the end of a run opens the
\* score entry, which clears the controls.
Tick ==
  /\ mode = "live" /\ started /\ Running(field)
  /\ \E in \in {Sample(human, field)} : \E after \in {Step(SetInput(field, in))} :
       /\ replica' = ReplayTick(replica, after.tick, in, 0, after.events)
       /\ record' = IF Running(after) THEN record ELSE Append(record, Recorded(replica', after))
       /\ IF ~Running(after) /\ LastOfRun(after)
          THEN field' = SetInput(after, Idle) /\ human' = Released
          ELSE field' = after /\ human' = Observe(Sampled(human, field), after)
  /\ UNCHANGED <<mode, started, context, level, starting, dropped>>

-----------------------------------------------------------------------------
(* Runs and stages                                                         *)

\* resetLiveSession and launchSelectedField on a new engine.
NewSession(h) ==
  /\ field' = NewField /\ human' = h /\ replica' = NewReplay
  /\ dropped' = FALSE /\ mode' = "live" /\ started' = TRUE

\* The next stage of a won one, by button or by the countdown of autoAdvance.  The
\* HOME tab takes the level back to the first and PLAY back to the won field, so
\* that a record has no end of its own.
Advance ==
  /\ mode = "live" /\ context = "arcade" /\ field.status = "won" /\ level < Stages
  /\ Len(record) < MaxRecord
  /\ level' = level + 1 /\ NewSession(HeldOver(human))
  /\ UNCHANGED <<context, starting, record>>

\* A catalog field is restarted on the spot.
RestartField ==
  /\ mode = "live" /\ context = "catalog" /\ field.status # "won"
  /\ record' = <<>> /\ NewSession(Released)
  /\ UNCHANGED <<context, level, starting>>

\* startArcadeRun and launchCatalogField up to the await: from their launchers,
\* and for an arcade run that is not won from the restart button.
BeginRun(c) ==
  /\ starting = "no"
  /\ \/ c = "arcade" /\ mode = "home"
     \/ c = "catalog" /\ mode = "catalog"
     \/ c = "arcade" /\ mode = "live" /\ context = "arcade" /\ field.status # "won"
  /\ starting' = c /\ record' = <<>>
  /\ UNCHANGED <<field, human, replica, mode, started, context, level, dropped>>

\* And on from it, whether the service answered or failed.
Launch ==
  /\ starting # "no"
  /\ context' = starting /\ starting' = "no" /\ level' = 1
  /\ NewSession(Released)
  /\ record' = [k \in DOMAIN record |-> [record[k] EXCEPT !.own = FALSE]]

Next ==
  \/ KeyDown \/ KeyUp \/ PointerDown \/ PointerEnd \/ Click
  \/ Blur \/ HowToPlay \/ (\E m \in Modes : SetMode(m))
  \/ Tick \/ Advance \/ RestartField \/ (\E c \in Contexts : BeginRun(c)) \/ Launch
Spec == Init /\ [][Next]_vars

-----------------------------------------------------------------------------
(* Properties                                                              *)

\* The types of the state.
TypeOK ==
  /\ human.keys \subseteq Codes /\ human.buffered \in Directions
  /\ \A k \in 1 .. Len(human.dirs) : human.dirs[k] \in human.keys \cap Directions
  /\ \A j, k \in 1 .. Len(human.pointers) :
       human.pointers[j].id = human.pointers[k].id => j = k
  /\ mode \in Modes /\ context \in Contexts /\ level \in 1 .. Stages
  /\ starting \in Contexts \cup {"no"}
  /\ Len(record) <= MaxRecord + 1

\* A cut the player is given is a cut the engine makes: whenever the controls
\* would ask for a draw, the engine is not waiting for the button to be let go,
\* whatever was pressed, cleared or held over since the last trace; and the
\* controls hold nothing that is not held down.
NoSwallowedCut ==
  /\ TypeOK
  /\ Running(field) /\ Sample(human, field).draw = "fast" => ~field.release

\* Every stage a run records replays to the state that ended it, although blurs,
\* modes and dialogs set inputs no tick records; the one exception is a clear
\* between the end of a trace and the tick after it.
StageReplaysVerify ==
  \A k \in 1 .. Len(record) : record[k].verifies

\* "nothing about the last run is carried into this one", said where a run resets
\* the permission that goes with its score: all stages it records are its own.
NothingIsCarriedOver ==
  \A k \in 1 .. Len(record) : record[k].own
=============================================================================
