# ArcadeBench: models, checks and proofs

ArcadeBench is a set of browser arcade games that people and language models play, with a platform
that accepts a score only when its replay, simulated again, gives that score. Its hard parts are
therefore of three kinds: engines that must be deterministic and fair, recorders that must hold
exactly what was played, and a platform that keeps scores and replays consistent over two stores
that share no transaction. This directory models those parts in TLA+, checks small instances with
TLC, and proves the main safety properties with TLAPS for every value of the constants.

`PROJECT.json` lists the components, the runs, one mutant for every property, the source lines of
every definition, the hazards of the code, the findings and the theorems.

## 1. The system

| part | where | state it keeps | operations | talks to |
|---|---|---|---|---|
| Shared score submission | `apps/platform/src/shared`, migration 0004 | D1 tables (challenges, entries, publications, events, replay objects), R2 archives, memory of an invocation | begin run, submit, claim, replay reads, hourly maintenance, operator actions | D1 batches with triggers, R2, game adapters |
| Maltline proof retention | `apps/platform/src/maltline-worker.ts`, migration 0003 | challenge, score row with proof state and lease, R2 object | begin, POST score, reconcile, expire, purge | D1, R2 |
| Legacy Partition routes | `apps/platform/src/worker.ts`, `partition-adapter.ts` | runs, scores, shares, R2 objects | submit over either route, share, expire | D1, R2, the shared tables by trigger |
| Feedback and votes | `apps/platform/src/shared/feedback.ts` | two vote tables, notes | set, summary, cleanup | D1 triggers, catalog pages |
| Maltline cabinet | `games/maltline/src/viewer` `main.ts`, `viewer-flow-controller.ts`, `cabinet-leaderboard.ts` | screen, stage, countdown timer, eligibility, recorded stages, ranked session | keys, frames, timers, blur, resize, Shift Board | engine, platform (8 s timeouts) |
| Maltline engine | `games/maltline/src/core/engine.ts` | player, jars, customers, score, lives | one tick with one input | called by host, replay and verifier |
| Maltline ranked panel | `viewer/competition-controller.ts`, `ranked-proof-recorder.ts` | challenge, recorder, panel with form and board | attempt hooks, submit, retry, checks of kept proofs | platform |
| Maltline proofs and replay | `core/proof.ts`, `viewer/cabinet-proof.ts`, `playback.ts`, `replay-scrubber.ts` | recorded inputs, kept envelope, cursor, scrubber | record, encode, verify, open, play, drag, jump | engine |
| Maltline clock | `viewer/fixed-step-clock.ts` | accumulator | advance, reset | animation frames |
| Maltline human lab | `viewer/human-lab.ts`, `experiments/human-lab-*.ts` | surfaces, record, ledger of time | keys, frames, pauses, export | engine, window |
| Maltline audio tool | `tools/audio-production.mjs` | locks, journals, files of each asset | request, normalize, promote, resume | a paid service, ffmpeg, disk |
| Partition engine | `games/partition/src/core` | spark, trace, walls, stabilized cells, anomalies, verdict | `setInput`, `step` | called by session, viewer, replay, verifier |
| Partition session | `games/partition/src/runtime`, `benchmark` | engine, resident controller, replay ticks, watches | timer tick, `setInput`, install, watch, close | harness, engine |
| Partition viewer | `games/partition/src/viewer` | controls, modes, stage, run record | keys, pointers, tick interval, restart, advance | engine, platform |
| Smilefall engine | `games/smilefall/src/core/engine.ts` | smilies, rocks, buckets, hops, score | one tick with one input | viewer, verifier |
| Smilefall viewer | `games/smilefall/src/viewer/main.ts` | screens, attempts, run record, score entry | buttons, frames, answers | platform |
| Catalog votes and notes | `viewer/feedback-note.ts` and `main.ts` of both | summaries, cards, note dialog | draw, vote, note | platform sessions |
| Harness, bench core | `packages/harness`, `packages/bench-core` | manifest, events, transcript | run loop, append, finish | model driver, session |
| SDK, CLI, board, site, scripts, hardware | the rest | none that matters between two requests | | |

What makes each part correct, and what makes that hard:

* **Submission.** One score per one-time challenge; an archive is readable for as long as it was
  promised; placement, retention and activity agree; answers are true; bytes nobody is entitled to
  disappear. Hard because a request is a pending row, an R2 write and a batch, each of which may be
  the last thing its Worker does; because an R2 write may land after everybody gave it up; because
  maintenance works on pages it read earlier.
* **Maltline retention.** A ready row's proof is stored and is the verified one; no proof is wasted;
  no row stays pending. The only ordering is a lease compared and swapped on every verdict.
* **Cabinet.** A result that can be sent is the whole run of this attempt, uninterrupted, under its
  own challenge. Handlers are atomic but everything else interleaves: abandoned countdown callbacks,
  answers of earlier attempts, focus, device width, the browser's leave prompt.
* **Engines.** Conservation (jars, customers, score), geometry (anomalies confined, captures sealed,
  traces simple) and verdicts that stand, in loops that change the lists they run over.
* **Pages.** What a page offers, says and sends is about the attempt on screen, although challenges,
  answers and retries of earlier ones arrive late, are lost, or are cut off after the platform has
  done what they asked.
* **Runs of a tool.** A run directory or a set of bought files can be believed and resumed after a
  write that failed or a death between any two.
* **Recorders.** The recorded inputs alone must reach the recorded end, although inputs are set
  between ticks by programs, models, blurs, dialogs and modes, and the engine has a latch of its own
  that no snapshot shows.

## 2. The modules

### Platform

**`SharedSubmission`** - the pipeline of `submitSharedScore`, the object states of `replays.ts`, the
publication statements of `publication.ts`, the triggers of migration 0004 and the scheduled job. An
action is one D1 statement or batch (a batch with its triggers is atomic), one R2 call or its
landing, or one answer. A request draws random ids and owns at most one entry, publication, event and
object, so these rows are functions of the request. Rank vectors with `(created_at, id)` are a strict
total order: `place`. `put` holds an R2 write that may land late; a request may die in any working
state; cleaners may overlap and each works with the `now` and the page it read. Two constants are
adapter options: `ConsumeSeesBoard` and `GuardedBegin`.
**`ScoreLedger`** is what the pipeline promises; `ImplementsLedger` is the refinement.
`MCSharedSubmission` holds the symmetries.
**`LegacyPartition`** - the routes of old Partition clients: a run submitted over v1 or v2 and spent
once, v1's own five-day proof, replay shares published under one name by whoever comes first, and the
hourly pass that expires both. **`Feedback`** - votes and notes of one subject: the old table, the new
one, the triggers that keep them alike, and the notes' deadline.

**`MaltlineProofs`** - the older write path of Maltline: POSTs that insert, resume, claim the lease,
upload, inspect and promote; the reconciler that looks at rows with an old lease, reads the object
and settles by compare-and-swap; expiry and purge. `Tampered` are the runs under whose key R2 may hold
foreign bytes. The time in which R2 decides a write is the constant `UploadTime`: nothing in the code
enforces it, and `UploadNeverWasted` says what the grace period gives if it is below the period.

### Maltline

**`CabinetRun`** - flow controller, host and ranked session in one module, since a handler of one
calls the others synchronously; one action is one handler with every callback it makes. `slot` is the
callback the controller waits for and `timers` are all the browser may still fire, abandoned ones
included (cancelling is advisory). A frame that ends a stage records its replay, builds the proof and
changes the screen in one step. `begins`, `post`, `stray` are requests in flight, the last ones those
the client has given up and the server may still record.
**`RankedRun`** is the promise of a ranked attempt, `KeepsPromise` the refinement.

**`MaltlineEngine`** - one stage, tick by tick and within a tick element by element, so that a last
life lost in the middle of a loop is a state. Random draws and inputs are arbitrary. Positions are
whole units and the stage has one speed for a kind of thing.

**`Competition`** - the ranked panel: the attempt's challenge, the recorder, the board with its checks of
kept proofs, the form. Requests carry the generation they belong to or are cut off; `coServer` is what the
service has really done: the service is `maltline-worker.ts`, whose steps are in `MaltlineProofs`, and
here it is what an answer may be and what row is then there, with the reconciler in the background. No
shipped page mounts this controller, only its visual fixture
(`tests/visual/competition-controller-fixture.ts`); when the host starts an attempt (`CoStart`) and gives
one up (`CoAbandon`) is the model's own.
**`MaltlineProof`**, **`MaltlineReplay`** - the inputs-only
proof, its canonical runs and both verifiers; and a run from play through proof and kept envelope to the
cursor and scrubber that show it. The engine is an operator of what it was fed (`PfOutcome`): all that is
asked of it, in `RpAssumption`, is that a stage begun with a life runs and that one which is won leaves a
life. Loops over lists (runs, stages, the bisections of `inputAt` and `positionAtFrame`) are recursive
functions on the number of turns, which is the form a proof can reason about; **`Totals`** has the sum of
a list, written so.
**`FixedStepClock`** - frames into ticks, in whole units.
**`LabSession`**,
**`HumanLab`** - the playtest's record with the boundary that judges the whole artifact anew, and the page
that makes it. **`AudioProduction`** - the tool that buys sounds: locks, journals, exclusive links,
manifests, with faults between and inside the writes.

### Partition

**`PartitionRules`** - `setInput` and `step` as operators on a record, because sessions hold several
fields (a live one and a replay). An edge is the set of its two points, which is what `edgeKey` makes
of it. `Captured` states the flood fill by what it computes: the largest set of open cells with no
anomaly and no way out. What a filament touches is a constant operator (`FilamentTouches`).
**`PartitionField`** drives one field with any inputs, one anomaly at a time.
**`PartitionReplay`** is the re-simulation, kept as a *replica*: the state of the replay after the
ticks recorded so far and whether it accepted them all, so no history is stored.
What the replay compares at the end is all the recorded state shows, the controller version included
(`Shown`).
**`PartitionSession`** - the benchmark session: timer, sequence programs, steering, watches, close;
`pending` has the versions installed since the last recorded tick.
**`PartitionPlay`** - the browser: `PartitionHumanInput` whole, and of `main.ts` the tick loop,
`clearHumanControls`, modes, restart, advance, and the await in `startArcadeRun`.

### Smilefall, catalogs, harness

**`SmilefallEngine`** - the engine tick by tick in its own integers. **`SmilefallLedger`** is what a
stage promises whatever its geometry; `StageKeepsLedger` is the refinement. **`SmilefallPlay`** - the
screens, attempts and score entry of `main.ts`, with the verifier a score is sent to; a stage's physics
is the outcome of the frame that ends it.
**`CatalogVotes`** - the votes and the note dialog of both catalogs against the platform's sessions.
**`HarnessRun`** - the run loop, the driver with its retries, and each write of the run directory.

### Several components in one run

`MCGames`, `MCServices`, `MCPages` and `MCMaltline` each extend several components that share no state.
Their variable `shown`, chosen at the start and never changed, says which one moves in a behaviour; the others
stay where they began. A run of theirs therefore is the union of the components' own runs and not their
product: every invariant of one of them is checked in all of its reachable states, and trivially in the
initial state of the others.

An action name is the handler's or statement's name wherever there is one; `PROJECT.json` "map" has
the lines. Definitions commented as mutants are deliberate bugs: each property is violated when one
of them replaces the definition it is named for, which shows the property depends on that code.

## 3. The runs

Every run ends with no error (or, for the four marked, with the counterexample it is there to show) in
at most four minutes with two workers.

| run | question | instance and why it is enough |
|---|---|---|
| `submission_races` | Two submissions of one run against crashes, late writes, maintenance, season and board changes: one score, archives as promised, true answers | 2 requests, 1 run, 1 overlapping cleaner, places 1-2, no qualification, clock to 2. The challenge may outlive its archive (2 > 1), so the trigger's own test is needed. Requests are symmetric |
| `submission_ranking` | Placement, retention, activity and operators' withdrawals | 3 requests of 3 runs for 1 qualifying place, no time: a tie at the boundary and a withdrawal on either side of it |
| `submission_liveness` | The refinement of `ScoreLedger`, and that orphaned bytes go | 1 request, 1 cleaner, both adapter guards left out, clock to 3: long enough for a lapse, a claim and a recheck of a tombstone |
| `cabinet` | Eligibility, receipts, countdowns, the promise of `RankedRun`, progress (`NothingHangs`) | 2 attempts (a late answer needs an earlier one), 2 stages with a break between, 2 countdowns (an abandoned callback needs a newer one), clock to 1 past the challenge's window |
| `maltline` | *Stage*: conservation of jars, customers, score; clean end; the end comes | lanes of 4 units, 2 customers, 2 lanes, 2 flavors, 3 jars, 2 lives, both control generations: a served customer who comes back, a jar lost, a life lost in each loop |
| | *Proofs of a run*: pending rows are settled and expired proofs removed (`NothingLingers`) | 1 request whose object may be overwritten, 1 cleaner, clock to 4: grace, then retention, then expiry |
| `games` | *Partition field*: geometry and verdicts under any inputs | 4 x 3 cells, two blocked, a drifter and a filament, 7 ticks: cuts with one and two captured sides, hits from tip and trace, a win in the tick of the limit |
| | *Smilefall stage*: the ledger is kept | 3 smilies for 2 buckets, ledge, spikes, both kinds of rock, a pail that walks, 7 ticks |
| | *Record*: a proof, kept, opened, watched and scrubbed, is the play | 2 stages, 4 lives, limits the longest runs exceed, a picture of 3 ticks, 2 speeds, frames of up to 3 units |
| | *Clock*: no time is made or lost unsaid | ticks of 2 and 3 units, catch-up 3, frames of up to 12 units: a whole backlog, one dropped, a change of tick |
| | *Audio tool*: paid once, complete or resumable | 2 assets, 2 plans of the same names (symmetric), 3 runs that may overlap, 1 fault or death |
| | *Lab*: the record is one the boundary accepts | 1 practice stage, rounds of 2, 1 life, 1 interruption, 1 unit of time |
| | *Proofs of a run*: two POSTs of a run with the same or another proof or callsign, a reconciler, expiry | 2 requests, 2 variants, clock to 3: an upload decided up to 1 unit late, a lease of 2 that lapses, an expiry; symmetric |
| `services` | *Session*: replay of controlled play, watches | 3 x 2 cells, 6 ticks, two programs (looping and not), three steering inputs, one watch; the timer goes on after the end |
| | *Scores and shares*: spent once, kept as long as promised | 2 calls for one run over both routes, 2 shares of 1 or 2 days, clock to 3, past every deadline |
| | *Feedback*: one value on both sides of the bridge | 2 sessions, 2 writes, 1 note kept 1 tick |
| | *Harness*: the directory can be believed | 3 turns of up to 2 calls, 2 idle turns, 1 retry, 2 failed writes, death anywhere |
| `pages` | *Partition*: no swallowed cut; recorded stages replay | 3 x 2 cells, 3 ticks (a cut takes two, the release comes in the third), keys Space and up, one pointer with TRACE and right, 2 stages, any number of runs |
| | *Smilefall*: a score sent verifies; unsaved runs are warned of | 3 stages, 2 difficulties, 2 challenges |
| | *Panel*: attempts stay apart; what it says is so | 2 attempts, 2 stages, 2 requests in flight |
| | *Votes*: the page knows what the platform holds | 2 fields, 1 of them with a note, 2 requests in flight, 2 sessions |
| `session_after_the_end` *(counterexample)* | Is the artifact of a finished game contiguous? | the session of `services` |
| `session_installed_last` *(counterexample)* | Does the artifact of a game that is still on replay to the state it was closed in? | 3 x 2 cells, two installations |
| `play_run_carried_over` *(counterexample)* | Are a run's recorded stages its own? | the Partition page of `pages` |
| `vote_brought_back` *(counterexample)* | Does a note carry the vote the platform holds? | the Partition catalog with 2 fields, 2 requests in flight, 1 session, every request answered |

Bounds that are the model's and not the code's: `MaxClock`, `LpHorizon`, `FbHorizon`, `LabHorizon`,
`CkMaxTotal` (where time stops); `MaxAttempt`, `MaxCountdown`, `CoAttempts`, `SfMaxRuns`, `AuRuns`
(attempts are numbered); `CoRequests`, `VtRequests`, `VtViewers`, `RpMaxBacklog` (what is in flight or
behind); `HrCalls`, `HrFaults`, `AuFaults` (what a response holds, what goes wrong); `LabTicks` and
`LabDriven` (length of a lab stage, stages ended by the test driver); `MaxTicks` (untimed fields),
`MaxVersion` (installations), `MaxRecord` (see section 5). Two models stop following a behaviour that has
met a known fault: `LabFollow = FALSE` (section 5, the lab) and `vtCrossed` (the page has lost a field's
truth for one of the three reasons its property names; `vote_brought_back` follows it further). Properties
of what happens eventually name `MaxClock` where time stopping would excuse the system.

Deadlock is checked where the system always has a step. It is off where it may stop: a stage or a
field that is over, all requests answered and the clock at its bound, a closed session, a run that is finished.

### Fairness

* *Platform.* Time passes; R2 decides each write; the schedule starts maintenance again and again
  (weak fairness). The statements of a maintenance run have strong fairness: an invocation may die
  after any statement, infinitely often, but not always at the same place. Requests and operators have
  none: a Worker may die after every step.
* *Cabinet.* The timer the controller waits for fires (browsers run timers), and every begin and
  submit call is answered or given up, which `createCabinetGameClient` does after eight seconds without
  headers; it then clears its timer, so that a body which has begun is assumed to come whole. Keys, focus
  and server have none.
* *Maltline stage.* The host goes on stepping (weak fairness of the whole tick); input is arbitrary.
  In the run `maltline` each behaviour has the fairness of the component it shows.
* *Everything else.* None. What a watch must get is stated as safety: an open watch always has ticks to
  come, and the interval of an open session never stops.

## 4. The proofs

Eight modules hold the theorems; `PROJECT.json` lists the 55 a reader should know of. Each module proves
an inductive invariant from the named assumption on the constants and takes the rest from it; it is
stated as named conjuncts, and a lemma per action or per conjunct shows that every step keeps it. TLC
checked each of these invariants on the instance of its run before it was proved, but for `RpInv`, which
is not in a form TLC evaluates: what it implies, `RpRecordIsThePlay`, is what the run checks.

**`SharedSubmissionProofs`**, from `Shape`: any numbers of requests, runs, boards and overlapping
cleaners, any times, either value of the adapter options. `OneEntryPerRun` is not inductive: it needs
that challenge and entry name each other (`LedgerLinked`), that entries exist exactly from the commit on
(`EntryAfterCommit`) and that nothing exists before the pending row (`Untouched`).
`ArchiveOutlivesPromise` needs what each object state says about the bytes (`ArchiveBacked`) and that
pages in the hands of maintenance hold claimed rows only, however old the page is (`JobsSound`).
`DeadlinesOrdered` gives that a consumable challenge never finds its object expired when challenges
live no longer than archives. `Refinement` maps the commit batch to `Accept`, operators to `Hide` and
`Remove`, claims to `Lapse`, and everything else to a stutter. `PlacementDriftHolds` counts: entries an
operator withdrew stay out (`WithdrawnStayOut`), so the set of entries ahead of a given one, together
with the withdrawn ones, only grows, and with it its cardinality.

**`CabinetRunProofs`**, from `Shape`: any number of stages, attempts and times. `PlayInv` ties recorded
stages, engine and screen; `FlowInv` the timer slot to the countdown; `RankInv` that ranking once lost
stays lost and the challenge is the attempt's own; `NetInv` what answers in flight may still do.
`PromiseKept` is the refinement of `RankedRun`.

**`PartitionRulesProofs`**, from `BoardAssumption` and `ScenarioAssumption`, has what each part of a tick
does to a field, for any board, walls, anomalies, cadence and filament geometry, and what the whole tick
does (`StepSound`, `StepOver`). A tick moves the anomalies one after the other by a recursive function on
the numbers up to theirs; `LeastNumber`, which is `WFMin` of the library for the order of the naturals,
gives the induction such a function needs without a theorem that takes an operator: of the anomalies
after which something fails there would be a first. `GamesProofs`, `ServicesProofs` and whatever else
has a field rest on it.

**`GamesProofs`** first proves `PartitionField`, from those and `MaxTicksAssumption`. Type and
confinement go together: a capture takes no occupied cell and a step that leaves is taken back.
`FieldCutsAreOpen` shows that a trace of
any length is a simple path, by counting degrees: an edge added at the tip has one new end, which is on
no earlier edge.

**`MaltlineEngineProofs`**, from the module's assumption on bar, crowd and jars. What the runs check is
a balance, and what is inductive is where each thing is: `StageInv` says that a jar has one place
(`OneHand`, `Placed`), that jars in hand, on the bar, coming back, lost and in the pool are all there
are (`JarsHeld`), that a customer waiting, drinking, served or gone is one of the crowd
(`CustomersHeld`), that a stage ends only when it must (`EndHeld`), and that bonuses still on glasses and
jars are part of what may be scored (`ScoreHeld`). Every element of every loop of a tick is a step, so
each moves one thing from one place to another, and the sums follow.

**`ServicesProofs`**. *Feedback*, from `FbAssumption`: on Partition's default channel every
row written to, changed in or deleted from the old table is projected into the shared one in the same
batch, and nothing else writes the shared one there. *Scores and shares*, from `LpAssumption`: `LpSpent` (a
spent run names the one score it was spent for), `LpKept` (a score's proof is stored until its
deadline), `LpShared`. *Harness*, from `HrAssumption`: `HrInv` ties what the loop counted to what was
written (`HrUsageCounted`, `HrCallsCounted`), what the model was told to what was asked (`HrTold`), and
the end written in the manifest to how the loop ended (`HrOver`, `HrEarned`). *The session*, from
`SessionAssumption` and what `PartitionRulesProofs` has: `SesWatched` says what an open watch has got so
far, and that an answered one got all of its interval; `SesReplays` that until the game is over the
field of the replay is the field, of a session nobody steers by hand, and the version of the replay the
session's, unless one was installed since the last tick (`pending`). What is sampled and what is
watched is counted in ticks, so the proof needs that a tick adds one (`StepSound`) and that nothing in
the log is of the future (`SesPast`). *Maltline's older write path*, from `Shape`, with the invariant
`IInv`: `UploadNeverWasted` is the deep one: a verdict *missing* read
earlier can still be true only because whoever writes holds a newer lease. `WritesInTime` and
`MissingStays` say so, under `UploadTime < Grace`; without it TLC finds the run failed with its proof
stored.

In `GamesProofs` again, `ClockConservation`, from `CkAssumption`, for ticks of every length: what is carried,
run, dropped and reported adds up to what passed. `ReserveIsALifeBudget` is about the abstract
`SmilefallLedger`, and `EngineKeepsLedger` is its refinement by the engine, from `SmAssumption`: any
numbers of smilies, rocks, buckets and ticks, any geometry. A tick of the engine is a composition of
recursive functions over the hops, the smilies and the rocks; each of them keeps what the ledger counts
(who is in play, who scored, who is lost), a smily leaves play at most once in a tick and either into a
bucket or for good, and so every tick is a ledger's settlement or nothing. `AudioIsKept`, from `AudioAssumption`,
is about plans of any length, and any number of runs, faults and deaths. `AuInv` says that a run at work
holds the lock of every asset (`AuLocked`), hence works alone; what an asset and its journal rest on
whenever the run ends, there or in the middle of a write (`AuRests`: money and files follow the lines);
that a run's memory is what the journal says, and that what it will ask for was never asked for
(`AuFollows`); and what each place of `processAsset` has made sure of (`AuPhase`).

`LabRecordIsKept`, from `LabAssumption`: sessions of any number of rounds, stages, lives and interruptions,
and of any length. The boundary judges the artifact as a whole and anew, walking every stage, round and
pause of it, so the invariant `LbInv` says for every phase what such a walk would find: `LbRecord` that
the stages so far are a chain (each begins with the lives and the score the one before left, `LbChain`)
which is under way or ended as its rule says; `LbTimed` that the pauses of the ledger lie one after the
other and their sum is what it claims, up to the one that is open; `LbPage` and `LbShows` that surface,
engine, countdown and window belong to that phase. All of it is said of sessions played by the rules
(`LabByTheRules`; the two known ways out are in section 5), and `LbLater` that no step leads back to
them: what was thrown or passed stays noted. Sums over records of any length are recursive functions
(`Totals`), and `Upwards` is the induction. TLC checked `LbInv` on the lab's instance, with `LabFollow`
TRUE as well.

**`MaltlineReplayProofs`**, from `RpAssumption`: `RecordIsThePlay`, for any campaign, engine, limits,
speeds and length of play. The induction theorems of the library take an operator, which the installed
provers cannot instantiate; here induction is over *sets*: `Upwards` for numbers up to a bound and
`Growing` for sequences that grow at the end, both from `WFMin`. Every fold of the model then has a
lemma that says what one element more adds to it (`ExpandedGrows`, `VerifyRunsGrow`, ...), which is all
the rest of the module uses. The argument: runs stand for inputs, and equal inputs have one canonical
list of runs (`RpAppended`, `RpEncoded`); the ranked verifier, which runs the engine as it
reads, takes a proof exactly if `Taken` holds of it (`RpVerified`), and so does the cabinet's, which
checks the form first and runs afterwards (`RpCabinet`), hence `VerifiersAgree` for every proof
whatever; `Taken` is what the specification calls `Admissible` (`RpAdmitted`). The inductive invariant
`RpInv` has three parts: what the recorder has is what the engine was fed, every stage begun with what
the one before it left (`RpPlayInv`); what is kept is the envelope of a canonical proof (`RpKeptInv`);
and what is open is a proof `q` of the same play, of which cursor and scrubber are a picture
(`RpOpenInv`): there are a stage, a tick, the beginning of a window and controls such that the cursor's
engine has been fed the inputs up to that tick, the history is the frames of the window, and controls
and tick fit (`Scrubs`). Every control then takes such a picture to another one (`RpMoves`, `RpSeeks`,
`RpAnimates`), whatever the cursor it started from; the bisections find the run and the stage that have
the tick (`RpFinds`, `RpLooks`). `q` need not be the kept bytes: an envelope whose proof was exchanged
opens only if it is a proof of the same play (`RpOpensIt`).

**`PagesProofs`**. *Panel*, without an assumption: what a late answer may still change depends on the
generation it was sent under, so `CoInv` says what each request in flight would bring (`CoFollows`,
`CoOwn`, `CoAwaited`), besides what recorder, challenge and board hold (`CoBegins`, `CoWhole`) and what
is on screen (`CoSaid`, `CoShown`). *Smilefall*, from `SfPlayAssumption`: a score being entered is of the
run that ended (`SfOfTheRun`), a challenge asked for is for the difficulty of the run (`SfAskedFor`,
`SfAwaiting`), and the flag that silences the warning is set only by the answer to the score on screen
(`SfFlagged`, `SfSent`). *Votes*, from `VotesAssumption`: a field has at most one write under way
(`VtWrites`), every request speaks for the one session the browser has or is about to have
(`VtOneSession`), what an answer on its way brings, and what a failed write would put back, is what the
platform holds (`VtBrings`), and until a write of a field was carried out the page is right about it
(`VtShows`). The theorem is about the fields outside `vtCrossed`, and `VtNext` stops there. *Partition*,
from `PlayAssumption` and what `PartitionRulesProofs` has: whenever the engine waits for the button to be
let go, the controls know (`PlOwed`); as long as no release was dropped, field and replay become the same
with every input (`PlReplays`, `PlAlike`), though what they show may differ in the input a clear has set;
and a field that runs has room in the record (`PlRoom`). That held directions and pointers are held down,
each once, is about a filter over sequences of any length (`PlFiltered`).

Only model-checked:

* what happens eventually (`OrphansRemoved`, `NothingLingers`, `NothingHangs`, `StageEnds`): liveness
  under fairness is beyond the prover.

Every invariant and every action property that a passing run checks is a theorem.
All three refinements of an abstract specification (`ImplementsLedger`, `KeepsPromise`,
`StageKeepsLedger`) are proved.

## 5. What the models found

Four runs end with the counterexample of something the repository says:

* **A finished session records its last tick again and again** (`session_after_the_end`). `tick()`
  pushes a record whether the game is over or not, and only `close()` stops the timer. The artifact has
  the same tick twice, and `core/replay.ts` refuses it.
* **A controller installed after the last tick makes the artifact unreplayable**
  (`session_installed_last`). `installController()` shows its version in the state at once, and only the
  next tick records it. If the session is closed before, `finalState.controllerVersion` is newer than
  that of every record, and `core/replay.ts:41` rejects the artifact. `set_input` after the last tick
  leaves `currentInput` the same way. `ControlledRunReplays` claims the match for sessions in which a tick
  has recorded the last installation, and that version aside the replay shows the field at any time.
* **A note may bring an older vote back** (`vote_brought_back`). A read of a field that was carried out
  before a vote, and whose answer comes after the vote's, puts the older summary into the page
  (`viewer/main.ts:530`), and the note sent next carries its vote, which `feedback-note.ts:9-12` means
  to rule out. `VtPageKnowsTheVote` says of which fields the page is right until then.
* **A restarted arcade run may begin with a stage of the last one** (`play_run_carried_over`). The
  record is cleared before the await and not after it, while the old field plays on.

Found while modelling. The models have this behaviour, and the properties are stated around it:

*Partition.*
* A model that calls `setInput` twice between two ticks may lift the engine's draw latch by the first
  call, which no record holds; the replay then differs (`runtime/session.ts:76`). `ControlledRunReplays`
  is about sessions nobody steers by hand.
* The same happens in the browser when the controls are cleared between the end of a trace and the
  tick after it (`viewer/main.ts:867`). `StageReplaysVerify` allows exactly that exception (`dropped`).
* `prepareScoreEntry` idles the engine's input after the last tick, so the replay kept for *Watch Run*
  ends in a state with another input than the recorded one.
* The HOME tab resets stage and context while the won field and the record stay; PLAY continues them,
  and the record can grow without end (`viewer/main.ts:1474`, hence `MaxRecord`).

*Smilefall.*
* Restart from the pause while the challenge is still awaited, resume, and let the old stage end before
  the answer: its record is the first of the new run, whose ranked score is then refused.
  `SfSubmissionsVerify` leaves such a run out (`sfStraggled`).
* A score whose answer was left for a new run still calls `setMode("leaderboard")` when it arrives and
  takes the player out of the stage he is playing.

*Both catalogs.*
* The platform gives every request without a cookie a session of its own. Partition sends one read first
  so that its answer brings the cookie; cards drawn again, or a vote cast, before that answer start a
  second session. Smilefall sends its first reads in parallel (`main.ts:533-545`) and always starts
  several. What the page then shows may belong to another session than the one it writes to, and so may
  the vote that goes out with a note.

*Maltline.*
* Panel: `invalidate()` while a score is being sent, and then an answer that asks to try again, leaves a
  panel that offers a retry `submit()` silently ignores; `invalidate()` after the answer makes an
  accepted run *ineligible*. `CoPanelKeepsFaith` is about attempts that were not invalidated.
* Lab: a pause leaves the armed action of a terminal or intermission in place, so Enter, Space or
  `advance()` go on past the pause, even at the width the pause was for; `HUMAN-LAB.md:32-33` says
  otherwise. The pause after the 1024th interruption throws after cancelling the countdown and before
  anything is shown. The model does not follow a session past either (`LabFollow`).
* Audio: a manifest cut off while it is written in place, or a journal line cut off, is refused by every
  later resume, where `AUDIO.md` advises to resume. After a death in normalization the first resume
  fails, because the tool tells ffmpeg not to overwrite, and the second succeeds.

*Platform and harness.*
* Objects of the legacy and share routes whose database statement failed have no row, and no cleanup
  ever finds them (`worker.ts:178`, `partition-adapter.ts:451`).
* If the event of `finish("complete")` cannot be appended, the handler of that error saves the manifest
  again, which now says *complete* although no event does. A failing write may also list the replay
  artifact twice and log two ends. `HrRecordCanBeBelieved` is what remains true: it says nothing of a run
  that dies after a failed write.

## 6. What is not modelled

Component by component in `PROJECT.json`. In short: campaign and level data with their validation,
fingerprints, version tables; drawing, sound, shells, visual fixtures; telemetry, tuning experiments and
the asset pipeline apart from the audio tool; the field-by-field verifier of ranked Partition scores
(only its re-simulation is); read-only listings; admission, moderation, request parsing and signing;
the SDK (its timeouts are in the cabinet); bench protocols and statistics; CLI, board, site, hardware.
Partition's and Smilefall's pages are modelled without what only draws, and a Smilefall stage without
its events and with a time limit. In the audio tool an append that reports an error has written nothing or
a part of its line. `LegacyPartition` leaves the shared cleanup of v2 archives of standing entries to
`SharedSubmission`. Verifiers are inputs of the models that use them, unless a model says it has the
verifier: a proof is valid or not.

Abstractions a reader should know: a Maltline position is a whole unit and there is one speed per kind
of thing; rank vectors are places in one order; a filament's reach is a parameter; sequence programs
are the only resident controllers; a player is anyone who presses anything at any time; times are whole
units, and the properties of the fixed-step clock are not about rounding.

## 7. Plan

1. Proofs left: none of a property that a run checks, but liveness.
2. Code left that a model could reach: the ranked Partition verifier's checks against the replays, the
   watched replay's transport, the activity listing under change.
3. Runs are kept few: a new component joins `MCGames`, `MCServices` or `MCPages`.

## 8. Running

    tlc -workers 2 -config MCGames.cfg MCGames
    tlapm PagesProofs.tla

Each `.cfg` belongs to the module its run names in `PROJECT.json`. The longest run takes three to
four minutes, the longest proofs, `ServicesProofs`, `GamesProofs` and `MaltlineReplayProofs`, eight to eleven each.
