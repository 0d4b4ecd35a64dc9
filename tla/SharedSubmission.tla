-------------------------- MODULE SharedSubmission --------------------------
(***************************************************************************)
(* The verified-score pipeline every shared-platform game goes through:    *)
(* apps/platform/src/shared/leaderboards.ts submitSharedScore with the     *)
(* private replay objects of shared/replays.ts, the publication and        *)
(* activity statements of shared/publication.ts, the SQL triggers of       *)
(* migrations/0004 and the hourly retention job.                           *)
(*                                                                         *)
(* Three stores take part and none spans another: the D1 database (a       *)
(* batch is atomic, every statement between batches interleaves), the R2   *)
(* bucket (a write may land after its request has failed or died) and the  *)
(* memory of a Worker invocation (lost when the invocation is cut off).    *)
(*                                                                         *)
(* A submission request owns at most one entry, one publication, one event *)
(* and one replay object, under ids it draws at random, so those rows are  *)
(* functions of the request.  The verified rank vector together with       *)
(* (created_at, id) is a strict total order on entries; `place' is a       *)
(* request's position in it.                                               *)
(***************************************************************************)
EXTENDS Integers, FiniteSets

CONSTANTS
  Request,           \* submission requests (HTTP calls, retries included)
  Run,               \* one-time ranked challenges
  Board,             \* board instances
  Cleaner,           \* scheduled maintenance invocations that may overlap
  Place,             \* positions in the shared ordering
  RunLifetime,       \* ticks a challenge stays open (two hours)
  Retention,         \* ticks an ordinary archive is kept (five days)
  RecheckInterval,   \* ticks between visits of a tombstone (one day)
  TopN,              \* TOP_RANK_QUALIFICATION
  PageLimit,         \* rows one maintenance statement takes (200)
  ConsumeSeesBoard,  \* does the adapter's consume statement test the board?
  GuardedBegin,      \* does the adapter's insert of a challenge test the season?
  MaxClock,          \* bound of the model on time
  NoRequest, NoRun, NoBoard

ASSUME Shape ==
  /\ Place \subseteq Nat
  /\ RunLifetime \in Nat /\ Retention \in Nat /\ RecheckInterval \in Nat
  /\ TopN \in Nat /\ PageLimit \in Nat \ {0} /\ MaxClock \in Nat
  /\ ConsumeSeesBoard \in BOOLEAN /\ GuardedBegin \in BOOLEAN
  /\ IsFiniteSet(Request)
  /\ NoRequest \notin Request /\ NoRun \notin Run /\ NoBoard \notin Board

VARIABLES
  clock,        \* the database clock; Workers read the same time
  seasonOpen,   \* seasons.state = 'active' for the run's season
  hidden,       \* boards an operator has hidden
  run,          \* shared_run_challenges: run -> [state, board, expires]
  consumedBy,   \* shared_run_challenges.consumed_entry_id
  pc,           \* where each submission request is
  asked,        \* the run each request submits
  place,        \* position of the verified result in the shared ordering
  objState,     \* replay_objects.state
  objExpires,   \* replay_objects.expires_at, Never for NULL
  touched,      \* replay_objects.updated_at of tombstones, the only rows it is read of
  put,          \* the request's R2 write and the answer waiting for its caller
  stored,       \* requests whose archive key holds bytes in R2
  entry,        \* leaderboard_entries.state
  rank,         \* entry_publication.rank_at_submission, 0 for no row
  events,       \* requests with a 'leaderboard.qualified' activity event
  job,          \* maintenance: step of each invocation
  jobNow,       \* maintenance: the `now' it was started with
  page,         \* maintenance: the rows of the statement in hand
  withdrawn     \* history: entries an operator ever hid or deleted

dbVars  == <<run, consumedBy, objState, objExpires, touched, entry, rank, events>>
reqVars == <<pc, asked, place>>
r2Vars  == <<put, stored>>
jobVars == <<job, jobNow, page>>
opVars  == <<seasonOpen, hidden, withdrawn>>
vars == <<clock, dbVars, reqVars, r2Vars, jobVars, opVars>>

Never == -1

-----------------------------------------------------------------------------
(* Rows and predicates of the SQL statements.                              *)

EligibleBeside(q) ==
  {e \in Request : entry[e] = "eligible" /\ run[asked[e]].board = run[asked[q]].board}

\* Mutant of Placement: counts the entries ordered behind q.
PlacementWorstFirst(q) == Cardinality({e \in EligibleBeside(q) : place[e] > place[q]}) + 1

\* insertPublicationStatement: one more than the eligible entries ordered before q.
Placement(q) == Cardinality({e \in EligibleBeside(q) : place[e] < place[q]}) + 1

\* listBoardEntries: where q stands on its board now.
ListedAt(q) == Cardinality({e \in EligibleBeside(q) : place[e] <= place[q]})

KeepsArchive(q) == Placement(q) <= TopN

\* Mutant of EmitsEvent: the last qualifying place is left out.
EmitsEventStrictly(q) == Placement(q) < TopN

EmitsEvent(q) == Placement(q) <= TopN


RetentionDeadline == clock + Retention

Qualified(q) == rank[q] \in 1..TopN

Standing(q) == entry[q] \in {"eligible", "hidden"}

Lapsed(q, now) == objExpires[q] # Never /\ objExpires[q] <= now

\* Mutant of Due: claims a tick before the deadline.
DueEarly(now) == {q \in Request : /\ objState[q] \in {"pending", "ready", "deleting"}
                                  /\ Lapsed(q, now + 1)}

\* Rows of the claim statement, oldest deadline first, at most PageLimit.
Due(now) == {q \in Request : /\ objState[q] \in {"pending", "ready", "deleting"}
                             /\ Lapsed(q, now)}

\* The pages `ORDER BY key LIMIT PageLimit' can return.
Pages(rows, key) ==
  {S \in SUBSET rows :
     /\ Cardinality(S) <= PageLimit
     /\ S # rows => Cardinality(S) = PageLimit
     /\ \A a \in S, b \in rows \ S : key[a] <= key[b]}

\* Mutant of Tombstones: deleted objects are never visited again.
NoTombstones(now) == {}

Tombstones(now) ==
  {q \in Request : objState[q] = "deleted" /\ touched[q] + RecheckInterval <= now}

-----------------------------------------------------------------------------
Init ==
  /\ clock = 0 /\ seasonOpen = TRUE /\ hidden = {} /\ withdrawn = {}
  /\ run = [r \in Run |-> [state |-> "none", board |-> NoBoard, expires |-> 0]]
  /\ consumedBy = [r \in Run |-> NoRequest]
  /\ pc = [q \in Request |-> "idle"]
  /\ asked = [q \in Request |-> NoRun]
  /\ place = [q \in Request |-> 0]
  /\ objState = [q \in Request |-> "none"]
  /\ objExpires = [q \in Request |-> Never]
  /\ touched = [q \in Request |-> 0]
  /\ put = [q \in Request |-> "none"]
  /\ stored = {}
  /\ entry = [q \in Request |-> "none"]
  /\ rank = [q \in Request |-> 0]
  /\ events = {}
  /\ job = [c \in Cleaner |-> "idle"]
  /\ jobNow = [c \in Cleaner |-> 0]
  /\ page = [c \in Cleaner |-> {}]

-----------------------------------------------------------------------------
(* Submission requests.                                                    *)

\* adapter.beginRun: insert the challenge.
BeginRun(r, b) ==
  /\ run[r].state = "none"
  /\ GuardedBegin => seasonOpen
  /\ run' = [run EXCEPT ![r] =
       [state |-> "open", board |-> b, expires |-> clock + RunLifetime]]
  /\ UNCHANGED <<clock, consumedBy, objState, objExpires, touched, entry, rank,
                 events, reqVars, r2Vars, jobVars, opVars>>

\* loadChallenge, resolveBoardInstance and verifySubmission all succeed; a
\* request they turn away writes nothing and stays idle.
LoadChallenge(q, r, k) ==
  /\ pc[q] = "idle"
  /\ run[r].state = "open" /\ run[r].expires > clock
  /\ seasonOpen
  /\ \A o \in Request : pc[o] # "idle" => place[o] # k
  /\ pc' = [pc EXCEPT ![q] = "verified"]
  /\ asked' = [asked EXCEPT ![q] = r]
  /\ place' = [place EXCEPT ![q] = k]
  /\ UNCHANGED <<clock, dbVars, r2Vars, jobVars, opVars>>

\* The callsign review has answered: record the pending object with its
\* five-day deadline, then send the bytes.
CreatePending(q) ==
  /\ pc[q] = "verified"
  /\ pc' = [pc EXCEPT ![q] = "putting"]
  /\ objState' = [objState EXCEPT ![q] = "pending"]
  /\ objExpires' = [objExpires EXCEPT ![q] = RetentionDeadline]
  /\ put' = [put EXCEPT ![q] = "inflight"]
  /\ UNCHANGED <<clock, run, consumedBy, touched, entry, rank, events, asked, place, stored,
                 jobVars, opVars>>

\* R2: the write takes effect, whatever became of the request that sent it.
PutLands(q) ==
  /\ put[q] = "inflight"
  /\ put' = [put EXCEPT ![q] = IF pc[q] = "putting" THEN "landed" ELSE "none"]
  /\ stored' = stored \cup {q}
  /\ UNCHANGED <<clock, dbVars, reqVars, jobVars, opVars>>

\* R2: the write is lost.
PutLost(q) ==
  /\ put[q] = "inflight"
  /\ put' = [put EXCEPT ![q] = "none"]
  /\ UNCHANGED <<clock, dbVars, reqVars, stored, jobVars, opVars>>

\* Nobody waits for the answer of q's write any more.
Unheard(q) == put' = [put EXCEPT ![q] = IF @ = "landed" THEN "none" ELSE @]

PutSucceeds(q) ==
  /\ pc[q] = "putting" /\ put[q] = "landed"
  /\ pc' = [pc EXCEPT ![q] = "uploaded"]
  /\ Unheard(q)
  /\ UNCHANGED <<clock, dbVars, asked, place, stored, jobVars, opVars>>

\* An error is ambiguous: the write may have landed, be lost or still be on its way.
PutFails(q) ==
  /\ pc[q] = "putting"
  /\ pc' = [pc EXCEPT ![q] = "putFailed"]
  /\ Unheard(q)
  /\ UNCHANGED <<clock, dbVars, asked, place, stored, jobVars, opVars>>


\* requeueLateReplayUpload: only a claimed or finished deletion is touched.
Requeue(q) ==
  IF objState[q] \in {"deleting", "deleted"}
  THEN /\ objState' = [objState EXCEPT ![q] = "deleting"]
       /\ objExpires' = [objExpires EXCEPT ![q] = IF Lapsed(q, clock) THEN @ ELSE clock]
       /\ touched' = [touched EXCEPT ![q] = 0]
  ELSE UNCHANGED <<objState, objExpires, touched>>

\* The catch branch: requeue, answer 503.
AbandonUpload(q) ==
  /\ pc[q] = "putFailed"
  /\ Requeue(q)
  /\ pc' = [pc EXCEPT ![q] = "rejected"]
  /\ UNCHANGED <<clock, run, consumedBy, entry, rank, events, asked, place, r2Vars,
                 jobVars, opVars>>

\* After a successful upload: 409 when the object was claimed meanwhile.
RequeueLateUpload(q) ==
  /\ pc[q] = "uploaded"
  /\ Requeue(q)
  /\ pc' = [pc EXCEPT ![q] =
       IF objState[q] \in {"deleting", "deleted"} THEN "rejected" ELSE "finalizing"]
  /\ UNCHANGED <<clock, run, consumedBy, entry, rank, events, asked, place, r2Vars,
                 jobVars, opVars>>

\* Mutant of Consumes: without `consumed_entry_id IS NULL'.
ConsumesAgain(q) ==
  LET r == asked[q] IN
  /\ run[r].state \in {"open", "consumed"} /\ run[r].expires > clock
  /\ seasonOpen
  /\ ConsumeSeesBoard => run[r].board \notin hidden

\* adapter.consumeChallengeStatement changes one row.
Consumes(q) ==
  LET r == asked[q] IN
  /\ run[r].state = "open" /\ consumedBy[r] = NoRequest
  /\ run[r].expires > clock
  /\ seasonOpen
  /\ ConsumeSeesBoard => run[r].board \notin hidden

\* Mutant of Finalizable: the object's state is not tested.
FinalizableAnyState(q) ==
  run[asked[q]].board \notin hidden /\ seasonOpen

\* entry_publication_requires_pending_object lets the publication in.
Finalizable(q) ==
  /\ objState[q] = "pending" /\ ~Lapsed(q, clock)
  /\ run[asked[q]].board \notin hidden /\ seasonOpen

\* The D1 batch, all statements taking effect.
CommitScore(q) ==
  /\ pc[q] = "finalizing"
  /\ Consumes(q) /\ Finalizable(q)
  /\ run' = [run EXCEPT ![asked[q]].state = "consumed"]
  /\ consumedBy' = [consumedBy EXCEPT ![asked[q]] = q]
  /\ entry' = [entry EXCEPT ![q] = "eligible"]
  /\ rank' = [rank EXCEPT ![q] = Placement(q)]
  /\ events' = IF EmitsEvent(q) THEN events \cup {q} ELSE events
  /\ objState' = [objState EXCEPT ![q] = "ready"]
  /\ objExpires' = [objExpires EXCEPT ![q] = IF KeepsArchive(q) THEN Never ELSE @]
  /\ pc' = [pc EXCEPT ![q] = "committed"]
  /\ UNCHANGED <<clock, touched, asked, place, r2Vars, jobVars, opVars>>

\* The batch leaves no entry: the challenge guard matched no row (409), or the
\* trigger aborted and rolled every statement back.
RefuseScore(q) ==
  /\ pc[q] = "finalizing"
  /\ ~(Consumes(q) /\ Finalizable(q))
  /\ pc' = [pc EXCEPT ![q] = "rejected"]
  /\ UNCHANGED <<clock, dbVars, asked, place, r2Vars, jobVars, opVars>>

\* entryById: the row is read back and reported, or is gone already.
Respond(q) ==
  /\ pc[q] = "committed"
  /\ pc' = [pc EXCEPT ![q] = IF Standing(q) THEN "accepted" ELSE "unavailable"]
  /\ UNCHANGED <<clock, dbVars, asked, place, r2Vars, jobVars, opVars>>

Working == {"verified", "putting", "putFailed", "uploaded", "finalizing", "committed"}

\* The invocation is cut off; its R2 write may still be on its way.
Crash(q) ==
  /\ pc[q] \in Working
  /\ pc' = [pc EXCEPT ![q] = "dead"]
  /\ Unheard(q)
  /\ UNCHANGED <<clock, dbVars, asked, place, stored, jobVars, opVars>>

-----------------------------------------------------------------------------
(* Scheduled maintenance: cleanupSharedReplayObjects, then database-expiry. *)

StartMaintenance(c) ==
  /\ job[c] = "idle"
  /\ job' = [job EXCEPT ![c] = "recheck"]
  /\ jobNow' = [jobNow EXCEPT ![c] = clock]
  /\ UNCHANGED <<clock, dbVars, reqVars, r2Vars, page, opVars>>

\* recheckDeletedReplayObjects: read a page of tombstones.
RecheckSelect(c) ==
  /\ job[c] = "recheck"
  /\ \E S \in Pages(Tombstones(jobNow[c]), touched) :
       /\ page' = [page EXCEPT ![c] = S]
       /\ job' = [job EXCEPT ![c] = IF S = {} THEN "claim" ELSE "recheckDelete"]
  /\ UNCHANGED <<clock, dbVars, reqVars, r2Vars, jobNow, opVars>>

RecheckDelete(c) ==
  /\ job[c] = "recheckDelete"
  /\ stored' = stored \ page[c]
  /\ job' = [job EXCEPT ![c] = "recheckMark"]
  /\ UNCHANGED <<clock, dbVars, reqVars, put, jobNow, page, opVars>>

RecheckMark(c) ==
  /\ job[c] = "recheckMark"
  /\ touched' = [q \in Request |->
       IF q \in page[c] /\ objState[q] = "deleted" THEN jobNow[c] ELSE touched[q]]
  /\ job' = [job EXCEPT ![c] = "claim"]
  /\ page' = [page EXCEPT ![c] = {}]
  /\ UNCHANGED <<clock, run, consumedBy, objState, objExpires, entry, rank, events,
                 reqVars, r2Vars, jobNow, opVars>>

\* The recheck threw and is skipped; an R2 error may have deleted some keys.
RecheckFails(c) ==
  /\ job[c] \in {"recheck", "recheckDelete", "recheckMark"}
  /\ \E S \in SUBSET page[c] :
       stored' = IF job[c] = "recheckDelete" THEN stored \ S ELSE stored
  /\ job' = [job EXCEPT ![c] = "claim"]
  /\ page' = [page EXCEPT ![c] = {}]
  /\ UNCHANGED <<clock, dbVars, reqVars, put, jobNow, opVars>>

\* The claim is one UPDATE ... RETURNING.
Claim(c) ==
  /\ job[c] = "claim"
  /\ \E S \in Pages(Due(jobNow[c]), objExpires) :
       /\ page' = [page EXCEPT ![c] = S]
       /\ objState' = [q \in Request |-> IF q \in S THEN "deleting" ELSE objState[q]]
       /\ job' = [job EXCEPT ![c] = IF S = {} THEN "expire" ELSE "delete"]
  /\ UNCHANGED <<clock, run, consumedBy, objExpires, touched, entry, rank, events, reqVars,
                 r2Vars, jobNow, opVars>>

DeleteClaimed(c) ==
  /\ job[c] = "delete"
  /\ stored' = stored \ page[c]
  /\ job' = [job EXCEPT ![c] = "mark"]
  /\ UNCHANGED <<clock, dbVars, reqVars, put, jobNow, page, opVars>>

MarkDeleted(c) ==
  /\ job[c] = "mark"
  /\ LET gone == {q \in page[c] : objState[q] = "deleting"} IN
       /\ objState' = [q \in Request |-> IF q \in gone THEN "deleted" ELSE objState[q]]
       /\ touched' = [q \in Request |-> IF q \in gone THEN jobNow[c] ELSE touched[q]]
  /\ job' = [job EXCEPT ![c] = "expire"]
  /\ page' = [page EXCEPT ![c] = {}]
  /\ UNCHANGED <<clock, run, consumedBy, objExpires, entry, rank, events, reqVars, r2Vars,
                 jobNow, opVars>>

\* Any statement of the retention task threw: its claim stays in deleting.
CleanupFails(c) ==
  /\ job[c] \in {"claim", "delete", "mark"}
  /\ \E S \in SUBSET page[c] :
       stored' = IF job[c] = "delete" THEN stored \ S ELSE stored
  /\ job' = [job EXCEPT ![c] = "expire"]
  /\ page' = [page EXCEPT ![c] = {}]
  /\ UNCHANGED <<clock, dbVars, reqVars, put, jobNow, opVars>>

\* database-expiry: drop lapsed challenges nobody consumed.
ExpireRuns(c) ==
  /\ job[c] = "expire"
  /\ run' = [r \in Run |->
       IF run[r].state = "open" /\ run[r].expires <= jobNow[c]
       THEN [run[r] EXCEPT !.state = "purged"] ELSE run[r]]
  /\ job' = [job EXCEPT ![c] = "idle"]
  /\ jobNow' = [jobNow EXCEPT ![c] = 0]
  /\ UNCHANGED <<clock, consumedBy, objState, objExpires, touched, entry, rank, events,
                 reqVars, r2Vars, page, opVars>>

\* The scheduled invocation is cut off.
MaintenanceCut(c) ==
  /\ job[c] # "idle"
  /\ job' = [job EXCEPT ![c] = "idle"]
  /\ jobNow' = [jobNow EXCEPT ![c] = 0]
  /\ page' = [page EXCEPT ![c] = {}]
  /\ UNCHANGED <<clock, dbVars, reqVars, r2Vars, opVars>>

-----------------------------------------------------------------------------
(* Operators work on the database directly; the triggers react.            *)

CloseSeason ==
  /\ seasonOpen
  /\ seasonOpen' = FALSE
  /\ UNCHANGED <<clock, dbVars, reqVars, r2Vars, jobVars, hidden, withdrawn>>

HideBoard(b) ==
  /\ b \notin hidden
  /\ hidden' = hidden \cup {b}
  /\ UNCHANGED <<clock, dbVars, reqVars, r2Vars, jobVars, seasonOpen, withdrawn>>

HideEntry(q) ==
  /\ entry[q] = "eligible"
  /\ entry' = [entry EXCEPT ![q] = "hidden"]
  /\ withdrawn' = withdrawn \cup {q}
  /\ UNCHANGED <<clock, run, consumedBy, objState, objExpires, touched, rank, events,
                 reqVars, r2Vars, jobVars, seasonOpen, hidden>>

\* leaderboard_entry_remove_dependents
DeleteEntry(q) ==
  /\ Standing(q)
  /\ entry' = [entry EXCEPT ![q] = "deleted"]
  /\ withdrawn' = withdrawn \cup {q}
  /\ events' = events \ {q}
  /\ rank' = [rank EXCEPT ![q] = 0]
  /\ IF objState[q] \in {"pending", "ready"}
     THEN /\ objState' = [objState EXCEPT ![q] = "deleting"]
          /\ objExpires' = [objExpires EXCEPT ![q] = IF @ = Never THEN clock ELSE @]
     ELSE UNCHANGED <<objState, objExpires>>
  /\ UNCHANGED <<clock, run, consumedBy, touched, reqVars, r2Vars, jobVars, seasonOpen, hidden>>

Tick ==
  /\ clock < MaxClock
  /\ clock' = clock + 1
  /\ UNCHANGED <<dbVars, reqVars, r2Vars, jobVars, opVars>>

-----------------------------------------------------------------------------
Submission(q) ==
  \/ \E r \in Run, k \in Place : LoadChallenge(q, r, k)
  \/ CreatePending(q) \/ PutSucceeds(q) \/ PutFails(q)
  \/ AbandonUpload(q) \/ RequeueLateUpload(q)
  \/ CommitScore(q) \/ RefuseScore(q) \/ Respond(q) \/ Crash(q)

Storage(q) == PutLands(q) \/ PutLost(q)

Maintenance(c) ==
  \/ StartMaintenance(c)
  \/ RecheckSelect(c) \/ RecheckDelete(c) \/ RecheckMark(c) \/ RecheckFails(c)
  \/ Claim(c) \/ DeleteClaimed(c) \/ MarkDeleted(c) \/ CleanupFails(c)
  \/ ExpireRuns(c) \/ MaintenanceCut(c)

Operator ==
  \/ CloseSeason
  \/ \E b \in Board : HideBoard(b)
  \/ \E q \in Request : HideEntry(q) \/ DeleteEntry(q)

Next ==
  \/ \E r \in Run, b \in Board : BeginRun(r, b)
  \/ \E q \in Request : Submission(q) \/ Storage(q)
  \/ \E c \in Cleaner : Maintenance(c)
  \/ Operator
  \/ Tick

Spec == Init /\ [][Next]_vars

\* Cron keeps starting maintenance, an invocation is not cut off for ever, R2
\* and D1 do not fail for ever, and time passes.
Fairness ==
  /\ WF_vars(Tick)
  /\ \A q \in Request : WF_vars(Storage(q))
  /\ \A c \in Cleaner :
       /\ WF_vars(StartMaintenance(c))
       /\ SF_vars(RecheckSelect(c)) /\ SF_vars(RecheckDelete(c)) /\ SF_vars(RecheckMark(c))
       /\ SF_vars(Claim(c)) /\ SF_vars(DeleteClaimed(c)) /\ SF_vars(MarkDeleted(c))
       /\ SF_vars(ExpireRuns(c))

FairSpec == Spec /\ Fairness

-----------------------------------------------------------------------------
(* Properties.                                                             *)

PutStates == {"none", "inflight", "landed"}
ObjStates == {"none", "pending", "ready", "deleting", "deleted"}
JobSteps  == {"idle", "recheck", "recheckDelete", "recheckMark", "claim", "delete",
              "mark", "expire"}
Outcomes  == {"accepted", "rejected", "unavailable", "dead"}

\* The shape of every table and of the Workers' memory.
TypeOK ==
  /\ clock \in Nat /\ seasonOpen \in BOOLEAN
  /\ hidden \subseteq Board /\ withdrawn \subseteq Request
  /\ run \in [Run -> [state : {"none", "open", "consumed", "purged"},
                      board : Board \cup {NoBoard}, expires : Nat]]
  /\ consumedBy \in [Run -> Request \cup {NoRequest}]
  /\ pc \in [Request -> {"idle"} \cup Working \cup Outcomes]
  /\ asked \in [Request -> Run \cup {NoRun}]
  /\ place \in [Request -> Nat]
  /\ objState \in [Request -> ObjStates]
  /\ objExpires \in [Request -> Nat \cup {Never}]
  /\ touched \in [Request -> Nat]
  /\ put \in [Request -> PutStates] /\ stored \subseteq Request
  /\ entry \in [Request -> {"none", "eligible", "hidden", "deleted"}]
  /\ rank \in [Request -> Nat] /\ events \subseteq Request
  /\ job \in [Cleaner -> JobSteps] /\ jobNow \in [Cleaner -> Nat]
  /\ page \in [Cleaner -> SUBSET Request]

\* A one-time challenge yields at most one entry, over retries, double
\* submissions, crashes and after an operator has deleted the entry.
OneEntryPerRun ==
  \A p, q \in Request :
    entry[p] # "none" /\ entry[q] # "none" /\ asked[p] = asked[q] => p = q

\* The archive of a standing entry is readable for as long as its publication
\* promised: for ever when it qualified, else until the retention deadline,
\* however uploads, cleanups and rechecks interleave.
ArchiveOutlivesPromise ==
  \A q \in Request :
    Standing(q) /\ ~Lapsed(q, clock) => objState[q] = "ready" /\ q \in stored

\* A Top-N entry keeps a deadline-free archive and exactly one activity event;
\* an ordinary entry has neither.
QualificationConsistent ==
  \A q \in Request :
    Standing(q) => /\ Qualified(q) <=> objExpires[q] = Never
                   /\ Qualified(q) <=> q \in events

\* Whatever a maintenance invocation is about to delete from R2 is claimed or
\* a tombstone: a page read or claimed earlier never goes stale into an
\* archive that has since become ready.
PagesStayClaimed ==
  \A c \in Cleaner :
    job[c] \in {"recheckDelete", "recheckMark", "delete", "mark"} =>
      \A q \in page[c] : objState[q] \in {"deleting", "deleted"}

\* The answer tells the truth: accepted means this request consumed the
\* challenge, rejected means it left neither entry nor finalized archive.
AnswersTruthful ==
  \A q \in Request :
    /\ pc[q] = "accepted" => consumedBy[asked[q]] = q /\ entry[q] # "none"
    /\ pc[q] = "rejected" => /\ \A r \in Run : consumedBy[r] # q
                             /\ entry[q] = "none" /\ objState[q] # "ready"

\* The placement frozen at submission stays an upper bound on merit: an
\* eligible entry never stands further ahead of it than entries of its board
\* were withdrawn.  Hence, with no withdrawals, the current Top N are exactly
\* covered by entries that qualified, and their archives are retained.
PlacementDrift ==
  \A q \in Request :
    entry[q] = "eligible" =>
      rank[q] <= ListedAt(q)
                 + Cardinality({w \in withdrawn : run[asked[w]].board = run[asked[q]].board})

\* A claimed object is never finalized or revived, and a ready one leaves
\* that state only by its deadline or the deletion of its entry.
ObjectLifecycle ==
  [][\A q \in Request :
       /\ objState[q] \in {"deleting", "deleted"} => objState'[q] \in {"deleting", "deleted"}
       /\ objState[q] = "ready" /\ objState'[q] # "ready" =>
            Lapsed(q, clock) \/ entry'[q] = "deleted"]_vars

\* With a challenge lifetime within the retention time, a challenge that can
\* still be consumed always finds its object unclaimed: the trigger's
\* `expired before finalization' abort never costs a valid run.
ValidRunFindsObject ==
  RunLifetime <= Retention =>
    \A q \in Request :
      pc[q] = "finalizing" /\ Consumes(q) => objState[q] = "pending" /\ ~Lapsed(q, clock)

\* Bytes nobody is entitled to are removed: in the end every stored object is
\* a standing entry's archive or not yet due for a visit within MaxClock.
OrphansRemoved ==
  <>[](\A q \in stored :
         \/ Standing(q) /\ objState[q] = "ready"
         \/ objExpires[q] > MaxClock
         \/ objState[q] = "deleted" /\ touched[q] + RecheckInterval > MaxClock)

-----------------------------------------------------------------------------
(* The inductive invariant behind the safety properties.                   *)

\* Before its pending row is written a request has left nothing anywhere.
Untouched ==
  \A q \in Request :
    /\ pc[q] \in {"idle", "verified"} => objState[q] = "none"
    /\ objState[q] = "none" => put[q] = "none" /\ q \notin stored
    /\ pc[q] \in {"putting", "putFailed", "uploaded", "finalizing"} => objState[q] # "none"
    /\ pc[q] # "idle" => asked[q] \in Run /\ run[asked[q]].state # "none"

\* consumed_entry_id and the entries name each other.
LedgerLinked ==
  /\ \A r \in Run : consumedBy[r] # NoRequest =>
       asked[consumedBy[r]] = r /\ entry[consumedBy[r]] # "none"
  /\ \A q \in Request : entry[q] # "none" =>
       asked[q] \in Run /\ consumedBy[asked[q]] = q

\* Entries exist exactly from the commit on.
EntryAfterCommit ==
  \A q \in Request :
    /\ entry[q] # "none" => pc[q] \in {"committed", "accepted", "unavailable", "dead"}
    /\ pc[q] \in {"committed", "accepted"} => entry[q] # "none"
    /\ q \in events => Standing(q)

\* What a pending, ready or retained object implies about bytes and entries.
ArchiveBacked ==
  \A q \in Request :
    /\ (put[q] = "landed" \/ pc[q] \in {"uploaded", "finalizing"}) /\ objState[q] = "pending"
         => q \in stored
    /\ objState[q] = "ready" => q \in stored /\ Standing(q)
    /\ objState[q] \in {"pending", "deleting", "deleted"} => objExpires[q] # Never
    /\ Standing(q) => objState[q] = "ready" \/ Lapsed(q, clock)
    /\ put[q] = "landed" => pc[q] = "putting"

\* Maintenance works with a past `now' on rows it may delete.
JobsSound ==
  /\ PagesStayClaimed
  /\ \A c \in Cleaner :
       /\ jobNow[c] <= clock
       /\ job[c] \in {"idle", "recheck", "claim", "expire"} => page[c] = {}

\* While a request is on its way its object's deadline is no earlier than its
\* challenge's (when the constants say so), unless the object was claimed.
DeadlinesOrdered ==
  /\ \A r \in Run : run[r].expires <= clock + RunLifetime
  /\ RunLifetime <= Retention =>
       \A q \in Request :
         pc[q] \in {"putting", "putFailed", "uploaded", "finalizing"} =>
           /\ objState[q] = "pending" => run[asked[q]].expires <= objExpires[q]
           /\ objState[q] # "pending" => run[asked[q]].expires <= clock

IInv ==
  /\ TypeOK
  /\ Untouched
  /\ LedgerLinked
  /\ EntryAfterCommit
  /\ ArchiveBacked
  /\ QualificationConsistent
  /\ JobsSound
  /\ DeadlinesOrdered

-----------------------------------------------------------------------------
(* The ledger the pipeline implements.                                     *)

Listed == {q \in Request : entry[q] = "eligible"}
Archived == {q \in stored : objState[q] = "ready"}
Kept == {q \in Archived : objExpires[q] = Never}
Temporary == {q \in Archived : objExpires[q] # Never}

Ledger == INSTANCE ScoreLedger WITH
  owner <- consumedBy, listed <- Listed, kept <- Kept, temporary <- Temporary

\* Accepting a score, listing it and making its archive readable are one step
\* of the ledger; nothing maintenance does can take a kept archive away.
ImplementsLedger == Ledger!Spec
=============================================================================
