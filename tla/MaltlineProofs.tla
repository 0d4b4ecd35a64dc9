--------------------------- MODULE MaltlineProofs ---------------------------
(***************************************************************************)
(* Maltline's generation-2 proof retention (apps/platform/src/             *)
(* maltline-worker.ts, migration 0003).  A verified score is first a       *)
(* pending row that consumes its challenge; the canonical proof is then    *)
(* uploaded under the run's key and the row moves to ready.  A resubmitted *)
(* score resumes where the first one stopped, and an hourly reconciler     *)
(* settles rows whose Worker died.                                         *)
(*                                                                         *)
(* There is no transaction over D1 and R2.  What orders uploaders and the  *)
(* reconciler is proof_state_updated_at: an uploader advances it (its      *)
(* lease), every verdict is a compare-and-swap on it, and the reconciler   *)
(* only looks at rows whose lease is older than a grace period.            *)
(***************************************************************************)
EXTENDS Integers, FiniteSets

CONSTANTS
  Request,      \* POSTs of a finished run, retries included
  Run,          \* ranked challenges
  Variant,      \* what a POST carries: canonical proof, callsign
  Cleaner,      \* scheduled invocations that may overlap
  Tampered,     \* runs under whose key R2 may hold bytes nobody submitted
  Lifetime,     \* ticks a challenge stays open (two hours)
  Retention,    \* ticks a proof is kept (five days)
  Grace,        \* RECONCILIATION_GRACE_MS (five minutes)
  UploadTime,   \* ticks an R2 write may stay undecided
  PageLimit,    \* rows of one maintenance statement (100, 500)
  MaxClock,     \* bound of the model on time
  NoRun, NoBytes, Foreign

ASSUME Shape ==
  /\ Lifetime \in Nat /\ Retention \in Nat /\ Grace \in Nat /\ UploadTime \in Nat
  /\ PageLimit \in Nat \ {0} /\ MaxClock \in Nat
  /\ Tampered \subseteq Run /\ NoRun \notin Run
  /\ NoBytes \notin Variant /\ Foreign \notin Variant /\ NoBytes # Foreign

VARIABLES
  clock,
  seasonOpen,   \* the generation's season is active
  challenge,    \* maltline_run_challenges: "none", "open" (also once consumed), "purged"
  closes,       \* expires_at of the challenge
  state,        \* maltline_scores.proof_state of the run's only row, "none" for no row
  bytes,        \* proof_sha256, callsign: the variant the row was made for
  lease,        \* proof_state_updated_at
  expires,      \* proof_expires_at
  gone,         \* runs with proof_deleted_at
  object,       \* what R2 holds under the run's key
  pc, asked, sent,   \* each request: step, run, variant it carries
  held,         \* each request: the lease it read, then the one it took
  first,        \* requests that inserted the row themselves
  put,          \* each request's R2 write
  due,          \* when that write is decided at the latest
  job, jobNow,  \* maintenance: step, the `now' it was started with
  page,         \* maintenance: rows left, as [run, lease]
  row,          \* maintenance: the row in hand
  verdict       \* maintenance: what the object showed

timeVars == <<clock, seasonOpen>>
rowVars  == <<state, bytes, lease, expires, gone>>
chalVars == <<challenge, closes>>
reqVars  == <<pc, asked, sent, held, first>>
r2Vars   == <<object, put, due>>
jobVars  == <<job, jobNow, page, row, verdict>>
mpVars == <<timeVars, rowVars, chalVars, reqVars, r2Vars, jobVars>>

NoRow == [run |-> NoRun, lease |-> 0]
Larger(a, b) == IF a >= b THEN a ELSE b

-----------------------------------------------------------------------------
MpInit ==
  /\ clock = 0 /\ seasonOpen = TRUE
  /\ challenge = [r \in Run |-> "none"] /\ closes = [r \in Run |-> 0]
  /\ state = [r \in Run |-> "none"] /\ bytes = [r \in Run |-> NoBytes]
  /\ lease = [r \in Run |-> 0] /\ expires = [r \in Run |-> 0] /\ gone = {}
  /\ object = [r \in Run |-> NoBytes]
  /\ pc = [q \in Request |-> "idle"] /\ asked = [q \in Request |-> NoRun]
  /\ sent = [q \in Request |-> NoBytes]
  /\ held = [q \in Request |-> 0] /\ first = {}
  /\ put = [q \in Request |-> "none"] /\ due = [q \in Request |-> 0]
  /\ job = [c \in Cleaner |-> "idle"] /\ jobNow = [c \in Cleaner |-> 0]
  /\ page = [c \in Cleaner |-> {}] /\ row = [c \in Cleaner |-> NoRow]
  /\ verdict = [c \in Cleaner |-> "none"]

\* beginMaltlineRun: the season is read before the insert, which does not test it.
BeginRun(r) ==
  /\ challenge[r] = "none"
  /\ challenge' = [challenge EXCEPT ![r] = "open"]
  /\ closes' = [closes EXCEPT ![r] = clock + Lifetime]
  /\ UNCHANGED <<timeVars, rowVars, reqVars, r2Vars, jobVars>>

-----------------------------------------------------------------------------
(* One POST.  Answers: "ready" (200, 201), "pending" (202), "refused" (a   *)
(* 409 or 410 that ends the attempt), "unresolved" (a 503 to try again).   *)

Answers == {"ready", "pending", "refused", "unresolved", "dead"}

\* q goes on to a step; an answer ends the invocation and its memory.
Goto(q, step) ==
  /\ pc' = [pc EXCEPT ![q] = step]
  /\ held' = [held EXCEPT ![q] = IF step \in Answers THEN 0 ELSE @]
  /\ first' = IF step \in Answers THEN first \ {q} ELSE first

\* q goes on knowing a lease.
Holding(q, l, step) ==
  /\ pc' = [pc EXCEPT ![q] = step]
  /\ held' = [held EXCEPT ![q] = l]

\* challengeForSubmission and activeMaltlineSeason let the POST in; the proof
\* then verifies and the callsign passes review.
LoadChallenge(q, r, v) ==
  /\ pc[q] = "idle" /\ challenge[r] = "open"
  /\ state[r] = "none" => closes[r] > clock /\ seasonOpen
  /\ asked' = [asked EXCEPT ![q] = r] /\ sent' = [sent EXCEPT ![q] = v]
  /\ Goto(q, "lookup")
  /\ UNCHANGED <<timeVars, rowVars, chalVars, r2Vars, jobVars>>

\* Mutant of MpMatches: resumes a row made from another proof or callsign.
MatchesAnyProof(q) == state[asked[q]] # "failed"

\* assertStoredSubmissionMatches
MpMatches(q) == bytes[asked[q]] = sent[q] /\ state[asked[q]] # "failed"

\* resumeStoredSubmission up to the upload.
MpResume(q) ==
  IF ~MpMatches(q) THEN Goto(q, "refused")
  ELSE IF state[asked[q]] = "ready" THEN Goto(q, "ready")
  ELSE Holding(q, lease[asked[q]], "claim") /\ UNCHANGED first

\* storedScoreForRun before the insert.
LookUp(q) ==
  /\ pc[q] = "lookup"
  /\ IF state[asked[q]] = "none"
     THEN Goto(q, "insert")
     ELSE MpResume(q)
  /\ UNCHANGED <<timeVars, rowVars, chalVars, asked, sent, r2Vars, jobVars>>

\* The batch of insertPendingScore takes effect.
InsertPending(q) ==
  LET r == asked[q] IN
  /\ pc[q] = "insert"
  /\ challenge[r] = "open" /\ state[r] = "none" /\ closes[r] > clock /\ seasonOpen
  /\ state' = [state EXCEPT ![r] = "pending"]
  /\ bytes' = [bytes EXCEPT ![r] = sent[q]]
  /\ lease' = [lease EXCEPT ![r] = clock]
  /\ expires' = [expires EXCEPT ![r] = clock + Retention]
  /\ first' = first \cup {q}
  /\ Holding(q, 0, "readback")
  /\ UNCHANGED <<timeVars, chalVars, gone, asked, sent, r2Vars, jobVars>>

\* The challenge was consumed, expired, purged, or its season closed: look for
\* the row of whoever was faster.
InsertLoses(q) ==
  LET r == asked[q] IN
  /\ pc[q] = "insert"
  /\ ~(challenge[r] = "open" /\ state[r] = "none" /\ closes[r] > clock /\ seasonOpen)
  /\ Goto(q, "concurrent")
  /\ UNCHANGED <<timeVars, rowVars, chalVars, asked, sent, r2Vars, jobVars>>

ReadConcurrent(q) ==
  /\ pc[q] = "concurrent"
  /\ IF state[asked[q]] = "none"
     THEN Goto(q, "refused")
     ELSE MpResume(q)
  /\ UNCHANGED <<timeVars, rowVars, chalVars, asked, sent, r2Vars, jobVars>>

\* storedScoreForRun after the insert: another POST may have moved the row on.
ReadBack(q) ==
  /\ pc[q] = "readback"
  /\ Holding(q, lease[asked[q]], "claim")
  /\ UNCHANGED <<timeVars, rowVars, chalVars, asked, sent, first, r2Vars, jobVars>>

\* Mutant of LeaseTime: the lease is not renewed.
LeaseTimeKept(q) == held[q]


\* Strictly later than the lease it replaces, whatever the clock says.
LeaseTime(q) == Larger(clock, held[q] + 1)

\* What the snapshot is tested for first, deletion and expiry, never changes
\* back, so the statement's own test decides.
Claims(q) ==
  LET r == asked[q] IN
  /\ state[r] = "pending" /\ lease[r] = held[q]
  /\ r \notin gone /\ expires[r] > LeaseTime(q)

\* claimPendingProofUpload takes the lease and the upload starts.
Claim(q) ==
  /\ pc[q] = "claim" /\ Claims(q)
  /\ lease' = [lease EXCEPT ![asked[q]] = LeaseTime(q)]
  /\ put' = [put EXCEPT ![q] = "inflight"]
  /\ due' = [due EXCEPT ![q] = clock + UploadTime]
  /\ Holding(q, LeaseTime(q), "putting")
  /\ UNCHANGED <<timeVars, state, bytes, expires, gone, chalVars, asked, sent, first,
                 object, jobVars>>

ClaimLoses(q) ==
  /\ pc[q] = "claim" /\ ~Claims(q)
  /\ Goto(q, "outrun")
  /\ UNCHANGED <<timeVars, rowVars, chalVars, asked, sent, r2Vars, jobVars>>

\* retainMaltlineProof without a lease.
ReadOutrun(q) ==
  LET r == asked[q] IN
  /\ pc[q] = "outrun"
  /\ Goto(q, IF state[r] = "ready" THEN "retained"
             ELSE IF state[r] = "failed" \/ r \in gone \/ expires[r] <= clock THEN "refused"
             ELSE "inProgress")
  /\ UNCHANGED <<timeVars, rowVars, chalVars, asked, sent, r2Vars, jobVars>>

\* R2: the conditional write is decided, whoever still waits for it.
PutLands(q) ==
  LET r == asked[q] IN
  /\ put[q] = "inflight"
  /\ object' = [object EXCEPT ![r] = IF @ = NoBytes THEN sent[q] ELSE @]
  /\ put' = [put EXCEPT ![q] =
       IF pc[q] # "putting" THEN "none" ELSE IF object[r] = NoBytes THEN "stored" ELSE "exists"]
  /\ due' = [due EXCEPT ![q] = 0]
  /\ UNCHANGED <<timeVars, rowVars, chalVars, reqVars, jobVars>>

PutLost(q) ==
  /\ put[q] = "inflight"
  /\ put' = [put EXCEPT ![q] = "none"]
  /\ due' = [due EXCEPT ![q] = 0]
  /\ UNCHANGED <<timeVars, rowVars, chalVars, reqVars, object, jobVars>>

\* Nobody waits for the answer of q's write any more.
Unheard(q) == put' = [put EXCEPT ![q] = IF @ = "inflight" THEN @ ELSE "none"]

PutAnswered(q) ==
  /\ pc[q] = "putting" /\ put[q] \in {"stored", "exists"}
  /\ Goto(q, IF put[q] = "stored" THEN "promote" ELSE "inspect")
  /\ Unheard(q)
  /\ UNCHANGED <<timeVars, rowVars, chalVars, asked, sent, object, due, jobVars>>

\* Mutant of PutThrows: a failed write is taken for a stored one.
PutThrowsPromotes(q) ==
  /\ pc[q] = "putting"
  /\ Goto(q, "promote")
  /\ Unheard(q)
  /\ UNCHANGED <<timeVars, rowVars, chalVars, asked, sent, object, due, jobVars>>

\* An error is ambiguous; the write may still take effect.
PutThrows(q) ==
  /\ pc[q] = "putting"
  /\ Goto(q, "inspect")
  /\ Unheard(q)
  /\ UNCHANGED <<timeVars, rowVars, chalVars, asked, sent, object, due, jobVars>>

\* Nothing was stored by this call: read what is there.
Inspect(q) ==
  LET r == asked[q] IN
  /\ pc[q] = "inspect"
  /\ Goto(q, IF object[r] = NoBytes THEN "unresolved"
             ELSE IF object[r] = sent[q] THEN "promote" ELSE "collision")
  /\ UNCHANGED <<timeVars, rowVars, chalVars, asked, sent, r2Vars, jobVars>>

InspectThrows(q) ==
  /\ pc[q] = "inspect"
  /\ Goto(q, "unresolved")
  /\ UNCHANGED <<timeVars, rowVars, chalVars, asked, sent, r2Vars, jobVars>>

\* failPendingProof
FailPending(r, l) ==
  state' = IF state[r] = "pending" /\ lease[r] = l
           THEN [state EXCEPT ![r] = "failed"] ELSE state

Collide(q) ==
  LET r == asked[q] IN
  /\ pc[q] = "collision"
  /\ FailPending(r, held[q])
  /\ lease' = IF state'[r] # state[r] THEN [lease EXCEPT ![r] = clock] ELSE lease
  /\ Goto(q, "refused")
  /\ UNCHANGED <<timeVars, bytes, expires, gone, chalVars, asked, sent,
                 r2Vars, jobVars>>


\* readyPendingProof changes one row.
Promotes(r, l) == state[r] = "pending" /\ lease[r] = l /\ r \notin gone

Promote(q) ==
  LET r == asked[q] IN
  /\ pc[q] = "promote"
  /\ IF Promotes(r, held[q])
     THEN /\ state' = [state EXCEPT ![r] = "ready"]
          /\ lease' = [lease EXCEPT ![r] = clock]
          /\ Goto(q, "retained")
     ELSE Goto(q, "recheck") /\ UNCHANGED <<state, lease>>
  /\ UNCHANGED <<timeVars, bytes, expires, gone, chalVars, asked, sent,
                 r2Vars, jobVars>>

Recheck(q) ==
  /\ pc[q] = "recheck"
  /\ Goto(q, IF state[asked[q]] = "ready" THEN "retained" ELSE "unresolved")
  /\ UNCHANGED <<timeVars, rowVars, chalVars, asked, sent, r2Vars, jobVars>>

\* The last read of the row; what is answered depends on who asks.
Respond(q) ==
  LET r == asked[q] IN
  /\ pc[q] \in {"retained", "inProgress"}
  /\ Goto(q, CASE state[r] = "ready" -> "ready"
               [] state[r] = "failed" -> IF q \in first THEN "unresolved" ELSE "refused"
               [] OTHER -> IF q \in first /\ pc[q] = "retained" THEN "unresolved" ELSE "pending")
  /\ UNCHANGED <<timeVars, rowVars, chalVars, asked, sent, r2Vars, jobVars>>

Working == {"lookup", "insert", "concurrent", "readback", "claim", "outrun", "putting",
            "inspect", "collision", "promote", "recheck", "retained", "inProgress"}
Crash(q) ==
  /\ pc[q] \in Working
  /\ Goto(q, "dead")
  /\ Unheard(q)
  /\ UNCHANGED <<timeVars, rowVars, chalVars, asked, sent, object, due, jobVars>>

-----------------------------------------------------------------------------
(* Scheduled maintenance: reconcile, remove expired proofs, drop challenges. *)

JobGoto(c, step) == job' = [job EXCEPT ![c] = step]

Pages(rows, key) ==
  {S \in SUBSET rows :
     /\ Cardinality(S) <= PageLimit
     /\ S # rows => Cardinality(S) = PageLimit
     /\ \A a \in S, b \in rows \ S : key[a] <= key[b]}

StartMaintenance(c) ==
  /\ job[c] = "idle"
  /\ JobGoto(c, "select")
  /\ jobNow' = [jobNow EXCEPT ![c] = clock]
  /\ UNCHANGED <<timeVars, rowVars, chalVars, reqVars, r2Vars, page, row, verdict>>


Stranded(now) ==
  {r \in Run : state[r] = "pending" /\ r \notin gone /\ lease[r] + Grace <= now}

SelectStranded(c) ==
  /\ job[c] = "select"
  /\ \E S \in Pages(Stranded(jobNow[c]), lease) :
       page' = [page EXCEPT ![c] = {[run |-> r, lease |-> lease[r]] : r \in S}]
  /\ JobGoto(c, "reconcile")
  /\ UNCHANGED <<timeVars, rowVars, chalVars, reqVars, r2Vars, jobNow, row, verdict>>

\* The next row's object is read; a read error defers the row.
ReadObject(c) ==
  /\ job[c] = "reconcile"
  /\ \E p \in page[c] :
       /\ page' = [page EXCEPT ![c] = @ \ {p}]
       /\ \/ /\ row' = [row EXCEPT ![c] = p]
             /\ verdict' = [verdict EXCEPT ![c] =
                  IF object[p.run] = bytes[p.run] THEN "ready" ELSE "failed"]
             /\ JobGoto(c, "settle")
          \/ UNCHANGED <<row, verdict, job>>
  /\ UNCHANGED <<timeVars, rowVars, chalVars, reqVars, r2Vars, jobNow>>

\* readyPendingProof or failPendingProof, under the lease that was selected.
Settle(c) ==
  LET r == row[c].run IN
  /\ job[c] = "settle"
  /\ IF verdict[c] = "ready"
     THEN state' = IF Promotes(r, row[c].lease) THEN [state EXCEPT ![r] = "ready"] ELSE state
     ELSE FailPending(r, row[c].lease)
  /\ lease' = IF state'[r] # state[r] THEN [lease EXCEPT ![r] = jobNow[c]] ELSE lease
  /\ row' = [row EXCEPT ![c] = NoRow]
  /\ verdict' = [verdict EXCEPT ![c] = "none"]
  /\ JobGoto(c, "reconcile")
  /\ UNCHANGED <<timeVars, bytes, expires, gone, chalVars, reqVars, r2Vars, jobNow, page>>

\* The loop is over, or a statement threw.
EndReconcile(c) ==
  /\ job[c] \in {"select", "reconcile", "settle"}
  /\ JobGoto(c, "expired")
  /\ page' = [page EXCEPT ![c] = {}]
  /\ row' = [row EXCEPT ![c] = NoRow]
  /\ verdict' = [verdict EXCEPT ![c] = "none"]
  /\ UNCHANGED <<timeVars, rowVars, chalVars, reqVars, r2Vars, jobNow>>

ExpiredProofs(now) ==
  {r \in Run : state[r] \in {"ready", "failed"} /\ expires[r] <= now /\ r \notin gone}

SelectExpired(c) ==
  /\ job[c] = "expired"
  /\ \E S \in Pages(ExpiredProofs(jobNow[c]), expires) :
       /\ page' = [page EXCEPT ![c] = {[run |-> r, lease |-> lease[r]] : r \in S}]
       /\ JobGoto(c, IF S = {} THEN "purge" ELSE "delete")
  /\ UNCHANGED <<timeVars, rowVars, chalVars, reqVars, r2Vars, jobNow, row, verdict>>

InPage(c, r) == \E p \in page[c] : p.run = r

DeleteObjects(c) ==
  /\ job[c] = "delete"
  /\ object' = [r \in Run |-> IF InPage(c, r) THEN NoBytes ELSE object[r]]
  /\ JobGoto(c, "mark")
  /\ UNCHANGED <<timeVars, rowVars, chalVars, reqVars, put, due, jobNow, page, row, verdict>>

MarkDeleted(c) ==
  /\ job[c] = "mark"
  /\ gone' = gone \cup {r \in Run : InPage(c, r)}
  /\ page' = [page EXCEPT ![c] = {}]
  /\ JobGoto(c, "purge")
  /\ UNCHANGED <<timeVars, state, bytes, lease, expires, chalVars, reqVars, r2Vars, jobNow,
                 row, verdict>>

\* Mutant of CleanupThrows: the rows are marked whether or not the delete threw.
CleanupThrowsMarks(c) ==
  /\ job[c] \in {"expired", "delete", "mark"}
  /\ \E S \in SUBSET {r \in Run : job[c] = "delete" /\ InPage(c, r)} :
       object' = [r \in Run |-> IF r \in S THEN NoBytes ELSE object[r]]
  /\ gone' = gone \cup {r \in Run : InPage(c, r)}
  /\ page' = [page EXCEPT ![c] = {}]
  /\ JobGoto(c, "purge")
  /\ UNCHANGED <<timeVars, state, bytes, lease, expires, chalVars, reqVars, put, due, jobNow,
                 row, verdict>>

\* A statement threw; R2 may have deleted some of the keys.
CleanupThrows(c) ==
  /\ job[c] \in {"expired", "delete", "mark"}
  /\ \E S \in SUBSET {r \in Run : job[c] = "delete" /\ InPage(c, r)} :
       object' = [r \in Run |-> IF r \in S THEN NoBytes ELSE object[r]]
  /\ page' = [page EXCEPT ![c] = {}]
  /\ JobGoto(c, "purge")
  /\ UNCHANGED <<timeVars, rowVars, chalVars, reqVars, put, due, jobNow, row, verdict>>

\* database-expiry, or its failure.
PurgeChallenges(c) ==
  /\ job[c] = "purge"
  /\ \/ challenge' = [r \in Run |->
          IF challenge[r] = "open" /\ state[r] = "none" /\ closes[r] <= jobNow[c]
          THEN "purged" ELSE challenge[r]]
     \/ UNCHANGED challenge
  /\ JobGoto(c, "idle")
  /\ jobNow' = [jobNow EXCEPT ![c] = 0]
  /\ UNCHANGED <<timeVars, rowVars, closes, reqVars, r2Vars, page, row, verdict>>

MaintenanceCut(c) ==
  /\ job[c] # "idle"
  /\ JobGoto(c, "idle")
  /\ jobNow' = [jobNow EXCEPT ![c] = 0]
  /\ page' = [page EXCEPT ![c] = {}]
  /\ row' = [row EXCEPT ![c] = NoRow]
  /\ verdict' = [verdict EXCEPT ![c] = "none"]
  /\ UNCHANGED <<timeVars, rowVars, chalVars, reqVars, r2Vars>>

-----------------------------------------------------------------------------
CloseSeason ==
  /\ seasonOpen /\ seasonOpen' = FALSE
  /\ UNCHANGED <<clock, rowVars, chalVars, reqVars, r2Vars, jobVars>>

\* Something else wrote to the run's key.
Tamper(r) ==
  /\ r \in Tampered /\ object[r] # Foreign
  /\ object' = [object EXCEPT ![r] = Foreign]
  /\ UNCHANGED <<timeVars, rowVars, chalVars, reqVars, put, due, jobVars>>

\* R2 decides every write within UploadTime.
MpTick ==
  /\ clock < MaxClock
  /\ \A q \in Request : put[q] = "inflight" => clock < due[q]
  /\ clock' = clock + 1
  /\ UNCHANGED <<seasonOpen, rowVars, chalVars, reqVars, r2Vars, jobVars>>

Submission(q) ==
  \/ \E r \in Run, v \in Variant : LoadChallenge(q, r, v)
  \/ LookUp(q) \/ InsertPending(q) \/ InsertLoses(q) \/ ReadConcurrent(q) \/ ReadBack(q)
  \/ Claim(q) \/ ClaimLoses(q) \/ ReadOutrun(q)
  \/ PutAnswered(q) \/ PutThrows(q) \/ Inspect(q) \/ InspectThrows(q) \/ Collide(q)
  \/ Promote(q) \/ Recheck(q) \/ Respond(q) \/ Crash(q)

Storage(q) == PutLands(q) \/ PutLost(q)

Reconciliation(c) ==
  StartMaintenance(c) \/ SelectStranded(c) \/ ReadObject(c) \/ Settle(c) \/ EndReconcile(c)

Expiry(c) ==
  \/ SelectExpired(c) \/ DeleteObjects(c) \/ MarkDeleted(c) \/ CleanupThrows(c)
  \/ PurgeChallenges(c) \/ MaintenanceCut(c)

MpNext ==
  \/ \E r \in Run : BeginRun(r) \/ Tamper(r)
  \/ \E q \in Request : Submission(q) \/ Storage(q)
  \/ \E c \in Cleaner : Reconciliation(c) \/ Expiry(c)
  \/ CloseSeason
  \/ MpTick

MpSpec == MpInit /\ [][MpNext]_mpVars

\* Cron keeps coming, R2 and D1 do not fail for ever, time passes.
MpFairness ==
  /\ WF_mpVars(MpTick)
  /\ \A q \in Request : WF_mpVars(Storage(q))
  /\ \A c \in Cleaner :
       /\ WF_mpVars(StartMaintenance(c))
       /\ SF_mpVars(SelectStranded(c)) /\ SF_mpVars(ReadObject(c) /\ job'[c] = "settle")
       /\ SF_mpVars(Settle(c)) /\ SF_mpVars(EndReconcile(c) /\ page[c] = {} /\ job[c] = "reconcile")
       /\ SF_mpVars(SelectExpired(c)) /\ SF_mpVars(DeleteObjects(c)) /\ SF_mpVars(MarkDeleted(c))
       /\ SF_mpVars(PurgeChallenges(c))

MpFairSpec == MpSpec /\ MpFairness

-----------------------------------------------------------------------------
(* Properties.                                                             *)

States == {"none", "pending", "ready", "failed"}
JobSteps == {"idle", "select", "reconcile", "settle", "expired", "delete", "mark", "purge"}

\* The shape of the tables and of the Workers' memory.
MpTypeOK ==
  /\ clock \in Nat /\ seasonOpen \in BOOLEAN
  /\ challenge \in [Run -> {"none", "open", "purged"}] /\ closes \in [Run -> Nat]
  /\ state \in [Run -> States] /\ bytes \in [Run -> Variant \cup {NoBytes}]
  /\ lease \in [Run -> Nat] /\ expires \in [Run -> Nat] /\ gone \subseteq Run
  /\ object \in [Run -> Variant \cup {NoBytes, Foreign}]
  /\ pc \in [Request -> {"idle"} \cup Working \cup Answers]
  /\ asked \in [Request -> Run \cup {NoRun}]
  /\ sent \in [Request -> Variant \cup {NoBytes}]
  /\ held \in [Request -> Nat] /\ first \subseteq Request
  /\ put \in [Request -> {"none", "inflight", "stored", "exists"}] /\ due \in [Request -> Nat]
  /\ job \in [Cleaner -> JobSteps] /\ jobNow \in [Cleaner -> Nat]
  /\ page \in [Cleaner -> SUBSET [run : Run, lease : Nat]]
  /\ row \in [Cleaner -> [run : Run \cup {NoRun}, lease : Nat]]
  /\ verdict \in [Cleaner -> {"none", "ready", "failed"}]

\* A ranked row's proof can be read until it expires, and is the proof that was
\* verified, whoever promoted it and however uploads, retries, reconcilers and
\* expiry interleave.
ReadyIsReadable ==
  \A r \in Run \ Tampered :
    state[r] = "ready" /\ r \notin gone /\ expires[r] > clock => object[r] = bytes[r]

\* What the grace period is for: as long as R2 decides a write within it, no
\* run is failed while its proof is stored or may still arrive.
UploadNeverWasted ==
  UploadTime < Grace =>
    \A r \in Run \ Tampered :
      state[r] = "failed" =>
        /\ object[r] = NoBytes
        /\ \A q \in Request : asked[q] = r => put[q] # "inflight"

\* Answers stay true: 200 and 201 name a row that ranks with the proof and the
\* callsign of that POST, 202 one that was recorded for it; a POST that carries
\* the recorded proof is turned away only when it failed or has expired.
AnswersHold ==
  \A q \in Request :
    LET r == asked[q] IN
    /\ pc[q] = "ready" => state[r] = "ready" /\ bytes[r] = sent[q]
    /\ pc[q] = "pending" => state[r] # "none" /\ bytes[r] = sent[q]
    /\ pc[q] = "refused" /\ r \notin Tampered /\ bytes[r] = sent[q] =>
         state[r] = "failed" \/ expires[r] <= clock

\* Expiry never takes a row out of the reconciler's sight, and takes no proof
\* before its time.
PendingNeverDropped ==
  \A r \in gone : state[r] \in {"ready", "failed"} /\ expires[r] <= clock

\* A row settles, unless no invocation within MaxClock is late enough for it.
PendingSettles ==
  <>[](\A r \in Run : state[r] = "pending" => lease[r] + Grace > MaxClock)

\* A settled, expired proof goes, unless something overwrote it.
ProofGoes ==
  \A r \in Run :
    \/ <>[](object[r] # NoBytes /\ state[r] # "pending" => expires[r] > MaxClock)
    \/ <>(object[r] = Foreign)

\* Maintenance gets to the end of everything: a row does not stay pending, and
\* proofs are removed after their retention time, also those of failed rows,
\* whatever crashes, throws or lands late on the way.
NothingLingers == PendingSettles /\ ProofGoes

-----------------------------------------------------------------------------
(* The inductive invariant behind the safety properties.                   *)

\* From the moment a POST resumes or has inserted the row, the row is its own.
Committed == {"readback", "claim", "outrun", "putting", "inspect", "collision", "promote",
              "recheck", "retained", "inProgress"}

RowsMatch ==
  /\ \A r \in Run : state[r] = "none" <=> bytes[r] = NoBytes
  /\ \A q \in Request :
       /\ pc[q] # "idle" =>
            asked[q] \in Run /\ sent[q] \in Variant /\ challenge[asked[q]] # "none"
       /\ pc[q] = "idle" => put[q] = "none"
       /\ pc[q] \in Committed \/ put[q] # "none" =>
            asked[q] \in Run /\ state[asked[q]] # "none" /\ bytes[asked[q]] = sent[q]
       /\ pc[q] = "retained" => state[asked[q]] = "ready"
       /\ pc[q] = "collision" => asked[q] \in Tampered

\* Without tampering a key holds nothing but its row's proof; a promotion under
\* way is backed by it as long as the row can still be promoted.
ObjectsBacked ==
  /\ \A r \in Run \ Tampered :
       object[r] = NoBytes \/ (state[r] # "none" /\ object[r] = bytes[r])
  /\ \A q \in Request :
       asked[q] \in Run \ Tampered /\ state[asked[q]] = "pending"
       /\ (pc[q] = "promote" \/ put[q] \in {"stored", "exists"}) =>
         object[asked[q]] = bytes[asked[q]]
  /\ \A c \in Cleaner :
       row[c].run \in Run \ Tampered /\ verdict[c] = "ready" /\ state[row[c].run] = "pending" =>
         object[row[c].run] = bytes[row[c].run]

\* A row maintenance has read exists, and its lease only advances while it can
\* still be settled.
Followed(p) ==
  /\ state[p.run] # "none"
  /\ state[p.run] = "pending" => p.lease <= lease[p.run]

\* Maintenance works with a past `now'; what it deletes is settled and expired.
JobSound(c) ==
  /\ jobNow[c] <= clock
  /\ job[c] \in {"reconcile", "delete", "mark"} => \A p \in page[c] : Followed(p)
  /\ job[c] = "reconcile" => \A p \in page[c] : p.lease + Grace <= jobNow[c]
  /\ job[c] = "settle" =>
       /\ verdict[c] # "none" /\ row[c].run \in Run /\ row[c].lease + Grace <= jobNow[c]
       /\ Followed(row[c]) /\ \A p \in page[c] : Followed(p) /\ p.lease + Grace <= jobNow[c]
  /\ job[c] # "settle" => row[c].run = NoRun
  /\ job[c] \in {"delete", "mark"} =>
       \A p \in page[c] : state[p.run] \in {"ready", "failed"} /\ expires[p.run] <= jobNow[c]

JobsSound == \A c \in Cleaner : JobSound(c)

\* A write under way is decided within UploadTime of the lease it was sent under.
WritesInTime ==
  \A q \in Request :
    put[q] = "inflight" =>
      /\ clock <= due[q]
      /\ state[asked[q]] = "pending" => due[q] <= lease[asked[q]] + UploadTime

\* A verdict `missing' that can still take effect is still true.
MissingStays ==
  UploadTime < Grace =>
    \A c \in Cleaner :
      LET r == row[c].run IN
      r \in Run \ Tampered /\ verdict[c] = "failed"
      /\ state[r] = "pending" /\ lease[r] = row[c].lease =>
        /\ object[r] = NoBytes
        /\ \A q \in Request : asked[q] = r => put[q] # "inflight"

\* A run that was turned away for good cannot be inserted later.
NeverInserted ==
  \A q \in Request :
    pc[q] \in {"concurrent", "refused"} =>
      LET r == asked[q] IN
      state[r] # "none" \/ challenge[r] # "open" \/ closes[r] <= clock \/ ~seasonOpen

IInv ==
  /\ MpTypeOK
  /\ RowsMatch
  /\ ObjectsBacked
  /\ JobsSound
  /\ WritesInTime
  /\ MissingStays
  /\ NeverInserted
  /\ ReadyIsReadable
  /\ UploadNeverWasted
  /\ AnswersHold
  /\ PendingNeverDropped
=============================================================================
