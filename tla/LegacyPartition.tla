--------------------------- MODULE LegacyPartition ---------------------------
(***************************************************************************)
(* The routes of old Partition clients (apps/platform/src/worker.ts,       *)
(* partition-adapter.ts, migrations 0001 and 0002): ranked runs, scores    *)
(* with their own five-day proof, public replay shares and the pass that   *)
(* expires them.  Runs are taken in over either route, v1 here or v2 by    *)
(* way of the shared service (SharedSubmission), of which this module      *)
(* keeps what it does to the tables they share.                            *)
(***************************************************************************)
EXTENDS Integers, FiniteSets

CONSTANTS
  LpCall,       \* submissions of one player's runs, over either route
  LpRuns,       \* ranked challenges
  LpShares,     \* publications of the same replay by the same player
  LpRunLife,    \* ticks a challenge stays open (two hours)
  LpProofLife,  \* ticks a v1 proof is kept (five days)
  LpDays,       \* ticks a share may ask for (one to five days)
  LpHorizon,    \* bound of the model on time
  LpNobody      \* no call, no run, no share

ASSUME LpAssumption ==
  /\ LpRunLife \in Nat /\ LpProofLife \in Nat /\ LpDays \subseteq Nat /\ LpHorizon \in Nat
  /\ LpNobody \notin LpCall \cup LpRuns \cup LpShares

VARIABLES
  lpNow, lpSeason,
  lpRun,    \* run_challenges: state, expires_at and consumed_score_id
  lpCall,   \* submissions: step, route, run and proof_expires_at
  lpScore,  \* scores, by the call that made the row: proof_expires_at, proof_deleted_at
  lpProof,  \* proof objects in R2, under the id of the call
  lpShare,  \* publications: step, the share they answer with, expires_at
  lpRow,    \* replay_shares
  lpFile,   \* replay objects in R2
  lpSweep,  \* the scheduled maintenance
  lpErased  \* scores an operator has deleted

lpTables == <<lpRun, lpScore, lpErased>>
lpShareVars == <<lpShare, lpRow, lpFile>>
lpVars == <<lpNow, lpSeason, lpTables, lpCall, lpProof, lpShareVars, lpSweep>>

Never == LpHorizon + LpProofLife + LpRunLife + 1   \* proof_expires_at IS NULL
LpQuiet == [at |-> "idle", now |-> 0, scores |-> {}, shares |-> {}]

LpTypeOK ==
  /\ lpNow \in 0..LpHorizon /\ lpSeason \in BOOLEAN
  /\ lpRun \in [LpRuns -> [state : {"none", "open", "purged"}, expires : Nat, by : LpCall \cup {LpNobody}]]
  /\ lpCall \in [LpCall -> [at : {"idle", "checked", "putting", "stored", "taken", "refused", "dead"},
                            route : {"v1", "v2"}, run : LpRuns \cup {LpNobody}, expires : Nat, stamp : Nat]]
  /\ lpScore \in [LpCall -> [row : BOOLEAN, expires : Nat, gone : BOOLEAN]]
  /\ lpProof \subseteq LpCall /\ lpErased \subseteq LpCall
  /\ lpShare \in [LpShares -> [at : {"idle", "putting", "stored", "told", "dead"},
                               is : LpShares \cup {LpNobody}, expires : Nat]]
  /\ lpRow \subseteq LpShares /\ lpFile \subseteq LpShares
  /\ lpSweep \in [at : {"idle", "read", "wiped", "purge"}, now : Nat,
                  scores : SUBSET LpCall, shares : SUBSET LpShares]

LpInit ==
  /\ lpNow = 0 /\ lpSeason = TRUE
  /\ lpRun = [r \in LpRuns |-> [state |-> "none", expires |-> 0, by |-> LpNobody]]
  /\ lpCall = [q \in LpCall |-> [at |-> "idle", route |-> "v1", run |-> LpNobody, expires |-> 0, stamp |-> 0]]
  /\ lpScore = [q \in LpCall |-> [row |-> FALSE, expires |-> 0, gone |-> FALSE]]
  /\ lpProof = {} /\ lpErased = {} /\ lpRow = {} /\ lpFile = {}
  /\ lpShare = [s \in LpShares |-> [at |-> "idle", is |-> LpNobody, expires |-> 0]]
  /\ lpSweep = LpQuiet

-----------------------------------------------------------------------------
LpTick ==
  /\ lpNow < LpHorizon /\ lpNow' = lpNow + 1
  /\ UNCHANGED <<lpSeason, lpTables, lpCall, lpProof, lpShareVars, lpSweep>>

\* An operator ends the season.
LpArchive ==
  /\ lpSeason /\ lpSeason' = FALSE
  /\ UNCHANGED <<lpNow, lpTables, lpCall, lpProof, lpShareVars, lpSweep>>

\* beginRun of either route: the season is read, the challenge inserted.
LpBegin(r) ==
  /\ lpRun[r].state = "none" /\ lpSeason
  /\ lpRun' = [lpRun EXCEPT ![r] = [state |-> "open", expires |-> lpNow + LpRunLife, by |-> LpNobody]]
  /\ UNCHANGED <<lpNow, lpSeason, lpScore, lpErased, lpCall, lpProof, lpShareVars, lpSweep>>

\* challengeForSubmission lets the call in; score and callsign pass too.
LpCheck(q, r, route) ==
  /\ lpCall[q].at = "idle"
  /\ lpRun[r].state = "open" /\ lpRun[r].by = LpNobody /\ lpRun[r].expires > lpNow
  /\ lpCall' = [lpCall EXCEPT ![q] = [@ EXCEPT !.at = "checked", !.route = route, !.run = r]]
  /\ UNCHANGED <<lpNow, lpSeason, lpTables, lpProof, lpShareVars, lpSweep>>

\* The deadline of a v1 proof counts from before its upload; v2 rows have none.
LpPut(q) ==
  /\ lpCall[q].at = "checked"
  /\ lpCall' = [lpCall EXCEPT ![q] = [@ EXCEPT !.at = "putting",
       !.expires = IF lpCall[q].route = "v1" THEN lpNow + LpProofLife ELSE Never]]
  /\ UNCHANGED <<lpNow, lpSeason, lpTables, lpProof, lpShareVars, lpSweep>>

\* R2 answers; the v1 batch will carry the time at which it did.
LpStored(q) ==
  /\ lpCall[q].at = "putting"
  /\ lpCall' = [lpCall EXCEPT ![q] = [@ EXCEPT !.at = "stored", !.stamp = lpNow]]
  /\ lpProof' = lpProof \cup {q}
  /\ UNCHANGED <<lpNow, lpSeason, lpTables, lpShareVars, lpSweep>>

\* The challenge's UPDATE changes a row.  Only the shared route's looks at the
\* database's clock and at the season; v1 compares with the stamp it brought.
LpConsumes(q) ==
  LET run == lpRun[lpCall[q].run] IN
  /\ run.state = "open" /\ run.by = LpNobody
  /\ IF lpCall[q].route = "v1" THEN run.expires > lpCall[q].stamp
     ELSE run.expires > lpNow /\ lpSeason

\* Mutant of LpInserts: selects the challenge by its id alone.
LpInsertsForRun(q, by) == lpRun[lpCall[q].run].state = "open"

\* The score is inserted from the challenge that q has just consumed.
LpInserts(q, by) == by = q

\* The batch; run_id is unique.  409 when the challenge did not change: the
\* proof then stays where it was put.
LpBatch(q) ==
  LET run == lpCall[q].run
      by  == IF LpConsumes(q) THEN q ELSE lpRun[run].by
      row == LpInserts(q, by) /\ \A o \in LpCall : lpScore[o].row => lpCall[o].run # run IN
  /\ lpCall[q].at = "stored"
  /\ lpRun' = [lpRun EXCEPT ![run].by = by]
  /\ lpScore' = IF row THEN [lpScore EXCEPT ![q] = [row |-> TRUE, expires |-> lpCall[q].expires, gone |-> FALSE]] ELSE lpScore
  /\ \E at \in {"dead", IF by = q THEN "taken" ELSE "refused"} :
       lpCall' = [lpCall EXCEPT ![q] = [@ EXCEPT !.at = at, !.stamp = 0]]
  /\ UNCHANGED <<lpNow, lpSeason, lpErased, lpProof, lpShareVars, lpSweep>>

\* The shared service may refuse for reasons of its own, and undoes its batch.
LpUndone(q) ==
  /\ lpCall[q].at = "stored" /\ lpCall[q].route = "v2"
  /\ lpCall' = [lpCall EXCEPT ![q] = [@ EXCEPT !.at = "refused", !.stamp = 0]]
  /\ UNCHANGED <<lpNow, lpSeason, lpTables, lpProof, lpShareVars, lpSweep>>

\* A Worker ends, or a call of it throws: the upload may have landed.
LpCrash(q) ==
  /\ lpCall[q].at \in {"checked", "putting", "stored"}
  /\ lpCall' = [lpCall EXCEPT ![q] = [@ EXCEPT !.at = "dead", !.stamp = 0]]
  /\ lpProof' \in {lpProof} \cup (IF lpCall[q].at = "putting" THEN {lpProof \cup {q}} ELSE {})
  /\ UNCHANGED <<lpNow, lpSeason, lpTables, lpShareVars, lpSweep>>

\* The shared service's cleanup takes what its row-less or erased entries left.  What
\* it takes of standing entries at their deadline is in SharedSubmission.
LpReclaim(q) ==
  /\ q \in lpProof /\ lpCall[q].route = "v2" /\ lpCall[q].at \in {"taken", "refused", "dead"} /\ ~lpScore[q].row
  /\ lpProof' = lpProof \ {q}
  /\ UNCHANGED <<lpNow, lpSeason, lpTables, lpCall, lpShareVars, lpSweep>>

\* An operator deletes a score (scores_remove_shared_entry follows it).
LpErase(q) ==
  /\ lpScore[q].row
  /\ lpScore' = [lpScore EXCEPT ![q].row = FALSE]
  /\ lpErased' = lpErased \cup {q}
  /\ UNCHANGED <<lpNow, lpSeason, lpRun, lpCall, lpProof, lpShareVars, lpSweep>>

-----------------------------------------------------------------------------
\* publishPartitionReplay: an unexpired share of the same bytes is answered.
LpReuse(s) ==
  /\ lpShare[s].at = "idle"
  /\ \E o \in lpRow :
       /\ lpShare[o].expires > lpNow
       /\ \A p \in lpRow : lpShare[p].expires <= lpShare[o].expires
       /\ lpShare' = [lpShare EXCEPT ![s] = [at |-> "told", is |-> o, expires |-> lpShare[o].expires]]
  /\ UNCHANGED <<lpNow, lpSeason, lpTables, lpCall, lpProof, lpRow, lpFile, lpSweep>>

LpPublish(s, days) ==
  /\ lpShare[s].at = "idle" /\ \A o \in lpRow : lpShare[o].expires <= lpNow
  /\ lpShare' = [lpShare EXCEPT ![s] = [at |-> "putting", is |-> s, expires |-> lpNow + days]]
  /\ UNCHANGED <<lpNow, lpSeason, lpTables, lpCall, lpProof, lpRow, lpFile, lpSweep>>

LpShareStored(s) ==
  /\ lpShare[s].at = "putting"
  /\ \E at \in {"stored", "dead"} : lpShare' = [lpShare EXCEPT ![s].at = at]
  /\ lpFile' = lpFile \cup {s}
  /\ UNCHANGED <<lpNow, lpSeason, lpTables, lpCall, lpProof, lpRow, lpSweep>>

LpShareInserted(s) ==
  /\ lpShare[s].at = "stored"
  /\ \E at \in {"told", "dead"} : lpShare' = [lpShare EXCEPT ![s].at = at]
  /\ lpRow' = lpRow \cup {s}
  /\ UNCHANGED <<lpNow, lpSeason, lpTables, lpCall, lpProof, lpFile, lpSweep>>

-----------------------------------------------------------------------------
LpExpired(q, now) == lpScore[q].row /\ ~lpScore[q].gone /\ lpScore[q].expires <= now

\* cleanupExpiredReplayData reads its two pages.
LpSweepRead ==
  /\ lpSweep.at = "idle"
  /\ lpSweep' = [at |-> "read", now |-> lpNow, scores |-> {q \in LpCall : LpExpired(q, lpNow)},
                 shares |-> {s \in lpRow : lpShare[s].expires <= lpNow}]
  /\ UNCHANGED <<lpNow, lpSeason, lpTables, lpCall, lpProof, lpShareVars>>

LpWipe ==
  /\ lpSweep.at = "read" /\ lpSweep' = [lpSweep EXCEPT !.at = "wiped"]
  /\ lpProof' = lpProof \ lpSweep.scores /\ lpFile' = lpFile \ lpSweep.shares
  /\ UNCHANGED <<lpNow, lpSeason, lpTables, lpCall, lpShare, lpRow>>

LpMark ==
  /\ lpSweep.at = "wiped" /\ lpSweep' = [lpSweep EXCEPT !.at = "purge", !.scores = {}, !.shares = {}]
  /\ lpScore' = [q \in LpCall |-> [lpScore[q] EXCEPT !.gone = @ \/ (lpScore[q].row /\ q \in lpSweep.scores)]]
  /\ lpRow' = lpRow \ lpSweep.shares
  /\ UNCHANGED <<lpNow, lpSeason, lpRun, lpErased, lpCall, lpProof, lpShare, lpFile>>

\* A task that throws is logged and the next one runs; or the invocation ends.
LpSweepFails ==
  /\ lpSweep.at \in {"read", "wiped"}
  /\ \E at \in {"idle", "purge"} :
       lpSweep' = [LpQuiet EXCEPT !.at = at, !.now = IF at = "idle" THEN 0 ELSE lpSweep.now]
  /\ UNCHANGED <<lpNow, lpSeason, lpTables, lpCall, lpProof, lpShareVars>>

\* database-expiry: open challenges past their time are deleted.
LpPurge ==
  /\ lpSweep.at = "purge" /\ lpSweep' = LpQuiet
  /\ lpRun' = [r \in LpRuns |-> [lpRun[r] EXCEPT !.state =
       IF @ = "open" /\ lpRun[r].by = LpNobody /\ lpRun[r].expires <= lpSweep.now THEN "purged" ELSE @]]
  /\ UNCHANGED <<lpNow, lpSeason, lpScore, lpErased, lpCall, lpProof, lpShareVars>>

-----------------------------------------------------------------------------
LpNext ==
  \/ LpTick \/ LpArchive
  \/ \E r \in LpRuns : LpBegin(r)
  \/ \E q \in LpCall, r \in LpRuns, route \in {"v1", "v2"} : LpCheck(q, r, route)
  \/ \E q \in LpCall :
       LpPut(q) \/ LpStored(q) \/ LpBatch(q) \/ LpUndone(q) \/ LpCrash(q) \/ LpReclaim(q) \/ LpErase(q)
  \/ \E s \in LpShares : LpReuse(s) \/ LpShareStored(s) \/ LpShareInserted(s) \/ \E d \in LpDays : LpPublish(s, d)
  \/ LpSweepRead \/ LpWipe \/ LpMark \/ LpSweepFails \/ LpPurge

LpSpec == LpInit /\ [][LpNext]_lpVars

-----------------------------------------------------------------------------
\* The tables keep their shape, and a run buys one score over both routes together, whoever came first: a call
\* that was answered 201 is the one the challenge names, a call that was
\* refused left no score, and the challenge a score refers to is never purged.
LpSpentOnce ==
  /\ LpTypeOK
  /\ \A q \in LpCall : lpCall[q].at = "taken" => lpRun[lpCall[q].run].by = q
  /\ \A q \in LpCall : lpScore[q].row \/ q \in lpErased =>
       lpCall[q].at \in {"taken", "dead"} /\ lpRun[lpCall[q].run] = [lpRun[lpCall[q].run] EXCEPT !.by = q, !.state = "open"]
  /\ \A r \in LpRuns : lpRun[r].by # LpNobody <=> \E q \in LpCall : lpCall[q].run = r /\ (lpScore[q].row \/ q \in lpErased)

\* What a client was told lasts as long as it was told: an unexpired share can
\* be opened, a score's proof is stored until its deadline, and the proof of a
\* score that came over the shared route is never taken by this pass.  What
\* is recorded as deleted was due and is gone, and whatever lies in R2 without a
\* row that will expire it comes from a call that died or was refused, from a
\* score an operator deleted, or from a publication that died.
LpKeepsItsWord ==
  /\ \A s \in LpShares : lpShare[s].at = "told" /\ lpShare[s].expires > lpNow => lpShare[s].is \in lpRow \cap lpFile
  /\ \A q \in LpCall : lpScore[q].row /\ (lpScore[q].expires > lpNow \/ lpScore[q].expires = Never) => q \in lpProof
  /\ \A q \in LpCall : lpScore[q].gone => q \notin lpProof /\ lpScore[q].expires <= lpNow
  /\ \A q \in lpProof : ~lpScore[q].row => lpCall[q].at \in {"stored", "refused", "dead"} \/ q \in lpErased
  /\ \A s \in lpFile \ lpRow : lpShare[s].at \in {"stored", "dead"}

\* One run buys one score, and its proof and its share last as promised.
LpSpentAndKept == LpSpentOnce /\ LpKeepsItsWord
=============================================================================
