----------------------- MODULE SharedSubmissionProofs -----------------------
(* Safety of the shared submission pipeline for every value of the constants. *)
EXTENDS SharedSubmission, FiniteSetTheorems, TLAPS

\* A placement is a number: there are finitely many requests.
LEMMA PlacementType == ASSUME NEW q PROVE Placement(q) \in Nat \ {0}
<1>1. IsFiniteSet({e \in EligibleBeside(q) : place[e] < place[q]})
  BY FS_Subset, Shape DEF EligibleBeside
<1> QED BY <1>1, FS_CardinalityType DEF Placement

\* A requeued object keeps the shape of its row.
LEMMA RequeueType ==
  ASSUME TypeOK, NEW q \in Request, Requeue(q)
  PROVE  /\ objState' \in [Request -> ObjStates]
         /\ objExpires' \in [Request -> Nat \cup {Never}]
         /\ touched' \in [Request -> Nat]
BY DEF TypeOK, Requeue, ObjStates

\* Empty tables and idle Workers have the shape they should have.
LEMMA InitType == Init => TypeOK
BY Shape DEF Init, TypeOK, Never, Working, Outcomes, ObjStates, PutStates, JobSteps

\* Every step keeps the shape of the tables.
LEMMA NextType == TypeOK /\ [Next]_vars => TypeOK'
<1> SUFFICES ASSUME TypeOK, [Next]_vars PROVE TypeOK'
  OBVIOUS
<1> USE DEF dbVars, reqVars, r2Vars, jobVars, opVars, PutStates, JobSteps
<1>1. ASSUME NEW r \in Run, NEW b \in Board, BeginRun(r, b) PROVE TypeOK'
  BY <1>1, Shape DEF TypeOK, BeginRun
<1>2. ASSUME NEW q \in Request, Submission(q) PROVE TypeOK'
  <2> USE DEF Working, Outcomes
  <2>1. ASSUME NEW r \in Run, NEW k \in Place, LoadChallenge(q, r, k) PROVE TypeOK'
    BY <2>1, Shape DEF TypeOK, LoadChallenge
  <2>2. CASE CreatePending(q)
    BY <2>2, Shape DEF TypeOK, CreatePending, RetentionDeadline, ObjStates
  <2>3. CASE PutSucceeds(q)
    BY <2>3 DEF TypeOK, PutSucceeds, Unheard
  <2>4. CASE PutFails(q)
    BY <2>4 DEF TypeOK, PutFails, Unheard
  <2>5. CASE AbandonUpload(q)
    BY <2>5, RequeueType DEF TypeOK, AbandonUpload
  <2>6. CASE RequeueLateUpload(q)
    BY <2>6, RequeueType DEF TypeOK, RequeueLateUpload
  <2>7. CASE CommitScore(q)
    <3>1. run' \in [Run -> [state : {"none", "open", "consumed", "purged"},
                           board : Board \cup {NoBoard}, expires : Nat]]
      <4>1. run' = [run EXCEPT ![asked[q]].state = "consumed"]
        BY <2>7 DEF CommitScore
      <4>2. ASSUME NEW r \in Run
            PROVE  run'[r] = IF r = asked[q] THEN [run[r] EXCEPT !.state = "consumed"]
                             ELSE run[r]
        BY <4>1 DEF TypeOK
      <4>3. ASSUME NEW r \in Run
            PROVE  run'[r] \in [state : {"none", "open", "consumed", "purged"},
                                board : Board \cup {NoBoard}, expires : Nat]
        <5>1. run[r] \in [state : {"none", "open", "consumed", "purged"},
                          board : Board \cup {NoBoard}, expires : Nat]
          BY DEF TypeOK
        <5>2. [run[r] EXCEPT !.state = "consumed"]
                \in [state : {"none", "open", "consumed", "purged"},
                     board : Board \cup {NoBoard}, expires : Nat]
          BY <5>1
        <5> QED BY <4>2, <5>1, <5>2
      <4>4. run' = [r \in Run |-> run'[r]]
        BY <4>1 DEF TypeOK
      <4> QED BY <4>3, <4>4
    <3>2. rank' \in [Request -> Nat]
      BY <2>7, PlacementType DEF TypeOK, CommitScore
    <3>3. /\ objState' \in [Request -> ObjStates]
          /\ objExpires' \in [Request -> Nat \cup {Never}]
      BY <2>7 DEF TypeOK, CommitScore, ObjStates
    <3>4. pc' \in [Request -> {"idle"} \cup Working \cup Outcomes]
      BY <2>7 DEF TypeOK, CommitScore
    <3> QED BY <2>7, <3>1, <3>2, <3>3, <3>4 DEF TypeOK, CommitScore
  <2>8. CASE RefuseScore(q)
    BY <2>8 DEF TypeOK, RefuseScore
  <2>9. CASE Respond(q)
    BY <2>9 DEF TypeOK, Respond
  <2>10. CASE Crash(q)
    BY <2>10 DEF TypeOK, Crash, Unheard
  <2> QED BY <1>2, <2>1, <2>2, <2>3, <2>4, <2>5, <2>6, <2>7, <2>8, <2>9, <2>10 DEF Submission
<1>3. ASSUME NEW q \in Request, Storage(q) PROVE TypeOK'
  BY <1>3 DEF TypeOK, Storage, PutLands, PutLost
<1>4. ASSUME NEW c \in Cleaner, Maintenance(c) PROVE TypeOK'
  <2>1. CASE StartMaintenance(c)
    BY <2>1 DEF TypeOK, StartMaintenance
  <2>2. CASE RecheckSelect(c)
    BY <2>2 DEF TypeOK, RecheckSelect, Pages, Tombstones
  <2>3. CASE RecheckDelete(c)
    BY <2>3 DEF TypeOK, RecheckDelete
  <2>4. CASE RecheckMark(c)
    BY <2>4 DEF TypeOK, RecheckMark
  <2>5. CASE RecheckFails(c)
    BY <2>5 DEF TypeOK, RecheckFails
  <2>6. CASE Claim(c)
    BY <2>6 DEF TypeOK, Claim, Pages, Due, ObjStates
  <2>7. CASE DeleteClaimed(c)
    BY <2>7 DEF TypeOK, DeleteClaimed
  <2>8. CASE MarkDeleted(c)
    BY <2>8 DEF TypeOK, MarkDeleted, ObjStates
  <2>9. CASE CleanupFails(c)
    BY <2>9 DEF TypeOK, CleanupFails
  <2>10. CASE ExpireRuns(c)
    BY <2>10 DEF TypeOK, ExpireRuns
  <2>11. CASE MaintenanceCut(c)
    BY <2>11 DEF TypeOK, MaintenanceCut
  <2> QED BY <1>4, <2>1, <2>2, <2>3, <2>4, <2>5, <2>6, <2>7, <2>8, <2>9, <2>10, <2>11
          DEF Maintenance
<1>5. CASE Operator
  <2>1. CASE CloseSeason
    BY <2>1 DEF TypeOK, CloseSeason
  <2>2. ASSUME NEW b \in Board, HideBoard(b) PROVE TypeOK'
    BY <2>2 DEF TypeOK, HideBoard
  <2>3. ASSUME NEW q \in Request, HideEntry(q) PROVE TypeOK'
    BY <2>3 DEF TypeOK, HideEntry
  <2>4. ASSUME NEW q \in Request, DeleteEntry(q) PROVE TypeOK'
    BY <2>4 DEF TypeOK, DeleteEntry, ObjStates
  <2> QED BY <1>5, <2>1, <2>2, <2>3, <2>4 DEF Operator
<1>6. CASE Tick
  BY <1>6 DEF TypeOK, Tick
<1>7. CASE UNCHANGED vars
  BY <1>7 DEF TypeOK, vars
<1> QED BY <1>1, <1>2, <1>3, <1>4, <1>5, <1>6, <1>7 DEF Next

\* Every table keeps its shape, whatever interleaves.
THEOREM TypeCorrect == Spec => []TypeOK
<1>1. Init => TypeOK
  BY InitType
<1>2. TypeOK /\ [Next]_vars => TypeOK'
  BY NextType
<1> QED BY <1>1, <1>2, PTL DEF Spec

-----------------------------------------------------------------------------
(* The parts of the invariant, each preserved by every step.                *)

\* Requests leave no trace before they record their pending object.
LEMMA UntouchedStep == IInv /\ TypeOK' /\ [Next]_vars => Untouched'
<1> SUFFICES ASSUME IInv, TypeOK', [Next]_vars PROVE Untouched'
  OBVIOUS
<1> USE DEF IInv, TypeOK, Untouched, ArchiveBacked, ObjStates, dbVars, reqVars, r2Vars, jobVars, opVars
<1>1. ASSUME NEW r \in Run, NEW b \in Board, BeginRun(r, b) PROVE Untouched'
  BY <1>1 DEF BeginRun
<1>2. ASSUME NEW q \in Request, Submission(q) PROVE Untouched'
  <2>1. ASSUME NEW r \in Run, NEW k \in Place, LoadChallenge(q, r, k) PROVE Untouched'
    BY <2>1 DEF LoadChallenge, Working, Outcomes
  <2>2. CASE CreatePending(q)
    BY <2>2 DEF CreatePending, RetentionDeadline
  <2>3. CASE PutSucceeds(q)
    BY <2>3 DEF PutSucceeds, Unheard
  <2>4. CASE PutFails(q)
    BY <2>4 DEF PutFails, Unheard
  <2>5. CASE AbandonUpload(q)
    BY <2>5 DEF AbandonUpload, Requeue
  <2>6. CASE RequeueLateUpload(q)
    BY <2>6 DEF RequeueLateUpload, Requeue
  <2>7. CASE CommitScore(q)
    BY <2>7 DEF CommitScore, Consumes, Finalizable, KeepsArchive, EmitsEvent
  <2>8. CASE RefuseScore(q)
    BY <2>8 DEF RefuseScore
  <2>9. CASE Respond(q)
    BY <2>9 DEF Respond
  <2>10. CASE Crash(q)
    BY <2>10 DEF Crash, Unheard, Working
  <2> QED BY <1>2, <2>1, <2>2, <2>3, <2>4, <2>5, <2>6, <2>7, <2>8, <2>9, <2>10 DEF Submission
<1>3. ASSUME NEW q \in Request, Storage(q) PROVE Untouched'
  <2>1. CASE PutLands(q)
    BY <2>1 DEF PutLands
  <2>2. CASE PutLost(q)
    BY <2>2 DEF PutLost
  <2> QED BY <1>3, <2>1, <2>2 DEF Storage
<1>4. ASSUME NEW c \in Cleaner, Maintenance(c) PROVE Untouched'
  <2>1. CASE StartMaintenance(c)
    BY <2>1 DEF StartMaintenance
  <2>2. CASE RecheckSelect(c)
    BY <2>2 DEF RecheckSelect, Pages, Tombstones
  <2>3. CASE RecheckDelete(c)
    BY <2>3 DEF RecheckDelete
  <2>4. CASE RecheckMark(c)
    BY <2>4 DEF RecheckMark
  <2>5. CASE RecheckFails(c)
    BY <2>5 DEF RecheckFails
  <2>6. CASE Claim(c)
    BY <2>6 DEF Claim, Pages, Due
  <2>7. CASE DeleteClaimed(c)
    BY <2>7 DEF DeleteClaimed
  <2>8. CASE MarkDeleted(c)
    BY <2>8 DEF MarkDeleted
  <2>9. CASE CleanupFails(c)
    BY <2>9 DEF CleanupFails
  <2>10. CASE ExpireRuns(c)
    BY <2>10 DEF ExpireRuns
  <2>11. CASE MaintenanceCut(c)
    BY <2>11 DEF MaintenanceCut
  <2> QED BY <1>4, <2>1, <2>2, <2>3, <2>4, <2>5, <2>6, <2>7, <2>8, <2>9, <2>10, <2>11 DEF Maintenance
<1>5. CASE Operator
  <2>1. CASE CloseSeason
    BY <2>1 DEF CloseSeason
  <2>2. ASSUME NEW b \in Board, HideBoard(b) PROVE Untouched'
    BY <2>2 DEF HideBoard
  <2>3. ASSUME NEW q \in Request, HideEntry(q) PROVE Untouched'
    BY <2>3 DEF HideEntry
  <2>4. ASSUME NEW q \in Request, DeleteEntry(q) PROVE Untouched'
    BY <2>4 DEF DeleteEntry
  <2> QED BY <1>5, <2>1, <2>2, <2>3, <2>4 DEF Operator
<1>6. CASE Tick
  BY <1>6 DEF Tick
<1>7. CASE UNCHANGED vars
  BY <1>7 DEF vars
<1> QED BY <1>1, <1>2, <1>3, <1>4, <1>5, <1>6, <1>7 DEF Next

\* Only the commit writes the ledger, and it writes both sides.
LEMMA LedgerLinkedStep == IInv /\ TypeOK' /\ [Next]_vars => LedgerLinked'
<1> SUFFICES ASSUME IInv, TypeOK', [Next]_vars PROVE LedgerLinked'
  OBVIOUS
<1> USE DEF IInv, TypeOK, LedgerLinked, EntryAfterCommit, Untouched, Standing, dbVars, reqVars, r2Vars, jobVars, opVars
<1>1. ASSUME NEW r \in Run, NEW b \in Board, BeginRun(r, b) PROVE LedgerLinked'
  BY <1>1 DEF BeginRun
<1>2. ASSUME NEW q \in Request, Submission(q) PROVE LedgerLinked'
  <2>1. ASSUME NEW r \in Run, NEW k \in Place, LoadChallenge(q, r, k) PROVE LedgerLinked'
    BY <2>1 DEF LoadChallenge, Working, Outcomes
  <2>2. CASE CreatePending(q)
    BY <2>2 DEF CreatePending, RetentionDeadline
  <2>3. CASE PutSucceeds(q)
    BY <2>3 DEF PutSucceeds, Unheard
  <2>4. CASE PutFails(q)
    BY <2>4 DEF PutFails, Unheard
  <2>5. CASE AbandonUpload(q)
    BY <2>5 DEF AbandonUpload, Requeue
  <2>6. CASE RequeueLateUpload(q)
    BY <2>6 DEF RequeueLateUpload, Requeue
  <2>7. CASE CommitScore(q)
    <3>1. /\ asked[q] \in Run /\ consumedBy[asked[q]] = NoRequest /\ entry[q] = "none"
          /\ consumedBy' = [consumedBy EXCEPT ![asked[q]] = q]
          /\ entry' = [entry EXCEPT ![q] = "eligible"]
          /\ asked' = asked
      BY <2>7 DEF CommitScore, Consumes
    <3>2. ASSUME NEW r \in Run, consumedBy'[r] # NoRequest
          PROVE  asked'[consumedBy'[r]] = r /\ entry'[consumedBy'[r]] # "none"
      <4>1. CASE r = asked[q]
        BY <3>1, <4>1
      <4>2. CASE r # asked[q]
        BY <3>1, <3>2, <4>2
      <4> QED BY <4>1, <4>2
    <3>3. ASSUME NEW p \in Request, entry'[p] # "none"
          PROVE  asked'[p] \in Run /\ consumedBy'[asked'[p]] = p
      <4>1. CASE p = q
        BY <3>1, <4>1
      <4>2. CASE p # q
        <5>1. entry[p] # "none" /\ consumedBy[asked[p]] = p
          BY <3>1, <3>3, <4>2
        <5> QED BY <3>1, <4>2, <5>1, Shape
      <4> QED BY <4>1, <4>2
    <3> QED BY <3>2, <3>3
  <2>8. CASE RefuseScore(q)
    BY <2>8 DEF RefuseScore
  <2>9. CASE Respond(q)
    BY <2>9 DEF Respond
  <2>10. CASE Crash(q)
    BY <2>10 DEF Crash, Unheard, Working
  <2> QED BY <1>2, <2>1, <2>2, <2>3, <2>4, <2>5, <2>6, <2>7, <2>8, <2>9, <2>10 DEF Submission
<1>3. ASSUME NEW q \in Request, Storage(q) PROVE LedgerLinked'
  <2>1. CASE PutLands(q)
    BY <2>1 DEF PutLands
  <2>2. CASE PutLost(q)
    BY <2>2 DEF PutLost
  <2> QED BY <1>3, <2>1, <2>2 DEF Storage
<1>4. ASSUME NEW c \in Cleaner, Maintenance(c) PROVE LedgerLinked'
  <2>1. CASE StartMaintenance(c)
    BY <2>1 DEF StartMaintenance
  <2>2. CASE RecheckSelect(c)
    BY <2>2 DEF RecheckSelect, Pages, Tombstones
  <2>3. CASE RecheckDelete(c)
    BY <2>3 DEF RecheckDelete
  <2>4. CASE RecheckMark(c)
    BY <2>4 DEF RecheckMark
  <2>5. CASE RecheckFails(c)
    BY <2>5 DEF RecheckFails
  <2>6. CASE Claim(c)
    BY <2>6 DEF Claim, Pages, Due
  <2>7. CASE DeleteClaimed(c)
    BY <2>7 DEF DeleteClaimed
  <2>8. CASE MarkDeleted(c)
    BY <2>8 DEF MarkDeleted
  <2>9. CASE CleanupFails(c)
    BY <2>9 DEF CleanupFails
  <2>10. CASE ExpireRuns(c)
    BY <2>10 DEF ExpireRuns
  <2>11. CASE MaintenanceCut(c)
    BY <2>11 DEF MaintenanceCut
  <2> QED BY <1>4, <2>1, <2>2, <2>3, <2>4, <2>5, <2>6, <2>7, <2>8, <2>9, <2>10, <2>11 DEF Maintenance
<1>5. CASE Operator
  <2>1. CASE CloseSeason
    BY <2>1 DEF CloseSeason
  <2>2. ASSUME NEW b \in Board, HideBoard(b) PROVE LedgerLinked'
    BY <2>2 DEF HideBoard
  <2>3. ASSUME NEW q \in Request, HideEntry(q) PROVE LedgerLinked'
    BY <2>3 DEF HideEntry
  <2>4. ASSUME NEW q \in Request, DeleteEntry(q) PROVE LedgerLinked'
    BY <2>4 DEF DeleteEntry
  <2> QED BY <1>5, <2>1, <2>2, <2>3, <2>4 DEF Operator
<1>6. CASE Tick
  BY <1>6 DEF Tick
<1>7. CASE UNCHANGED vars
  BY <1>7 DEF vars
<1> QED BY <1>1, <1>2, <1>3, <1>4, <1>5, <1>6, <1>7 DEF Next

\* Entries appear at the commit and events only with them.
LEMMA EntryAfterCommitStep == IInv /\ TypeOK' /\ [Next]_vars => EntryAfterCommit'
<1> SUFFICES ASSUME IInv, TypeOK', [Next]_vars PROVE EntryAfterCommit'
  OBVIOUS
<1> USE DEF IInv, TypeOK, EntryAfterCommit, Standing, dbVars, reqVars, r2Vars, jobVars, opVars
<1>1. ASSUME NEW r \in Run, NEW b \in Board, BeginRun(r, b) PROVE EntryAfterCommit'
  BY <1>1 DEF BeginRun
<1>2. ASSUME NEW q \in Request, Submission(q) PROVE EntryAfterCommit'
  <2>1. ASSUME NEW r \in Run, NEW k \in Place, LoadChallenge(q, r, k) PROVE EntryAfterCommit'
    BY <2>1 DEF LoadChallenge, Working, Outcomes
  <2>2. CASE CreatePending(q)
    BY <2>2 DEF CreatePending, RetentionDeadline
  <2>3. CASE PutSucceeds(q)
    BY <2>3 DEF PutSucceeds, Unheard
  <2>4. CASE PutFails(q)
    BY <2>4 DEF PutFails, Unheard
  <2>5. CASE AbandonUpload(q)
    BY <2>5 DEF AbandonUpload, Requeue
  <2>6. CASE RequeueLateUpload(q)
    BY <2>6 DEF RequeueLateUpload, Requeue
  <2>7. CASE CommitScore(q)
    BY <2>7 DEF CommitScore, Consumes, Finalizable, KeepsArchive, EmitsEvent
  <2>8. CASE RefuseScore(q)
    BY <2>8 DEF RefuseScore
  <2>9. CASE Respond(q)
    BY <2>9 DEF Respond
  <2>10. CASE Crash(q)
    BY <2>10 DEF Crash, Unheard, Working
  <2> QED BY <1>2, <2>1, <2>2, <2>3, <2>4, <2>5, <2>6, <2>7, <2>8, <2>9, <2>10 DEF Submission
<1>3. ASSUME NEW q \in Request, Storage(q) PROVE EntryAfterCommit'
  <2>1. CASE PutLands(q)
    BY <2>1 DEF PutLands
  <2>2. CASE PutLost(q)
    BY <2>2 DEF PutLost
  <2> QED BY <1>3, <2>1, <2>2 DEF Storage
<1>4. ASSUME NEW c \in Cleaner, Maintenance(c) PROVE EntryAfterCommit'
  <2>1. CASE StartMaintenance(c)
    BY <2>1 DEF StartMaintenance
  <2>2. CASE RecheckSelect(c)
    BY <2>2 DEF RecheckSelect, Pages, Tombstones
  <2>3. CASE RecheckDelete(c)
    BY <2>3 DEF RecheckDelete
  <2>4. CASE RecheckMark(c)
    BY <2>4 DEF RecheckMark
  <2>5. CASE RecheckFails(c)
    BY <2>5 DEF RecheckFails
  <2>6. CASE Claim(c)
    BY <2>6 DEF Claim, Pages, Due
  <2>7. CASE DeleteClaimed(c)
    BY <2>7 DEF DeleteClaimed
  <2>8. CASE MarkDeleted(c)
    BY <2>8 DEF MarkDeleted
  <2>9. CASE CleanupFails(c)
    BY <2>9 DEF CleanupFails
  <2>10. CASE ExpireRuns(c)
    BY <2>10 DEF ExpireRuns
  <2>11. CASE MaintenanceCut(c)
    BY <2>11 DEF MaintenanceCut
  <2> QED BY <1>4, <2>1, <2>2, <2>3, <2>4, <2>5, <2>6, <2>7, <2>8, <2>9, <2>10, <2>11 DEF Maintenance
<1>5. CASE Operator
  <2>1. CASE CloseSeason
    BY <2>1 DEF CloseSeason
  <2>2. ASSUME NEW b \in Board, HideBoard(b) PROVE EntryAfterCommit'
    BY <2>2 DEF HideBoard
  <2>3. ASSUME NEW q \in Request, HideEntry(q) PROVE EntryAfterCommit'
    BY <2>3 DEF HideEntry
  <2>4. ASSUME NEW q \in Request, DeleteEntry(q) PROVE EntryAfterCommit'
    BY <2>4 DEF DeleteEntry
  <2> QED BY <1>5, <2>1, <2>2, <2>3, <2>4 DEF Operator
<1>6. CASE Tick
  BY <1>6 DEF Tick
<1>7. CASE UNCHANGED vars
  BY <1>7 DEF vars
<1> QED BY <1>1, <1>2, <1>3, <1>4, <1>5, <1>6, <1>7 DEF Next

\* Bytes are there before an object is ready and go only after it lapsed.
LEMMA ArchiveBackedStep == IInv /\ TypeOK' /\ [Next]_vars => ArchiveBacked'
<1> SUFFICES ASSUME IInv, TypeOK', [Next]_vars PROVE ArchiveBacked'
  OBVIOUS
<1> USE DEF IInv, TypeOK, ArchiveBacked, EntryAfterCommit, Untouched, Standing, Lapsed, JobsSound, PagesStayClaimed, ObjStates, Never, dbVars, reqVars, r2Vars, jobVars, opVars
<1>1. ASSUME NEW r \in Run, NEW b \in Board, BeginRun(r, b) PROVE ArchiveBacked'
  BY <1>1 DEF BeginRun
<1>2. ASSUME NEW q \in Request, Submission(q) PROVE ArchiveBacked'
  <2>1. ASSUME NEW r \in Run, NEW k \in Place, LoadChallenge(q, r, k) PROVE ArchiveBacked'
    BY <2>1 DEF LoadChallenge, Working, Outcomes
  <2>2. CASE CreatePending(q)
    BY <2>2, Shape DEF CreatePending, RetentionDeadline
  <2>3. CASE PutSucceeds(q)
    BY <2>3 DEF PutSucceeds, Unheard
  <2>4. CASE PutFails(q)
    BY <2>4 DEF PutFails, Unheard
  <2>5. CASE AbandonUpload(q)
    BY <2>5 DEF AbandonUpload, Requeue
  <2>6. CASE RequeueLateUpload(q)
    BY <2>6 DEF RequeueLateUpload, Requeue
  <2>7. CASE CommitScore(q)
    BY <2>7 DEF CommitScore, Consumes, Finalizable, KeepsArchive, EmitsEvent
  <2>8. CASE RefuseScore(q)
    BY <2>8 DEF RefuseScore
  <2>9. CASE Respond(q)
    BY <2>9 DEF Respond
  <2>10. CASE Crash(q)
    BY <2>10 DEF Crash, Unheard, Working
  <2> QED BY <1>2, <2>1, <2>2, <2>3, <2>4, <2>5, <2>6, <2>7, <2>8, <2>9, <2>10 DEF Submission
<1>3. ASSUME NEW q \in Request, Storage(q) PROVE ArchiveBacked'
  <2>1. CASE PutLands(q)
    BY <2>1 DEF PutLands
  <2>2. CASE PutLost(q)
    BY <2>2 DEF PutLost
  <2> QED BY <1>3, <2>1, <2>2 DEF Storage
<1>4. ASSUME NEW c \in Cleaner, Maintenance(c) PROVE ArchiveBacked'
  <2>1. CASE StartMaintenance(c)
    BY <2>1 DEF StartMaintenance
  <2>2. CASE RecheckSelect(c)
    BY <2>2 DEF RecheckSelect, Pages, Tombstones
  <2>3. CASE RecheckDelete(c)
    BY <2>3 DEF RecheckDelete
  <2>4. CASE RecheckMark(c)
    BY <2>4 DEF RecheckMark
  <2>5. CASE RecheckFails(c)
    BY <2>5 DEF RecheckFails
  <2>6. CASE Claim(c)
    BY <2>6 DEF Claim, Pages, Due
  <2>7. CASE DeleteClaimed(c)
    BY <2>7 DEF DeleteClaimed
  <2>8. CASE MarkDeleted(c)
    BY <2>8 DEF MarkDeleted
  <2>9. CASE CleanupFails(c)
    BY <2>9 DEF CleanupFails
  <2>10. CASE ExpireRuns(c)
    BY <2>10 DEF ExpireRuns
  <2>11. CASE MaintenanceCut(c)
    BY <2>11 DEF MaintenanceCut
  <2> QED BY <1>4, <2>1, <2>2, <2>3, <2>4, <2>5, <2>6, <2>7, <2>8, <2>9, <2>10, <2>11 DEF Maintenance
<1>5. CASE Operator
  <2>1. CASE CloseSeason
    BY <2>1 DEF CloseSeason
  <2>2. ASSUME NEW b \in Board, HideBoard(b) PROVE ArchiveBacked'
    BY <2>2 DEF HideBoard
  <2>3. ASSUME NEW q \in Request, HideEntry(q) PROVE ArchiveBacked'
    BY <2>3 DEF HideEntry
  <2>4. ASSUME NEW q \in Request, DeleteEntry(q) PROVE ArchiveBacked'
    BY <2>4 DEF DeleteEntry
  <2> QED BY <1>5, <2>1, <2>2, <2>3, <2>4 DEF Operator
<1>6. CASE Tick
  BY <1>6 DEF Tick
<1>7. CASE UNCHANGED vars
  BY <1>7 DEF vars
<1> QED BY <1>1, <1>2, <1>3, <1>4, <1>5, <1>6, <1>7 DEF Next

\* Claimed rows and tombstones never come back to life under a page.
LEMMA JobsSoundStep == IInv /\ TypeOK' /\ [Next]_vars => JobsSound'
<1> SUFFICES ASSUME IInv, TypeOK', [Next]_vars PROVE JobsSound'
  OBVIOUS
<1> USE DEF IInv, TypeOK, JobsSound, PagesStayClaimed, Untouched, ObjStates, JobSteps, dbVars, reqVars, r2Vars, jobVars, opVars
<1>1. ASSUME NEW r \in Run, NEW b \in Board, BeginRun(r, b) PROVE JobsSound'
  BY <1>1 DEF BeginRun
<1>2. ASSUME NEW q \in Request, Submission(q) PROVE JobsSound'
  <2>1. ASSUME NEW r \in Run, NEW k \in Place, LoadChallenge(q, r, k) PROVE JobsSound'
    BY <2>1 DEF LoadChallenge, Working, Outcomes
  <2>2. CASE CreatePending(q)
    BY <2>2 DEF CreatePending, RetentionDeadline
  <2>3. CASE PutSucceeds(q)
    BY <2>3 DEF PutSucceeds, Unheard
  <2>4. CASE PutFails(q)
    BY <2>4 DEF PutFails, Unheard
  <2>5. CASE AbandonUpload(q)
    BY <2>5 DEF AbandonUpload, Requeue
  <2>6. CASE RequeueLateUpload(q)
    BY <2>6 DEF RequeueLateUpload, Requeue
  <2>7. CASE CommitScore(q)
    BY <2>7 DEF CommitScore, Consumes, Finalizable, KeepsArchive, EmitsEvent
  <2>8. CASE RefuseScore(q)
    BY <2>8 DEF RefuseScore
  <2>9. CASE Respond(q)
    BY <2>9 DEF Respond
  <2>10. CASE Crash(q)
    BY <2>10 DEF Crash, Unheard, Working
  <2> QED BY <1>2, <2>1, <2>2, <2>3, <2>4, <2>5, <2>6, <2>7, <2>8, <2>9, <2>10 DEF Submission
<1>3. ASSUME NEW q \in Request, Storage(q) PROVE JobsSound'
  <2>1. CASE PutLands(q)
    BY <2>1 DEF PutLands
  <2>2. CASE PutLost(q)
    BY <2>2 DEF PutLost
  <2> QED BY <1>3, <2>1, <2>2 DEF Storage
<1>4. ASSUME NEW c \in Cleaner, Maintenance(c) PROVE JobsSound'
  <2>1. CASE StartMaintenance(c)
    BY <2>1 DEF StartMaintenance
  <2>2. CASE RecheckSelect(c)
    BY <2>2 DEF RecheckSelect, Pages, Tombstones
  <2>3. CASE RecheckDelete(c)
    BY <2>3 DEF RecheckDelete
  <2>4. CASE RecheckMark(c)
    BY <2>4 DEF RecheckMark
  <2>5. CASE RecheckFails(c)
    BY <2>5 DEF RecheckFails
  <2>6. CASE Claim(c)
    BY <2>6 DEF Claim, Pages, Due
  <2>7. CASE DeleteClaimed(c)
    BY <2>7 DEF DeleteClaimed
  <2>8. CASE MarkDeleted(c)
    BY <2>8 DEF MarkDeleted
  <2>9. CASE CleanupFails(c)
    BY <2>9 DEF CleanupFails
  <2>10. CASE ExpireRuns(c)
    BY <2>10 DEF ExpireRuns
  <2>11. CASE MaintenanceCut(c)
    BY <2>11 DEF MaintenanceCut
  <2> QED BY <1>4, <2>1, <2>2, <2>3, <2>4, <2>5, <2>6, <2>7, <2>8, <2>9, <2>10, <2>11 DEF Maintenance
<1>5. CASE Operator
  <2>1. CASE CloseSeason
    BY <2>1 DEF CloseSeason
  <2>2. ASSUME NEW b \in Board, HideBoard(b) PROVE JobsSound'
    BY <2>2 DEF HideBoard
  <2>3. ASSUME NEW q \in Request, HideEntry(q) PROVE JobsSound'
    BY <2>3 DEF HideEntry
  <2>4. ASSUME NEW q \in Request, DeleteEntry(q) PROVE JobsSound'
    BY <2>4 DEF DeleteEntry
  <2> QED BY <1>5, <2>1, <2>2, <2>3, <2>4 DEF Operator
<1>6. CASE Tick
  BY <1>6 DEF Tick
<1>7. CASE UNCHANGED vars
  BY <1>7 DEF vars
<1> QED BY <1>1, <1>2, <1>3, <1>4, <1>5, <1>6, <1>7 DEF Next

\* The publication, the object's deadline and the event are written together.
LEMMA QualificationConsistentStep == IInv /\ TypeOK' /\ [Next]_vars => QualificationConsistent'
<1> SUFFICES ASSUME IInv, TypeOK', [Next]_vars PROVE QualificationConsistent'
  OBVIOUS
<1> USE DEF IInv, TypeOK, QualificationConsistent, EntryAfterCommit, ArchiveBacked, Standing, Qualified, Never, Lapsed, dbVars, reqVars, r2Vars, jobVars, opVars
<1>1. ASSUME NEW r \in Run, NEW b \in Board, BeginRun(r, b) PROVE QualificationConsistent'
  BY <1>1 DEF BeginRun
<1>2. ASSUME NEW q \in Request, Submission(q) PROVE QualificationConsistent'
  <2>1. ASSUME NEW r \in Run, NEW k \in Place, LoadChallenge(q, r, k) PROVE QualificationConsistent'
    BY <2>1 DEF LoadChallenge, Working, Outcomes
  <2>2. CASE CreatePending(q)
    BY <2>2 DEF CreatePending, RetentionDeadline
  <2>3. CASE PutSucceeds(q)
    BY <2>3 DEF PutSucceeds, Unheard
  <2>4. CASE PutFails(q)
    BY <2>4 DEF PutFails, Unheard
  <2>5. CASE AbandonUpload(q)
    BY <2>5 DEF AbandonUpload, Requeue
  <2>6. CASE RequeueLateUpload(q)
    BY <2>6 DEF RequeueLateUpload, Requeue
  <2>7. CASE CommitScore(q)
    <3>1. /\ rank' = [rank EXCEPT ![q] = Placement(q)] /\ Placement(q) \in Nat \ {0}
          /\ entry' = [entry EXCEPT ![q] = "eligible"]
          /\ events' = IF Placement(q) <= TopN THEN events \cup {q} ELSE events
          /\ objExpires' = [objExpires EXCEPT ![q] = IF Placement(q) <= TopN THEN Never ELSE @]
          /\ objExpires[q] # Never /\ q \notin events
      BY <2>7, PlacementType DEF CommitScore, Finalizable, KeepsArchive, EmitsEvent
    <3>2. ASSUME NEW p \in Request, p # q, Standing(p)'
          PROVE  /\ (Qualified(p) <=> objExpires[p] = Never)'
                 /\ (Qualified(p) <=> p \in events)'
      BY <3>1, <3>2
    <3>3. /\ (Qualified(q) <=> objExpires[q] = Never)'
          /\ (Qualified(q) <=> q \in events)'
      BY <3>1, Shape
    <3> QED BY <3>2, <3>3
  <2>8. CASE RefuseScore(q)
    BY <2>8 DEF RefuseScore
  <2>9. CASE Respond(q)
    BY <2>9 DEF Respond
  <2>10. CASE Crash(q)
    BY <2>10 DEF Crash, Unheard, Working
  <2> QED BY <1>2, <2>1, <2>2, <2>3, <2>4, <2>5, <2>6, <2>7, <2>8, <2>9, <2>10 DEF Submission
<1>3. ASSUME NEW q \in Request, Storage(q) PROVE QualificationConsistent'
  <2>1. CASE PutLands(q)
    BY <2>1 DEF PutLands
  <2>2. CASE PutLost(q)
    BY <2>2 DEF PutLost
  <2> QED BY <1>3, <2>1, <2>2 DEF Storage
<1>4. ASSUME NEW c \in Cleaner, Maintenance(c) PROVE QualificationConsistent'
  <2>1. CASE StartMaintenance(c)
    BY <2>1 DEF StartMaintenance
  <2>2. CASE RecheckSelect(c)
    BY <2>2 DEF RecheckSelect, Pages, Tombstones
  <2>3. CASE RecheckDelete(c)
    BY <2>3 DEF RecheckDelete
  <2>4. CASE RecheckMark(c)
    BY <2>4 DEF RecheckMark
  <2>5. CASE RecheckFails(c)
    BY <2>5 DEF RecheckFails
  <2>6. CASE Claim(c)
    BY <2>6 DEF Claim, Pages, Due
  <2>7. CASE DeleteClaimed(c)
    BY <2>7 DEF DeleteClaimed
  <2>8. CASE MarkDeleted(c)
    BY <2>8 DEF MarkDeleted
  <2>9. CASE CleanupFails(c)
    BY <2>9 DEF CleanupFails
  <2>10. CASE ExpireRuns(c)
    BY <2>10 DEF ExpireRuns
  <2>11. CASE MaintenanceCut(c)
    BY <2>11 DEF MaintenanceCut
  <2> QED BY <1>4, <2>1, <2>2, <2>3, <2>4, <2>5, <2>6, <2>7, <2>8, <2>9, <2>10, <2>11 DEF Maintenance
<1>5. CASE Operator
  <2>1. CASE CloseSeason
    BY <2>1 DEF CloseSeason
  <2>2. ASSUME NEW b \in Board, HideBoard(b) PROVE QualificationConsistent'
    BY <2>2 DEF HideBoard
  <2>3. ASSUME NEW q \in Request, HideEntry(q) PROVE QualificationConsistent'
    BY <2>3 DEF HideEntry
  <2>4. ASSUME NEW q \in Request, DeleteEntry(q) PROVE QualificationConsistent'
    BY <2>4 DEF DeleteEntry
  <2> QED BY <1>5, <2>1, <2>2, <2>3, <2>4 DEF Operator
<1>6. CASE Tick
  BY <1>6 DEF Tick
<1>7. CASE UNCHANGED vars
  BY <1>7 DEF vars
<1> QED BY <1>1, <1>2, <1>3, <1>4, <1>5, <1>6, <1>7 DEF Next

\* Deadlines are fixed relative to the challenge's.
LEMMA DeadlinesOrderedStep == IInv /\ TypeOK' /\ [Next]_vars => DeadlinesOrdered'
<1> SUFFICES ASSUME IInv, TypeOK', [Next]_vars PROVE DeadlinesOrdered'
  OBVIOUS
<1> USE DEF IInv, TypeOK, DeadlinesOrdered, Untouched, EntryAfterCommit, Lapsed, Never, JobsSound, Standing, dbVars, reqVars, r2Vars, jobVars, opVars
<1>1. ASSUME NEW r \in Run, NEW b \in Board, BeginRun(r, b) PROVE DeadlinesOrdered'
  BY <1>1, Shape DEF BeginRun
<1>2. ASSUME NEW q \in Request, Submission(q) PROVE DeadlinesOrdered'
  <2>1. ASSUME NEW r \in Run, NEW k \in Place, LoadChallenge(q, r, k) PROVE DeadlinesOrdered'
    BY <2>1 DEF LoadChallenge, Working, Outcomes
  <2>2. CASE CreatePending(q)
    BY <2>2, Shape DEF CreatePending, RetentionDeadline
  <2>3. CASE PutSucceeds(q)
    BY <2>3 DEF PutSucceeds, Unheard
  <2>4. CASE PutFails(q)
    BY <2>4 DEF PutFails, Unheard
  <2>5. CASE AbandonUpload(q)
    BY <2>5 DEF AbandonUpload, Requeue
  <2>6. CASE RequeueLateUpload(q)
    BY <2>6 DEF RequeueLateUpload, Requeue
  <2>7. CASE CommitScore(q)
    BY <2>7 DEF CommitScore, Consumes, Finalizable, KeepsArchive, EmitsEvent
  <2>8. CASE RefuseScore(q)
    BY <2>8 DEF RefuseScore
  <2>9. CASE Respond(q)
    BY <2>9 DEF Respond
  <2>10. CASE Crash(q)
    BY <2>10 DEF Crash, Unheard, Working
  <2> QED BY <1>2, <2>1, <2>2, <2>3, <2>4, <2>5, <2>6, <2>7, <2>8, <2>9, <2>10 DEF Submission
<1>3. ASSUME NEW q \in Request, Storage(q) PROVE DeadlinesOrdered'
  <2>1. CASE PutLands(q)
    BY <2>1 DEF PutLands
  <2>2. CASE PutLost(q)
    BY <2>2 DEF PutLost
  <2> QED BY <1>3, <2>1, <2>2 DEF Storage
<1>4. ASSUME NEW c \in Cleaner, Maintenance(c) PROVE DeadlinesOrdered'
  <2>1. CASE StartMaintenance(c)
    BY <2>1 DEF StartMaintenance
  <2>2. CASE RecheckSelect(c)
    BY <2>2 DEF RecheckSelect, Pages, Tombstones
  <2>3. CASE RecheckDelete(c)
    BY <2>3 DEF RecheckDelete
  <2>4. CASE RecheckMark(c)
    BY <2>4 DEF RecheckMark
  <2>5. CASE RecheckFails(c)
    BY <2>5 DEF RecheckFails
  <2>6. CASE Claim(c)
    BY <2>6 DEF Claim, Pages, Due
  <2>7. CASE DeleteClaimed(c)
    BY <2>7 DEF DeleteClaimed
  <2>8. CASE MarkDeleted(c)
    BY <2>8 DEF MarkDeleted
  <2>9. CASE CleanupFails(c)
    BY <2>9 DEF CleanupFails
  <2>10. CASE ExpireRuns(c)
    BY <2>10 DEF ExpireRuns
  <2>11. CASE MaintenanceCut(c)
    BY <2>11 DEF MaintenanceCut
  <2> QED BY <1>4, <2>1, <2>2, <2>3, <2>4, <2>5, <2>6, <2>7, <2>8, <2>9, <2>10, <2>11 DEF Maintenance
<1>5. CASE Operator
  <2>1. CASE CloseSeason
    BY <2>1 DEF CloseSeason
  <2>2. ASSUME NEW b \in Board, HideBoard(b) PROVE DeadlinesOrdered'
    BY <2>2 DEF HideBoard
  <2>3. ASSUME NEW q \in Request, HideEntry(q) PROVE DeadlinesOrdered'
    BY <2>3 DEF HideEntry
  <2>4. ASSUME NEW q \in Request, DeleteEntry(q) PROVE DeadlinesOrdered'
    BY <2>4 DEF DeleteEntry
  <2> QED BY <1>5, <2>1, <2>2, <2>3, <2>4 DEF Operator
<1>6. CASE Tick
  BY <1>6, Shape DEF Tick
<1>7. CASE UNCHANGED vars
  BY <1>7 DEF vars
<1> QED BY <1>1, <1>2, <1>3, <1>4, <1>5, <1>6, <1>7 DEF Next

-----------------------------------------------------------------------------
(* The invariant and what follows from it.                                 *)

\* Before anything has happened the invariant holds.
LEMMA InitIInv == Init => IInv
<1> SUFFICES ASSUME Init PROVE IInv
  OBVIOUS
<1>1. TypeOK
  BY InitType
<1>2. Untouched /\ LedgerLinked /\ EntryAfterCommit
  BY Shape DEF Init, Untouched, LedgerLinked, EntryAfterCommit
<1>3. ArchiveBacked /\ QualificationConsistent
  BY DEF Init, ArchiveBacked, QualificationConsistent, Standing
<1>4. JobsSound /\ DeadlinesOrdered
  BY Shape DEF Init, JobsSound, PagesStayClaimed, DeadlinesOrdered
<1> QED BY <1>1, <1>2, <1>3, <1>4 DEF IInv

\* Every step keeps the invariant, conjunct by conjunct.
LEMMA NextIInv == IInv /\ [Next]_vars => IInv'
<1> SUFFICES ASSUME IInv, [Next]_vars PROVE IInv'
  OBVIOUS
<1>1. TypeOK'
  BY NextType DEF IInv
<1> QED BY <1>1, UntouchedStep, LedgerLinkedStep, EntryAfterCommitStep, ArchiveBackedStep,
           JobsSoundStep, QualificationConsistentStep, DeadlinesOrderedStep DEF IInv

\* The inductive invariant holds throughout.
THEOREM Invariance == Spec => []IInv
<1> QED BY InitIInv, NextIInv, PTL DEF Spec

\* No interleaving of retries, crashes and removals gives a run two entries.
THEOREM OneEntryPerRunHolds == Spec => []OneEntryPerRun
<1>1. IInv => OneEntryPerRun
  BY DEF IInv, LedgerLinked, OneEntryPerRun
<1> QED BY <1>1, Invariance, PTL

\* A standing entry's archive is readable for as long as it was promised.
THEOREM ArchiveOutlivesPromiseHolds == Spec => []ArchiveOutlivesPromise
<1>1. IInv => ArchiveOutlivesPromise
  BY DEF IInv, ArchiveBacked, ArchiveOutlivesPromise
<1> QED BY <1>1, Invariance, PTL

\* Qualification, deadline and activity event agree for every standing entry.
THEOREM QualificationConsistentHolds == Spec => []QualificationConsistent
<1>1. IInv => QualificationConsistent
  BY DEF IInv
<1> QED BY <1>1, Invariance, PTL

\* Maintenance never holds a page row that may still become an archive.
THEOREM PagesStayClaimedHolds == Spec => []PagesStayClaimed
<1>1. IInv => PagesStayClaimed
  BY DEF IInv, JobsSound
<1> QED BY <1>1, Invariance, PTL

\* Accepted and rejected answers agree with the database for good.
THEOREM AnswersTruthfulHolds == Spec => []AnswersTruthful
<1>1. ASSUME IInv PROVE AnswersTruthful
  <2>1. ASSUME NEW q \in Request, pc[q] = "accepted"
        PROVE  consumedBy[asked[q]] = q /\ entry[q] # "none"
    BY <1>1, <2>1 DEF IInv, EntryAfterCommit, LedgerLinked
  <2>2. ASSUME NEW q \in Request, pc[q] = "rejected"
        PROVE  /\ entry[q] = "none" /\ objState[q] # "ready"
               /\ \A r \in Run : consumedBy[r] # q
    <3>1. entry[q] = "none"
      BY <1>1, <2>2 DEF IInv, EntryAfterCommit
    <3> QED BY <1>1, <3>1, Shape DEF IInv, ArchiveBacked, Standing, LedgerLinked
  <2> QED BY <2>1, <2>2 DEF AnswersTruthful
<1> QED BY <1>1, Invariance, PTL

\* With the deadlines ordered as in the code, a consumable challenge never
\* loses its archive to the cleanup job.
THEOREM ValidRunFindsObjectHolds == Spec => []ValidRunFindsObject
<1>1. ASSUME IInv PROVE ValidRunFindsObject
  <2> SUFFICES ASSUME RunLifetime <= Retention, NEW q \in Request,
                      pc[q] = "finalizing", Consumes(q)
               PROVE  objState[q] = "pending" /\ ~Lapsed(q, clock)
    BY DEF ValidRunFindsObject
  <2>1. /\ asked[q] \in Run /\ run[asked[q]].expires \in Nat /\ clock \in Nat
        /\ objExpires[q] \in Nat \cup {Never}
        /\ run[asked[q]].expires > clock
    BY <1>1 DEF IInv, TypeOK, Untouched, Consumes
  <2>2. objState[q] = "pending"
    BY <1>1, <2>1 DEF IInv, DeadlinesOrdered
  <2>3. run[asked[q]].expires <= objExpires[q]
    BY <1>1, <2>2 DEF IInv, DeadlinesOrdered
  <2> QED BY <2>1, <2>2, <2>3 DEF Lapsed, Never
<1> QED BY <1>1, Invariance, PTL

-----------------------------------------------------------------------------
(* The life of a replay object.                                            *)

\* What a step may do to the state of an object.
LEMMA LifecycleStep ==
  ASSUME IInv, Next, NEW q \in Request
  PROVE  /\ objState[q] \in {"deleting", "deleted"} => objState'[q] \in {"deleting", "deleted"}
         /\ objState[q] = "ready" /\ objState'[q] # "ready" =>
              Lapsed(q, clock) \/ entry'[q] = "deleted"
<1> USE DEF dbVars, reqVars, r2Vars, jobVars, opVars
<1> DEFINE Kind(p) ==
      /\ objState[p] \in {"deleting", "deleted"} => objState'[p] \in {"deleting", "deleted"}
      /\ objState[p] = "ready" /\ objState'[p] # "ready" =>
           Lapsed(p, clock) \/ entry'[p] = "deleted"
<1>1. ASSUME NEW p \in Request, CreatePending(p) PROVE Kind(q)
  BY <1>1 DEF CreatePending, IInv, TypeOK, Untouched
<1>2. ASSUME NEW p \in Request, AbandonUpload(p) \/ RequeueLateUpload(p) PROVE Kind(q)
  <2>1. Requeue(p)
    BY <1>2 DEF AbandonUpload, RequeueLateUpload
  <2> QED BY <2>1 DEF Requeue, IInv, TypeOK
<1>3. ASSUME NEW p \in Request, CommitScore(p) PROVE Kind(q)
  BY <1>3 DEF CommitScore, Finalizable, IInv, TypeOK
<1>4. ASSUME NEW c \in Cleaner, Claim(c) PROVE Kind(q)
  <2>1. jobNow[c] \in Nat /\ clock \in Nat /\ jobNow[c] <= clock
    BY DEF IInv, TypeOK, JobsSound
  <2>2. PICK S \in Pages(Due(jobNow[c]), objExpires) :
          objState' = [p \in Request |-> IF p \in S THEN "deleting" ELSE objState[p]]
    BY <1>4 DEF Claim
  <2>3. q \in S => Lapsed(q, jobNow[c])
    BY <2>2 DEF Pages, Due
  <2>4. q \in S => Lapsed(q, clock)
    BY <2>1, <2>3 DEF Lapsed, IInv, TypeOK, Never
  <2> QED BY <2>2, <2>4
<1>5. ASSUME NEW c \in Cleaner, MarkDeleted(c) PROVE Kind(q)
  BY <1>5 DEF MarkDeleted, IInv, TypeOK
<1>6. ASSUME NEW p \in Request, DeleteEntry(p) PROVE Kind(q)
  BY <1>6 DEF DeleteEntry, IInv, TypeOK
<1>7. ASSUME UNCHANGED objState PROVE Kind(q)
  BY <1>7
<1>8. \/ \E p \in Request : \/ CreatePending(p) \/ AbandonUpload(p) \/ RequeueLateUpload(p)
                            \/ CommitScore(p) \/ DeleteEntry(p)
      \/ \E c \in Cleaner : Claim(c) \/ MarkDeleted(c)
      \/ UNCHANGED objState
  <2>1. ASSUME NEW r \in Run, NEW b \in Board, BeginRun(r, b) PROVE UNCHANGED objState
    BY <2>1 DEF BeginRun
  <2>2. ASSUME NEW p \in Request, Submission(p), ~CreatePending(p), ~AbandonUpload(p),
               ~RequeueLateUpload(p), ~CommitScore(p)
        PROVE  UNCHANGED objState
    BY <2>2 DEF Submission, LoadChallenge, PutSucceeds, PutFails, RefuseScore, Respond, Crash
  <2>3. ASSUME NEW p \in Request, Storage(p) PROVE UNCHANGED objState
    BY <2>3 DEF Storage, PutLands, PutLost
  <2>4. ASSUME NEW c \in Cleaner, Maintenance(c), ~Claim(c), ~MarkDeleted(c)
        PROVE  UNCHANGED objState
    BY <2>4 DEF Maintenance, StartMaintenance, RecheckSelect, RecheckDelete, RecheckMark,
                RecheckFails, DeleteClaimed, CleanupFails, ExpireRuns, MaintenanceCut
  <2>5. ASSUME Operator, \A p \in Request : ~DeleteEntry(p) PROVE UNCHANGED objState
    BY <2>5 DEF Operator, CloseSeason, HideBoard, HideEntry
  <2>6. ASSUME Tick PROVE UNCHANGED objState
    BY <2>6 DEF Tick
  <2> QED BY <2>1, <2>2, <2>3, <2>4, <2>5, <2>6 DEF Next
<1> QED BY <1>1, <1>2, <1>3, <1>4, <1>5, <1>6, <1>7, <1>8

\* A claimed object is never revived and a ready one goes only for cause.
THEOREM ObjectLifecycleHolds == Spec => ObjectLifecycle
<1>1. IInv /\ [Next]_vars =>
        [\A q \in Request :
           /\ objState[q] \in {"deleting", "deleted"} => objState'[q] \in {"deleting", "deleted"}
           /\ objState[q] = "ready" /\ objState'[q] # "ready" =>
                Lapsed(q, clock) \/ entry'[q] = "deleted"]_vars
  BY LifecycleStep
<1> QED BY <1>1, Invariance, PTL DEF Spec, ObjectLifecycle

-----------------------------------------------------------------------------
(* Refinement of the ledger.                                               *)

\* The empty tables are the empty ledger.
LEMMA LedgerInit == Init => Ledger!Init
BY DEF Init, Ledger!Init, Listed, Kept, Temporary, Archived

\* A step that leaves owners, listing and readable archives alone stutters.
LEMMA LedgerStutter ==
  ASSUME UNCHANGED <<consumedBy, entry>>, Archived' = Archived,
         \A q \in Archived : objExpires'[q] = objExpires[q]
  PROVE  UNCHANGED Ledger!vars
BY DEF Ledger!vars, Listed, Kept, Temporary

\* A step of a request is a step of the ledger, or leaves it alone.
LEMMA SubmissionLedger ==
  ASSUME IInv, NEW q \in Request, Submission(q)
  PROVE  Ledger!Next \/ UNCHANGED Ledger!vars
<1> USE DEF dbVars, reqVars, r2Vars, jobVars, opVars
<1>1. CASE CommitScore(q)
  <2> DEFINE r == asked[q]
  <2>1. /\ r \in Run /\ consumedBy[r] = NoRequest
        /\ \A o \in Run : consumedBy[o] # q
    BY <1>1, Shape
    DEF CommitScore, Consumes, IInv, TypeOK, Untouched, LedgerLinked, EntryAfterCommit
  <2>2. consumedBy' = [consumedBy EXCEPT ![r] = q]
    BY <1>1 DEF CommitScore
  <2>3. Listed' = Listed \cup {q}
    BY <1>1 DEF CommitScore, Listed, IInv, TypeOK
  <2>4. q \in stored /\ stored' = stored
    BY <1>1 DEF CommitScore, Finalizable, IInv, ArchiveBacked
  <2>5. Archived' = Archived \cup {q}
    BY <1>1, <2>4 DEF CommitScore, Archived, IInv, TypeOK
  <2>6. objExpires' = [objExpires EXCEPT ![q] = IF KeepsArchive(q) THEN Never ELSE @]
    BY <1>1 DEF CommitScore
  <2>7. objExpires[q] # Never /\ q \notin Archived
    BY <1>1 DEF CommitScore, Finalizable, Archived, IInv, ArchiveBacked
  <2>8. CASE KeepsArchive(q)
    <3>1. Kept' = Kept \cup {q} /\ Temporary' = Temporary
      BY <2>4, <2>5, <2>6, <2>7, <2>8 DEF Kept, Temporary, Archived, IInv, TypeOK
    <3> QED BY <2>1, <2>2, <2>3, <3>1 DEF Ledger!Next, Ledger!Accept
  <2>9. CASE ~KeepsArchive(q)
    <3>1. Temporary' = Temporary \cup {q} /\ Kept' = Kept
      BY <2>4, <2>5, <2>6, <2>7, <2>9 DEF Kept, Temporary, Archived, IInv, TypeOK
    <3> QED BY <2>1, <2>2, <2>3, <3>1 DEF Ledger!Next, Ledger!Accept
  <2> QED BY <2>8, <2>9
<1>2. CASE CreatePending(q)
  <2>1. UNCHANGED <<consumedBy, entry, stored>> /\ objState[q] = "none"
    BY <1>2 DEF CreatePending, IInv, Untouched
  <2>2. Archived' = Archived
    BY <1>2, <2>1 DEF CreatePending, Archived, IInv, TypeOK
  <2>3. \A p \in Archived : objExpires'[p] = objExpires[p]
    BY <1>2, <2>1 DEF CreatePending, Archived, IInv, TypeOK
  <2> QED BY <2>1, <2>2, <2>3, LedgerStutter
<1>3. CASE AbandonUpload(q) \/ RequeueLateUpload(q)
  <2>1. UNCHANGED <<consumedBy, entry, stored>>
    BY <1>3 DEF AbandonUpload, RequeueLateUpload
  <2>2. Requeue(q)
    BY <1>3 DEF AbandonUpload, RequeueLateUpload
  <2>3. Archived' = Archived
    BY <2>1, <2>2 DEF Requeue, Archived, IInv, TypeOK
  <2>4. \A p \in Archived : objExpires'[p] = objExpires[p]
    BY <2>2 DEF Requeue, Archived, IInv, TypeOK
  <2> QED BY <2>1, <2>3, <2>4, LedgerStutter
<1>4. CASE \E r \in Run, k \in Place : LoadChallenge(q, r, k)
  BY <1>4, LedgerStutter DEF LoadChallenge, Archived
<1>5. CASE PutSucceeds(q) \/ PutFails(q) \/ Crash(q)
  BY <1>5, LedgerStutter DEF PutSucceeds, PutFails, Crash, Archived
<1>6. CASE RefuseScore(q) \/ Respond(q)
  BY <1>6, LedgerStutter DEF RefuseScore, Respond, Archived
<1> QED BY <1>1, <1>2, <1>3, <1>4, <1>5, <1>6 DEF Submission

\* So is a late answer of R2,
LEMMA StorageLedger ==
  ASSUME IInv, NEW q \in Request, Storage(q)
  PROVE  UNCHANGED Ledger!vars
<1>1. UNCHANGED <<consumedBy, entry, objState, objExpires>>
  BY DEF Storage, PutLands, PutLost, dbVars
<1>2. stored' = stored \/ stored' = stored \cup {q}
  BY DEF Storage, PutLands, PutLost
<1>3. Archived' = Archived
  BY <1>1, <1>2 DEF Archived, IInv, ArchiveBacked
<1> QED BY <1>1, <1>3, LedgerStutter

\* a step of maintenance,
LEMMA MaintenanceLedger ==
  ASSUME IInv, NEW c \in Cleaner, Maintenance(c)
  PROVE  Ledger!Next \/ UNCHANGED Ledger!vars
<1> USE DEF dbVars, reqVars, r2Vars, jobVars, opVars
<1>1. CASE Claim(c)
  <2>1. UNCHANGED <<consumedBy, entry, stored, objExpires>>
    BY <1>1 DEF Claim
  <2>2. PICK S \in Pages(Due(jobNow[c]), objExpires) :
          objState' = [q \in Request |-> IF q \in S THEN "deleting" ELSE objState[q]]
    BY <1>1 DEF Claim
  <2>3. \A q \in S : objExpires[q] # Never
    BY <2>2 DEF Pages, Due, Lapsed
  <2>4. Archived' = Archived \ S
    BY <2>1, <2>2 DEF Archived, IInv, TypeOK
  <2>5. Kept' = Kept /\ Temporary' \subseteq Temporary
    BY <2>1, <2>3, <2>4 DEF Kept, Temporary
  <2> QED BY <2>1, <2>5 DEF Ledger!Next, Ledger!Lapse, Listed
<1>2. CASE RecheckDelete(c) \/ RecheckFails(c) \/ DeleteClaimed(c) \/ CleanupFails(c)
  <2>1. UNCHANGED <<consumedBy, entry, objState, objExpires>>
    BY <1>2 DEF RecheckDelete, RecheckFails, DeleteClaimed, CleanupFails
  <2>2. PICK S \in SUBSET page[c] : stored' = stored \ S /\
          (S # {} => job[c] \in {"recheckDelete", "delete"})
    <3>1. CASE RecheckDelete(c) \/ DeleteClaimed(c)
      BY <3>1 DEF RecheckDelete, DeleteClaimed
    <3>2. CASE RecheckFails(c) \/ CleanupFails(c)
      <4>1. PICK S \in SUBSET page[c] : stored' =
              IF job[c] \in {"recheckDelete", "delete"} THEN stored \ S ELSE stored
        BY <3>2 DEF RecheckFails, CleanupFails
      <4>2. CASE job[c] \in {"recheckDelete", "delete"}
        BY <4>1, <4>2
      <4>3. CASE job[c] \notin {"recheckDelete", "delete"}
        BY <4>1, <4>3
      <4> QED BY <4>2, <4>3
    <3> QED BY <1>2, <3>1, <3>2
  <2>3. \A q \in S : objState[q] # "ready"
    BY <2>2 DEF IInv, JobsSound, PagesStayClaimed
  <2>4. Archived' = Archived
    BY <2>1, <2>2, <2>3 DEF Archived
  <2> QED BY <2>1, <2>4, LedgerStutter
<1>3. CASE MarkDeleted(c)
  <2>1. UNCHANGED <<consumedBy, entry, stored, objExpires>>
    BY <1>3 DEF MarkDeleted
  <2>2. Archived' = Archived
    BY <1>3, <2>1 DEF MarkDeleted, Archived, IInv, TypeOK
  <2> QED BY <2>1, <2>2, LedgerStutter
<1>4. CASE StartMaintenance(c) \/ RecheckSelect(c) \/ MaintenanceCut(c)
  BY <1>4, LedgerStutter DEF StartMaintenance, RecheckSelect, MaintenanceCut, Archived
<1>5. CASE RecheckMark(c) \/ ExpireRuns(c)
  BY <1>5, LedgerStutter DEF RecheckMark, ExpireRuns, Archived
<1> QED BY <1>1, <1>2, <1>3, <1>4, <1>5 DEF Maintenance

\* and what an operator does.
LEMMA OperatorLedger ==
  ASSUME IInv, Operator
  PROVE  Ledger!Next \/ UNCHANGED Ledger!vars
<1> USE DEF dbVars, reqVars, r2Vars, jobVars, opVars
<1>1. ASSUME NEW q \in Request, HideEntry(q) PROVE Ledger!Next
  <2>1. q \in Listed /\ Listed' = Listed \ {q}
    BY <1>1 DEF HideEntry, Listed, IInv, TypeOK
  <2>2. UNCHANGED <<consumedBy, Kept, Temporary>>
    BY <1>1 DEF HideEntry, Kept, Temporary, Archived
  <2> QED BY <2>1, <2>2 DEF Ledger!Next, Ledger!Hide
<1>2. ASSUME NEW q \in Request, DeleteEntry(q) PROVE Ledger!Next
  <2>1. consumedBy' = consumedBy /\ stored' = stored
    BY <1>2 DEF DeleteEntry
  <2>2. Listed' = Listed \ {q}
    BY <1>2 DEF DeleteEntry, Listed, IInv, TypeOK
  <2>3. Archived' = Archived \ {q}
    BY <1>2, <2>1 DEF DeleteEntry, Archived, IInv, TypeOK
  <2>4. \A p \in Request \ {q} : objExpires'[p] = objExpires[p]
    BY <1>2 DEF DeleteEntry, IInv, TypeOK
  <2>5. Kept' = Kept \ {q} /\ Temporary' = Temporary \ {q}
    BY <2>3, <2>4 DEF Kept, Temporary, Archived, IInv, TypeOK
  <2>6. \E r \in Run : consumedBy[r] = q
    BY <1>2 DEF DeleteEntry, Standing, IInv, LedgerLinked
  <2> QED BY <2>1, <2>2, <2>5, <2>6 DEF Ledger!Next, Ledger!Remove
<1>3. CASE CloseSeason
  BY <1>3, LedgerStutter DEF CloseSeason, Archived
<1>4. ASSUME NEW b \in Board, HideBoard(b) PROVE UNCHANGED Ledger!vars
  BY <1>4, LedgerStutter DEF HideBoard, Archived
<1> QED BY <1>1, <1>2, <1>3, <1>4 DEF Operator

\* Workers, storage and maintenance together implement the abstract ledger.
THEOREM Refinement == Spec => ImplementsLedger
<1>1. IInv /\ [Next]_vars => [Ledger!Next]_(Ledger!vars)
  <2> SUFFICES ASSUME IInv, [Next]_vars PROVE Ledger!Next \/ UNCHANGED Ledger!vars
    OBVIOUS
  <2> USE DEF dbVars, reqVars, r2Vars, jobVars, opVars
  <2>1. ASSUME NEW r \in Run, NEW b \in Board, BeginRun(r, b) PROVE UNCHANGED Ledger!vars
    BY <2>1, LedgerStutter DEF BeginRun, Archived
  <2>2. CASE Tick
    BY <2>2, LedgerStutter DEF Tick, Archived
  <2>3. CASE UNCHANGED vars
    BY <2>3, LedgerStutter DEF vars, Archived
  <2> QED BY <2>1, <2>2, <2>3, SubmissionLedger, StorageLedger, MaintenanceLedger,
             OperatorLedger DEF Next
<1> QED BY <1>1, LedgerInit, Invariance, PTL DEF ImplementsLedger, Ledger!Spec, Spec

-----------------------------------------------------------------------------
(* What a frozen placement still says when others enter and are withdrawn.  *)

\* What an operator withdrew is not listed again.
WithdrawnStayOut == \A w \in withdrawn : entry[w] \in {"hidden", "deleted"}

\* The entries listed on q's board no further down than q, and the withdrawn ones.
Ahead(q) == {e \in EligibleBeside(q) : place[e] <= place[q]}
Gone(q)  == {w \in withdrawn : run[asked[w]].board = run[asked[q]].board}

\* Two sets apart from each other have no more elements than two that cover them.
LEMMA CoveredCount ==
  ASSUME NEW A, NEW W, NEW B, NEW V, IsFiniteSet(B), IsFiniteSet(V),
         A \cap W = {}, A \cup W \subseteq B \cup V
  PROVE  Cardinality(A) + Cardinality(W) <= Cardinality(B) + Cardinality(V)
<1>1. /\ IsFiniteSet(B \cup V)
      /\ Cardinality(B \cup V) = Cardinality(B) + Cardinality(V) - Cardinality(B \cap V)
  BY FS_Union
<1>2. /\ IsFiniteSet(A) /\ IsFiniteSet(W) /\ IsFiniteSet(A \cup W)
      /\ Cardinality(A \cup W) <= Cardinality(B \cup V)
  BY <1>1, FS_Subset
<1>3. Cardinality(A \cup W) = Cardinality(A) + Cardinality(W) - Cardinality(A \cap W)
  BY <1>2, FS_Union
<1>4. Cardinality(A \cap W) = 0
  BY FS_EmptySet
<1>5. Cardinality(B \cap V) \in Nat
  BY FS_Intersection, FS_CardinalityType
<1>6. /\ Cardinality(A) \in Nat /\ Cardinality(W) \in Nat
      /\ Cardinality(B) \in Nat /\ Cardinality(V) \in Nat
  BY <1>2, FS_CardinalityType
<1> QED BY <1>1, <1>2, <1>3, <1>4, <1>5, <1>6

\* The run, board and place an entry was made with are never changed.
LEMMA EntryRowsFixed ==
  ASSUME IInv, [Next]_vars, NEW e \in Request, entry[e] # "none"
  PROVE  /\ asked'[e] = asked[e] /\ place'[e] = place[e]
         /\ run'[asked[e]].board = run[asked[e]].board
<1>1. /\ asked[e] \in Run /\ run[asked[e]].state # "none"
      /\ pc[e] \notin {"idle", "finalizing"}
  BY DEF IInv, EntryAfterCommit, LedgerLinked, Untouched
<1> USE DEF dbVars, reqVars, r2Vars, jobVars, opVars
<1>2. asked'[e] = asked[e] /\ place'[e] = place[e]
  <2>1. CASE \E q \in Request, r \in Run, k \in Place : LoadChallenge(q, r, k)
    BY <1>1, <2>1 DEF LoadChallenge, IInv, TypeOK
  <2>2. CASE UNCHANGED <<asked, place>>
    BY <2>2
  <2>3. \/ \E q \in Request, r \in Run, k \in Place : LoadChallenge(q, r, k)
        \/ UNCHANGED <<asked, place>>
    BY DEF Next, Submission, Storage, Maintenance, Operator, BeginRun, CreatePending, PutSucceeds,
      PutFails, AbandonUpload, RequeueLateUpload, CommitScore, RefuseScore, Respond, Crash,
      PutLands, PutLost, StartMaintenance, RecheckSelect, RecheckDelete, RecheckMark,
      RecheckFails, Claim, DeleteClaimed, MarkDeleted, CleanupFails, ExpireRuns,
      MaintenanceCut, CloseSeason, HideBoard, HideEntry, DeleteEntry, Tick, vars
  <2> QED BY <2>1, <2>2, <2>3
<1>3. run'[asked[e]].board = run[asked[e]].board
  <2>1. CASE \E r \in Run, b \in Board : BeginRun(r, b)
    BY <1>1, <2>1 DEF BeginRun, IInv, TypeOK
  <2>2. CASE \E q \in Request : CommitScore(q)
    BY <1>1, <2>2 DEF CommitScore, IInv, TypeOK
  <2>3. CASE \E c \in Cleaner : ExpireRuns(c)
    BY <1>1, <2>3 DEF ExpireRuns, IInv, TypeOK
  <2>4. \/ \E r \in Run, b \in Board : BeginRun(r, b)
        \/ \E q \in Request : CommitScore(q)
        \/ \E c \in Cleaner : ExpireRuns(c)
        \/ UNCHANGED run
    BY DEF Next, Submission, Storage, Maintenance, Operator, LoadChallenge, CreatePending,
      PutSucceeds, PutFails, AbandonUpload, RequeueLateUpload, RefuseScore, Respond, Crash,
      PutLands, PutLost, StartMaintenance, RecheckSelect, RecheckDelete, RecheckMark,
      RecheckFails, Claim, DeleteClaimed, MarkDeleted, CleanupFails,
      MaintenanceCut, CloseSeason, HideBoard, HideEntry, DeleteEntry, Tick, vars
  <2> QED BY <2>1, <2>2, <2>3, <2>4
<1> QED BY <1>2, <1>3

\* Entries, placements and withdrawals change by a commit and by operators only.
LEMMA StandingChanges ==
  ASSUME [Next]_vars
  PROVE  \/ \E q \in Request : CommitScore(q) \/ HideEntry(q) \/ DeleteEntry(q)
         \/ UNCHANGED <<entry, rank, withdrawn>>
BY DEF Next, Submission, Storage, Maintenance, Operator, BeginRun, LoadChallenge, CreatePending,
  PutSucceeds, PutFails, AbandonUpload, RequeueLateUpload, RefuseScore, Respond, Crash,
  PutLands, PutLost, StartMaintenance, RecheckSelect, RecheckDelete, RecheckMark,
  RecheckFails, Claim, DeleteClaimed, MarkDeleted, CleanupFails, ExpireRuns,
  MaintenanceCut, CloseSeason, HideBoard, Tick, vars, dbVars, reqVars, r2Vars, jobVars, opVars

\* A commit makes an entry where there was none, so nothing withdrawn comes back.
LEMMA WithdrawnStep == IInv /\ WithdrawnStayOut /\ [Next]_vars => WithdrawnStayOut'
<1> SUFFICES ASSUME IInv, WithdrawnStayOut, [Next]_vars PROVE WithdrawnStayOut'
  OBVIOUS
<1> USE DEF WithdrawnStayOut
<1>1. ASSUME NEW q \in Request, CommitScore(q) PROVE WithdrawnStayOut'
  <2>1. entry[q] = "none"
    BY <1>1 DEF IInv, TypeOK, EntryAfterCommit, CommitScore
  <2> QED BY <1>1, <2>1 DEF IInv, TypeOK, CommitScore, opVars
<1>2. ASSUME NEW q \in Request, HideEntry(q) PROVE WithdrawnStayOut'
  BY <1>2 DEF IInv, TypeOK, HideEntry
<1>3. ASSUME NEW q \in Request, DeleteEntry(q) PROVE WithdrawnStayOut'
  BY <1>3 DEF IInv, TypeOK, DeleteEntry
<1> QED BY <1>1, <1>2, <1>3, StandingChanges

\* An entry's own step sets its placement; every other leaves those ahead of it
\* ahead or withdrawn.
LEMMA DriftStep ==
  IInv /\ WithdrawnStayOut /\ PlacementDrift /\ [Next]_vars => PlacementDrift'
<1> SUFFICES ASSUME IInv, WithdrawnStayOut, PlacementDrift, [Next]_vars,
                    NEW q \in Request, entry'[q] = "eligible"
             PROVE  rank'[q] <= Cardinality(Ahead(q)') + Cardinality(Gone(q)')
  BY DEF PlacementDrift, ListedAt, Ahead, Gone
<1> DEFINE A == Ahead(q)
           W == Gone(q)
           B == Ahead(q)'
           V == Gone(q)'
<1>1. withdrawn \subseteq Request /\ withdrawn' \subseteq Request
  BY NextType DEF IInv, TypeOK
<1>2. IsFiniteSet(B) /\ IsFiniteSet(V)
  BY <1>1, FS_Subset, Shape DEF Ahead, Gone, EligibleBeside
<1>3. Cardinality(B) \in Nat /\ Cardinality(V) \in Nat
  BY <1>2, FS_CardinalityType
<1>4. CASE entry[q] = "eligible" /\ rank'[q] = rank[q]
  <2>1. rank[q] <= Cardinality(A) + Cardinality(W)
    BY <1>4 DEF PlacementDrift, ListedAt, Ahead, Gone
  <2>2. A \cap W = {}
    BY DEF Ahead, Gone, EligibleBeside, WithdrawnStayOut
  <2>3. ASSUME NEW e \in Request, entry[e] = "eligible"
        PROVE  entry'[e] = "eligible" \/ e \in withdrawn'
    <3>1. ASSUME NEW p \in Request, CommitScore(p) PROVE entry'[e] = "eligible"
      BY <2>3, <3>1 DEF CommitScore, IInv, TypeOK
    <3>2. ASSUME NEW p \in Request, HideEntry(p) \/ DeleteEntry(p)
          PROVE  entry'[e] = "eligible" \/ e \in withdrawn'
      BY <2>3, <3>2 DEF HideEntry, DeleteEntry, IInv, TypeOK
    <3> QED BY <2>3, <3>1, <3>2, StandingChanges
  <2>4. withdrawn \subseteq withdrawn'
    BY StandingChanges DEF CommitScore, HideEntry, DeleteEntry, opVars
  <2>5. ASSUME NEW e \in A PROVE e \in B \cup V
    <3>1. /\ e \in Request /\ entry[e] = "eligible" /\ place[e] <= place[q]
          /\ run[asked[e]].board = run[asked[q]].board
      BY DEF Ahead, EligibleBeside
    <3>2. /\ place'[e] = place[e] /\ place'[q] = place[q]
          /\ run'[asked'[e]].board = run'[asked'[q]].board
      BY <1>4, <3>1, EntryRowsFixed
    <3> QED BY <2>3, <3>1, <3>2 DEF Ahead, Gone, EligibleBeside
  <2>6. ASSUME NEW w \in W PROVE w \in V
    <3>1. /\ w \in Request /\ w \in withdrawn /\ entry[w] # "none"
          /\ run[asked[w]].board = run[asked[q]].board
      BY <1>1 DEF Gone, WithdrawnStayOut
    <3>2. run'[asked'[w]].board = run'[asked'[q]].board
      BY <1>4, <3>1, EntryRowsFixed
    <3> QED BY <2>4, <3>1, <3>2 DEF Gone
  <2>7. A \cup W \subseteq B \cup V
    BY <2>5, <2>6
  <2> HIDE DEF A, W, B, V
  <2>8. Cardinality(A) + Cardinality(W) <= Cardinality(B) + Cardinality(V)
    BY <1>2, <2>2, <2>7, CoveredCount
  <2>9. /\ Cardinality(A) \in Nat /\ Cardinality(W) \in Nat
        /\ rank[q] \in Nat
    <3>1. A \subseteq Request /\ W \subseteq Request
      BY <1>1 DEF A, W, Ahead, Gone, EligibleBeside
    <3> QED BY <3>1, FS_Subset, FS_CardinalityType, Shape DEF IInv, TypeOK
  <2> QED BY <1>3, <1>4, <2>1, <2>8, <2>9 DEF B, V
<1>5. CASE CommitScore(q)
  <2> DEFINE S == {e \in EligibleBeside(q) : place[e] < place[q]}
  <2>1. /\ entry[q] # "eligible" /\ asked[q] \in Run
        /\ UNCHANGED <<asked, place>>
        /\ entry' = [entry EXCEPT ![q] = "eligible"]
    BY <1>5 DEF CommitScore, IInv, EntryAfterCommit, Untouched, TypeOK
  <2>2. ASSUME NEW r \in Run PROVE run'[r].board = run[r].board
    BY <1>5 DEF CommitScore, IInv, TypeOK
  <2>3. q \notin S
    BY <2>1 DEF EligibleBeside
  <2>4. S \cup {q} \subseteq B
    <3>1. q \in B
      <4>1. place[q] \in Nat
        BY DEF IInv, TypeOK
      <4> QED BY <2>1, <4>1 DEF Ahead, EligibleBeside, IInv, TypeOK
    <3>2. ASSUME NEW e \in S PROVE e \in B
      <4>1. /\ e \in Request /\ entry[e] = "eligible"
            /\ run[asked[e]].board = run[asked[q]].board
            /\ place[e] < place[q] /\ place[e] \in Nat /\ place[q] \in Nat
        BY DEF EligibleBeside, IInv, TypeOK
      <4>2. asked[e] \in Run
        BY <4>1 DEF IInv, LedgerLinked
      <4>3. run'[asked'[e]].board = run'[asked'[q]].board
        BY <2>1, <2>2, <4>1, <4>2
      <4>4. entry'[e] = "eligible" /\ place'[e] <= place'[q]
        BY <2>1, <4>1 DEF IInv, TypeOK
      <4> QED BY <4>1, <4>3, <4>4 DEF Ahead, EligibleBeside
    <3> QED BY <3>1, <3>2
  <2>5. rank'[q] = Cardinality(S) + 1
    BY <1>5 DEF CommitScore, Placement, IInv, TypeOK
  <2> HIDE DEF S, B, V
  <2>6. IsFiniteSet(S) /\ Cardinality(S \cup {q}) <= Cardinality(B)
    BY <1>2, <2>4, FS_Subset
  <2>7. Cardinality(S \cup {q}) = Cardinality(S) + 1 /\ Cardinality(S) \in Nat
    BY <2>3, <2>6, FS_AddElement, FS_CardinalityType
  <2> QED BY <1>3, <2>5, <2>6, <2>7 DEF B, V
<1>6. CASE ~CommitScore(q)
  <2>1. ASSUME NEW p \in Request, p # q, CommitScore(p)
        PROVE  entry[q] = "eligible" /\ rank'[q] = rank[q]
    BY <2>1 DEF CommitScore, IInv, TypeOK
  <2>2. ASSUME NEW p \in Request, HideEntry(p)
        PROVE  entry[q] = "eligible" /\ rank'[q] = rank[q]
    BY <2>2 DEF HideEntry, IInv, TypeOK
  <2>3. ASSUME NEW p \in Request, DeleteEntry(p)
        PROVE  entry[q] = "eligible" /\ rank'[q] = rank[q]
    BY <2>3 DEF DeleteEntry, IInv, TypeOK
  <2> QED BY <1>4, <1>6, <2>1, <2>2, <2>3, StandingChanges
<1> QED BY <1>5, <1>6

\* A submission's placement stays an upper bound on merit, whoever enters or is
\* withdrawn later, in whatever order.
THEOREM PlacementDriftHolds == Spec => []PlacementDrift
<1>1. Init => WithdrawnStayOut /\ PlacementDrift
  BY DEF Init, WithdrawnStayOut, PlacementDrift
<1> QED BY <1>1, Invariance, WithdrawnStep, DriftStep, PTL DEF Spec
=============================================================================
