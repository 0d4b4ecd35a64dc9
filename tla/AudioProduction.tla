--------------------------- MODULE AudioProduction ----------------------------
(***************************************************************************)
(* The tool that buys Maltline's sounds (games/maltline/tools/             *)
(* audio-production.mjs).  Each asset of a plan is requested from a paid   *)
(* service, validated, normalized into a master and a runtime file, which  *)
(* are promoted by exclusive links, and described by a manifest; a journal *)
(* beside the files says how far it came.  A run may fail or die between   *)
(* any two writes and in the middle of one, runs may overlap, and an       *)
(* operator may resume a plan or remove the lock of a run that is gone.    *)
(***************************************************************************)
EXTENDS Integers, FiniteSets

CONSTANTS
  AuAssets,  \* assets of a plan, done in order
  AuPlans,   \* plans that name these assets
  AuRuns,    \* times the tool is started (bound of the model)
  AuFaults   \* writes or tools that fail, and deaths (bound of the model)

ASSUME AudioAssumption == AuAssets \in Nat \ {0} /\ AuRuns \in Nat \ {0} /\ AuFaults \in Nat

VARIABLES
  auDisk,    \* of an asset: its lock, its journal and its files
  auRun,     \* what a run is at
  auPaid,    \* requests sent for an asset
  auFaults   \* faults so far
auVars == <<auDisk, auRun, auPaid, auFaults>>

Asset == 1..AuAssets
\* A file holds what the run of its number made, nothing, or the part that was
\* written of it.  A lock bears the number of its run.
None == 0
Torn == -1

\* A journal by the states it records, the source it says was acquired and the
\* manifest of its normalization_ready.
NoJournal == [said |-> {}, plan |-> None, source |-> None, ready |-> None, torn |-> FALSE]

NewRun(at) ==
  [at |-> at, resume |-> FALSE, plan |-> None, asset |-> 1, held |-> {}, seen |-> [a \in Asset |-> NoJournal], failed |-> FALSE]

AuInit ==
  /\ auDisk = [a \in Asset |-> [lock |-> None, journal |-> NoJournal, source |-> None, workMaster |-> None, workRuntime |-> None,
                                master |-> None, runtime |-> None, manifest |-> None]]
  /\ auRun = [r \in 1..AuRuns |-> NewRun("idle")]
  /\ auPaid = [a \in Asset |-> 0]
  /\ auFaults = 0

-----------------------------------------------------------------------------
\* The asset a run is at, what lies on disk of it, and its journal in memory.
Here(r) == auRun[r].asset
Disk(r) == auDisk[Here(r)]
Seen(r) == auRun[r].seen[Here(r)]
Said(r, state) == state \in Seen(r).said

GoOn(r, at) == auRun' = [auRun EXCEPT ![r].at = at]
\* An error inside processAsset's try.
Throw(r) == GoOn(r, "throw")
\* An error outside it: the locks of the run are released.
Abort(r) == GoOn(r, "release")

AuWrite(r, file, content) == auDisk' = [auDisk EXCEPT ![Here(r)][file] = content]

\* appendJournal: the line is on disk, then in memory.  A line nobody asks a
\* journal for is written and not remembered.  An append that reports an error has
\* written nothing or a part: one that wrote it all is left out.
AskedFor == {"reserved", "request_started", "acquired", "source_validated", "normalization_ready", "normalized", "completed"}
AuWith(journal, state) == [journal EXCEPT !.said = @ \cup ({state} \cap AskedFor)]
AuAppend(r, journal, at) ==
  /\ AuWrite(r, "journal", [journal EXCEPT !.torn = Disk(r).journal.torn])
  /\ auRun' = [auRun EXCEPT ![r].seen[Here(r)] = journal, ![r].at = at]
AuAppendState(r, state, at) == AuAppend(r, AuWith(Seen(r), state), at)

AuAt(r, where) == auRun[r].at = where
AuSteady == UNCHANGED <<auPaid, auFaults>>

-----------------------------------------------------------------------------
(* Starting: every asset is locked, then every journal read or begun.      *)

\* validateApproval: for this very plan, for as much as it costs, not expired.
Approved(approval, plan) == approval.plan = plan /\ approval.assets >= AuAssets /\ ~approval.expired

\* executeApprovedPlan, once the tools answer.
AuStart(r) ==
  /\ AuAt(r, "idle") /\ \A s \in 1..(r - 1) : ~AuAt(s, "idle")
  /\ \E resume \in BOOLEAN, plan \in AuPlans, approval \in [plan : AuPlans, assets : 1..AuAssets, expired : BOOLEAN] :
       /\ Approved(approval, plan)
       /\ auRun' = [auRun EXCEPT ![r].at = "lock", ![r].resume = resume, ![r].plan = plan]
  /\ UNCHANGED auDisk /\ AuSteady

TakesLock(r) == Disk(r).lock = None

AuLock(r) ==
  /\ AuAt(r, "lock") /\ AuSteady
  /\ IF TakesLock(r)
     THEN /\ AuWrite(r, "lock", r)
          /\ auRun' = [auRun EXCEPT ![r].held = @ \cup {Here(r)}, ![r].asset = IF @ = AuAssets THEN 1 ELSE @ + 1,
                                    ![r].at = IF Here(r) = AuAssets THEN "prepare" ELSE "lock"]
     ELSE Abort(r) /\ UNCHANGED auDisk

Prepared(r, journal) ==
  auRun' = [auRun EXCEPT ![r].seen[Here(r)] = journal, ![r].asset = IF @ = AuAssets THEN 1 ELSE @ + 1,
                         ![r].at = IF Here(r) = AuAssets THEN "asset" ELSE "prepare"]

\* parseJournal accepts what every line of it can be read of, for this plan.
Readable(journal, plan) == journal.said # {} /\ ~journal.torn /\ journal.plan = plan
Untouched(disk) ==
  /\ disk.journal = NoJournal
  /\ \A file \in {"source", "master", "runtime", "manifest", "workMaster", "workRuntime"} : disk[file] = None

AuPrepare(r) ==
  /\ AuAt(r, "prepare") /\ AuSteady
  /\ LET begun == [NoJournal EXCEPT !.said = {"reserved"}, !.plan = auRun[r].plan]
     IN  \/ /\ auRun[r].resume /\ Readable(Disk(r).journal, auRun[r].plan)
            /\ Prepared(r, Disk(r).journal) /\ UNCHANGED auDisk
         \/ /\ ~auRun[r].resume /\ Untouched(Disk(r))
            /\ Prepared(r, begun) /\ AuWrite(r, "journal", begun)
         \/ /\ IF auRun[r].resume THEN ~Readable(Disk(r).journal, auRun[r].plan) ELSE ~Untouched(Disk(r))
            /\ Abort(r) /\ UNCHANGED auDisk

-----------------------------------------------------------------------------
(* One asset.                                                              *)

\* validateCompletedAsset.
CompletedOk(r) ==
  /\ Disk(r).source = Seen(r).source /\ Disk(r).manifest = Seen(r).ready
  /\ Disk(r).master = Seen(r).ready /\ Disk(r).runtime = Seen(r).ready
NextAsset(r) ==
  auRun' = [auRun EXCEPT ![r].asset = IF @ = AuAssets THEN @ ELSE @ + 1, ![r].at = IF Here(r) = AuAssets THEN "release" ELSE "asset"]

AuAsset(r) ==
  /\ AuAt(r, "asset") /\ AuSteady
  /\ \/ /\ Said(r, "completed") /\ UNCHANGED auDisk
        /\ IF CompletedOk(r) THEN NextAsset(r) ELSE Abort(r)
     \/ /\ ~Said(r, "completed") /\ auRun[r].resume
        /\ IF Said(r, "acquired") THEN AuAppendState(r, "resume_started", "check") ELSE Throw(r) /\ UNCHANGED auDisk
     \/ /\ ~Said(r, "completed") /\ ~auRun[r].resume
        /\ \/ AuAppendState(r, "request_started", "request")
           \/ Throw(r) /\ UNCHANGED auDisk    \* the approval has expired

AuRequest(r) ==
  /\ AuAt(r, "request") /\ UNCHANGED <<auDisk, auFaults>>
  /\ auPaid' = [auPaid EXCEPT ![Here(r)] = @ + 1]
  /\ GoOn(r, "body") \/ Throw(r)     \* no answer in time, or not a good one
\* readBoundedResponse: what is no sound, too long or cut short is thrown away.
AuBody(r) ==
  /\ AuAt(r, "body") /\ UNCHANGED auDisk /\ AuSteady
  /\ GoOn(r, "response") \/ Throw(r)
AuResponse(r) == AuAt(r, "response") /\ AuSteady /\ AuAppendState(r, "response_received", "source")
AuSource(r) == AuAt(r, "source") /\ AuSteady /\ AuWrite(r, "source", r) /\ GoOn(r, "acquired")
AuAcquired(r) ==
  /\ AuAt(r, "acquired") /\ AuSteady
  /\ AuAppend(r, [AuWith(Seen(r), "acquired") EXCEPT !.source = r], "check")

\* finishAsset, from the check of the source.
AuCheck(r) ==
  /\ AuAt(r, "check") /\ AuSteady
  /\ \/ Disk(r).source # Seen(r).source /\ Throw(r) /\ UNCHANGED auDisk
     \/ /\ Disk(r).source = Seen(r).source
        /\ IF Said(r, "source_validated") THEN GoOn(r, "plan") /\ UNCHANGED auDisk
           ELSE AuAppendState(r, "source_validated", "plan")

\* recoveryDerivativePath: the work file, or else the final one.
Recovered(work, final) == IF work # None THEN work ELSE final
Recoverable(disk, ready) ==
  /\ Recovered(disk.workMaster, disk.master) = ready
  /\ Recovered(disk.workRuntime, disk.runtime) = ready
AuPlan(r) ==
  /\ AuAt(r, "plan") /\ AuSteady
  /\ IF Seen(r).ready = None THEN AuAppendState(r, "normalization_started", "master")
     ELSE /\ UNCHANGED auDisk
          /\ IF Recoverable(Disk(r), Seen(r).ready) THEN GoOn(r, "promoteMaster") ELSE Throw(r)

\* ffmpeg -n writes no file that is there.
AuNormalize(r, at, work, next) ==
  /\ AuAt(r, at) /\ AuSteady
  /\ IF Disk(r)[work] = None THEN AuWrite(r, work, r) /\ GoOn(r, next) ELSE Throw(r) /\ UNCHANGED auDisk
AuReady(r) ==
  /\ AuAt(r, "ready") /\ AuSteady
  /\ AuAppend(r, [AuWith(Seen(r), "normalization_ready") EXCEPT !.ready = r], "promoteMaster")

\* promoteExclusive: a link, then the work file goes.
AuPromote(r, at, work, final, next) ==
  /\ AuAt(r, at) /\ AuSteady
  /\ CASE Disk(r)[final] # None /\ Disk(r)[final] # Seen(r).ready -> Throw(r) /\ UNCHANGED auDisk
       [] Disk(r)[final] = Seen(r).ready                          -> AuWrite(r, work, None) /\ GoOn(r, next)
       [] Disk(r)[final] = None /\ Disk(r)[work] # Seen(r).ready  -> Throw(r) /\ UNCHANGED auDisk
       [] OTHER                                                   -> AuWrite(r, final, Disk(r)[work]) /\ GoOn(r, at)

AuNormalized(r) ==
  /\ AuAt(r, "normalized") /\ AuSteady
  /\ IF Said(r, "normalized") THEN GoOn(r, "manifest") /\ UNCHANGED auDisk ELSE AuAppendState(r, "normalized", "manifest")
AuManifest(r) ==
  /\ AuAt(r, "manifest") /\ AuSteady
  /\ CASE Disk(r).manifest = None          -> AuWrite(r, "manifest", Seen(r).ready) /\ GoOn(r, "completed")
       [] Disk(r).manifest = Seen(r).ready -> GoOn(r, "completed") /\ UNCHANGED auDisk
       [] OTHER                            -> Throw(r) /\ UNCHANGED auDisk
AuCompleted(r) == AuAt(r, "completed") /\ AuSteady /\ AuAppendState(r, "completed", "cleanup")

-----------------------------------------------------------------------------
(* Ending.                                                                 *)

AuThrow(r) ==
  /\ AuAt(r, "throw") /\ AuSteady
  /\ AuWrite(r, "journal", [AuWith(Seen(r), "failed") EXCEPT !.torn = Disk(r).journal.torn])
  /\ auRun' = [auRun EXCEPT ![r].at = "cleanup", ![r].failed = TRUE]

\* Mutant of KeepsWork: the work files go whenever an asset has failed.
KeepsNoWork(r) == FALSE
KeepsWork(r) == Said(r, "normalization_ready") /\ ~Said(r, "completed")

AuCleanup(r) ==
  /\ AuAt(r, "cleanup") /\ AuSteady
  /\ auDisk' = IF KeepsWork(r) THEN auDisk ELSE [auDisk EXCEPT ![Here(r)].workMaster = None, ![Here(r)].workRuntime = None]
  /\ IF auRun[r].failed THEN Abort(r) ELSE NextAsset(r)

AuOver(r) == auRun' = [auRun EXCEPT ![r] = NewRun("over")]
\* Each lock that bears the run's token is removed.
AuRelease(r) ==
  /\ AuAt(r, "release") /\ AuSteady
  /\ auDisk' = [a \in Asset |-> IF a \in auRun[r].held /\ auDisk[a].lock = r THEN [auDisk[a] EXCEPT !.lock = None] ELSE auDisk[a]]
  /\ AuOver(r)

AuGone(r) == AuAt(r, "over")
AuLive(r) == auRun[r].at # "idle" /\ ~AuGone(r)

\* What is left on disk of the write a run is at.
AuHalf(r) ==
  LET WasTorn(field) == [auDisk EXCEPT ![Here(r)][field] = Torn]
  IN  CASE AuAt(r, "lock") /\ Disk(r).lock = None -> [auDisk EXCEPT ![Here(r)].lock = r]
        [] AuAt(r, "prepare") /\ ~auRun[r].resume /\ Untouched(Disk(r)) ->
             [auDisk EXCEPT ![Here(r)].journal = [NoJournal EXCEPT !.torn = TRUE]]
        [] AuAt(r, "source") -> WasTorn("source")
        [] AuAt(r, "master") /\ Disk(r).workMaster = None -> WasTorn("workMaster")
        [] AuAt(r, "runtime") /\ Disk(r).workRuntime = None -> WasTorn("workRuntime")
        [] AuAt(r, "manifest") /\ Disk(r).manifest = None -> WasTorn("manifest")
        [] auRun[r].at \in {"response", "acquired", "ready", "completed", "throw"}
           \/ (AuAt(r, "asset") /\ ~Said(r, "completed") /\ (auRun[r].resume => Said(r, "acquired")))
           \/ (AuAt(r, "check") /\ ~Said(r, "source_validated")) \/ (AuAt(r, "plan") /\ Seen(r).ready = None)
           \/ (AuAt(r, "normalized") /\ ~Said(r, "normalized")) -> [auDisk EXCEPT ![Here(r)].journal.torn = TRUE]
        [] OTHER -> auDisk

\* ffmpeg or ffprobe ends with an error, says too much or is killed when its time
\* is over; what it wrote by then stays.
AuToolFails(r) ==
  /\ auRun[r].at \in {"check", "plan", "master", "runtime", "ready"} /\ auFaults < AuFaults
  /\ auFaults' = auFaults + 1 /\ UNCHANGED auPaid
  /\ auDisk' \in {auDisk} \cup (IF auRun[r].at \in {"master", "runtime"} THEN {AuHalf(r)} ELSE {})
  /\ Throw(r)

\* The run dies, or the write or the check it is at fails, having written nothing
\* or a part of it.
AuFault(r) ==
  /\ AuLive(r) /\ auFaults < AuFaults
  /\ auFaults' = auFaults + 1
  /\ auDisk' \in {auDisk, AuHalf(r)} /\ UNCHANGED auPaid
  /\ \/ AuOver(r)
     \/ auRun[r].at \in {"lock", "prepare"} /\ Abort(r)
     \/ AuAt(r, "asset") /\ (IF Said(r, "completed") THEN Abort(r) ELSE Throw(r))
     \/ auRun[r].at = "throw" /\ auRun' = [auRun EXCEPT ![r].at = "cleanup", ![r].failed = TRUE]
     \/ auRun[r].at = "cleanup" /\ Abort(r)
     \/ auRun[r].at = "release" /\ AuOver(r)
     \/ auRun[r].at \notin {"lock", "prepare", "asset", "throw", "cleanup", "release"} /\ Throw(r)

\* The operator removes the lock of a run that is gone.
AuUnlock(a) ==
  /\ auDisk[a].lock # None /\ AuGone(auDisk[a].lock)
  /\ auDisk' = [auDisk EXCEPT ![a].lock = None]
  /\ UNCHANGED <<auRun, auPaid, auFaults>>

AuNext ==
  \/ \E r \in 1..AuRuns :
       \/ AuStart(r) \/ AuLock(r) \/ AuPrepare(r) \/ AuAsset(r) \/ AuRequest(r) \/ AuBody(r) \/ AuResponse(r) \/ AuSource(r) \/ AuAcquired(r)
       \/ AuCheck(r) \/ AuPlan(r) \/ AuNormalize(r, "master", "workMaster", "runtime") \/ AuNormalize(r, "runtime", "workRuntime", "ready")
       \/ AuReady(r) \/ AuPromote(r, "promoteMaster", "workMaster", "master", "promoteRuntime")
       \/ AuPromote(r, "promoteRuntime", "workRuntime", "runtime", "normalized")
       \/ AuNormalized(r) \/ AuManifest(r) \/ AuCompleted(r) \/ AuThrow(r) \/ AuCleanup(r) \/ AuRelease(r)
       \/ AuToolFails(r) \/ AuFault(r)
  \/ \E a \in Asset : AuUnlock(a)

AuSpec == AuInit /\ [][AuNext]_auVars

-----------------------------------------------------------------------------
\* A sound is paid for once, whatever fails and whoever resumes, and no request
\* is sent that its journal does not show (acquireSource).
AudioIsPaidOnce ==
  \A a \in Asset : auPaid[a] <= 1 /\ (auPaid[a] = 1 => "request_started" \in auDisk[a].journal.said \/ auDisk[a].journal.torn)

\* A journal that says an asset is completed has the source that was bought
\* beside it and the files its manifest describes (finishAsset).
CompletedStands ==
  \A a \in Asset : "completed" \in auDisk[a].journal.said =>
    /\ auDisk[a].source = auDisk[a].journal.source
    /\ {auDisk[a].master, auDisk[a].runtime, auDisk[a].manifest} = {auDisk[a].journal.ready}

\* When nobody works on it, an asset whose source was acquired has on disk what
\* a resume asks for, unless a write was cut off in its journal or its manifest
\* (processAsset: "existing journal/source files remain the recovery authority").
AcquiredCanBeResumed ==
  \A a \in Asset : "acquired" \in auDisk[a].journal.said /\ ~auDisk[a].journal.torn /\ (\A r \in 1..AuRuns : ~AuLive(r)) =>
    /\ auDisk[a].source = auDisk[a].journal.source
    /\ auDisk[a].journal.ready # None => Recoverable(auDisk[a], auDisk[a].journal.ready)
    /\ auDisk[a].manifest \in {None, Torn, auDisk[a].journal.ready}

\* Money is spent once, and what it bought is kept: the three above.
AudioStands == AudioIsPaidOnce /\ CompletedStands /\ AcquiredCanBeResumed
=============================================================================
