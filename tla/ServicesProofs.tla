---------------------------- MODULE ServicesProofs ----------------------------
(***************************************************************************)
(* What runs behind the pages, proved for any number of requests, runs,    *)
(* shares and sessions: votes and notes (Feedback), the legacy routes of   *)
(* Partition (LegacyPartition), the older write path of Maltline           *)
(* (MaltlineProofs), the record of a benchmark run (HarnessRun) and the    *)
(* session a model plays in (PartitionSession), on any board.              *)
(* Each has an inductive invariant made of named parts; a lemma for each   *)
(* part says why every step keeps it.                                      *)
(***************************************************************************)
EXTENDS Feedback, LegacyPartition, MaltlineProofs, HarnessRun, PartitionSession, PartitionRulesProofs, TLAPS

-----------------------------------------------------------------------------
(* Votes and notes                                                         *)

FbRequest ==
  [at : {"idle", "written", "answered"}, by : FbSession \cup {FbNothing}, vote : {-1, 0, 1}, sent : FbSent,
   alone : BOOLEAN, due : Nat, viewer : {-1, 0, 1}, note : FbNotes \cup {FbNothing}]

FbTypeOK ==
  /\ fbNow \in Nat
  /\ fbVotes \in [FbSession -> {-1, 0, 1}]
  /\ fbShared \in [FbSession -> {-1, 0, 1}]
  /\ fbNote \in [FbSession -> [text : FbNotes \cup {FbNothing}, expires : Nat]]
  /\ fbPut \in [FbPut -> FbRequest]
  /\ \A q \in FbPut : fbPut[q].at # "idle" => fbPut[q].by \in FbSession

FbLevel == fbChannel = "legacy" => fbVotes = fbShared

\* What p sent is what its session has: nothing was sent since.
FbStands(p) ==
  /\ fbShared[p.by] = p.vote
  /\ p.sent = "clear" => fbNote[p.by].text = FbNothing
  /\ p.sent \in FbNotes /\ fbNow < p.due => fbNote[p.by] = [text |-> p.sent, expires |-> p.due]

FbShown(p) ==
  /\ p.viewer = p.vote
  /\ p.sent = "clear" => p.note = FbNothing
  /\ p.sent \in FbNotes /\ fbNow < p.due => p.note = p.sent

FbFollows(p) ==
  /\ p.at # "idle" /\ p.alone => FbStands(p)
  /\ p.at = "answered" => p.alone /\ FbShown(p)

FbInv == FbTypeOK /\ FbLevel /\ \A q \in FbPut : FbFollows(fbPut[q])

(* The invariant says what a player is promised.                           *)
LEMMA FbInvIsEnough == FbInv => FbOneValue
BY DEF FbInv, FbLevel, FbFollows, FbShown, FbStands, FbOneValue

(* Before anything is sent every value is the neutral one.                 *)
LEMMA FbInitially == FbInit => FbInv
BY FbAssumption DEF FbInit, FbInv, FbTypeOK, FbRequest, FbSent, FbIdle, NoNote, FbLevel, FbFollows

(* A write of the vote and the note overtakes what its session sent before *)
(* and leaves everybody else's alone.                                      *)
LEMMA FbWritten1 ==
  ASSUME FbInv, NEW q \in FbPut, NEW s \in FbSession, NEW vote \in {-1, 0, 1}, NEW word \in FbSent,
         FbWrite(q, s, vote, word)
  PROVE  FbInv'
<1>1. fbNow' = fbNow /\ fbChannel' = fbChannel
  BY DEF FbWrite
<1>2. FbTypeOK
  BY DEF FbInv
<1>3. /\ fbVotes' \in [FbSession -> {-1, 0, 1}]
      /\ fbShared' = [fbShared EXCEPT ![s] = vote]
      /\ FbLevel'
  BY <1>2 DEF FbWrite, FbTypeOK, FbInv, FbLevel, FbProject
<1>4. fbNote' = [fbNote EXCEPT ![s] = FbWritten(fbNote[s], word)]
  BY <1>2 DEF FbWrite, FbTypeOK
<1>5. FbWritten(fbNote[s], word) \in [text : FbNotes \cup {FbNothing}, expires : Nat]
  BY <1>2, FbAssumption DEF FbWritten, FbTypeOK, FbSent, NoNote
<1>6. /\ word = "clear" => FbWritten(fbNote[s], word).text = FbNothing
      /\ word \in FbNotes => FbWritten(fbNote[s], word) = [text |-> word, expires |-> fbNow + FbKeep]
  BY FbAssumption DEF FbWritten, NoNote
<1>7. ASSUME NEW o \in FbPut, o # q, fbPut[o].by # s
      PROVE  fbPut'[o] = fbPut[o]
  BY <1>7 DEF FbWrite
<1>8. ASSUME NEW o \in FbPut, o # q, fbPut[o].by = s
      PROVE  fbPut'[o] = IF fbPut[o].at = "answered" THEN FbIdle ELSE [fbPut[o] EXCEPT !.alone = FALSE]
  BY <1>8 DEF FbWrite
<1>9. fbPut'[q] = [FbIdle EXCEPT !.at = "written", !.by = s, !.vote = vote, !.sent = word, !.due = fbNow + FbKeep]
  BY DEF FbWrite
<1>10. fbPut' = [o \in FbPut |-> fbPut'[o]]
  BY DEF FbWrite
<1>11. FbIdle \in FbRequest
  BY DEF FbIdle, FbRequest, FbSent
<1>12. fbPut'[q] \in FbRequest /\ fbPut'[q].at # "idle" /\ fbPut'[q].by \in FbSession
  <2>1. fbPut'[q] = [at |-> "written", by |-> s, vote |-> vote, sent |-> word, alone |-> TRUE,
                     due |-> fbNow + FbKeep, viewer |-> 0, note |-> FbNothing]
    BY <1>9 DEF FbIdle
  <2>2. fbNow + FbKeep \in Nat
    BY <1>2, FbAssumption DEF FbTypeOK
  <2> QED BY <2>1, <2>2 DEF FbRequest
<1>13. FbFollows(fbPut[q])'
  BY <1>1, <1>2, <1>3, <1>4, <1>6, <1>9 DEF FbFollows, FbStands, FbIdle, FbTypeOK
<1>14. ASSUME NEW o \in FbPut, o # q
       PROVE  /\ fbPut'[o] \in FbRequest
              /\ fbPut'[o].at # "idle" => fbPut'[o].by \in FbSession
              /\ FbFollows(fbPut[o])'
  <2>1. fbPut[o] \in FbRequest /\ (fbPut[o].at # "idle" => fbPut[o].by \in FbSession) /\ FbFollows(fbPut[o])
    BY <1>2, <1>14 DEF FbInv, FbTypeOK
  <2>2. CASE fbPut[o].by # s
    <3>1. fbPut'[o] = fbPut[o]
      BY <1>7, <1>14, <2>2
    <3>2. fbPut[o].at # "idle" => fbShared'[fbPut[o].by] = fbShared[fbPut[o].by] /\ fbNote'[fbPut[o].by] = fbNote[fbPut[o].by]
      BY <1>2, <1>3, <1>4, <2>1, <2>2 DEF FbTypeOK
    <3> QED BY <1>1, <2>1, <3>1, <3>2 DEF FbFollows, FbStands, FbShown
  <2>3. CASE fbPut[o].by = s /\ fbPut[o].at = "answered"
    <3>1. fbPut'[o] = FbIdle
      BY <1>8, <1>14, <2>3
    <3> QED BY <1>11, <3>1 DEF FbFollows, FbIdle
  <2>4. CASE fbPut[o].by = s /\ fbPut[o].at # "answered"
    <3>1. fbPut'[o] = [fbPut[o] EXCEPT !.alone = FALSE]
      BY <1>8, <1>14, <2>4
    <3> QED BY <2>1, <2>4, <3>1 DEF FbFollows, FbRequest
  <2> QED BY <2>2, <2>3, <2>4
<1>15. FbTypeOK'
  <2>1. \A o \in FbPut : fbPut'[o] \in FbRequest /\ (fbPut'[o].at # "idle" => fbPut'[o].by \in FbSession)
    BY <1>12, <1>14
  <2>2. fbPut' \in [FbPut -> FbRequest]
    BY <1>10, <2>1
  <2>3. fbNote' \in [FbSession -> [text : FbNotes \cup {FbNothing}, expires : Nat]]
    BY <1>2, <1>4, <1>5 DEF FbTypeOK
  <2>4. fbShared' \in [FbSession -> {-1, 0, 1}]
    BY <1>2, <1>3 DEF FbTypeOK
  <2> QED BY <1>1, <1>2, <1>3, <2>1, <2>2, <2>3, <2>4 DEF FbTypeOK
<1> QED BY <1>3, <1>13, <1>14, <1>15 DEF FbInv

(* Reading, forgetting, waiting and expiry change no vote, and take no     *)
(* note before its deadline.                                               *)
LEMMA FbStep ==
  ASSUME FbInv, [FbNext]_fbVars
  PROVE  FbInv'
<1> USE DEF FbInv
<1>1. CASE UNCHANGED fbVars
  BY <1>1 DEF fbVars, FbTypeOK, FbLevel, FbFollows, FbStands, FbShown
<1>2. CASE FbTick
  <2>1. fbNow' = fbNow + 1 /\ fbNow \in Nat
    BY <1>2 DEF FbTick, FbTypeOK
  <2>2. UNCHANGED <<fbChannel, fbVotes, fbShared, fbNote, fbPut>>
    BY <1>2 DEF FbTick
  <2>3. FbTypeOK' /\ FbLevel'
    BY <2>1, <2>2 DEF FbTypeOK, FbLevel
  <2>4. ASSUME NEW q \in FbPut PROVE FbFollows(fbPut[q])'
    <3>1. fbPut[q].due \in Nat
      BY DEF FbTypeOK, FbRequest
    <3>2. fbNow' < fbPut[q].due => fbNow < fbPut[q].due
      BY <2>1, <3>1
    <3> QED BY <2>2, <3>2 DEF FbFollows, FbStands, FbShown
  <2> QED BY <2>3, <2>4
<1>3. CASE FbCleanup
  <2>1. UNCHANGED <<fbNow, fbChannel, fbVotes, fbShared, fbPut>>
    BY <1>3 DEF FbCleanup
  <2>2. fbNote' = [s \in FbSession |-> IF FbLapsed(fbNote[s]) THEN NoNote ELSE fbNote[s]]
    BY <1>3 DEF FbCleanup
  <2>3. FbTypeOK' /\ FbLevel'
    BY <2>1, <2>2 DEF FbTypeOK, FbLevel, NoNote
  <2>4. ASSUME NEW q \in FbPut PROVE FbFollows(fbPut[q])'
    <3>1. FbFollows(fbPut[q]) /\ fbPut[q].due \in Nat /\ fbNow \in Nat /\ (fbPut[q].at # "idle" => fbPut[q].by \in FbSession)
      BY DEF FbTypeOK, FbRequest
    <3>2. CASE fbPut[q].at = "idle"
      BY <2>1, <3>2 DEF FbFollows
    <3>3. CASE fbPut[q].at # "idle"
      <4>1. fbNote'[fbPut[q].by] = IF FbLapsed(fbNote[fbPut[q].by]) THEN NoNote ELSE fbNote[fbPut[q].by]
        BY <2>2, <3>1, <3>3
      <4> QED BY <2>1, <3>1, <3>3, <4>1 DEF FbFollows, FbStands, FbShown, FbLapsed, NoNote
    <3> QED BY <3>2, <3>3
  <2> QED BY <2>3, <2>4
<1>4. ASSUME NEW q \in FbPut, FbAnswer(q) PROVE FbInv'
  <2> DEFINE p == fbPut[q]
             shown == IF fbNote[p.by].expires > fbNow THEN fbNote[p.by].text ELSE FbNothing
             told == [p EXCEPT !.at = "answered", !.viewer = fbShared[p.by], !.note = shown]
  <2>1. UNCHANGED <<fbNow, fbChannel, fbVotes, fbShared, fbNote>> /\ p.at = "written"
    BY <1>4 DEF FbAnswer
  <2>2. fbPut' = [fbPut EXCEPT ![q] = IF ~p.alone THEN FbIdle ELSE told]
    BY <1>4, Zenon DEF FbAnswer
  <2>3. p \in FbRequest /\ p.by \in FbSession /\ FbFollows(p) /\ fbNow \in Nat
    BY <2>1 DEF FbTypeOK
  <2>4. /\ fbShared[p.by] \in {-1, 0, 1} /\ fbNote[p.by].text \in FbNotes \cup {FbNothing}
        /\ fbNote[p.by].expires \in Nat
    BY <2>3 DEF FbTypeOK
  <2>5. fbPut'[q] \in FbRequest /\ (fbPut'[q].at # "idle" => fbPut'[q].by \in FbSession) /\ FbFollows(fbPut[q])'
    <3>1. CASE ~p.alone
      <4>1. fbPut'[q] = FbIdle
        BY <2>2, <3>1 DEF FbTypeOK
      <4> QED BY <4>1 DEF FbIdle, FbRequest, FbSent, FbFollows
    <3>2. CASE p.alone
      <4>1. fbPut'[q] = told
        BY <2>2, <3>2 DEF FbTypeOK
      <4>2. /\ fbPut'[q] \in FbRequest /\ fbPut'[q].by = p.by /\ fbPut'[q].vote = p.vote
            /\ fbPut'[q].sent = p.sent /\ fbPut'[q].due = p.due /\ fbPut'[q].alone = p.alone
            /\ fbPut'[q].viewer = fbShared[p.by] /\ fbPut'[q].note = shown
        BY <2>3, <2>4, <4>1 DEF FbRequest
      <4>3. FbStands(p)
        BY <2>1, <2>3, <3>2 DEF FbFollows
      <4>4. FbStands(fbPut[q])'
        BY <2>1, <4>2, <4>3 DEF FbStands
      <4>5. FbShown(fbPut[q])'
        <5>1. fbPut'[q].viewer = fbPut'[q].vote
          BY <4>2, <4>3 DEF FbStands
        <5>2. fbPut'[q].sent = "clear" => fbPut'[q].note = FbNothing
          BY <4>2, <4>3 DEF FbStands
        <5>3. fbPut'[q].sent \in FbNotes /\ fbNow < fbPut'[q].due => fbPut'[q].note = fbPut'[q].sent
          BY <4>2, <4>3 DEF FbStands
        <5> QED BY <2>1, <5>1, <5>2, <5>3 DEF FbShown
      <4> QED BY <2>3, <3>2, <4>2, <4>4, <4>5 DEF FbFollows
    <3> QED BY <3>1, <3>2
  <2>6. ASSUME NEW o \in FbPut, o # q
        PROVE  fbPut'[o] \in FbRequest /\ (fbPut'[o].at # "idle" => fbPut'[o].by \in FbSession) /\ FbFollows(fbPut[o])'
    <3>1. fbPut'[o] = fbPut[o]
      BY <2>2, <2>6 DEF FbTypeOK
    <3> QED BY <2>1, <3>1 DEF FbFollows, FbStands, FbShown, FbTypeOK
  <2>7. fbPut' \in [FbPut -> FbRequest]
    <3>1. fbPut' = [o \in FbPut |-> fbPut'[o]]
      BY <2>2 DEF FbTypeOK
    <3>2. \A o \in FbPut : fbPut'[o] \in FbRequest
      BY <2>5, <2>6
    <3> QED BY <3>1, <3>2
  <2>8. FbTypeOK' /\ FbLevel'
    BY <2>1, <2>5, <2>6, <2>7 DEF FbTypeOK, FbLevel
  <2> QED BY <2>5, <2>6, <2>8
<1>5. ASSUME NEW q \in FbPut, FbForget(q) PROVE FbInv'
  <2>1. UNCHANGED <<fbNow, fbChannel, fbVotes, fbShared, fbNote>> /\ fbPut' = [fbPut EXCEPT ![q] = FbIdle]
    BY <1>5 DEF FbForget
  <2>2. FbIdle \in FbRequest
    BY DEF FbIdle, FbRequest, FbSent
  <2>3. FbTypeOK' /\ FbLevel'
    BY <2>1, <2>2 DEF FbTypeOK, FbLevel, FbIdle
  <2>4. ASSUME NEW o \in FbPut PROVE FbFollows(fbPut[o])'
    <3>1. fbPut'[o] = IF o = q THEN FbIdle ELSE fbPut[o]
      BY <2>1, <2>4 DEF FbTypeOK
    <3> QED BY <2>1, <3>1 DEF FbFollows, FbStands, FbShown, FbIdle
  <2> QED BY <2>3, <2>4
<1> QED BY <1>1, <1>2, <1>3, <1>4, <1>5, FbWritten1 DEF FbNext

(* A vote of Partition's default channel has one value in its two tables,  *)
(* and a player is shown what they sent, however requests, triggers and    *)
(* the expiry of notes mix (shared/feedback.ts, migration 0004).           *)
THEOREM FeedbackHasOneValue == FbSpec => []FbOneValue
<1>1. FbInit => FbInv
  BY FbInitially
<1>2. FbInv /\ [FbNext]_fbVars => FbInv'
  BY FbStep
<1> QED BY <1>1, <1>2, FbInvIsEnough, PTL DEF FbSpec

-----------------------------------------------------------------------------
(* The routes of old Partition clients                                     *)

LpRunRow == [state : {"none", "open", "purged"}, expires : Nat, by : LpCall \cup {LpNobody}]
LpCallRow == [at : {"idle", "checked", "putting", "stored", "taken", "refused", "dead"},
              route : {"v1", "v2"}, run : LpRuns \cup {LpNobody}, expires : Nat, stamp : Nat]
LpScoreRow == [row : BOOLEAN, expires : Nat, gone : BOOLEAN]
LpShareRow == [at : {"idle", "putting", "stored", "told", "dead"}, is : LpShares \cup {LpNobody}, expires : Nat]
LpSweepRow == [at : {"idle", "read", "wiped", "purge"}, now : Nat, scores : SUBSET LpCall, shares : SUBSET LpShares]

LpTables ==
  /\ lpNow \in Nat /\ lpNow <= LpHorizon
  /\ lpRun \in [LpRuns -> LpRunRow] /\ lpCall \in [LpCall -> LpCallRow] /\ lpScore \in [LpCall -> LpScoreRow]
  /\ lpProof \subseteq LpCall /\ lpErased \subseteq LpCall
  /\ lpShare \in [LpShares -> LpShareRow] /\ lpRow \subseteq LpShares /\ lpFile \subseteq LpShares
  /\ lpSweep \in LpSweepRow
LpTyped == lpSeason \in BOOLEAN /\ LpTables

(* The rows spelt out one by one are the shape of the tables.              *)
LEMMA LpTypedIsEnough == LpTyped => LpTypeOK
<1>1. LpTables => lpNow \in 0 .. LpHorizon
  BY LpAssumption DEF LpTables
<1> QED BY <1>1, Zenon DEF LpTyped, LpTables, LpTypeOK, LpRunRow, LpCallRow, LpScoreRow, LpShareRow, LpSweepRow

(* The date of a run that never ends is past every moment of the model.    *)
LEMMA LpNever == Never \in Nat /\ Never > LpHorizon
BY LpAssumption DEF Never

(* The tables start empty.                                                 *)
LEMMA LpTypedInitially == LpInit => LpTyped
<1>1. LpInit => lpSeason \in BOOLEAN
  BY Zenon DEF LpInit
<1>2. LpInit => LpTables
  BY LpAssumption DEF LpInit, LpTables, LpQuiet, LpRunRow, LpCallRow, LpScoreRow, LpShareRow, LpSweepRow
<1> QED BY <1>1, <1>2 DEF LpTyped

(* Archiving a season leaves it a season that is open or not.              *)
LEMMA LpSeasonStep ==
  ASSUME lpSeason \in BOOLEAN, [LpNext]_lpVars
  PROVE  lpSeason' \in BOOLEAN
<1>1. LpArchive => lpSeason' \in BOOLEAN
  BY Zenon DEF LpArchive
<1>2. LpNext /\ ~LpArchive => lpSeason' = lpSeason
  BY DEF LpNext, LpTick, LpBegin, LpCheck, LpPut, LpStored, LpBatch, LpUndone, LpCrash, LpReclaim, LpErase,
     LpReuse, LpPublish, LpShareStored, LpShareInserted, LpSweepRead, LpWipe, LpMark, LpSweepFails, LpPurge
<1>3. UNCHANGED lpVars => lpSeason' = lpSeason
  BY DEF lpVars
<1> QED BY <1>1, <1>2, <1>3, Zenon

(* Every step of either route, of the shares and of the maintenance keeps  *)
(* the shape of the tables.                                                *)
LEMMA LpTablesStep ==
  ASSUME LpTables, [LpNext]_lpVars
  PROVE  LpTables'
<1> USE LpAssumption DEF LpTables
<1>1. CASE UNCHANGED lpVars
  BY <1>1 DEF lpVars, lpTables, lpShareVars
<1>2. CASE LpTick \/ LpArchive
  BY <1>2 DEF LpTick, LpArchive, lpTables, lpShareVars
<1>3. ASSUME NEW r \in LpRuns, LpBegin(r) PROVE LpTables'
  <2> DEFINE c == [state |-> "open", expires |-> lpNow + LpRunLife, by |-> LpNobody]
  <2>1. c \in LpRunRow
    BY DEF LpRunRow
  <2>2. lpRun' = [lpRun EXCEPT ![r] = c]
    BY <1>3 DEF LpBegin
  <2> HIDE DEF c
  <2> QED BY <1>3, <2>1, <2>2 DEF LpBegin, lpShareVars
<1>4. ASSUME NEW q \in LpCall, NEW r \in LpRuns, NEW route \in {"v1", "v2"}, LpCheck(q, r, route) PROVE LpTables'
  <2> DEFINE c == [lpCall[q] EXCEPT !.at = "checked", !.route = route, !.run = r]
  <2>1. c \in LpCallRow
    <3>1. lpCall[q] \in LpCallRow
      OBVIOUS
    <3> HIDE DEF LpTables
    <3> QED BY <3>1 DEF LpCallRow
  <2>2. lpCall' = [lpCall EXCEPT ![q] = c]
    BY <1>4 DEF LpCheck
  <2> HIDE DEF c
  <2> QED BY <1>4, <2>1, <2>2 DEF LpCheck, lpTables, lpShareVars
<1>5. ASSUME NEW q \in LpCall, LpPut(q) PROVE LpTables'
  <2> DEFINE until == IF lpCall[q].route = "v1" THEN lpNow + LpProofLife ELSE Never
             c == [lpCall[q] EXCEPT !.at = "putting", !.expires = until]
  <2>1. until \in Nat
    BY LpNever
  <2>2. lpCall' = [lpCall EXCEPT ![q] = c]
    BY <1>5 DEF LpPut
  <2> HIDE DEF until
  <2>3. c \in LpCallRow
    BY <2>1 DEF LpCallRow
  <2> HIDE DEF c
  <2> QED BY <1>5, <2>2, <2>3 DEF LpPut, lpTables, lpShareVars
<1>6. ASSUME NEW q \in LpCall, LpStored(q) PROVE LpTables'
  <2> DEFINE c == [lpCall[q] EXCEPT !.at = "stored", !.stamp = lpNow]
  <2>1. c \in LpCallRow
    <3>1. lpCall[q] \in LpCallRow /\ lpNow \in Nat
      OBVIOUS
    <3> HIDE DEF LpTables
    <3> QED BY <3>1 DEF LpCallRow
  <2>2. lpCall' = [lpCall EXCEPT ![q] = c]
    BY <1>6 DEF LpStored
  <2> HIDE DEF c
  <2> QED BY <1>6, <2>1, <2>2 DEF LpStored, lpTables, lpShareVars
<1>7. ASSUME NEW q \in LpCall, LpBatch(q) PROVE LpTables'
  <2> DEFINE run == lpCall[q].run
             by == IF LpConsumes(q) THEN q ELSE lpRun[run].by
             spent == [lpRun[run] EXCEPT !.by = by]
             new == [row |-> TRUE, expires |-> lpCall[q].expires, gone |-> FALSE]
  <2>1. lpRun' = [lpRun EXCEPT ![run].by = by]
    BY <1>7 DEF LpBatch
  <2>2. lpRun' \in [LpRuns -> LpRunRow]
    <3>1. CASE run \in LpRuns
      <4>1. lpRun[run] \in LpRunRow /\ by \in LpCall \cup {LpNobody}
        BY <3>1 DEF LpRunRow
      <4>2. spent \in LpRunRow
        BY <4>1 DEF LpRunRow
      <4>3. lpRun' = [lpRun EXCEPT ![run] = spent]
        BY <2>1, <3>1
      <4> HIDE DEF spent
      <4> QED BY <4>2, <4>3
    <3>2. CASE run \notin LpRuns
      BY <2>1, <3>2
    <3> QED BY <3>1, <3>2
  <2>3. \/ lpScore' = [lpScore EXCEPT ![q] = new]
        \/ lpScore' = lpScore
    BY <1>7, Zenon DEF LpBatch
  <2>4. PICK at \in {"dead", "taken", "refused"} :
          lpCall' = [lpCall EXCEPT ![q] = [@ EXCEPT !.at = at, !.stamp = 0]]
    BY <1>7, Zenon DEF LpBatch
  <2>5. UNCHANGED <<lpNow, lpErased, lpProof, lpShareVars, lpSweep>>
    BY <1>7 DEF LpBatch
  <2>6. lpCall' \in [LpCall -> LpCallRow]
    <3>1. ASSUME NEW c \in LpCallRow PROVE [c EXCEPT !.at = at, !.stamp = 0] \in LpCallRow
      BY <3>1 DEF LpCallRow
    <3>2. lpCall[q] \in LpCallRow
      BY DEF LpTables
    <3> QED BY <2>4, <3>1, <3>2 DEF LpTables
  <2>7. lpScore' \in [LpCall -> LpScoreRow]
    <3>1. new \in LpScoreRow
      BY DEF LpScoreRow, LpCallRow
    <3> HIDE DEF new
    <3> QED BY <2>3, <3>1
  <2> QED BY <2>2, <2>5, <2>6, <2>7 DEF lpShareVars
<1>8. ASSUME NEW q \in LpCall, LpUndone(q) PROVE LpTables'
  <2> DEFINE c == [lpCall[q] EXCEPT !.at = "refused", !.stamp = 0]
  <2>1. c \in LpCallRow
    BY DEF LpCallRow
  <2>2. lpCall' = [lpCall EXCEPT ![q] = c]
    BY <1>8 DEF LpUndone
  <2> HIDE DEF c
  <2> QED BY <1>8, <2>1, <2>2 DEF LpUndone, lpTables, lpShareVars
<1>9. ASSUME NEW q \in LpCall, LpCrash(q) PROVE LpTables'
  <2> DEFINE c == [lpCall[q] EXCEPT !.at = "dead", !.stamp = 0]
  <2>1. c \in LpCallRow
    BY DEF LpCallRow
  <2>2. lpCall' = [lpCall EXCEPT ![q] = c]
    BY <1>9 DEF LpCrash
  <2>3. lpProof' = lpProof \/ lpProof' = lpProof \cup {q}
    BY <1>9 DEF LpCrash
  <2> HIDE DEF c
  <2>4. UNCHANGED <<lpNow, lpTables, lpShareVars, lpSweep>>
    BY <1>9 DEF LpCrash
  <2> QED BY <2>1, <2>2, <2>3, <2>4 DEF lpTables, lpShareVars
<1>10. ASSUME NEW q \in LpCall, LpReclaim(q) PROVE LpTables'
  BY <1>10 DEF LpReclaim, lpTables, lpShareVars
<1>11. ASSUME NEW q \in LpCall, LpErase(q) PROVE LpTables'
  <2>1. [lpScore[q] EXCEPT !.row = FALSE] \in LpScoreRow
    BY DEF LpScoreRow
  <2>2. lpScore' = [lpScore EXCEPT ![q] = [lpScore[q] EXCEPT !.row = FALSE]]
    BY <1>11 DEF LpErase
  <2> QED BY <1>11, <2>1, <2>2 DEF LpErase, lpShareVars
<1>12. ASSUME NEW s \in LpShares, LpReuse(s) PROVE LpTables'
  <2>1. PICK o \in lpRow : lpShare' = [lpShare EXCEPT ![s] = [at |-> "told", is |-> o, expires |-> lpShare[o].expires]]
    BY <1>12 DEF LpReuse
  <2>2. [at |-> "told", is |-> o, expires |-> lpShare[o].expires] \in LpShareRow
    BY DEF LpShareRow
  <2> QED BY <1>12, <2>1, <2>2 DEF LpReuse, lpTables
<1>13. ASSUME NEW s \in LpShares, LpShareStored(s) PROVE LpTables'
  <2>1. PICK at \in {"stored", "dead"} : lpShare' = [lpShare EXCEPT ![s].at = at]
    BY <1>13 DEF LpShareStored
  <2>2. [lpShare[s] EXCEPT !.at = at] \in LpShareRow
    BY DEF LpShareRow
  <2> QED BY <1>13, <2>1, <2>2 DEF LpShareStored, lpTables
<1>14. ASSUME NEW s \in LpShares, LpShareInserted(s) PROVE LpTables'
  <2>1. PICK at \in {"told", "dead"} : lpShare' = [lpShare EXCEPT ![s].at = at]
    BY <1>14 DEF LpShareInserted
  <2>2. [lpShare[s] EXCEPT !.at = at] \in LpShareRow
    BY DEF LpShareRow
  <2> QED BY <1>14, <2>1, <2>2 DEF LpShareInserted, lpTables
<1>15. ASSUME NEW s \in LpShares, NEW d \in LpDays, LpPublish(s, d) PROVE LpTables'
  <2>1. lpNow + d \in Nat
    OBVIOUS
  <2>2. [at |-> "putting", is |-> s, expires |-> lpNow + d] \in LpShareRow
    BY <2>1 DEF LpShareRow
  <2> QED BY <1>15, <2>2 DEF LpPublish, lpTables
<1>16. CASE LpSweepRead
  BY <1>16 DEF LpSweepRead, LpSweepRow, lpTables, lpShareVars
<1>17. CASE LpWipe
  BY <1>17 DEF LpWipe, LpSweepRow, lpTables
<1>18. CASE LpMark
  <2>1. lpScore' = [q \in LpCall |-> [lpScore[q] EXCEPT !.gone = @ \/ (lpScore[q].row /\ q \in lpSweep.scores)]]
    BY <1>18 DEF LpMark
  <2>2. ASSUME NEW q \in LpCall
        PROVE  [lpScore[q] EXCEPT !.gone = @ \/ (lpScore[q].row /\ q \in lpSweep.scores)] \in LpScoreRow
    BY <2>2 DEF LpScoreRow
  <2>3. lpScore' \in [LpCall -> LpScoreRow]
    BY <2>1, <2>2
  <2>4. lpSweep' \in LpSweepRow
    BY <1>18 DEF LpMark, LpSweepRow
  <2> QED BY <1>18, <2>3, <2>4 DEF LpMark
<1>19. CASE LpSweepFails
  <2>1. lpSweep' \in LpSweepRow
    <3>1. lpSweep \in LpSweepRow
      OBVIOUS
    <3> HIDE DEF LpTables
    <3>2. PICK at \in {"idle", "purge"} :
            lpSweep' = [LpQuiet EXCEPT !.at = at, !.now = IF at = "idle" THEN 0 ELSE lpSweep.now]
      BY <1>19 DEF LpSweepFails
    <3>3. lpSweep' = [at |-> at, now |-> IF at = "idle" THEN 0 ELSE lpSweep.now, scores |-> {}, shares |-> {}]
      BY <3>2 DEF LpQuiet
    <3> QED BY <3>1, <3>3 DEF LpSweepRow
  <2> QED BY <1>19, <2>1 DEF LpSweepFails, lpTables, lpShareVars
<1>20. CASE LpPurge
  <2> DEFINE New(r) == [lpRun[r] EXCEPT !.state =
                          IF @ = "open" /\ lpRun[r].by = LpNobody /\ lpRun[r].expires <= lpSweep.now THEN "purged" ELSE @]
  <2>1. ASSUME NEW r \in LpRuns PROVE New(r) \in LpRunRow
    BY <2>1 DEF LpRunRow
  <2>2. lpRun' = [r \in LpRuns |-> New(r)] /\ lpSweep' = LpQuiet
    BY <1>20 DEF LpPurge
  <2> HIDE DEF New
  <2>3. lpRun' \in [LpRuns -> LpRunRow]
    BY <2>1, <2>2
  <2>4. lpSweep' \in LpSweepRow
    BY <2>2 DEF LpQuiet, LpSweepRow
  <2> QED BY <1>20, <2>3, <2>4 DEF LpPurge, lpShareVars
<1> QED
  BY <1>1, <1>2, <1>3, <1>4, <1>5, <1>6, <1>7, <1>8, <1>9, <1>10, <1>11, <1>12, <1>13, <1>14, <1>15,
     <1>16, <1>17, <1>18, <1>19, <1>20 DEF LpNext

-----------------------------------------------------------------------------
\* The challenge that names a call, and what a call says of its challenge.
LpRunHolds(r) ==
  LET q == lpRun[r].by IN
  q # LpNobody => lpRun[r].state = "open" /\ lpCall[q].run = r /\ (lpScore[q].row \/ q \in lpErased)
LpCallHolds(q) ==
  LET c == lpCall[q] IN
  /\ c.at # "idle" => c.run \in LpRuns
  /\ c.at = "taken" => lpRun[c.run].by = q
  /\ lpScore[q].row \/ q \in lpErased => c.at \in {"taken", "dead"} /\ lpRun[c.run].by = q
  /\ lpScore[q].gone => lpScore[q].row \/ q \in lpErased

LpSpent == (\A r \in LpRuns : LpRunHolds(r)) /\ \A q \in LpCall : LpCallHolds(q)

\* The proof of a call, and what the maintenance means to delete.
LpProofHolds(q) ==
  /\ lpCall[q].at \in {"idle", "checked", "putting"} => q \notin lpProof
  /\ lpCall[q].at = "stored" => q \in lpProof
  /\ lpScore[q].row /\ lpScore[q].expires > lpNow => q \in lpProof
  /\ lpScore[q].gone => q \notin lpProof /\ lpScore[q].expires <= lpNow
LpDueHolds(q) ==
  q \in lpSweep.scores =>
    /\ lpScore[q].row \/ q \in lpErased
    /\ lpScore[q].expires <= lpSweep.now
    /\ lpSweep.at = "wiped" => q \notin lpProof

LpKept == lpSweep.now <= lpNow /\ \A q \in LpCall : LpProofHolds(q) /\ LpDueHolds(q)

(* No run is spent and no proof is owed before a call arrives.             *)
LEMMA LpScoresInitially == LpInit => LpSpent /\ LpKept
BY LpAssumption DEF LpInit, LpSpent, LpKept, LpRunHolds, LpCallHolds, LpProofHolds, LpDueHolds, LpQuiet

\* What the shares do, and the parts of the maintenance that leave scores alone.
LpAside ==
  /\ UNCHANGED <<lpNow, lpRun, lpCall, lpScore, lpProof, lpErased>>
  /\ lpSweep' = lpSweep \/ (lpSweep'.scores = {} /\ lpSweep'.now <= lpNow)

(* A step that leaves calls, scores and proofs alone, and of a pass of the *)
(* maintenance at most forgets what it read, keeps what is known of them.  *)
LEMMA LpScoresAside ==
  ASSUME LpTables, LpSpent, LpKept, LpAside
  PROVE  LpSpent' /\ LpKept'
<1>1. LpSpent'
  BY DEF LpAside, LpSpent, LpRunHolds, LpCallHolds
<1>2. LpKept'
  BY DEF LpAside, LpKept, LpProofHolds, LpDueHolds
<1> QED BY <1>1, <1>2

(* A run is spent once: only the batch names a call in a challenge, and    *)
(* the challenge it names it in was free (worker.ts, partition-adapter.ts).*)
LEMMA LpSpentStep ==
  ASSUME LpTables, LpSpent, LpKept, [LpNext]_lpVars
  PROVE  LpSpent'
<1> USE LpAssumption
<1>1. CASE UNCHANGED lpVars
  BY <1>1 DEF LpSpent, LpRunHolds, LpCallHolds, lpVars, lpTables
<1>2. CASE LpTick \/ LpArchive
  BY <1>2 DEF LpTick, LpArchive, LpSpent, LpRunHolds, LpCallHolds, lpTables
<1>3. ASSUME NEW r \in LpRuns, LpBegin(r) PROVE LpSpent'
  <2>1. lpRun' = [lpRun EXCEPT ![r] = [state |-> "open", expires |-> lpNow + LpRunLife, by |-> LpNobody]]
    BY <1>3 DEF LpBegin
  <2>2. UNCHANGED <<lpCall, lpScore, lpErased>>
    BY <1>3 DEF LpBegin
  <2>3. lpRun[r].by = LpNobody
    BY <1>3 DEF LpBegin, LpSpent, LpRunHolds
  <2>4. \A q \in LpCall : lpCall[q].run = r => lpRun[lpCall[q].run].by # q
    BY <2>3
  <2>5. \A o \in LpRuns : LpRunHolds(o)'
    BY <2>1, <2>2 DEF LpSpent, LpRunHolds, LpTables
  <2>6. \A q \in LpCall : LpCallHolds(q)'
    BY <2>1, <2>2, <2>4 DEF LpSpent, LpCallHolds, LpTables
  <2> QED BY <2>5, <2>6 DEF LpSpent
<1>4. ASSUME NEW q \in LpCall, NEW r \in LpRuns, NEW route \in {"v1", "v2"}, LpCheck(q, r, route) PROVE LpSpent'
  <2>1. lpCall' = [lpCall EXCEPT ![q] = [@ EXCEPT !.at = "checked", !.route = route, !.run = r]]
    BY <1>4 DEF LpCheck
  <2>2. UNCHANGED <<lpRun, lpScore, lpErased>> /\ lpCall[q].at = "idle"
    BY <1>4 DEF LpCheck, lpTables
  <2>3. lpCall'[q].at = "checked" /\ lpCall'[q].run = r /\ \A o \in LpCall \ {q} : lpCall'[o] = lpCall[o]
    BY <2>1 DEF LpTables, LpCallRow
  <2> QED BY <2>2, <2>3 DEF LpSpent, LpRunHolds, LpCallHolds, LpTables, LpRunRow
<1>5. ASSUME NEW q \in LpCall, LpPut(q) \/ LpStored(q) \/ LpUndone(q) \/ LpCrash(q) PROVE LpSpent'
  <2>1. UNCHANGED <<lpRun, lpScore, lpErased>> /\ lpCall[q].at \in {"checked", "putting", "stored"}
    BY <1>5 DEF LpPut, LpStored, LpUndone, LpCrash, lpTables
  <2>2. /\ lpCall'[q].at \in {"putting", "stored", "refused", "dead"} /\ lpCall'[q].run = lpCall[q].run
        /\ \A o \in LpCall \ {q} : lpCall'[o] = lpCall[o]
    <3>1. CASE LpPut(q)
      BY <3>1 DEF LpPut, LpTables, LpCallRow
    <3>2. CASE LpStored(q)
      BY <3>2 DEF LpStored, LpTables, LpCallRow
    <3>3. CASE LpUndone(q)
      BY <3>3 DEF LpUndone, LpTables, LpCallRow
    <3>4. CASE LpCrash(q)
      BY <3>4 DEF LpCrash, LpTables, LpCallRow
    <3> QED BY <1>5, <3>1, <3>2, <3>3, <3>4
  <2> QED BY <2>1, <2>2 DEF LpSpent, LpRunHolds, LpCallHolds, LpTables, LpRunRow
<1>6. ASSUME NEW q \in LpCall, LpBatch(q) PROVE LpSpent'
  <2> DEFINE run == lpCall[q].run
             by == IF LpConsumes(q) THEN q ELSE lpRun[run].by
             adds == LpInserts(q, by) /\ \A o \in LpCall : lpScore[o].row => lpCall[o].run # run
  <2>1. /\ lpRun' = [lpRun EXCEPT ![run].by = by] /\ lpErased' = lpErased /\ lpCall[q].at = "stored"
        /\ lpScore' = IF adds THEN [lpScore EXCEPT ![q] = [row |-> TRUE, expires |-> lpCall[q].expires, gone |-> FALSE]] ELSE lpScore
    BY <1>6 DEF LpBatch
  <2>2. PICK at \in {"dead", IF by = q THEN "taken" ELSE "refused"} :
          lpCall' = [lpCall EXCEPT ![q] = [@ EXCEPT !.at = at, !.stamp = 0]]
    BY <1>6, Zenon DEF LpBatch
  <2>3. /\ lpCall'[q].at = at /\ lpCall'[q].run = run /\ \A o \in LpCall \ {q} : lpCall'[o] = lpCall[o]
        /\ at \in {"dead", "taken", "refused"} /\ (at = "taken" => by = q) /\ (at = "refused" => by # q)
    BY <2>2 DEF LpTables, LpCallRow
  <2>4. run \in LpRuns /\ lpRun[run].by # q /\ ~lpScore[q].row /\ q \notin lpErased /\ ~lpScore[q].gone
    <3>1. run \in LpRuns /\ ~lpScore[q].row /\ q \notin lpErased /\ ~lpScore[q].gone
      BY <2>1 DEF LpSpent, LpCallHolds
    <3> QED BY <3>1 DEF LpSpent, LpRunHolds
  <2>5. lpRun'[run].by = by /\ lpRun'[run].state = lpRun[run].state /\ \A r \in LpRuns \ {run} : lpRun'[r] = lpRun[r]
    BY <2>1, <2>4 DEF LpTables, LpRunRow
  <2>6. CASE LpConsumes(q)
    <3>1. by = q /\ lpRun[run].state = "open" /\ lpRun[run].by = LpNobody
      BY <2>6 DEF LpConsumes
    <3>2. adds
      <4>1. ASSUME NEW o \in LpCall, lpScore[o].row, lpCall[o].run = run PROVE FALSE
        BY <3>1, <4>1 DEF LpSpent, LpCallHolds
      <4> QED BY <3>1, <4>1 DEF LpInserts
    <3> HIDE DEF adds, by
    <3>3. lpScore'[q].row /\ ~lpScore'[q].gone /\ \A o \in LpCall \ {q} : lpScore'[o] = lpScore[o]
      BY <2>1, <3>2 DEF LpTables
    <3>4. \A r \in LpRuns : LpRunHolds(r)'
      <4>1. ASSUME NEW r \in LpRuns, r # run PROVE LpRunHolds(r)'
        <5>1. lpRun'[r] = lpRun[r] /\ lpRun[r].by \in LpCall \cup {LpNobody} /\ LpRunHolds(r)
          BY <2>5, <4>1 DEF LpSpent, LpTables, LpRunRow
        <5>2. lpRun[r].by # q
          BY <2>1, <2>4, <4>1, <5>1 DEF LpRunHolds
        <5>3. CASE lpRun[r].by = LpNobody
          BY <5>1, <5>3 DEF LpRunHolds
        <5>4. CASE lpRun[r].by # LpNobody
          <6>1. lpCall'[lpRun[r].by] = lpCall[lpRun[r].by] /\ lpScore'[lpRun[r].by] = lpScore[lpRun[r].by]
            BY <2>3, <3>3, <5>1, <5>2, <5>4
          <6>2. lpErased' = lpErased /\ lpRun'[r] = lpRun[r]
            BY <2>1, <5>1
          <6> QED BY <5>1, <5>4, <6>1, <6>2, Zenon DEF LpRunHolds
        <5> QED BY <5>3, <5>4
      <4>2. ASSUME NEW r \in LpRuns, r = run PROVE LpRunHolds(r)'
        BY <2>1, <2>3, <2>5, <3>1, <3>3, <4>2 DEF LpRunHolds
      <4> QED BY <4>1, <4>2
    <3>5. \A o \in LpCall : LpCallHolds(o)'
      <4>1. LpCallHolds(q)'
        BY <2>1, <2>3, <2>4, <2>5, <3>1, <3>3 DEF LpCallHolds
      <4>2. ASSUME NEW o \in LpCall, o # q PROVE LpCallHolds(o)'
        <5>1. lpCall'[o] = lpCall[o] /\ lpScore'[o] = lpScore[o] /\ LpCallHolds(o)
          BY <2>3, <3>3, <4>2 DEF LpSpent
        <5>2. lpCall[o].at = "taken" \/ lpScore[o].row \/ o \in lpErased => lpCall[o].run \in LpRuns \ {run}
          BY <3>1, <5>1, LpAssumption DEF LpCallHolds
        <5> QED BY <2>1, <2>5, <5>1, <5>2 DEF LpCallHolds
      <4> QED BY <4>1, <4>2
    <3> QED BY <3>4, <3>5 DEF LpSpent
  <2>7. CASE ~LpConsumes(q)
    <3>1. by = lpRun[run].by /\ by # q /\ ~adds
      BY <2>4, <2>7 DEF LpInserts
    <3> HIDE DEF adds, by
    <3>2. lpScore' = lpScore /\ at # "taken" /\ \A r \in LpRuns : lpRun'[r].by = lpRun[r].by /\ lpRun'[r].state = lpRun[r].state
      BY <2>1, <2>3, <2>5, <3>1
    <3>3. \A o \in LpCall : lpCall'[o].run = lpCall[o].run
      BY <2>3
    <3>4. \A r \in LpRuns : LpRunHolds(r)'
      BY <2>1, <3>2, <3>3 DEF LpSpent, LpRunHolds, LpTables, LpRunRow
    <3>5. LpCallHolds(q)'
      BY <2>1, <2>3, <2>4, <3>2 DEF LpCallHolds
    <3>6. ASSUME NEW o \in LpCall, o # q PROVE LpCallHolds(o)'
      <4>1. lpCall'[o] = lpCall[o] /\ LpCallHolds(o)
        BY <2>3, <3>6 DEF LpSpent
      <4> QED BY <2>1, <3>2, <4>1 DEF LpCallHolds
    <3> QED BY <3>4, <3>5, <3>6 DEF LpSpent
  <2> QED BY <2>6, <2>7
<1>7. ASSUME NEW q \in LpCall, LpReclaim(q) PROVE LpSpent'
  BY <1>7 DEF LpReclaim, LpSpent, LpRunHolds, LpCallHolds, lpTables
<1>8. ASSUME NEW q \in LpCall, LpErase(q) PROVE LpSpent'
  <2>1. /\ lpScore' = [lpScore EXCEPT ![q].row = FALSE] /\ lpErased' = lpErased \cup {q} /\ lpScore[q].row
        /\ UNCHANGED <<lpRun, lpCall>>
    BY <1>8 DEF LpErase
  <2> QED BY <2>1 DEF LpSpent, LpRunHolds, LpCallHolds, LpTables, LpScoreRow
<1>9. ASSUME NEW s \in LpShares, LpReuse(s) \/ LpShareStored(s) \/ LpShareInserted(s) \/ \E d \in LpDays : LpPublish(s, d)
      PROVE  LpSpent'
  BY <1>9 DEF LpReuse, LpShareStored, LpShareInserted, LpPublish, lpTables, LpSpent, LpRunHolds, LpCallHolds
<1>10. CASE LpSweepRead \/ LpWipe \/ LpSweepFails
  BY <1>10 DEF LpSweepRead, LpWipe, LpSweepFails, lpTables, LpSpent, LpRunHolds, LpCallHolds
<1>11. CASE LpMark
  <2>1. \A q \in LpCall : lpScore'[q].row = lpScore[q].row /\ (lpScore'[q].gone => lpScore[q].gone \/ lpScore[q].row)
    BY <1>11 DEF LpMark, LpTables, LpScoreRow
  <2>2. UNCHANGED <<lpRun, lpCall, lpErased>>
    BY <1>11 DEF LpMark
  <2> QED BY <2>1, <2>2 DEF LpSpent, LpRunHolds, LpCallHolds, LpTables, LpRunRow
<1>12. CASE LpPurge
  <2>1. /\ UNCHANGED <<lpCall, lpScore, lpErased>>
        /\ \A r \in LpRuns : lpRun'[r].by = lpRun[r].by /\ (lpRun[r].by # LpNobody => lpRun'[r].state = lpRun[r].state)
    BY <1>12 DEF LpPurge, LpTables, LpRunRow
  <2> QED BY <2>1 DEF LpSpent, LpRunHolds, LpCallHolds
<1> QED
  BY <1>1, <1>2, <1>3, <1>4, <1>5, <1>6, <1>7, <1>8, <1>9, <1>10, <1>11, <1>12 DEF LpNext

(* A proof of a score lives until its deadline, and what the maintenance   *)
(* has marked is gone: between its reading and its marking only an         *)
(* operator touches the scores it means (cleanupExpiredReplayData).        *)
LEMMA LpKeptStep ==
  ASSUME LpTables, LpSpent, LpKept, [LpNext]_lpVars
  PROVE  LpKept'
<1>1. ASSUME LpAside \/ (UNCHANGED <<lpCall, lpScore, lpProof, lpErased, lpSweep>> /\ lpNow' \in {lpNow, lpNow + 1})
      PROVE  LpKept'
  <2>1. CASE LpAside
    BY <2>1, LpScoresAside
  <2>2. CASE UNCHANGED <<lpCall, lpScore, lpProof, lpErased, lpSweep>> /\ lpNow' \in {lpNow, lpNow + 1}
    <3>1. lpNow \in Nat /\ lpSweep.now \in Nat /\ \A q \in LpCall : lpScore[q].expires \in Nat
      BY DEF LpTables, LpSweepRow, LpScoreRow
    <3> QED BY <2>2, <3>1 DEF LpKept, LpProofHolds, LpDueHolds
  <2> QED BY <1>1, <2>1, <2>2
<1>2. CASE UNCHANGED lpVars
  BY <1>1, <1>2 DEF lpVars, lpTables
<1>3. CASE LpTick \/ LpArchive \/ \E r \in LpRuns : LpBegin(r)
  BY <1>1, <1>3 DEF LpTick, LpArchive, LpBegin, lpTables
<1>4. ASSUME NEW s \in LpShares, LpReuse(s) \/ LpShareStored(s) \/ LpShareInserted(s) \/ \E d \in LpDays : LpPublish(s, d)
      PROVE  LpKept'
  BY <1>1, <1>4 DEF LpReuse, LpShareStored, LpShareInserted, LpPublish, lpTables
<1>5. ASSUME NEW q \in LpCall, NEW at \in {"checked", "putting", "refused", "dead"},
             lpCall'[q].at = at, \A o \in LpCall \ {q} : lpCall'[o] = lpCall[o],
             UNCHANGED <<lpNow, lpScore, lpErased, lpProof, lpSweep>>,
             at \in {"checked", "putting"} => lpCall[q].at \in {"idle", "checked"}
      PROVE  LpKept'
  BY <1>5 DEF LpKept, LpProofHolds, LpDueHolds
<1>6. ASSUME NEW q \in LpCall, lpCall[q].at \in {"putting", "stored"}
      PROVE  ~lpScore[q].row /\ q \notin lpErased /\ ~lpScore[q].gone /\ q \notin lpSweep.scores
  BY <1>6 DEF LpSpent, LpCallHolds, LpKept, LpDueHolds
<1>7. ASSUME NEW q \in LpCall, \E r \in LpRuns, route \in {"v1", "v2"} : LpCheck(q, r, route) PROVE LpKept'
  <2>1. PICK r \in LpRuns, route \in {"v1", "v2"} : LpCheck(q, r, route)
    BY <1>7
  <2>2. lpCall'[q].at = "checked" /\ \A o \in LpCall \ {q} : lpCall'[o] = lpCall[o]
    BY <2>1 DEF LpCheck, LpTables, LpCallRow
  <2> QED BY <1>5, <2>1, <2>2 DEF LpCheck, lpTables
<1>8. ASSUME NEW q \in LpCall, LpPut(q) PROVE LpKept'
  <2>1. lpCall'[q].at = "putting" /\ \A o \in LpCall \ {q} : lpCall'[o] = lpCall[o]
    BY <1>8 DEF LpPut, LpTables, LpCallRow
  <2> QED BY <1>5, <1>8, <2>1 DEF LpPut, lpTables
<1>9. ASSUME NEW q \in LpCall, LpUndone(q) PROVE LpKept'
  <2>1. lpCall'[q].at = "refused" /\ \A o \in LpCall \ {q} : lpCall'[o] = lpCall[o]
    BY <1>9 DEF LpUndone, LpTables, LpCallRow
  <2> QED BY <1>5, <1>9, <2>1 DEF LpUndone, lpTables
<1>10. ASSUME NEW q \in LpCall, NEW at \in {"stored", "dead"}, lpCall[q].at = "putting",
              lpCall'[q].at = at, \A o \in LpCall \ {q} : lpCall'[o] = lpCall[o],
              lpProof' = lpProof \cup {q}, UNCHANGED <<lpNow, lpScore, lpErased, lpSweep>>
       PROVE  LpKept'
  BY <1>6, <1>10 DEF LpKept, LpProofHolds, LpDueHolds
<1>11. ASSUME NEW q \in LpCall, LpStored(q) PROVE LpKept'
  <2>1. lpCall'[q].at = "stored" /\ \A o \in LpCall \ {q} : lpCall'[o] = lpCall[o]
    BY <1>11 DEF LpStored, LpTables, LpCallRow
  <2> QED BY <1>10, <1>11, <2>1 DEF LpStored, lpTables
<1>12. ASSUME NEW q \in LpCall, LpCrash(q) PROVE LpKept'
  <2>1. lpCall'[q].at = "dead" /\ \A o \in LpCall \ {q} : lpCall'[o] = lpCall[o]
    BY <1>12 DEF LpCrash, LpTables, LpCallRow
  <2>2. lpProof' = lpProof \/ (lpCall[q].at = "putting" /\ lpProof' = lpProof \cup {q})
    BY <1>12, Zenon DEF LpCrash
  <2>3. UNCHANGED <<lpNow, lpScore, lpErased, lpSweep>>
    BY <1>12 DEF LpCrash, lpTables
  <2> QED BY <1>5, <1>10, <2>1, <2>2, <2>3
<1>13. ASSUME NEW q \in LpCall, LpBatch(q) PROVE LpKept'
  <2>1. lpCall[q].at = "stored" /\ UNCHANGED <<lpNow, lpErased, lpProof, lpSweep>>
    BY <1>13 DEF LpBatch
  <2>2. /\ lpCall'[q].at \in {"dead", "taken", "refused"}
        /\ \A o \in LpCall \ {q} : lpCall'[o] = lpCall[o]
    BY <1>13 DEF LpBatch, LpTables, LpCallRow
  <2>3. /\ \A o \in LpCall \ {q} : lpScore'[o] = lpScore[o]
        /\ lpScore'[q] = lpScore[q] \/ lpScore'[q] = [row |-> TRUE, expires |-> lpCall[q].expires, gone |-> FALSE]
    BY <1>13 DEF LpBatch, LpTables
  <2>4. q \in lpProof
    BY <2>1 DEF LpKept, LpProofHolds
  <2>5. ~lpScore'[q].gone
    BY <1>6, <2>1, <2>3
  <2>6. LpProofHolds(q)' /\ LpDueHolds(q)'
    BY <1>6, <2>1, <2>2, <2>4, <2>5 DEF LpProofHolds, LpDueHolds, LpKept
  <2>7. ASSUME NEW o \in LpCall, o # q PROVE LpProofHolds(o)' /\ LpDueHolds(o)'
    BY <2>1, <2>2, <2>3, <2>7 DEF LpProofHolds, LpDueHolds, LpKept
  <2> QED BY <2>1, <2>6, <2>7 DEF LpKept
<1>14. ASSUME NEW q \in LpCall, LpReclaim(q) PROVE LpKept'
  <2>1. /\ UNCHANGED <<lpNow, lpCall, lpScore, lpErased, lpSweep>> /\ lpProof' = lpProof \ {q}
        /\ lpCall[q].at \in {"taken", "refused", "dead"} /\ ~lpScore[q].row
    BY <1>14 DEF LpReclaim, lpTables
  <2> QED BY <2>1 DEF LpKept, LpProofHolds, LpDueHolds
<1>15. ASSUME NEW q \in LpCall, LpErase(q) PROVE LpKept'
  <2>1. /\ UNCHANGED <<lpNow, lpCall, lpProof, lpSweep>> /\ lpErased' = lpErased \cup {q}
        /\ lpScore' = [lpScore EXCEPT ![q].row = FALSE]
    BY <1>15 DEF LpErase
  <2>2. /\ \A o \in LpCall \ {q} : lpScore'[o] = lpScore[o]
        /\ ~lpScore'[q].row /\ lpScore'[q].expires = lpScore[q].expires /\ lpScore'[q].gone = lpScore[q].gone
    BY <2>1 DEF LpTables, LpScoreRow
  <2> QED BY <2>1, <2>2 DEF LpKept, LpProofHolds, LpDueHolds
<1>16. CASE LpSweepRead
  <2>1. UNCHANGED <<lpNow, lpCall, lpScore, lpErased, lpProof>>
    BY <1>16 DEF LpSweepRead, lpTables
  <2>2. lpSweep'.now = lpNow /\ lpSweep'.at = "read" /\ lpSweep'.scores = {q \in LpCall : LpExpired(q, lpNow)}
    BY <1>16 DEF LpSweepRead
  <2> QED BY <2>1, <2>2 DEF LpKept, LpProofHolds, LpDueHolds, LpExpired, LpTables
<1>17. CASE LpWipe
  <2>1. UNCHANGED <<lpNow, lpCall, lpScore, lpErased>> /\ lpProof' = lpProof \ lpSweep.scores
    BY <1>17 DEF LpWipe, lpTables
  <2>2. lpSweep'.now = lpSweep.now /\ lpSweep'.scores = lpSweep.scores
    BY <1>17 DEF LpWipe, LpTables, LpSweepRow
  <2>3. ASSUME NEW q \in LpCall PROVE LpProofHolds(q)' /\ LpDueHolds(q)'
    <3>1. q \in lpSweep.scores => lpCall[q].at # "stored"
      BY DEF LpKept, LpDueHolds, LpSpent, LpCallHolds
    <3>2. q \in lpSweep.scores => ~(lpScore[q].expires > lpNow)
      BY DEF LpKept, LpDueHolds, LpTables, LpSweepRow, LpScoreRow
    <3> QED BY <2>1, <2>2, <3>1, <3>2 DEF LpKept, LpProofHolds, LpDueHolds
  <2> QED BY <2>1, <2>2, <2>3 DEF LpKept
<1>18. CASE LpMark
  <2>1. UNCHANGED <<lpNow, lpCall, lpErased, lpProof>> /\ lpSweep.at = "wiped"
    BY <1>18 DEF LpMark
  <2>2. lpSweep'.now = lpSweep.now /\ lpSweep'.scores = {}
    BY <1>18 DEF LpMark, LpTables, LpSweepRow
  <2>3. ASSUME NEW q \in LpCall
        PROVE  /\ lpScore'[q].row = lpScore[q].row /\ lpScore'[q].expires = lpScore[q].expires
               /\ lpScore'[q].gone => lpScore[q].gone \/ q \in lpSweep.scores
    BY <1>18 DEF LpMark, LpTables, LpScoreRow
  <2>4. ASSUME NEW q \in LpCall, q \in lpSweep.scores PROVE q \notin lpProof /\ lpScore[q].expires <= lpNow
    BY <2>1, <2>4 DEF LpKept, LpDueHolds, LpTables, LpSweepRow, LpScoreRow
  <2> QED BY <2>1, <2>2, <2>3, <2>4 DEF LpKept, LpProofHolds, LpDueHolds
<1>19. CASE LpSweepFails
  <2>1. lpSweep'.scores = {} /\ lpSweep'.now <= lpNow
    <3>1. \E at \in {"idle", "purge"} :
            lpSweep' = [at |-> at, now |-> IF at = "idle" THEN 0 ELSE lpSweep.now, scores |-> {}, shares |-> {}]
      BY <1>19 DEF LpSweepFails, LpQuiet
    <3>2. lpNow \in Nat
      BY DEF LpTables
    <3>3. lpSweep.now <= lpNow
      BY DEF LpKept
    <3> QED BY <3>1, <3>2, <3>3
  <2> QED BY <1>1, <1>19, <2>1 DEF LpAside, LpSweepFails, lpTables
<1>20. CASE LpPurge
  <2>1. UNCHANGED <<lpNow, lpCall, lpScore, lpErased, lpProof>> /\ lpSweep'.scores = {} /\ lpSweep'.now = 0
    BY <1>20 DEF LpPurge, LpQuiet
  <2>2. lpNow \in Nat
    BY DEF LpTables
  <2> QED BY <2>1, <2>2 DEF LpKept, LpProofHolds, LpDueHolds
<1> QED
  BY <1>2, <1>3, <1>4, <1>7, <1>8, <1>9, <1>11, <1>12, <1>13, <1>14, <1>15, <1>16, <1>17, <1>18, <1>19, <1>20
  DEF LpNext

-----------------------------------------------------------------------------
\* A publication and its row and file, and what the maintenance means to delete.
LpShareHolds(s) ==
  LET p == lpShare[s] IN
  /\ p.at \in {"idle", "putting"} => s \notin lpFile \cup lpRow
  /\ p.at = "stored" => s \in lpFile /\ s \notin lpRow
  /\ s \in lpRow => p.at \in {"told", "dead"} /\ (p.expires > lpNow => s \in lpFile)
  /\ s \in lpFile /\ s \notin lpRow => p.at \in {"stored", "dead"}
  /\ p.at \in {"putting", "stored"} => p.is = s
  /\ s \in lpRow => p.is = s
LpToldHolds(s) ==
  LET p == lpShare[s] IN
  p.at = "told" =>
    /\ p.is \in LpShares /\ lpShare[p.is].at \in {"told", "dead"} /\ lpShare[p.is].expires = p.expires
    /\ p.expires > lpNow => p.is \in lpRow
LpOldHolds(s) ==
  s \in lpSweep.shares => s \in lpRow /\ lpShare[s].expires <= lpSweep.now /\ (lpSweep.at = "wiped" => s \notin lpFile)

LpShared == lpSweep.now <= lpNow /\ \A s \in LpShares : LpShareHolds(s) /\ LpToldHolds(s) /\ LpOldHolds(s)

(* No share is stored, told or due before one is published.                *)
LEMMA LpSharesInitially == LpInit => LpShared
BY DEF LpInit, LpShared, LpShareHolds, LpToldHolds, LpOldHolds, LpQuiet

(* What a publication was told stays true until the deadline it was told:  *)
(* the maintenance deletes rows it read as expired, their files first, and *)
(* a later publication of the same bytes is told of a row still there      *)
(* (publishPartitionReplay, cleanupExpiredReplayData).                     *)
LEMMA LpSharedStep ==
  ASSUME LpTables, LpShared, [LpNext]_lpVars
  PROVE  LpShared'
<1>1. ASSUME UNCHANGED <<lpShare, lpRow, lpFile>>, lpSweep' = lpSweep \/ (lpSweep'.shares = {} /\ lpSweep'.now <= lpNow),
             lpNow' \in {lpNow, lpNow + 1}
      PROVE  LpShared'
  <2>1. lpNow \in Nat /\ lpSweep.now \in Nat /\ lpNow' >= lpNow
    BY <1>1 DEF LpTables, LpSweepRow
  <2>2. \A s \in LpShares : lpShare[s].expires \in Nat
    BY DEF LpTables, LpShareRow
  <2>3. lpSweep'.now <= lpNow'
    <3>1. CASE lpSweep' = lpSweep
      BY <1>1, <2>1, <3>1 DEF LpShared
    <3>2. CASE lpSweep'.shares = {} /\ lpSweep'.now <= lpNow
      <4>1. lpNow' = lpNow \/ lpNow' = lpNow + 1
        BY <1>1
      <4>2. lpSweep' \in LpSweepRow
        BY LpTablesStep DEF LpTables
      <4> QED BY <2>1, <3>2, <4>1, <4>2 DEF LpSweepRow
    <3> QED BY <1>1, <3>1, <3>2
  <2>4. ASSUME NEW s \in LpShares PROVE LpShareHolds(s)' /\ LpToldHolds(s)' /\ LpOldHolds(s)'
    <3>1. LpShareHolds(s) /\ LpToldHolds(s) /\ LpOldHolds(s)
      BY DEF LpShared
    <3>2. lpShare[s].expires > lpNow' => lpShare[s].expires > lpNow
      BY <2>1, <2>2, <1>1
    <3> QED BY <1>1, <3>1, <3>2 DEF LpShareHolds, LpToldHolds, LpOldHolds
  <2> QED BY <2>3, <2>4 DEF LpShared
<1>2. lpNow \in Nat /\ lpSweep.now <= lpNow
  BY DEF LpTables, LpShared
<1>3. CASE UNCHANGED lpVars
  BY <1>1, <1>3 DEF lpVars, lpShareVars
<1>4. CASE LpTick \/ LpArchive \/ \E r \in LpRuns : LpBegin(r)
  BY <1>1, <1>4 DEF LpTick, LpArchive, LpBegin, lpShareVars
<1>5. ASSUME NEW q \in LpCall,
             \/ \E r \in LpRuns, route \in {"v1", "v2"} : LpCheck(q, r, route)
             \/ LpPut(q) \/ LpStored(q) \/ LpBatch(q) \/ LpUndone(q) \/ LpCrash(q) \/ LpReclaim(q) \/ LpErase(q)
      PROVE  LpShared'
  <2>1. UNCHANGED <<lpNow, lpShareVars, lpSweep>>
    BY <1>5 DEF LpCheck, LpPut, LpStored, LpBatch, LpUndone, LpCrash, LpReclaim, LpErase
  <2> QED BY <1>1, <2>1 DEF lpShareVars
<1>6. ASSUME NEW s \in LpShares, NEW at \in {"putting", "stored", "told", "dead"},
             lpShare'[s].at = at, lpShare'[s].is \in LpShares,
             \A o \in LpShares \ {s} : lpShare'[o] = lpShare[o],
             UNCHANGED <<lpNow, lpSweep>>,
             lpShare[s].at \in {"idle", "putting", "stored"},
             LpShareHolds(s)', LpToldHolds(s)',
             s \notin lpFile => \A o \in LpShares \ {s} : o \in lpFile' <=> o \in lpFile,
             s \in lpFile => lpFile' = lpFile,
             \A o \in LpShares \ {s} : o \in lpRow' <=> o \in lpRow
      PROVE  LpShared'
  <2>1. s \notin lpSweep.shares /\ s \notin lpRow
    BY <1>6 DEF LpShared, LpOldHolds, LpShareHolds
  <2>2. ASSUME NEW o \in LpShares, o # s PROVE LpShareHolds(o)' /\ LpToldHolds(o)' /\ LpOldHolds(o)'
    <3>1. /\ LpShareHolds(o) /\ LpToldHolds(o) /\ LpOldHolds(o) /\ lpShare'[o] = lpShare[o]
          /\ (o \in lpFile' <=> o \in lpFile) /\ (o \in lpRow' <=> o \in lpRow)
      BY <1>6, <2>2 DEF LpShared
    <3>2. LpShareHolds(o)'
      BY <1>6, <3>1 DEF LpShareHolds
    <3>3. LpToldHolds(o)'
      <4>1. lpShare[o].at = "told" => lpShare[o].is \in LpShares \ {s}
        BY <1>6, <3>1 DEF LpToldHolds
      <4> QED BY <1>6, <3>1, <4>1 DEF LpToldHolds
    <3>4. LpOldHolds(o)'
      BY <1>6, <3>1 DEF LpOldHolds
    <3> QED BY <3>2, <3>3, <3>4
  <2>3. LpOldHolds(s)'
    BY <1>6, <2>1 DEF LpOldHolds
  <2> QED BY <1>6, <2>2, <2>3 DEF LpShared
<1>7. ASSUME NEW s \in LpShares, LpReuse(s) PROVE LpShared'
  <2>1. PICK o \in lpRow :
          /\ lpShare[o].expires > lpNow
          /\ lpShare' = [lpShare EXCEPT ![s] = [at |-> "told", is |-> o, expires |-> lpShare[o].expires]]
    BY <1>7 DEF LpReuse
  <2>2. UNCHANGED <<lpNow, lpRow, lpFile, lpSweep>> /\ lpShare[s].at = "idle" /\ o \in LpShares
    BY <1>7 DEF LpReuse, LpTables
  <2>3. /\ lpShare'[s] = [at |-> "told", is |-> o, expires |-> lpShare[o].expires]
        /\ \A p \in LpShares \ {s} : lpShare'[p] = lpShare[p]
    BY <2>1 DEF LpTables
  <2>4. s \notin lpFile /\ s \notin lpRow /\ lpShare[o].at \in {"told", "dead"}
    BY <2>2 DEF LpShared, LpShareHolds
  <2>5. LpShareHolds(s)'
    BY <2>2, <2>3, <2>4 DEF LpShareHolds
  <2>6. LpToldHolds(s)'
    BY <2>2, <2>3, <2>4 DEF LpToldHolds
  <2> QED BY <1>6, <2>2, <2>3, <2>5, <2>6
<1>8. ASSUME NEW s \in LpShares, NEW d \in LpDays, LpPublish(s, d) PROVE LpShared'
  <2>1. UNCHANGED <<lpNow, lpRow, lpFile, lpSweep>> /\ lpShare[s].at = "idle"
    BY <1>8 DEF LpPublish
  <2>2. /\ lpShare'[s] = [at |-> "putting", is |-> s, expires |-> lpNow + d]
        /\ \A p \in LpShares \ {s} : lpShare'[p] = lpShare[p]
    BY <1>8 DEF LpPublish, LpTables
  <2>3. s \notin lpFile /\ s \notin lpRow
    BY <2>1 DEF LpShared, LpShareHolds
  <2>4. LpShareHolds(s)' /\ LpToldHolds(s)'
    BY <2>1, <2>2, <2>3 DEF LpShareHolds, LpToldHolds
  <2> QED BY <1>6, <2>1, <2>2, <2>4
<1>9. ASSUME NEW s \in LpShares, LpShareStored(s) PROVE LpShared'
  <2>1. PICK at \in {"stored", "dead"} : lpShare' = [lpShare EXCEPT ![s].at = at]
    BY <1>9 DEF LpShareStored
  <2>2. UNCHANGED <<lpNow, lpRow, lpSweep>> /\ lpShare[s].at = "putting" /\ lpFile' = lpFile \cup {s}
    BY <1>9 DEF LpShareStored
  <2>3. /\ lpShare'[s].at = at /\ lpShare'[s].is = lpShare[s].is
        /\ \A p \in LpShares \ {s} : lpShare'[p] = lpShare[p]
    BY <2>1 DEF LpTables, LpShareRow
  <2>4. s \notin lpFile /\ s \notin lpRow /\ lpShare[s].is = s
    BY <2>2 DEF LpShared, LpShareHolds
  <2>5. LpShareHolds(s)' /\ LpToldHolds(s)'
    BY <2>2, <2>3, <2>4 DEF LpShareHolds, LpToldHolds
  <2> QED BY <1>6, <2>2, <2>3, <2>4, <2>5
<1>10. ASSUME NEW s \in LpShares, LpShareInserted(s) PROVE LpShared'
  <2>1. PICK at \in {"told", "dead"} : lpShare' = [lpShare EXCEPT ![s].at = at]
    BY <1>10 DEF LpShareInserted
  <2>2. UNCHANGED <<lpNow, lpFile, lpSweep>> /\ lpShare[s].at = "stored" /\ lpRow' = lpRow \cup {s}
    BY <1>10 DEF LpShareInserted
  <2>3. /\ lpShare'[s].at = at /\ lpShare'[s].is = lpShare[s].is /\ lpShare'[s].expires = lpShare[s].expires
        /\ \A p \in LpShares \ {s} : lpShare'[p] = lpShare[p]
    BY <2>1 DEF LpTables, LpShareRow
  <2>4. s \in lpFile /\ s \notin lpRow /\ lpShare[s].is = s
    BY <2>2 DEF LpShared, LpShareHolds
  <2>5. LpShareHolds(s)' /\ LpToldHolds(s)'
    BY <2>2, <2>3, <2>4 DEF LpShareHolds, LpToldHolds
  <2> QED BY <1>6, <2>2, <2>3, <2>4, <2>5
<1>11. CASE LpSweepRead
  <2>1. UNCHANGED <<lpNow, lpShare, lpRow, lpFile>>
    BY <1>11 DEF LpSweepRead, lpShareVars
  <2>2. lpSweep'.now = lpNow /\ lpSweep'.at = "read" /\ lpSweep'.shares = {s \in lpRow : lpShare[s].expires <= lpNow}
    BY <1>11 DEF LpSweepRead
  <2> QED BY <1>2, <2>1, <2>2 DEF LpShared, LpShareHolds, LpToldHolds, LpOldHolds
<1>12. CASE LpWipe
  <2>1. UNCHANGED <<lpNow, lpShare, lpRow>> /\ lpFile' = lpFile \ lpSweep.shares
    BY <1>12 DEF LpWipe
  <2>2. lpSweep'.now = lpSweep.now /\ lpSweep'.shares = lpSweep.shares
    BY <1>12 DEF LpWipe, LpTables, LpSweepRow
  <2>3. ASSUME NEW s \in LpShares PROVE LpShareHolds(s)' /\ LpToldHolds(s)' /\ LpOldHolds(s)'
    <3>1. LpShareHolds(s) /\ LpToldHolds(s) /\ LpOldHolds(s)
      BY DEF LpShared
    <3>2. s \in lpSweep.shares => s \in lpRow /\ ~(lpShare[s].expires > lpNow)
      BY <1>2, <3>1 DEF LpOldHolds, LpTables, LpSweepRow, LpShareRow
    <3> QED BY <2>1, <2>2, <3>1, <3>2 DEF LpShareHolds, LpToldHolds, LpOldHolds
  <2> QED BY <1>2, <2>1, <2>2, <2>3 DEF LpShared
<1>13. CASE LpMark
  <2>1. UNCHANGED <<lpNow, lpShare, lpFile>> /\ lpRow' = lpRow \ lpSweep.shares /\ lpSweep.at = "wiped"
    BY <1>13 DEF LpMark
  <2>2. lpSweep'.now = lpSweep.now /\ lpSweep'.shares = {}
    BY <1>13 DEF LpMark, LpTables, LpSweepRow
  <2>3. ASSUME NEW s \in LpShares, s \in lpSweep.shares
        PROVE  s \notin lpFile /\ lpShare[s].at \in {"told", "dead"} /\ ~(lpShare[s].expires > lpNow)
    <3>1. s \in lpRow /\ s \notin lpFile /\ lpShare[s].expires <= lpSweep.now
      BY <2>1, <2>3 DEF LpShared, LpOldHolds
    <3>2. lpShare[s].at \in {"told", "dead"}
      BY <3>1 DEF LpShared, LpShareHolds
    <3> QED BY <1>2, <3>1, <3>2 DEF LpTables, LpSweepRow, LpShareRow
  <2>4. ASSUME NEW s \in LpShares PROVE LpShareHolds(s)' /\ LpToldHolds(s)' /\ LpOldHolds(s)'
    <3>1. LpShareHolds(s) /\ LpToldHolds(s)
      BY DEF LpShared
    <3>2. LpShareHolds(s)' /\ LpOldHolds(s)'
      BY <2>1, <2>2, <2>3, <3>1 DEF LpShareHolds, LpOldHolds
    <3>3. LpToldHolds(s)'
      BY <2>1, <2>3, <3>1 DEF LpToldHolds
    <3> QED BY <3>2, <3>3
  <2> QED BY <1>2, <2>1, <2>2, <2>4 DEF LpShared
<1>14. CASE LpSweepFails
  <2>1. \E at \in {"idle", "purge"} :
          lpSweep' = [at |-> at, now |-> IF at = "idle" THEN 0 ELSE lpSweep.now, scores |-> {}, shares |-> {}]
    BY <1>14 DEF LpSweepFails, LpQuiet
  <2>2. lpSweep'.shares = {} /\ lpSweep'.now <= lpNow
    BY <1>2, <2>1 DEF LpTables, LpSweepRow
  <2>3. UNCHANGED <<lpNow, lpShare, lpRow, lpFile>>
    BY <1>14 DEF LpSweepFails, lpShareVars
  <2> QED BY <1>2, <2>2, <2>3 DEF LpShared, LpShareHolds, LpToldHolds, LpOldHolds
<1>15. CASE LpPurge
  BY <1>1, <1>2, <1>15 DEF LpPurge, LpQuiet, lpShareVars
<1> QED
  BY <1>3, <1>4, <1>5, <1>7, <1>8, <1>9, <1>10, <1>11, <1>12, <1>13, <1>14, <1>15 DEF LpNext

LpInv == LpTyped /\ LpSpent /\ LpKept /\ LpShared

(* The invariant says what a player is promised.                           *)
LEMMA LpInvIsEnough == LpInv => LpSpentAndKept
<1> SUFFICES ASSUME LpInv PROVE LpSpentAndKept
  OBVIOUS
<1> USE DEF LpInv
<1>1. LpTypeOK
  BY LpTypedIsEnough
<1>2. LpTables /\ Never > lpNow
  BY LpNever, LpAssumption DEF LpTyped, LpTables
<1>3. ASSUME NEW q \in LpCall, lpCall[q].at = "taken" PROVE lpRun[lpCall[q].run].by = q
  BY <1>3 DEF LpSpent, LpCallHolds
<1>4. ASSUME NEW q \in LpCall, lpScore[q].row \/ q \in lpErased
      PROVE  /\ lpCall[q].at \in {"taken", "dead"} /\ lpRun[lpCall[q].run].by = q
             /\ lpRun[lpCall[q].run] = [lpRun[lpCall[q].run] EXCEPT !.by = q, !.state = "open"]
  <2>1. lpCall[q].at \in {"taken", "dead"} /\ lpRun[lpCall[q].run].by = q /\ lpCall[q].run \in LpRuns
    BY <1>4 DEF LpSpent, LpCallHolds
  <2>2. lpRun[lpCall[q].run].state = "open"
    BY <2>1, LpAssumption DEF LpSpent, LpRunHolds
  <2>3. lpRun[lpCall[q].run] \in LpRunRow
    BY <1>2, <2>1 DEF LpTables
  <2> QED BY <2>1, <2>2, <2>3 DEF LpRunRow
<1>5. ASSUME NEW r \in LpRuns
      PROVE  lpRun[r].by # LpNobody <=> \E q \in LpCall : lpCall[q].run = r /\ (lpScore[q].row \/ q \in lpErased)
  <2>1. ASSUME lpRun[r].by # LpNobody
        PROVE  \E q \in LpCall : lpCall[q].run = r /\ (lpScore[q].row \/ q \in lpErased)
    <3>1. lpRun[r].by \in LpCall
      BY <1>2, <2>1 DEF LpTables, LpRunRow
    <3> QED BY <2>1, <3>1 DEF LpSpent, LpRunHolds
  <2>2. ASSUME NEW q \in LpCall, lpCall[q].run = r, lpScore[q].row \/ q \in lpErased
        PROVE  lpRun[r].by # LpNobody
    BY <1>4, <2>2, LpAssumption
  <2> QED BY <2>1, <2>2
<1>6. LpSpentOnce
  BY <1>1, <1>3, <1>4, <1>5 DEF LpSpentOnce
<1>7. ASSUME NEW s \in LpShares, lpShare[s].at = "told", lpShare[s].expires > lpNow
      PROVE  lpShare[s].is \in lpRow \cap lpFile
  <2>1. lpShare[s].is \in LpShares /\ lpShare[s].is \in lpRow /\ lpShare[lpShare[s].is].expires = lpShare[s].expires
    BY <1>7 DEF LpShared, LpToldHolds
  <2> QED BY <1>7, <2>1 DEF LpShared, LpShareHolds
<1>8. ASSUME NEW q \in LpCall, lpScore[q].row, lpScore[q].expires > lpNow \/ lpScore[q].expires = Never
      PROVE  q \in lpProof
  BY <1>2, <1>8 DEF LpKept, LpProofHolds
<1>9. ASSUME NEW q \in LpCall, lpScore[q].gone PROVE q \notin lpProof /\ lpScore[q].expires <= lpNow
  BY <1>9 DEF LpKept, LpProofHolds
<1>10. ASSUME NEW q \in lpProof, ~lpScore[q].row
       PROVE  lpCall[q].at \in {"stored", "refused", "dead"} \/ q \in lpErased
  <2>1. q \in LpCall /\ lpCall[q].at \notin {"idle", "checked", "putting"}
    BY <1>2 DEF LpTables, LpKept, LpProofHolds
  <2>2. lpCall[q].at = "taken" => q \in lpErased
    <3>1. lpCall[q].at = "taken" => lpCall[q].run \in LpRuns /\ lpRun[lpCall[q].run].by = q
      BY <2>1 DEF LpSpent, LpCallHolds
    <3> QED BY <1>10, <2>1, <3>1, LpAssumption DEF LpSpent, LpRunHolds
  <2> QED BY <1>2, <2>1, <2>2 DEF LpTables, LpCallRow
<1>11. ASSUME NEW s \in lpFile \ lpRow PROVE lpShare[s].at \in {"stored", "dead"}
  BY <1>2 DEF LpTables, LpShared, LpShareHolds
<1> QED
  BY <1>6, <1>7, <1>8, <1>9, <1>10, <1>11 DEF LpSpentAndKept, LpKeepsItsWord

(* A ranked run of Partition buys one score over the old and the new route *)
(* together, and what a client was told of its score's proof and of its    *)
(* share lasts as long as it was told, whatever Worker ends where and      *)
(* whatever the maintenance does meanwhile (worker.ts, partition-adapter). *)
THEOREM RunIsSpentOnceAndKept == LpSpec => []LpSpentAndKept
<1>1. LpInit => LpInv
  BY LpTypedInitially, LpScoresInitially, LpSharesInitially DEF LpInv
<1>2. LpInv /\ [LpNext]_lpVars => LpInv'
  BY LpSeasonStep, LpTablesStep, LpSpentStep, LpKeptStep, LpSharedStep DEF LpInv, LpTyped
<1> QED BY <1>1, <1>2, LpInvIsEnough, PTL DEF LpSpec

-----------------------------------------------------------------------------
(* A benchmark run                                                         *)

HrScores == {"none", "running", "complete", "failed"}
HrManifest == [status : {"created", "running"} \cup HrFinal, usage : Nat, artifacts : Nat, score : HrScores]
HrLog == [started : Nat, usage : Nat, called : Nat, answered : Nat, artifacts : Nat, finishes : Seq(HrFinal)]
HrPlaces == {"start", "turn", "step", "asking", "heard", "handling", "handled", "closing", "artifacts", "finish", "done",
             "dead", "rejected"}
HrStand == [at : HrPlaces, turn : Nat, idle : Nat, calls : Int, results : Nat, score : HrScores,
            end : {"none"} \cup HrFinal, faults : Nat]
HrSays == [asked : [outputs : Nat, says : BOOLEAN], goesOn : Nat, says : BOOLEAN, tries : Nat]
HrGame == [status : {"running", "complete", "failed"}, closed : BOOLEAN, replay : BOOLEAN]

HrTyped ==
  /\ hrDisk \in [manifest : HrManifest, log : HrLog] /\ hrMemory \in HrManifest
  /\ hrLoop \in HrStand /\ hrDriver \in HrSays /\ hrSession \in HrGame

(* The writes a place of the loop can have before it, and how it can stand. *)
HrQueued ==
  CASE hrLoop.at = "turn" -> hrWrites \in {<<Line("started"), SaveManifest>>, <<SaveManifest>>, <<>>}
    [] hrLoop.at = "heard" -> hrWrites \in {<<SaveManifest, Line("usage")>>, <<Line("usage")>>, <<>>}
    [] hrLoop.at = "handling" -> hrWrites \in {<<Line("called")>>, <<>>}
    [] hrLoop.at = "handled" -> hrWrites \in {<<Line("answered")>>, <<>>}
    [] hrLoop.at = "finish" -> hrWrites \in {<<Line("artifacts"), SaveManifest>>, <<SaveManifest>>, <<>>}
    [] hrLoop.at = "done" -> hrWrites \in {<<Line(hrLoop.end), SaveManifest>>, <<SaveManifest>>, <<>>}
    [] OTHER -> hrWrites = <<>>

HrStopped == {"dead", "rejected"}
HrEnding == {"artifacts", "finish", "done"}
HrEnds ==
  /\ hrLoop.at \in HrEnding => hrLoop.end \in HrFinal
  /\ hrLoop.at = "closing" => hrLoop.end \in {"none", "failed"}
  /\ hrLoop.at \notin HrEnding \cup HrStopped \cup {"closing"} => hrLoop.end = "none"

HrUsageCounted ==
  /\ hrDisk.log.usage <= hrDisk.manifest.usage /\ hrDisk.manifest.usage <= hrMemory.usage
  /\ hrMemory.usage <= hrDisk.log.usage + 1
  /\ hrLoop.end # "failed" /\ hrLoop.at \notin HrStopped =>
       /\ hrLoop.at # "heard" \/ hrWrites = <<>> => hrMemory.usage = hrDisk.log.usage
       /\ hrLoop.at = "heard" /\ hrWrites = <<SaveManifest, Line("usage")>> =>
            hrDisk.manifest.usage = hrDisk.log.usage /\ hrMemory.usage = hrDisk.log.usage + 1
       /\ hrLoop.at = "heard" /\ hrWrites = <<Line("usage")>> => hrDisk.manifest.usage = hrDisk.log.usage + 1

HrCallsCounted ==
  LET unanswered == hrDisk.log.called - hrDisk.log.answered IN
  /\ unanswered \in 0..1
  /\ hrLoop.at \in {"start", "turn", "step", "asking", "heard"} => unanswered = 0
  /\ hrLoop.at = "handling" => unanswered = IF hrWrites = <<>> THEN 1 ELSE 0
  /\ hrLoop.at = "handled" => unanswered = IF hrWrites = <<>> THEN 0 ELSE 1

HrTold ==
  /\ hrLoop.at \in {"start", "turn", "step"} =>
       hrLoop.results = hrDriver.goesOn /\ hrDriver.says = (hrLoop.results = 0)
  /\ hrLoop.at = "asking" =>
       /\ hrDriver.asked.outputs = hrDriver.goesOn /\ hrDriver.asked.says = (hrDriver.asked.outputs = 0)
       /\ hrLoop.results = 0
  /\ hrLoop.at \in {"asking", "heard", "handling", "handled"} => hrDriver.says = FALSE
  /\ hrLoop.at \in {"heard", "handling", "handled"} => hrLoop.results + hrLoop.calls = hrDriver.goesOn
  /\ hrLoop.at = "heard" /\ hrLoop.calls = 0 => hrLoop.results = 0
  /\ hrLoop.at = "handling" => hrLoop.calls > 0
  /\ hrLoop.at = "handled" => hrLoop.results > 0

HrListing == hrLoop.at = "finish" /\ hrWrites = <<Line("artifacts"), SaveManifest>>
HrListed ==
  LET mine == hrMemory.artifacts   man == hrDisk.manifest.artifacts   lines == hrDisk.log.artifacts IN
  /\ ~hrSession.replay => mine = 0 /\ man = 0 /\ lines = 0
  /\ hrLoop.at \in HrEnding /\ hrLoop.end # "failed" => hrSession.replay
  /\ hrLoop.at \notin HrEnding \cup HrStopped /\ hrLoop.end # "failed" => ~hrSession.closed
  /\ HrListing => lines < mine /\ mine <= lines + 2
  /\ hrLoop.at \notin HrStopped /\ ~HrListing => lines <= mine /\ mine <= lines + 1
  /\ hrLoop.at = "done" \/ (hrLoop.at = "finish" /\ hrWrites = <<>>) => man = mine
  /\ hrLoop.end # "failed" /\ hrLoop.at \notin HrStopped =>
       /\ mine = IF hrLoop.at \in {"finish", "done"} THEN 1 ELSE 0
       /\ lines = IF hrLoop.at \in {"finish", "done"} /\ ~HrListing THEN 1 ELSE 0

HrOver ==
  /\ hrMemory.status \in HrFinal /\ hrLoop.faults = 0 => hrLoop.at \in {"done"} \cup HrStopped
  /\ hrDisk.manifest.status \in HrFinal /\ hrLoop.faults = 0 => hrLoop.at = "done" /\ hrWrites = <<>>
  /\ hrLoop.at = "done" =>
       /\ hrMemory.status = hrLoop.end
       /\ hrWrites # <<Line(hrLoop.end), SaveManifest>> =>
            hrDisk.log.finishes # <<>> /\ hrDisk.log.finishes[Len(hrDisk.log.finishes)] = hrLoop.end
       /\ hrWrites = <<>> => hrDisk.manifest.status = hrLoop.end

HrBacked(manifest) ==
  /\ manifest.status = "complete" => hrSession.status = "complete" /\ manifest.score = "complete"
  /\ manifest.status = "aborted" => hrLoop.turn = HrTurns

HrEarned ==
  /\ HrBacked(hrMemory) /\ HrBacked(hrDisk.manifest)
  /\ hrLoop.at = "closing" /\ hrLoop.end = "none" => hrSession.status = "complete" \/ hrLoop.turn = HrTurns
  /\ hrLoop.at \in HrEnding /\ hrLoop.end = "complete" => hrSession.status = "complete" /\ hrLoop.score = "complete"
  /\ hrLoop.at \in HrEnding /\ hrLoop.end = "aborted" => hrLoop.turn = HrTurns
  /\ hrLoop.end = "none" => hrLoop.score \in {"none", "complete"}
  /\ hrMemory.status = "aborted" \/ hrDisk.manifest.status = "aborted" => hrLoop.at \in {"closing", "dead", "rejected"} \cup HrEnding

HrInv ==
  HrTyped /\ HrQueued /\ HrEnds /\ HrUsageCounted /\ HrCallsCounted /\ HrTold /\ HrListed /\ HrOver /\ HrEarned

HrLogs(e) == hrDisk' = [hrDisk EXCEPT !.log = [hrDisk.log EXCEPT ![e] = @ + 1]]
HrSaves == hrDisk' = [hrDisk EXCEPT !.manifest = hrMemory]
HrEndLogged == hrDisk' = [hrDisk EXCEPT !.log = [hrDisk.log EXCEPT !.finishes = Append(@, hrLoop.end)]]

(* A queue of one write.                                                   *)
LEMMA HrQueueOfOne ==
  ASSUME NEW a PROVE <<a>> # <<>> /\ Head(<<a>>) = a /\ Tail(<<a>>) = <<>>
OBVIOUS

(* A queue of two writes.                                                  *)
LEMMA HrQueueOfTwo ==
  ASSUME NEW a, NEW b
  PROVE  <<a, b>> # <<>> /\ <<a, b>> # <<a>> /\ <<a, b>> # <<b>> /\ Head(<<a, b>>) = a /\ Tail(<<a, b>>) = <<b>>
OBVIOUS

(* The queues a call of the store leaves are told apart.                   *)
LEMMA HrQueues ==
  /\ <<Line("usage")>> # <<>> /\ <<Line("called")>> # <<>> /\ <<Line("answered")>> # <<>> /\ <<SaveManifest>> # <<>>
  /\ <<SaveManifest, Line("usage")>> # <<>> /\ <<SaveManifest, Line("usage")>> # <<Line("usage")>>
  /\ <<Line("artifacts"), SaveManifest>> # <<>> /\ <<Line("artifacts"), SaveManifest>> # <<SaveManifest>>
  /\ <<Line(hrLoop.end), SaveManifest>> # <<>> /\ <<Line(hrLoop.end), SaveManifest>> # <<SaveManifest>>
OBVIOUS

(* A write is one of eight: which queue it is taken from says where the    *)
(* loop stands and what it does to the directory (RunStore).               *)
LEMMA HrWriteForms ==
  ASSUME HrTyped, HrQueued, HrEnds, HrWrite
  PROVE  /\ UNCHANGED <<hrMemory, hrLoop, hrDriver, hrSession>>
         /\ \/ hrLoop.at = "turn" /\ hrWrites = <<Line("started"), SaveManifest>> /\ hrWrites' = <<SaveManifest>> /\ HrLogs("started")
            \/ hrLoop.at \in {"turn", "finish", "done"} /\ hrWrites = <<SaveManifest>> /\ hrWrites' = <<>> /\ HrSaves
            \/ hrLoop.at = "heard" /\ hrWrites = <<SaveManifest, Line("usage")>> /\ hrWrites' = <<Line("usage")>> /\ HrSaves
            \/ hrLoop.at = "heard" /\ hrWrites = <<Line("usage")>> /\ hrWrites' = <<>> /\ HrLogs("usage")
            \/ hrLoop.at = "handling" /\ hrWrites = <<Line("called")>> /\ hrWrites' = <<>> /\ HrLogs("called")
            \/ hrLoop.at = "handled" /\ hrWrites = <<Line("answered")>> /\ hrWrites' = <<>> /\ HrLogs("answered")
            \/ /\ hrLoop.at = "finish" /\ hrWrites = <<Line("artifacts"), SaveManifest>> /\ hrWrites' = <<SaveManifest>>
               /\ HrLogs("artifacts")
            \/ /\ hrLoop.at = "done" /\ hrWrites = <<Line(hrLoop.end), SaveManifest>> /\ hrWrites' = <<SaveManifest>>
               /\ hrLoop.end \in HrFinal /\ HrEndLogged
<1> DEFINE w == Head(hrWrites)
<1>1. /\ UNCHANGED <<hrMemory, hrLoop, hrDriver, hrSession>> /\ hrWrites # <<>> /\ hrWrites' = Tail(hrWrites)
      /\ w.kind = "save" => HrSaves
      /\ w.kind # "save" => hrDisk' = [hrDisk EXCEPT !.log = LogWith(hrDisk.log, w)]
  BY DEF HrWrite, HrSaves
<1> HIDE DEF w
<1>2. ASSUME NEW e \in {"started", "usage", "called", "answered", "artifacts"}, w = Line(e) PROVE HrLogs(e)
  BY <1>1, <1>2 DEF HrLogs, LogWith, Line, HrFinal
<1>3. w = SaveManifest => HrSaves
  BY <1>1 DEF SaveManifest
<1>4. hrLoop.end \in HrFinal /\ w = Line(hrLoop.end) => HrEndLogged
  BY <1>1 DEF HrEndLogged, LogWith, Line, HrFinal
<1>5. CASE hrLoop.at = "turn"
  <2>1. CASE hrWrites = <<Line("started"), SaveManifest>>
    <3>1. w = Line("started") /\ hrWrites' = <<SaveManifest>>
      BY <1>1, <2>1, HrQueueOfTwo DEF w
    <3> QED BY <1>1, <1>2, <1>3, <1>5, <2>1, <3>1
  <2>2. CASE hrWrites = <<SaveManifest>>
    <3>1. w = SaveManifest /\ hrWrites' = <<>>
      BY <1>1, <2>2, HrQueueOfOne DEF w
    <3> QED BY <1>1, <1>2, <1>3, <1>5, <2>2, <3>1
  <2> QED BY <1>1, <1>5, <2>1, <2>2 DEF HrQueued
<1>6. CASE hrLoop.at = "heard"
  <2>1. CASE hrWrites = <<SaveManifest, Line("usage")>>
    <3>1. w = SaveManifest /\ hrWrites' = <<Line("usage")>>
      BY <1>1, <2>1, HrQueueOfTwo DEF w
    <3> QED BY <1>1, <1>2, <1>3, <1>6, <2>1, <3>1
  <2>2. CASE hrWrites = <<Line("usage")>>
    <3>1. w = Line("usage") /\ hrWrites' = <<>>
      BY <1>1, <2>2, HrQueueOfOne DEF w
    <3> QED BY <1>1, <1>2, <1>3, <1>6, <2>2, <3>1
  <2> QED BY <1>1, <1>6, <2>1, <2>2 DEF HrQueued
<1>7. CASE hrLoop.at \in {"handling", "handled"}
  <2>1. ASSUME NEW e \in {"called", "answered"}, hrWrites = <<Line(e)>> PROVE hrWrites' = <<>> /\ HrLogs(e)
    <3>1. w = Line(e) /\ hrWrites' = <<>>
      BY <1>1, <2>1, HrQueueOfOne DEF w
    <3> QED BY <1>2, <3>1
  <2> QED BY <1>1, <1>7, <2>1 DEF HrQueued
<1>8. CASE hrLoop.at = "finish"
  <2>1. CASE hrWrites = <<Line("artifacts"), SaveManifest>>
    <3>1. w = Line("artifacts") /\ hrWrites' = <<SaveManifest>>
      BY <1>1, <2>1, HrQueueOfTwo DEF w
    <3> QED BY <1>1, <1>2, <1>3, <1>8, <2>1, <3>1
  <2>2. CASE hrWrites = <<SaveManifest>>
    <3>1. w = SaveManifest /\ hrWrites' = <<>>
      BY <1>1, <2>2, HrQueueOfOne DEF w
    <3> QED BY <1>1, <1>2, <1>3, <1>8, <2>2, <3>1
  <2> QED BY <1>1, <1>8, <2>1, <2>2 DEF HrQueued
<1>9. CASE hrLoop.at = "done"
  <2>1. hrLoop.end \in HrFinal
    BY <1>9 DEF HrEnds, HrEnding
  <2>2. CASE hrWrites = <<Line(hrLoop.end), SaveManifest>>
    <3>1. w = Line(hrLoop.end) /\ hrWrites' = <<SaveManifest>>
      BY <1>1, <2>2, HrQueueOfTwo DEF w
    <3> QED BY <1>1, <1>4, <1>9, <2>1, <2>2, <3>1
  <2>3. CASE hrWrites = <<SaveManifest>>
    <3>1. w = SaveManifest /\ hrWrites' = <<>>
      BY <1>1, <2>3, HrQueueOfOne DEF w
    <3> QED BY <1>1, <1>3, <1>9, <2>3, <3>1
  <2> QED BY <1>1, <1>9, <2>2, <2>3 DEF HrQueued
<1> QED
  BY <1>1, <1>5, <1>6, <1>7, <1>8, <1>9 DEF HrQueued

(* A line in the log counts one event and leaves the manifest.             *)
LEMMA HrLogged ==
  ASSUME HrTyped, NEW e \in {"started", "usage", "called", "answered", "artifacts"}, HrLogs(e)
  PROVE  /\ hrDisk'.manifest = hrDisk.manifest /\ hrDisk'.log \in HrLog /\ hrDisk'.log.finishes = hrDisk.log.finishes
         /\ hrDisk'.log.usage = IF e = "usage" THEN hrDisk.log.usage + 1 ELSE hrDisk.log.usage
         /\ hrDisk'.log.called = IF e = "called" THEN hrDisk.log.called + 1 ELSE hrDisk.log.called
         /\ hrDisk'.log.answered = IF e = "answered" THEN hrDisk.log.answered + 1 ELSE hrDisk.log.answered
         /\ hrDisk'.log.artifacts = IF e = "artifacts" THEN hrDisk.log.artifacts + 1 ELSE hrDisk.log.artifacts
         /\ hrDisk' = [manifest |-> hrDisk'.manifest, log |-> hrDisk'.log]
<1> DEFINE lines == [hrDisk.log EXCEPT ![e] = @ + 1]
<1>1. hrDisk \in [manifest : HrManifest, log : HrLog] /\ hrDisk.log \in HrLog
  BY DEF HrTyped
<1>2. lines \in HrLog /\ lines.finishes = hrDisk.log.finishes
  BY <1>1 DEF HrLog
<1>3. /\ lines.usage = IF e = "usage" THEN hrDisk.log.usage + 1 ELSE hrDisk.log.usage
      /\ lines.called = IF e = "called" THEN hrDisk.log.called + 1 ELSE hrDisk.log.called
      /\ lines.answered = IF e = "answered" THEN hrDisk.log.answered + 1 ELSE hrDisk.log.answered
      /\ lines.artifacts = IF e = "artifacts" THEN hrDisk.log.artifacts + 1 ELSE hrDisk.log.artifacts
  BY <1>1 DEF HrLog
<1>4. hrDisk' = [hrDisk EXCEPT !.log = lines]
  BY DEF HrLogs
<1> HIDE DEF lines
<1>5. hrDisk'.manifest = hrDisk.manifest /\ hrDisk'.log = lines /\ hrDisk' = [manifest |-> hrDisk'.manifest, log |-> hrDisk'.log]
  BY <1>1, <1>4
<1> QED BY <1>2, <1>3, <1>5

(* The line that ends a run is the last of its ends, and leaves the        *)
(* manifest.                                                               *)
LEMMA HrEndingLogged ==
  ASSUME HrTyped, hrLoop.end \in HrFinal, HrEndLogged
  PROVE  /\ hrDisk'.manifest = hrDisk.manifest /\ hrDisk'.log \in HrLog
         /\ hrDisk'.log.usage = hrDisk.log.usage /\ hrDisk'.log.called = hrDisk.log.called
         /\ hrDisk'.log.answered = hrDisk.log.answered /\ hrDisk'.log.artifacts = hrDisk.log.artifacts
         /\ hrDisk'.log.finishes # <<>> /\ hrDisk'.log.finishes[Len(hrDisk'.log.finishes)] = hrLoop.end
         /\ hrDisk' = [manifest |-> hrDisk'.manifest, log |-> hrDisk'.log]
<1> DEFINE finishes == Append(hrDisk.log.finishes, hrLoop.end)
           lines == [hrDisk.log EXCEPT !.finishes = finishes]
<1>1. hrDisk \in [manifest : HrManifest, log : HrLog] /\ hrDisk.log \in HrLog /\ hrDisk.log.finishes \in Seq(HrFinal)
  BY DEF HrTyped, HrLog
<1>2. finishes \in Seq(HrFinal) /\ finishes # <<>> /\ finishes[Len(finishes)] = hrLoop.end
  BY <1>1
<1> HIDE DEF finishes
<1>3. /\ lines \in HrLog /\ lines.finishes = finishes /\ lines.usage = hrDisk.log.usage /\ lines.called = hrDisk.log.called
      /\ lines.answered = hrDisk.log.answered /\ lines.artifacts = hrDisk.log.artifacts
  BY <1>1, <1>2 DEF HrLog
<1>4. hrDisk' = [hrDisk EXCEPT !.log = lines]
  BY DEF HrEndLogged, finishes
<1> HIDE DEF lines
<1>5. hrDisk'.manifest = hrDisk.manifest /\ hrDisk'.log = lines /\ hrDisk' = [manifest |-> hrDisk'.manifest, log |-> hrDisk'.log]
  BY <1>1, <1>4
<1> QED BY <1>2, <1>3, <1>5

(* A saved manifest is the one in memory, and leaves the log.              *)
LEMMA HrSaved ==
  ASSUME HrTyped, HrSaves
  PROVE  /\ hrDisk'.manifest = hrMemory /\ hrDisk'.log = hrDisk.log
         /\ hrDisk' = [manifest |-> hrDisk'.manifest, log |-> hrDisk'.log]
BY DEF HrTyped, HrSaves

(* The loop in another place.                                              *)
LEMMA HrMoved ==
  ASSUME NEW loop \in HrStand, NEW at \in HrPlaces PROVE [loop EXCEPT !.at = at] \in HrStand
BY DEF HrStand

(* The loop in another place, with its calls and results counted.          *)
LEMMA HrMovedOn ==
  ASSUME NEW loop \in HrStand, NEW at \in HrPlaces, NEW calls \in Int, NEW results \in Nat
  PROVE  /\ [loop EXCEPT !.at = at, !.calls = calls] \in HrStand
         /\ [loop EXCEPT !.at = at, !.results = results, !.calls = calls] \in HrStand
BY DEF HrStand

(* What is thrown in the loop leads to its catch, and from the catch out   *)
(* of it (runHarness).                                                     *)
LEMMA HrThrows ==
  ASSUME NEW loop \in HrStand
  PROVE  /\ Thrown(loop) \in HrStand /\ Thrown(loop).end = "failed"
         /\ Thrown(loop).at = IF loop.end = "failed" THEN "rejected" ELSE "closing"
         /\ Thrown(loop).turn = loop.turn /\ Thrown(loop).faults = loop.faults /\ Thrown(loop).score = loop.score
         /\ Thrown(loop).results = loop.results /\ Thrown(loop).calls = loop.calls
BY DEF Thrown, HrStand, HrPlaces, HrFinal

(* session.close brings the loop to the artifacts, with the replay written *)
(* the first time, or fails before it marks the replay (runHarness,        *)
(* close).                                                                 *)
LEMMA HrCloseForms ==
  ASSUME HrTyped, NEW writes \in BOOLEAN, HrClose(writes)
  PROVE  /\ hrLoop.at = "closing" /\ hrWrites = <<>> /\ UNCHANGED <<hrDisk, hrMemory, hrWrites, hrDriver>>
         /\ hrSession' \in HrGame /\ hrSession'.status = hrSession.status
         /\ hrSession.replay => hrSession'.replay
         /\ ~hrSession.replay /\ (hrSession.closed \/ ~writes) => ~hrSession'.replay
         /\ hrLoop' \in HrStand /\ hrLoop'.turn = hrLoop.turn
         /\ \/ /\ hrLoop'.at = "artifacts" /\ hrLoop'.faults = hrLoop.faults
               /\ hrLoop.end = "failed" => hrLoop'.end = "failed" 
               /\ hrLoop.end # "failed" =>
                    /\ hrLoop'.end = IF hrSession.status = "complete" THEN "complete" ELSE "aborted"
                    /\ hrLoop'.score = IF hrLoop.score = "none" THEN hrSession.status ELSE hrLoop.score
               /\ ~hrSession.closed => hrSession'.replay
            \/ /\ hrLoop'.at \in {"closing", "rejected"} /\ hrLoop'.end = "failed" /\ hrLoop'.faults = hrLoop.faults + 1
               /\ hrLoop'.at = "rejected" <=> hrLoop.end = "failed" 
<1>0. hrLoop \in HrStand /\ hrSession \in HrGame /\ hrSession.status \in {"running", "complete", "failed"} 
  BY DEF HrTyped, HrGame
<1> DEFINE seen == IF hrLoop.end = "failed" THEN hrLoop
                   ELSE [hrLoop EXCEPT !.end = IF hrSession.status = "complete" THEN "complete" ELSE "aborted",
                                       !.score = IF @ = "none" THEN hrSession.status ELSE @]
           replay == hrSession.replay \/ (~hrSession.closed /\ writes)
<1>1. /\ hrLoop.at = "closing" /\ hrWrites = <<>> /\ UNCHANGED <<hrDisk, hrMemory, hrWrites, hrDriver>>
      /\ hrSession' = [hrSession EXCEPT !.closed = TRUE, !.replay = replay]
      /\ IF hrSession.closed \/ writes THEN hrLoop' = [seen EXCEPT !.at = "artifacts"]
         ELSE hrLoop.faults < HrFaults /\ hrLoop' = [Thrown(seen) EXCEPT !.faults = @ + 1]
  BY DEF HrClose, Written
<1>2. /\ seen \in HrStand /\ seen.turn = hrLoop.turn /\ seen.faults = hrLoop.faults
      /\ hrLoop.end = "failed" => seen.end = "failed"
      /\ hrLoop.end # "failed" =>
           /\ seen.end = IF hrSession.status = "complete" THEN "complete" ELSE "aborted"
           /\ seen.score = IF hrLoop.score = "none" THEN hrSession.status ELSE hrLoop.score
  BY <1>0 DEF HrStand, HrFinal, HrScores
<1> HIDE DEF seen
<1>3. hrSession' \in HrGame /\ hrSession'.status = hrSession.status
  <2>1. replay \in BOOLEAN
    BY <1>0 DEF HrGame
  <2> HIDE DEF replay
  <2> QED BY <1>0, <1>1, <2>1 DEF HrGame
<1>4. hrSession'.replay = replay
  <2> HIDE DEF replay
  <2> QED BY <1>0, <1>1 DEF HrGame
<1>5. CASE hrSession.closed \/ writes
  <2>1. hrLoop' = [seen EXCEPT !.at = "artifacts"]
    BY <1>1, <1>5
  <2>2. /\ hrLoop' \in HrStand /\ hrLoop'.at = "artifacts" /\ hrLoop'.turn = seen.turn /\ hrLoop'.faults = seen.faults
        /\ hrLoop'.end = seen.end /\ hrLoop'.score = seen.score
    BY <1>2, <2>1 DEF HrStand, HrPlaces
  <2>3. ~hrSession.closed => hrSession'.replay
    BY <1>4, <1>5, Zenon
  <2>4. (hrSession.replay => hrSession'.replay) /\ (~hrSession.replay /\ (hrSession.closed \/ ~writes) => ~hrSession'.replay)
    BY <1>4, Zenon
  <2> QED BY <1>1, <1>2, <1>3, <2>2, <2>3, <2>4
<1>6. CASE ~(hrSession.closed \/ writes)
  <2>1. hrLoop' = [Thrown(seen) EXCEPT !.faults = @ + 1]
    BY <1>1, <1>6
  <2>2. Thrown(seen) \in HrStand /\ Thrown(seen).end = "failed" /\ Thrown(seen).turn = hrLoop.turn
        /\ Thrown(seen).faults = hrLoop.faults /\ Thrown(seen).at = IF seen.end = "failed" THEN "rejected" ELSE "closing"
    BY <1>2, HrThrows
  <2>3. /\ hrLoop' \in HrStand /\ hrLoop'.at = Thrown(seen).at /\ hrLoop'.end = "failed" /\ hrLoop'.turn = hrLoop.turn
        /\ hrLoop'.faults = hrLoop.faults + 1
    BY <2>1, <2>2 DEF HrStand
  <2>4. (hrSession.replay => hrSession'.replay) /\ (~hrSession.replay /\ (hrSession.closed \/ ~writes) => ~hrSession'.replay)
    BY <1>4, Zenon
  <2>5. seen.end = "failed" <=> hrLoop.end = "failed"
    BY <1>2
  <2> QED BY <1>1, <1>3, <2>2, <2>3, <2>4, <2>5
<1> QED BY <1>5, <1>6

(* Every step keeps the shape of the run.                                  *)
LEMMA HrTypedStep ==
  ASSUME HrTyped, HrQueued, HrEnds, [HrNext]_hrVars
  PROVE  HrTyped'
<1>1. CASE UNCHANGED hrVars
  BY <1>1 DEF hrVars, HrTyped, HrStand, HrManifest, HrSays, HrGame, HrFinal, HrPlaces
<1>2. CASE HrWrite
  <2>0. UNCHANGED <<hrMemory, hrLoop, hrDriver, hrSession>>
    BY <1>2, HrWriteForms
  <2>1. CASE hrLoop.at = "turn" /\ hrWrites = <<Line("started"), SaveManifest>> /\ hrWrites' = <<SaveManifest>> /\ HrLogs("started")
    BY <2>0, <2>1, HrLogged, HrQueues DEF HrTyped
  <2>2. CASE hrLoop.at \in {"turn", "finish", "done"} /\ hrWrites = <<SaveManifest>> /\ hrWrites' = <<>> /\ HrSaves
    BY <2>0, <2>2, HrSaved, HrQueues DEF HrTyped
  <2>3. CASE hrLoop.at = "heard" /\ hrWrites = <<SaveManifest, Line("usage")>> /\ hrWrites' = <<Line("usage")>> /\ HrSaves
    BY <2>0, <2>3, HrSaved, HrQueues DEF HrTyped
  <2>4. CASE hrLoop.at = "heard" /\ hrWrites = <<Line("usage")>> /\ hrWrites' = <<>> /\ HrLogs("usage")
    BY <2>0, <2>4, HrLogged, HrQueues DEF HrTyped
  <2>5. CASE hrLoop.at = "handling" /\ hrWrites = <<Line("called")>> /\ hrWrites' = <<>> /\ HrLogs("called")
    BY <2>0, <2>5, HrLogged, HrQueues DEF HrTyped
  <2>6. CASE hrLoop.at = "handled" /\ hrWrites = <<Line("answered")>> /\ hrWrites' = <<>> /\ HrLogs("answered")
    BY <2>0, <2>6, HrLogged, HrQueues DEF HrTyped
  <2>7. CASE hrLoop.at = "finish" /\ hrWrites = <<Line("artifacts"), SaveManifest>> /\ hrWrites' = <<SaveManifest>> /\ HrLogs("artifacts")
    BY <2>0, <2>7, HrLogged, HrQueues DEF HrTyped
  <2>8. CASE hrLoop.at = "done" /\ hrWrites = <<Line(hrLoop.end), SaveManifest>> /\ hrWrites' = <<SaveManifest>> /\ hrLoop.end \in HrFinal /\ HrEndLogged
    BY <2>0, <2>8, HrEndingLogged, HrQueues DEF HrTyped
  <2> QED BY <1>2, <2>1, <2>2, <2>3, <2>4, <2>5, <2>6, <2>7, <2>8, HrWriteForms
<1>3. CASE HrWriteFails
  <2>0. hrLoop \in HrStand /\ Thrown(hrLoop) \in HrStand
    BY HrThrows DEF HrTyped
  <2>1. hrLoop' = [hrLoop EXCEPT !.at = "rejected"] \/ hrLoop' = [Thrown(hrLoop) EXCEPT !.faults = hrLoop.faults + 1]
    BY <1>3, HrThrows, <2>0 DEF HrWriteFails, HrStand
  <2>2. hrLoop' \in HrStand
    <3>1. hrLoop.faults + 1 \in Nat
      BY <2>0 DEF HrStand
    <3> HIDE DEF HrStand
    <3>2. [Thrown(hrLoop) EXCEPT !.faults = hrLoop.faults + 1] \in HrStand
      BY <2>0, <3>1 DEF HrStand
    <3> QED BY <2>0, <2>1, <3>2, HrMoved DEF HrPlaces
  <2> QED BY <2>2, <1>3 DEF HrWriteFails, HrTyped
<1>4. CASE HrStart
  BY HrAssumption, <1>4 DEF HrStart, HrTyped, HrStand, HrManifest, HrSays, HrGame, HrFinal, HrPlaces
<1>5. CASE HrTurn
  <2>0. hrLoop \in HrStand /\ hrSession.status \in {"running", "complete", "failed"}
    BY DEF HrTyped, HrGame
  <2> DEFINE next == [hrLoop EXCEPT !.turn = hrLoop.turn + 1]
  <2>1. next \in HrStand
    BY <2>0 DEF HrStand
  <2>2. \/ hrLoop' = [hrLoop EXCEPT !.at = "closing"]
        \/ hrLoop' = [next EXCEPT !.score = hrSession.status, !.at = "closing"]
        \/ hrLoop' = Thrown(next)
        \/ hrLoop' = [next EXCEPT !.at = "step"]
    BY <1>5, <2>0 DEF HrTurn, HrStand
  <2> HIDE DEF next
  <2>3. hrLoop' \in HrStand
    <3>1. [next EXCEPT !.score = hrSession.status] \in HrStand
      BY <2>0, <2>1 DEF HrStand, HrScores
    <3>2. [next EXCEPT !.score = hrSession.status, !.at = "closing"] = [[next EXCEPT !.score = hrSession.status] EXCEPT !.at = "closing"]
      BY <2>1 DEF HrStand
    <3>3. {"closing", "step"} \subseteq HrPlaces
      BY DEF HrPlaces
    <3>4. CASE hrLoop' = [hrLoop EXCEPT !.at = "closing"]
      BY <2>0, <3>3, <3>4, HrMoved
    <3>5. CASE hrLoop' = [next EXCEPT !.score = hrSession.status, !.at = "closing"]
      BY <3>1, <3>2, <3>3, <3>5, HrMoved
    <3>6. CASE hrLoop' = Thrown(next)
      BY <2>1, <3>6, HrThrows
    <3>7. CASE hrLoop' = [next EXCEPT !.at = "step"]
      BY <2>1, <3>3, <3>7, HrMoved
    <3> QED BY <2>2, <3>4, <3>5, <3>6, <3>7
  <2> QED BY <2>3, <1>5 DEF HrTurn, HrTyped
<1>6. CASE HrStep
  BY HrAssumption, <1>6 DEF HrStep, Written, HrTyped, HrStand, HrManifest, HrSays, HrGame, HrFinal, HrPlaces
<1>7. CASE HrRetry
  BY HrAssumption, <1>7 DEF HrRetry, HrTyped, HrStand, HrManifest, HrSays, HrGame, HrFinal, HrPlaces
<1>8. CASE HrRefused
  <2>0. hrLoop \in HrStand /\ hrDriver \in HrSays /\ hrSession \in HrGame /\ hrMemory \in HrManifest
    BY DEF HrTyped
  <2>1. hrLoop' \in HrStand
    BY <2>0, <1>8, HrThrows DEF HrRefused, HrStand, HrPlaces
  <2> QED BY <2>0, <2>1, <1>8 DEF HrRefused, Thrown, HrTyped
<1>9. CASE HrIdleTurn
  <2>0. hrLoop \in HrStand /\ hrDriver \in HrSays
    BY DEF HrTyped
  <2> DEFINE next == [hrLoop EXCEPT !.idle = hrLoop.idle + 1]
  <2>1. next \in HrStand
    BY <2>0 DEF HrStand
  <2>2. hrLoop' = Thrown(next) \/ hrLoop' = [next EXCEPT !.at = "turn"]
    BY <1>9, <2>0 DEF HrIdleTurn, HrStand
  <2> HIDE DEF next
  <2>3. hrLoop' \in HrStand
    BY <2>1, <2>2, HrThrows DEF HrStand, HrPlaces
  <2>4. hrDriver' \in HrSays
    BY <2>0, <1>9 DEF HrIdleTurn, HrSays
  <2> QED BY <2>3, <2>4, <1>9 DEF HrIdleTurn, HrTyped
<1>10. ASSUME NEW n \in 0..HrCalls, HrAnswered(n)
      PROVE  HrTyped'
  <2>0. hrLoop \in HrStand /\ hrDriver \in HrSays /\ hrMemory \in HrManifest /\ n \in Nat
    BY HrAssumption DEF HrTyped
  <2>1. hrLoop' \in HrStand
    <3>1. hrLoop' = [hrLoop EXCEPT !.at = "heard", !.calls = n] /\ "heard" \in HrPlaces
      BY <1>10 DEF HrAnswered, HrPlaces
    <3>2. n \in Int /\ hrLoop.results \in Nat
      BY <2>0 DEF HrStand
    <3> QED BY <2>0, <3>1, <3>2, HrMovedOn
  <2>2. hrDriver' \in HrSays
    BY <2>0, <1>10 DEF HrAnswered, HrSays
  <2>3. hrMemory' \in HrManifest
    BY <2>0, <1>10 DEF HrAnswered, AddUsage, HrManifest
  <2> QED BY <2>1, <2>2, <2>3, <1>10 DEF HrAnswered, HrTyped
<1>11. CASE HrCall
  <2>0. hrLoop \in HrStand /\ hrDriver \in HrSays /\ hrSession \in HrGame /\ hrMemory \in HrManifest
    BY DEF HrTyped
  <2>1. hrLoop' \in HrStand
    BY <2>0, <1>11, HrThrows DEF HrCall, Written, HrStand, HrPlaces
  <2> QED BY <2>0, <2>1, <1>11 DEF HrCall, Written, HrTyped
<1>12. CASE HrHandled
  <2>0. hrLoop \in HrStand
    BY DEF HrTyped
  <2>1. /\ hrLoop' = [hrLoop EXCEPT !.at = "handled", !.results = hrLoop.results + 1, !.calls = hrLoop.calls - 1]
        /\ "handled" \in HrPlaces /\ hrLoop.results + 1 \in Nat /\ hrLoop.calls - 1 \in Int
    BY <1>12, <2>0 DEF HrHandled, HrPlaces, HrStand
  <2>2. hrLoop' \in HrStand
    BY <2>0, <2>1, HrMovedOn
  <2> QED BY <2>2, <1>12 DEF HrHandled, HrTyped
<1>13. CASE HrAfterTool
  <2>0. hrLoop \in HrStand /\ hrDriver \in HrSays /\ hrSession \in HrGame /\ hrMemory \in HrManifest
    BY DEF HrTyped
  <2>1. hrLoop' \in HrStand
    BY <2>0, <1>13, HrThrows DEF HrAfterTool, Written, HrStand, HrPlaces, HrGame, HrScores
  <2> QED BY <2>0, <2>1, <1>13 DEF HrAfterTool, Thrown, Written, HrTyped
<1>14. ASSUME NEW writes \in BOOLEAN, HrClose(writes)
      PROVE  HrTyped'
  BY <1>14, HrCloseForms DEF HrTyped
<1>15. CASE HrArtifacts
  <2>0. hrLoop \in HrStand /\ hrDriver \in HrSays /\ hrSession \in HrGame /\ hrMemory \in HrManifest
    BY DEF HrTyped
  <2>1. hrLoop' \in HrStand
    BY <2>0, <1>15, HrThrows DEF HrArtifacts, AddArtifact, Written, HrStand, HrPlaces
  <2>2. hrMemory' \in HrManifest
    BY <2>0, <1>15, HrThrows DEF HrArtifacts, AddArtifact, Written, HrManifest
  <2> QED BY <2>0, <2>1, <2>2, <1>15 DEF HrArtifacts, AddArtifact, Written, HrTyped
<1>16. CASE HrFinish
  <2>1. hrLoop \in HrStand /\ hrMemory \in HrManifest /\ hrLoop.end \in HrFinal
    BY <1>16 DEF HrTyped, HrFinish, HrEnds, HrEnding
  <2>2. hrLoop' \in HrStand
    BY <2>1, <1>16 DEF HrFinish, HrStand, HrPlaces
  <2>3. hrMemory' \in HrManifest
    BY <2>1, <1>16 DEF HrFinish, Finish, FinishMemory, HrManifest, HrStand
  <2> QED BY <2>2, <2>3, <1>16 DEF HrFinish, HrTyped
<1>17. CASE HrDies
  <2>1. hrLoop \in HrStand /\ hrLoop' = [hrLoop EXCEPT !.at = "dead"] /\ "dead" \in HrPlaces
    BY <1>17 DEF HrDies, HrTyped, HrPlaces
  <2>2. hrLoop' \in HrStand
    BY <2>1 DEF HrStand
  <2> QED BY <2>2, <1>17 DEF HrDies, HrTyped
<1>18. ASSUME NEW status \in {"complete", "failed"}, HrPlay(status)
      PROVE  HrTyped'
  BY HrAssumption, <1>18 DEF HrPlay, HrTyped, HrStand, HrManifest, HrSays, HrGame, HrFinal, HrPlaces
<1> QED BY <1>1, <1>2, <1>3, <1>4, <1>5, <1>6, <1>7, <1>8, <1>9, <1>10, <1>11, <1>12, <1>13, <1>14, <1>15, <1>16, <1>17, <1>18 DEF HrNext

(* The queue of writes goes with the place of the loop.                    *)
LEMMA HrQueuedStep ==
  ASSUME HrTyped, HrQueued, HrEnds, [HrNext]_hrVars
  PROVE  HrQueued'
<1>1. CASE UNCHANGED hrVars
  BY <1>1 DEF hrVars, HrQueued, HrTyped, HrStand
<1>2. CASE HrWrite
  <2>0. UNCHANGED <<hrMemory, hrLoop, hrDriver, hrSession>>
    BY <1>2, HrWriteForms
  <2>1. CASE hrLoop.at = "turn" /\ hrWrites = <<Line("started"), SaveManifest>> /\ hrWrites' = <<SaveManifest>> /\ HrLogs("started")
    BY <2>0, <2>1, HrLogged, HrQueues DEF HrQueued, HrTyped, HrStand
  <2>2. CASE hrLoop.at \in {"turn", "finish", "done"} /\ hrWrites = <<SaveManifest>> /\ hrWrites' = <<>> /\ HrSaves
    BY <2>0, <2>2, HrSaved, HrQueues DEF HrQueued, HrTyped, HrStand
  <2>3. CASE hrLoop.at = "heard" /\ hrWrites = <<SaveManifest, Line("usage")>> /\ hrWrites' = <<Line("usage")>> /\ HrSaves
    BY <2>0, <2>3, HrSaved, HrQueues DEF HrQueued, HrTyped, HrStand
  <2>4. CASE hrLoop.at = "heard" /\ hrWrites = <<Line("usage")>> /\ hrWrites' = <<>> /\ HrLogs("usage")
    BY <2>0, <2>4, HrLogged, HrQueues DEF HrQueued, HrTyped, HrStand
  <2>5. CASE hrLoop.at = "handling" /\ hrWrites = <<Line("called")>> /\ hrWrites' = <<>> /\ HrLogs("called")
    BY <2>0, <2>5, HrLogged, HrQueues DEF HrQueued, HrTyped, HrStand
  <2>6. CASE hrLoop.at = "handled" /\ hrWrites = <<Line("answered")>> /\ hrWrites' = <<>> /\ HrLogs("answered")
    BY <2>0, <2>6, HrLogged, HrQueues DEF HrQueued, HrTyped, HrStand
  <2>7. CASE hrLoop.at = "finish" /\ hrWrites = <<Line("artifacts"), SaveManifest>> /\ hrWrites' = <<SaveManifest>> /\ HrLogs("artifacts")
    BY <2>0, <2>7, HrLogged, HrQueues DEF HrQueued, HrTyped, HrStand
  <2>8. CASE hrLoop.at = "done" /\ hrWrites = <<Line(hrLoop.end), SaveManifest>> /\ hrWrites' = <<SaveManifest>> /\ hrLoop.end \in HrFinal /\ HrEndLogged
    BY <2>0, <2>8, HrEndingLogged, HrQueues DEF HrQueued, HrTyped, HrStand
  <2> QED BY <1>2, <2>1, <2>2, <2>3, <2>4, <2>5, <2>6, <2>7, <2>8, HrWriteForms
<1>3. CASE HrWriteFails
  BY HrAssumption, <1>3 DEF HrWriteFails, Thrown, HrQueued, HrTyped, HrStand
<1>4. CASE HrStart
  BY HrAssumption, <1>4 DEF HrStart, HrQueued, HrTyped, HrStand
<1>5. CASE HrTurn
  BY HrAssumption, <1>5 DEF HrTurn, Thrown, Written, HrQueued, HrTyped, HrStand
<1>6. CASE HrStep
  BY HrAssumption, <1>6 DEF HrStep, Written, HrQueued, HrTyped, HrStand
<1>7. CASE HrRetry
  BY HrAssumption, <1>7 DEF HrRetry, HrQueued, HrTyped, HrStand
<1>8. CASE HrRefused
  BY HrAssumption, <1>8 DEF HrRefused, Thrown, HrQueued, HrTyped, HrStand
<1>9. CASE HrIdleTurn
  BY HrAssumption, <1>9 DEF HrIdleTurn, Thrown, Written, HrQueued, HrTyped, HrStand
<1>10. ASSUME NEW n \in 0..HrCalls, HrAnswered(n)
      PROVE  HrQueued'
  BY HrAssumption, <1>10 DEF HrAnswered, AddUsage, HrQueued, HrTyped, HrStand
<1>11. CASE HrCall
  BY HrAssumption, <1>11 DEF HrCall, Written, HrQueued, HrTyped, HrStand
<1>12. CASE HrHandled
  BY HrAssumption, <1>12 DEF HrHandled, Written, HrQueued, HrTyped, HrStand
<1>13. CASE HrAfterTool
  BY HrAssumption, <1>13 DEF HrAfterTool, Thrown, Written, HrQueued, HrTyped, HrStand
<1>14. ASSUME NEW writes \in BOOLEAN, HrClose(writes)
      PROVE  HrQueued'
  BY HrCloseForms, <1>14 DEF HrQueued, HrTyped, HrStand
<1>15. CASE HrArtifacts
  BY HrAssumption, <1>15 DEF HrArtifacts, AddArtifact, Written, HrQueued, HrTyped, HrStand
<1>16. CASE HrFinish
  BY HrAssumption, <1>16 DEF HrFinish, Finish, FinishMemory, Written, HrQueued, HrTyped, HrStand
<1>17. CASE HrDies
  BY HrAssumption, <1>17 DEF HrDies, Written, HrQueued, HrTyped, HrStand
<1>18. ASSUME NEW status \in {"complete", "failed"}, HrPlay(status)
      PROVE  HrQueued'
  BY HrAssumption, <1>18 DEF HrPlay, HrQueued, HrTyped, HrStand
<1> QED BY <1>1, <1>2, <1>3, <1>4, <1>5, <1>6, <1>7, <1>8, <1>9, <1>10, <1>11, <1>12, <1>13, <1>14, <1>15, <1>16, <1>17, <1>18 DEF HrNext

(* A run has an end once it is closed, and none while it plays.            *)
LEMMA HrEndsStep ==
  ASSUME HrTyped, HrQueued, HrEnds, [HrNext]_hrVars
  PROVE  HrEnds'
<1>1. CASE UNCHANGED hrVars
  BY <1>1 DEF hrVars, HrEnds, HrEnding, HrStopped, HrTyped, HrStand, HrFinal
<1>2. CASE HrWrite
  <2>0. UNCHANGED <<hrMemory, hrLoop, hrDriver, hrSession>>
    BY <1>2, HrWriteForms
  <2>1. CASE hrLoop.at = "turn" /\ hrWrites = <<Line("started"), SaveManifest>> /\ hrWrites' = <<SaveManifest>> /\ HrLogs("started")
    BY <2>0, <2>1, HrLogged, HrQueues DEF HrEnds, HrEnding, HrStopped, HrTyped, HrStand, HrFinal
  <2>2. CASE hrLoop.at \in {"turn", "finish", "done"} /\ hrWrites = <<SaveManifest>> /\ hrWrites' = <<>> /\ HrSaves
    BY <2>0, <2>2, HrSaved, HrQueues DEF HrEnds, HrEnding, HrStopped, HrTyped, HrStand, HrFinal
  <2>3. CASE hrLoop.at = "heard" /\ hrWrites = <<SaveManifest, Line("usage")>> /\ hrWrites' = <<Line("usage")>> /\ HrSaves
    BY <2>0, <2>3, HrSaved, HrQueues DEF HrEnds, HrEnding, HrStopped, HrTyped, HrStand, HrFinal
  <2>4. CASE hrLoop.at = "heard" /\ hrWrites = <<Line("usage")>> /\ hrWrites' = <<>> /\ HrLogs("usage")
    BY <2>0, <2>4, HrLogged, HrQueues DEF HrEnds, HrEnding, HrStopped, HrTyped, HrStand, HrFinal
  <2>5. CASE hrLoop.at = "handling" /\ hrWrites = <<Line("called")>> /\ hrWrites' = <<>> /\ HrLogs("called")
    BY <2>0, <2>5, HrLogged, HrQueues DEF HrEnds, HrEnding, HrStopped, HrTyped, HrStand, HrFinal
  <2>6. CASE hrLoop.at = "handled" /\ hrWrites = <<Line("answered")>> /\ hrWrites' = <<>> /\ HrLogs("answered")
    BY <2>0, <2>6, HrLogged, HrQueues DEF HrEnds, HrEnding, HrStopped, HrTyped, HrStand, HrFinal
  <2>7. CASE hrLoop.at = "finish" /\ hrWrites = <<Line("artifacts"), SaveManifest>> /\ hrWrites' = <<SaveManifest>> /\ HrLogs("artifacts")
    BY <2>0, <2>7, HrLogged, HrQueues DEF HrEnds, HrEnding, HrStopped, HrTyped, HrStand, HrFinal
  <2>8. CASE hrLoop.at = "done" /\ hrWrites = <<Line(hrLoop.end), SaveManifest>> /\ hrWrites' = <<SaveManifest>> /\ hrLoop.end \in HrFinal /\ HrEndLogged
    BY <2>0, <2>8, HrEndingLogged, HrQueues DEF HrEnds, HrEnding, HrStopped, HrTyped, HrStand, HrFinal
  <2> QED BY <1>2, <2>1, <2>2, <2>3, <2>4, <2>5, <2>6, <2>7, <2>8, HrWriteForms
<1>3. CASE HrWriteFails
  BY HrAssumption, <1>3 DEF HrWriteFails, Thrown, HrEnds, HrEnding, HrStopped, HrTyped, HrStand, HrFinal
<1>4. CASE HrStart
  BY HrAssumption, <1>4 DEF HrStart, HrEnds, HrEnding, HrStopped, HrTyped, HrStand, HrFinal
<1>5. CASE HrTurn
  BY HrAssumption, <1>5 DEF HrTurn, Thrown, Written, HrEnds, HrEnding, HrStopped, HrTyped, HrStand, HrFinal
<1>6. CASE HrStep
  BY HrAssumption, <1>6 DEF HrStep, Written, HrEnds, HrEnding, HrStopped, HrTyped, HrStand, HrFinal
<1>7. CASE HrRetry
  BY HrAssumption, <1>7 DEF HrRetry, HrEnds, HrEnding, HrStopped, HrTyped, HrStand, HrFinal
<1>8. CASE HrRefused
  BY HrAssumption, <1>8 DEF HrRefused, Thrown, HrEnds, HrEnding, HrStopped, HrTyped, HrStand, HrFinal
<1>9. CASE HrIdleTurn
  BY HrAssumption, <1>9 DEF HrIdleTurn, Thrown, Written, HrEnds, HrEnding, HrStopped, HrTyped, HrStand, HrFinal
<1>10. ASSUME NEW n \in 0..HrCalls, HrAnswered(n)
      PROVE  HrEnds'
  BY HrAssumption, <1>10 DEF HrAnswered, AddUsage, HrEnds, HrEnding, HrStopped, HrTyped, HrStand, HrFinal
<1>11. CASE HrCall
  BY HrAssumption, <1>11 DEF HrCall, Written, HrEnds, HrEnding, HrStopped, HrTyped, HrStand, HrFinal
<1>12. CASE HrHandled
  BY HrAssumption, <1>12 DEF HrHandled, Written, HrEnds, HrEnding, HrStopped, HrTyped, HrStand, HrFinal
<1>13. CASE HrAfterTool
  BY HrAssumption, <1>13 DEF HrAfterTool, Thrown, Written, HrEnds, HrEnding, HrStopped, HrTyped, HrStand, HrFinal
<1>14. ASSUME NEW writes \in BOOLEAN, HrClose(writes)
      PROVE  HrEnds'
  BY HrCloseForms, <1>14 DEF HrEnds, HrEnding, HrStopped, HrTyped, HrStand, HrFinal
<1>15. CASE HrArtifacts
  BY HrAssumption, <1>15 DEF HrArtifacts, AddArtifact, Written, HrEnds, HrEnding, HrStopped, HrTyped, HrStand, HrFinal
<1>16. CASE HrFinish
  BY HrAssumption, <1>16 DEF HrFinish, Finish, FinishMemory, Written, HrEnds, HrEnding, HrStopped, HrTyped, HrStand, HrFinal
<1>17. CASE HrDies
  BY HrAssumption, <1>17 DEF HrDies, Written, HrEnds, HrEnding, HrStopped, HrTyped, HrStand, HrFinal
<1>18. ASSUME NEW status \in {"complete", "failed"}, HrPlay(status)
      PROVE  HrEnds'
  BY HrAssumption, <1>18 DEF HrPlay, HrEnds, HrEnding, HrStopped, HrTyped, HrStand, HrFinal
<1> QED BY <1>1, <1>2, <1>3, <1>4, <1>5, <1>6, <1>7, <1>8, <1>9, <1>10, <1>11, <1>12, <1>13, <1>14, <1>15, <1>16, <1>17, <1>18 DEF HrNext

(* Usage goes from memory to the manifest to the log: an answer is in all  *)
(* three, unless its write is under way or failed and ended the run.       *)
LEMMA HrUsageStep ==
  ASSUME HrTyped, HrQueued, HrEnds, HrUsageCounted, [HrNext]_hrVars
  PROVE  HrUsageCounted'
<1>1. CASE UNCHANGED hrVars
  BY <1>1 DEF hrVars, HrLog, HrUsageCounted, HrQueued, HrEnds, HrEnding, HrStopped, HrTyped, HrStand, HrManifest, HrFinal
<1>2. CASE HrWrite
  <2>0. UNCHANGED <<hrMemory, hrLoop, hrDriver, hrSession>>
    BY <1>2, HrWriteForms
  <2>1. CASE hrLoop.at = "turn" /\ hrWrites = <<Line("started"), SaveManifest>> /\ hrWrites' = <<SaveManifest>> /\ HrLogs("started")
    BY <2>0, <2>1, HrLogged, HrQueues DEF HrLog, HrLog, HrUsageCounted, HrQueued, HrEnds, HrEnding, HrStopped, HrTyped, HrStand, HrManifest, HrFinal
  <2>2. CASE hrLoop.at \in {"turn", "finish", "done"} /\ hrWrites = <<SaveManifest>> /\ hrWrites' = <<>> /\ HrSaves
    BY <2>0, <2>2, HrSaved, HrQueues DEF HrLog, HrLog, HrUsageCounted, HrQueued, HrEnds, HrEnding, HrStopped, HrTyped, HrStand, HrManifest, HrFinal
  <2>3. CASE hrLoop.at = "heard" /\ hrWrites = <<SaveManifest, Line("usage")>> /\ hrWrites' = <<Line("usage")>> /\ HrSaves
    <3>1. hrDisk.log \in HrLog /\ hrDisk.manifest \in HrManifest /\ hrMemory \in HrManifest
      BY DEF HrTyped
    <3> QED BY <2>0, <2>3, <3>1, HrSaved, HrQueues DEF HrLog, HrManifest, HrUsageCounted, HrStopped, HrEnds, HrEnding
  <2>4. CASE hrLoop.at = "heard" /\ hrWrites = <<Line("usage")>> /\ hrWrites' = <<>> /\ HrLogs("usage")
    <3>1. hrDisk.log \in HrLog /\ hrDisk.manifest \in HrManifest /\ hrMemory \in HrManifest
      BY DEF HrTyped
    <3> QED BY <2>0, <2>4, <3>1, HrLogged, HrQueues DEF HrLog, HrManifest, HrUsageCounted, HrStopped, HrEnds, HrEnding
  <2>5. CASE hrLoop.at = "handling" /\ hrWrites = <<Line("called")>> /\ hrWrites' = <<>> /\ HrLogs("called")
    BY <2>0, <2>5, HrLogged, HrQueues DEF HrLog, HrLog, HrUsageCounted, HrQueued, HrEnds, HrEnding, HrStopped, HrTyped, HrStand, HrManifest, HrFinal
  <2>6. CASE hrLoop.at = "handled" /\ hrWrites = <<Line("answered")>> /\ hrWrites' = <<>> /\ HrLogs("answered")
    BY <2>0, <2>6, HrLogged, HrQueues DEF HrLog, HrLog, HrUsageCounted, HrQueued, HrEnds, HrEnding, HrStopped, HrTyped, HrStand, HrManifest, HrFinal
  <2>7. CASE hrLoop.at = "finish" /\ hrWrites = <<Line("artifacts"), SaveManifest>> /\ hrWrites' = <<SaveManifest>> /\ HrLogs("artifacts")
    BY <2>0, <2>7, HrLogged, HrQueues DEF HrLog, HrLog, HrUsageCounted, HrQueued, HrEnds, HrEnding, HrStopped, HrTyped, HrStand, HrManifest, HrFinal
  <2>8. CASE hrLoop.at = "done" /\ hrWrites = <<Line(hrLoop.end), SaveManifest>> /\ hrWrites' = <<SaveManifest>> /\ hrLoop.end \in HrFinal /\ HrEndLogged
    BY <2>0, <2>8, HrEndingLogged, HrQueues DEF HrLog, HrLog, HrUsageCounted, HrQueued, HrEnds, HrEnding, HrStopped, HrTyped, HrStand, HrManifest, HrFinal
  <2> QED BY <1>2, <2>1, <2>2, <2>3, <2>4, <2>5, <2>6, <2>7, <2>8, HrWriteForms
<1>3. CASE HrWriteFails
  BY HrAssumption, <1>3 DEF HrWriteFails, Thrown, HrLog, HrUsageCounted, HrQueued, HrEnds, HrEnding, HrStopped, HrTyped, HrStand, HrManifest, HrFinal
<1>4. CASE HrStart
  BY HrAssumption, <1>4 DEF HrStart, HrLog, HrUsageCounted, HrQueued, HrEnds, HrEnding, HrStopped, HrTyped, HrStand, HrManifest, HrFinal
<1>5. CASE HrTurn
  BY HrAssumption, <1>5 DEF HrTurn, Thrown, Written, HrLog, HrUsageCounted, HrQueued, HrEnds, HrEnding, HrStopped, HrTyped, HrStand, HrManifest, HrFinal
<1>6. CASE HrStep
  BY HrAssumption, <1>6 DEF HrStep, Written, HrLog, HrUsageCounted, HrQueued, HrEnds, HrEnding, HrStopped, HrTyped, HrStand, HrManifest, HrFinal
<1>7. CASE HrRetry
  BY HrAssumption, <1>7 DEF HrRetry, HrLog, HrUsageCounted, HrQueued, HrEnds, HrEnding, HrStopped, HrTyped, HrStand, HrManifest, HrFinal
<1>8. CASE HrRefused
  BY HrAssumption, <1>8 DEF HrRefused, Thrown, HrLog, HrUsageCounted, HrQueued, HrEnds, HrEnding, HrStopped, HrTyped, HrStand, HrManifest, HrFinal
<1>9. CASE HrIdleTurn
  BY HrAssumption, <1>9 DEF HrIdleTurn, Thrown, Written, HrLog, HrUsageCounted, HrQueued, HrEnds, HrEnding, HrStopped, HrTyped, HrStand, HrManifest, HrFinal
<1>10. ASSUME NEW n \in 0..HrCalls, HrAnswered(n)
      PROVE  HrUsageCounted'
  <2>1. hrLoop.at = "asking" /\ hrWrites = <<>> /\ hrLoop'.at = "heard" /\ hrLoop'.end = hrLoop.end /\ UNCHANGED hrDisk
    BY <1>10 DEF HrAnswered, HrQueued, HrTyped, HrStand
  <2>2. hrMemory'.usage = hrMemory.usage + 1 /\ hrWrites' = <<SaveManifest, Line("usage")>>
    BY <1>10 DEF HrAnswered, AddUsage, HrTyped, HrManifest
  <2> QED BY <2>1, <2>2, HrQueues DEF HrUsageCounted, HrTyped, HrManifest, HrLog, HrEnds, HrEnding, HrStopped
<1>11. CASE HrCall
  BY HrAssumption, <1>11 DEF HrCall, Written, HrLog, HrUsageCounted, HrQueued, HrEnds, HrEnding, HrStopped, HrTyped, HrStand, HrManifest, HrFinal
<1>12. CASE HrHandled
  BY HrAssumption, <1>12 DEF HrHandled, Written, HrLog, HrUsageCounted, HrQueued, HrEnds, HrEnding, HrStopped, HrTyped, HrStand, HrManifest, HrFinal
<1>13. CASE HrAfterTool
  BY HrAssumption, <1>13 DEF HrAfterTool, Thrown, Written, HrLog, HrUsageCounted, HrQueued, HrEnds, HrEnding, HrStopped, HrTyped, HrStand, HrManifest, HrFinal
<1>14. ASSUME NEW writes \in BOOLEAN, HrClose(writes)
      PROVE  HrUsageCounted'
  BY HrCloseForms, <1>14 DEF HrLog, HrUsageCounted, HrQueued, HrEnds, HrEnding, HrStopped, HrTyped, HrStand, HrManifest, HrFinal
<1>15. CASE HrArtifacts
  BY HrAssumption, <1>15 DEF HrArtifacts, AddArtifact, Written, HrLog, HrUsageCounted, HrQueued, HrEnds, HrEnding, HrStopped, HrTyped, HrStand, HrManifest, HrFinal
<1>16. CASE HrFinish
  BY HrAssumption, <1>16 DEF HrFinish, Finish, FinishMemory, Written, HrLog, HrUsageCounted, HrQueued, HrEnds, HrEnding, HrStopped, HrTyped, HrStand, HrManifest, HrFinal
<1>17. CASE HrDies
  BY HrAssumption, <1>17 DEF HrDies, Written, HrLog, HrUsageCounted, HrQueued, HrEnds, HrEnding, HrStopped, HrTyped, HrStand, HrManifest, HrFinal
<1>18. ASSUME NEW status \in {"complete", "failed"}, HrPlay(status)
      PROVE  HrUsageCounted'
  BY HrAssumption, <1>18 DEF HrPlay, HrLog, HrUsageCounted, HrQueued, HrEnds, HrEnding, HrStopped, HrTyped, HrStand, HrManifest, HrFinal
<1> QED BY <1>1, <1>2, <1>3, <1>4, <1>5, <1>6, <1>7, <1>8, <1>9, <1>10, <1>11, <1>12, <1>13, <1>14, <1>15, <1>16, <1>17, <1>18 DEF HrNext

(* A call is logged before it is handled and answered in the log after, so *)
(* at most the last one has no answer.                                     *)
LEMMA HrCallsStep ==
  ASSUME HrTyped, HrQueued, HrEnds, HrCallsCounted, [HrNext]_hrVars
  PROVE  HrCallsCounted'
<1>1. CASE UNCHANGED hrVars
  BY <1>1 DEF hrVars, HrLog, HrCallsCounted, HrTyped, HrStand, HrManifest
<1>2. CASE HrWrite
  <2>0. UNCHANGED <<hrMemory, hrLoop, hrDriver, hrSession>>
    BY <1>2, HrWriteForms
  <2>1. CASE hrLoop.at = "turn" /\ hrWrites = <<Line("started"), SaveManifest>> /\ hrWrites' = <<SaveManifest>> /\ HrLogs("started")
    BY <2>0, <2>1, HrLogged, HrQueues DEF HrLog, HrCallsCounted, HrTyped, HrStand, HrManifest
  <2>2. CASE hrLoop.at \in {"turn", "finish", "done"} /\ hrWrites = <<SaveManifest>> /\ hrWrites' = <<>> /\ HrSaves
    BY <2>0, <2>2, HrSaved, HrQueues DEF HrLog, HrCallsCounted, HrTyped, HrStand, HrManifest
  <2>3. CASE hrLoop.at = "heard" /\ hrWrites = <<SaveManifest, Line("usage")>> /\ hrWrites' = <<Line("usage")>> /\ HrSaves
    BY <2>0, <2>3, HrSaved, HrQueues DEF HrLog, HrCallsCounted, HrTyped, HrStand, HrManifest
  <2>4. CASE hrLoop.at = "heard" /\ hrWrites = <<Line("usage")>> /\ hrWrites' = <<>> /\ HrLogs("usage")
    BY <2>0, <2>4, HrLogged, HrQueues DEF HrLog, HrCallsCounted, HrTyped, HrStand, HrManifest
  <2>5. CASE hrLoop.at = "handling" /\ hrWrites = <<Line("called")>> /\ hrWrites' = <<>> /\ HrLogs("called")
    <3>1. hrDisk.log \in HrLog /\ hrDisk.manifest \in HrManifest /\ hrMemory \in HrManifest
      BY DEF HrTyped
    <3>2. /\ hrDisk.log.called \in Nat /\ hrDisk.log.answered \in Nat
          /\ hrDisk'.log.called = hrDisk.log.called + 1 /\ hrDisk'.log.answered = hrDisk.log.answered
      BY <2>5, <3>1, HrLogged DEF HrLog
    <3>3. hrDisk.log.called - hrDisk.log.answered = 0 /\ hrLoop'.at = "handling" /\ hrWrites' = <<>>
      BY <2>0, <2>5, HrQueues DEF HrCallsCounted
    <3> QED BY <3>2, <3>3 DEF HrCallsCounted
  <2>6. CASE hrLoop.at = "handled" /\ hrWrites = <<Line("answered")>> /\ hrWrites' = <<>> /\ HrLogs("answered")
    BY <2>0, <2>6, HrLogged, HrQueues DEF HrLog, HrCallsCounted, HrTyped, HrStand, HrManifest
  <2>7. CASE hrLoop.at = "finish" /\ hrWrites = <<Line("artifacts"), SaveManifest>> /\ hrWrites' = <<SaveManifest>> /\ HrLogs("artifacts")
    BY <2>0, <2>7, HrLogged, HrQueues DEF HrLog, HrCallsCounted, HrTyped, HrStand, HrManifest
  <2>8. CASE hrLoop.at = "done" /\ hrWrites = <<Line(hrLoop.end), SaveManifest>> /\ hrWrites' = <<SaveManifest>> /\ hrLoop.end \in HrFinal /\ HrEndLogged
    BY <2>0, <2>8, HrEndingLogged, HrQueues DEF HrLog, HrCallsCounted, HrTyped, HrStand, HrManifest
  <2> QED BY <1>2, <2>1, <2>2, <2>3, <2>4, <2>5, <2>6, <2>7, <2>8, HrWriteForms
<1>3. CASE HrWriteFails
  BY HrAssumption, <1>3 DEF HrWriteFails, Thrown, HrLog, HrCallsCounted, HrTyped, HrStand, HrManifest
<1>4. CASE HrStart
  BY HrAssumption, <1>4 DEF HrStart, HrLog, HrCallsCounted, HrTyped, HrStand, HrManifest
<1>5. CASE HrTurn
  BY HrAssumption, <1>5 DEF HrTurn, Thrown, Written, HrLog, HrCallsCounted, HrTyped, HrStand, HrManifest
<1>6. CASE HrStep
  BY HrAssumption, <1>6 DEF HrStep, Written, HrLog, HrCallsCounted, HrTyped, HrStand, HrManifest
<1>7. CASE HrRetry
  BY HrAssumption, <1>7 DEF HrRetry, HrLog, HrCallsCounted, HrTyped, HrStand, HrManifest
<1>8. CASE HrRefused
  BY HrAssumption, <1>8 DEF HrRefused, Thrown, HrLog, HrCallsCounted, HrTyped, HrStand, HrManifest
<1>9. CASE HrIdleTurn
  BY HrAssumption, <1>9 DEF HrIdleTurn, Thrown, Written, HrLog, HrCallsCounted, HrTyped, HrStand, HrManifest
<1>10. ASSUME NEW n \in 0..HrCalls, HrAnswered(n)
      PROVE  HrCallsCounted'
  BY HrAssumption, <1>10 DEF HrAnswered, AddUsage, HrLog, HrCallsCounted, HrTyped, HrStand, HrManifest
<1>11. CASE HrCall
  BY HrAssumption, <1>11 DEF HrCall, Written, HrLog, HrCallsCounted, HrTyped, HrStand, HrManifest
<1>12. CASE HrHandled
  BY HrAssumption, <1>12 DEF HrHandled, Written, HrLog, HrCallsCounted, HrTyped, HrStand, HrManifest
<1>13. CASE HrAfterTool
  BY HrAssumption, <1>13 DEF HrAfterTool, Thrown, Written, HrLog, HrCallsCounted, HrTyped, HrStand, HrManifest
<1>14. ASSUME NEW writes \in BOOLEAN, HrClose(writes)
      PROVE  HrCallsCounted'
  BY HrCloseForms, <1>14 DEF HrLog, HrCallsCounted, HrTyped, HrStand, HrManifest
<1>15. CASE HrArtifacts
  BY HrAssumption, <1>15 DEF HrArtifacts, AddArtifact, Written, HrLog, HrCallsCounted, HrTyped, HrStand, HrManifest
<1>16. CASE HrFinish
  BY HrAssumption, <1>16 DEF HrFinish, Finish, FinishMemory, Written, HrLog, HrCallsCounted, HrTyped, HrStand, HrManifest
<1>17. CASE HrDies
  BY HrAssumption, <1>17 DEF HrDies, Written, HrLog, HrCallsCounted, HrTyped, HrStand, HrManifest
<1>18. ASSUME NEW status \in {"complete", "failed"}, HrPlay(status)
      PROVE  HrCallsCounted'
  BY HrAssumption, <1>18 DEF HrPlay, HrLog, HrCallsCounted, HrTyped, HrStand, HrManifest
<1> QED BY <1>1, <1>2, <1>3, <1>4, <1>5, <1>6, <1>7, <1>8, <1>9, <1>10, <1>11, <1>12, <1>13, <1>14, <1>15, <1>16, <1>17, <1>18 DEF HrNext

(* Results and calls left to handle add up to the calls of the response    *)
(* the driver goes on from, and the driver speaks up exactly when it had   *)
(* none.                                                                   *)
LEMMA HrToldStep ==
  ASSUME HrTyped, HrQueued, HrEnds, HrTold, [HrNext]_hrVars
  PROVE  HrTold'
<1>1. CASE UNCHANGED hrVars
  BY <1>1 DEF hrVars, HrTold, HrTyped, HrStand, HrSays
<1>2. CASE HrWrite
  <2>0. UNCHANGED <<hrMemory, hrLoop, hrDriver, hrSession>>
    BY <1>2, HrWriteForms
  <2>1. CASE hrLoop.at = "turn" /\ hrWrites = <<Line("started"), SaveManifest>> /\ hrWrites' = <<SaveManifest>> /\ HrLogs("started")
    BY <2>0, <2>1, HrLogged, HrQueues DEF HrTold, HrTyped, HrStand, HrSays
  <2>2. CASE hrLoop.at \in {"turn", "finish", "done"} /\ hrWrites = <<SaveManifest>> /\ hrWrites' = <<>> /\ HrSaves
    BY <2>0, <2>2, HrSaved, HrQueues DEF HrTold, HrTyped, HrStand, HrSays
  <2>3. CASE hrLoop.at = "heard" /\ hrWrites = <<SaveManifest, Line("usage")>> /\ hrWrites' = <<Line("usage")>> /\ HrSaves
    BY <2>0, <2>3, HrSaved, HrQueues DEF HrTold, HrTyped, HrStand, HrSays
  <2>4. CASE hrLoop.at = "heard" /\ hrWrites = <<Line("usage")>> /\ hrWrites' = <<>> /\ HrLogs("usage")
    BY <2>0, <2>4, HrLogged, HrQueues DEF HrTold, HrTyped, HrStand, HrSays
  <2>5. CASE hrLoop.at = "handling" /\ hrWrites = <<Line("called")>> /\ hrWrites' = <<>> /\ HrLogs("called")
    BY <2>0, <2>5, HrLogged, HrQueues DEF HrTold, HrTyped, HrStand, HrSays
  <2>6. CASE hrLoop.at = "handled" /\ hrWrites = <<Line("answered")>> /\ hrWrites' = <<>> /\ HrLogs("answered")
    BY <2>0, <2>6, HrLogged, HrQueues DEF HrTold, HrTyped, HrStand, HrSays
  <2>7. CASE hrLoop.at = "finish" /\ hrWrites = <<Line("artifacts"), SaveManifest>> /\ hrWrites' = <<SaveManifest>> /\ HrLogs("artifacts")
    BY <2>0, <2>7, HrLogged, HrQueues DEF HrTold, HrTyped, HrStand, HrSays
  <2>8. CASE hrLoop.at = "done" /\ hrWrites = <<Line(hrLoop.end), SaveManifest>> /\ hrWrites' = <<SaveManifest>> /\ hrLoop.end \in HrFinal /\ HrEndLogged
    BY <2>0, <2>8, HrEndingLogged, HrQueues DEF HrTold, HrTyped, HrStand, HrSays
  <2> QED BY <1>2, <2>1, <2>2, <2>3, <2>4, <2>5, <2>6, <2>7, <2>8, HrWriteForms
<1>3. CASE HrWriteFails
  BY HrAssumption, <1>3 DEF HrWriteFails, Thrown, HrTold, HrTyped, HrStand, HrSays
<1>4. CASE HrStart
  BY HrAssumption, <1>4 DEF HrStart, HrTold, HrTyped, HrStand, HrSays
<1>5. CASE HrTurn
  BY HrAssumption, <1>5 DEF HrTurn, Thrown, Written, HrTold, HrTyped, HrStand, HrSays
<1>6. CASE HrStep
  BY HrAssumption, <1>6 DEF HrStep, Written, HrTold, HrTyped, HrStand, HrSays
<1>7. CASE HrRetry
  BY HrAssumption, <1>7 DEF HrRetry, HrTold, HrTyped, HrStand, HrSays
<1>8. CASE HrRefused
  BY HrAssumption, <1>8 DEF HrRefused, Thrown, HrTold, HrTyped, HrStand, HrSays
<1>9. CASE HrIdleTurn
  <2>0. hrLoop \in HrStand /\ hrDriver \in HrSays /\ hrLoop.at = "heard" /\ hrLoop.calls = 0
    BY <1>9 DEF HrTyped, HrIdleTurn
  <2>1. CASE hrLoop.idle + 1 >= HrIdle
    <3> DEFINE loop == [hrLoop EXCEPT !.idle = hrLoop.idle + 1]
    <3>1. loop \in HrStand
      BY <2>0 DEF HrStand
    <3>2. hrLoop' = Thrown(loop)
      BY <1>9, <2>1 DEF HrIdleTurn
    <3> HIDE DEF loop
    <3>3. hrLoop'.at \in {"rejected", "closing"}
      BY <3>1, <3>2, HrThrows
    <3> QED BY <3>3 DEF HrTold
  <2>2. CASE ~(hrLoop.idle + 1 >= HrIdle)
    <3>1. hrLoop' = [hrLoop EXCEPT !.idle = hrLoop.idle + 1, !.at = "turn"] /\ hrDriver' = [hrDriver EXCEPT !.says = TRUE]
      BY <1>9, <2>2 DEF HrIdleTurn
    <3>2. hrLoop'.at = "turn" /\ hrLoop'.results = 0 /\ hrDriver'.goesOn = 0 
      BY <2>0, <3>1 DEF HrTold, HrStand, HrSays
    <3>3. hrDriver'.says = TRUE
      BY <2>0, <3>1 DEF HrSays
    <3>4. hrDriver'.says = (hrLoop'.results = 0)
      BY <3>2, <3>3
    <3> QED BY <3>2, <3>4 DEF HrTold
  <2> QED BY <2>1, <2>2
<1>10. ASSUME NEW n \in 0..HrCalls, HrAnswered(n)
      PROVE  HrTold'
  BY HrAssumption, <1>10 DEF HrAnswered, AddUsage, HrTold, HrTyped, HrStand, HrSays
<1>11. CASE HrCall
  BY HrAssumption, <1>11 DEF HrCall, Written, HrTold, HrTyped, HrStand, HrSays
<1>12. CASE HrHandled
  BY HrAssumption, <1>12 DEF HrHandled, Written, HrTold, HrTyped, HrStand, HrSays
<1>13. CASE HrAfterTool
  BY HrAssumption, <1>13 DEF HrAfterTool, Thrown, Written, HrTold, HrTyped, HrStand, HrSays
<1>14. ASSUME NEW writes \in BOOLEAN, HrClose(writes)
      PROVE  HrTold'
  BY HrCloseForms, <1>14 DEF HrTold, HrTyped, HrStand, HrSays
<1>15. CASE HrArtifacts
  BY HrAssumption, <1>15 DEF HrArtifacts, AddArtifact, Written, HrTold, HrTyped, HrStand, HrSays
<1>16. CASE HrFinish
  BY HrAssumption, <1>16 DEF HrFinish, Finish, FinishMemory, Written, HrTold, HrTyped, HrStand, HrSays
<1>17. CASE HrDies
  BY HrAssumption, <1>17 DEF HrDies, Written, HrTold, HrTyped, HrStand, HrSays
<1>18. ASSUME NEW status \in {"complete", "failed"}, HrPlay(status)
      PROVE  HrTold'
  BY HrAssumption, <1>18 DEF HrPlay, HrTold, HrTyped, HrStand, HrSays
<1> QED BY <1>1, <1>2, <1>3, <1>4, <1>5, <1>6, <1>7, <1>8, <1>9, <1>10, <1>11, <1>12, <1>13, <1>14, <1>15, <1>16, <1>17, <1>18 DEF HrNext

(* The manifest lists an artifact the log does not at most once: the catch *)
(* may list the replay again, but no more than one listing can fail.       *)
LEMMA HrListedStep ==
  ASSUME HrTyped, HrQueued, HrEnds, HrListed, [HrNext]_hrVars
  PROVE  HrListed'
<1>1. CASE UNCHANGED hrVars
  BY <1>1 DEF hrVars, HrListed, HrListing, HrQueued, HrEnds, HrEnding, HrStopped, HrTyped, HrStand, HrManifest, HrGame
<1>2. CASE HrWrite
  <2>0. UNCHANGED <<hrMemory, hrLoop, hrDriver, hrSession>>
    BY <1>2, HrWriteForms
  <2>1. CASE hrLoop.at = "turn" /\ hrWrites = <<Line("started"), SaveManifest>> /\ hrWrites' = <<SaveManifest>> /\ HrLogs("started")
    BY <2>0, <2>1, HrLogged, HrQueues DEF HrLog, HrListed, HrListing, HrQueued, HrEnds, HrEnding, HrStopped, HrTyped, HrStand, HrManifest, HrGame
  <2>2. CASE hrLoop.at \in {"turn", "finish", "done"} /\ hrWrites = <<SaveManifest>> /\ hrWrites' = <<>> /\ HrSaves
    BY <2>0, <2>2, HrSaved, HrQueues DEF HrLog, HrListed, HrListing, HrQueued, HrEnds, HrEnding, HrStopped, HrTyped, HrStand, HrManifest, HrGame
  <2>3. CASE hrLoop.at = "heard" /\ hrWrites = <<SaveManifest, Line("usage")>> /\ hrWrites' = <<Line("usage")>> /\ HrSaves
    BY <2>0, <2>3, HrSaved, HrQueues DEF HrLog, HrListed, HrListing, HrQueued, HrEnds, HrEnding, HrStopped, HrTyped, HrStand, HrManifest, HrGame
  <2>4. CASE hrLoop.at = "heard" /\ hrWrites = <<Line("usage")>> /\ hrWrites' = <<>> /\ HrLogs("usage")
    BY <2>0, <2>4, HrLogged, HrQueues DEF HrLog, HrListed, HrListing, HrQueued, HrEnds, HrEnding, HrStopped, HrTyped, HrStand, HrManifest, HrGame
  <2>5. CASE hrLoop.at = "handling" /\ hrWrites = <<Line("called")>> /\ hrWrites' = <<>> /\ HrLogs("called")
    BY <2>0, <2>5, HrLogged, HrQueues DEF HrLog, HrListed, HrListing, HrQueued, HrEnds, HrEnding, HrStopped, HrTyped, HrStand, HrManifest, HrGame
  <2>6. CASE hrLoop.at = "handled" /\ hrWrites = <<Line("answered")>> /\ hrWrites' = <<>> /\ HrLogs("answered")
    BY <2>0, <2>6, HrLogged, HrQueues DEF HrLog, HrListed, HrListing, HrQueued, HrEnds, HrEnding, HrStopped, HrTyped, HrStand, HrManifest, HrGame
  <2>7. CASE hrLoop.at = "finish" /\ hrWrites = <<Line("artifacts"), SaveManifest>> /\ hrWrites' = <<SaveManifest>> /\ HrLogs("artifacts")
    <3>1. hrDisk.log \in HrLog /\ hrDisk.manifest \in HrManifest /\ hrMemory \in HrManifest
      BY DEF HrTyped
    <3> QED BY <2>0, <2>7, <3>1, HrLogged, HrQueues DEF HrLog, HrManifest, HrListed, HrListing, HrEnding, HrStopped
  <2>8. CASE hrLoop.at = "done" /\ hrWrites = <<Line(hrLoop.end), SaveManifest>> /\ hrWrites' = <<SaveManifest>> /\ hrLoop.end \in HrFinal /\ HrEndLogged
    BY <2>0, <2>8, HrEndingLogged, HrQueues DEF HrLog, HrListed, HrListing, HrQueued, HrEnds, HrEnding, HrStopped, HrTyped, HrStand, HrManifest, HrGame
  <2> QED BY <1>2, <2>1, <2>2, <2>3, <2>4, <2>5, <2>6, <2>7, <2>8, HrWriteForms
<1>3. CASE HrWriteFails
  BY HrAssumption, <1>3 DEF HrWriteFails, Thrown, HrListed, HrListing, HrQueued, HrEnds, HrEnding, HrStopped, HrTyped, HrStand, HrManifest, HrGame
<1>4. CASE HrStart
  BY HrAssumption, <1>4 DEF HrStart, HrListed, HrListing, HrQueued, HrEnds, HrEnding, HrStopped, HrTyped, HrStand, HrManifest, HrGame
<1>5. CASE HrTurn
  BY HrAssumption, <1>5 DEF HrTurn, Thrown, Written, HrListed, HrListing, HrQueued, HrEnds, HrEnding, HrStopped, HrTyped, HrStand, HrManifest, HrGame
<1>6. CASE HrStep
  BY HrAssumption, <1>6 DEF HrStep, Written, HrListed, HrListing, HrQueued, HrEnds, HrEnding, HrStopped, HrTyped, HrStand, HrManifest, HrGame
<1>7. CASE HrRetry
  BY HrAssumption, <1>7 DEF HrRetry, HrListed, HrListing, HrQueued, HrEnds, HrEnding, HrStopped, HrTyped, HrStand, HrManifest, HrGame
<1>8. CASE HrRefused
  BY HrAssumption, <1>8 DEF HrRefused, Thrown, HrListed, HrListing, HrQueued, HrEnds, HrEnding, HrStopped, HrTyped, HrStand, HrManifest, HrGame
<1>9. CASE HrIdleTurn
  BY HrAssumption, <1>9 DEF HrIdleTurn, Thrown, Written, HrListed, HrListing, HrQueued, HrEnds, HrEnding, HrStopped, HrTyped, HrStand, HrManifest, HrGame
<1>10. ASSUME NEW n \in 0..HrCalls, HrAnswered(n)
      PROVE  HrListed'
  BY HrAssumption, <1>10 DEF HrAnswered, AddUsage, HrListed, HrListing, HrQueued, HrEnds, HrEnding, HrStopped, HrTyped, HrStand, HrManifest, HrGame
<1>11. CASE HrCall
  BY HrAssumption, <1>11 DEF HrCall, Written, HrListed, HrListing, HrQueued, HrEnds, HrEnding, HrStopped, HrTyped, HrStand, HrManifest, HrGame
<1>12. CASE HrHandled
  BY HrAssumption, <1>12 DEF HrHandled, Written, HrListed, HrListing, HrQueued, HrEnds, HrEnding, HrStopped, HrTyped, HrStand, HrManifest, HrGame
<1>13. CASE HrAfterTool
  BY HrAssumption, <1>13 DEF HrAfterTool, Thrown, Written, HrListed, HrListing, HrQueued, HrEnds, HrEnding, HrStopped, HrTyped, HrStand, HrManifest, HrGame
<1>14. ASSUME NEW writes \in BOOLEAN, HrClose(writes)
      PROVE  HrListed'
  BY HrCloseForms, <1>14 DEF HrListed, HrListing, HrQueued, HrEnds, HrEnding, HrStopped, HrTyped, HrStand, HrManifest, HrGame
<1>15. CASE HrArtifacts
  <2>1. hrLoop.at = "artifacts" /\ hrWrites = <<>> /\ hrLoop' = [hrLoop EXCEPT !.at = "finish"] /\ UNCHANGED <<hrDisk, hrSession>>
    BY <1>15 DEF HrArtifacts, Written
  <2>2. hrLoop'.at = "finish" /\ hrLoop'.end = hrLoop.end
    BY <2>1 DEF HrTyped, HrStand
  <2>3. CASE hrSession.replay
    <3>1. hrMemory'.artifacts = hrMemory.artifacts + 1 /\ hrWrites' = <<Line("artifacts"), SaveManifest>>
      BY <1>15, <2>3 DEF HrArtifacts, AddArtifact, HrTyped, HrManifest
    <3>2. hrMemory.artifacts \in Nat /\ hrDisk.log.artifacts \in Nat
      BY DEF HrTyped, HrManifest, HrLog
    <3>3. hrDisk.log.artifacts <= hrMemory.artifacts /\ hrMemory.artifacts <= hrDisk.log.artifacts + 1
      BY <2>1 DEF HrListed, HrListing, HrStopped, HrEnding
    <3>4. hrLoop.end # "failed" => hrMemory.artifacts = 0 /\ hrDisk.log.artifacts = 0
      BY <2>1 DEF HrListed, HrListing, HrStopped, HrEnding
    <3> QED BY <2>1, <2>2, <2>3, <3>1, <3>2, <3>3, <3>4, HrQueues DEF HrListed, HrListing, HrEnding, HrStopped
  <2>4. CASE ~hrSession.replay
    BY <1>15, <2>1, <2>2, <2>4, HrQueues DEF HrArtifacts, HrListed, HrListing, HrTyped, HrManifest, HrLog, HrEnding, HrStopped
  <2> QED BY <2>3, <2>4
<1>16. CASE HrFinish
  BY HrAssumption, <1>16 DEF HrFinish, Finish, FinishMemory, Written, HrListed, HrListing, HrQueued, HrEnds, HrEnding, HrStopped, HrTyped, HrStand, HrManifest, HrGame
<1>17. CASE HrDies
  BY HrAssumption, <1>17 DEF HrDies, Written, HrListed, HrListing, HrQueued, HrEnds, HrEnding, HrStopped, HrTyped, HrStand, HrManifest, HrGame
<1>18. ASSUME NEW status \in {"complete", "failed"}, HrPlay(status)
      PROVE  HrListed'
  BY HrAssumption, <1>18 DEF HrPlay, HrListed, HrListing, HrQueued, HrEnds, HrEnding, HrStopped, HrTyped, HrStand, HrManifest, HrGame
<1> QED BY <1>1, <1>2, <1>3, <1>4, <1>5, <1>6, <1>7, <1>8, <1>9, <1>10, <1>11, <1>12, <1>13, <1>14, <1>15, <1>16, <1>17, <1>18 DEF HrNext

(* A manifest says a run is over only once the log does, unless a write    *)
(* failed before.                                                          *)
LEMMA HrOverStep ==
  ASSUME HrTyped, HrQueued, HrEnds, HrListed, HrOver, [HrNext]_hrVars
  PROVE  HrOver'
<1>1. CASE UNCHANGED hrVars
  BY <1>1 DEF hrVars, HrOver, HrListed, HrListing, HrEnds, HrEnding, HrStopped, HrTyped, HrStand, HrManifest, HrFinal
<1>2. CASE HrWrite
  <2>0. UNCHANGED <<hrMemory, hrLoop, hrDriver, hrSession>>
    BY <1>2, HrWriteForms
  <2>1. CASE hrLoop.at = "turn" /\ hrWrites = <<Line("started"), SaveManifest>> /\ hrWrites' = <<SaveManifest>> /\ HrLogs("started")
    BY <2>0, <2>1, HrLogged, HrQueues DEF HrLog, HrOver, HrListed, HrListing, HrEnds, HrEnding, HrStopped, HrTyped, HrStand, HrManifest, HrFinal
  <2>2. CASE hrLoop.at \in {"turn", "finish", "done"} /\ hrWrites = <<SaveManifest>> /\ hrWrites' = <<>> /\ HrSaves
    BY <2>0, <2>2, HrSaved, HrQueues DEF HrLog, HrOver, HrListed, HrListing, HrEnds, HrEnding, HrStopped, HrTyped, HrStand, HrManifest, HrFinal
  <2>3. CASE hrLoop.at = "heard" /\ hrWrites = <<SaveManifest, Line("usage")>> /\ hrWrites' = <<Line("usage")>> /\ HrSaves
    BY <2>0, <2>3, HrSaved, HrQueues DEF HrLog, HrOver, HrListed, HrListing, HrEnds, HrEnding, HrStopped, HrTyped, HrStand, HrManifest, HrFinal
  <2>4. CASE hrLoop.at = "heard" /\ hrWrites = <<Line("usage")>> /\ hrWrites' = <<>> /\ HrLogs("usage")
    BY <2>0, <2>4, HrLogged, HrQueues DEF HrLog, HrOver, HrListed, HrListing, HrEnds, HrEnding, HrStopped, HrTyped, HrStand, HrManifest, HrFinal
  <2>5. CASE hrLoop.at = "handling" /\ hrWrites = <<Line("called")>> /\ hrWrites' = <<>> /\ HrLogs("called")
    BY <2>0, <2>5, HrLogged, HrQueues DEF HrLog, HrOver, HrListed, HrListing, HrEnds, HrEnding, HrStopped, HrTyped, HrStand, HrManifest, HrFinal
  <2>6. CASE hrLoop.at = "handled" /\ hrWrites = <<Line("answered")>> /\ hrWrites' = <<>> /\ HrLogs("answered")
    BY <2>0, <2>6, HrLogged, HrQueues DEF HrLog, HrOver, HrListed, HrListing, HrEnds, HrEnding, HrStopped, HrTyped, HrStand, HrManifest, HrFinal
  <2>7. CASE hrLoop.at = "finish" /\ hrWrites = <<Line("artifacts"), SaveManifest>> /\ hrWrites' = <<SaveManifest>> /\ HrLogs("artifacts")
    BY <2>0, <2>7, HrLogged, HrQueues DEF HrLog, HrOver, HrListed, HrListing, HrEnds, HrEnding, HrStopped, HrTyped, HrStand, HrManifest, HrFinal
  <2>8. CASE hrLoop.at = "done" /\ hrWrites = <<Line(hrLoop.end), SaveManifest>> /\ hrWrites' = <<SaveManifest>> /\ hrLoop.end \in HrFinal /\ HrEndLogged
    BY <2>0, <2>8, HrEndingLogged, HrQueues DEF HrLog, HrOver, HrListed, HrListing, HrEnds, HrEnding, HrStopped, HrTyped, HrStand, HrManifest, HrFinal
  <2> QED BY <1>2, <2>1, <2>2, <2>3, <2>4, <2>5, <2>6, <2>7, <2>8, HrWriteForms
<1>3. CASE HrWriteFails
  BY HrAssumption, <1>3 DEF HrWriteFails, Thrown, HrOver, HrListed, HrListing, HrEnds, HrEnding, HrStopped, HrTyped, HrStand, HrManifest, HrFinal
<1>4. CASE HrStart
  BY HrAssumption, <1>4 DEF HrStart, HrOver, HrListed, HrListing, HrEnds, HrEnding, HrStopped, HrTyped, HrStand, HrManifest, HrFinal
<1>5. CASE HrTurn
  BY HrAssumption, <1>5 DEF HrTurn, Thrown, Written, HrOver, HrListed, HrListing, HrEnds, HrEnding, HrStopped, HrTyped, HrStand, HrManifest, HrFinal
<1>6. CASE HrStep
  BY HrAssumption, <1>6 DEF HrStep, Written, HrOver, HrListed, HrListing, HrEnds, HrEnding, HrStopped, HrTyped, HrStand, HrManifest, HrFinal
<1>7. CASE HrRetry
  BY HrAssumption, <1>7 DEF HrRetry, HrOver, HrListed, HrListing, HrEnds, HrEnding, HrStopped, HrTyped, HrStand, HrManifest, HrFinal
<1>8. CASE HrRefused
  BY HrAssumption, <1>8 DEF HrRefused, Thrown, HrOver, HrListed, HrListing, HrEnds, HrEnding, HrStopped, HrTyped, HrStand, HrManifest, HrFinal
<1>9. CASE HrIdleTurn
  BY HrAssumption, <1>9 DEF HrIdleTurn, Thrown, Written, HrOver, HrListed, HrListing, HrEnds, HrEnding, HrStopped, HrTyped, HrStand, HrManifest, HrFinal
<1>10. ASSUME NEW n \in 0..HrCalls, HrAnswered(n)
      PROVE  HrOver'
  BY HrAssumption, <1>10 DEF HrAnswered, AddUsage, HrOver, HrListed, HrListing, HrEnds, HrEnding, HrStopped, HrTyped, HrStand, HrManifest, HrFinal
<1>11. CASE HrCall
  BY HrAssumption, <1>11 DEF HrCall, Written, HrOver, HrListed, HrListing, HrEnds, HrEnding, HrStopped, HrTyped, HrStand, HrManifest, HrFinal
<1>12. CASE HrHandled
  BY HrAssumption, <1>12 DEF HrHandled, Written, HrOver, HrListed, HrListing, HrEnds, HrEnding, HrStopped, HrTyped, HrStand, HrManifest, HrFinal
<1>13. CASE HrAfterTool
  BY HrAssumption, <1>13 DEF HrAfterTool, Thrown, Written, HrOver, HrListed, HrListing, HrEnds, HrEnding, HrStopped, HrTyped, HrStand, HrManifest, HrFinal
<1>14. ASSUME NEW writes \in BOOLEAN, HrClose(writes)
      PROVE  HrOver'
  BY HrCloseForms, <1>14 DEF HrOver, HrListed, HrListing, HrEnds, HrEnding, HrStopped, HrTyped, HrStand, HrManifest, HrFinal
<1>15. CASE HrArtifacts
  BY HrAssumption, <1>15 DEF HrArtifacts, AddArtifact, Written, HrOver, HrListed, HrListing, HrEnds, HrEnding, HrStopped, HrTyped, HrStand, HrManifest, HrFinal
<1>16. CASE HrFinish
  BY HrAssumption, <1>16 DEF HrFinish, Finish, FinishMemory, Written, HrOver, HrListed, HrListing, HrEnds, HrEnding, HrStopped, HrTyped, HrStand, HrManifest, HrFinal
<1>17. CASE HrDies
  BY HrAssumption, <1>17 DEF HrDies, Written, HrOver, HrListed, HrListing, HrEnds, HrEnding, HrStopped, HrTyped, HrStand, HrManifest, HrFinal
<1>18. ASSUME NEW status \in {"complete", "failed"}, HrPlay(status)
      PROVE  HrOver'
  BY HrAssumption, <1>18 DEF HrPlay, HrOver, HrListed, HrListing, HrEnds, HrEnding, HrStopped, HrTyped, HrStand, HrManifest, HrFinal
<1> QED BY <1>1, <1>2, <1>3, <1>4, <1>5, <1>6, <1>7, <1>8, <1>9, <1>10, <1>11, <1>12, <1>13, <1>14, <1>15, <1>16, <1>17, <1>18 DEF HrNext

(* A run is complete only with its game complete and its score kept,       *)
(* aborted only with its turns spent; nothing plays once the session is    *)
(* closed.                                                                 *)
LEMMA HrEarnedStep ==
  ASSUME HrTyped, HrQueued, HrEnds, HrEarned, [HrNext]_hrVars
  PROVE  HrEarned'
<1>1. CASE UNCHANGED hrVars
  BY <1>1 DEF hrVars, HrEarned, HrBacked, HrEnds, HrEnding, HrStopped, HrTyped, HrStand, HrManifest, HrFinal
<1>2. CASE HrWrite
  <2>0. UNCHANGED <<hrMemory, hrLoop, hrDriver, hrSession>>
    BY <1>2, HrWriteForms
  <2>1. CASE hrLoop.at = "turn" /\ hrWrites = <<Line("started"), SaveManifest>> /\ hrWrites' = <<SaveManifest>> /\ HrLogs("started")
    BY <2>0, <2>1, HrLogged, HrQueues DEF HrLog, HrEarned, HrBacked, HrEnds, HrEnding, HrStopped, HrTyped, HrStand, HrManifest, HrFinal
  <2>2. CASE hrLoop.at \in {"turn", "finish", "done"} /\ hrWrites = <<SaveManifest>> /\ hrWrites' = <<>> /\ HrSaves
    BY <2>0, <2>2, HrSaved, HrQueues DEF HrLog, HrEarned, HrBacked, HrEnds, HrEnding, HrStopped, HrTyped, HrStand, HrManifest, HrFinal
  <2>3. CASE hrLoop.at = "heard" /\ hrWrites = <<SaveManifest, Line("usage")>> /\ hrWrites' = <<Line("usage")>> /\ HrSaves
    BY <2>0, <2>3, HrSaved, HrQueues DEF HrLog, HrEarned, HrBacked, HrEnds, HrEnding, HrStopped, HrTyped, HrStand, HrManifest, HrFinal
  <2>4. CASE hrLoop.at = "heard" /\ hrWrites = <<Line("usage")>> /\ hrWrites' = <<>> /\ HrLogs("usage")
    BY <2>0, <2>4, HrLogged, HrQueues DEF HrLog, HrEarned, HrBacked, HrEnds, HrEnding, HrStopped, HrTyped, HrStand, HrManifest, HrFinal
  <2>5. CASE hrLoop.at = "handling" /\ hrWrites = <<Line("called")>> /\ hrWrites' = <<>> /\ HrLogs("called")
    BY <2>0, <2>5, HrLogged, HrQueues DEF HrLog, HrEarned, HrBacked, HrEnds, HrEnding, HrStopped, HrTyped, HrStand, HrManifest, HrFinal
  <2>6. CASE hrLoop.at = "handled" /\ hrWrites = <<Line("answered")>> /\ hrWrites' = <<>> /\ HrLogs("answered")
    BY <2>0, <2>6, HrLogged, HrQueues DEF HrLog, HrEarned, HrBacked, HrEnds, HrEnding, HrStopped, HrTyped, HrStand, HrManifest, HrFinal
  <2>7. CASE hrLoop.at = "finish" /\ hrWrites = <<Line("artifacts"), SaveManifest>> /\ hrWrites' = <<SaveManifest>> /\ HrLogs("artifacts")
    BY <2>0, <2>7, HrLogged, HrQueues DEF HrLog, HrEarned, HrBacked, HrEnds, HrEnding, HrStopped, HrTyped, HrStand, HrManifest, HrFinal
  <2>8. CASE hrLoop.at = "done" /\ hrWrites = <<Line(hrLoop.end), SaveManifest>> /\ hrWrites' = <<SaveManifest>> /\ hrLoop.end \in HrFinal /\ HrEndLogged
    BY <2>0, <2>8, HrEndingLogged, HrQueues DEF HrLog, HrEarned, HrBacked, HrEnds, HrEnding, HrStopped, HrTyped, HrStand, HrManifest, HrFinal
  <2> QED BY <1>2, <2>1, <2>2, <2>3, <2>4, <2>5, <2>6, <2>7, <2>8, HrWriteForms
<1>3. CASE HrWriteFails
  BY HrAssumption, <1>3 DEF HrWriteFails, Thrown, HrEarned, HrBacked, HrEnds, HrEnding, HrStopped, HrTyped, HrStand, HrManifest, HrFinal
<1>4. CASE HrStart
  BY HrAssumption, <1>4 DEF HrStart, HrEarned, HrBacked, HrEnds, HrEnding, HrStopped, HrTyped, HrStand, HrManifest, HrFinal
<1>5. CASE HrTurn
  BY HrAssumption, <1>5 DEF HrTurn, Thrown, Written, HrEarned, HrBacked, HrEnds, HrEnding, HrStopped, HrTyped, HrStand, HrManifest, HrFinal
<1>6. CASE HrStep
  BY HrAssumption, <1>6 DEF HrStep, Written, HrEarned, HrBacked, HrEnds, HrEnding, HrStopped, HrTyped, HrStand, HrManifest, HrFinal
<1>7. CASE HrRetry
  BY HrAssumption, <1>7 DEF HrRetry, HrEarned, HrBacked, HrEnds, HrEnding, HrStopped, HrTyped, HrStand, HrManifest, HrFinal
<1>8. CASE HrRefused
  BY HrAssumption, <1>8 DEF HrRefused, Thrown, HrEarned, HrBacked, HrEnds, HrEnding, HrStopped, HrTyped, HrStand, HrManifest, HrFinal
<1>9. CASE HrIdleTurn
  BY HrAssumption, <1>9 DEF HrIdleTurn, Thrown, Written, HrEarned, HrBacked, HrEnds, HrEnding, HrStopped, HrTyped, HrStand, HrManifest, HrFinal
<1>10. ASSUME NEW n \in 0..HrCalls, HrAnswered(n)
      PROVE  HrEarned'
  BY HrAssumption, <1>10 DEF HrAnswered, AddUsage, HrEarned, HrBacked, HrEnds, HrEnding, HrStopped, HrTyped, HrStand, HrManifest, HrFinal
<1>11. CASE HrCall
  BY HrAssumption, <1>11 DEF HrCall, Written, HrEarned, HrBacked, HrEnds, HrEnding, HrStopped, HrTyped, HrStand, HrManifest, HrFinal
<1>12. CASE HrHandled
  BY HrAssumption, <1>12 DEF HrHandled, Written, HrEarned, HrBacked, HrEnds, HrEnding, HrStopped, HrTyped, HrStand, HrManifest, HrFinal
<1>13. CASE HrAfterTool
  BY HrAssumption, <1>13 DEF HrAfterTool, Thrown, Written, HrEarned, HrBacked, HrEnds, HrEnding, HrStopped, HrTyped, HrStand, HrManifest, HrFinal
<1>14. ASSUME NEW writes \in BOOLEAN, HrClose(writes)
      PROVE  HrEarned'
  BY HrCloseForms, <1>14 DEF HrEarned, HrBacked, HrEnds, HrEnding, HrStopped, HrTyped, HrStand, HrManifest, HrFinal
<1>15. CASE HrArtifacts
  BY HrAssumption, <1>15 DEF HrArtifacts, AddArtifact, Written, HrEarned, HrBacked, HrEnds, HrEnding, HrStopped, HrTyped, HrStand, HrManifest, HrFinal
<1>16. CASE HrFinish
  BY HrAssumption, <1>16 DEF HrFinish, Finish, FinishMemory, Written, HrEarned, HrBacked, HrEnds, HrEnding, HrStopped, HrTyped, HrStand, HrManifest, HrFinal
<1>17. CASE HrDies
  BY HrAssumption, <1>17 DEF HrDies, Written, HrEarned, HrBacked, HrEnds, HrEnding, HrStopped, HrTyped, HrStand, HrManifest, HrFinal
<1>18. ASSUME NEW status \in {"complete", "failed"}, HrPlay(status)
      PROVE  HrEarned'
  BY HrAssumption, <1>18 DEF HrPlay, HrEarned, HrBacked, HrEnds, HrEnding, HrStopped, HrTyped, HrStand, HrManifest, HrFinal
<1> QED BY <1>1, <1>2, <1>3, <1>4, <1>5, <1>6, <1>7, <1>8, <1>9, <1>10, <1>11, <1>12, <1>13, <1>14, <1>15, <1>16, <1>17, <1>18 DEF HrNext

(* A run that has not begun has nothing to show and owes nothing.          *)
LEMMA HrInitHolds == HrInit => HrInv
<1> SUFFICES ASSUME HrInit PROVE HrInv
  OBVIOUS
<1>1. hrDisk.log.finishes \in Seq(HrFinal)
  <2>1. hrDisk.log.finishes = <<>>
    BY DEF HrInit
  <2>2. <<>> \in Seq(HrFinal)
    OBVIOUS
  <2> QED BY <2>1, <2>2
<1>2. HrTyped
  BY <1>1 DEF HrInit, HrTyped, NewManifest, HrManifest, HrLog, HrStand, HrSays, HrGame, HrPlaces, HrScores, HrFinal
<1>3. HrQueued /\ HrEnds
  BY DEF HrInit, HrQueued, HrEnds, HrEnding, HrStopped
<1>4. HrUsageCounted /\ HrCallsCounted
  BY DEF HrInit, HrUsageCounted, HrCallsCounted, NewManifest
<1>5. HrTold
  BY DEF HrInit, HrTold
<1>6. HrListed
  BY DEF HrInit, HrListed, HrListing, HrEnding, HrStopped, NewManifest
<1>7. HrOver /\ HrEarned
  BY DEF HrInit, HrOver, HrEarned, HrBacked, NewManifest, HrFinal, HrEnding
<1> QED BY <1>2, <1>3, <1>4, <1>5, <1>6, <1>7 DEF HrInv

(* The parts of the invariant hold together.                               *)
LEMMA HrInvHolds == HrInv /\ [HrNext]_hrVars => HrInv'
BY HrTypedStep, HrQueuedStep, HrEndsStep, HrUsageStep, HrCallsStep, HrToldStep, HrListedStep, HrOverStep, HrEarnedStep DEF HrInv

(* The invariant says what a reader of the run directory may believe.      *)
LEMMA HrInvIsEnough == HrInv => HrRecordCanBeBelieved
<1> SUFFICES ASSUME HrInv PROVE HrRecordCanBeBelieved
  OBVIOUS
<1> USE DEF HrInv
<1>0. /\ hrDisk.log.usage \in Nat /\ hrDisk.manifest.usage \in Nat /\ hrMemory.usage \in Nat /\ hrLoop.faults \in Nat
      /\ hrDisk.log.called \in Nat /\ hrDisk.log.answered \in Nat
      /\ hrDisk.log.artifacts \in Nat /\ hrDisk.manifest.artifacts \in Nat /\ hrMemory.artifacts \in Nat
  BY DEF HrTyped, HrManifest, HrLog, HrStand
<1>1. hrDisk.manifest.usage - hrDisk.log.usage \in 0..1
  BY <1>0 DEF HrUsageCounted
<1>2. hrDisk.manifest.status \in HrFinal /\ (hrLoop.faults = 0 \/ (hrLoop.at = "done" /\ Written)) =>
        hrLoop.at = "done" /\ hrWrites = <<>> /\ hrDisk.manifest.status = hrLoop.end
  BY DEF HrOver, Written
<1>3. hrLoop.at = "done" /\ hrWrites = <<>> =>
        /\ hrDisk.log.finishes # <<>> /\ hrDisk.log.finishes[Len(hrDisk.log.finishes)] = hrLoop.end
        /\ hrDisk.manifest.artifacts - hrDisk.log.artifacts \in 0..1
  BY <1>0, HrQueues DEF HrOver, HrListed, HrListing, HrStopped
<1>4. hrDisk.manifest.status = "complete" => hrSession.status = "complete" /\ hrDisk.manifest.score = "complete"
  BY DEF HrEarned, HrBacked
<1>5. hrDisk.manifest.status = "aborted" => hrLoop.turn = HrTurns
  BY DEF HrEarned, HrBacked
<1>6. ASSUME hrDisk.manifest.status \in {"complete", "aborted"}, hrLoop.faults = 0
      PROVE  /\ hrDisk.manifest.usage = hrDisk.log.usage
             /\ hrDisk.manifest.artifacts = 1 /\ hrDisk.log.artifacts = 1
  <2>1. hrLoop.at = "done" /\ hrWrites = <<>> /\ hrLoop.end # "failed"
    BY <1>2, <1>6 DEF HrFinal
  <2>2. hrMemory.usage = hrDisk.log.usage
    BY <2>1 DEF HrUsageCounted, HrStopped
  <2>3. hrMemory.artifacts = 1 /\ hrDisk.log.artifacts = 1 /\ hrDisk.manifest.artifacts = hrMemory.artifacts
    BY <2>1 DEF HrListed, HrListing, HrStopped
  <2> QED BY <1>0, <2>2, <2>3 DEF HrUsageCounted
<1>7. HrManifestIsBacked
  BY <1>1, <1>2, <1>3, <1>4, <1>5, <1>6 DEF HrManifestIsBacked
<1>8. hrLoop.at = "asking" =>
        hrDriver.asked.outputs = hrDriver.goesOn /\ hrDriver.asked.says = (hrDriver.asked.outputs = 0)
  BY Zenon DEF HrTold
<1>9. hrDisk.log.answered \in {hrDisk.log.called - 1, hrDisk.log.called}
  BY <1>0 DEF HrCallsCounted
<1> QED BY <1>7, <1>8, <1>9, Zenon DEF HrRecordCanBeBelieved, HrConversationHolds

(* A run leaves a record that can be believed, wherever it is cut off and  *)
(* whatever writes fail: its manifest is backed by its log, and the model  *)
(* was told everything it had asked for (runner.ts, run-store.ts, openai-  *)
(* responses.ts, session.ts).                                              *)
THEOREM RunRecordCanBeBelieved == HrSpec => []HrRecordCanBeBelieved
<1>1. HrInit => HrInv
  BY HrInitHolds
<1>2. HrInv /\ [HrNext]_hrVars => HrInv'
  BY HrInvHolds
<1>3. HrInv => HrRecordCanBeBelieved
  BY HrInvIsEnough
<1> QED BY <1>1, <1>2, <1>3, PTL DEF HrSpec

-----------------------------------------------------------------------------
(* The session of a model                                                  *)

SesEvents == {"trace_started", "trace_completed", "trace_hit"}
SesReplica == [field : Fields, version : Nat, ok : BOOLEAN]
SesAnswer ==
  [phase : {"none", "open", "answered"}, from : Nat, through : Nat, to : Nat,
   samples : SUBSET Nat, events : SUBSET (Nat \X SesEvents), terminal : BOOLEAN]

SesStep == [ticks : Nat \ {0}, input : Inputs]

\* A program at work: past its last step, or with ticks left of the one it is in.
SesProgram(c) ==
  /\ c \in [program : Programs, step : Nat \ {0}, left : Nat]
  /\ ~Exhausted(c) => c.left \in 1 .. c.program.steps[c.step].ticks

SesTyped ==
  /\ version \in 0 .. MaxVersion /\ pending \subseteq 1 .. version
  /\ steered \in BOOLEAN /\ closed \in BOOLEAN
  /\ controller # NoController => SesProgram(controller)
  /\ Sound(field) /\ replica \in SesReplica /\ Sound(replica.field)
  /\ replica.field.tick <= field.tick
  /\ log \subseteq Nat \X SesEvents /\ watch \in [Watches -> SesAnswer]

\* What is in the log has happened.
SesPast == \A e \in log : e[1] <= field.tick

\* An open watch has seen all events and samples so far, an answered one all it covers.
SesSeen(a) ==
  /\ a.from <= field.tick
  /\ a.events = {e \in log : a.from < e[1]}
  /\ a.samples = {t \in a.from + 1 .. field.tick : (t - a.from) % SampleEvery = 0}
SesServed(a) ==
  /\ a.phase = "open" => SesSeen(a) /\ Pends(a)
  /\ a.phase = "answered" => Covers(a) /\ a.to <= field.tick
SesWatched == \A w \in Watches : SesServed(watch[w])

\* Until the game is over the replay is the game, under the controller of the last tick;
\* a field no program has steered is at rest.
SesReplays ==
  ~steered =>
    /\ Running(field) => replica.ok /\ replica.field = field
    /\ Shown(replica.field, version) = Shown(field, version)
    /\ replica.ok /\ pending = {} => replica.version = version
SesAtRest ==
  ~steered /\ controller = NoController => field.input = Idle /\ ~field.drawing /\ ~field.release

SesInv == SesTyped /\ SesPast /\ SesWatched /\ SesReplays /\ SesAtRest

\* A session begins without a program and without a tick.
LEMMA SesStarts == Init => SesInv
<1> SUFFICES ASSUME Init PROVE SesInv
  OBVIOUS
<1>1. Sound(NewField) /\ NewField \in Fields
  BY NewFieldSound DEF Sound, Good
<1>2. /\ NewField.tick = 0 /\ NewField.input = Idle /\ ~NewField.drawing /\ ~NewField.release
  BY DEF NewField
<1>3. SesTyped
  <2>1. NewReplay \in SesReplica /\ NewReplay.field = NewField
    BY <1>1 DEF NewReplay, SesReplica
  <2>2. NotAsked \in SesAnswer
    BY DEF NotAsked, SesAnswer
  <2>3. 0 \in 0 .. MaxVersion
    BY SessionAssumption
  <2>4. NewField.tick <= NewField.tick
    BY <1>2
  <2> QED BY <1>1, <2>1, <2>2, <2>3, <2>4 DEF Init, SesTyped
<1>4. SesPast /\ SesWatched
  BY DEF Init, SesPast, SesWatched, SesServed, NotAsked
<1>5. SesReplays /\ SesAtRest
  BY <1>2 DEF Init, SesReplays, SesAtRest, NewReplay
<1> QED BY <1>3, <1>4, <1>5 DEF SesInv

\* The steps of a program, and what each of them holds.
LEMMA SesSteps ==
  ASSUME NEW p \in Programs
  PROVE  /\ p.steps \in Seq(SesStep) /\ p.fallback \in Inputs
         /\ \A k \in DOMAIN p.steps : p.steps[k] \in SesStep
         /\ \A k \in DOMAIN p.steps : p.steps[k].ticks \in Nat \ {0} /\ p.steps[k].input \in Inputs
<1>1. p.steps \in Seq(SesStep) /\ p.fallback \in Inputs
  BY SessionAssumption DEF SesStep
<1>2. \A k \in DOMAIN p.steps : p.steps[k] \in SesStep
  BY <1>1
<1> QED BY <1>1, <1>2 DEF SesStep

\* A program gives an input as long as it is asked.
LEMMA SesInput ==
  ASSUME NEW c, SesProgram(c)
  PROVE  ProgramInput(c) \in Inputs
<1>1. c.program \in Programs /\ c.step \in Nat \ {0}
  BY DEF SesProgram
<1>2. CASE Exhausted(c)
  BY <1>1, <1>2, SesSteps DEF ProgramInput
<1>3. CASE ~Exhausted(c)
  <2>1. c.program.steps \in Seq(SesStep)
    BY <1>1, SesSteps
  <2>2. c.step \in DOMAIN c.program.steps
    BY <1>1, <1>3, <2>1 DEF Exhausted
  <2> QED BY <1>1, <1>3, <2>2, SesSteps DEF ProgramInput
<1> QED BY <1>2, <1>3

\* To enter a step is to have all its ticks left.
LEMMA SesEnters ==
  ASSUME NEW c, c \in [program : Programs, step : Nat \ {0}, left : Nat], NEW step \in Nat \ {0}
  PROVE  SesProgram(At(c, step))
<1> DEFINE ticks == IF step \in DOMAIN c.program.steps THEN c.program.steps[step].ticks ELSE 0
           d == At(c, step)
<1>1. c.program \in Programs /\ c.program.steps \in Seq(SesStep)
  BY SesSteps
<1>2. step \in DOMAIN c.program.steps => c.program.steps[step].ticks \in Nat \ {0}
  BY <1>1, SesSteps
<1>3. ticks \in Nat
  BY <1>2
<1>4. d = [program |-> c.program, step |-> step, left |-> ticks]
  <2>1. d = [c EXCEPT !.step = step, !.left = ticks]
    BY DEF At
  <2> HIDE DEF ticks, d
  <2> QED BY <2>1
<1> HIDE DEF ticks
<1>5. step <= Len(c.program.steps) => step \in DOMAIN c.program.steps
  BY <1>1
<1>6. ~Exhausted(d) => ticks \in 1 .. c.program.steps[step].ticks
  BY <1>2, <1>4, <1>5, <1>1 DEF Exhausted, ticks
<1> HIDE DEF d
<1>7. d \in [program : Programs, step : Nat \ {0}, left : Nat]
  BY <1>3, <1>4
<1> QED BY <1>4, <1>6, <1>7 DEF SesProgram, d

\* The next tick of a program is one of a program.
LEMMA SesAdvances ==
  ASSUME NEW c, SesProgram(c)
  PROVE  SesProgram(Advance(c))
<1>1. c \in [program : Programs, step : Nat \ {0}, left : Nat]
  BY DEF SesProgram
<1>2. CASE Exhausted(c)
  BY <1>2 DEF Advance
<1>3. CASE ~Exhausted(c) /\ c.left > 1
  <2> DEFINE n == c.left - 1
             d == [c EXCEPT !.left = n]
  <2>1. c.left \in 1 .. c.program.steps[c.step].ticks
    BY <1>3 DEF SesProgram
  <2>2. c.program.steps[c.step].ticks \in Nat
    <3>1. c.program.steps \in Seq(SesStep)
      BY <1>1, SesSteps
    <3>2. c.step \in DOMAIN c.program.steps
      BY <1>1, <1>3, <3>1 DEF Exhausted
    <3> QED BY <1>1, <3>2, SesSteps
  <2>3. n \in Nat /\ n \in 1 .. c.program.steps[c.step].ticks
    BY <1>3, <2>1, <2>2
  <2> HIDE DEF n
  <2>4. d = [program |-> c.program, step |-> c.step, left |-> n]
    BY <1>1
  <2> HIDE DEF d
  <2>5. Advance(c) = d
    BY <1>3 DEF Advance, d, n
  <2> QED BY <1>1, <2>3, <2>4, <2>5 DEF SesProgram, Exhausted
<1>4. CASE ~Exhausted(c) /\ ~(c.left > 1)
  <2>1. NextStep(c) \in Nat \ {0}
    BY <1>1 DEF NextStep
  <2> QED BY <1>1, <1>4, <2>1, SesEnters DEF Advance
<1> QED BY <1>2, <1>3, <1>4

\* A program is installed at its first step.
LEMMA SesResets ==
  ASSUME NEW p \in Programs
  PROVE  SesProgram(Reset(p))
<1> DEFINE c == [program |-> p, step |-> 1, left |-> 0]
<1>1. c \in [program : Programs, step : Nat \ {0}, left : Nat] /\ 1 \in Nat \ {0}
  OBVIOUS
<1> HIDE DEF c
<1>2. SesProgram(At(c, 1))
  BY <1>1, SesEnters
<1> QED BY <1>2 DEF Reset, c

\* A program is never taken for no program.
LEMMA SesIsProgram ==
  ASSUME NEW c, SesProgram(c)
  PROVE  c # NoController
<1>1. c \in [program : Programs, step : Nat, left : Nat]
  BY DEF SesProgram
<1> QED BY <1>1, SessionAssumption

\* An input that is set already is set again without effect.
LEMMA SesSameInput ==
  ASSUME NEW f, Good(f), NEW i, f.input = i, f.release => i.draw # "off"
  PROVE  SetInput(f, i) = f
<1>1. f.release \in BOOLEAN /\ f \in Fields
  BY DEF Good, Fields
<1>2. (f.release /\ i.draw # "off") = f.release
  BY <1>1
<1>3. [f EXCEPT !.input = f.input, !.release = f.release] = f
  BY <1>1 DEF Fields
<1> QED BY <1>2, <1>3 DEF SetInput

\* The controller drives a running field with an input of its program, or nothing
\* happens to the field; either way a second time changes nothing.
LEMMA SesDrives ==
  ASSUME SesTyped, NEW a, a = Drive(field, controller)
  PROVE  /\ Sound(a) /\ a.tick = field.tick /\ a.status = field.status /\ a.input \in Inputs
         /\ controller = NoController \/ ~Running(field) => a = field
         /\ controller # NoController /\ Running(field) => SetInput(field, a.input) = a
<1>1. CASE controller # NoController /\ Running(field)
  <2> DEFINE i == ProgramInput(controller)
  <2>1. i \in Inputs
    BY <1>1, SesInput DEF SesTyped
  <2>2. a = SetInput(field, i)
    BY <1>1 DEF Drive
  <2> HIDE DEF i
  <2> QED BY <1>1, <2>1, <2>2, SetInputSound DEF SesTyped
<1>2. CASE controller = NoController \/ ~Running(field)
  <2>1. a = field /\ field \in Fields
    BY <1>2 DEF Drive, SesTyped, Sound, Good
  <2> QED BY <1>2, <2>1 DEF SesTyped, Fields
<1> QED BY <1>1, <1>2

\* What a tick leaves: the next tick of a running field, nothing new of one that is over.
SesTicked(f, g) ==
  /\ Sound(g) /\ g.events \subseteq SesEvents
  /\ Running(f) => g.tick = f.tick + 1
  /\ ~Running(f) => g.tick = f.tick /\ g.events = {} /\ g.status = f.status
LEMMA SesStepped ==
  ASSUME NEW f, Sound(f)
  PROVE  SesTicked(f, Step(f))
<1>1. CASE Running(f)
  <2>1. Sound(Step(f)) /\ Step(f).tick = f.tick + 1
    BY <1>1, StepSound DEF Running
  <2> QED BY <1>1, <2>1 DEF SesTicked, Sound, Good, Fields, SesEvents
<1>2. CASE ~Running(f)
  <2>1. Sound(Step(f)) /\ Step(f) = [f EXCEPT !.events = {}]
    BY <1>2, StepOver DEF Running
  <2>2. f \in Fields
    BY DEF Sound, Good
  <2>3. [f EXCEPT !.events = {}].tick = f.tick /\ [f EXCEPT !.events = {}].events = {}
        /\ [f EXCEPT !.events = {}].status = f.status
    BY <2>2 DEF Fields
  <2> QED BY <1>2, <2>1, <2>3 DEF SesTicked
<1> QED BY <1>1, <1>2

\* One more record leaves a replica a replica, and not past the record.
LEMMA SesReplicated ==
  ASSUME NEW r \in SesReplica, Sound(r.field), NEW i \in Inputs, NEW t \in Nat, NEW v \in Nat, NEW e,
         r.field.tick <= t
  PROVE  LET n == ReplayTick(r, t, i, v, e)
         IN  n \in SesReplica /\ Sound(n.field) /\ n.field.tick <= t
<1> DEFINE next == Step(SetInput(r.field, i))
           n == ReplayTick(r, t, i, v, e)
<1>1. Sound(SetInput(r.field, i)) /\ SetInput(r.field, i).tick = r.field.tick
  BY SetInputSound
<1>2. SesTicked(SetInput(r.field, i), next)
  BY <1>1, SesStepped
<1> HIDE DEF next
<1>3. Sound(next) /\ next \in Fields /\ (next.tick = r.field.tick + 1 \/ next.tick = r.field.tick)
  BY <1>1, <1>2 DEF SesTicked, Sound, Good
<1>4. n = Replayed(r, next, t, v, e)
  BY DEF ReplayTick, next
<1>5. ASSUME Accepted(r, next, t, e)
      PROVE  n \in SesReplica /\ Sound(n.field) /\ n.field.tick <= t
  <2>1. n = [field |-> next, version |-> v, ok |-> TRUE] /\ t = r.field.tick + 1
    BY <1>4, <1>5 DEF Replayed, Accepted
  <2>2. r.field.tick \in Nat
    BY DEF Sound, Good, Fields
  <2> HIDE DEF n
  <2> QED BY <1>3, <2>1, <2>2 DEF SesReplica
<1>6. ASSUME ~Accepted(r, next, t, e)
      PROVE  n \in SesReplica /\ Sound(n.field) /\ n.field.tick <= t
  <2>1. n = [r EXCEPT !.ok = FALSE]
    BY <1>4, <1>6 DEF Replayed
  <2> HIDE DEF n
  <2>2. n = [field |-> r.field, version |-> r.version, ok |-> FALSE]
    BY <2>1 DEF SesReplica
  <2> QED BY <2>2 DEF SesReplica
<1> QED BY <1>5, <1>6 DEF n

\* A tick of the timer as the watches see it.
SesLogged ==
  /\ SesTicked(field, field')
  /\ log' = log \cup ({field'.tick} \X field'.events)

\* What is logged has happened, also after a tick.
LEMMA SesLogsPast ==
  ASSUME SesTyped, SesPast, SesLogged
  PROVE  SesPast' /\ log' \subseteq Nat \X SesEvents /\ field.tick \in Nat /\ field'.tick \in Nat
<1>1. field.tick \in Nat /\ field'.tick \in Nat /\ field.tick <= field'.tick
  BY DEF SesTyped, SesLogged, SesTicked, Sound, Good, Fields
<1>2. \A e \in log : e[1] \in Nat /\ e[1] <= field.tick
  BY DEF SesTyped, SesPast
<1>3. \A e \in log' : e \in log \/ e[1] = field'.tick
  BY DEF SesLogged
<1>4. SesPast'
  BY <1>1, <1>2, <1>3 DEF SesPast
<1>5. log' \subseteq Nat \X SesEvents
  BY <1>1 DEF SesTyped, SesLogged, SesTicked
<1> QED BY <1>1, <1>4, <1>5

\* A watch sees every tick of a running game until it is answered, and nothing
\* comes after that of what it has covered.
LEMMA SesNotifies ==
  ASSUME SesTyped, SesPast, SesLogged, NEW a \in SesAnswer, SesServed(a), NEW n, n = Notify(a, field')
  PROVE  n \in SesAnswer /\ SesServed(n)'
<1> DEFINE t == field'.tick
           samples == IF (t - a.from) % SampleEvery = 0 THEN a.samples \cup {t} ELSE a.samples
           events  == a.events \cup ({t} \X field'.events)
           over == ~Running(field')
<1>1. SesPast' /\ log' \subseteq Nat \X SesEvents /\ field.tick \in Nat /\ t \in Nat
  BY SesLogsPast
<1>2. \A e \in log' : e[1] \in Nat /\ e[1] <= t
  BY <1>1 DEF SesPast
<1>3. \A e \in log : e[1] \in Nat /\ e[1] <= field.tick
  BY DEF SesTyped, SesPast
<1>4. log' = log \cup ({t} \X field'.events) /\ SesTicked(field, field')
  BY DEF SesLogged
<1>5. a.from \in Nat /\ a.through \in Nat /\ a.to \in Nat /\ SampleEvery \in Nat \ {0}
  BY SessionAssumption DEF SesAnswer
<1>6. CASE a.phase = "none"
  <2>1. n = a
    BY <1>6 DEF Notify
  <2> QED BY <1>6, <2>1 DEF SesServed
<1>7. CASE a.phase = "answered"
  <2>1. n = a /\ Covers(a) /\ a.to <= field.tick
    BY <1>7 DEF Notify, SesServed
  <2>2. {e \in log' : a.from < e[1] /\ e[1] <= a.to} = {e \in log : a.from < e[1] /\ e[1] <= a.to}
    <3>1. ASSUME NEW e \in log', e[1] <= a.to PROVE e \in log
      <4>1. CASE Running(field)
        <5>1. t = field.tick + 1
          BY <1>4, <4>1 DEF SesTicked
        <5>2. e[1] # t
          BY <1>1, <1>2, <1>5, <2>1, <3>1, <5>1
        <5> QED BY <1>4, <3>1, <5>2
      <4>2. CASE ~Running(field)
        <5>1. field'.events = {}
          BY <1>4, <4>2 DEF SesTicked
        <5> QED BY <1>4, <3>1, <5>1
      <4> QED BY <4>1, <4>2
    <3> QED BY <1>4, <3>1
  <2>3. Covers(a)'
    BY <2>1, <2>2 DEF Covers
  <2>4. a.to <= t
    BY <1>1, <1>4, <1>5, <2>1 DEF SesTicked
  <2> QED BY <1>7, <2>1, <2>3, <2>4 DEF SesServed
<1>8. CASE a.phase = "open"
  <2>1. Running(field) /\ SesSeen(a) /\ field.tick < a.through
    BY <1>8 DEF SesServed, Pends
  <2>2. t = field.tick + 1 /\ a.from <= field.tick
    BY <1>4, <2>1 DEF SesTicked, SesSeen
  <2>3. events = {e \in log' : a.from < e[1]}
    <3>1. a.events = {e \in log : a.from < e[1]}
      BY <2>1 DEF SesSeen
    <3>2. \A e \in {t} \X field'.events : a.from < e[1]
      BY <1>1, <1>5, <2>2
    <3> QED BY <1>4, <3>1, <3>2
  <2>4. samples = {s \in a.from + 1 .. t : (s - a.from) % SampleEvery = 0}
    <3>1. a.samples = {s \in a.from + 1 .. field.tick : (s - a.from) % SampleEvery = 0}
      BY <2>1 DEF SesSeen
    <3>2. a.from + 1 .. t = (a.from + 1 .. field.tick) \cup {t}
      BY <1>1, <1>5, <2>2
    <3> HIDE DEF t
    <3> QED BY <3>1, <3>2
  <2>5. samples \in SUBSET Nat /\ events \in SUBSET (Nat \X SesEvents)
    <3>1. samples \subseteq Nat
      BY <1>5, <2>4
    <3> QED BY <1>1, <2>3, <3>1
  <2>6. {e \in log' : a.from < e[1] /\ e[1] <= t} = {e \in log' : a.from < e[1]}
    BY <1>2
  <2> HIDE DEF samples, events
  <2>7. CASE t >= a.through \/ over
    <3>1. n = [a EXCEPT !.samples = samples, !.events = events, !.phase = "answered", !.to = t,
                        !.terminal = over]
      BY <1>8, <2>7 DEF Notify, samples, events
    <3>2. n = [phase |-> "answered", from |-> a.from, through |-> a.through, to |-> t,
               samples |-> samples, events |-> events, terminal |-> over]
      BY <3>1 DEF SesAnswer
    <3>3. n \in SesAnswer
      BY <1>1, <1>5, <2>5, <3>2 DEF SesAnswer
    <3>4. over \/ t = a.through
      BY <1>1, <1>5, <2>1, <2>2, <2>7
    <3> HIDE DEF t, over
    <3>5. Covers(n)'
      BY <2>3, <2>4, <2>6, <3>2, <3>4 DEF Covers
    <3> QED BY <1>1, <3>2, <3>3, <3>5 DEF SesServed, t
  <2>8. CASE ~(t >= a.through \/ over)
    <3>1. n = [a EXCEPT !.samples = samples, !.events = events]
      BY <1>8, <2>8 DEF Notify, samples, events
    <3>2. n = [phase |-> "open", from |-> a.from, through |-> a.through, to |-> a.to,
               samples |-> samples, events |-> events, terminal |-> a.terminal]
      BY <1>8, <3>1 DEF SesAnswer
    <3>3. n \in SesAnswer
      BY <1>5, <2>5, <3>2 DEF SesAnswer
    <3>4. SesSeen(n)'
      BY <1>1, <1>5, <2>2, <2>3, <2>4, <3>2 DEF SesSeen
    <3>5. Pends(n)'
      BY <1>1, <1>5, <2>8, <3>2 DEF Pends
    <3> QED BY <3>2, <3>3, <3>4, <3>5 DEF SesServed
  <2> QED BY <2>7, <2>8
<1> QED BY <1>6, <1>7, <1>8 DEF SesAnswer

\* The replay of a game that only programs steer goes the way of the game.
LEMMA SesFollows ==
  ASSUME SesInv, NEW a, a = Drive(field, controller), field' = Step(a), ~steered, ~steered',
         version' = version, replica' = ReplayTick(replica, field'.tick, a.input, version, field'.events)
  PROVE  SesReplays' /\ (controller = NoController => field'.input = Idle /\ ~field'.drawing /\ ~field'.release)
<1> DEFINE next == Step(SetInput(replica.field, a.input))
<1>1. /\ Sound(a) /\ a.tick = field.tick /\ a.status = field.status
      /\ controller = NoController \/ ~Running(field) => a = field
      /\ controller # NoController /\ Running(field) => SetInput(field, a.input) = a
  BY SesDrives DEF SesInv
<1>2. SesTicked(a, field')
  BY <1>1, SesStepped
<1>3. /\ Running(field) => replica.ok /\ replica.field = field
      /\ Shown(replica.field, version) = Shown(field, version)
  BY DEF SesInv, SesReplays
<1>4. controller = NoController => field.input = Idle /\ ~field.drawing /\ ~field.release
  BY DEF SesInv, SesAtRest
<1>5. replica' = Replayed(replica, next, field'.tick, version, field'.events)
  BY DEF ReplayTick
<1>6. CASE Running(field)
  <2>1. SetInput(field, a.input) = a
    <3>1. CASE controller = NoController
      <4>1. a = field /\ Good(field) /\ ~field.release
        BY <1>1, <1>4, <3>1 DEF SesInv, SesTyped, Sound
      <4> QED BY <4>1, SesSameInput
    <3> QED BY <1>1, <1>6, <3>1
  <2>2. next = field'
    BY <1>3, <1>6, <2>1
  <2>3. field'.tick = replica.field.tick + 1
    BY <1>1, <1>2, <1>3, <1>6 DEF SesTicked, Running
  <2>4. replica' = [field |-> field', version |-> version, ok |-> TRUE]
    <3> HIDE DEF next
    <3>1. Accepted(replica, next, field'.tick, field'.events)
      BY <1>3, <1>6, <2>2, <2>3 DEF Accepted
    <3> QED BY <1>5, <2>2, <3>1 DEF Replayed
  <2>5. replica'.ok /\ replica'.field = field' /\ replica'.version = version'
    BY <2>4
  <2>6. SesReplays'
    BY <2>5 DEF SesReplays
  <2>7. ASSUME controller = NoController PROVE field'.input = Idle /\ ~field'.drawing /\ ~field'.release
    <3>1. a = field /\ Sound(field) /\ field.status = "running"
      BY <1>1, <1>6, <2>7 DEF SesInv, SesTyped, Running
    <3> QED BY <1>4, <2>7, <3>1, StepSound
  <2> QED BY <2>6, <2>7
<1>7. CASE ~Running(field)
  <2>1. a = field /\ Sound(field) /\ field \in Fields
    BY <1>1, <1>7 DEF SesInv, SesTyped, Sound, Good
  <2>2. field' = [field EXCEPT !.events = {}]
    BY <1>7, <2>1, StepOver DEF Running
  <2>3. Shown(field', version) = Shown(field, version) /\ field'.status = field.status
        /\ field'.input = field.input /\ field'.drawing = field.drawing /\ field'.release = field.release
    BY <2>1, <2>2 DEF Shown, Fields
  <2>4. replica.field.tick = field.tick /\ field'.tick = field.tick /\ field.tick \in Nat
    BY <1>3, <2>1, <2>2 DEF Shown, Fields
  <2>5. replica' = [replica EXCEPT !.ok = FALSE]
    <3> HIDE DEF next
    <3>1. ~Accepted(replica, next, field'.tick, field'.events)
      BY <2>4 DEF Accepted
    <3> QED BY <1>5, <3>1 DEF Replayed
  <2>6. replica'.field = replica.field /\ ~replica'.ok
    BY <2>5 DEF SesInv, SesTyped, SesReplica
  <2>7. SesReplays'
    BY <1>3, <1>7, <2>3, <2>6 DEF SesReplays, Running
  <2> QED BY <1>4, <2>3, <2>7
<1> QED BY <1>6, <1>7

\* A tick of the timer.
LEMMA SesTicks ==
  ASSUME SesInv, Tick
  PROVE  SesInv'
<1>1. PICK a \in {Drive(field, controller)} : \E after \in {Step(a)} :
        /\ field' = after
        /\ replica' = ReplayTick(replica, after.tick, a.input, version, after.events)
        /\ log' = log \cup ({after.tick} \X after.events)
        /\ watch' = [w \in Watches |-> Notify(watch[w], after)]
  BY DEF Tick
<1>2. /\ a = Drive(field, controller) /\ field' = Step(a)
      /\ replica' = ReplayTick(replica, field'.tick, a.input, version, field'.events)
      /\ log' = log \cup ({field'.tick} \X field'.events)
      /\ watch' = [w \in Watches |-> Notify(watch[w], field')]
  BY <1>1
<1>3. /\ controller' = IF controller # NoController /\ Running(field) THEN Advance(controller) ELSE controller
      /\ version' = version /\ pending' = {} /\ steered' = steered /\ closed' = closed
  BY DEF Tick
<1>4. SesTyped /\ SesPast /\ SesWatched /\ SesAtRest
  BY DEF SesInv
<1>5. Sound(a) /\ a.tick = field.tick /\ a.status = field.status /\ a.input \in Inputs
  BY <1>2, <1>4, SesDrives
<1>6. SesTicked(a, field')
  BY <1>2, <1>5, SesStepped
<1>7. SesLogged
  BY <1>2, <1>5, <1>6 DEF SesLogged, SesTicked, Running
<1>8. SesPast' /\ log' \subseteq Nat \X SesEvents /\ field.tick \in Nat /\ field'.tick \in Nat
  BY <1>4, <1>7, SesLogsPast
<1>9. replica' \in SesReplica /\ Sound(replica'.field) /\ replica'.field.tick <= field'.tick
  <2>1. replica \in SesReplica /\ Sound(replica.field) /\ replica.field.tick <= field.tick /\ version \in Nat
    BY <1>4, SessionAssumption DEF SesTyped
  <2>2. replica.field.tick \in Nat
    BY <2>1 DEF Sound, Good, Fields
  <2>3. replica.field.tick <= field'.tick
    BY <1>7, <1>8, <2>1, <2>2 DEF SesLogged, SesTicked
  <2> QED BY <1>2, <1>5, <1>8, <2>1, <2>3, SesReplicated
<1>10. ASSUME NEW w \in Watches PROVE watch'[w] \in SesAnswer /\ SesServed(watch[w])'
  <2>1. watch[w] \in SesAnswer /\ SesServed(watch[w])
    BY <1>4 DEF SesTyped, SesWatched
  <2>2. watch'[w] = Notify(watch[w], field')
    BY <1>2
  <2>3. PICK n : n = watch'[w]
    OBVIOUS
  <2>4. n \in SesAnswer /\ SesServed(n)'
    <3>1. PICK b : b = watch[w]
      OBVIOUS
    <3>2. b \in SesAnswer /\ SesServed(b) /\ n = Notify(b, field')
      BY <2>1, <2>2, <2>3, <3>1
    <3> QED BY <1>4, <1>7, <3>2, SesNotifies
  <2> QED BY <2>3, <2>4 DEF SesServed, SesSeen, Pends, Covers
<1>11. controller' # NoController => SesProgram(controller')
  BY <1>3, <1>4, SesAdvances DEF SesTyped
<1>12. SesTyped'
  <2>1. Sound(field')
    BY <1>6 DEF SesTicked
  <2>2. watch' \in [Watches -> SesAnswer]
    BY <1>2, <1>10
  <2> QED BY <1>3, <1>4, <1>8, <1>9, <1>11, <2>1, <2>2 DEF SesTyped
<1>13. SesWatched'
  BY <1>10 DEF SesWatched
<1>14. SesReplays' /\ SesAtRest'
  <2>1. CASE steered
    BY <1>3, <2>1 DEF SesReplays, SesAtRest
  <2>2. CASE ~steered
    <3>1. SesReplays' /\ (controller = NoController => field'.input = Idle /\ ~field'.drawing /\ ~field'.release)
      BY <1>2, <1>3, <2>2, SesFollows
    <3>2. controller # NoController => controller' # NoController
      BY <1>3, <1>4, SesAdvances, SesIsProgram DEF SesTyped
    <3> QED BY <3>1, <3>2 DEF SesAtRest
  <2> QED BY <2>1, <2>2
<1> QED BY <1>8, <1>12, <1>13, <1>14 DEF SesInv

\* The model steers, installs a program, or ends the session.
LEMMA SesToolsKeep ==
  ASSUME SesInv, Steer \/ Install \/ Close
  PROVE  SesInv'
<1>1. SesTyped /\ SesPast /\ SesWatched /\ SesReplays /\ SesAtRest
  BY DEF SesInv
<1>2. log' = log /\ watch' = watch /\ replica' = replica
  BY DEF Steer, Install, Close
<1>3. CASE Steer
  <2>1. PICK i \in Steers : field' = SetInput(field, i)
    BY <1>3 DEF Steer
  <2>2. /\ steered' = TRUE /\ controller' = controller /\ version' = version /\ pending' = pending
        /\ closed' = closed
    BY <1>3 DEF Steer
  <2>3. i \in Inputs
    BY SessionAssumption
  <2>4. Sound(field') /\ field'.tick = field.tick /\ field'.status = field.status
    BY <1>1, <2>1, <2>3, SetInputSound DEF SesTyped
  <2>5. SesTyped' /\ SesPast'
    BY <1>1, <1>2, <2>2, <2>4 DEF SesTyped, SesPast
  <2>6. SesWatched'
    BY <1>1, <1>2, <2>4 DEF SesWatched, SesServed, SesSeen, Pends, Covers, Running
  <2>7. SesReplays' /\ SesAtRest'
    BY <2>2 DEF SesReplays, SesAtRest
  <2> QED BY <2>5, <2>6, <2>7 DEF SesInv
<1>4. CASE Install
  <2>1. PICK p \in Programs : controller' = Reset(p)
    BY <1>4 DEF Install
  <2>2. /\ version < MaxVersion /\ version' = version + 1 /\ pending' = pending \cup {version + 1}
        /\ steered' = steered /\ closed' = closed /\ field' = field
    BY <1>4 DEF Install
  <2>3. SesProgram(controller') /\ controller' # NoController
    BY <2>1, SesResets, SesIsProgram
  <2>4. version' \in 0 .. MaxVersion /\ pending' \subseteq 1 .. version' /\ pending' # {}
    BY <1>1, <2>2, SessionAssumption DEF SesTyped
  <2>5. SesTyped' /\ SesPast'
    BY <1>1, <1>2, <2>2, <2>3, <2>4 DEF SesTyped, SesPast
  <2>6. SesWatched'
    BY <1>1, <1>2, <2>2 DEF SesWatched, SesServed, SesSeen, Pends, Covers
  <2>7. SesReplays' /\ SesAtRest'
    BY <1>1, <1>2, <2>2, <2>3, <2>4 DEF SesReplays, SesAtRest, Shown
  <2> QED BY <2>5, <2>6, <2>7 DEF SesInv
<1>5. CASE Close
  <2>1. /\ closed' = TRUE /\ controller' = controller /\ version' = version /\ pending' = pending
        /\ steered' = steered /\ field' = field
    BY <1>5 DEF Close
  <2>2. SesTyped' /\ SesPast'
    BY <1>1, <1>2, <2>1 DEF SesTyped, SesPast
  <2>3. SesWatched'
    BY <1>1, <1>2, <2>1 DEF SesWatched, SesServed, SesSeen, Pends, Covers
  <2>4. SesReplays' /\ SesAtRest'
    BY <1>1, <1>2, <2>1 DEF SesReplays, SesAtRest
  <2> QED BY <2>2, <2>3, <2>4 DEF SesInv
<1> QED BY <1>3, <1>4, <1>5

\* A new watch: open on a running field, answered at once by one that is over.
LEMMA SesWatches ==
  ASSUME SesInv, NEW w \in Watches, Watch(w)
  PROVE  SesInv'
<1>1. SesTyped /\ SesPast /\ SesWatched /\ SesReplays /\ SesAtRest
  BY DEF SesInv
<1>2. PICK n \in WatchTicks :
        watch' = [watch EXCEPT ![w] =
          IF Running(field)
          THEN [@ EXCEPT !.phase = "open", !.from = field.tick, !.through = field.tick + n]
          ELSE [@ EXCEPT !.phase = "answered", !.from = field.tick, !.to = field.tick,
                         !.samples = {field.tick}, !.terminal = TRUE]]
  BY DEF Watch
<1>3. /\ watch[w] = NotAsked /\ field' = field /\ version' = version /\ pending' = pending /\ controller' = controller
      /\ replica' = replica /\ log' = log /\ steered' = steered /\ closed' = closed
  BY DEF Watch
<1>4. field.tick \in Nat /\ n \in Nat \ {0}
  BY <1>1, SessionAssumption DEF SesTyped, Sound, Good, Fields
<1> DEFINE t == field.tick
<1>5. watch \in [Watches -> SesAnswer]
  BY <1>1 DEF SesTyped
<1>6. \A v \in Watches : v # w => watch'[v] = watch[v]
  BY <1>2, <1>5
<1>7. \A e \in log : e[1] \in Nat /\ e[1] <= t
  BY <1>1 DEF SesTyped, SesPast
<1>8. PICK a : a = watch'[w]
  OBVIOUS
<1>9. a \in SesAnswer /\ SesServed(a)'
  <2>1. CASE Running(field)
    <3>1. a = [phase |-> "open", from |-> t, through |-> t + n, to |-> 0,
               samples |-> {}, events |-> {}, terminal |-> FALSE]
      <4>1. a = [NotAsked EXCEPT !.phase = "open", !.from = t, !.through = t + n]
        BY <1>2, <1>3, <1>5, <1>8, <2>1
      <4> QED BY <4>1 DEF NotAsked
    <3>2. a \in SesAnswer
      BY <1>4, <3>1 DEF SesAnswer
    <3>3. {e \in log : t < e[1]} = {} /\ {s \in t + 1 .. t : (s - t) % SampleEvery = 0} = {}
      BY <1>4, <1>7
    <3>4. SesSeen(a)' /\ Pends(a)'
      BY <1>3, <1>4, <2>1, <3>1, <3>3 DEF SesSeen, Pends
    <3> QED BY <3>1, <3>2, <3>4 DEF SesServed
  <2>2. CASE ~Running(field)
    <3>1. a = [phase |-> "answered", from |-> t, through |-> 0, to |-> t,
               samples |-> {t}, events |-> {}, terminal |-> TRUE]
      <4>1. a = [NotAsked EXCEPT !.phase = "answered", !.from = t, !.to = t,
                                 !.samples = {t}, !.terminal = TRUE]
        BY <1>2, <1>3, <1>5, <1>8, <2>2
      <4> QED BY <4>1 DEF NotAsked
    <3>2. a \in SesAnswer
      BY <1>4, <3>1 DEF SesAnswer
    <3>3. {e \in log : t < e[1] /\ e[1] <= t} = {}
      BY <1>4, <1>7
    <3>4. Covers(a)' /\ a.to <= t
      BY <1>3, <1>4, <3>1, <3>3 DEF Covers
    <3> QED BY <1>3, <3>1, <3>2, <3>4 DEF SesServed
  <2> QED BY <2>1, <2>2
<1>10. SesTyped'
  <2>1. watch' \in [Watches -> SesAnswer]
    <3>1. watch' = [watch EXCEPT ![w] = a]
      BY <1>2, <1>5, <1>8
    <3> QED BY <1>5, <1>9, <3>1
  <2> QED BY <1>1, <1>3, <2>1 DEF SesTyped
<1>11. SesWatched'
  <2> SUFFICES ASSUME NEW v \in Watches PROVE SesServed(watch[v])'
    BY DEF SesWatched
  <2>1. CASE v = w
    BY <1>8, <1>9, <2>1 DEF SesServed, SesSeen, Pends, Covers
  <2>2. CASE v # w
    <3>1. SesServed(watch[v]) /\ watch'[v] = watch[v]
      BY <1>1, <1>6, <2>2 DEF SesWatched
    <3> QED BY <1>3, <3>1 DEF SesServed, SesSeen, Pends, Covers
  <2> QED BY <2>1, <2>2
<1>12. SesPast' /\ SesReplays' /\ SesAtRest'
  BY <1>1, <1>3 DEF SesPast, SesReplays, SesAtRest
<1> QED BY <1>10, <1>11, <1>12 DEF SesInv

\* The invariant of the session holds throughout.
LEMMA SesInvariance == Spec => []SesInv
<1>1. SesInv /\ UNCHANGED vars => SesInv'
  BY DEF vars, SesInv, SesTyped, SesPast, SesWatched, SesServed, SesSeen, Pends, Covers, SesReplays, SesAtRest
<1>2. SesInv /\ [Next]_vars => SesInv'
  BY <1>1, SesTicks, SesToolsKeep, SesWatches DEF Next
<1> QED BY SesStarts, <1>2, PTL DEF Spec

\* Every watch of a session is answered with every event and sample of the ticks it
\* asked for, or of all up to the end of the game, and none is left waiting by a game
\* that is over (runtime/session.ts, notifyWatchers).
THEOREM SessionServesItsWatches == Spec => []WatchesAreServed
<1>1. SesTyped => TypeOK
  BY DEF SesTyped, SesProgram, SesAnswer, TypeOK, SesEvents
<1>2. SesInv => WatchesAreServed
  BY <1>1 DEF SesInv, SesWatched, SesServed, WatchesAreServed
<1> QED BY <1>2, SesInvariance, PTL

\* A game that only resident controllers steer is replayed exactly, whatever programs
\* are installed and whenever, as soon as a tick has recorded the last of them
\* (runtime/session.ts, core/replay.ts).
THEOREM ControlledRunsReplay == Spec => []ControlledRunReplays
<1>1. SesInv => ControlledRunReplays
  BY DEF SesInv, SesReplays, ControlledRunReplays, Matches, Shown
<1> QED BY <1>1, SesInvariance, PTL

-----------------------------------------------------------------------------
(* The older write path of Maltline: proofs retained for scores            *)

\* Empty tables and idle Workers are well formed.
LEMMA InitType == MpInit => MpTypeOK
BY Shape DEF MpInit, MpTypeOK, Working, Answers, States, JobSteps, NoRow

\* The memory of a request keeps its shape in every step it takes.
LEMMA GotoType ==
  ASSUME MpTypeOK, NEW q \in Request, NEW step \in {"idle"} \cup Working \cup Answers,
         Goto(q, step)
  PROVE  /\ pc' \in [Request -> {"idle"} \cup Working \cup Answers]
         /\ held' \in [Request -> Nat] /\ first' \subseteq Request
BY DEF MpTypeOK, Goto

\* So do the steps that resume a stored submission.
LEMMA ResumeType ==
  ASSUME MpTypeOK, NEW q \in Request, asked[q] \in Run, MpResume(q)
  PROVE  /\ pc' \in [Request -> {"idle"} \cup Working \cup Answers]
         /\ held' \in [Request -> Nat] /\ first' \subseteq Request
<1>1. CASE Goto(q, "refused") \/ Goto(q, "ready")
  BY <1>1, GotoType DEF Answers
<1>2. CASE Holding(q, lease[asked[q]], "claim") /\ UNCHANGED first
  BY <1>2 DEF Holding, MpTypeOK, Working
<1> QED BY <1>1, <1>2 DEF MpResume

\* Every step keeps the shape of tables and memory.
LEMMA NextType == IInv /\ [MpNext]_mpVars => MpTypeOK'
<1> SUFFICES ASSUME IInv, [MpNext]_mpVars PROVE MpTypeOK'
  OBVIOUS
<1> USE DEF IInv, RowsMatch, MpTypeOK, Working, Answers, Committed, States, JobSteps, timeVars, rowVars, chalVars, reqVars, r2Vars, jobVars
<1>1. ASSUME NEW r \in Run, BeginRun(r) PROVE MpTypeOK'
  BY <1>1, Shape DEF BeginRun
<1>2. ASSUME NEW r \in Run, Tamper(r) PROVE MpTypeOK'
  BY <1>2 DEF Tamper
<1>3. ASSUME NEW q \in Request, Submission(q) PROVE MpTypeOK'
  <2>1. ASSUME NEW r \in Run, NEW v \in Variant, LoadChallenge(q, r, v) PROVE MpTypeOK'
    BY <2>1, Shape DEF LoadChallenge, Goto, Answers
  <2>2. CASE LookUp(q)
    <3>1. asked[q] \in Run
      BY <2>2 DEF LookUp, RowsMatch
    <3>2. CASE state[asked[q]] = "none"
      BY <2>2, <3>2, GotoType DEF LookUp
    <3>3. CASE state[asked[q]] # "none"
      BY <2>2, <3>1, <3>3, ResumeType DEF LookUp
    <3> QED BY <3>2, <3>3
  <2>3. CASE InsertPending(q)
    <3>1. asked[q] \in Run /\ lease[asked[q]] \in Nat /\ sent[q] \in Variant
      BY <2>3, Shape DEF InsertPending, RowsMatch
    <3> QED BY <2>3, <3>1, Shape DEF InsertPending, Holding, Answers
  <2>4. CASE InsertLoses(q)
    BY <2>4, Shape DEF InsertLoses, Goto, Answers
  <2>5. CASE ReadConcurrent(q)
    <3>1. asked[q] \in Run
      BY <2>5 DEF ReadConcurrent, RowsMatch
    <3>2. CASE state[asked[q]] = "none"
      BY <2>5, <3>2, GotoType DEF ReadConcurrent
    <3>3. CASE state[asked[q]] # "none"
      BY <2>5, <3>1, <3>3, ResumeType DEF ReadConcurrent
    <3> QED BY <3>2, <3>3
  <2>6. CASE ReadBack(q)
    <3>1. asked[q] \in Run /\ lease[asked[q]] \in Nat /\ sent[q] \in Variant
      BY <2>6, Shape DEF ReadBack, RowsMatch
    <3> QED BY <2>6, <3>1, Shape DEF ReadBack, Holding, Answers
  <2>7. CASE Claim(q)
    <3>1. asked[q] \in Run /\ LeaseTime(q) \in Nat /\ clock + UploadTime \in Nat
      BY <2>7, Shape DEF Claim, RowsMatch, LeaseTime, Larger
    <3>2. lease' \in [Run -> Nat] /\ held' \in [Request -> Nat] /\ due' \in [Request -> Nat]
      BY <2>7, <3>1 DEF Claim, Holding
    <3> QED BY <2>7, <3>2 DEF Claim, Holding
  <2>8. CASE ClaimLoses(q)
    BY <2>8, Shape DEF ClaimLoses, Goto, Answers
  <2>9. CASE ReadOutrun(q)
    BY <2>9, Shape DEF ReadOutrun, Goto, Answers
  <2>10. CASE PutAnswered(q)
    BY <2>10, Shape DEF PutAnswered, Goto, Unheard, Answers
  <2>11. CASE PutThrows(q)
    BY <2>11, Shape DEF PutThrows, Goto, Unheard, Answers
  <2>12. CASE Inspect(q)
    BY <2>12, Shape DEF Inspect, Goto, Answers
  <2>13. CASE InspectThrows(q)
    BY <2>13, Shape DEF InspectThrows, Goto, Answers
  <2>14. CASE Collide(q)
    BY <2>14, Shape DEF Collide, Goto, FailPending, Answers
  <2>15. CASE Promote(q)
    <3>1. asked[q] \in Run
      BY <2>15 DEF Promote, RowsMatch
    <3>2. /\ pc' \in [Request -> {"idle"} \cup Working \cup Answers]
          /\ held' \in [Request -> Nat] /\ first' \subseteq Request
      BY <2>15, GotoType DEF Promote
    <3>3. state' \in [Run -> States] /\ lease' \in [Run -> Nat]
      <4>1. CASE Promotes(asked[q], held[q])
        <5>1. /\ state' = [state EXCEPT ![asked[q]] = "ready"]
              /\ lease' = [lease EXCEPT ![asked[q]] = clock]
          BY <2>15, <4>1 DEF Promote
        <5>2. clock \in Nat /\ lease \in [Run -> Nat] /\ state \in [Run -> States]
          OBVIOUS
        <5> QED BY <3>1, <5>1, <5>2
      <4>2. CASE ~Promotes(asked[q], held[q])
        BY <2>15, <4>2 DEF Promote, Promotes
      <4> QED BY <4>1, <4>2
    <3> QED BY <2>15, <3>2, <3>3 DEF Promote
  <2>16. CASE Recheck(q)
    BY <2>16, Shape DEF Recheck, Goto, Answers
  <2>17. CASE Respond(q)
    BY <2>17, Shape DEF Respond, Goto, Answers
  <2>18. CASE Crash(q)
    BY <2>18, Shape DEF Crash, Goto, Unheard, Answers, Working
  <2> QED BY <1>3, <2>1, <2>2, <2>3, <2>4, <2>5, <2>6, <2>7, <2>8, <2>9, <2>10, <2>11, <2>12, <2>13, <2>14, <2>15, <2>16, <2>17, <2>18 DEF Submission
<1>4. ASSUME NEW q \in Request, Storage(q) PROVE MpTypeOK'
  <2>1. CASE PutLands(q)
    BY <2>1, Shape DEF PutLands
  <2>2. CASE PutLost(q)
    BY <2>2 DEF PutLost
  <2> QED BY <1>4, <2>1, <2>2 DEF Storage
<1>5. ASSUME NEW c \in Cleaner, Reconciliation(c) PROVE MpTypeOK'
  <2>1. CASE StartMaintenance(c)
    BY <2>1, Shape DEF StartMaintenance, JobGoto
  <2>2. CASE SelectStranded(c)
    BY <2>2, Shape DEF SelectStranded, JobGoto, Pages, Stranded
  <2>3. CASE ReadObject(c)
    <3>1. PICK p \in page[c] :
            /\ page' = [page EXCEPT ![c] = page[c] \ {p}]
            /\ \/ row' = [row EXCEPT ![c] = p] /\ job' = [job EXCEPT ![c] = "settle"]
                  /\ verdict' = [verdict EXCEPT ![c] =
                       IF object[p.run] = bytes[p.run] THEN "ready" ELSE "failed"]
               \/ UNCHANGED <<row, verdict, job>>
      BY <2>3 DEF ReadObject, JobGoto
    <3>2. page[c] \subseteq [run : Run, lease : Nat]
      OBVIOUS
    <3>3. p.run \in Run /\ p.lease \in Nat /\ p = [run |-> p.run, lease |-> p.lease]
      BY <3>1, <3>2
    <3>4. p \in [run : Run \cup {NoRun}, lease : Nat]
      BY <3>3
    <3>5. page' \in [Cleaner -> SUBSET [run : Run, lease : Nat]]
      BY <3>1, <3>2
    <3>6. row' \in [Cleaner -> [run : Run \cup {NoRun}, lease : Nat]]
      BY <3>1, <3>4
    <3>7. verdict' \in [Cleaner -> {"none", "ready", "failed"}] /\ job' \in [Cleaner -> JobSteps]
      <4>1. CASE UNCHANGED <<row, verdict, job>>
        BY <4>1
      <4>2. CASE ~UNCHANGED <<row, verdict, job>>
        <5>1. PICK v \in {"ready", "failed"} : verdict' = [verdict EXCEPT ![c] = v]
          BY <3>1, <4>2
        <5>2. job' = [job EXCEPT ![c] = "settle"]
          BY <3>1, <4>2
        <5> QED BY <5>1, <5>2
      <4> QED BY <4>1, <4>2
    <3> QED BY <2>3, <3>5, <3>6, <3>7 DEF ReadObject
  <2>4. CASE Settle(c)
    BY <2>4, Shape DEF Settle, JobGoto, FailPending, Promotes, NoRow
  <2>5. CASE EndReconcile(c)
    BY <2>5, Shape DEF EndReconcile, JobGoto, NoRow
  <2> QED BY <1>5, <2>1, <2>2, <2>3, <2>4, <2>5 DEF Reconciliation
<1>6. ASSUME NEW c \in Cleaner, Expiry(c) PROVE MpTypeOK'
  <2>1. CASE SelectExpired(c)
    BY <2>1, Shape DEF SelectExpired, JobGoto, Pages, ExpiredProofs
  <2>2. CASE DeleteObjects(c)
    BY <2>2, Shape DEF DeleteObjects, JobGoto, InPage
  <2>3. CASE MarkDeleted(c)
    BY <2>3, Shape DEF MarkDeleted, JobGoto, InPage
  <2>4. CASE CleanupThrows(c)
    BY <2>4, Shape DEF CleanupThrows, JobGoto, InPage
  <2>5. CASE PurgeChallenges(c)
    BY <2>5, Shape DEF PurgeChallenges, JobGoto
  <2>6. CASE MaintenanceCut(c)
    BY <2>6, Shape DEF MaintenanceCut, JobGoto, NoRow
  <2> QED BY <1>6, <2>1, <2>2, <2>3, <2>4, <2>5, <2>6 DEF Expiry
<1>7. CASE CloseSeason
  BY <1>7 DEF CloseSeason
<1>8. CASE MpTick
  BY <1>8, Shape DEF MpTick
<1>9. CASE UNCHANGED mpVars
  BY <1>9 DEF mpVars
<1> QED BY <1>1, <1>2, <1>3, <1>4, <1>5, <1>6, <1>7, <1>8, <1>9 DEF MpNext

\* A POST that has resumed or inserted keeps facing its own row.
LEMMA RowsMatchStep == IInv /\ MpTypeOK' /\ [MpNext]_mpVars => RowsMatch'
<1> SUFFICES ASSUME IInv, MpTypeOK', [MpNext]_mpVars PROVE RowsMatch'
  OBVIOUS
<1> USE DEF IInv, MpTypeOK, Committed, RowsMatch, ObjectsBacked, timeVars, rowVars, chalVars, reqVars, r2Vars, jobVars
<1>1. ASSUME NEW r \in Run, BeginRun(r) PROVE RowsMatch'
  BY <1>1, Shape DEF BeginRun
<1>2. ASSUME NEW r \in Run, Tamper(r) PROVE RowsMatch'
  BY <1>2 DEF Tamper
<1>3. ASSUME NEW q \in Request, Submission(q) PROVE RowsMatch'
  <2>1. ASSUME NEW r \in Run, NEW v \in Variant, LoadChallenge(q, r, v) PROVE RowsMatch'
    BY <2>1, Shape DEF LoadChallenge, Goto, Answers
  <2>2. CASE LookUp(q)
    BY <2>2, Shape DEF LookUp, Goto, Holding, MpResume, MpMatches, Answers
  <2>3. CASE InsertPending(q)
    BY <2>3, Shape DEF InsertPending, Holding, Answers
  <2>4. CASE InsertLoses(q)
    BY <2>4, Shape DEF InsertLoses, Goto, Answers
  <2>5. CASE ReadConcurrent(q)
    BY <2>5, Shape DEF ReadConcurrent, Goto, Holding, MpResume, MpMatches, Answers
  <2>6. CASE ReadBack(q)
    BY <2>6, Shape DEF ReadBack, Holding, Answers
  <2>7. CASE Claim(q)
    BY <2>7, Shape DEF Claim, Holding, Claims, LeaseTime, Larger, Answers
  <2>8. CASE ClaimLoses(q)
    BY <2>8, Shape DEF ClaimLoses, Goto, Answers
  <2>9. CASE ReadOutrun(q)
    BY <2>9, Shape DEF ReadOutrun, Goto, Answers
  <2>10. CASE PutAnswered(q)
    BY <2>10, Shape DEF PutAnswered, Goto, Unheard, Answers
  <2>11. CASE PutThrows(q)
    BY <2>11, Shape DEF PutThrows, Goto, Unheard, Answers
  <2>12. CASE Inspect(q)
    BY <2>12, Shape DEF Inspect, Goto, Answers
  <2>13. CASE InspectThrows(q)
    BY <2>13, Shape DEF InspectThrows, Goto, Answers
  <2>14. CASE Collide(q)
    BY <2>14, Shape DEF Collide, Goto, FailPending, Answers
  <2>15. CASE Promote(q)
    BY <2>15, Shape DEF Promote, Goto, Promotes, Answers
  <2>16. CASE Recheck(q)
    BY <2>16, Shape DEF Recheck, Goto, Answers
  <2>17. CASE Respond(q)
    BY <2>17, Shape DEF Respond, Goto, Answers
  <2>18. CASE Crash(q)
    BY <2>18, Shape DEF Crash, Goto, Unheard, Answers, Working
  <2> QED BY <1>3, <2>1, <2>2, <2>3, <2>4, <2>5, <2>6, <2>7, <2>8, <2>9, <2>10, <2>11, <2>12, <2>13, <2>14, <2>15, <2>16, <2>17, <2>18 DEF Submission
<1>4. ASSUME NEW q \in Request, Storage(q) PROVE RowsMatch'
  <2>1. CASE PutLands(q)
    BY <2>1, Shape DEF PutLands
  <2>2. CASE PutLost(q)
    BY <2>2 DEF PutLost
  <2> QED BY <1>4, <2>1, <2>2 DEF Storage
<1>5. ASSUME NEW c \in Cleaner, Reconciliation(c) PROVE RowsMatch'
  <2>1. CASE StartMaintenance(c)
    BY <2>1, Shape DEF StartMaintenance, JobGoto
  <2>2. CASE SelectStranded(c)
    BY <2>2, Shape DEF SelectStranded, JobGoto, Pages, Stranded
  <2>3. CASE ReadObject(c)
    BY <2>3, Shape DEF ReadObject, JobGoto
  <2>4. CASE Settle(c)
    BY <2>4, Shape DEF Settle, JobGoto, FailPending, Promotes, NoRow
  <2>5. CASE EndReconcile(c)
    BY <2>5, Shape DEF EndReconcile, JobGoto, NoRow
  <2> QED BY <1>5, <2>1, <2>2, <2>3, <2>4, <2>5 DEF Reconciliation
<1>6. ASSUME NEW c \in Cleaner, Expiry(c) PROVE RowsMatch'
  <2>1. CASE SelectExpired(c)
    BY <2>1, Shape DEF SelectExpired, JobGoto, Pages, ExpiredProofs
  <2>2. CASE DeleteObjects(c)
    BY <2>2, Shape DEF DeleteObjects, JobGoto, InPage
  <2>3. CASE MarkDeleted(c)
    BY <2>3, Shape DEF MarkDeleted, JobGoto, InPage
  <2>4. CASE CleanupThrows(c)
    BY <2>4, Shape DEF CleanupThrows, JobGoto, InPage
  <2>5. CASE PurgeChallenges(c)
    BY <2>5, Shape DEF PurgeChallenges, JobGoto
  <2>6. CASE MaintenanceCut(c)
    BY <2>6, Shape DEF MaintenanceCut, JobGoto, NoRow
  <2> QED BY <1>6, <2>1, <2>2, <2>3, <2>4, <2>5, <2>6 DEF Expiry
<1>7. CASE CloseSeason
  BY <1>7 DEF CloseSeason
<1>8. CASE MpTick
  BY <1>8, Shape DEF MpTick
<1>9. CASE UNCHANGED mpVars
  BY <1>9 DEF mpVars
<1> QED BY <1>1, <1>2, <1>3, <1>4, <1>5, <1>6, <1>7, <1>8, <1>9 DEF MpNext

\* No step puts other bytes under a key, and none takes the bytes a promotion relies on.
LEMMA ObjectsBackedStep == IInv /\ MpTypeOK' /\ [MpNext]_mpVars => ObjectsBacked'
<1> SUFFICES ASSUME IInv, MpTypeOK', [MpNext]_mpVars PROVE ObjectsBacked'
  OBVIOUS
<1> USE DEF IInv, MpTypeOK, Committed, RowsMatch, ObjectsBacked, JobsSound, JobSound, Followed, JobSteps, timeVars, rowVars, chalVars, reqVars, r2Vars, jobVars
<1>1. ASSUME NEW r \in Run, BeginRun(r) PROVE ObjectsBacked'
  BY <1>1, Shape DEF BeginRun
<1>2. ASSUME NEW r \in Run, Tamper(r) PROVE ObjectsBacked'
  BY <1>2 DEF Tamper
<1>3. ASSUME NEW q \in Request, Submission(q) PROVE ObjectsBacked'
  <2>1. ASSUME NEW r \in Run, NEW v \in Variant, LoadChallenge(q, r, v) PROVE ObjectsBacked'
    BY <2>1, Shape DEF LoadChallenge, Goto, Answers
  <2>2. CASE LookUp(q)
    BY <2>2, Shape DEF LookUp, Goto, Holding, MpResume, MpMatches, Answers
  <2>3. CASE InsertPending(q)
    BY <2>3, Shape DEF InsertPending, Holding, Answers
  <2>4. CASE InsertLoses(q)
    BY <2>4, Shape DEF InsertLoses, Goto, Answers
  <2>5. CASE ReadConcurrent(q)
    BY <2>5, Shape DEF ReadConcurrent, Goto, Holding, MpResume, MpMatches, Answers
  <2>6. CASE ReadBack(q)
    BY <2>6, Shape DEF ReadBack, Holding, Answers
  <2>7. CASE Claim(q)
    BY <2>7, Shape DEF Claim, Holding, Claims, LeaseTime, Larger, Answers
  <2>8. CASE ClaimLoses(q)
    BY <2>8, Shape DEF ClaimLoses, Goto, Answers
  <2>9. CASE ReadOutrun(q)
    BY <2>9, Shape DEF ReadOutrun, Goto, Answers
  <2>10. CASE PutAnswered(q)
    BY <2>10, Shape DEF PutAnswered, Goto, Unheard, Answers
  <2>11. CASE PutThrows(q)
    BY <2>11, Shape DEF PutThrows, Goto, Unheard, Answers
  <2>12. CASE Inspect(q)
    BY <2>12, Shape DEF Inspect, Goto, Answers
  <2>13. CASE InspectThrows(q)
    BY <2>13, Shape DEF InspectThrows, Goto, Answers
  <2>14. CASE Collide(q)
    BY <2>14, Shape DEF Collide, Goto, FailPending, Answers
  <2>15. CASE Promote(q)
    BY <2>15, Shape DEF Promote, Goto, Promotes, Answers
  <2>16. CASE Recheck(q)
    BY <2>16, Shape DEF Recheck, Goto, Answers
  <2>17. CASE Respond(q)
    BY <2>17, Shape DEF Respond, Goto, Answers
  <2>18. CASE Crash(q)
    BY <2>18, Shape DEF Crash, Goto, Unheard, Answers, Working
  <2> QED BY <1>3, <2>1, <2>2, <2>3, <2>4, <2>5, <2>6, <2>7, <2>8, <2>9, <2>10, <2>11, <2>12, <2>13, <2>14, <2>15, <2>16, <2>17, <2>18 DEF Submission
<1>4. ASSUME NEW q \in Request, Storage(q) PROVE ObjectsBacked'
  <2>1. CASE PutLands(q)
    BY <2>1, Shape DEF PutLands
  <2>2. CASE PutLost(q)
    BY <2>2 DEF PutLost
  <2> QED BY <1>4, <2>1, <2>2 DEF Storage
<1>5. ASSUME NEW c \in Cleaner, Reconciliation(c) PROVE ObjectsBacked'
  <2>1. CASE StartMaintenance(c)
    BY <2>1, Shape DEF StartMaintenance, JobGoto
  <2>2. CASE SelectStranded(c)
    BY <2>2, Shape DEF SelectStranded, JobGoto, Pages, Stranded
  <2>3. CASE ReadObject(c)
    BY <2>3, Shape DEF ReadObject, JobGoto
  <2>4. CASE Settle(c)
    BY <2>4, Shape DEF Settle, JobGoto, FailPending, Promotes, NoRow
  <2>5. CASE EndReconcile(c)
    BY <2>5, Shape DEF EndReconcile, JobGoto, NoRow
  <2> QED BY <1>5, <2>1, <2>2, <2>3, <2>4, <2>5 DEF Reconciliation
<1>6. ASSUME NEW c \in Cleaner, Expiry(c) PROVE ObjectsBacked'
  <2>1. CASE SelectExpired(c)
    BY <2>1, Shape DEF SelectExpired, JobGoto, Pages, ExpiredProofs
  <2>2. CASE DeleteObjects(c)
    <3>1. \A r \in Run : InPage(c, r) => state[r] \in {"ready", "failed"}
      BY <2>2 DEF DeleteObjects, InPage
    <3>2. ASSUME NEW r \in Run
          PROVE  object'[r] = IF InPage(c, r) THEN NoBytes ELSE object[r]
      BY <2>2, <3>2 DEF DeleteObjects
    <3>3. \A d \in Cleaner : row'[d] = row[d] /\ verdict'[d] = verdict[d]
      BY <2>2 DEF DeleteObjects
    <3>4. UNCHANGED <<state, bytes, pc, put, asked, row, verdict>>
      BY <2>2 DEF DeleteObjects
    <3> HIDE DEF InPage
    <3>5. \A r \in Run \ Tampered :
            (object[r] = NoBytes \/ (state[r] # "none" /\ object[r] = bytes[r]))'
      BY <3>2, <3>4
    <3>6. ASSUME NEW q \in Request, asked[q] \in Run \ Tampered, state[asked[q]] = "pending",
                 pc[q] = "promote" \/ put[q] \in {"stored", "exists"}
          PROVE  object'[asked[q]] = bytes[asked[q]]
      BY <3>1, <3>2, <3>6
    <3>7. ASSUME NEW d \in Cleaner, row[d].run \in Run \ Tampered, verdict[d] = "ready",
                 state[row[d].run] = "pending"
          PROVE  object'[row[d].run] = bytes[row[d].run]
      <4>1. ~InPage(c, row[d].run)
        BY <3>1, <3>7
      <4>2. object'[row[d].run] = object[row[d].run]
        BY <3>2, <3>7, <4>1
      <4> QED BY <3>7, <4>2
    <3> QED BY <3>4, <3>5, <3>6, <3>7
  <2>3. CASE MarkDeleted(c)
    BY <2>3, Shape DEF MarkDeleted, JobGoto, InPage
  <2>4. CASE CleanupThrows(c)
    <3>1. PICK S \in SUBSET {r \in Run : job[c] = "delete" /\ InPage(c, r)} :
            object' = [r \in Run |-> IF r \in S THEN NoBytes ELSE object[r]]
      BY <2>4 DEF CleanupThrows
    <3>2. \A r \in S : state[r] \in {"ready", "failed"}
      BY DEF InPage
    <3>3. UNCHANGED <<state, bytes, pc, put, asked, row, verdict>>
      BY <2>4 DEF CleanupThrows
    <3>5. \A r \in Run \ Tampered :
            (object[r] = NoBytes \/ (state[r] # "none" /\ object[r] = bytes[r]))'
      BY <3>1, <3>3
    <3>6. ASSUME NEW q \in Request, asked[q] \in Run \ Tampered, state[asked[q]] = "pending",
                 pc[q] = "promote" \/ put[q] \in {"stored", "exists"}
          PROVE  object'[asked[q]] = bytes[asked[q]]
      BY <3>1, <3>2, <3>6
    <3>7. ASSUME NEW d \in Cleaner, row[d].run \in Run \ Tampered, verdict[d] = "ready",
                 state[row[d].run] = "pending"
          PROVE  object'[row[d].run] = bytes[row[d].run]
      BY <3>1, <3>2, <3>7
    <3> QED BY <3>3, <3>5, <3>6, <3>7
  <2>5. CASE PurgeChallenges(c)
    BY <2>5, Shape DEF PurgeChallenges, JobGoto
  <2>6. CASE MaintenanceCut(c)
    BY <2>6, Shape DEF MaintenanceCut, JobGoto, NoRow
  <2> QED BY <1>6, <2>1, <2>2, <2>3, <2>4, <2>5, <2>6 DEF Expiry
<1>7. CASE CloseSeason
  BY <1>7 DEF CloseSeason
<1>8. CASE MpTick
  BY <1>8, Shape DEF MpTick
<1>9. CASE UNCHANGED mpVars
  BY <1>9 DEF mpVars
<1> QED BY <1>1, <1>2, <1>3, <1>4, <1>5, <1>6, <1>7, <1>8, <1>9 DEF MpNext

\* What maintenance has read stays true enough to act on under its lease.
LEMMA JobsSoundStep == IInv /\ MpTypeOK' /\ [MpNext]_mpVars => JobsSound'
<1> SUFFICES ASSUME IInv, MpTypeOK', [MpNext]_mpVars PROVE JobsSound'
  OBVIOUS
<1> USE DEF IInv, MpTypeOK, Committed, JobsSound, JobSound, Followed, JobSteps, RowsMatch, timeVars, rowVars, chalVars, reqVars, r2Vars, jobVars
<1>1. ASSUME NEW r \in Run, BeginRun(r) PROVE JobsSound'
  BY <1>1, Shape DEF BeginRun
<1>2. ASSUME NEW r \in Run, Tamper(r) PROVE JobsSound'
  BY <1>2 DEF Tamper
<1>3. ASSUME NEW q \in Request, Submission(q) PROVE JobsSound'
  <2>1. ASSUME NEW r \in Run, NEW v \in Variant, LoadChallenge(q, r, v) PROVE JobsSound'
    BY <2>1, Shape DEF LoadChallenge, Goto, Answers
  <2>2. CASE LookUp(q)
    BY <2>2, Shape DEF LookUp, Goto, Holding, MpResume, MpMatches, Answers
  <2>3. CASE InsertPending(q)
    BY <2>3, Shape DEF InsertPending, Holding, Answers
  <2>4. CASE InsertLoses(q)
    BY <2>4, Shape DEF InsertLoses, Goto, Answers
  <2>5. CASE ReadConcurrent(q)
    BY <2>5, Shape DEF ReadConcurrent, Goto, Holding, MpResume, MpMatches, Answers
  <2>6. CASE ReadBack(q)
    BY <2>6, Shape DEF ReadBack, Holding, Answers
  <2>7. CASE Claim(q)
    BY <2>7, Shape DEF Claim, Holding, Claims, LeaseTime, Larger, Answers
  <2>8. CASE ClaimLoses(q)
    BY <2>8, Shape DEF ClaimLoses, Goto, Answers
  <2>9. CASE ReadOutrun(q)
    BY <2>9, Shape DEF ReadOutrun, Goto, Answers
  <2>10. CASE PutAnswered(q)
    BY <2>10, Shape DEF PutAnswered, Goto, Unheard, Answers
  <2>11. CASE PutThrows(q)
    BY <2>11, Shape DEF PutThrows, Goto, Unheard, Answers
  <2>12. CASE Inspect(q)
    BY <2>12, Shape DEF Inspect, Goto, Answers
  <2>13. CASE InspectThrows(q)
    BY <2>13, Shape DEF InspectThrows, Goto, Answers
  <2>14. CASE Collide(q)
    BY <2>14, Shape DEF Collide, Goto, FailPending, Answers
  <2>15. CASE Promote(q)
    <3>1. CASE ~Promotes(asked[q], held[q])
      BY <2>15, <3>1 DEF Promote, Goto
    <3>2. CASE Promotes(asked[q], held[q])
      <4>1. /\ state' = [state EXCEPT ![asked[q]] = "ready"]
            /\ lease' = [lease EXCEPT ![asked[q]] = clock]
            /\ state[asked[q]] = "pending" /\ asked[q] \in Run
            /\ UNCHANGED <<clock, expires, jobNow, job, page, row, verdict>>
        BY <2>15, <3>2 DEF Promote, Promotes
      <4>2. ASSUME NEW p \in [run : Run, lease : Nat], Followed(p) PROVE Followed(p)'
        BY <4>1, <4>2
      <4>3. ASSUME NEW p \in [run : Run, lease : Nat], state[p.run] \in {"ready", "failed"}
            PROVE  state'[p.run] \in {"ready", "failed"}
        BY <4>1, <4>3
      <4>4. \A c \in Cleaner : \A p \in page[c] : p \in [run : Run, lease : Nat]
        OBVIOUS
      <4>5. ASSUME NEW c \in Cleaner, job[c] = "settle"
            PROVE  /\ state'[row[c].run] # "none"
                   /\ state'[row[c].run] = "pending" => row[c].lease <= lease'[row[c].run]
        BY <4>1, <4>5
      <4>6. ASSUME NEW d \in Cleaner PROVE JobSound(d)'
        <5>1. JobSound(d)
          OBVIOUS
        <5>2. \A p \in page[d] : p \in [run : Run, lease : Nat]
          BY <4>4
        <5>0. job[d] = "settle" =>
                /\ state'[row[d].run] # "none"
                /\ state'[row[d].run] = "pending" => row[d].lease <= lease'[row[d].run]
          BY <4>5
        <5> HIDE DEF MpTypeOK, RowsMatch, JobsSound
        <5>11. jobNow'[d] <= clock' /\ (job'[d] # "settle" => row'[d].run = NoRun)
          BY <4>1, <4>2, <4>3, <4>5, <5>1, <5>2 DEF JobSound
        <5>12. job'[d] \in {"reconcile", "delete", "mark"} => \A p \in page'[d] : Followed(p)'
          BY <4>1, <4>2, <4>3, <4>5, <5>1, <5>2 DEF JobSound
        <5>13. job'[d] = "reconcile" => \A p \in page'[d] : p.lease + Grace <= jobNow'[d]
          BY <4>1, <4>2, <4>3, <4>5, <5>1, <5>2 DEF JobSound
        <5>14. job'[d] = "settle" =>
                 /\ verdict'[d] # "none" /\ row'[d].run \in Run
                 /\ row'[d].lease + Grace <= jobNow'[d]
                 /\ state'[row'[d].run] # "none"
                 /\ state'[row'[d].run] = "pending" => row'[d].lease <= lease'[row'[d].run]
                 /\ \A p \in page'[d] : Followed(p)' /\ p.lease + Grace <= jobNow'[d]
          BY <4>1, <4>2, <4>3, <5>0, <5>1, <5>2 DEF JobSound
        <5>15. job'[d] \in {"delete", "mark"} =>
                 \A p \in page'[d] :
                   state'[p.run] \in {"ready", "failed"} /\ expires'[p.run] <= jobNow'[d]
          BY <4>1, <4>2, <4>3, <4>5, <5>1, <5>2 DEF JobSound
        <5> QED BY <5>11, <5>12, <5>13, <5>14, <5>15 DEF JobSound, Followed
      <4> QED BY <4>6
    <3> QED BY <3>1, <3>2
  <2>16. CASE Recheck(q)
    BY <2>16, Shape DEF Recheck, Goto, Answers
  <2>17. CASE Respond(q)
    BY <2>17, Shape DEF Respond, Goto, Answers
  <2>18. CASE Crash(q)
    BY <2>18, Shape DEF Crash, Goto, Unheard, Answers, Working
  <2> QED BY <1>3, <2>1, <2>2, <2>3, <2>4, <2>5, <2>6, <2>7, <2>8, <2>9, <2>10, <2>11, <2>12, <2>13, <2>14, <2>15, <2>16, <2>17, <2>18 DEF Submission
<1>4. ASSUME NEW q \in Request, Storage(q) PROVE JobsSound'
  <2>1. CASE PutLands(q)
    BY <2>1, Shape DEF PutLands
  <2>2. CASE PutLost(q)
    BY <2>2 DEF PutLost
  <2> QED BY <1>4, <2>1, <2>2 DEF Storage
<1>5. ASSUME NEW c \in Cleaner, Reconciliation(c) PROVE JobsSound'
  <2>1. CASE StartMaintenance(c)
    BY <2>1, Shape DEF StartMaintenance, JobGoto
  <2>2. CASE SelectStranded(c)
    BY <2>2, Shape DEF SelectStranded, JobGoto, Pages, Stranded
  <2>3. CASE ReadObject(c)
    BY <2>3, Shape DEF ReadObject, JobGoto
  <2>4. CASE Settle(c)
    <3> DEFINE r == row[c].run
    <3>1. /\ r \in Run /\ job[c] = "settle" /\ Followed(row[c])
          /\ \A p \in page[c] : Followed(p) /\ p.lease + Grace <= jobNow[c]
      BY <2>4 DEF Settle
    <3>2. /\ state' = state /\ lease' = lease
          \/ \E s \in {"ready", "failed"} : /\ state' = [state EXCEPT ![r] = s]
                                          /\ lease' = [lease EXCEPT ![r] = jobNow[c]]
      BY <2>4, <3>1 DEF Settle, FailPending, Promotes
    <3>3. /\ UNCHANGED <<clock, expires, jobNow, page>>
          /\ row' = [row EXCEPT ![c] = NoRow] /\ job' = [job EXCEPT ![c] = "reconcile"]
          /\ verdict' = [verdict EXCEPT ![c] = "none"]
      BY <2>4 DEF Settle, JobGoto
    <3>4. \A p \in [run : Run, lease : Nat] : Followed(p) => Followed(p)'
      BY <3>1, <3>2
    <3>5. \A p \in [run : Run, lease : Nat] :
            state[p.run] \in {"ready", "failed"} => state'[p.run] \in {"ready", "failed"}
      BY <3>1, <3>2
    <3>6. \A d \in Cleaner : \A p \in page[d] : p \in [run : Run, lease : Nat]
      OBVIOUS
    <3>7. \A d \in Cleaner : row[d].run \in Run => row[d] \in [run : Run, lease : Nat]
      OBVIOUS
    <3>8. NoRow.run = NoRun
      BY DEF NoRow
    <3>9. row \in [Cleaner -> [run : Run \cup {NoRun}, lease : Nat]] /\ job \in [Cleaner -> JobSteps]
      OBVIOUS
    <3>10. ASSUME NEW d \in Cleaner PROVE JobSound(d)'
      <4>1. JobSound(d)
        OBVIOUS
      <4>2. CASE d = c
        <5>1. row'[d].run = NoRun /\ job'[d] = "reconcile" /\ page'[d] = page[c]
          BY <3>3, <3>8, <3>9, <4>2
        <5>2. \A p \in page[c] : Followed(p)'
          BY <3>1, <3>4, <3>6
        <5> HIDE DEF MpTypeOK, RowsMatch, JobsSound, r
        <5> QED BY <3>1, <3>3, <4>1, <4>2, <5>1, <5>2 DEF JobSound
      <4>3. CASE d # c
        <5>1. row'[d] = row[d] /\ job'[d] = job[d] /\ page'[d] = page[d]
              /\ verdict'[d] = verdict[d]
          BY <3>3, <3>9, <4>3
        <5>2. \A p \in page[d] : Followed(p) => Followed(p)'
          BY <3>4, <3>6
        <5>3. \A p \in page[d] :
                state[p.run] \in {"ready", "failed"} => state'[p.run] \in {"ready", "failed"}
          BY <3>5, <3>6
        <5>4. row[d].run \in Run /\ Followed(row[d]) =>
                /\ state'[row[d].run] # "none"
                /\ state'[row[d].run] = "pending" => row[d].lease <= lease'[row[d].run]
          BY <3>2, <3>7
        <5> HIDE DEF MpTypeOK, RowsMatch, JobsSound, r
        <5>11. jobNow'[d] <= clock' /\ (job'[d] # "settle" => row'[d].run = NoRun)
          BY <3>3, <4>1, <5>1, <5>2, <5>3, <5>4 DEF JobSound
        <5>12. job'[d] \in {"reconcile", "delete", "mark"} => \A p \in page'[d] : Followed(p)'
          BY <3>3, <4>1, <5>1, <5>2, <5>3, <5>4 DEF JobSound
        <5>13. job'[d] = "reconcile" => \A p \in page'[d] : p.lease + Grace <= jobNow'[d]
          BY <3>3, <4>1, <5>1, <5>2, <5>3, <5>4 DEF JobSound
        <5>14. job'[d] = "settle" =>
                 /\ verdict'[d] # "none" /\ row'[d].run \in Run
                 /\ row'[d].lease + Grace <= jobNow'[d]
                 /\ state'[row'[d].run] # "none"
                 /\ state'[row'[d].run] = "pending" => row'[d].lease <= lease'[row'[d].run]
                 /\ \A p \in page'[d] : Followed(p)' /\ p.lease + Grace <= jobNow'[d]
          BY <3>3, <4>1, <5>1, <5>2, <5>3, <5>4 DEF JobSound
        <5>15. job'[d] \in {"delete", "mark"} =>
                 \A p \in page'[d] :
                   state'[p.run] \in {"ready", "failed"} /\ expires'[p.run] <= jobNow'[d]
          BY <3>3, <4>1, <5>1, <5>2, <5>3, <5>4 DEF JobSound
        <5> QED BY <5>11, <5>12, <5>13, <5>14, <5>15 DEF JobSound, Followed
      <4> QED BY <4>2, <4>3
    <3> QED BY <3>10
  <2>5. CASE EndReconcile(c)
    BY <2>5, Shape DEF EndReconcile, JobGoto, NoRow
  <2> QED BY <1>5, <2>1, <2>2, <2>3, <2>4, <2>5 DEF Reconciliation
<1>6. ASSUME NEW c \in Cleaner, Expiry(c) PROVE JobsSound'
  <2>1. CASE SelectExpired(c)
    BY <2>1, Shape DEF SelectExpired, JobGoto, Pages, ExpiredProofs
  <2>2. CASE DeleteObjects(c)
    BY <2>2, Shape DEF DeleteObjects, JobGoto, InPage
  <2>3. CASE MarkDeleted(c)
    BY <2>3, Shape DEF MarkDeleted, JobGoto, InPage
  <2>4. CASE CleanupThrows(c)
    BY <2>4, Shape DEF CleanupThrows, JobGoto, InPage
  <2>5. CASE PurgeChallenges(c)
    BY <2>5, Shape DEF PurgeChallenges, JobGoto
  <2>6. CASE MaintenanceCut(c)
    BY <2>6, Shape DEF MaintenanceCut, JobGoto, NoRow
  <2> QED BY <1>6, <2>1, <2>2, <2>3, <2>4, <2>5, <2>6 DEF Expiry
<1>7. CASE CloseSeason
  BY <1>7 DEF CloseSeason
<1>8. CASE MpTick
  BY <1>8, Shape DEF MpTick
<1>9. CASE UNCHANGED mpVars
  BY <1>9 DEF mpVars
<1> QED BY <1>1, <1>2, <1>3, <1>4, <1>5, <1>6, <1>7, <1>8, <1>9 DEF MpNext

\* A write under way stays covered by the lease it was sent under.
LEMMA WritesInTimeStep == IInv /\ MpTypeOK' /\ [MpNext]_mpVars => WritesInTime'
<1> SUFFICES ASSUME IInv, MpTypeOK', [MpNext]_mpVars PROVE WritesInTime'
  OBVIOUS
<1> USE DEF IInv, MpTypeOK, Committed, WritesInTime, RowsMatch, timeVars, rowVars, chalVars, reqVars, r2Vars, jobVars
<1>1. ASSUME NEW r \in Run, BeginRun(r) PROVE WritesInTime'
  BY <1>1, Shape DEF BeginRun
<1>2. ASSUME NEW r \in Run, Tamper(r) PROVE WritesInTime'
  BY <1>2 DEF Tamper
<1>3. ASSUME NEW q \in Request, Submission(q) PROVE WritesInTime'
  <2>1. ASSUME NEW r \in Run, NEW v \in Variant, LoadChallenge(q, r, v) PROVE WritesInTime'
    BY <2>1, Shape DEF LoadChallenge, Goto, Answers
  <2>2. CASE LookUp(q)
    BY <2>2, Shape DEF LookUp, Goto, Holding, MpResume, MpMatches, Answers
  <2>3. CASE InsertPending(q)
    BY <2>3, Shape DEF InsertPending, Holding, Answers
  <2>4. CASE InsertLoses(q)
    BY <2>4, Shape DEF InsertLoses, Goto, Answers
  <2>5. CASE ReadConcurrent(q)
    BY <2>5, Shape DEF ReadConcurrent, Goto, Holding, MpResume, MpMatches, Answers
  <2>6. CASE ReadBack(q)
    BY <2>6, Shape DEF ReadBack, Holding, Answers
  <2>7. CASE Claim(q)
    BY <2>7, Shape DEF Claim, Holding, Claims, LeaseTime, Larger, Answers
  <2>8. CASE ClaimLoses(q)
    BY <2>8, Shape DEF ClaimLoses, Goto, Answers
  <2>9. CASE ReadOutrun(q)
    BY <2>9, Shape DEF ReadOutrun, Goto, Answers
  <2>10. CASE PutAnswered(q)
    BY <2>10, Shape DEF PutAnswered, Goto, Unheard, Answers
  <2>11. CASE PutThrows(q)
    BY <2>11, Shape DEF PutThrows, Goto, Unheard, Answers
  <2>12. CASE Inspect(q)
    BY <2>12, Shape DEF Inspect, Goto, Answers
  <2>13. CASE InspectThrows(q)
    BY <2>13, Shape DEF InspectThrows, Goto, Answers
  <2>14. CASE Collide(q)
    BY <2>14, Shape DEF Collide, Goto, FailPending, Answers
  <2>15. CASE Promote(q)
    BY <2>15, Shape DEF Promote, Goto, Promotes, Answers
  <2>16. CASE Recheck(q)
    BY <2>16, Shape DEF Recheck, Goto, Answers
  <2>17. CASE Respond(q)
    BY <2>17, Shape DEF Respond, Goto, Answers
  <2>18. CASE Crash(q)
    BY <2>18, Shape DEF Crash, Goto, Unheard, Answers, Working
  <2> QED BY <1>3, <2>1, <2>2, <2>3, <2>4, <2>5, <2>6, <2>7, <2>8, <2>9, <2>10, <2>11, <2>12, <2>13, <2>14, <2>15, <2>16, <2>17, <2>18 DEF Submission
<1>4. ASSUME NEW q \in Request, Storage(q) PROVE WritesInTime'
  <2>1. CASE PutLands(q)
    BY <2>1, Shape DEF PutLands
  <2>2. CASE PutLost(q)
    BY <2>2 DEF PutLost
  <2> QED BY <1>4, <2>1, <2>2 DEF Storage
<1>5. ASSUME NEW c \in Cleaner, Reconciliation(c) PROVE WritesInTime'
  <2>1. CASE StartMaintenance(c)
    BY <2>1, Shape DEF StartMaintenance, JobGoto
  <2>2. CASE SelectStranded(c)
    BY <2>2, Shape DEF SelectStranded, JobGoto, Pages, Stranded
  <2>3. CASE ReadObject(c)
    BY <2>3, Shape DEF ReadObject, JobGoto
  <2>4. CASE Settle(c)
    BY <2>4, Shape DEF Settle, JobGoto, FailPending, Promotes, NoRow
  <2>5. CASE EndReconcile(c)
    BY <2>5, Shape DEF EndReconcile, JobGoto, NoRow
  <2> QED BY <1>5, <2>1, <2>2, <2>3, <2>4, <2>5 DEF Reconciliation
<1>6. ASSUME NEW c \in Cleaner, Expiry(c) PROVE WritesInTime'
  <2>1. CASE SelectExpired(c)
    BY <2>1, Shape DEF SelectExpired, JobGoto, Pages, ExpiredProofs
  <2>2. CASE DeleteObjects(c)
    BY <2>2, Shape DEF DeleteObjects, JobGoto, InPage
  <2>3. CASE MarkDeleted(c)
    BY <2>3, Shape DEF MarkDeleted, JobGoto, InPage
  <2>4. CASE CleanupThrows(c)
    BY <2>4, Shape DEF CleanupThrows, JobGoto, InPage
  <2>5. CASE PurgeChallenges(c)
    BY <2>5, Shape DEF PurgeChallenges, JobGoto
  <2>6. CASE MaintenanceCut(c)
    BY <2>6, Shape DEF MaintenanceCut, JobGoto, NoRow
  <2> QED BY <1>6, <2>1, <2>2, <2>3, <2>4, <2>5, <2>6 DEF Expiry
<1>7. CASE CloseSeason
  BY <1>7 DEF CloseSeason
<1>8. CASE MpTick
  BY <1>8, Shape DEF MpTick
<1>9. CASE UNCHANGED mpVars
  BY <1>9 DEF mpVars
<1> QED BY <1>1, <1>2, <1>3, <1>4, <1>5, <1>6, <1>7, <1>8, <1>9 DEF MpNext

\* Behind a verdict `missing' nothing can arrive before the lease changes.
LEMMA MissingStaysStep == IInv /\ MpTypeOK' /\ [MpNext]_mpVars => MissingStays'
<1> SUFFICES ASSUME IInv, MpTypeOK', [MpNext]_mpVars PROVE MissingStays'
  OBVIOUS
<1> USE DEF IInv, MpTypeOK, Committed, MissingStays, RowsMatch, WritesInTime, JobsSound, JobSound, Followed, ObjectsBacked, timeVars, rowVars, chalVars, reqVars, r2Vars, jobVars
<1>1. ASSUME NEW r \in Run, BeginRun(r) PROVE MissingStays'
  BY <1>1, Shape DEF BeginRun
<1>2. ASSUME NEW r \in Run, Tamper(r) PROVE MissingStays'
  BY <1>2 DEF Tamper
<1>3. ASSUME NEW q \in Request, Submission(q) PROVE MissingStays'
  <2>1. ASSUME NEW r \in Run, NEW v \in Variant, LoadChallenge(q, r, v) PROVE MissingStays'
    BY <2>1, Shape DEF LoadChallenge, Goto, Answers
  <2>2. CASE LookUp(q)
    BY <2>2, Shape DEF LookUp, Goto, Holding, MpResume, MpMatches, Answers
  <2>3. CASE InsertPending(q)
    BY <2>3, Shape DEF InsertPending, Holding, Answers
  <2>4. CASE InsertLoses(q)
    BY <2>4, Shape DEF InsertLoses, Goto, Answers
  <2>5. CASE ReadConcurrent(q)
    BY <2>5, Shape DEF ReadConcurrent, Goto, Holding, MpResume, MpMatches, Answers
  <2>6. CASE ReadBack(q)
    BY <2>6, Shape DEF ReadBack, Holding, Answers
  <2>7. CASE Claim(q)
    BY <2>7, Shape DEF Claim, Holding, Claims, LeaseTime, Larger, Answers
  <2>8. CASE ClaimLoses(q)
    BY <2>8, Shape DEF ClaimLoses, Goto, Answers
  <2>9. CASE ReadOutrun(q)
    BY <2>9, Shape DEF ReadOutrun, Goto, Answers
  <2>10. CASE PutAnswered(q)
    BY <2>10, Shape DEF PutAnswered, Goto, Unheard, Answers
  <2>11. CASE PutThrows(q)
    BY <2>11, Shape DEF PutThrows, Goto, Unheard, Answers
  <2>12. CASE Inspect(q)
    BY <2>12, Shape DEF Inspect, Goto, Answers
  <2>13. CASE InspectThrows(q)
    BY <2>13, Shape DEF InspectThrows, Goto, Answers
  <2>14. CASE Collide(q)
    BY <2>14, Shape DEF Collide, Goto, FailPending, Answers
  <2>15. CASE Promote(q)
    BY <2>15, Shape DEF Promote, Goto, Promotes, Answers
  <2>16. CASE Recheck(q)
    BY <2>16, Shape DEF Recheck, Goto, Answers
  <2>17. CASE Respond(q)
    BY <2>17, Shape DEF Respond, Goto, Answers
  <2>18. CASE Crash(q)
    BY <2>18, Shape DEF Crash, Goto, Unheard, Answers, Working
  <2> QED BY <1>3, <2>1, <2>2, <2>3, <2>4, <2>5, <2>6, <2>7, <2>8, <2>9, <2>10, <2>11, <2>12, <2>13, <2>14, <2>15, <2>16, <2>17, <2>18 DEF Submission
<1>4. ASSUME NEW q \in Request, Storage(q) PROVE MissingStays'
  <2>1. CASE PutLands(q)
    BY <2>1, Shape DEF PutLands
  <2>2. CASE PutLost(q)
    BY <2>2 DEF PutLost
  <2> QED BY <1>4, <2>1, <2>2 DEF Storage
<1>5. ASSUME NEW c \in Cleaner, Reconciliation(c) PROVE MissingStays'
  <2>1. CASE StartMaintenance(c)
    BY <2>1, Shape DEF StartMaintenance, JobGoto
  <2>2. CASE SelectStranded(c)
    BY <2>2, Shape DEF SelectStranded, JobGoto, Pages, Stranded
  <2>3. CASE ReadObject(c)
    BY <2>3, Shape DEF ReadObject, JobGoto
  <2>4. CASE Settle(c)
    BY <2>4, Shape DEF Settle, JobGoto, FailPending, Promotes, NoRow
  <2>5. CASE EndReconcile(c)
    BY <2>5, Shape DEF EndReconcile, JobGoto, NoRow
  <2> QED BY <1>5, <2>1, <2>2, <2>3, <2>4, <2>5 DEF Reconciliation
<1>6. ASSUME NEW c \in Cleaner, Expiry(c) PROVE MissingStays'
  <2>1. CASE SelectExpired(c)
    BY <2>1, Shape DEF SelectExpired, JobGoto, Pages, ExpiredProofs
  <2>2. CASE DeleteObjects(c)
    BY <2>2, Shape DEF DeleteObjects, JobGoto, InPage
  <2>3. CASE MarkDeleted(c)
    BY <2>3, Shape DEF MarkDeleted, JobGoto, InPage
  <2>4. CASE CleanupThrows(c)
    BY <2>4, Shape DEF CleanupThrows, JobGoto, InPage
  <2>5. CASE PurgeChallenges(c)
    BY <2>5, Shape DEF PurgeChallenges, JobGoto
  <2>6. CASE MaintenanceCut(c)
    BY <2>6, Shape DEF MaintenanceCut, JobGoto, NoRow
  <2> QED BY <1>6, <2>1, <2>2, <2>3, <2>4, <2>5, <2>6 DEF Expiry
<1>7. CASE CloseSeason
  BY <1>7 DEF CloseSeason
<1>8. CASE MpTick
  BY <1>8, Shape DEF MpTick
<1>9. CASE UNCHANGED mpVars
  BY <1>9 DEF mpVars
<1> QED BY <1>1, <1>2, <1>3, <1>4, <1>5, <1>6, <1>7, <1>8, <1>9 DEF MpNext

\* A consumed, closed, lapsed or purged challenge never admits a row again.
LEMMA NeverInsertedStep == IInv /\ MpTypeOK' /\ [MpNext]_mpVars => NeverInserted'
<1> SUFFICES ASSUME IInv, MpTypeOK', [MpNext]_mpVars PROVE NeverInserted'
  OBVIOUS
<1> USE DEF IInv, MpTypeOK, Committed, NeverInserted, RowsMatch, timeVars, rowVars, chalVars, reqVars, r2Vars, jobVars
<1>1. ASSUME NEW r \in Run, BeginRun(r) PROVE NeverInserted'
  BY <1>1, Shape DEF BeginRun
<1>2. ASSUME NEW r \in Run, Tamper(r) PROVE NeverInserted'
  BY <1>2 DEF Tamper
<1>3. ASSUME NEW q \in Request, Submission(q) PROVE NeverInserted'
  <2>1. ASSUME NEW r \in Run, NEW v \in Variant, LoadChallenge(q, r, v) PROVE NeverInserted'
    BY <2>1, Shape DEF LoadChallenge, Goto, Answers
  <2>2. CASE LookUp(q)
    BY <2>2, Shape DEF LookUp, Goto, Holding, MpResume, MpMatches, Answers
  <2>3. CASE InsertPending(q)
    BY <2>3, Shape DEF InsertPending, Holding, Answers
  <2>4. CASE InsertLoses(q)
    BY <2>4, Shape DEF InsertLoses, Goto, Answers
  <2>5. CASE ReadConcurrent(q)
    BY <2>5, Shape DEF ReadConcurrent, Goto, Holding, MpResume, MpMatches, Answers
  <2>6. CASE ReadBack(q)
    BY <2>6, Shape DEF ReadBack, Holding, Answers
  <2>7. CASE Claim(q)
    BY <2>7, Shape DEF Claim, Holding, Claims, LeaseTime, Larger, Answers
  <2>8. CASE ClaimLoses(q)
    BY <2>8, Shape DEF ClaimLoses, Goto, Answers
  <2>9. CASE ReadOutrun(q)
    BY <2>9, Shape DEF ReadOutrun, Goto, Answers
  <2>10. CASE PutAnswered(q)
    BY <2>10, Shape DEF PutAnswered, Goto, Unheard, Answers
  <2>11. CASE PutThrows(q)
    BY <2>11, Shape DEF PutThrows, Goto, Unheard, Answers
  <2>12. CASE Inspect(q)
    BY <2>12, Shape DEF Inspect, Goto, Answers
  <2>13. CASE InspectThrows(q)
    BY <2>13, Shape DEF InspectThrows, Goto, Answers
  <2>14. CASE Collide(q)
    BY <2>14, Shape DEF Collide, Goto, FailPending, Answers
  <2>15. CASE Promote(q)
    BY <2>15, Shape DEF Promote, Goto, Promotes, Answers
  <2>16. CASE Recheck(q)
    BY <2>16, Shape DEF Recheck, Goto, Answers
  <2>17. CASE Respond(q)
    BY <2>17, Shape DEF Respond, Goto, Answers
  <2>18. CASE Crash(q)
    BY <2>18, Shape DEF Crash, Goto, Unheard, Answers, Working
  <2> QED BY <1>3, <2>1, <2>2, <2>3, <2>4, <2>5, <2>6, <2>7, <2>8, <2>9, <2>10, <2>11, <2>12, <2>13, <2>14, <2>15, <2>16, <2>17, <2>18 DEF Submission
<1>4. ASSUME NEW q \in Request, Storage(q) PROVE NeverInserted'
  <2>1. CASE PutLands(q)
    BY <2>1, Shape DEF PutLands
  <2>2. CASE PutLost(q)
    BY <2>2 DEF PutLost
  <2> QED BY <1>4, <2>1, <2>2 DEF Storage
<1>5. ASSUME NEW c \in Cleaner, Reconciliation(c) PROVE NeverInserted'
  <2>1. CASE StartMaintenance(c)
    BY <2>1, Shape DEF StartMaintenance, JobGoto
  <2>2. CASE SelectStranded(c)
    BY <2>2, Shape DEF SelectStranded, JobGoto, Pages, Stranded
  <2>3. CASE ReadObject(c)
    BY <2>3, Shape DEF ReadObject, JobGoto
  <2>4. CASE Settle(c)
    BY <2>4, Shape DEF Settle, JobGoto, FailPending, Promotes, NoRow
  <2>5. CASE EndReconcile(c)
    BY <2>5, Shape DEF EndReconcile, JobGoto, NoRow
  <2> QED BY <1>5, <2>1, <2>2, <2>3, <2>4, <2>5 DEF Reconciliation
<1>6. ASSUME NEW c \in Cleaner, Expiry(c) PROVE NeverInserted'
  <2>1. CASE SelectExpired(c)
    BY <2>1, Shape DEF SelectExpired, JobGoto, Pages, ExpiredProofs
  <2>2. CASE DeleteObjects(c)
    BY <2>2, Shape DEF DeleteObjects, JobGoto, InPage
  <2>3. CASE MarkDeleted(c)
    BY <2>3, Shape DEF MarkDeleted, JobGoto, InPage
  <2>4. CASE CleanupThrows(c)
    BY <2>4, Shape DEF CleanupThrows, JobGoto, InPage
  <2>5. CASE PurgeChallenges(c)
    BY <2>5, Shape DEF PurgeChallenges, JobGoto
  <2>6. CASE MaintenanceCut(c)
    BY <2>6, Shape DEF MaintenanceCut, JobGoto, NoRow
  <2> QED BY <1>6, <2>1, <2>2, <2>3, <2>4, <2>5, <2>6 DEF Expiry
<1>7. CASE CloseSeason
  BY <1>7 DEF CloseSeason
<1>8. CASE MpTick
  BY <1>8, Shape DEF MpTick
<1>9. CASE UNCHANGED mpVars
  BY <1>9 DEF mpVars
<1> QED BY <1>1, <1>2, <1>3, <1>4, <1>5, <1>6, <1>7, <1>8, <1>9 DEF MpNext

\* Promotions are backed by bytes, and only expiry takes them.
LEMMA ReadyIsReadableStep == IInv /\ MpTypeOK' /\ [MpNext]_mpVars => ReadyIsReadable'
<1> SUFFICES ASSUME IInv, MpTypeOK', [MpNext]_mpVars PROVE ReadyIsReadable'
  OBVIOUS
<1> USE DEF IInv, MpTypeOK, Committed, ReadyIsReadable, ObjectsBacked, RowsMatch, JobsSound, JobSound, timeVars, rowVars, chalVars, reqVars, r2Vars, jobVars
<1>1. ASSUME NEW r \in Run, BeginRun(r) PROVE ReadyIsReadable'
  BY <1>1, Shape DEF BeginRun
<1>2. ASSUME NEW r \in Run, Tamper(r) PROVE ReadyIsReadable'
  BY <1>2 DEF Tamper
<1>3. ASSUME NEW q \in Request, Submission(q) PROVE ReadyIsReadable'
  <2>1. ASSUME NEW r \in Run, NEW v \in Variant, LoadChallenge(q, r, v) PROVE ReadyIsReadable'
    BY <2>1, Shape DEF LoadChallenge, Goto, Answers
  <2>2. CASE LookUp(q)
    BY <2>2, Shape DEF LookUp, Goto, Holding, MpResume, MpMatches, Answers
  <2>3. CASE InsertPending(q)
    BY <2>3, Shape DEF InsertPending, Holding, Answers
  <2>4. CASE InsertLoses(q)
    BY <2>4, Shape DEF InsertLoses, Goto, Answers
  <2>5. CASE ReadConcurrent(q)
    BY <2>5, Shape DEF ReadConcurrent, Goto, Holding, MpResume, MpMatches, Answers
  <2>6. CASE ReadBack(q)
    BY <2>6, Shape DEF ReadBack, Holding, Answers
  <2>7. CASE Claim(q)
    BY <2>7, Shape DEF Claim, Holding, Claims, LeaseTime, Larger, Answers
  <2>8. CASE ClaimLoses(q)
    BY <2>8, Shape DEF ClaimLoses, Goto, Answers
  <2>9. CASE ReadOutrun(q)
    BY <2>9, Shape DEF ReadOutrun, Goto, Answers
  <2>10. CASE PutAnswered(q)
    BY <2>10, Shape DEF PutAnswered, Goto, Unheard, Answers
  <2>11. CASE PutThrows(q)
    BY <2>11, Shape DEF PutThrows, Goto, Unheard, Answers
  <2>12. CASE Inspect(q)
    BY <2>12, Shape DEF Inspect, Goto, Answers
  <2>13. CASE InspectThrows(q)
    BY <2>13, Shape DEF InspectThrows, Goto, Answers
  <2>14. CASE Collide(q)
    BY <2>14, Shape DEF Collide, Goto, FailPending, Answers
  <2>15. CASE Promote(q)
    BY <2>15, Shape DEF Promote, Goto, Promotes, Answers
  <2>16. CASE Recheck(q)
    BY <2>16, Shape DEF Recheck, Goto, Answers
  <2>17. CASE Respond(q)
    BY <2>17, Shape DEF Respond, Goto, Answers
  <2>18. CASE Crash(q)
    BY <2>18, Shape DEF Crash, Goto, Unheard, Answers, Working
  <2> QED BY <1>3, <2>1, <2>2, <2>3, <2>4, <2>5, <2>6, <2>7, <2>8, <2>9, <2>10, <2>11, <2>12, <2>13, <2>14, <2>15, <2>16, <2>17, <2>18 DEF Submission
<1>4. ASSUME NEW q \in Request, Storage(q) PROVE ReadyIsReadable'
  <2>1. CASE PutLands(q)
    BY <2>1, Shape DEF PutLands
  <2>2. CASE PutLost(q)
    BY <2>2 DEF PutLost
  <2> QED BY <1>4, <2>1, <2>2 DEF Storage
<1>5. ASSUME NEW c \in Cleaner, Reconciliation(c) PROVE ReadyIsReadable'
  <2>1. CASE StartMaintenance(c)
    BY <2>1, Shape DEF StartMaintenance, JobGoto
  <2>2. CASE SelectStranded(c)
    BY <2>2, Shape DEF SelectStranded, JobGoto, Pages, Stranded
  <2>3. CASE ReadObject(c)
    BY <2>3, Shape DEF ReadObject, JobGoto
  <2>4. CASE Settle(c)
    BY <2>4, Shape DEF Settle, JobGoto, FailPending, Promotes, NoRow
  <2>5. CASE EndReconcile(c)
    BY <2>5, Shape DEF EndReconcile, JobGoto, NoRow
  <2> QED BY <1>5, <2>1, <2>2, <2>3, <2>4, <2>5 DEF Reconciliation
<1>6. ASSUME NEW c \in Cleaner, Expiry(c) PROVE ReadyIsReadable'
  <2>1. CASE SelectExpired(c)
    BY <2>1, Shape DEF SelectExpired, JobGoto, Pages, ExpiredProofs
  <2>2. CASE DeleteObjects(c)
    BY <2>2, Shape DEF DeleteObjects, JobGoto, InPage
  <2>3. CASE MarkDeleted(c)
    BY <2>3, Shape DEF MarkDeleted, JobGoto, InPage
  <2>4. CASE CleanupThrows(c)
    BY <2>4, Shape DEF CleanupThrows, JobGoto, InPage
  <2>5. CASE PurgeChallenges(c)
    BY <2>5, Shape DEF PurgeChallenges, JobGoto
  <2>6. CASE MaintenanceCut(c)
    BY <2>6, Shape DEF MaintenanceCut, JobGoto, NoRow
  <2> QED BY <1>6, <2>1, <2>2, <2>3, <2>4, <2>5, <2>6 DEF Expiry
<1>7. CASE CloseSeason
  BY <1>7 DEF CloseSeason
<1>8. CASE MpTick
  BY <1>8, Shape DEF MpTick
<1>9. CASE UNCHANGED mpVars
  BY <1>9 DEF mpVars
<1> QED BY <1>1, <1>2, <1>3, <1>4, <1>5, <1>6, <1>7, <1>8, <1>9 DEF MpNext

\* Only the reconciler fails untampered runs, and only on a `missing' that holds.
LEMMA UploadNeverWastedStep == IInv /\ MpTypeOK' /\ [MpNext]_mpVars => UploadNeverWasted'
<1> SUFFICES ASSUME IInv, MpTypeOK', [MpNext]_mpVars PROVE UploadNeverWasted'
  OBVIOUS
<1> USE DEF IInv, MpTypeOK, Committed, UploadNeverWasted, MissingStays, RowsMatch, timeVars, rowVars, chalVars, reqVars, r2Vars, jobVars
<1>1. ASSUME NEW r \in Run, BeginRun(r) PROVE UploadNeverWasted'
  BY <1>1, Shape DEF BeginRun
<1>2. ASSUME NEW r \in Run, Tamper(r) PROVE UploadNeverWasted'
  BY <1>2 DEF Tamper
<1>3. ASSUME NEW q \in Request, Submission(q) PROVE UploadNeverWasted'
  <2>1. ASSUME NEW r \in Run, NEW v \in Variant, LoadChallenge(q, r, v) PROVE UploadNeverWasted'
    <3>1. put[q] = "none" /\ asked' = [asked EXCEPT ![q] = r]
          /\ UNCHANGED <<state, object, put>>
      BY <2>1 DEF LoadChallenge, Goto
    <3>2. ASSUME NEW p \in Request, p # q PROVE asked'[p] = asked[p]
      BY <3>1, <3>2
    <3> QED BY <3>1, <3>2
  <2>2. CASE LookUp(q)
    BY <2>2, Shape DEF LookUp, Goto, Holding, MpResume, MpMatches, Answers
  <2>3. CASE InsertPending(q)
    BY <2>3, Shape DEF InsertPending, Holding, Answers
  <2>4. CASE InsertLoses(q)
    BY <2>4, Shape DEF InsertLoses, Goto, Answers
  <2>5. CASE ReadConcurrent(q)
    BY <2>5, Shape DEF ReadConcurrent, Goto, Holding, MpResume, MpMatches, Answers
  <2>6. CASE ReadBack(q)
    BY <2>6, Shape DEF ReadBack, Holding, Answers
  <2>7. CASE Claim(q)
    BY <2>7, Shape DEF Claim, Holding, Claims, LeaseTime, Larger, Answers
  <2>8. CASE ClaimLoses(q)
    BY <2>8, Shape DEF ClaimLoses, Goto, Answers
  <2>9. CASE ReadOutrun(q)
    BY <2>9, Shape DEF ReadOutrun, Goto, Answers
  <2>10. CASE PutAnswered(q)
    BY <2>10, Shape DEF PutAnswered, Goto, Unheard, Answers
  <2>11. CASE PutThrows(q)
    BY <2>11, Shape DEF PutThrows, Goto, Unheard, Answers
  <2>12. CASE Inspect(q)
    BY <2>12, Shape DEF Inspect, Goto, Answers
  <2>13. CASE InspectThrows(q)
    BY <2>13, Shape DEF InspectThrows, Goto, Answers
  <2>14. CASE Collide(q)
    BY <2>14, Shape DEF Collide, Goto, FailPending, Answers
  <2>15. CASE Promote(q)
    BY <2>15, Shape DEF Promote, Goto, Promotes, Answers
  <2>16. CASE Recheck(q)
    BY <2>16, Shape DEF Recheck, Goto, Answers
  <2>17. CASE Respond(q)
    BY <2>17, Shape DEF Respond, Goto, Answers
  <2>18. CASE Crash(q)
    BY <2>18, Shape DEF Crash, Goto, Unheard, Answers, Working
  <2> QED BY <1>3, <2>1, <2>2, <2>3, <2>4, <2>5, <2>6, <2>7, <2>8, <2>9, <2>10, <2>11, <2>12, <2>13, <2>14, <2>15, <2>16, <2>17, <2>18 DEF Submission
<1>4. ASSUME NEW q \in Request, Storage(q) PROVE UploadNeverWasted'
  <2>1. CASE PutLands(q)
    BY <2>1, Shape DEF PutLands
  <2>2. CASE PutLost(q)
    BY <2>2 DEF PutLost
  <2> QED BY <1>4, <2>1, <2>2 DEF Storage
<1>5. ASSUME NEW c \in Cleaner, Reconciliation(c) PROVE UploadNeverWasted'
  <2>1. CASE StartMaintenance(c)
    BY <2>1, Shape DEF StartMaintenance, JobGoto
  <2>2. CASE SelectStranded(c)
    BY <2>2, Shape DEF SelectStranded, JobGoto, Pages, Stranded
  <2>3. CASE ReadObject(c)
    BY <2>3, Shape DEF ReadObject, JobGoto
  <2>4. CASE Settle(c)
    <3> DEFINE r == row[c].run
    <3>1. \/ state' = state
          \/ state' = [state EXCEPT ![r] = "ready"]
          \/ /\ state' = [state EXCEPT ![r] = "failed"] /\ verdict[c] # "ready"
             /\ state[r] = "pending" /\ lease[r] = row[c].lease
      BY <2>4 DEF Settle, FailPending, Promotes
    <3>2. UNCHANGED <<asked, object, put>> /\ r \in Run
      BY <2>4 DEF Settle, JobsSound, JobSound
    <3>3. CASE state' # [state EXCEPT ![r] = "failed"] \/ state' = state
      BY <3>1, <3>2, <3>3
    <3>4. CASE state' = [state EXCEPT ![r] = "failed"] /\ state' # state
      <4>1. verdict[c] = "failed"
        BY <2>4, <3>1, <3>4 DEF Settle, JobsSound, JobSound
      <4> QED BY <3>1, <3>2, <3>4, <4>1
    <3> QED BY <3>3, <3>4
  <2>5. CASE EndReconcile(c)
    BY <2>5, Shape DEF EndReconcile, JobGoto, NoRow
  <2> QED BY <1>5, <2>1, <2>2, <2>3, <2>4, <2>5 DEF Reconciliation
<1>6. ASSUME NEW c \in Cleaner, Expiry(c) PROVE UploadNeverWasted'
  <2>1. CASE SelectExpired(c)
    BY <2>1, Shape DEF SelectExpired, JobGoto, Pages, ExpiredProofs
  <2>2. CASE DeleteObjects(c)
    BY <2>2, Shape DEF DeleteObjects, JobGoto, InPage
  <2>3. CASE MarkDeleted(c)
    BY <2>3, Shape DEF MarkDeleted, JobGoto, InPage
  <2>4. CASE CleanupThrows(c)
    BY <2>4, Shape DEF CleanupThrows, JobGoto, InPage
  <2>5. CASE PurgeChallenges(c)
    BY <2>5, Shape DEF PurgeChallenges, JobGoto
  <2>6. CASE MaintenanceCut(c)
    BY <2>6, Shape DEF MaintenanceCut, JobGoto, NoRow
  <2> QED BY <1>6, <2>1, <2>2, <2>3, <2>4, <2>5, <2>6 DEF Expiry
<1>7. CASE CloseSeason
  BY <1>7 DEF CloseSeason
<1>8. CASE MpTick
  BY <1>8, Shape DEF MpTick
<1>9. CASE UNCHANGED mpVars
  BY <1>9 DEF mpVars
<1> QED BY <1>1, <1>2, <1>3, <1>4, <1>5, <1>6, <1>7, <1>8, <1>9 DEF MpNext

\* No later step contradicts an answer.
LEMMA AnswersHoldStep == IInv /\ MpTypeOK' /\ [MpNext]_mpVars => AnswersHold'
<1> SUFFICES ASSUME IInv, MpTypeOK', [MpNext]_mpVars PROVE AnswersHold'
  OBVIOUS
<1> USE DEF IInv, MpTypeOK, Committed, AnswersHold, RowsMatch, NeverInserted, PendingNeverDropped, timeVars, rowVars, chalVars, reqVars, r2Vars, jobVars
<1>1. ASSUME NEW r \in Run, BeginRun(r) PROVE AnswersHold'
  BY <1>1, Shape DEF BeginRun
<1>2. ASSUME NEW r \in Run, Tamper(r) PROVE AnswersHold'
  BY <1>2 DEF Tamper
<1>3. ASSUME NEW q \in Request, Submission(q) PROVE AnswersHold'
  <2>1. ASSUME NEW r \in Run, NEW v \in Variant, LoadChallenge(q, r, v) PROVE AnswersHold'
    BY <2>1, Shape DEF LoadChallenge, Goto, Answers
  <2>2. CASE LookUp(q)
    BY <2>2, Shape DEF LookUp, Goto, Holding, MpResume, MpMatches, Answers
  <2>3. CASE InsertPending(q)
    BY <2>3, Shape DEF InsertPending, Holding, Answers
  <2>4. CASE InsertLoses(q)
    BY <2>4, Shape DEF InsertLoses, Goto, Answers
  <2>5. CASE ReadConcurrent(q)
    BY <2>5, Shape DEF ReadConcurrent, Goto, Holding, MpResume, MpMatches, Answers
  <2>6. CASE ReadBack(q)
    BY <2>6, Shape DEF ReadBack, Holding, Answers
  <2>7. CASE Claim(q)
    BY <2>7, Shape DEF Claim, Holding, Claims, LeaseTime, Larger, Answers
  <2>8. CASE ClaimLoses(q)
    BY <2>8, Shape DEF ClaimLoses, Goto, Answers
  <2>9. CASE ReadOutrun(q)
    BY <2>9, Shape DEF ReadOutrun, Goto, Answers
  <2>10. CASE PutAnswered(q)
    BY <2>10, Shape DEF PutAnswered, Goto, Unheard, Answers
  <2>11. CASE PutThrows(q)
    BY <2>11, Shape DEF PutThrows, Goto, Unheard, Answers
  <2>12. CASE Inspect(q)
    BY <2>12, Shape DEF Inspect, Goto, Answers
  <2>13. CASE InspectThrows(q)
    BY <2>13, Shape DEF InspectThrows, Goto, Answers
  <2>14. CASE Collide(q)
    BY <2>14, Shape DEF Collide, Goto, FailPending, Answers
  <2>15. CASE Promote(q)
    BY <2>15, Shape DEF Promote, Goto, Promotes, Answers
  <2>16. CASE Recheck(q)
    BY <2>16, Shape DEF Recheck, Goto, Answers
  <2>17. CASE Respond(q)
    BY <2>17, Shape DEF Respond, Goto, Answers
  <2>18. CASE Crash(q)
    BY <2>18, Shape DEF Crash, Goto, Unheard, Answers, Working
  <2> QED BY <1>3, <2>1, <2>2, <2>3, <2>4, <2>5, <2>6, <2>7, <2>8, <2>9, <2>10, <2>11, <2>12, <2>13, <2>14, <2>15, <2>16, <2>17, <2>18 DEF Submission
<1>4. ASSUME NEW q \in Request, Storage(q) PROVE AnswersHold'
  <2>1. CASE PutLands(q)
    BY <2>1, Shape DEF PutLands
  <2>2. CASE PutLost(q)
    BY <2>2 DEF PutLost
  <2> QED BY <1>4, <2>1, <2>2 DEF Storage
<1>5. ASSUME NEW c \in Cleaner, Reconciliation(c) PROVE AnswersHold'
  <2>1. CASE StartMaintenance(c)
    BY <2>1, Shape DEF StartMaintenance, JobGoto
  <2>2. CASE SelectStranded(c)
    BY <2>2, Shape DEF SelectStranded, JobGoto, Pages, Stranded
  <2>3. CASE ReadObject(c)
    BY <2>3, Shape DEF ReadObject, JobGoto
  <2>4. CASE Settle(c)
    BY <2>4, Shape DEF Settle, JobGoto, FailPending, Promotes, NoRow
  <2>5. CASE EndReconcile(c)
    BY <2>5, Shape DEF EndReconcile, JobGoto, NoRow
  <2> QED BY <1>5, <2>1, <2>2, <2>3, <2>4, <2>5 DEF Reconciliation
<1>6. ASSUME NEW c \in Cleaner, Expiry(c) PROVE AnswersHold'
  <2>1. CASE SelectExpired(c)
    BY <2>1, Shape DEF SelectExpired, JobGoto, Pages, ExpiredProofs
  <2>2. CASE DeleteObjects(c)
    BY <2>2, Shape DEF DeleteObjects, JobGoto, InPage
  <2>3. CASE MarkDeleted(c)
    BY <2>3, Shape DEF MarkDeleted, JobGoto, InPage
  <2>4. CASE CleanupThrows(c)
    BY <2>4, Shape DEF CleanupThrows, JobGoto, InPage
  <2>5. CASE PurgeChallenges(c)
    BY <2>5, Shape DEF PurgeChallenges, JobGoto
  <2>6. CASE MaintenanceCut(c)
    BY <2>6, Shape DEF MaintenanceCut, JobGoto, NoRow
  <2> QED BY <1>6, <2>1, <2>2, <2>3, <2>4, <2>5, <2>6 DEF Expiry
<1>7. CASE CloseSeason
  BY <1>7 DEF CloseSeason
<1>8. CASE MpTick
  BY <1>8, Shape DEF MpTick
<1>9. CASE UNCHANGED mpVars
  BY <1>9 DEF mpVars
<1> QED BY <1>1, <1>2, <1>3, <1>4, <1>5, <1>6, <1>7, <1>8, <1>9 DEF MpNext

\* Rows marked deleted are settled and expired, and stay so.
LEMMA PendingNeverDroppedStep == IInv /\ MpTypeOK' /\ [MpNext]_mpVars => PendingNeverDropped'
<1> SUFFICES ASSUME IInv, MpTypeOK', [MpNext]_mpVars PROVE PendingNeverDropped'
  OBVIOUS
<1> USE DEF IInv, MpTypeOK, Committed, PendingNeverDropped, JobsSound, JobSound, timeVars, rowVars, chalVars, reqVars, r2Vars, jobVars
<1>1. ASSUME NEW r \in Run, BeginRun(r) PROVE PendingNeverDropped'
  BY <1>1, Shape DEF BeginRun
<1>2. ASSUME NEW r \in Run, Tamper(r) PROVE PendingNeverDropped'
  BY <1>2 DEF Tamper
<1>3. ASSUME NEW q \in Request, Submission(q) PROVE PendingNeverDropped'
  <2>1. ASSUME NEW r \in Run, NEW v \in Variant, LoadChallenge(q, r, v) PROVE PendingNeverDropped'
    BY <2>1, Shape DEF LoadChallenge, Goto, Answers
  <2>2. CASE LookUp(q)
    BY <2>2, Shape DEF LookUp, Goto, Holding, MpResume, MpMatches, Answers
  <2>3. CASE InsertPending(q)
    BY <2>3, Shape DEF InsertPending, Holding, Answers
  <2>4. CASE InsertLoses(q)
    BY <2>4, Shape DEF InsertLoses, Goto, Answers
  <2>5. CASE ReadConcurrent(q)
    BY <2>5, Shape DEF ReadConcurrent, Goto, Holding, MpResume, MpMatches, Answers
  <2>6. CASE ReadBack(q)
    BY <2>6, Shape DEF ReadBack, Holding, Answers
  <2>7. CASE Claim(q)
    BY <2>7, Shape DEF Claim, Holding, Claims, LeaseTime, Larger, Answers
  <2>8. CASE ClaimLoses(q)
    BY <2>8, Shape DEF ClaimLoses, Goto, Answers
  <2>9. CASE ReadOutrun(q)
    BY <2>9, Shape DEF ReadOutrun, Goto, Answers
  <2>10. CASE PutAnswered(q)
    BY <2>10, Shape DEF PutAnswered, Goto, Unheard, Answers
  <2>11. CASE PutThrows(q)
    BY <2>11, Shape DEF PutThrows, Goto, Unheard, Answers
  <2>12. CASE Inspect(q)
    BY <2>12, Shape DEF Inspect, Goto, Answers
  <2>13. CASE InspectThrows(q)
    BY <2>13, Shape DEF InspectThrows, Goto, Answers
  <2>14. CASE Collide(q)
    BY <2>14, Shape DEF Collide, Goto, FailPending, Answers
  <2>15. CASE Promote(q)
    BY <2>15, Shape DEF Promote, Goto, Promotes, Answers
  <2>16. CASE Recheck(q)
    BY <2>16, Shape DEF Recheck, Goto, Answers
  <2>17. CASE Respond(q)
    BY <2>17, Shape DEF Respond, Goto, Answers
  <2>18. CASE Crash(q)
    BY <2>18, Shape DEF Crash, Goto, Unheard, Answers, Working
  <2> QED BY <1>3, <2>1, <2>2, <2>3, <2>4, <2>5, <2>6, <2>7, <2>8, <2>9, <2>10, <2>11, <2>12, <2>13, <2>14, <2>15, <2>16, <2>17, <2>18 DEF Submission
<1>4. ASSUME NEW q \in Request, Storage(q) PROVE PendingNeverDropped'
  <2>1. CASE PutLands(q)
    BY <2>1, Shape DEF PutLands
  <2>2. CASE PutLost(q)
    BY <2>2 DEF PutLost
  <2> QED BY <1>4, <2>1, <2>2 DEF Storage
<1>5. ASSUME NEW c \in Cleaner, Reconciliation(c) PROVE PendingNeverDropped'
  <2>1. CASE StartMaintenance(c)
    BY <2>1, Shape DEF StartMaintenance, JobGoto
  <2>2. CASE SelectStranded(c)
    BY <2>2, Shape DEF SelectStranded, JobGoto, Pages, Stranded
  <2>3. CASE ReadObject(c)
    BY <2>3, Shape DEF ReadObject, JobGoto
  <2>4. CASE Settle(c)
    BY <2>4, Shape DEF Settle, JobGoto, FailPending, Promotes, NoRow
  <2>5. CASE EndReconcile(c)
    BY <2>5, Shape DEF EndReconcile, JobGoto, NoRow
  <2> QED BY <1>5, <2>1, <2>2, <2>3, <2>4, <2>5 DEF Reconciliation
<1>6. ASSUME NEW c \in Cleaner, Expiry(c) PROVE PendingNeverDropped'
  <2>1. CASE SelectExpired(c)
    BY <2>1, Shape DEF SelectExpired, JobGoto, Pages, ExpiredProofs
  <2>2. CASE DeleteObjects(c)
    BY <2>2, Shape DEF DeleteObjects, JobGoto, InPage
  <2>3. CASE MarkDeleted(c)
    BY <2>3, Shape DEF MarkDeleted, JobGoto, InPage
  <2>4. CASE CleanupThrows(c)
    BY <2>4, Shape DEF CleanupThrows, JobGoto, InPage
  <2>5. CASE PurgeChallenges(c)
    BY <2>5, Shape DEF PurgeChallenges, JobGoto
  <2>6. CASE MaintenanceCut(c)
    BY <2>6, Shape DEF MaintenanceCut, JobGoto, NoRow
  <2> QED BY <1>6, <2>1, <2>2, <2>3, <2>4, <2>5, <2>6 DEF Expiry
<1>7. CASE CloseSeason
  BY <1>7 DEF CloseSeason
<1>8. CASE MpTick
  BY <1>8, Shape DEF MpTick
<1>9. CASE UNCHANGED mpVars
  BY <1>9 DEF mpVars
<1> QED BY <1>1, <1>2, <1>3, <1>4, <1>5, <1>6, <1>7, <1>8, <1>9 DEF MpNext

\* The empty tables satisfy the inductive invariant.
LEMMA InitInvariant == MpInit => IInv
<1> SUFFICES ASSUME MpInit PROVE IInv
  OBVIOUS
<1>1. MpTypeOK
  BY InitType
<1>2. RowsMatch /\ ObjectsBacked
  BY Shape DEF MpInit, RowsMatch, ObjectsBacked, Committed, NoRow
<1>3. JobsSound
  BY Shape DEF MpInit, JobsSound, JobSound, NoRow
<1>4. WritesInTime /\ MissingStays /\ NeverInserted
  BY DEF MpInit, WritesInTime, MissingStays, NeverInserted
<1>5. ReadyIsReadable /\ UploadNeverWasted /\ AnswersHold /\ PendingNeverDropped
  BY DEF MpInit, ReadyIsReadable, UploadNeverWasted, AnswersHold, PendingNeverDropped
<1> QED BY <1>1, <1>2, <1>3, <1>4, <1>5 DEF IInv

\* Every step preserves it, conjunct by conjunct.
LEMMA NextInvariant == IInv /\ [MpNext]_mpVars => IInv'
<1> SUFFICES ASSUME IInv, [MpNext]_mpVars PROVE IInv'
  OBVIOUS
<1>1. MpTypeOK'
  BY NextType
<1>2. RowsMatch' /\ ObjectsBacked' /\ JobsSound' /\ WritesInTime' /\ MissingStays'
  BY <1>1, RowsMatchStep, ObjectsBackedStep, JobsSoundStep, WritesInTimeStep, MissingStaysStep
<1>3. NeverInserted' /\ ReadyIsReadable' /\ UploadNeverWasted' /\ AnswersHold'
      /\ PendingNeverDropped'
  BY <1>1, NeverInsertedStep, ReadyIsReadableStep, UploadNeverWastedStep, AnswersHoldStep,
     PendingNeverDroppedStep
<1> QED BY <1>1, <1>2, <1>3 DEF IInv

\* Every reachable state of the retention protocol satisfies the inductive
\* invariant, for any numbers of POSTs, runs and overlapping maintenance jobs.
THEOREM Invariance == MpSpec => []IInv
<1>1. MpInit => IInv
  BY InitInvariant
<1>2. IInv /\ [MpNext]_mpVars => IInv'
  BY NextInvariant
<1> QED BY <1>1, <1>2, PTL DEF MpSpec

\* The tables and the Workers' memory keep their shape.
THEOREM TypeCorrect == MpSpec => []MpTypeOK
BY Invariance, PTL DEF IInv

\* A ranked row's unexpired proof is in R2 and is the one that was verified.
THEOREM RankedProofIsReadable == MpSpec => []ReadyIsReadable
BY Invariance, PTL DEF IInv

\* With R2 deciding a write within the grace period, the reconciler fails no run
\* whose proof is stored or may still arrive.
THEOREM GraceProtectsUploads == MpSpec => []UploadNeverWasted
BY Invariance, PTL DEF IInv

\* What a POST was answered stays true.
THEOREM AnswersStayTrue == MpSpec => []AnswersHold
BY Invariance, PTL DEF IInv

\* Expiry never hides an unsettled row from the reconciler.
THEOREM ExpiryLeavesPending == MpSpec => []PendingNeverDropped
BY Invariance, PTL DEF IInv
=============================================================================
