------------------------------ MODULE Feedback ------------------------------
(***************************************************************************)
(* Votes and private notes (apps/platform/src/shared/feedback.ts and the   *)
(* vote bridge of migration 0004), of one subject.  On the default channel *)
(* Partition still writes its old votes table, over the old route or the   *)
(* new one, and triggers project it into the shared table everybody reads; *)
(* any other game or channel writes the shared table itself.               *)
(***************************************************************************)
EXTENDS Integers

CONSTANTS
  FbSession,   \* signed anonymous sessions
  FbPut,       \* feedback requests
  FbNotes,     \* texts of a note
  FbKeep,      \* ticks a note is kept (ninety days)
  FbHorizon,   \* bound of the model on time
  FbNothing    \* no request's session, no note

ASSUME FbAssumption ==
  /\ FbNothing \notin FbNotes \cup {"clear"} /\ "clear" \notin FbNotes
  /\ FbKeep \in Nat /\ FbHorizon \in Nat

\* "legacy": Partition's default channel; "direct": every other one.
FbChannels == {"legacy", "direct"}
FbSent == {FbNothing, "clear"} \cup FbNotes   \* a note left out, empty, or written

VARIABLES
  fbNow,
  fbChannel,   \* the channel; channels share no row
  fbVotes,     \* votes: value by session, 0 for no row
  fbShared,    \* feedback_votes of the channel
  fbNote,      \* feedback_notes of the channel: text and expires_at
  fbPut        \* requests: step, who sent what, and the answer they got

fbVars == <<fbNow, fbChannel, fbVotes, fbShared, fbNote, fbPut>>

NoNote == [text |-> FbNothing, expires |-> 0]
FbIdle == [at |-> "idle", by |-> FbNothing, vote |-> 0, sent |-> FbNothing,
           alone |-> TRUE, due |-> 0, viewer |-> 0, note |-> FbNothing]

FbInit ==
  /\ fbNow = 0 /\ fbChannel \in FbChannels
  /\ fbVotes = [s \in FbSession |-> 0]
  /\ fbShared = [s \in FbSession |-> 0]
  /\ fbNote = [s \in FbSession |-> NoNote]
  /\ fbPut = [q \in FbPut |-> FbIdle]

FbTick ==
  /\ fbNow < FbHorizon /\ fbNow' = fbNow + 1
  /\ UNCHANGED <<fbChannel, fbVotes, fbShared, fbNote, fbPut>>

-----------------------------------------------------------------------------
\* Mutant of FbProject: the trigger on deletion is missing.
FbProjectRowsOnly(s, vote) == IF vote = 0 THEN fbShared[s] ELSE vote

\* The three triggers of the bridge: what the shared row becomes as the old
\* table's row is inserted, changed or deleted.
FbProject(s, vote) == IF fbVotes[s] = 0 /\ vote = 0 THEN fbShared[s] ELSE vote

\* Omitted keeps the note, empty clears it, and a text renews its deadline.
FbWritten(old, sent) ==
  CASE sent = FbNothing -> old
    [] sent = "clear" -> NoNote
    [] OTHER -> [text |-> sent, expires |-> fbNow + FbKeep]

\* setFeedback: one batch writes vote and note, over what the session sent
\* before; answers it had are history.
FbWrite(q, s, vote, sent) ==
  /\ fbPut[q].at = "idle"
  /\ IF fbChannel = "legacy"
     THEN /\ fbVotes' = [fbVotes EXCEPT ![s] = vote]
          /\ fbShared' = [fbShared EXCEPT ![s] = FbProject(s, vote)]
     ELSE /\ fbShared' = [fbShared EXCEPT ![s] = vote]
          /\ UNCHANGED fbVotes
  /\ fbNote' = [fbNote EXCEPT ![s] = FbWritten(@, sent)]
  /\ fbPut' = [o \in FbPut |->
       IF o = q THEN [FbIdle EXCEPT !.at = "written", !.by = s, !.vote = vote, !.sent = sent, !.due = fbNow + FbKeep]
       ELSE IF fbPut[o].by # s THEN fbPut[o]
       ELSE IF fbPut[o].at = "answered" THEN FbIdle ELSE [fbPut[o] EXCEPT !.alone = FALSE]]
  /\ UNCHANGED <<fbNow, fbChannel>>

\* feedbackSummary: a second batch reads the own vote and the unexpired note.
\* What an overtaken request is shown is another's, and not followed.
FbAnswer(q) ==
  LET p == fbPut[q] IN
  /\ p.at = "written"
  /\ fbPut' = [fbPut EXCEPT ![q] = IF ~p.alone THEN FbIdle ELSE [p EXCEPT !.at = "answered",
       !.viewer = fbShared[p.by],
       !.note = IF fbNote[p.by].expires > fbNow THEN fbNote[p.by].text ELSE FbNothing]]
  /\ UNCHANGED <<fbNow, fbChannel, fbVotes, fbShared, fbNote>>

\* The answer has been read, or the Worker ended before it was given.
FbForget(q) ==
  /\ fbPut[q].at # "idle" /\ fbPut' = [fbPut EXCEPT ![q] = FbIdle]
  /\ UNCHANGED <<fbNow, fbChannel, fbVotes, fbShared, fbNote>>

FbLapsed(n) == n.text # FbNothing /\ n.expires <= fbNow

\* cleanupExpiredFeedbackNotes
FbCleanup ==
  /\ \E s \in FbSession : FbLapsed(fbNote[s])
  /\ fbNote' = [s \in FbSession |-> IF FbLapsed(fbNote[s]) THEN NoNote ELSE fbNote[s]]
  /\ UNCHANGED <<fbNow, fbChannel, fbVotes, fbShared, fbPut>>

FbNext ==
  \/ FbTick \/ FbCleanup
  \/ \E q \in FbPut : FbAnswer(q) \/ FbForget(q)
  \/ \E q \in FbPut, s \in FbSession, vote \in {-1, 0, 1}, sent \in FbSent : FbWrite(q, s, vote, sent)

FbSpec == FbInit /\ [][FbNext]_fbVars

-----------------------------------------------------------------------------
\* A vote has one value: what the old table says and what everybody is shown
\* agree after any mixture of requests, whichever triggers they fired.  And a
\* player is shown what they sent, the vote and the note with it, unless they
\* sent something else since; the note they were shown stays for its ninety days.
FbOneValue ==
  /\ fbChannel = "legacy" => fbVotes = fbShared
  /\ \A q \in FbPut : fbPut[q].at = "answered" =>
       /\ fbPut[q].viewer = fbPut[q].vote
       /\ fbPut[q].sent = "clear" => fbPut[q].note = FbNothing
       /\ fbPut[q].sent \in FbNotes /\ fbNow < fbPut[q].due =>
            /\ fbPut[q].note = fbPut[q].sent
            /\ fbNote[fbPut[q].by] = [text |-> fbPut[q].sent, expires |-> fbPut[q].due]
=============================================================================
