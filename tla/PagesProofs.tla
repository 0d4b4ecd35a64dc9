---------------------------- MODULE PagesProofs ----------------------------
(* Safety of what a page keeps while its requests are answered late, twice  *)
(* or never: the ranked panel of Maltline, for any number of attempts,      *)
(* stages and requests; Smilefall's attempts and score entry, for any       *)
(* number of stages, difficulties and challenges; and the votes and notes   *)
(* of a catalog, for any number of fields, requests and sessions.  And of   *)
(* what the page of Partition keeps between its controls, its field and     *)
(* the replay it records, on any board.                                     *)
EXTENDS Competition, SmilefallPlay, CatalogVotes, PartitionPlay, PartitionRulesProofs, FiniteSetTheorems, TLAPS

-----------------------------------------------------------------------------
(* What the panel relies on.                                               *)

CoStatuses == {"none", "recording", "eligible", "ineligible", "submitted"}
CoSubmissions == {"none", "eligible", "ineligible", "submitting", "pending", "accepted", "error"}
CoRows    == [stage : Nat, inputs : Nat]
CoProofs  == [attempt : Nat, stages : Seq(CoRows)]
CoLooks   == [kind : {"none", "loading", "verified", "unavailable", "error"}, entry : Nat, playback : Nat]
CoStates  ==
  [screen : {"title", "card", "playing", "over"}, open : BOOLEAN, attempt : Nat,
   challengeStatus : {"idle", "preparing", "ready", "unavailable"}, proofStatus : CoStatuses,
   challenge : Nat, proof : CoProofs, score : Nat, invalid : BOOLEAN, attempted : BOOLEAN,
   submission : CoSubmissions, standings : {"loading", "ranked", "error"}, rows : SUBSET CoRun,
   inspection : CoLooks, destroyed : BOOLEAN]
CoGames    == [stage : Nat, tick : Nat, log : Seq(CoRows), over : BOOLEAN]
CoRecorders == [done : Seq(CoRows), active : Nat, inputs : Nat, terminal : BOOLEAN, unavailable : BOOLEAN]
CoMessages == [kind : {"begin", "list", "submit", "inspect"}, for : Nat, proof : CoProofs, score : Nat,
               live : BOOLEAN,
               answer : {"none", "done", "unresolved", "gone", "ready", "pending", "callsign", "refused"}]

CoServed == {"none", "pending", "ready", "failed"}

CoTyped ==
  /\ co \in CoStates /\ coGame \in CoGames /\ coRecorder \in CoRecorders
  /\ coNet \subseteq CoMessages /\ coServer \in [CoRun -> CoServed]

\* The host's screen follows the game, and the recorder follows both.
CoFollows ==
  /\ coGame.over <=> co.screen \in {"title", "over"}
  /\ co.screen = "card" => coGame.tick = 0
  /\ RecorderFits

\* What the controller holds is of this attempt, and its proof is of a run that is over.
CoOwn ==
  /\ co.challenge \in {0, co.attempt} /\ co.score \in {0, co.attempt}
  /\ co.attempt \in CoRun \cup {0} /\ (coGame.over \/ co.attempt # 0)
  /\ co.proof # NoProof =>
       coGame.over /\ co.proof.attempt = co.attempt /\ co.proof.stages = coGame.log
  /\ co.score # 0 => coGame.over
  /\ co.attempt # 0 => co.proofStatus # "none"

\* One challenge is awaited at most, by an attempt that has none and is not spoilt.
CoBegins ==
  \A q \in coNet : q.kind = "begin" /\ q.live =>
    /\ q.for = co.attempt /\ co.challenge = 0 /\ ~co.invalid
    /\ \A p \in coNet : p.kind = "begin" /\ p.live => p = q

\* A submission is of one attempt, and its answer is what the service holds.
CoWhole ==
  \A q \in coNet : q.kind = "submit" =>
    /\ q.for \in CoRun /\ q.for = q.proof.attempt /\ q.for = q.score
    /\ q.answer = "ready" => coServer[q.for] = "ready"
    /\ q.answer = "pending" => coServer[q.for] # "none"

\* One submission is awaited at most, of the attempt that is over.
CoAwaited ==
  \A q \in coNet : q.kind = "submit" /\ q.live =>
    /\ q.for = co.attempt /\ q.proof.stages = coGame.log /\ coGame.over
    /\ co.challenge # 0 /\ co.score # 0 /\ (co.invalid \/ co.submission = "submitting")
    /\ \A p \in coNet : p.kind = "submit" /\ p.live => p = q

\* What the panel says of the run.
CoSaid ==
  /\ co.submission # "none" => co.score # 0
  /\ co.submission = "accepted" => coServer[co.attempt] = "ready"
  /\ co.submission = "pending" => coServer[co.attempt] # "none"
  /\ co.submission \in {"eligible", "submitting", "pending", "error"} /\ ~co.invalid => Submittable

\* What the panel shows.
CoShown ==
  /\ co.open => co.screen \in SafeScreens
  /\ co.inspection.kind = "verified" => co.inspection.playback = co.inspection.entry
  /\ ~co.open => co.inspection = NoInspection
  /\ \A q \in coNet : q.kind = "inspect" /\ q.live => co.open /\ co.inspection.entry = q.for

CoInv == CoTyped /\ CoFollows /\ CoOwn /\ CoBegins /\ CoWhole /\ CoAwaited /\ CoSaid /\ CoShown

-----------------------------------------------------------------------------
(* What the parts of a step leave alone.                                   *)

\* The attempt's proof, as the recorder leaves it.
LEMMA NoProofTyped == NoProof \in CoProofs /\ NoInspection \in CoLooks /\ Blank \in CoRecorders
<1>1. <<>> \in Seq(CoRows)
  OBVIOUS
<1> QED BY <1>1 DEF NoProof, NoInspection, Blank, CoProofs, CoLooks, CoRecorders

\* Closing the panel leaves everything else alone.
LEMMA ClosedFields ==
  ASSUME NEW c \in CoStates
  PROVE  /\ Closed(c) \in CoStates /\ ~Closed(c).open
         /\ Closed(c).inspection = IF c.open THEN NoInspection ELSE c.inspection
         /\ Closed(c).screen = c.screen /\ Closed(c).attempt = c.attempt
         /\ Closed(c).challengeStatus = c.challengeStatus
         /\ Closed(c).proofStatus = c.proofStatus /\ Closed(c).challenge = c.challenge
         /\ Closed(c).proof = c.proof /\ Closed(c).score = c.score
         /\ Closed(c).invalid = c.invalid /\ Closed(c).attempted = c.attempted
         /\ Closed(c).submission = c.submission /\ Closed(c).standings = c.standings
         /\ Closed(c).rows = c.rows /\ Closed(c).destroyed = c.destroyed
<1>1. CASE c.open
  BY <1>1, NoProofTyped DEF Closed, CoStates
<1>2. CASE ~c.open
  BY <1>2 DEF Closed
<1> QED BY <1>1, <1>2

\* What the panel says of a run that is over, and on what.
LEMMA TerminalFields ==
  ASSUME NEW c \in CoStates
  PROVE  LET t == TerminalSubmission(c) IN
         /\ t \in CoStates /\ t.submission \in {"none", "eligible", "ineligible"}
         /\ t.proofStatus \in {c.proofStatus, "eligible", "ineligible"}
         /\ t.submission = "eligible" =>
              ~c.invalid /\ c.challenge # 0 /\ c.proof # NoProof /\ t.proofStatus = "eligible"
                /\ c.challenge \notin coLapsed.runs
         /\ t.screen = c.screen /\ t.open = c.open /\ t.attempt = c.attempt
         /\ t.challengeStatus = c.challengeStatus /\ t.challenge = c.challenge
         /\ t.proof = c.proof /\ t.score = c.score /\ t.invalid = c.invalid
         /\ t.attempted = c.attempted /\ t.standings = c.standings /\ t.rows = c.rows
         /\ t.inspection = c.inspection /\ t.destroyed = c.destroyed
<1> DEFINE t == TerminalSubmission(c)
<1>1. CASE c.invalid
  <2>1. t = [c EXCEPT !.submission = "ineligible"]
    BY <1>1 DEF TerminalSubmission
  <2> QED BY <1>1, <2>1 DEF CoStates, CoSubmissions
<1>2. CASE ~c.invalid /\ c.challengeStatus = "unavailable"
  <2>1. t = [c EXCEPT !.proofStatus = "ineligible", !.submission = "ineligible"]
    BY <1>2 DEF TerminalSubmission
  <2> QED BY <1>2, <2>1 DEF CoStates, CoSubmissions, CoStatuses
<1>3. CASE ~c.invalid /\ c.challengeStatus # "unavailable" /\ (c.challenge = 0 \/ c.proof = NoProof)
  <2>1. t = [c EXCEPT !.submission = "none"]
    BY <1>3 DEF TerminalSubmission
  <2> QED BY <1>3, <2>1 DEF CoStates, CoSubmissions
<1>4. CASE ~c.invalid /\ c.challengeStatus # "unavailable" /\ c.challenge # 0 /\ c.proof # NoProof
  <2> DEFINE kind == IF c.challenge \in coLapsed.runs THEN "ineligible" ELSE "eligible"
  <2>1. t = [c EXCEPT !.proofStatus = kind, !.submission = kind]
    BY <1>4 DEF TerminalSubmission
  <2>2. kind \in {"eligible", "ineligible"} /\ (kind = "eligible" => c.challenge \notin coLapsed.runs)
    OBVIOUS
  <2> HIDE DEF kind
  <2> QED BY <1>4, <2>1, <2>2 DEF CoStates, CoSubmissions, CoStatuses
<1> QED BY <1>1, <1>2, <1>3, <1>4

\* A request that is cut off stays what it is, and one that is still live was not cut off.
LEMMA CutOffFields ==
  ASSUME NEW net \in SUBSET CoMessages, NEW kinds, NEW p \in CutOff(net, kinds)
  PROVE  /\ p \in CoMessages
         /\ p.live => p \in net /\ p.kind \notin kinds
         /\ \E q \in net : /\ p.kind = q.kind /\ p.for = q.for /\ p.proof = q.proof
                           /\ p.score = q.score /\ p.answer = q.answer
<1>1. PICK q \in net : p = [q EXCEPT !.live = q.live /\ q.kind \notin kinds]
  BY DEF CutOff
<1>2. q \in CoMessages
  OBVIOUS
<1>3. p.live = (q.live /\ q.kind \notin kinds) /\ p.kind = q.kind /\ p.for = q.for
      /\ p.proof = q.proof /\ p.score = q.score /\ p.answer = q.answer
  BY <1>1, <1>2 DEF CoMessages
<1>4. (q.live /\ q.kind \notin kinds) \in BOOLEAN
  OBVIOUS
<1>5. p \in CoMessages
  BY <1>1, <1>2, <1>4 DEF CoMessages
<1>6. ASSUME p.live PROVE p \in net /\ p.kind \notin kinds
  <2>1. q.live /\ q.kind \notin kinds
    BY <1>3, <1>6
  <2>2. q.live = TRUE
    BY <1>2, <2>1 DEF CoMessages
  <2>3. p = [q EXCEPT !.live = TRUE]
    BY <1>1, <2>1
  <2>4. p = q
    BY <1>2, <2>2, <2>3 DEF CoMessages
  <2> QED BY <1>3, <2>1, <2>4
<1> QED BY <1>3, <1>5, <1>6

\* What is left live of requests some of which were cut off.
LEMMA CutOffLives ==
  ASSUME NEW net \in SUBSET CoMessages, NEW kinds, NEW q \in net, q.live, q.kind \notin kinds
  PROVE  q \in CutOff(net, kinds)
<1>1. q \in CoMessages /\ q.live = TRUE
  BY DEF CoMessages
<1>2. [q EXCEPT !.live = q.live /\ q.kind \notin kinds] = q
  BY <1>1 DEF CoMessages
<1> QED BY <1>2 DEF CutOff

\* A request as it is sent.
LEMMA SentTyped ==
  ASSUME NEW kind \in {"begin", "list", "submit", "inspect"}, NEW for \in Nat
  PROVE  /\ Sent(kind, for) \in CoMessages /\ Sent(kind, for).kind = kind
         /\ Sent(kind, for).for = for /\ Sent(kind, for).live /\ Sent(kind, for).answer = "none"
BY NoProofTyped DEF Sent, CoMessages

\* Nothing has been asked for or said.
LEMMA CoStarts == CoInit => CoInv
<1> SUFFICES ASSUME CoInit PROVE CoInv
  OBVIOUS
<1>1. CoTyped
  <2>1. <<>> \in Seq(CoRows)
    OBVIOUS
  <2> QED BY <2>1, NoProofTyped DEF CoInit, CoTyped, CoStates, CoGames, CoStatuses, CoSubmissions, CoServed
<1>2. CoFollows /\ CoOwn /\ CoSaid /\ CoShown
  BY DEF CoInit, CoFollows, RecorderFits, CoOwn, CoSaid, CoShown, Submittable, SafeScreens, NoInspection
<1>3. CoBegins /\ CoWhole /\ CoAwaited
  BY DEF CoInit, CoBegins, CoWhole, CoAwaited
<1> QED BY <1>1, <1>2, <1>3 DEF CoInv

\* The request p was there before, live only if it was then and is of another kind.
Came(p, kinds) ==
  /\ p.live => p \in coNet /\ p.kind \notin kinds
  /\ \E q \in coNet : /\ p.kind = q.kind /\ p.for = q.for /\ p.proof = q.proof
                      /\ p.score = q.score /\ p.answer = q.answer

\* Requests cut off or left alone have come from before.
LEMMA CutOffCame ==
  ASSUME CoTyped, NEW kinds
  PROVE  /\ CutOff(coNet, kinds) \subseteq CoMessages
         /\ \A p \in CutOff(coNet, kinds) : Came(p, kinds)
         /\ \A p \in coNet : Came(p, {})
BY CutOffFields DEF CoTyped, Came

\* What is sent stays whole, as long as nothing new is sent and the service is as it was.
LEMMA WholeKept ==
  ASSUME CoWhole, coServer' = coServer, NEW kinds,
         \A p \in coNet' : p.kind = "submit" => Came(p, kinds)
  PROVE  CoWhole'
BY DEF CoWhole, Came

\* Where neither game nor run changes, what is awaited stays so.
LEMMA AwaitedKept ==
  ASSUME CoBegins, CoAwaited, NEW kinds,
         \A p \in coNet' : p.kind \in {"begin", "submit"} => Came(p, kinds),
         coGame' = coGame, co'.attempt = co.attempt, co'.challenge = co.challenge,
         co'.invalid = co.invalid, co'.submission = co.submission, co'.score = co.score
  PROVE  CoBegins' /\ CoAwaited'
<1>1. CoBegins'
  <2> SUFFICES ASSUME NEW q \in coNet', q.kind = "begin", q.live
               PROVE  /\ q.for = co'.attempt /\ co'.challenge = 0 /\ ~co'.invalid
                      /\ \A p \in coNet' : p.kind = "begin" /\ p.live => p = q
    BY DEF CoBegins
  <2>1. q \in coNet
    BY DEF Came
  <2>2. ASSUME NEW p \in coNet', p.kind = "begin", p.live PROVE p \in coNet
    BY <2>2 DEF Came
  <2> QED BY <2>1, <2>2 DEF CoBegins
<1>2. CoAwaited'
  <2> SUFFICES ASSUME NEW q \in coNet', q.kind = "submit", q.live
               PROVE  /\ q.for = co'.attempt /\ q.proof.stages = coGame'.log /\ coGame'.over
                      /\ co'.challenge # 0 /\ co'.score # 0 /\ (co'.invalid \/ co'.submission = "submitting")
                      /\ \A p \in coNet' : p.kind = "submit" /\ p.live => p = q
    BY DEF CoAwaited
  <2>1. q \in coNet
    BY DEF Came
  <2>2. ASSUME NEW p \in coNet', p.kind = "submit", p.live PROVE p \in coNet
    BY <2>2 DEF Came
  <2> QED BY <2>1, <2>2 DEF CoAwaited
<1> QED BY <1>1, <1>2

\* What the controller holds and says, where only the panel's look changes.
LEMMA RunKept ==
  ASSUME CoFollows, CoOwn, CoSaid, coGame' = coGame, coRecorder' = coRecorder, coServer' = coServer,
         co'.screen = co.screen, co'.attempt = co.attempt, co'.challenge = co.challenge,
         co'.proof = co.proof, co'.score = co.score, co'.invalid = co.invalid,
         co'.submission = co.submission, co'.proofStatus = co.proofStatus
  PROVE  CoFollows' /\ CoOwn' /\ CoSaid'
BY DEF CoFollows, RecorderFits, CoOwn, CoSaid, Submittable

\* A tick is taken down by both.
LEMMA TickStep == CoInv /\ CoTick => CoInv'
<1> SUFFICES ASSUME CoInv, CoTick PROVE CoInv'
  OBVIOUS
<1> USE DEF CoInv
<1>1. /\ co.screen = "playing" /\ coGame.tick = 0 /\ coGame' = [coGame EXCEPT !.tick = 1]
      /\ co' = co /\ coNet' = coNet /\ coServer' = coServer
      /\ coRecorder' = IF co.invalid THEN coRecorder ELSE [coRecorder EXCEPT !.inputs = coRecorder.inputs + 1]
  BY DEF CoTick
<1>2. /\ coGame'.over = coGame.over /\ coGame'.log = coGame.log /\ coGame'.stage = coGame.stage
      /\ coGame'.tick = 1 /\ coGame' \in CoGames
  BY <1>1 DEF CoTyped, CoGames
<1>3. coRecorder' \in CoRecorders
  <2>1. [coRecorder EXCEPT !.inputs = coRecorder.inputs + 1] \in CoRecorders
    BY DEF CoTyped, CoRecorders
  <2> QED BY <1>1, <2>1 DEF CoTyped
<1>4. CoTyped'
  BY <1>1, <1>2, <1>3 DEF CoTyped
<1>5. CoFollows'
  <2>1. RecorderFits'
    <3> SUFFICES ASSUME ~co.invalid, co.attempt > 0
                 PROVE  /\ coRecorder'.done = coGame'.log
                        /\ coRecorder'.active = coGame'.stage /\ coRecorder'.inputs = coGame'.tick
      BY <1>1 DEF RecorderFits
    <3> QED BY <1>1, <1>2 DEF CoFollows, RecorderFits, CoTyped, CoRecorders
  <2> QED BY <1>1, <1>2, <2>1 DEF CoFollows
<1>6. CoOwn' /\ CoSaid' /\ CoShown' /\ CoBegins' /\ CoWhole' /\ CoAwaited'
  BY <1>1, <1>2 DEF CoOwn, CoSaid, Submittable, CoShown, CoBegins, CoWhole, CoAwaited
<1> QED BY <1>4, <1>5, <1>6

\* An attempt given up is over, and nothing of it is kept.
LEMMA AbandonStep == CoInv /\ CoAbandon => CoInv'
<1> SUFFICES ASSUME CoInv, CoAbandon PROVE CoInv'
  OBVIOUS
<1> USE DEF CoInv
<1>1. /\ ~coGame.over /\ coGame' = [coGame EXCEPT !.over = TRUE] /\ co' = [co EXCEPT !.screen = "title"]
      /\ coNet' = coNet /\ coServer' = coServer /\ coRecorder' = coRecorder
  BY DEF CoAbandon
<1>2. /\ coGame'.over /\ coGame'.log = coGame.log /\ coGame'.stage = coGame.stage
      /\ coGame'.tick = coGame.tick /\ coGame' \in CoGames
  BY <1>1 DEF CoTyped, CoGames
<1>3. /\ co' \in CoStates /\ co'.screen = "title" /\ co'.open = co.open /\ co'.attempt = co.attempt
      /\ co'.challenge = co.challenge /\ co'.proof = co.proof /\ co'.score = co.score
      /\ co'.invalid = co.invalid /\ co'.submission = co.submission /\ co'.proofStatus = co.proofStatus
      /\ co'.inspection = co.inspection
  BY <1>1 DEF CoTyped, CoStates
<1>4. CoTyped'
  BY <1>1, <1>2, <1>3 DEF CoTyped
<1>5. CoFollows'
  BY <1>1, <1>2, <1>3 DEF CoFollows, RecorderFits
<1>6. CoOwn' /\ CoSaid' /\ CoShown'
  BY <1>1, <1>2, <1>3 DEF CoOwn, CoSaid, Submittable, CoShown, SafeScreens
<1>7. CoBegins' /\ CoWhole' /\ CoAwaited'
  BY <1>1, <1>2, <1>3 DEF CoBegins, CoWhole, CoAwaited
<1> QED BY <1>4, <1>5, <1>6, <1>7

\* Nothing is heard after the end.
LEMMA DestroyStep == CoInv /\ CoDestroy => CoInv'
<1> SUFFICES ASSUME CoInv, CoDestroy PROVE CoInv'
  OBVIOUS
<1> USE DEF CoInv
<1>1. /\ co' = [co EXCEPT !.destroyed = TRUE] /\ coNet' = {}
      /\ coGame' = coGame /\ coServer' = coServer /\ coRecorder' = coRecorder
  BY DEF CoDestroy
<1>2. /\ co' \in CoStates /\ co'.screen = co.screen /\ co'.open = co.open /\ co'.attempt = co.attempt
      /\ co'.challenge = co.challenge /\ co'.proof = co.proof /\ co'.score = co.score
      /\ co'.invalid = co.invalid /\ co'.submission = co.submission /\ co'.proofStatus = co.proofStatus
      /\ co'.inspection = co.inspection
  BY <1>1 DEF CoTyped, CoStates
<1>3. CoTyped' /\ CoShown' /\ CoBegins' /\ CoWhole' /\ CoAwaited'
  BY <1>1, <1>2 DEF CoTyped, CoShown, CoBegins, CoWhole, CoAwaited
<1> QED BY <1>1, <1>2, <1>3, RunKept

\* That a window lapses is seen when the run is sent, and not before.
LEMMA LapseStep == CoInv /\ CoLapse => CoInv'
<1> SUFFICES ASSUME CoInv, CoLapse PROVE CoInv'
  OBVIOUS
<1>1. UNCHANGED <<coGame, co, coRecorder, coNet, coServer>>
  BY DEF CoLapse
<1> QED BY <1>1 DEF CoInv, CoTyped, CoFollows, RecorderFits, CoOwn, CoSaid, Submittable, CoShown,
                   CoBegins, CoWhole, CoAwaited

\* The panel is closed, or what it looked at: nobody waits for that any more.
LEMMA CloseStep == CoInv /\ (CoClose \/ CoDismiss) => CoInv'
<1> SUFFICES ASSUME CoInv, CoClose \/ CoDismiss PROVE CoInv'
  OBVIOUS
<1> USE DEF CoInv
<1>1. /\ co.open /\ coNet' = CutOff(coNet, {"inspect"})
      /\ coGame' = coGame /\ coServer' = coServer /\ coRecorder' = coRecorder
      /\ co' = Closed(co) \/ co' = [co EXCEPT !.inspection = NoInspection]
  BY DEF CoClose, CoDismiss
<1>2. /\ co' \in CoStates /\ co'.screen = co.screen /\ co'.attempt = co.attempt
      /\ co'.challenge = co.challenge /\ co'.proof = co.proof /\ co'.score = co.score
      /\ co'.invalid = co.invalid /\ co'.submission = co.submission /\ co'.proofStatus = co.proofStatus
      /\ co'.inspection = NoInspection /\ (co'.open => co.open)
  <2>1. co \in CoStates
    BY DEF CoTyped
  <2>2. CASE co' = Closed(co)
    BY <1>1, <2>1, <2>2, ClosedFields
  <2>3. CASE co' = [co EXCEPT !.inspection = NoInspection]
    BY <1>1, <2>1, <2>3, NoProofTyped DEF CoStates
  <2> QED BY <1>1, <2>2, <2>3
<1>3. coNet' \subseteq CoMessages /\ \A p \in coNet' : Came(p, {"inspect"})
  BY <1>1, CutOffCame
<1>4. CoTyped'
  BY <1>1, <1>2, <1>3 DEF CoTyped
<1>5. CoShown'
  BY <1>2, <1>3 DEF CoShown, Came, NoInspection
<1> QED BY <1>1, <1>2, <1>3, <1>4, <1>5, RunKept, WholeKept, AwaitedKept

\* Standings are asked for; a listing on its way is overtaken.
LEMMA ListStep == CoInv /\ (CoOpen \/ CoRefresh) => CoInv'
<1> SUFFICES ASSUME CoInv, CoOpen \/ CoRefresh PROVE CoInv'
  OBVIOUS
<1> USE DEF CoInv
<1>1. /\ coNet' = CutOff(coNet, {"list"}) \cup {Sent("list", 0)}
      /\ coGame' = coGame /\ coServer' = coServer /\ coRecorder' = coRecorder
      /\ \/ co' = [co EXCEPT !.open = TRUE, !.standings = "loading"] /\ co.screen \in SafeScreens
         \/ co' = [co EXCEPT !.standings = "loading"]
  BY DEF CoOpen, CoRefresh, Listing
<1>2. /\ co' \in CoStates /\ co'.screen = co.screen /\ co'.attempt = co.attempt
      /\ co'.challenge = co.challenge /\ co'.proof = co.proof /\ co'.score = co.score
      /\ co'.invalid = co.invalid /\ co'.submission = co.submission /\ co'.proofStatus = co.proofStatus
      /\ co'.inspection = co.inspection /\ (co.open => co'.open)
      /\ co'.open => co.open \/ co.screen \in SafeScreens
  <2>1. CASE co' = [co EXCEPT !.open = TRUE, !.standings = "loading"] /\ co.screen \in SafeScreens
    BY <2>1 DEF CoTyped, CoStates
  <2>2. CASE co' = [co EXCEPT !.standings = "loading"]
    BY <2>2 DEF CoTyped, CoStates
  <2> QED BY <1>1, <2>1, <2>2
<1>3. /\ coNet' \subseteq CoMessages
      /\ \A p \in coNet' : Came(p, {"list"}) \/ p.kind = "list"
  BY <1>1, CutOffCame, SentTyped
<1>4. CoTyped'
  BY <1>1, <1>2, <1>3 DEF CoTyped
<1>5. CoShown'
  BY <1>2, <1>3 DEF CoShown, Came
<1>6. \A p \in coNet' : p.kind \in {"begin", "submit"} => Came(p, {"list"})
  BY <1>3
<1> QED BY <1>1, <1>2, <1>4, <1>5, <1>6, RunKept, WholeKept, AwaitedKept

\* A proof is looked up; the look before it is cut off.
LEMMA InspectStep ==
  ASSUME CoInv, NEW a \in CoRun, CoInspect(a)
  PROVE  CoInv'
<1> USE DEF CoInv
<1> DEFINE look == [kind |-> "loading", entry |-> a, playback |-> 0]
<1>1. /\ co.open /\ co' = [co EXCEPT !.inspection = look]
      /\ coNet' = CutOff(coNet, {"inspect"}) \cup {Sent("inspect", a)}
      /\ coGame' = coGame /\ coServer' = coServer /\ coRecorder' = coRecorder
  BY DEF CoInspect
<1>2. a \in Nat /\ look \in CoLooks
  BY DEF CoRun, CoLooks
<1>3. /\ co' \in CoStates /\ co'.screen = co.screen /\ co'.attempt = co.attempt
      /\ co'.challenge = co.challenge /\ co'.proof = co.proof /\ co'.score = co.score
      /\ co'.invalid = co.invalid /\ co'.submission = co.submission /\ co'.proofStatus = co.proofStatus
      /\ co'.inspection = look /\ co'.open
  BY <1>1, <1>2 DEF CoTyped, CoStates
<1>4. /\ coNet' \subseteq CoMessages
      /\ \A p \in coNet' : Came(p, {"inspect"}) \/ (p.kind = "inspect" /\ p.for = a)
  BY <1>1, <1>2, CutOffCame, SentTyped
<1>5. CoTyped'
  BY <1>1, <1>3, <1>4 DEF CoTyped
<1>6. CoShown'
  BY <1>1, <1>3, <1>4 DEF CoShown, Came
<1>7. \A p \in coNet' : p.kind \in {"begin", "submit"} => Came(p, {"inspect"})
  BY <1>4
<1> QED BY <1>1, <1>3, <1>5, <1>6, <1>7, RunKept, WholeKept, AwaitedKept

\* A stage begins: the panel is shut, the recorder is set to the stage.
LEMMA BeginStageStep == CoInv /\ CoBeginStage => CoInv'
<1> SUFFICES ASSUME CoInv, CoBeginStage PROVE CoInv'
  OBVIOUS
<1> USE DEF CoInv
<1>1. /\ co.screen = "card" /\ ~coGame.over /\ co' = [Closed(co) EXCEPT !.screen = "playing"]
      /\ coRecorder' = IF co.invalid THEN coRecorder
                       ELSE [coRecorder EXCEPT !.active = coGame.stage, !.inputs = 0]
      /\ coNet' = IF co.open THEN CutOff(coNet, {"inspect"}) ELSE coNet
      /\ coGame' = coGame /\ coServer' = coServer
  BY DEF CoBeginStage
<1>2. /\ co' \in CoStates /\ co'.screen = "playing" /\ co'.attempt = co.attempt
      /\ co'.challenge = co.challenge /\ co'.proof = co.proof /\ co'.score = co.score
      /\ co'.invalid = co.invalid /\ co'.submission = co.submission /\ co'.proofStatus = co.proofStatus
      /\ co'.inspection = NoInspection /\ ~co'.open
  <2>1. co \in CoStates
    BY DEF CoTyped
  <2>2. /\ Closed(co).inspection = NoInspection
        /\ co' = [Closed(co) EXCEPT !.screen = "playing"]
    BY <1>1, <2>1, ClosedFields DEF CoShown
  <2> QED BY <2>1, <2>2, ClosedFields DEF CoStates
<1>3. coRecorder' \in CoRecorders
  <2>1. [coRecorder EXCEPT !.active = coGame.stage, !.inputs = 0] \in CoRecorders
    BY DEF CoTyped, CoRecorders, CoGames
  <2> QED BY <1>1, <2>1 DEF CoTyped
<1>4. /\ coNet' \subseteq CoMessages
      /\ \A p \in coNet' : Came(p, IF co.open THEN {"inspect"} ELSE {})
  BY <1>1, CutOffCame DEF CoTyped
<1>5. CoTyped'
  BY <1>1, <1>2, <1>3, <1>4 DEF CoTyped
<1>6. CoFollows'
  <2>1. coGame.tick = 0
    BY <1>1 DEF CoFollows
  <2>2. ASSUME ~co.invalid, co.attempt > 0
        PROVE  /\ coRecorder'.done = coGame.log /\ coRecorder'.active = coGame.stage
               /\ coRecorder'.inputs = 0
    BY <1>1, <2>2 DEF CoFollows, RecorderFits, CoTyped, CoRecorders
  <2> QED BY <1>1, <1>2, <2>1, <2>2 DEF CoFollows, RecorderFits
<1>7. CoOwn' /\ CoSaid'
  BY <1>1, <1>2 DEF CoOwn, CoSaid, Submittable
<1>8. CoShown'
  <2>1. ASSUME NEW p \in coNet', p.kind = "inspect", p.live PROVE FALSE
    <3>1. p \in coNet
      BY <1>4, <2>1 DEF Came
    <3>2. CASE co.open
      BY <1>4, <2>1, <3>2 DEF Came
    <3>3. CASE ~co.open
      BY <2>1, <3>1, <3>3 DEF CoShown
    <3> QED BY <3>2, <3>3
  <2> QED BY <1>2, <2>1 DEF CoShown, NoInspection
<1> QED BY <1>1, <1>2, <1>4, <1>5, <1>6, <1>7, <1>8, WholeKept, AwaitedKept

\* An attempt begins: nothing of the last one is held, and nothing asked for it is heard.
LEMMA StartStep == CoInv /\ CoStart => CoInv'
<1> SUFFICES ASSUME CoInv, CoStart PROVE CoInv'
  OBVIOUS
<1> USE DEF CoInv
<1> DEFINE a == co.attempt + 1
           cut == {"begin", "list", "submit", "inspect"}
<1>1. /\ a \in CoRun /\ coGame.over
      /\ co' = [Closed(co) EXCEPT !.attempt = a, !.screen = "card", !.challengeStatus = "preparing",
                  !.proofStatus = "recording", !.challenge = 0, !.proof = NoProof, !.score = 0,
                  !.invalid = FALSE, !.attempted = FALSE, !.submission = "none",
                  !.inspection = NoInspection]
      /\ coRecorder' = Blank
      /\ coGame' = [stage |-> 1, tick |-> 0, log |-> <<>>, over |-> FALSE]
      /\ coNet' = CutOff(coNet, cut) \cup {Sent("begin", a)}
      /\ coServer' = coServer
  BY DEF CoStart
<1>2. a \in Nat \ {0}
  BY <1>1 DEF CoRun
<1> HIDE DEF a
<1>3. /\ co' \in CoStates /\ co'.screen = "card" /\ co'.attempt = a
      /\ co'.challenge = 0 /\ co'.proof = NoProof /\ co'.score = 0
      /\ ~co'.invalid /\ co'.submission = "none" /\ co'.proofStatus = "recording"
      /\ co'.inspection = NoInspection /\ ~co'.open
  <2>1. Closed(co) \in CoStates /\ ~Closed(co).open
    BY ClosedFields DEF CoTyped
  <2> QED BY <1>1, <1>2, <2>1, NoProofTyped DEF CoStates, CoStatuses, CoSubmissions
<1>4. coGame' \in CoGames
  <2>1. <<>> \in Seq(CoRows)
    OBVIOUS
  <2> QED BY <1>1, <2>1 DEF CoGames
<1>5. /\ coNet' \subseteq CoMessages
      /\ \A p \in coNet' : Came(p, cut) \/ p = Sent("begin", a)
  BY <1>1, <1>2, CutOffCame, SentTyped
<1>6. CoTyped'
  BY <1>1, <1>3, <1>4, <1>5, NoProofTyped DEF CoTyped
<1>7. CoFollows' /\ CoOwn' /\ CoSaid'
  BY <1>1, <1>2, <1>3 DEF CoFollows, RecorderFits, Blank, CoOwn, CoSaid, Submittable
<1>8. ASSUME NEW p \in coNet', p.live PROVE p = Sent("begin", a)
  <2>1. CASE Came(p, cut)
    BY <1>5, <1>8, <2>1 DEF Came, CoMessages
  <2> QED BY <1>5, <2>1
<1>9. CoShown' /\ CoBegins' /\ CoAwaited'
  BY <1>2, <1>3, <1>8, SentTyped DEF CoShown, NoInspection, CoBegins, CoAwaited
<1>10. CoWhole'
  <2>1. \A p \in coNet' : p.kind = "submit" => Came(p, cut)
    BY <1>2, <1>5, SentTyped
  <2> QED BY <1>1, <2>1, WholeKept
<1> QED BY <1>6, <1>7, <1>9, <1>10

\* A stage is over: both took down the same, and the proof of a run is all of it.
LEMMA CompleteStep ==
  ASSUME CoInv, NEW status \in {"won", "lost"}, CoCompleteStage(status)
  PROVE  CoInv'
<1> USE DEF CoInv
<1> DEFINE terminal == status = "lost" \/ coGame.stage = CoStages
           rec == IF co.invalid THEN coRecorder ELSE Completed(status)
           c == [co EXCEPT !.screen = IF terminal THEN "over" ELSE "card"]
           made == [attempt |-> co.attempt, stages |-> rec.done]
           d == [c EXCEPT !.score = co.attempt, !.proof = IF co.invalid THEN co.proof ELSE made]
           row == [stage |-> coGame.stage, inputs |-> coGame.tick]
<1>1. /\ co.screen = "playing" /\ coGame.tick > 0 /\ coRecorder' = rec
      /\ co' = IF ~terminal THEN c ELSE TerminalSubmission(d)
      /\ coGame' = [stage |-> coGame.stage + (IF terminal THEN 0 ELSE 1), tick |-> 0,
                    over |-> terminal, log |-> Append(coGame.log, row)]
      /\ coNet' = coNet /\ coServer' = coServer
  <2>1. [c EXCEPT !.score = co.attempt,
                  !.proof = IF co.invalid THEN @ ELSE [attempt |-> co.attempt, stages |-> rec.done]] = d
    BY DEF CoTyped, CoStates
  <2> QED BY <2>1 DEF CoCompleteStage
<1>2. /\ ~coGame.over /\ co.score = 0 /\ co.proof = NoProof /\ co.attempt \in CoRun
      /\ co.attempt \in Nat \ {0} /\ co.submission = "none" /\ ~co.open
      /\ coGame \in CoGames /\ co \in CoStates /\ coRecorder \in CoRecorders
  BY <1>1 DEF CoFollows, CoOwn, CoSaid, CoShown, SafeScreens, CoTyped, CoRun
<1>3. /\ rec \in CoRecorders
      /\ ~co.invalid => rec.done = Append(coGame.log, row)
  <2>1. row \in CoRows /\ [stage |-> coRecorder.active, inputs |-> coRecorder.inputs] \in CoRows
    BY <1>2 DEF CoRows, CoGames, CoRecorders
  <2>2. CASE ~co.invalid
    <3>1. /\ coRecorder.done = coGame.log /\ coRecorder.active = coGame.stage
          /\ coRecorder.inputs = coGame.tick
      BY <1>1, <1>2, <2>2 DEF CoFollows, RecorderFits
    <3>2. Append(coRecorder.done, row) \in Seq(CoRows)
      BY <1>2, <2>1 DEF CoRecorders
    <3> DEFINE last == status = "lost" \/ Len(coRecorder.done) + 1 = CoStages
               long == Append(coRecorder.done, row)
    <3>3. rec = [coRecorder EXCEPT !.done = long, !.active = 0, !.inputs = 0, !.terminal = last]
      BY <2>2, <3>1 DEF Completed
    <3>4. last \in BOOLEAN /\ long = Append(coGame.log, row)
      BY <3>1
    <3> HIDE DEF rec, last, long
    <3> QED BY <1>2, <3>2, <3>3, <3>4 DEF CoRecorders, long
  <2> QED BY <1>2, <2>2
<1>4. /\ coGame' \in CoGames /\ coGame'.tick = 0 /\ coGame'.over = terminal
      /\ coGame'.log = Append(coGame.log, row)
  <2>1. row \in CoRows /\ coGame.log \in Seq(CoRows)
    BY <1>2 DEF CoRows, CoGames
  <2>2. Append(coGame.log, row) \in Seq(CoRows) /\ coGame.stage + (IF terminal THEN 0 ELSE 1) \in Nat
    BY <1>2, <2>1 DEF CoGames
  <2>3. terminal \in BOOLEAN
    OBVIOUS
  <2> HIDE DEF terminal, row
  <2> QED BY <1>1, <2>2, <2>3 DEF CoGames
<1>5. made \in CoProofs /\ made.attempt = co.attempt /\ made.stages = rec.done
  BY <1>2, <1>3 DEF CoProofs, CoRecorders
<1> HIDE DEF rec, row, made
<1>6. /\ c \in CoStates /\ c.screen = (IF terminal THEN "over" ELSE "card") /\ c.open = co.open
      /\ c.attempt = co.attempt /\ c.challenge = co.challenge /\ c.proof = co.proof
      /\ c.score = co.score /\ c.invalid = co.invalid /\ c.submission = co.submission
      /\ c.proofStatus = co.proofStatus /\ c.inspection = co.inspection
  BY <1>2 DEF CoStates
<1>7. /\ d \in CoStates /\ d.screen = c.screen /\ d.open = co.open
      /\ d.attempt = co.attempt /\ d.challenge = co.challenge
      /\ d.proof = (IF co.invalid THEN NoProof ELSE made)
      /\ d.score = co.attempt /\ d.invalid = co.invalid /\ d.submission = co.submission
      /\ d.proofStatus = co.proofStatus /\ d.inspection = co.inspection
  <2> HIDE DEF c
  <2> QED BY <1>2, <1>5, <1>6 DEF CoStates
<1> HIDE DEF c, d
<1>8. /\ co' \in CoStates /\ co'.screen = (IF terminal THEN "over" ELSE "card") /\ co'.open = co.open
      /\ co'.attempt = co.attempt /\ co'.challenge = co.challenge /\ co'.invalid = co.invalid
      /\ co'.inspection = co.inspection
      /\ co'.proofStatus # "none"
      /\ co'.proof = IF terminal /\ ~co.invalid THEN made ELSE NoProof
      /\ co'.score = IF terminal THEN co.attempt ELSE 0
      /\ co'.submission \in {"none", "eligible", "ineligible"}
      /\ co'.submission # "none" => terminal
      /\ co'.submission = "eligible" =>
           ~co.invalid /\ co.challenge # 0 /\ co'.proof # NoProof /\ co'.proofStatus = "eligible"
  <2>1. co.proofStatus # "none"
    BY <1>2 DEF CoOwn
  <2>2. CASE terminal
    BY <1>1, <1>2, <1>6, <1>7, <2>1, <2>2, TerminalFields
  <2>3. CASE ~terminal
    BY <1>1, <1>2, <1>6, <2>1, <2>3
  <2> QED BY <2>2, <2>3
<1>9. CoTyped'
  BY <1>1, <1>3, <1>4, <1>8 DEF CoTyped
<1> HIDE DEF terminal
<1>10. CoFollows'
  <2>1. RecorderFits'
    BY <1>1, <1>2, <1>3, <1>4, <1>8 DEF RecorderFits
  <2> QED BY <1>4, <1>8, <2>1 DEF CoFollows
<1>11. CoOwn'
  BY <1>2, <1>3, <1>4, <1>5, <1>8 DEF CoOwn
<1>12. CoSaid'
  BY <1>2, <1>8 DEF CoSaid, Submittable
<1>13. CoShown'
  BY <1>1, <1>2, <1>8 DEF CoShown
<1>14. CoBegins' /\ CoWhole' /\ CoAwaited'
  BY <1>1, <1>2, <1>8 DEF CoBegins, CoWhole, CoAwaited
<1> QED BY <1>9, <1>10, <1>11, <1>12, <1>13, <1>14

\* What the panel says of a run is said anew, if there is a run to speak of.
LEMMA RefreshedFields ==
  ASSUME NEW c \in CoStates, c.submission # "none" => c.score # 0
  PROVE  LET t == Refreshed(c) IN
         /\ t \in CoStates /\ t.submission \in {"none", "eligible", "ineligible"}
         /\ t.submission # "none" => c.score # 0
         /\ t.proofStatus \in {c.proofStatus, "eligible", "ineligible"}
         /\ t.submission = "eligible" =>
              ~c.invalid /\ c.challenge # 0 /\ c.proof # NoProof /\ t.proofStatus = "eligible"
         /\ t.screen = c.screen /\ t.open = c.open /\ t.attempt = c.attempt
         /\ t.challenge = c.challenge /\ t.proof = c.proof /\ t.score = c.score
         /\ t.invalid = c.invalid /\ t.inspection = c.inspection
<1>1. CASE c.score = 0
  BY <1>1 DEF Refreshed
<1>2. CASE c.score # 0
  BY <1>2, TerminalFields DEF Refreshed
<1> QED BY <1>1, <1>2

\* A run that is spoilt is not sent, and no challenge is awaited for it.
LEMMA InvalidateStep == CoInv /\ CoInvalidate => CoInv'
<1> SUFFICES ASSUME CoInv, CoInvalidate PROVE CoInv'
  OBVIOUS
<1> USE DEF CoInv
<1> DEFINE ready == IF co.challenge = 0 THEN "unavailable" ELSE "ready"
           c == [co EXCEPT !.invalid = TRUE, !.proofStatus = "ineligible", !.proof = NoProof,
                           !.challengeStatus = ready]
<1>1. /\ co' = Refreshed(c) /\ coRecorder' = [Blank EXCEPT !.unavailable = TRUE]
      /\ coNet' = CutOff(coNet, {"begin"}) /\ coGame' = coGame /\ coServer' = coServer
  BY DEF CoInvalidate
<1>2. ready \in {"unavailable", "ready"}
  OBVIOUS
<1> HIDE DEF ready
<1>3. /\ c \in CoStates /\ c.screen = co.screen /\ c.open = co.open /\ c.attempt = co.attempt
      /\ c.challenge = co.challenge /\ c.proof = NoProof /\ c.score = co.score /\ c.invalid
      /\ c.submission = co.submission /\ c.proofStatus = "ineligible" /\ c.inspection = co.inspection
  BY <1>2, NoProofTyped DEF CoTyped, CoStates, CoStatuses
<1> HIDE DEF c
<1>4. c.submission # "none" => c.score # 0
  BY <1>3 DEF CoSaid
<1>5. /\ co' \in CoStates /\ co'.screen = co.screen /\ co'.open = co.open /\ co'.attempt = co.attempt
      /\ co'.challenge = co.challenge /\ co'.proof = NoProof /\ co'.score = co.score /\ co'.invalid
      /\ co'.submission \in {"none", "ineligible"} /\ co'.proofStatus # "none"
      /\ co'.submission # "none" => co'.score # 0
      /\ co'.inspection = co.inspection
  BY <1>1, <1>3, <1>4, RefreshedFields
<1>6. coRecorder' \in CoRecorders
  BY <1>1, NoProofTyped DEF CoRecorders
<1>7. /\ coNet' \subseteq CoMessages /\ \A p \in coNet' : Came(p, {"begin"})
  BY <1>1, CutOffCame
<1>8. CoTyped'
  BY <1>1, <1>5, <1>6, <1>7 DEF CoTyped
<1>9. CoFollows' /\ CoOwn' /\ CoSaid'
  BY <1>1, <1>5 DEF CoFollows, RecorderFits, CoOwn, CoSaid
<1>10. CoShown'
  BY <1>5, <1>7 DEF CoShown, Came
<1>11. CoBegins' /\ CoAwaited'
  BY <1>1, <1>5, <1>7 DEF CoBegins, CoAwaited, Came
<1> QED BY <1>1, <1>7, <1>8, <1>9, <1>10, <1>11, WholeKept

\* The run is sent: whole, under its own challenge, and once at a time.
LEMMA SubmitStep == CoInv /\ CoSubmit => CoInv'
<1> SUFFICES ASSUME CoInv, CoSubmit PROVE CoInv'
  OBVIOUS
<1> USE DEF CoInv
<1>1. /\ co.open /\ co.submission \in {"eligible", "pending", "error"} /\ ~co.invalid
      /\ co.challenge # 0 /\ co.proof # NoProof /\ co.score # 0
      /\ co.proofStatus \notin {"ineligible", "submitted"}
      /\ coGame' = coGame /\ coRecorder' = coRecorder /\ coServer' = coServer
  BY DEF CoSubmit, Offered, Submittable
<1>2. /\ co.challenge = co.attempt /\ co.score = co.attempt /\ co.proof.attempt = co.attempt
      /\ co.proof.stages = coGame.log /\ coGame.over /\ co.attempt \in CoRun
      /\ co \in CoStates
  BY <1>1 DEF CoOwn, CoTyped
<1>3. \A p \in coNet : ~(p.kind = "submit" /\ p.live) /\ ~(p.kind = "begin" /\ p.live)
  BY <1>1 DEF CoAwaited, CoBegins
<1>4. CASE ~co.attempted /\ co.challenge \in coLapsed.runs
  <2> DEFINE c == [co EXCEPT !.proofStatus = "ineligible"]
  <2>1. co' = TerminalSubmission(c) /\ coNet' = coNet
    BY <1>4 DEF CoSubmit
  <2>2. /\ c \in CoStates /\ c.screen = co.screen /\ c.open = co.open /\ c.attempt = co.attempt
        /\ c.challenge = co.challenge /\ c.proof = co.proof /\ c.score = co.score
        /\ c.invalid = co.invalid /\ c.inspection = co.inspection
        /\ c.proofStatus = "ineligible"
    BY <1>2 DEF CoStates, CoStatuses
  <2> HIDE DEF c
  <2>3. /\ co' \in CoStates /\ co'.screen = co.screen /\ co'.open = co.open /\ co'.attempt = co.attempt
        /\ co'.challenge = co.challenge /\ co'.proof = co.proof /\ co'.score = co.score
        /\ co'.invalid = co.invalid /\ co'.inspection = co.inspection
        /\ co'.submission \in {"none", "ineligible"} /\ co'.proofStatus # "none"
    BY <1>4, <2>1, <2>2, TerminalFields
  <2>4. CoTyped' /\ CoFollows' /\ CoOwn' /\ CoSaid'
    BY <1>1, <2>1, <2>3 DEF CoTyped, CoFollows, RecorderFits, CoOwn, CoSaid
  <2>5. CoShown' /\ CoBegins' /\ CoWhole' /\ CoAwaited'
    BY <1>1, <1>3, <2>1, <2>3 DEF CoShown, CoBegins, CoWhole, CoAwaited
  <2> QED BY <2>4, <2>5
<1>5. CASE ~(~co.attempted /\ co.challenge \in coLapsed.runs)
  <2> DEFINE new == [Sent("submit", co.challenge) EXCEPT !.proof = co.proof, !.score = co.score]
  <2>1. /\ co' = [co EXCEPT !.attempted = TRUE, !.submission = "submitting"]
        /\ coNet' = CutOff(coNet, {"submit"}) \cup {new}
    BY <1>5 DEF CoSubmit
  <2>2. /\ co' \in CoStates /\ co'.screen = co.screen /\ co'.open = co.open /\ co'.attempt = co.attempt
        /\ co'.challenge = co.challenge /\ co'.proof = co.proof /\ co'.score = co.score
        /\ co'.invalid = co.invalid /\ co'.inspection = co.inspection
        /\ co'.submission = "submitting" /\ co'.proofStatus = co.proofStatus
    BY <1>2, <2>1 DEF CoStates, CoSubmissions
  <2>3. /\ new \in CoMessages /\ new.kind = "submit" /\ new.for = co.challenge /\ new.answer = "none"
        /\ new.proof = co.proof /\ new.score = co.score
    <3> DEFINE plain == Sent("submit", co.challenge)
    <3>1. co.challenge \in Nat /\ co.score \in Nat /\ co.proof \in CoProofs
      BY <1>2 DEF CoStates
    <3>2. /\ plain \in CoMessages /\ plain.kind = "submit" /\ plain.for = co.challenge
          /\ plain.answer = "none"
      BY <3>1, SentTyped
    <3> HIDE DEF plain
    <3>3. new = [plain EXCEPT !.proof = co.proof, !.score = co.score]
      BY DEF plain
    <3> QED BY <3>1, <3>2, <3>3 DEF CoMessages
  <2> HIDE DEF new
  <2>4. /\ coNet' \subseteq CoMessages
        /\ \A p \in coNet' : Came(p, {"submit"}) \/ p = new
    BY <2>1, <2>3, CutOffCame
  <2>5. ASSUME NEW p \in coNet', p.live, p.kind \in {"submit", "begin"} PROVE p = new
    BY <1>3, <2>4, <2>5 DEF Came
  <2>6. CoTyped' /\ CoFollows' /\ CoOwn'
    BY <1>1, <2>2, <2>4 DEF CoTyped, CoFollows, RecorderFits, CoOwn
  <2>7. CoSaid'
    BY <1>1, <2>2 DEF CoSaid, Submittable
  <2>8. CoShown'
    BY <1>1, <2>2, <2>3, <2>4 DEF CoShown, Came
  <2>9. CoBegins' /\ CoAwaited'
    BY <1>1, <1>2, <2>2, <2>3, <2>5 DEF CoBegins, CoAwaited
  <2>10. CoWhole'
    <3> SUFFICES ASSUME NEW q \in coNet', q.kind = "submit"
                 PROVE  /\ q.for \in CoRun /\ q.for = q.proof.attempt /\ q.for = q.score
                        /\ q.answer = "ready" => coServer[q.for] = "ready"
                        /\ q.answer = "pending" => coServer[q.for] # "none"
      BY <1>1 DEF CoWhole
    <3>1. CASE q = new
      BY <1>2, <2>3, <3>1
    <3>2. CASE Came(q, {"submit"})
      BY <3>2 DEF Came, CoWhole
    <3> QED BY <2>4, <3>1, <3>2
  <2> QED BY <2>6, <2>7, <2>8, <2>9, <2>10
<1> QED BY <1>4, <1>5

\* What the service makes of a request, and what it says of it.
LEMMA ServeMoves ==
  ASSUME CoInv, NEW q \in coNet, CoServe(q)
  PROVE  \E answer \in {"done", "unresolved", "gone", "ready", "pending", "callsign", "refused"} :
           /\ coNet' = (coNet \ {q}) \cup {[q EXCEPT !.answer = answer]}
           /\ coServer' \in [CoRun -> CoServed]
           /\ \A r \in CoRun : /\ coServer[r] = "ready" => coServer'[r] = "ready"
                               /\ coServer[r] # "none" => coServer'[r] # "none"
           /\ q.kind = "submit" /\ answer = "ready" => coServer'[q.for] = "ready"
           /\ q.kind = "submit" /\ answer = "pending" => coServer'[q.for] # "none"
<1> USE DEF CoInv
<1>1. q \in CoMessages /\ coServer \in [CoRun -> CoServed]
  BY DEF CoTyped
<1>2. CASE q.kind \in {"begin", "list"}
  <2>1. PICK answer \in {"done", "unresolved"} : Answered(q, answer) /\ coServer' = coServer
    BY <1>2 DEF CoServe
  <2> QED BY <1>1, <1>2, <2>1 DEF Answered
<1>3. CASE q.kind = "inspect"
  <2>1. PICK answer \in {"unresolved", "gone", "done"} : Answered(q, answer) /\ coServer' = coServer
    BY <1>3 DEF CoServe
  <2> QED BY <1>1, <1>3, <2>1 DEF Answered
<1>4. CASE q.kind = "submit"
  <2>1. PICK answer \in {"ready", "pending", "callsign", "refused", "unresolved"}, row \in RowsLeft(q.for) :
          /\ answer \in {"ready", "pending"} => row = answer
          /\ Answered(q, answer) /\ coServer' = [coServer EXCEPT ![q.for] = row]
    BY <1>4 DEF CoServe, CoScored
  <2>2. q.for \in CoRun
    BY <1>4 DEF CoWhole
  <2>3. row \in CoServed /\ (row = coServer[q.for] \/ (coServer[q.for] \in {"none", "pending"} /\ row # "none"))
    BY <1>1, <2>1, <2>2 DEF RowsLeft, CoServed
  <2>4. /\ coServer' \in [CoRun -> CoServed] /\ coServer'[q.for] = row
        /\ \A r \in CoRun : r # q.for => coServer'[r] = coServer[r]
    BY <1>1, <2>1, <2>2, <2>3
  <2>5. \A r \in CoRun : /\ coServer[r] = "ready" => coServer'[r] = "ready"
                         /\ coServer[r] # "none" => coServer'[r] # "none"
    BY <2>3, <2>4
  <2> QED BY <2>1, <2>4, <2>5 DEF Answered
<1> QED BY <1>1, <1>2, <1>3, <1>4 DEF CoMessages

\* A request is carried out and answered: what is answered of a run is so, for good.
LEMMA ServeStep ==
  ASSUME CoInv, NEW q \in coNet, CoServe(q)
  PROVE  CoInv'
<1> USE DEF CoInv
<1>1. /\ q.answer = "none" /\ coGame' = coGame /\ co' = co /\ coRecorder' = coRecorder
  BY DEF CoServe
<1>2. PICK answer \in {"done", "unresolved", "gone", "ready", "pending", "callsign", "refused"} :
           /\ coNet' = (coNet \ {q}) \cup {[q EXCEPT !.answer = answer]}
           /\ coServer' \in [CoRun -> CoServed]
           /\ \A r \in CoRun : /\ coServer[r] = "ready" => coServer'[r] = "ready"
                               /\ coServer[r] # "none" => coServer'[r] # "none"
           /\ q.kind = "submit" /\ answer = "ready" => coServer'[q.for] = "ready"
           /\ q.kind = "submit" /\ answer = "pending" => coServer'[q.for] # "none"
  BY ServeMoves
<1> DEFINE new == [q EXCEPT !.answer = answer]
<1>3. /\ new \in CoMessages /\ new.kind = q.kind /\ new.for = q.for /\ new.proof = q.proof
      /\ new.score = q.score /\ new.live = q.live /\ new.answer = answer
  BY DEF CoTyped, CoMessages
<1>4. coNet' = (coNet \ {q}) \cup {new}
  BY <1>2
<1> HIDE DEF new
<1>5. CoTyped'
  BY <1>1, <1>2, <1>3, <1>4 DEF CoTyped
<1>6. CoFollows' /\ CoOwn'
  BY <1>1 DEF CoFollows, RecorderFits, CoOwn
<1>7. CoSaid'
  <2>1. co.submission # "none" => co.attempt \in CoRun
    BY DEF CoSaid, CoOwn
  <2> QED BY <1>1, <1>2, <2>1 DEF CoSaid, Submittable
<1>8. CoShown'
  BY <1>1, <1>3, <1>4 DEF CoShown
<1>9. CoWhole'
  BY <1>2, <1>3, <1>4 DEF CoWhole
<1>10. CoBegins'
  BY <1>1, <1>3, <1>4 DEF CoBegins
<1>11. CoAwaited'
  BY <1>1, <1>3, <1>4 DEF CoAwaited
<1> QED BY <1>5, <1>6, <1>7, <1>8, <1>9, <1>10, <1>11

\* A row that is settled in between stays a row, and one that is ready stays ready.
LEMMA ReconcileStep ==
  ASSUME CoInv, NEW a \in CoRun, CoReconcile(a)
  PROVE  CoInv'
<1> USE DEF CoInv
<1>1. PICK row \in {"ready", "failed"} : coServer' = [coServer EXCEPT ![a] = row]
  BY DEF CoReconcile
<1>2. coServer[a] = "pending" /\ UNCHANGED <<coGame, co, coRecorder, coNet, coLapsed>>
  BY DEF CoReconcile
<1>3. coServer \in [CoRun -> CoServed]
  BY DEF CoTyped
<1>4. /\ coServer' \in [CoRun -> CoServed]
      /\ \A r \in CoRun : /\ coServer[r] = "ready" => coServer'[r] = "ready"
                          /\ coServer[r] # "none" => coServer'[r] # "none"
  BY <1>1, <1>2, <1>3 DEF CoServed
<1>5. CoTyped' /\ CoFollows' /\ CoOwn' /\ CoBegins' /\ CoAwaited' /\ CoShown'
  BY <1>2, <1>4 DEF CoTyped, CoFollows, RecorderFits, CoOwn, CoBegins, CoAwaited, CoShown
<1>6. CoWhole'
  BY <1>2, <1>4 DEF CoWhole
<1>7. CoSaid'
  <2>1. co.submission # "none" => co.attempt \in CoRun
    BY DEF CoSaid, CoOwn
  <2> QED BY <1>2, <1>4, <2>1 DEF CoSaid, Submittable
<1> QED BY <1>5, <1>6, <1>7

\* What is left when an answer has been taken.
LEMMA TakenCame ==
  ASSUME CoTyped, NEW q \in coNet, coNet' = coNet \ {q}
  PROVE  coNet' \subseteq CoMessages /\ \A p \in coNet' : p \in coNet /\ p # q /\ Came(p, {})
BY CutOffCame DEF CoTyped

\* An answer nobody waits for changes nothing.
LEMMA DropStep ==
  ASSUME CoInv, NEW q \in coNet, CoDrop(q)
  PROVE  CoInv'
<1> USE DEF CoInv
<1>1. /\ coNet' = coNet \ {q} /\ coGame' = coGame /\ co' = co /\ coRecorder' = coRecorder
      /\ coServer' = coServer
  BY DEF CoDrop
<1>2. coNet' \subseteq CoMessages /\ \A p \in coNet' : p \in coNet /\ Came(p, {})
  BY <1>1, TakenCame
<1>3. CoTyped' /\ CoShown'
  BY <1>1, <1>2 DEF CoTyped, CoShown
<1> QED BY <1>1, <1>2, <1>3, RunKept, WholeKept, AwaitedKept

\* The challenge has come, or will not: then the run is not a ranked one.
LEMMA BegunStep ==
  ASSUME CoInv, NEW q \in coNet, CoBegun(q)
  PROVE  CoInv'
<1> USE DEF CoInv
<1> DEFINE won == [co EXCEPT !.challenge = q.for, !.challengeStatus = "ready"]
           not == [co EXCEPT !.challengeStatus = "unavailable", !.proofStatus = "ineligible",
                             !.invalid = TRUE]
           c == IF q.answer = "done" THEN won ELSE not
<1>1. /\ q.kind = "begin" /\ q.live /\ coNet' = coNet \ {q} /\ coGame' = coGame
      /\ coServer' = coServer /\ co' = Refreshed(c)
      /\ q.answer = "done" => coRecorder' = coRecorder
      /\ q.answer # "done" => coRecorder' \in {coRecorder, [Blank EXCEPT !.unavailable = TRUE]}
  BY DEF CoBegun, Gets, Heeded
<1>2. /\ q.for = co.attempt /\ co.challenge = 0 /\ ~co.invalid /\ co \in CoStates
      /\ q.for \in Nat
  BY <1>1 DEF CoBegins, CoTyped, CoMessages
<1>3. /\ c \in CoStates /\ c.screen = co.screen /\ c.open = co.open /\ c.attempt = co.attempt
      /\ c.challenge \in {0, co.attempt} /\ c.proof = co.proof /\ c.score = co.score
      /\ q.answer = "done" => c.invalid = co.invalid
      /\ q.answer # "done" => c.invalid
      /\ c.submission = co.submission /\ c.inspection = co.inspection
      /\ co.attempt # 0 => c.proofStatus # "none"
  <2>1. co.attempt # 0 => co.proofStatus # "none"
    BY DEF CoOwn
  <2>2. CASE q.answer = "done"
    <3>1. c = won
      BY <2>2
    <3> HIDE DEF c
    <3> QED BY <1>2, <2>1, <2>2, <3>1 DEF CoStates
  <2>3. CASE q.answer # "done"
    <3>1. c = not
      BY <2>3
    <3> HIDE DEF c
    <3> QED BY <1>2, <2>1, <2>3, <3>1 DEF CoStates, CoStatuses
  <2> QED BY <2>2, <2>3
<1> HIDE DEF c
<1>4. c.submission # "none" => c.score # 0
  BY <1>3 DEF CoSaid
<1>5. /\ co' \in CoStates /\ co'.screen = co.screen /\ co'.open = co.open /\ co'.attempt = co.attempt
      /\ co'.challenge \in {0, co.attempt} /\ co'.proof = co.proof /\ co'.score = co.score
      /\ co'.invalid = c.invalid /\ co'.inspection = co.inspection
      /\ co'.submission \in {"none", "eligible", "ineligible"}
      /\ co'.submission # "none" => co'.score # 0
      /\ co'.submission = "eligible" => ~co'.invalid /\ co'.challenge # 0 /\ co'.proof # NoProof
                                          /\ co'.proofStatus = "eligible"
      /\ co.attempt # 0 => co'.proofStatus # "none"
  BY <1>1, <1>3, <1>4, RefreshedFields
<1>6. coRecorder' \in CoRecorders
  BY <1>1, NoProofTyped DEF CoTyped, CoRecorders
<1>7. coNet' \subseteq CoMessages /\ \A p \in coNet' : p \in coNet /\ p # q /\ Came(p, {})
  BY <1>1, TakenCame
<1>8. CoTyped'
  BY <1>1, <1>5, <1>6, <1>7 DEF CoTyped
<1>9. CoFollows'
  <2>1. CASE q.answer = "done"
    BY <1>1, <1>3, <1>5, <2>1 DEF CoFollows, RecorderFits
  <2>2. CASE q.answer # "done"
    BY <1>1, <1>3, <1>5, <2>2 DEF CoFollows, RecorderFits
  <2> QED BY <2>1, <2>2
<1>10. CoOwn' /\ CoSaid'
  BY <1>1, <1>5 DEF CoOwn, CoSaid, Submittable
<1>11. CoShown'
  BY <1>5, <1>7 DEF CoShown
<1>12. CoBegins' /\ CoAwaited'
  <2>1. ASSUME NEW p \in coNet', p.live PROVE p.kind # "begin" /\ p.kind # "submit"
    BY <1>1, <1>2, <1>7, <2>1 DEF CoBegins, CoAwaited
  <2> QED BY <2>1 DEF CoBegins, CoAwaited
<1> QED BY <1>1, <1>7, <1>8, <1>9, <1>10, <1>11, <1>12, WholeKept

\* A listing or a look has come: it says nothing of the run on the panel.
LEMMA LookedStep ==
  ASSUME CoInv, NEW q \in coNet, CoListed(q) \/ CoInspected(q)
  PROVE  CoInv'
<1> USE DEF CoInv
<1>1. /\ coNet' = coNet \ {q} /\ coGame' = coGame /\ coServer' = coServer /\ coRecorder' = coRecorder
  BY DEF CoListed, CoInspected
<1>2. co \in CoStates /\ q \in CoMessages
  BY DEF CoTyped
<1>3. /\ co' \in CoStates /\ co'.screen = co.screen /\ co'.attempt = co.attempt
      /\ co'.challenge = co.challenge /\ co'.proof = co.proof /\ co'.score = co.score
      /\ co'.invalid = co.invalid /\ co'.submission = co.submission /\ co'.proofStatus = co.proofStatus
      /\ co'.open = co.open
      /\ co'.inspection.entry = co.inspection.entry
      /\ co'.inspection.kind = "verified" => co'.inspection.playback = co'.inspection.entry
      /\ co'.inspection = co.inspection \/ co.open
  <2>1. CASE CoListed(q)
    <3> DEFINE rows == {a \in CoRun : coServer[a] = "ready" /\ a \notin coLapsed.proofs}
    <3>1. rows \in SUBSET CoRun
      OBVIOUS
    <3>2. co' \in {[co EXCEPT !.standings = "ranked", !.rows = rows], [co EXCEPT !.standings = "error"]}
      BY <2>1 DEF CoListed
    <3> HIDE DEF rows
    <3> QED BY <1>2, <3>1, <3>2 DEF CoStates, CoShown
  <2>2. CASE CoInspected(q)
    <3>1. q.kind = "inspect" /\ q.live
      BY <2>2 DEF CoInspected, Gets, Heeded
    <3>2. co.open /\ co.inspection.entry = q.for /\ q.for \in Nat /\ co.inspection \in CoLooks
      BY <1>2, <3>1 DEF CoShown, CoMessages, CoStates
    <3>3. PICK look \in CoLooks, rows \in SUBSET CoRun :
            /\ look.entry = co.inspection.entry
            /\ look.kind = "verified" => look.playback = look.entry
            /\ co' = [co EXCEPT !.inspection = look, !.rows = rows]
      <4>1. CASE q.answer = "done"
        <5> DEFINE look == [kind |-> "verified", entry |-> co.inspection.entry, playback |-> q.for]
        <5>1. co' = [co EXCEPT !.inspection = look]
          BY <2>2, <4>1 DEF CoInspected
        <5>2. co' = [co EXCEPT !.inspection = look, !.rows = co.rows]
          BY <1>2, <5>1 DEF CoStates
        <5> QED BY <1>2, <3>2, <5>2 DEF CoLooks, CoStates
      <4>2. CASE q.answer = "gone"
        <5> DEFINE look == [co.inspection EXCEPT !.kind = "unavailable"]
        <5>1. co' = [co EXCEPT !.inspection = look, !.rows = co.rows \ {q.for}]
          BY <1>2, <2>2, <4>2 DEF CoInspected, CoStates
        <5> QED BY <1>2, <3>2, <5>1 DEF CoLooks, CoStates
      <4>3. CASE q.answer \notin {"done", "gone"}
        <5> DEFINE look == [co.inspection EXCEPT !.kind = "error"]
        <5>1. co' = [co EXCEPT !.inspection = look, !.rows = co.rows]
          BY <1>2, <2>2, <4>3 DEF CoInspected, CoStates
        <5> QED BY <1>2, <3>2, <5>1 DEF CoLooks, CoStates
      <4> QED BY <4>1, <4>2, <4>3
    <3> QED BY <1>2, <3>2, <3>3 DEF CoStates
  <2> QED BY <2>1, <2>2
<1>4. coNet' \subseteq CoMessages /\ \A p \in coNet' : p \in coNet /\ Came(p, {})
  BY <1>1, TakenCame
<1>5. CoTyped'
  BY <1>1, <1>3, <1>4 DEF CoTyped
<1>6. CoShown'
  BY <1>3, <1>4 DEF CoShown
<1> QED BY <1>1, <1>3, <1>4, <1>5, <1>6, RunKept, WholeKept, AwaitedKept

\* A submission is answered: what the panel then says is what the service holds.
LEMMA SubmittedStep ==
  ASSUME CoInv, NEW q \in coNet, CoSubmitted(q)
  PROVE  CoInv'
<1> USE DEF CoInv
<1>1. /\ q.kind = "submit" /\ q.live /\ coGame' = coGame /\ coServer' = coServer
      /\ coRecorder' = coRecorder
  BY DEF CoSubmitted, Gets, Heeded
<1>2. /\ q.for = co.attempt /\ co.challenge # 0 /\ co.score # 0 /\ (co.invalid \/ co.submission = "submitting")
      /\ coGame.over /\ co.attempt \in CoRun /\ co \in CoStates /\ q \in CoMessages
      /\ co.attempt # 0 /\ co.proofStatus # "none"
      /\ q.answer = "ready" => coServer[co.attempt] = "ready"
      /\ q.answer = "pending" => coServer[co.attempt] # "none"
  BY <1>1 DEF CoAwaited, CoWhole, CoOwn, CoTyped
<1>3. \A p \in coNet : p.live /\ p.kind \in {"begin", "submit"} => p = q
  BY <1>1, <1>2 DEF CoAwaited, CoBegins
<1>4. /\ co' \in CoStates /\ co'.screen = co.screen /\ co'.open = co.open /\ co'.attempt = co.attempt
      /\ co'.challenge = co.challenge /\ co'.proof = co.proof /\ co'.score = co.score
      /\ co'.invalid = co.invalid /\ co'.inspection = co.inspection /\ co'.proofStatus # "none"
      /\ \/ co'.submission \in {"pending", "eligible", "error"} /\ co'.proofStatus = co.proofStatus
         \/ co'.submission \in {"accepted", "ineligible"}
      /\ co'.submission = "pending" => q.answer = "pending"
      /\ co'.submission = "accepted" => q.answer = "ready"
  <2>1. CASE q.answer = "pending"
    <3>1. co' = [co EXCEPT !.submission = "pending"]
      BY <2>1 DEF CoSubmitted
    <3> QED BY <1>2, <2>1, <3>1 DEF CoStates, CoSubmissions
  <2>2. CASE q.answer = "ready"
    <3>1. co' = [co EXCEPT !.proofStatus = "submitted", !.submission = "accepted", !.standings = "loading"]
      BY <2>2 DEF CoSubmitted
    <3> QED BY <1>2, <2>2, <3>1 DEF CoStates, CoSubmissions, CoStatuses
  <2>3. CASE q.answer \notin {"pending", "ready"}
    <3>1. co' = Failure(co, q.answer)
      BY <2>3 DEF CoSubmitted
    <3>2. \/ co' = [co EXCEPT !.submission = "eligible"]
          \/ co' = [co EXCEPT !.proofStatus = "ineligible", !.submission = "ineligible"]
          \/ co' = [co EXCEPT !.submission = "error"]
      BY <3>1 DEF Failure
    <3>3. CASE co' = [co EXCEPT !.submission = "eligible"]
      BY <1>2, <3>3 DEF CoStates, CoSubmissions
    <3>4. CASE co' = [co EXCEPT !.proofStatus = "ineligible", !.submission = "ineligible"]
      BY <1>2, <3>4 DEF CoStates, CoSubmissions, CoStatuses
    <3>5. CASE co' = [co EXCEPT !.submission = "error"]
      BY <1>2, <3>5 DEF CoStates, CoSubmissions
    <3> QED BY <3>2, <3>3, <3>4, <3>5
  <2> QED BY <2>1, <2>2, <2>3
<1>5. /\ coNet' \subseteq CoMessages
      /\ \A p \in coNet' : p.kind = "list" \/ ((Came(p, {"list"}) \/ Came(p, {})) /\ (p.live => p # q))
  <2>1. coNet \ {q} \in SUBSET CoMessages
    BY DEF CoTyped
  <2>2. CASE q.answer = "ready"
    <3>1. coNet' = CutOff(coNet \ {q}, {"list"}) \cup {Sent("list", 0)}
      BY <2>2 DEF CoSubmitted, Listing
    <3>2. ASSUME NEW p \in CutOff(coNet \ {q}, {"list"})
          PROVE  p \in CoMessages /\ Came(p, {"list"}) /\ (p.live => p # q)
      BY <2>1, <3>2, CutOffFields DEF Came
    <3>3. Sent("list", 0) \in CoMessages /\ Sent("list", 0).kind = "list"
      BY SentTyped
    <3>4. ASSUME NEW p \in coNet'
          PROVE  p \in CutOff(coNet \ {q}, {"list"}) \/ p = Sent("list", 0)
      BY <3>1
    <3> QED BY <3>2, <3>3, <3>4
  <2>3. CASE q.answer # "ready"
    <3>1. coNet' = coNet \ {q}
      BY <2>3 DEF CoSubmitted
    <3> QED BY <3>1, TakenCame
  <2> QED BY <2>2, <2>3
<1>6. CoTyped'
  BY <1>1, <1>4, <1>5 DEF CoTyped
<1>7. CoFollows' /\ CoOwn'
  BY <1>1, <1>4 DEF CoFollows, RecorderFits, CoOwn
<1>8. CoSaid'
  <2>1. ~co.invalid => Submittable
    BY <1>2 DEF CoSaid
  <2> QED BY <1>1, <1>2, <1>4, <2>1 DEF CoSaid, Submittable
<1>9. CoShown'
  BY <1>4, <1>5 DEF CoShown, Came
<1>10. CoBegins' /\ CoAwaited'
  <2>1. ASSUME NEW p \in coNet', p.live PROVE p.kind # "begin" /\ p.kind # "submit"
    <3>1. CASE p.kind = "list"
      BY <3>1
    <3>2. CASE p.kind # "list"
      BY <1>3, <1>5, <2>1, <3>2 DEF Came
    <3> QED BY <3>1, <3>2
  <2> QED BY <2>1 DEF CoBegins, CoAwaited
<1>11. CoWhole'
  <2>1. \A p \in coNet' : p.kind = "submit" => Came(p, {})
    BY <1>5 DEF Came
  <2> QED BY <1>1, <2>1, WholeKept
<1> QED BY <1>6, <1>7, <1>8, <1>9, <1>10, <1>11

\* Every step of player, host, clock and network keeps what the panel relies on.
LEMMA CoKeeps == CoInv /\ [CoNext]_coVars => CoInv'
<1> SUFFICES ASSUME CoInv, [CoNext]_coVars PROVE CoInv'
  OBVIOUS
<1>1. CASE UNCHANGED coVars
  BY <1>1 DEF coVars, CoInv, CoTyped, CoFollows, RecorderFits, CoOwn, CoSaid, Submittable, CoShown,
              CoBegins, CoWhole, CoAwaited
<1>2. CASE CoStep
  <2>1. CASE \E status \in {"won", "lost"} : CoCompleteStage(status)
    BY <2>1, CompleteStep
  <2>2. CASE \E a \in CoRun : CoInspect(a) \/ CoReconcile(a)
    BY <2>2, InspectStep, ReconcileStep
  <2>3. CASE \E q \in coNet : CoServe(q) \/ CoDrop(q) \/ CoBegun(q) \/ CoListed(q)
                                \/ CoInspected(q) \/ CoSubmitted(q)
    BY <2>3, ServeStep, DropStep, BegunStep, LookedStep, SubmittedStep
  <2>4. CASE \/ CoStart \/ CoBeginStage \/ CoTick \/ CoInvalidate \/ CoAbandon \/ CoDestroy \/ CoLapse
             \/ CoOpen \/ CoClose \/ CoRefresh \/ CoDismiss \/ CoSubmit
    BY <2>4, StartStep, BeginStageStep, TickStep, InvalidateStep, AbandonStep, DestroyStep,
       LapseStep, ListStep, CloseStep, SubmitStep
  <2> QED BY <1>2, <2>1, <2>2, <2>3, <2>4 DEF CoStep
<1> QED BY <1>1, <1>2 DEF CoNext

\* A run is sent with the challenge, the proof and the score of one attempt, whole,
\* however late the answers of others come, and what the panel says of it is so.
THEOREM AttemptsStayApart == CoSpec => []CoAttemptsStayApart
<1>1. ASSUME CoInv PROVE CoAttemptsStayApart
  <2>1. co.proof.attempt \in {0, co.attempt}
    BY <1>1 DEF CoInv, CoOwn, NoProof
  <2> QED BY <1>1, <2>1 DEF CoInv, CoOwn, CoFollows, CoWhole, CoAwaited, CoSaid, CoAttemptsStayApart
<1> QED BY <1>1, CoStarts, CoKeeps, PTL DEF CoSpec

\* What the panel offers can be done, and what it shows is what was asked for.
THEOREM PanelKeepsFaith == CoSpec => []CoPanelKeepsFaith
<1>1. ASSUME CoInv PROVE CoPanelKeepsFaith
  <2>1. Offered /\ ~co.invalid => Submittable
    BY <1>1 DEF CoInv, CoSaid, Offered
  <2> QED BY <1>1, <2>1 DEF CoInv, CoShown, CoPanelKeepsFaith
<1> QED BY <1>1, CoStarts, CoKeeps, PTL DEF CoSpec

-----------------------------------------------------------------------------
(* Smilefall: what the score entry relies on.                              *)

SfBoards  == {"arcade", "level"}
SfAsked   == [board : SfBoards, mood : SfMoods, level : SfLevels \cup {SfNone}]
SfChallenges == [run : 1 .. SfMaxRuns, board : SfBoards, mood : SfMoods, asked : SfAsked]
SfPendings == [board : SfBoards, level : SfLevels, launch : {"home", "catalog", "play"},
               mood : SfMoods, current : BOOLEAN]

SfTyped ==
  /\ SfTypeOK
  /\ sfChallenge \in SfChallenges \cup {SfNone} /\ sfPending \in SfPendings \cup {SfNone}
  /\ sfRuns \in 0 .. SfMaxRuns
  /\ sfMode = "play" /\ sfPhase # "result" => ~sfRecorded

\* An attempt that awaits its challenge has none, and its run has not begun
\* unless the stage before it went on to its end.
SfAwaiting ==
  sfPending # SfNone =>
    /\ sfChallenge = SfNone /\ (sfPending.board = "arcade" <=> sfContext = "arcade")
    /\ sfPending.current =>
         /\ sfPending.launch = sfMode /\ sfPending.mood = sfMood
         /\ ~sfStraggled =>
              /\ sfCompleted = <<>>
              /\ sfContext = "arcade" => sfIndex = 0 /\ sfSelected = 1
              /\ sfMode = "play" /\ sfPhase = "result" => sfShown.terminal

\* The challenge held in play was asked for with what is played.
SfAskedFor ==
  sfMode = "play" /\ sfChallenge # SfNone =>
    /\ sfChallenge.board = sfChallenge.asked.board
    /\ sfChallenge.board = "arcade" <=> sfContext = "arcade"
    /\ sfChallenge.mood = sfMood /\ sfChallenge.asked.mood = sfMood
    /\ sfContext = "arcade" => sfChallenge.asked.level = SfNone

\* The stages recorded under it are those of its run, in their order, and all
\* but the one that ended last were won.
SfUnder(session) == session.mood = sfMood /\ session.nonce = sfChallenge.run
SfOfTheRun ==
  sfMode = "play" /\ sfChallenge # SfNone /\ ~sfStraggled =>
    /\ SfUnder(sfSession) /\ sfSession.level = sfSelected
    /\ sfContext = "arcade" => sfSelected = sfIndex + 1
    /\ sfContext = "catalog" => sfChallenge.asked.level = sfSelected
    /\ Len(sfCompleted) = (IF sfContext = "arcade" THEN sfIndex ELSE 0)
                          + (IF sfPhase = "result" THEN 1 ELSE 0)
    /\ \A k \in 1 .. Len(sfCompleted) :
         /\ SfUnder(sfCompleted[k].session) /\ sfCompleted[k].session.level = sfCompleted[k].level
         /\ sfContext = "arcade" => sfCompleted[k].level = k
         /\ sfContext = "arcade" /\ k <= sfIndex => SfWon(sfCompleted[k])
    /\ sfPhase = "result" =>
         /\ sfCompleted[Len(sfCompleted)] = [level |-> sfSelected, session |-> sfSession]
         /\ sfShown.terminal <=> SfTerminal(sfSession.status)

\* The flag of a saved score and the form are of the run they are seen with.
SfFlagged ==
  /\ sfSaved => sfMode # "play" /\ (sfPending # SfNone => ~sfPending.current)
  /\ sfPhase = "result" /\ sfShown.off => sfChallenge = SfNone
  /\ sfShown.form => sfShown.terminal

SfSent == sfSubmission # SfNone /\ ~sfSubmission.straggled => sfSubmission.good

SfInv == SfTyped /\ SfAwaiting /\ SfAskedFor /\ SfOfTheRun /\ SfFlagged /\ SfSent

LEMMA SfBegins == SfInit => SfInv
<1> SUFFICES ASSUME SfInit PROVE SfInv
  OBVIOUS
<1>1. 1 \in SfLevels /\ 0 \in 0 .. SfStages - 1 /\ 0 \in 0 .. SfMaxRuns
  BY SfPlayAssumption DEF SfLevels
<1>2. sfMood \in SfMoods
  BY SfPlayAssumption DEF SfInit
<1>3. sfSession \in SfSessions
  BY <1>1, <1>2 DEF SfInit, SfSessions
<1>4. SfTypeOK
  <2>1. sfCompleted \in Seq([level : SfLevels, session : SfSessions])
    BY DEF SfInit
  <2>2. sfShown \in [terminal : BOOLEAN, off : BOOLEAN, form : BOOLEAN]
    BY DEF SfInit, SfNoResult
  <2> QED BY <1>1, <1>2, <1>3, <2>1, <2>2 DEF SfInit, SfTypeOK
<1>5. SfTyped
  BY <1>1, <1>4 DEF SfInit, SfTyped
<1> QED BY <1>5 DEF SfInit, SfNoResult, SfInv, SfAwaiting, SfAskedFor, SfOfTheRun, SfFlagged, SfSent

-----------------------------------------------------------------------------
(* Every variable keeps its type.                                          *)

\* What opening a stage makes is a session.
LEMMA SfOpenTyped ==
  ASSUME SfTyped, NEW chosen \in SfLevels, NEW challenge \in SfChallenges \cup {SfNone}, SfOpen(chosen, challenge)
  PROVE  sfSession' \in SfSessions /\ sfSelected' \in SfLevels /\ sfMode' = "play" /\ sfPhase' = "ready"
         /\ sfRecorded' = FALSE /\ sfShown' = SfNoResult
<1> DEFINE nonce == IF challenge # SfNone /\ challenge.mood = sfMood THEN challenge.run ELSE SfNone
<1>1. nonce \in 1 .. SfMaxRuns \cup {SfNone}
  BY DEF SfChallenges
<1>2. sfSession' = [level |-> chosen, mood |-> sfMood, status |-> "running", nonce |-> nonce]
  BY DEF SfOpen
<1> HIDE DEF nonce
<1>3. sfSession' \in SfSessions
  BY <1>1, <1>2 DEF SfSessions, SfTyped, SfTypeOK
<1> QED BY <1>3 DEF SfOpen

\* What is left alone by most actions.
LEMMA SfStaysTyped ==
  ASSUME SfTyped, UNCHANGED <<sfContext, sfIndex, sfMood, sfSelected, sfSaved, sfSession, sfCompleted, sfRecorded>>,
         sfMode' \in {"home", "catalog", "leaderboard", "play"}, sfPhase' \in {"ready", "running", "paused", "result"},
         sfShown' \in [terminal : BOOLEAN, off : BOOLEAN, form : BOOLEAN], sfStraggled' \in BOOLEAN,
         sfPhase' = "result" => sfRecorded, sfMode' = "play" /\ sfPhase' # "result" => ~sfRecorded,
         sfChallenge' \in SfChallenges \cup {SfNone}, sfPending' \in SfPendings \cup {SfNone}, sfRuns' \in 0 .. SfMaxRuns
  PROVE  SfTyped'
BY DEF SfTyped, SfTypeOK

LEMMA SfStartTyped ==
  ASSUME SfTyped, NEW scope \in SfBoards, NEW chosen \in SfLevels, SfStart(scope, chosen),
         sfMode \in {"home", "catalog", "play"}
  PROVE  SfTyped'
<1>1. sfPending' \in SfPendings
  BY DEF SfStart, SfPendings, SfTyped, SfTypeOK
<1>2. sfIndex' \in 0 .. SfStages - 1
  BY SfPlayAssumption DEF SfStart, SfTyped, SfTypeOK
<1>3. sfCompleted' \in Seq([level : SfLevels, session : SfSessions])
  BY DEF SfStart
<1>4. sfContext' \in {"arcade", "catalog"} /\ sfSaved' \in BOOLEAN /\ sfStraggled' \in BOOLEAN
      /\ sfSelected' \in SfLevels /\ sfChallenge' = SfNone
  BY DEF SfStart
<1>5. UNCHANGED <<sfMode, sfPhase, sfMood, sfSession, sfRecorded, sfShown, sfRuns>>
  BY DEF SfStart, sfField, sfPlatform
<1> QED BY <1>1, <1>2, <1>3, <1>4, <1>5 DEF SfTyped, SfTypeOK

\* The steps that call an attempt off.
LEMMA SfCalledOff ==
  ASSUME SfTyped, NEW next, SfSetMode(next)
  PROVE  /\ sfMode' = next /\ sfChallenge' \in SfChallenges \cup {SfNone}
         /\ sfPending' \in SfPendings \cup {SfNone}
<1>1. CASE sfPending # SfNone /\ next # sfMode
  <2>1. sfPending \in SfPendings
    BY <1>1 DEF SfTyped
  <2>2. [sfPending EXCEPT !.current = FALSE] \in SfPendings
    BY <2>1 DEF SfPendings
  <2> QED BY <1>1, <2>2 DEF SfSetMode
<1>2. CASE ~(sfPending # SfNone /\ next # sfMode)
  BY <1>2 DEF SfSetMode, SfTyped
<1> QED BY <1>1, <1>2

\* How the answer to a challenge changes the page.
LEMMA SfProceedTyped ==
  ASSUME SfTyped, sfPending # SfNone, NEW challenge \in SfChallenges \cup {SfNone}, SfProceed(challenge),
         sfRuns' \in 0 .. SfMaxRuns
  PROVE  SfTyped'
<1>1. sfPending \in SfPendings
  BY DEF SfTyped
<1>2. sfChallenge' \in SfChallenges \cup {SfNone} /\ sfPending' = SfNone
      /\ UNCHANGED <<sfContext, sfIndex, sfMood, sfSaved, sfCompleted, sfStraggled>>
  BY DEF SfProceed
<1>3. CASE sfMode = sfPending.launch
  <2> DEFINE chosen == IF sfPending.board = "arcade" THEN sfSelected ELSE sfPending.level
  <2>1. chosen \in SfLevels
    BY <1>1 DEF SfPendings, SfTyped, SfTypeOK
  <2>2. SfOpen(chosen, challenge)
    BY <1>3 DEF SfProceed
  <2> HIDE DEF chosen
  <2>3. sfSession' \in SfSessions /\ sfSelected' \in SfLevels /\ sfMode' = "play" /\ sfPhase' = "ready"
        /\ sfRecorded' = FALSE /\ sfShown' = SfNoResult
    BY <2>1, <2>2, SfOpenTyped
  <2>4. sfShown' \in [terminal : BOOLEAN, off : BOOLEAN, form : BOOLEAN]
    BY <2>3 DEF SfNoResult
  <2> QED BY <1>2, <2>3, <2>4 DEF SfTyped, SfTypeOK
<1>4. CASE sfMode # sfPending.launch
  <2>1. UNCHANGED <<sfSelected, sfSession, sfRecorded, sfMode, sfPhase, sfShown>>
    BY <1>4 DEF SfProceed, sfField
  <2> QED BY <1>2, <2>1 DEF SfTyped, SfTypeOK
<1> QED BY <1>3, <1>4

\* The challenge that arrives is one.
LEMMA SfArrives ==
  ASSUME SfTyped, SfChallengeArrives
  PROVE  \E challenge \in SfChallenges :
           /\ SfProceed(challenge) /\ challenge.board = sfPending.board
           /\ challenge.mood = sfMood /\ challenge.run = sfRuns'
           /\ challenge.asked = [board |-> sfPending.board, mood |-> sfPending.mood,
                 level |-> IF sfPending.board = "level" THEN sfPending.level ELSE SfNone]
<1> DEFINE chosen == IF sfPending.board = "level" THEN sfPending.level ELSE SfNone
           asked == [board |-> sfPending.board, mood |-> sfPending.mood, level |-> chosen]
           challenge == [run |-> sfRuns', board |-> sfPending.board, mood |-> sfMood, asked |-> asked]
<1>1. sfPending \in SfPendings /\ sfRuns' \in 1 .. SfMaxRuns
  BY SfPlayAssumption DEF SfChallengeArrives, SfTyped
<1>2. chosen \in SfLevels \cup {SfNone}
  BY <1>1 DEF SfPendings
<1> HIDE DEF chosen
<1>3. asked \in SfAsked
  BY <1>1, <1>2 DEF SfPendings, SfAsked
<1>4. sfMood \in SfMoods
  BY DEF SfTyped, SfTypeOK
<1>5. SfProceed(challenge)
  BY DEF SfChallengeArrives, chosen
<1> HIDE DEF asked
<1>6. challenge \in SfChallenges
  BY <1>1, <1>3, <1>4 DEF SfPendings, SfChallenges
<1>7. challenge.board = sfPending.board /\ challenge.mood = sfMood /\ challenge.run = sfRuns' /\ challenge.asked = asked
  OBVIOUS
<1> HIDE DEF challenge
<1> QED BY <1>5, <1>6, <1>7 DEF asked, chosen

LEMMA SfTypedStep == SfInv /\ [SfNext]_sfPlayVars => SfTyped'
<1> SUFFICES ASSUME SfInv, [SfNext]_sfPlayVars PROVE SfTyped'
  OBVIOUS
<1> SfTyped
  BY DEF SfInv
<1> USE DEF sfField, sfPage, sfPlatform
<1>1. CASE SfNavigate
  <2>1. PICK next \in {"home", "catalog", "leaderboard"} : SfSetMode(next)
    BY <1>1 DEF SfNavigate
  <2>2. sfMode' = next /\ sfChallenge' \in SfChallenges \cup {SfNone} /\ sfPending' \in SfPendings \cup {SfNone}
    BY <2>1, SfCalledOff
  <2> QED BY <1>1, <2>1, <2>2, SfStaysTyped DEF SfNavigate, SfTyped, SfTypeOK
<1>2. CASE SfChooseMood
  BY <1>2 DEF SfChooseMood, SfTyped, SfTypeOK
<1>3. CASE SfHome
  <2>1. sfPending' \in SfPendings \cup {SfNone}
    <3>1. CASE sfPending = SfNone
      BY <1>3, <3>1 DEF SfHome
    <3>2. CASE sfPending # SfNone
      <4>1. sfPending \in SfPendings
        BY <3>2 DEF SfTyped
      <4>2. [sfPending EXCEPT !.current = FALSE] \in SfPendings
        BY <4>1 DEF SfPendings
      <4> QED BY <1>3, <3>2, <4>2 DEF SfHome
    <3> QED BY <3>1, <3>2
  <2>2. sfCompleted' \in Seq([level : SfLevels, session : SfSessions])
    BY <1>3 DEF SfHome
  <2>3. sfShown' \in [terminal : BOOLEAN, off : BOOLEAN, form : BOOLEAN] /\ sfStraggled' \in BOOLEAN
        /\ sfMode' \in {"home", "catalog"} /\ sfPhase' = "ready" /\ sfChallenge' = SfNone
    BY <1>3 DEF SfHome, SfNoResult
  <2>4. UNCHANGED <<sfContext, sfIndex, sfMood, sfSelected, sfSaved, sfSession, sfRecorded, sfRuns>>
    BY <1>3 DEF SfHome
  <2> QED BY <2>1, <2>2, <2>3, <2>4 DEF SfTyped, SfTypeOK
<1>4. CASE SfStartArcade
  <2>1. 1 \in SfLevels
    BY SfPlayAssumption DEF SfLevels
  <2> QED BY <1>4, <2>1, SfStartTyped DEF SfStartArcade, SfBoards
<1>5. CASE SfStartCatalog
  BY <1>5, SfStartTyped DEF SfStartCatalog, SfBoards
<1>6. CASE SfRestart
  <2>1. 1 \in SfLevels /\ sfSelected \in SfLevels
    BY SfPlayAssumption DEF SfLevels, SfTyped, SfTypeOK
  <2> QED BY <1>6, <2>1, SfStartTyped DEF SfRestart, SfBoards
<1>7. CASE SfChallengeArrives
  <2>1. PICK challenge \in SfChallenges : SfProceed(challenge)
    BY <1>7, SfArrives
  <2>2. sfRuns' \in 0 .. SfMaxRuns /\ sfPending # SfNone
    BY <1>7, SfPlayAssumption DEF SfChallengeArrives, SfTyped
  <2> QED BY <2>1, <2>2, SfProceedTyped
<1>8. CASE SfChallengeFails
  <2>1. sfRuns' \in 0 .. SfMaxRuns /\ sfPending # SfNone /\ SfProceed(SfNone)
    BY <1>8 DEF SfChallengeFails, SfTyped
  <2> QED BY <2>1, SfProceedTyped
<1>9. CASE SfChallengeIsStale
  BY <1>9, SfStaysTyped DEF SfChallengeIsStale, SfTyped, SfTypeOK
<1>10. CASE SfBegin
  BY <1>10, SfStaysTyped DEF SfBegin, SfSetPhase, SfTyped, SfTypeOK
<1>11. CASE SfPause
  BY <1>11, SfStaysTyped DEF SfPause, SfSetPhase, SfTyped, SfTypeOK
<1>12. CASE SfFinish
  <2>1. PICK status \in {"won", "lost"} :
          /\ sfSession' = [sfSession EXCEPT !.status = status]
          /\ sfCompleted' = IF sfRecorded THEN sfCompleted
                            ELSE Append(sfCompleted, [level |-> sfSelected, session |-> sfSession'])
          /\ sfShown' = [terminal |-> SfTerminal(status), off |-> sfChallenge = SfNone, form |-> FALSE]
    BY <1>12 DEF SfFinish
  <2>2. sfSession' \in SfSessions
    BY <2>1 DEF SfTyped, SfTypeOK, SfSessions
  <2>3. [level |-> sfSelected, session |-> sfSession'] \in [level : SfLevels, session : SfSessions]
    BY <2>2 DEF SfTyped, SfTypeOK
  <2>4. sfCompleted' \in Seq([level : SfLevels, session : SfSessions])
    <3> DEFINE Records == [level : SfLevels, session : SfSessions]
               entry == [level |-> sfSelected, session |-> sfSession']
    <3>1. sfCompleted \in Seq(Records) /\ entry \in Records
      BY <2>3 DEF SfTyped, SfTypeOK
    <3>2. sfCompleted' = IF sfRecorded THEN sfCompleted ELSE Append(sfCompleted, entry)
      BY <2>1
    <3> HIDE DEF Records, entry
    <3>3. sfCompleted' \in Seq(Records)
      BY <3>1, <3>2
    <3> QED BY <3>3 DEF Records
  <2>5. sfShown' \in [terminal : BOOLEAN, off : BOOLEAN, form : BOOLEAN]
    <3> DEFINE t == SfTerminal(status)  o == sfChallenge = SfNone
    <3>1. t \in BOOLEAN /\ o \in BOOLEAN
      BY DEF SfTerminal
    <3>2. sfShown' = [terminal |-> t, off |-> o, form |-> FALSE]
      BY <2>1
    <3> HIDE DEF t, o
    <3> QED BY <3>1, <3>2
  <2>6. sfRecorded' = TRUE /\ sfPhase' = "result" /\ sfStraggled' \in BOOLEAN
    BY <1>12 DEF SfFinish
  <2>7. UNCHANGED <<sfMode, sfContext, sfIndex, sfMood, sfSelected, sfSaved, sfChallenge, sfPending, sfRuns>>
    BY <1>12 DEF SfFinish
  <2> QED BY <2>2, <2>4, <2>5, <2>6, <2>7 DEF SfTyped, SfTypeOK
<1>13. CASE SfNextLevel
  <2>1. sfIndex + 2 \in SfLevels /\ SfOpen(sfIndex + 2, sfChallenge) /\ sfChallenge \in SfChallenges \cup {SfNone}
    BY <1>13 DEF SfNextLevel, SfTyped
  <2>2. sfSession' \in SfSessions /\ sfSelected' \in SfLevels /\ sfMode' = "play" /\ sfPhase' = "ready"
        /\ sfRecorded' = FALSE /\ sfShown' = SfNoResult
    BY <2>1, SfOpenTyped
  <2>3. sfShown' \in [terminal : BOOLEAN, off : BOOLEAN, form : BOOLEAN]
    BY <2>2 DEF SfNoResult
  <2>4. sfIndex' \in 0 .. SfStages - 1
    BY <1>13, SfPlayAssumption DEF SfNextLevel, SfLevels, SfTyped, SfTypeOK
  <2> QED BY <1>13, <2>2, <2>3, <2>4 DEF SfNextLevel, SfTyped, SfTypeOK
<1>14. CASE SfForm
  <2>1. sfShown' \in [terminal : BOOLEAN, off : BOOLEAN, form : BOOLEAN]
    BY <1>14 DEF SfForm, SfTyped, SfTypeOK
  <2> QED BY <1>14, <2>1, SfStaysTyped DEF SfForm, SfTyped, SfTypeOK
<1>15. CASE SfSubmit
  BY <1>15, SfStaysTyped DEF SfSubmit, SfTyped, SfTypeOK
<1>16. CASE SfScoreSaved
  <2>1. sfMode' = "leaderboard" /\ sfChallenge' \in SfChallenges \cup {SfNone} /\ sfPending' \in SfPendings \cup {SfNone}
    BY <1>16, SfCalledOff DEF SfScoreSaved
  <2> QED BY <1>16, <2>1 DEF SfScoreSaved, SfTyped, SfTypeOK
<1>17. CASE SfScoreFails
  BY <1>17, SfStaysTyped DEF SfScoreFails, SfTyped, SfTypeOK
<1>18. CASE UNCHANGED sfPlayVars
  BY <1>18, SfStaysTyped DEF sfPlayVars, SfTyped, SfTypeOK
<1> QED BY <1>1, <1>2, <1>3, <1>4, <1>5, <1>6, <1>7, <1>8, <1>9, <1>10, <1>11, <1>12, <1>13, <1>14,
           <1>15, <1>16, <1>17, <1>18 DEF SfNext

-----------------------------------------------------------------------------
(* The challenge held, and what is played under it.                        *)

\* A step after which no stage is played under a challenge.
LEMMA SfLetsGo ==
  ASSUME SfInv, SfNavigate \/ SfChooseMood \/ SfHome \/ SfStartArcade \/ SfStartCatalog \/ SfRestart
                \/ SfChallengeFails \/ SfChallengeIsStale \/ SfScoreSaved
  PROVE  sfMode' # "play" \/ sfChallenge' = SfNone
<1>1. CASE SfNavigate
  BY <1>1, SfCalledOff DEF SfNavigate, SfInv
<1>2. CASE SfChooseMood
  BY <1>2 DEF SfChooseMood
<1>3. CASE SfHome
  BY <1>3 DEF SfHome
<1>4. CASE SfStartArcade \/ SfStartCatalog \/ SfRestart
  BY <1>4 DEF SfStartArcade, SfStartCatalog, SfRestart, SfStart
<1>5. CASE SfChallengeFails
  BY <1>5 DEF SfChallengeFails, SfProceed
<1>6. CASE SfChallengeIsStale
  BY <1>6 DEF SfChallengeIsStale, SfInv, SfAwaiting
<1>7. CASE SfScoreSaved
  BY <1>7, SfCalledOff DEF SfScoreSaved, SfInv
<1> QED BY <1>1, <1>2, <1>3, <1>4, <1>5, <1>6, <1>7

\* A step that leaves the run and its stages alone.
SfRunStays ==
  UNCHANGED <<sfMode, sfPage, sfField, sfCompleted, sfChallenge, sfPending, sfStraggled>>
LEMMA SfLeavesAlone ==
  ASSUME SfBegin \/ SfPause \/ SfForm \/ SfSubmit \/ SfScoreFails \/ UNCHANGED sfPlayVars
  PROVE  /\ SfRunStays /\ sfShown'.terminal = sfShown.terminal /\ (sfPhase' = "result" <=> sfPhase = "result")
         /\ sfShown'.off = sfShown.off
<1>1. CASE SfBegin \/ SfPause
  BY <1>1 DEF SfBegin, SfPause, SfSetPhase, SfRunStays
<1>2. CASE SfForm
  BY <1>2 DEF SfForm, SfRunStays
<1>3. CASE SfSubmit
  BY <1>3 DEF SfSubmit, SfRunStays
<1>4. CASE SfScoreFails
  BY <1>4 DEF SfScoreFails, SfRunStays
<1>5. CASE UNCHANGED sfPlayVars
  BY <1>5 DEF sfPlayVars, SfRunStays
<1> QED BY <1>1, <1>2, <1>3, <1>4, <1>5

\* The attempt a challenge arrives for is the one that waits on screen.
LEMMA SfArrivesInTime ==
  ASSUME SfInv, SfChallengeArrives
  PROVE  \E challenge \in SfChallenges :
           /\ sfChallenge' = challenge /\ challenge.board = sfPending.board
           /\ challenge.mood = sfMood /\ challenge.asked.board = sfPending.board
           /\ challenge.asked.mood = sfMood
           /\ challenge.asked.level = IF sfPending.board = "level" THEN sfPending.level ELSE SfNone
           /\ SfOpen(IF sfPending.board = "arcade" THEN sfSelected ELSE sfPending.level, challenge)
<1>1. PICK challenge \in SfChallenges :
        /\ SfProceed(challenge) /\ challenge.board = sfPending.board
        /\ challenge.mood = sfMood /\ challenge.run = sfRuns'
        /\ challenge.asked = [board |-> sfPending.board, mood |-> sfPending.mood,
              level |-> IF sfPending.board = "level" THEN sfPending.level ELSE SfNone]
  BY SfArrives DEF SfInv
<1>2. sfPending # SfNone /\ sfPending.current
  BY DEF SfChallengeArrives
<1>3. sfPending.launch = sfMode /\ sfPending.mood = sfMood
  BY <1>2 DEF SfInv, SfAwaiting
<1>4. SfOpen(IF sfPending.board = "arcade" THEN sfSelected ELSE sfPending.level, challenge) /\ sfChallenge' = challenge
  BY <1>1, <1>3 DEF SfProceed
<1>5. /\ challenge.asked.board = sfPending.board /\ challenge.asked.mood = sfMood
      /\ challenge.asked.level = IF sfPending.board = "level" THEN sfPending.level ELSE SfNone
  BY <1>1, <1>3
<1> QED BY <1>1, <1>4, <1>5

LEMMA SfAskedForStep == SfInv /\ [SfNext]_sfPlayVars => SfAskedFor'
<1> SUFFICES ASSUME SfInv, [SfNext]_sfPlayVars PROVE SfAskedFor'
  OBVIOUS
<1> SfTyped /\ SfAskedFor
  BY DEF SfInv
<1>1. CASE SfNavigate \/ SfChooseMood \/ SfHome \/ SfStartArcade \/ SfStartCatalog \/ SfRestart
           \/ SfChallengeFails \/ SfChallengeIsStale \/ SfScoreSaved
  BY <1>1, SfLetsGo DEF SfAskedFor
<1>2. CASE SfBegin \/ SfPause \/ SfForm \/ SfSubmit \/ SfScoreFails \/ UNCHANGED sfPlayVars
  BY <1>2, SfLeavesAlone DEF SfAskedFor, SfRunStays, sfPage
<1>3. CASE SfChallengeArrives
  <2>1. PICK challenge \in SfChallenges :
          /\ sfChallenge' = challenge /\ challenge.board = sfPending.board
          /\ challenge.mood = sfMood /\ challenge.asked.board = sfPending.board
          /\ challenge.asked.mood = sfMood
          /\ challenge.asked.level = IF sfPending.board = "level" THEN sfPending.level ELSE SfNone
    BY <1>3, SfArrivesInTime
  <2>2. sfContext' = sfContext /\ sfMood' = sfMood /\ sfPending # SfNone
    BY <1>3 DEF SfChallengeArrives, SfProceed
  <2>3. sfPending.board = "arcade" <=> sfContext = "arcade"
    BY <2>2 DEF SfInv, SfAwaiting
  <2> QED BY <2>1, <2>2, <2>3 DEF SfAskedFor
<1>4. CASE SfFinish
  BY <1>4 DEF SfFinish, SfAskedFor, sfPage
<1>5. CASE SfNextLevel
  BY <1>5 DEF SfNextLevel, SfAskedFor
<1> QED BY <1>1, <1>2, <1>3, <1>4, <1>5 DEF SfNext

LEMMA SfOfTheRunStep == SfInv /\ [SfNext]_sfPlayVars => SfOfTheRun'
<1> SUFFICES ASSUME SfInv, [SfNext]_sfPlayVars, sfMode' = "play", sfChallenge' # SfNone, ~sfStraggled'
             PROVE  SfOfTheRun'
  BY DEF SfOfTheRun
<1> SfTyped /\ SfOfTheRun /\ SfAskedFor
  BY DEF SfInv
<1>1. CASE SfNavigate \/ SfChooseMood \/ SfHome \/ SfStartArcade \/ SfStartCatalog \/ SfRestart
           \/ SfChallengeFails \/ SfChallengeIsStale \/ SfScoreSaved
  BY <1>1, SfLetsGo
<1>2. CASE SfBegin \/ SfPause \/ SfForm \/ SfSubmit \/ SfScoreFails \/ UNCHANGED sfPlayVars
  <2>1. SfRunStays /\ sfShown'.terminal = sfShown.terminal /\ (sfPhase' = "result" <=> sfPhase = "result")
    BY <1>2, SfLeavesAlone
  <2> QED BY <2>1 DEF SfOfTheRun, SfRunStays, sfPage, sfField, SfUnder, SfTerminal, SfWon
<1>3. CASE SfChallengeArrives
  <2> DEFINE chosen == IF sfPending.board = "arcade" THEN sfSelected ELSE sfPending.level
  <2>1. PICK challenge \in SfChallenges :
          /\ sfChallenge' = challenge /\ challenge.board = sfPending.board
          /\ challenge.mood = sfMood /\ challenge.asked.board = sfPending.board
          /\ challenge.asked.level = IF sfPending.board = "level" THEN sfPending.level ELSE SfNone
          /\ SfOpen(chosen, challenge)
    BY <1>3, SfArrivesInTime
  <2>2. /\ UNCHANGED <<sfContext, sfMood, sfIndex, sfCompleted, sfStraggled>> /\ sfPending # SfNone /\ sfPending.current
    BY <1>3 DEF SfChallengeArrives, SfProceed
  <2>3. /\ sfPending.board = "arcade" <=> sfContext = "arcade"
        /\ sfCompleted = <<>> /\ (sfContext = "arcade" => sfIndex = 0 /\ sfSelected = 1)
    BY <2>2 DEF SfInv, SfAwaiting
  <2>4. sfPending.board \in SfBoards /\ sfContext \in {"arcade", "catalog"}
    BY <2>2 DEF SfTyped, SfTypeOK, SfPendings
  <2> HIDE DEF chosen
  <2>5. /\ sfSelected' = chosen /\ sfPhase' = "ready"
        /\ sfSession' = [level |-> chosen, mood |-> sfMood, status |-> "running", nonce |-> challenge.run]
    BY <2>1 DEF SfOpen
  <2>6. SfUnder(sfSession)' /\ sfSession'.level = sfSelected'
    BY <2>1, <2>2, <2>5 DEF SfUnder
  <2>7. Len(sfCompleted') = 0
    BY <2>2, <2>3
  <2>8. /\ sfContext' = "arcade" => sfSelected' = sfIndex' + 1 /\ sfIndex' = 0
        /\ sfContext' = "catalog" => sfChallenge'.asked.level = sfSelected'
    BY <2>1, <2>2, <2>3, <2>4, <2>5 DEF chosen, SfBoards
  <2> QED BY <2>5, <2>6, <2>7, <2>8 DEF SfOfTheRun
<1>4. CASE SfFinish
  <2>1. PICK status \in {"won", "lost"} :
          /\ sfSession' = [sfSession EXCEPT !.status = status]
          /\ sfCompleted' = IF sfRecorded THEN sfCompleted
                            ELSE Append(sfCompleted, [level |-> sfSelected, session |-> sfSession'])
          /\ sfShown' = [terminal |-> SfTerminal(status), off |-> sfChallenge = SfNone, form |-> FALSE]
    BY <1>4 DEF SfFinish
  <2>2. /\ UNCHANGED <<sfMode, sfContext, sfIndex, sfMood, sfSelected, sfChallenge>> /\ sfPhase = "running"
        /\ sfPhase' = "result" /\ ~sfStraggled
    BY <1>4 DEF SfFinish, sfPage
  <2>3. ~sfRecorded
    BY <2>2 DEF SfTyped
  <2> DEFINE entry == [level |-> sfSelected, session |-> sfSession']
  <2> PICK n \in Nat : n = Len(sfCompleted)
    BY DEF SfTyped, SfTypeOK
  <2>4. /\ SfUnder(sfSession) /\ sfSession.level = sfSelected
        /\ sfContext = "arcade" => sfSelected = sfIndex + 1
        /\ sfContext = "catalog" => sfChallenge.asked.level = sfSelected
        /\ n = (IF sfContext = "arcade" THEN sfIndex ELSE 0)
        /\ \A k \in 1 .. n :
             /\ SfUnder(sfCompleted[k].session) /\ sfCompleted[k].session.level = sfCompleted[k].level
             /\ sfContext = "arcade" => sfCompleted[k].level = k
             /\ sfContext = "arcade" /\ k <= sfIndex => SfWon(sfCompleted[k])
    BY <2>2 DEF SfOfTheRun, SfTyped, SfTypeOK
  <2>5. sfCompleted \in Seq([level : SfLevels, session : SfSessions])
    BY DEF SfTyped, SfTypeOK
  <2>6. sfCompleted' = Append(sfCompleted, entry)
    BY <2>1, <2>3
  <2>7. sfSession'.mood = sfSession.mood /\ sfSession'.nonce = sfSession.nonce /\ sfSession'.level = sfSession.level
        /\ sfSession'.status = status
    BY <2>1 DEF SfTyped, SfTypeOK, SfSessions
  <2>8. entry.level = sfSelected /\ entry.session = sfSession'
    OBVIOUS
  <2> HIDE DEF entry
  <2>9. /\ Len(sfCompleted') = n + 1 /\ sfCompleted'[n + 1] = entry /\ n \in Nat
        /\ \A k \in 1 .. n : sfCompleted'[k] = sfCompleted[k]
    BY <2>5, <2>6
  <2>10. (sfShown'.terminal <=> SfTerminal(sfSession'.status)) /\ (SfTerminal(sfSession.status)' <=> SfTerminal(sfSession'.status))
    BY <2>1, <2>2, <2>7 DEF SfTerminal
  <2>11. SfUnder(sfSession)' /\ sfSession'.level = sfSelected
    BY <2>2, <2>4, <2>7 DEF SfUnder
  <2>12. ASSUME NEW k \in 1 .. n
         PROVE  /\ SfUnder(sfCompleted[k].session)' /\ sfCompleted'[k].session.level = sfCompleted'[k].level
                /\ sfContext' = "arcade" => sfCompleted'[k].level = k
                /\ sfContext' = "arcade" /\ k <= sfIndex' => SfWon(sfCompleted'[k])
    BY <2>2, <2>4, <2>9 DEF SfUnder
  <2>13. /\ SfUnder(sfCompleted[n + 1].session)' /\ sfCompleted'[n + 1].session.level = sfCompleted'[n + 1].level
         /\ sfContext' = "arcade" => sfCompleted'[n + 1].level = n + 1 /\ ~(n + 1 <= sfIndex')
    <3>1. sfCompleted'[n + 1].session = sfSession' /\ sfCompleted'[n + 1].level = sfSelected
      BY <2>8, <2>9
    <3> QED BY <2>2, <2>4, <2>9, <2>11, <3>1 DEF SfUnder, SfTyped, SfTypeOK
  <2>14. \A k \in 1 .. Len(sfCompleted') :
           /\ SfUnder(sfCompleted[k].session)' /\ sfCompleted'[k].session.level = sfCompleted'[k].level
           /\ sfContext' = "arcade" => sfCompleted'[k].level = k
           /\ sfContext' = "arcade" /\ k <= sfIndex' => SfWon(sfCompleted'[k])
    <3> TAKE k \in 1 .. Len(sfCompleted')
    <3>1. k \in 1 .. n \/ k = n + 1
      BY <2>9
    <3> QED BY <2>12, <2>13, <3>1 DEF SfUnder
  <2>15. sfCompleted'[Len(sfCompleted')] = [level |-> sfSelected', session |-> sfSession']
    BY <2>2, <2>9 DEF entry
  <2>16. Len(sfCompleted') = (IF sfContext' = "arcade" THEN sfIndex' ELSE 0) + 1
    BY <2>2, <2>4, <2>9
  <2> QED BY <2>2, <2>4, <2>10, <2>11, <2>14, <2>15, <2>16 DEF SfOfTheRun, SfWon
<1>5. CASE SfNextLevel
  <2>1. /\ sfMode = "play" /\ sfPhase = "result" /\ ~sfShown.terminal /\ sfIndex' = sfIndex + 1
        /\ SfOpen(sfIndex + 2, sfChallenge)
        /\ UNCHANGED <<sfContext, sfMood, sfCompleted, sfChallenge, sfStraggled>>
    BY <1>5 DEF SfNextLevel
  <2>2. /\ SfUnder(sfSession) /\ sfSession.level = sfSelected
        /\ sfContext = "arcade" => sfSelected = sfIndex + 1
        /\ Len(sfCompleted) = (IF sfContext = "arcade" THEN sfIndex ELSE 0) + 1
        /\ \A k \in 1 .. Len(sfCompleted) :
             /\ SfUnder(sfCompleted[k].session) /\ sfCompleted[k].session.level = sfCompleted[k].level
             /\ sfContext = "arcade" => sfCompleted[k].level = k
             /\ sfContext = "arcade" /\ k <= sfIndex => SfWon(sfCompleted[k])
        /\ sfCompleted[Len(sfCompleted)] = [level |-> sfSelected, session |-> sfSession]
        /\ sfShown.terminal <=> SfTerminal(sfSession.status)
    BY <2>1 DEF SfOfTheRun
  <2>3. sfContext = "arcade" /\ sfSession.status = "won" /\ sfIndex \in Nat
    BY <2>1, <2>2 DEF SfTerminal, SfTyped, SfTypeOK
  <2>4. Len(sfCompleted) = sfIndex + 1 /\ SfWon(sfCompleted[sfIndex + 1])
    BY <2>2, <2>3 DEF SfWon
  <2>5. sfChallenge.mood = sfMood
    BY <2>1 DEF SfAskedFor
  <2>6. /\ sfSelected' = sfIndex + 2 /\ sfPhase' = "ready"
        /\ sfSession' = [level |-> sfIndex + 2, mood |-> sfMood, status |-> "running", nonce |-> sfChallenge.run]
    BY <2>1, <2>5 DEF SfOpen
  <2>7. SfUnder(sfSession)' /\ sfSession'.level = sfSelected' /\ sfSelected' = sfIndex' + 1
    BY <2>1, <2>3, <2>6 DEF SfUnder
  <2>8. Len(sfCompleted') = sfIndex' /\ sfContext' = "arcade"
    BY <2>1, <2>3, <2>4
  <2>9. \A k \in 1 .. Len(sfCompleted') :
          /\ SfUnder(sfCompleted[k].session)' /\ sfCompleted'[k].session.level = sfCompleted'[k].level
          /\ sfContext' = "arcade" => sfCompleted'[k].level = k
          /\ sfContext' = "arcade" /\ k <= sfIndex' => SfWon(sfCompleted[k])'
    <3> TAKE k \in 1 .. Len(sfCompleted')
    <3>1. k \in 1 .. Len(sfCompleted) /\ (k <= sfIndex \/ k = sfIndex + 1)
      BY <2>1, <2>3, <2>4
    <3>2. SfWon(sfCompleted[k])
      BY <2>2, <2>3, <2>4, <3>1
    <3>3. SfUnder(sfCompleted[k].session)' /\ sfCompleted'[k].session.level = sfCompleted'[k].level
          /\ sfCompleted'[k].level = k
      BY <2>1, <2>2, <2>3, <3>1 DEF SfUnder
    <3> QED BY <2>1, <3>2, <3>3 DEF SfWon
  <2> QED BY <2>3, <2>6, <2>7, <2>8, <2>9 DEF SfOfTheRun
<1> QED BY <1>1, <1>2, <1>3, <1>4, <1>5 DEF SfNext

\* How a screen that is left changes a pending attempt.
LEMMA SfGivesUp ==
  ASSUME SfInv, NEW next \in {"home", "catalog", "leaderboard"}, SfSetMode(next)
  PROVE  /\ sfMode' = next /\ (sfPending' # SfNone => sfPending # SfNone)
         /\ sfPending' # SfNone => sfChallenge' = SfNone /\ sfPending'.board = sfPending.board
         /\ sfPending' # SfNone /\ sfPending'.current => next = sfMode /\ UNCHANGED <<sfPending, sfChallenge>>
         /\ sfChallenge' \in {sfChallenge, SfNone}
<1>1. CASE sfPending # SfNone /\ next # sfMode
  <2>1. sfPending \in SfPendings
    BY <1>1 DEF SfInv, SfTyped
  <2>2. sfPending' = [sfPending EXCEPT !.current = FALSE] /\ sfChallenge' = SfNone /\ sfMode' = next
    BY <1>1 DEF SfSetMode
  <2>3. sfPending'.current = FALSE /\ sfPending'.board = sfPending.board
    BY <2>1, <2>2 DEF SfPendings
  <2> QED BY <1>1, <2>2, <2>3
<1>2. CASE ~(sfPending # SfNone /\ next # sfMode)
  BY <1>2 DEF SfSetMode, SfInv, SfAwaiting
<1> QED BY <1>1, <1>2

\* An attempt that begins is fresh.
LEMMA SfStartsFresh ==
  ASSUME SfInv, NEW scope \in SfBoards, NEW chosen, SfStart(scope, chosen), scope = "arcade" => chosen = 1,
         sfMode = "play" /\ sfPhase = "result" => sfShown.terminal
  PROVE  SfAwaiting'
<1>1. sfPending' = [board |-> scope, level |-> chosen, launch |-> sfMode, mood |-> sfMood, current |-> TRUE]
  BY DEF SfStart
<1>2. sfPending'.board = scope /\ sfPending'.launch = sfMode /\ sfPending'.mood = sfMood
  BY <1>1
<1>3. /\ sfChallenge' = SfNone /\ sfCompleted' = <<>> /\ sfSelected' = chosen
      /\ sfContext' = (IF scope = "arcade" THEN "arcade" ELSE "catalog")
      /\ scope = "arcade" => sfIndex' = 0
      /\ UNCHANGED <<sfMode, sfPhase, sfMood, sfShown>>
  BY DEF SfStart
<1> QED BY <1>2, <1>3 DEF SfAwaiting

LEMMA SfAwaitingStep == SfInv /\ [SfNext]_sfPlayVars => SfAwaiting'
<1> SUFFICES ASSUME SfInv, [SfNext]_sfPlayVars PROVE SfAwaiting'
  OBVIOUS
<1> SfTyped /\ SfAwaiting
  BY DEF SfInv
<1>1. CASE SfNavigate
  <2>1. PICK next \in {"home", "catalog", "leaderboard"} \ {sfMode} : SfSetMode(next)
    BY <1>1 DEF SfNavigate
  <2>2. UNCHANGED sfContext
    BY <1>1 DEF SfNavigate, sfPage
  <2> QED BY <2>1, <2>2, SfGivesUp DEF SfAwaiting
<1>2. CASE SfChooseMood
  BY <1>2 DEF SfChooseMood, SfAwaiting
<1>3. CASE SfHome
  <2>1. CASE sfPending = SfNone
    BY <1>3, <2>1 DEF SfHome, SfAwaiting
  <2>2. CASE sfPending # SfNone
    <3>1. sfPending \in SfPendings
      BY <2>2 DEF SfTyped
    <3>2. sfPending' = [sfPending EXCEPT !.current = FALSE] /\ sfChallenge' = SfNone /\ sfContext' = sfContext
      BY <1>3, <2>2 DEF SfHome, sfPage
    <3>3. sfPending'.current = FALSE /\ sfPending'.board = sfPending.board
      BY <3>1, <3>2 DEF SfPendings
    <3> QED BY <2>2, <3>2, <3>3 DEF SfAwaiting
  <2> QED BY <2>1, <2>2
<1>4. CASE SfStartArcade
  BY <1>4, SfStartsFresh DEF SfStartArcade, SfBoards
<1>5. CASE SfStartCatalog
  BY <1>5, SfStartsFresh DEF SfStartCatalog, SfBoards
<1>6. CASE SfRestart
  BY <1>6, SfStartsFresh DEF SfRestart, SfBoards
<1>7. CASE SfChallengeArrives \/ SfChallengeFails \/ SfChallengeIsStale
  BY <1>7 DEF SfChallengeArrives, SfChallengeFails, SfChallengeIsStale, SfProceed, SfAwaiting
<1>8. CASE SfBegin \/ SfPause \/ SfForm \/ SfSubmit \/ SfScoreFails \/ UNCHANGED sfPlayVars
  <2>1. SfRunStays /\ sfShown'.terminal = sfShown.terminal /\ (sfPhase' = "result" <=> sfPhase = "result")
    BY <1>8, SfLeavesAlone
  <2> QED BY <2>1 DEF SfAwaiting, SfRunStays, sfPage
<1>9. CASE SfFinish
  BY <1>9 DEF SfFinish, SfAwaiting, sfPage
<1>10. CASE SfNextLevel
  BY <1>10 DEF SfNextLevel, SfOpen, SfAwaiting
<1>11. CASE SfScoreSaved
  <2>1. SfSetMode("leaderboard")
    BY <1>11 DEF SfScoreSaved
  <2>2. UNCHANGED <<sfPhase, sfContext, sfIndex, sfMood, sfSelected, sfCompleted, sfShown, sfStraggled>>
    BY <1>11 DEF SfScoreSaved
  <2> QED BY <2>1, <2>2, SfGivesUp DEF SfAwaiting
<1> QED BY <1>1, <1>2, <1>3, <1>4, <1>5, <1>6, <1>7, <1>8, <1>9, <1>10, <1>11 DEF SfNext

LEMMA SfFlaggedStep == SfInv /\ [SfNext]_sfPlayVars => SfFlagged'
<1> SUFFICES ASSUME SfInv, [SfNext]_sfPlayVars PROVE SfFlagged'
  OBVIOUS
<1> SfTyped /\ SfAwaiting /\ SfFlagged
  BY DEF SfInv
<1>1. CASE SfNavigate
  <2>1. PICK next \in {"home", "catalog", "leaderboard"} \ {sfMode} : SfSetMode(next)
    BY <1>1 DEF SfNavigate
  <2>2. UNCHANGED <<sfSaved, sfPhase, sfShown>>
    BY <1>1 DEF SfNavigate, sfPage
  <2> QED BY <2>1, <2>2, SfGivesUp DEF SfFlagged
<1>2. CASE SfChooseMood
  BY <1>2 DEF SfChooseMood, SfFlagged
<1>3. CASE SfHome
  <2>1. sfPending' # SfNone => ~sfPending'.current
    <3>1. CASE sfPending = SfNone
      BY <1>3, <3>1 DEF SfHome
    <3>2. CASE sfPending # SfNone
      <4>1. sfPending \in SfPendings
        BY <3>2 DEF SfTyped
      <4>2. sfPending' = [sfPending EXCEPT !.current = FALSE]
        BY <1>3, <3>2 DEF SfHome
      <4> QED BY <4>1, <4>2 DEF SfPendings
    <3> QED BY <3>1, <3>2
  <2>2. sfMode' \in {"home", "catalog"} /\ sfPhase' = "ready" /\ ~sfShown'.form
    BY <1>3 DEF SfHome, SfNoResult
  <2> QED BY <2>1, <2>2 DEF SfFlagged
<1>4. CASE SfStartArcade \/ SfStartCatalog \/ SfRestart
  BY <1>4 DEF SfStartArcade, SfStartCatalog, SfRestart, SfStart, SfFlagged
<1>5. CASE SfChallengeArrives
  <2>1. sfPhase' = "ready" /\ sfShown' = SfNoResult
    BY <1>5, SfArrivesInTime DEF SfOpen
  <2>2. sfSaved' = sfSaved /\ sfPending # SfNone /\ sfPending.current
    BY <1>5 DEF SfChallengeArrives, SfProceed
  <2> QED BY <2>1, <2>2 DEF SfFlagged, SfNoResult
<1>6. CASE SfChallengeFails
  <2>1. /\ sfSaved' = sfSaved /\ sfPending # SfNone /\ sfPending.current /\ sfChallenge' = SfNone
        /\ (sfShown' = SfNoResult \/ sfShown' = sfShown)
    BY <1>6 DEF SfChallengeFails, SfProceed, SfOpen
  <2> QED BY <2>1 DEF SfFlagged, SfNoResult
<1>7. CASE SfChallengeIsStale
  BY <1>7 DEF SfChallengeIsStale, SfFlagged, sfPage
<1>8. CASE SfBegin \/ SfPause \/ SfSubmit \/ SfScoreFails \/ UNCHANGED sfPlayVars
  <2>1. SfRunStays /\ (sfPhase' = "result" <=> sfPhase = "result") /\ sfShown' = sfShown
    BY <1>8, SfLeavesAlone DEF SfBegin, SfPause, SfSetPhase, SfSubmit, SfScoreFails, sfPlayVars
  <2> QED BY <2>1 DEF SfFlagged, SfRunStays, sfPage
<1>9. CASE SfForm
  <2>1. SfRunStays /\ sfShown'.terminal = sfShown.terminal /\ (sfPhase' = "result" <=> sfPhase = "result")
        /\ sfShown'.off = sfShown.off
    BY <1>9, SfLeavesAlone
  <2>2. sfShown.terminal
    BY <1>9 DEF SfForm, SfFlagged
  <2> QED BY <2>1, <2>2 DEF SfFlagged, SfRunStays, sfPage
<1>10. CASE SfFinish
  <2>1. ~sfShown'.form /\ (sfShown'.off => sfChallenge = SfNone) /\ UNCHANGED <<sfSaved, sfMode, sfPending, sfChallenge>>
    <3> DEFINE off == sfChallenge = SfNone
    <3>1. PICK terminal : sfShown' = [terminal |-> terminal, off |-> off, form |-> FALSE]
      BY <1>10 DEF SfFinish
    <3>2. off => sfChallenge = SfNone
      OBVIOUS
    <3> HIDE DEF off
    <3> QED BY <1>10, <3>1, <3>2 DEF SfFinish, sfPage
  <2> QED BY <2>1 DEF SfFlagged
<1>11. CASE SfNextLevel
  BY <1>11 DEF SfNextLevel, SfOpen, SfFlagged, SfNoResult
<1>12. CASE SfScoreSaved
  <2>1. SfSetMode("leaderboard") /\ UNCHANGED <<sfPhase, sfShown>>
    BY <1>12 DEF SfScoreSaved
  <2>2. /\ sfMode' = "leaderboard" /\ sfChallenge' \in {sfChallenge, SfNone}
        /\ sfPending' # SfNone /\ sfPending'.current =>
             sfPending # SfNone /\ sfMode = "leaderboard" /\ sfPending' = sfPending
    BY <2>1, SfGivesUp
  <2>3. sfPending # SfNone /\ sfPending.current => sfMode # "leaderboard"
    BY DEF SfAwaiting, SfTyped, SfPendings
  <2> QED BY <2>1, <2>2, <2>3 DEF SfFlagged
<1> QED BY <1>1, <1>2, <1>3, <1>4, <1>5, <1>6, <1>7, <1>8, <1>9, <1>10, <1>11, <1>12 DEF SfNext

-----------------------------------------------------------------------------
(* What the form sends.                                                    *)

\* A run of the stages of 1 .. n, of which all are won or not, is complete if as
\* many are won as there are stages.
LEMMA SfAllCleared ==
  ASSUME NEW n \in Nat, n <= SfStages, NEW won \in SUBSET (1 .. n)
  PROVE  Cardinality(won) = SfStages <=> n = SfStages /\ won = 1 .. n
<1>1. SfStages \in Nat \ {0}
  BY SfPlayAssumption
<1>2. IsFiniteSet(1 .. n) /\ Cardinality(1 .. n) = n
  BY FS_Interval
<1>3. Cardinality(won) \in Nat /\ Cardinality(won) <= n /\ (Cardinality(won) = n => won = 1 .. n)
  BY <1>2, FS_Subset, FS_CardinalityType
<1> QED BY <1>1, <1>2, <1>3

LEMMA SfSubmitsGood ==
  ASSUME SfInv, SfSubmit, ~sfStraggled
  PROVE  SfAccepted
<1> DEFINE n == Len(sfCompleted)
           run == sfChallenge.asked
           last == sfCompleted[n]
           won == {k \in DOMAIN sfCompleted : SfWon(sfCompleted[k])}
<1>1. /\ sfMode = "play" /\ sfPhase = "result" /\ sfShown.terminal /\ sfChallenge # SfNone
  BY DEF SfSubmit, SfInv, SfFlagged
<1>2. /\ sfChallenge.board = run.board /\ (run.board = "arcade" <=> sfContext = "arcade")
      /\ run.mood = sfMood /\ (sfContext = "arcade" => run.level = SfNone)
  BY <1>1 DEF SfInv, SfAskedFor
<1>3. /\ run.board \in {"arcade", "level"} /\ sfContext \in {"arcade", "catalog"} /\ sfIndex \in 0 .. SfStages - 1
      /\ DOMAIN sfCompleted = 1 .. n /\ n \in Nat /\ SfStages \in Nat \ {0}
  BY <1>1, SfPlayAssumption DEF SfInv, SfTyped, SfTypeOK, SfChallenges, SfAsked, SfBoards
<1>4. /\ sfContext = "catalog" => run.level = sfSelected
      /\ n = (IF sfContext = "arcade" THEN sfIndex ELSE 0) + 1
      /\ \A k \in 1 .. n :
           /\ SfUnder(sfCompleted[k].session) /\ sfCompleted[k].session.level = sfCompleted[k].level
           /\ sfContext = "arcade" => sfCompleted[k].level = k
           /\ sfContext = "arcade" /\ k <= sfIndex => SfWon(sfCompleted[k])
      /\ last = [level |-> sfSelected, session |-> sfSession]
      /\ SfTerminal(sfSession.status)
  BY <1>1 DEF SfInv, SfOfTheRun
<1>5. last.level = sfSelected /\ (SfWon(last) <=> sfSession.status = "won")
  BY <1>4 DEF SfWon
<1>6. n \in 1 .. SfStages
  BY <1>3, <1>4
<1>7. \A k \in 1 .. n : SfReplays(sfCompleted[k], run.mood, sfChallenge.run)
  BY <1>2, <1>4 DEF SfReplays, SfUnder
<1>8. CASE sfContext = "catalog"
  <2>1. n = 1 /\ run.board = "level" /\ run.level = sfSelected
    BY <1>2, <1>3, <1>4, <1>8
  <2>2. SfClaim = [board |-> "level", mood |-> sfMood, level |-> last.level, won |-> SfWon(last)]
    BY <1>8 DEF SfClaim
  <2>3. SfClaim.board = "level" /\ SfClaim.level = sfSelected
    BY <1>5, <2>2
  <2>4. SfProof = [board |-> "level", mood |-> sfMood, records |-> sfCompleted, level |-> sfSelected]
    BY <2>3 DEF SfProof
  <2>5. SfProof.board = "level" /\ SfProof.mood = sfMood /\ SfProof.records = sfCompleted /\ SfProof.level = sfSelected
    BY <2>4
  <2>6. SfVerifies(SfProof, run, sfChallenge.run)
    <3>1. sfCompleted[1].level = sfSelected
      BY <1>5, <2>1
    <3> HIDE DEF run
    <3> QED BY <1>2, <1>3, <1>6, <1>7, <2>1, <2>5, <3>1 DEF SfVerifies
  <2>7. SfSummary(run, sfCompleted) = [board |-> "level", mood |-> run.mood, level |-> run.level, won |-> SfWon(sfCompleted[1])]
    BY <2>1 DEF SfSummary
  <2>8. SfClaim = SfSummary(run, sfCompleted)
    BY <1>2, <1>5, <2>1, <2>2, <2>7
  <2> QED BY <1>2, <2>6, <2>8 DEF SfAccepted
<1>9. CASE sfContext = "arcade"
  <2>1. n = sfIndex + 1 /\ run.board = "arcade" /\ run.level = SfNone
    BY <1>2, <1>4, <1>9
  <2>2. SfWon(last) => n = SfStages
    BY <1>3, <1>4, <1>5, <1>9, <2>1 DEF SfTerminal
  <2> DEFINE whole == n = SfStages /\ won = DOMAIN sfCompleted
             reached == IF sfIndex + 1 > SfStages THEN SfStages ELSE sfIndex + 1
  <2>3. SfClaim = [board |-> "arcade", mood |-> sfMood, completed |-> whole, reached |-> reached, cleared |-> Cardinality(won)]
    BY <1>9 DEF SfClaim
  <2>4. reached = n
    BY <1>3, <1>6, <2>1
  <2>5. whole <=> Cardinality(won) = SfStages
    <3>1. won \in SUBSET (1 .. n) /\ n \in Nat /\ n <= SfStages
      BY <1>3, <1>6
    <3> HIDE DEF won, n
    <3>2. Cardinality(won) = SfStages <=> n = SfStages /\ won = 1 .. n
      BY <3>1, SfAllCleared
    <3> QED BY <1>3, <3>2
  <2>6. SfSummary(run, sfCompleted) =
          [board |-> "arcade", mood |-> run.mood, completed |-> Cardinality(won) = SfStages,
           reached |-> n, cleared |-> Cardinality(won)]
    BY <2>1 DEF SfSummary
  <2>7. SfClaim = SfSummary(run, sfCompleted)
    <3> DEFINE a == whole  b == Cardinality(won) = SfStages  c == Cardinality(won)
    <3>1. a = b
      BY <2>5
    <3>2. SfClaim = [board |-> "arcade", mood |-> sfMood, completed |-> a, reached |-> reached, cleared |-> c]
      BY <2>3
    <3>3. SfSummary(run, sfCompleted) = [board |-> "arcade", mood |-> run.mood, completed |-> b, reached |-> n, cleared |-> c]
      BY <2>6
    <3> HIDE DEF a, b, c, reached, run
    <3> QED BY <1>2, <2>4, <3>1, <3>2, <3>3
  <2>8. SfClaim.board = "arcade"
    BY <2>3
  <2>9. SfProof = [board |-> "arcade", mood |-> sfMood, records |-> sfCompleted, level |-> SfNone]
    BY <2>8 DEF SfProof
  <2>10. SfProof.board = "arcade" /\ SfProof.mood = sfMood /\ SfProof.records = sfCompleted /\ SfProof.level = SfNone
    BY <2>9
  <2>11. SfVerifies(SfProof, run, sfChallenge.run)
    <3>1. /\ \A k \in 1 .. n : sfCompleted[k].level = k
          /\ \A k \in 1 .. n - 1 : SfWon(sfCompleted[k])
      BY <1>3, <1>4, <1>9, <2>1
    <3> HIDE DEF run
    <3> QED BY <1>2, <1>3, <1>6, <1>7, <2>1, <2>2, <2>10, <3>1 DEF SfVerifies
  <2> QED BY <1>2, <2>7, <2>11 DEF SfAccepted
<1> QED BY <1>3, <1>8, <1>9

LEMMA SfSentStep == SfInv /\ [SfNext]_sfPlayVars => SfSent'
<1> SUFFICES ASSUME SfInv, [SfNext]_sfPlayVars PROVE SfSent'
  OBVIOUS
<1>1. CASE SfSubmit
  <2> DEFINE good == SfAccepted
  <2>1. sfSubmission' = [run |-> sfChallenge.run, good |-> good, straggled |-> sfStraggled]
    BY <1>1 DEF SfSubmit
  <2>2. ~sfStraggled => good
    BY <1>1, SfSubmitsGood
  <2> HIDE DEF good
  <2>3. sfSubmission'.good = good /\ sfSubmission'.straggled = sfStraggled
    BY <2>1
  <2> QED BY <2>2, <2>3 DEF SfSent
<1>2. CASE ~SfSubmit
  <2>1. sfSubmission' = SfNone \/ sfSubmission' = sfSubmission
    BY <1>2 DEF SfNext, SfNavigate, SfChooseMood, SfHome, SfStartArcade, SfStartCatalog, SfRestart, SfStart,
         SfChallengeArrives, SfChallengeFails, SfChallengeIsStale, SfProceed, SfBegin, SfPause, SfSetPhase,
         SfFinish, SfNextLevel, SfForm, SfScoreSaved, SfScoreFails, sfPlayVars
  <2> QED BY <2>1 DEF SfSent, SfInv
<1> QED BY <1>1, <1>2

-----------------------------------------------------------------------------
(* The theorems about Smilefall's page.                                    *)

LEMMA SfInductive == SfPlaySpec => []SfInv
<1>1. SfInit => SfInv
  BY SfBegins
<1>2. SfInv /\ [SfNext]_sfPlayVars => SfInv'
  BY SfTypedStep, SfAwaitingStep, SfAskedForStep, SfOfTheRunStep, SfFlaggedStep, SfSentStep DEF SfInv
<1> QED BY <1>1, <1>2, PTL DEF SfPlaySpec

\* Whatever was restarted, called off or answered late on the way, a ranked score the
\* form sends is one the platform's verifier accepts (submitScore, currentProof and
\* verifySmilefallRankedProof), but for a run whose attempt was pending while a stage
\* of the run before it ended.
THEOREM SubmissionsVerify == SfPlaySpec => []SfSubmissionsVerify
<1>1. SfInv => SfSubmissionsVerify
  BY DEF SfInv, SfTyped, SfSent, SfSubmissionsVerify
<1> QED BY <1>1, SfInductive, PTL

\* The warning before a run is left (confirmAbandon, activeRun) is never silenced for a
\* run with something to lose: an answer to an earlier score cannot set the flag of the
\* run that is played now.
THEOREM UnsavedRunsAreWarned == SfPlaySpec => []SfUnsavedRunsAreWarned
<1>1. SfInv => SfUnsavedRunsAreWarned
  BY DEF SfInv, SfFlagged, SfUnsavedRunsAreWarned, SfActiveRun
<1> QED BY <1>1, SfInductive, PTL

-----------------------------------------------------------------------------
(* Catalog votes: what the page relies on.                                 *)

VtVotes == VtValues \cup {0}
VtNotes == VtTexts \cup {""}
VtSummaries == [vote : VtVotes, note : VtNotes]
VtCardStates == [is : {"none", "blank", "rated"}, says : VtSummaries \cup {VtNone}]
VtDialogs == [field : VtFields \cup {VtNone}, opened : VtNotes, busy : BOOLEAN]
VtMessages(id) ==
  [id : {id}, kind : {"get", "set"}, field : VtFields, vote : VtVotes, note : VtNotes \cup {VtNone},
   as : Nat \cup {VtNone}, rest : SUBSET VtFields, drawn : BOOLEAN, asked : BOOLEAN,
   was : VtSummaries \cup {VtNone}, done : BOOLEAN, result : VtSummaries \cup {VtNone},
   made : Nat \cup {VtNone}]

VtTyped ==
  /\ vtServer \in Seq([VtFields -> VtSummaries]) /\ vtCookie \in 1 .. Len(vtServer) \cup {VtNone}
  /\ vtCache \in [VtFields -> VtSummaries \cup {VtNone}] /\ vtCards \in [VtFields -> VtCardStates]
  /\ vtPending \subseteq VtFields /\ vtDialog \in VtDialogs /\ vtCrossed \subseteq VtFields
  /\ \A r \in vtNet : r \in VtMessages(r.id)

\* A request speaks for the browser's session, or for one that is made for it.
VtWho(r) == IF r.as = VtNone THEN r.made ELSE r.as
VtOneSession ==
  vtCrossed # VtFields => \A r \in vtNet :
    /\ r.as # VtNone => r.as = vtCookie
    /\ r.made # VtNone <=> r.done /\ r.as = VtNone
    /\ r.made # VtNone => r.made \in 1 .. Len(vtServer)

\* One write of a field at a time.
VtWrites ==
  /\ \A f \in VtFields : f \in vtPending <=> \E r \in vtNet : r.kind = "set" /\ r.field = f
  /\ \A r, q \in vtNet : r.kind = "set" /\ q.kind = "set" /\ r.field = q.field => r = q

\* What a request that was carried out brings back is still there, and what one
\* that was not would put back, too.
VtBrings(f) ==
  \A r \in vtNet : r.field = f =>
    /\ r.done => r.result = vtServer[VtWho(r)][f]
    /\ r.kind = "set" /\ r.note # VtNone => r.as # VtNone /\ r.vote = vtServer[r.as][f].vote
    /\ ~r.done /\ r.was # VtNone => vtCookie # VtNone /\ r.was = vtServer[vtCookie][f]
    /\ IF r.kind = "get" THEN r.was = VtNone ELSE r.rest = {}

\* Until a write was carried out the page is right; the dialog it came from waits for it.
VtIsRight(f) ==
  /\ vtCache[f] # VtNone => vtCookie # VtNone /\ vtCache[f] = vtServer[vtCookie][f]
  /\ vtCards[f].is = "rated" => vtCookie # VtNone /\ vtCards[f].says = vtServer[vtCookie][f]
  /\ vtDialog.field = f => vtCookie # VtNone /\ vtDialog.opened = vtServer[vtCookie][f].note
VtShows(f) ==
  /\ (\A r \in vtNet : r.kind = "set" /\ r.field = f => ~r.done) => VtIsRight(f)
  /\ vtDialog.field = f => vtCache[f] # VtNone /\ \A r \in vtNet : r.kind = "set" /\ r.field = f => r.asked

VtInv == VtTyped /\ VtOneSession /\ VtWrites /\ \A f \in VtFields \ vtCrossed : VtBrings(f) /\ VtShows(f)

LEMMA VtBegins == VtInit => VtInv
<1> SUFFICES ASSUME VtInit PROVE VtInv
  OBVIOUS
<1>1. VtTyped
  <2>1. vtServer \in Seq([VtFields -> VtSummaries])
    BY DEF VtInit
  <2>2. vtCache \in [VtFields -> VtSummaries \cup {VtNone}] /\ vtCards \in [VtFields -> VtCardStates]
    BY DEF VtInit, Card, VtCardStates
  <2>3. vtDialog \in VtDialogs
    BY DEF VtInit, NoDialog, VtDialogs, VtNotes
  <2> QED BY <2>1, <2>2, <2>3 DEF VtInit, VtTyped
<1>2. \A f \in VtFields : VtNone # f
  BY VotesAssumption
<1> QED BY <1>1, <1>2 DEF VtInit, VtInv, VtOneSession, VtWrites, VtBrings, VtShows, VtIsRight, Card, NoDialog

-----------------------------------------------------------------------------
(* Requests that are sent and kept.                                        *)

\* A request with a number.
VtNumber(r, i) == [r EXCEPT !.id = i]

\* What is posted was there or is new.
LEMMA VtPosts ==
  ASSUME NEW net, NEW fields, NEW Q
  PROVE  /\ net \subseteq Posted(net, fields, Q)
         /\ \A q \in Posted(net, fields, Q) : q \in net \/ \E f \in fields : \E i : q = VtNumber(Q[f], i)
         /\ \A f \in fields : \E i : VtNumber(Q[f], i) \in Posted(net, fields, Q)
<1> DEFINE id(f) == CHOOSE i \in 1 .. VtRequests : \A r \in net : <<r.kind, r.field, r.id>> # <<Q[f].kind, f, i>>
           new(f) == [Q[f] EXCEPT !.id = id(f)]
<1>1. Posted(net, fields, Q) = net \cup {new(f) : f \in fields}
  BY DEF Posted
<1>2. \A f \in fields : \E i : new(f) = VtNumber(Q[f], i)
  BY DEF VtNumber
<1> HIDE DEF new
<1> QED BY <1>1, <1>2

\* Two requests that are alike in everything but what they were made for.
VtKin(q, r) ==
  /\ q \in VtMessages(q.id) /\ q.kind = r.kind /\ q.field = r.field /\ q.vote = r.vote /\ q.note = r.note
  /\ q.as = r.as /\ q.rest = r.rest /\ q.was = r.was /\ q.done = r.done /\ q.result = r.result /\ q.made = r.made

\* A number makes no difference.
LEMMA VtNumbered ==
  ASSUME NEW j, NEW r \in VtMessages(j), NEW i
  PROVE  VtKin(VtNumber(r, i), r) /\ VtNumber(r, i).asked = r.asked
<1> DEFINE q == VtNumber(r, i)
<1>1. q \in VtMessages(i)
  BY DEF VtMessages, VtNumber
<1>2. /\ q.id = i /\ q.kind = r.kind /\ q.field = r.field /\ q.vote = r.vote /\ q.note = r.note
      /\ q.as = r.as /\ q.rest = r.rest /\ q.was = r.was /\ q.done = r.done /\ q.result = r.result /\ q.made = r.made
      /\ q.asked = r.asked
  BY DEF VtMessages, VtNumber
<1> HIDE DEF q
<1>3. VtKin(q, r) /\ q.asked = r.asked
  BY <1>1, <1>2 DEF VtKin
<1> QED BY <1>3 DEF q

\* A read that goes out for the session it is given.
VtFresh(q, cookie) ==
  /\ q \in VtMessages(q.id) /\ q.kind = "get" /\ q.as = cookie /\ q.note = VtNone
  /\ q.was = VtNone /\ ~q.done /\ q.made = VtNone
LEMMA VtGetTyped ==
  ASSUME NEW f \in VtFields, NEW rest \in SUBSET VtFields, vtCookie \in Nat \cup {VtNone}
  PROVE  VtGet(f, rest) \in VtMessages(0) /\ VtFresh(VtGet(f, rest), vtCookie) /\ VtGet(f, rest).field = f
         /\ VtGet(f, rest).rest = rest /\ VtGet(f, rest).asked = FALSE /\ VtGet(f, rest).drawn = TRUE
<1>1. 0 \in VtVotes
  BY DEF VtVotes
<1>2. VtGet(f, rest) \in VtMessages(0)
  BY <1>1 DEF VtMessages, VtGet
<1>3. VtGet(f, rest).id = 0
  BY DEF VtGet
<1>4. VtFresh(VtGet(f, rest), vtCookie)
  BY <1>2, <1>3 DEF VtFresh, VtGet
<1> QED BY <1>2, <1>4 DEF VtGet

LEMMA VtReadIsFresh ==
  ASSUME NEW r \in VtMessages(0), NEW cookie, VtFresh(r, cookie), NEW i
  PROVE  VtFresh(VtNumber(r, i), cookie) /\ VtNumber(r, i).field = r.field
<1>1. VtKin(VtNumber(r, i), r)
  BY VtNumbered
<1> QED BY <1>1 DEF VtKin, VtFresh

\* The reads that go out for a session.
LEMMA VtReadsPosted ==
  ASSUME NEW net, NEW fields, NEW Q, NEW cookie, \A f \in fields : Q[f] \in VtMessages(0) /\ VtFresh(Q[f], cookie)
  PROVE  net \subseteq Posted(net, fields, Q) /\ \A q \in Posted(net, fields, Q) : q \in net \/ VtFresh(q, cookie)
<1>1. net \subseteq Posted(net, fields, Q)
  BY VtPosts
<1>2. ASSUME NEW q \in Posted(net, fields, Q), q \notin net
      PROVE  \E f \in fields : \E i : q = VtNumber(Q[f], i)
  BY <1>2, VtPosts
<1>3. ASSUME NEW f \in fields, NEW i PROVE VtFresh(VtNumber(Q[f], i), cookie)
  BY <1>3, VtReadIsFresh
<1> QED BY <1>1, <1>2, <1>3

VtKept(kept) ==
  /\ \A q \in kept : \E r \in vtNet : VtKin(q, r)
  /\ \A r \in vtNet : \E q \in kept : VtKin(q, r)
  /\ \A q, p \in kept : q.kind = "set" /\ p.kind = "set" /\ q.field = p.field => q = p

LEMMA VtUnseenKept ==
  ASSUME VtTyped, VtWrites
  PROVE  VtKept(Unseen(vtNet)) /\ \A q \in Unseen(vtNet) : \E r \in vtNet : VtKin(q, r) /\ q.asked = r.asked
<1> DEFINE kin(r) == [r EXCEPT !.drawn = FALSE]
<1>1. ASSUME NEW r \in vtNet PROVE VtKin(kin(r), r) /\ kin(r).asked = r.asked
  <2>1. r \in VtMessages(r.id)
    BY DEF VtTyped
  <2>2. kin(r) \in VtMessages(r.id)
    BY <2>1 DEF VtMessages
  <2>3. /\ kin(r).id = r.id /\ kin(r).kind = r.kind /\ kin(r).field = r.field /\ kin(r).vote = r.vote
        /\ kin(r).note = r.note /\ kin(r).as = r.as /\ kin(r).rest = r.rest /\ kin(r).was = r.was
        /\ kin(r).done = r.done /\ kin(r).result = r.result /\ kin(r).made = r.made /\ kin(r).asked = r.asked
    BY <2>1 DEF VtMessages
  <2> HIDE DEF kin
  <2> QED BY <2>2, <2>3 DEF VtKin
<1>2. Unseen(vtNet) = {kin(r) : r \in vtNet}
  BY DEF Unseen
<1> HIDE DEF kin
<1>3. ASSUME NEW q \in Unseen(vtNet), NEW p \in Unseen(vtNet), q.kind = "set", p.kind = "set", q.field = p.field
      PROVE  q = p
  <2>1. PICK r \in vtNet, t \in vtNet : q = kin(r) /\ p = kin(t)
    BY <1>2
  <2>2. r = t
    BY <1>1, <1>3, <2>1 DEF VtWrites, VtKin
  <2> QED BY <2>1, <2>2
<1> QED BY <1>1, <1>2, <1>3 DEF VtKept

LEMMA VtUnaskedKept ==
  ASSUME VtTyped, VtWrites
  PROVE  VtKept(Unasked(vtNet))
<1> DEFINE kin(r) == [r EXCEPT !.asked = FALSE]
<1>1. ASSUME NEW r \in vtNet PROVE VtKin(kin(r), r)
  <2>1. r \in VtMessages(r.id)
    BY DEF VtTyped
  <2>2. kin(r) \in VtMessages(r.id)
    BY <2>1 DEF VtMessages
  <2>3. /\ kin(r).id = r.id /\ kin(r).kind = r.kind /\ kin(r).field = r.field /\ kin(r).vote = r.vote
        /\ kin(r).note = r.note /\ kin(r).as = r.as /\ kin(r).rest = r.rest /\ kin(r).was = r.was
        /\ kin(r).done = r.done /\ kin(r).result = r.result /\ kin(r).made = r.made
    BY <2>1 DEF VtMessages
  <2> HIDE DEF kin
  <2> QED BY <2>2, <2>3 DEF VtKin
<1>2. Unasked(vtNet) = {kin(r) : r \in vtNet}
  BY DEF Unasked
<1> HIDE DEF kin
<1>3. ASSUME NEW q \in Unasked(vtNet), NEW p \in Unasked(vtNet), q.kind = "set", p.kind = "set", q.field = p.field
      PROVE  q = p
  <2>1. PICK r \in vtNet, t \in vtNet : q = kin(r) /\ p = kin(t)
    BY <1>2
  <2>2. r = t
    BY <1>1, <1>3, <2>1 DEF VtWrites, VtKin
  <2> QED BY <2>1, <2>2
<1> QED BY <1>1, <1>2, <1>3 DEF VtKept

LEMMA VtAllKept == ASSUME VtTyped, VtWrites PROVE VtKept(vtNet)
BY DEF VtTyped, VtKept, VtKin, VtWrites

\* Requests that are kept, with reads beside them, are as good as before.
LEMMA VtReading ==
  ASSUME VtInv, vtCrossed = {}, UNCHANGED <<vtServer, vtCookie, vtPending, vtCrossed>>,
         NEW kept, VtKept(kept), kept \subseteq vtNet', \A q \in vtNet' : q \in kept \/ VtFresh(q, vtCookie)
  PROVE  /\ \A r \in vtNet' : r \in VtMessages(r.id)
         /\ VtOneSession' /\ VtWrites' /\ \A f \in VtFields : VtBrings(f)'
<1>1. \A r \in vtNet' : r \in VtMessages(r.id)
  BY DEF VtKept, VtKin, VtFresh
<1>2. vtCrossed # VtFields
  BY VotesAssumption
<1>3. VtOneSession'
  <2> SUFFICES ASSUME NEW q \in vtNet'
               PROVE  /\ q.as # VtNone => q.as = vtCookie
                      /\ q.made # VtNone <=> q.done /\ q.as = VtNone
                      /\ q.made # VtNone => q.made \in 1 .. Len(vtServer)
    BY DEF VtOneSession
  <2>1. CASE q \in kept
    <3>1. PICK r \in vtNet : VtKin(q, r)
      BY <2>1 DEF VtKept
    <3> QED BY <1>2, <3>1 DEF VtInv, VtOneSession, VtKin
  <2>2. CASE VtFresh(q, vtCookie)
    BY <2>2 DEF VtFresh
  <2> QED BY <2>1, <2>2
<1>4. VtWrites'
  <2>1. ASSUME NEW f \in VtFields
        PROVE  f \in vtPending' <=> \E r \in vtNet' : r.kind = "set" /\ r.field = f
    BY DEF VtInv, VtWrites, VtKept, VtKin, VtFresh
  <2>2. ASSUME NEW r \in vtNet', NEW q \in vtNet', r.kind = "set", q.kind = "set", r.field = q.field
        PROVE  r = q
    BY <2>2 DEF VtKept, VtFresh
  <2> QED BY <2>1, <2>2 DEF VtWrites
<1>5. ASSUME NEW f \in VtFields PROVE VtBrings(f)'
  <2>1. VtBrings(f)
    BY DEF VtInv
  <2> SUFFICES ASSUME NEW q \in vtNet', q.field = f
               PROVE  /\ q.done => q.result = vtServer[VtWho(q)][f]
                      /\ q.kind = "set" /\ q.note # VtNone => q.as # VtNone /\ q.vote = vtServer[q.as][f].vote
                      /\ ~q.done /\ q.was # VtNone => vtCookie # VtNone /\ q.was = vtServer[vtCookie][f]
                      /\ IF q.kind = "get" THEN q.was = VtNone ELSE q.rest = {}
    BY DEF VtBrings, VtWho
  <2>2. CASE q \in kept
    <3>1. PICK r \in vtNet : VtKin(q, r)
      BY <2>2 DEF VtKept
    <3>2. VtWho(q) = VtWho(r)
      BY <3>1 DEF VtKin, VtWho
    <3> QED BY <2>1, <3>1, <3>2 DEF VtBrings, VtKin
  <2>3. CASE VtFresh(q, vtCookie)
    BY <2>3 DEF VtFresh
  <2> QED BY <2>2, <2>3
<1> QED BY <1>1, <1>3, <1>4, <1>5

\* While no write of a field is done afterwards, none was before.
LEMMA VtQuiet ==
  ASSUME NEW kept, VtKept(kept), kept \subseteq vtNet', NEW f, \A r \in vtNet' : r.kind = "set" /\ r.field = f => ~r.done
  PROVE  \A r \in vtNet : r.kind = "set" /\ r.field = f => ~r.done
BY DEF VtKept, VtKin

\* The dialog, once shut, is on no field.
LEMMA VtShut == Clickable => \A f \in VtFields : vtDialog.field # f
BY VotesAssumption DEF Clickable

-----------------------------------------------------------------------------
(* What the visitor does.                                                  *)

LEMMA VtDrawn ==
  ASSUME VtInv, vtCrossed = {}, NEW cards, NEW reads \in SUBSET VtFields, NEW rest \in SUBSET VtFields,
         DrawCards(cards, reads, rest), cards \in [VtFields -> VtCardStates],
         \A f \in VtFields : cards[f].is = "rated" => vtCache[f] # VtNone /\ cards[f].says = vtCache[f]
  PROVE  VtInv'
<1> DEFINE kept == Unseen(vtNet)
           Q == [f \in reads |-> VtGet(f, rest)]
<1>1. /\ vtNet' = Posted(kept, reads, Q) /\ vtCards' = cards /\ Clickable
      /\ UNCHANGED <<vtGame, vtServer, vtCookie, vtCache, vtPending, vtDialog, vtCrossed>>
  BY DEF DrawCards
<1>2. VtTyped /\ VtWrites /\ vtCookie \in Nat \cup {VtNone}
  BY DEF VtInv, VtTyped
<1>3. VtKept(kept)
  BY <1>2, VtUnseenKept
<1>4. ASSUME NEW f \in reads PROVE Q[f] \in VtMessages(0) /\ VtFresh(Q[f], vtCookie)
  <2>1. Q[f] = VtGet(f, rest) /\ f \in VtFields
    OBVIOUS
  <2> HIDE DEF Q
  <2>2. VtGet(f, rest) \in VtMessages(0) /\ VtFresh(VtGet(f, rest), vtCookie)
    BY <1>2, <2>1, VtGetTyped
  <2> QED BY <2>1, <2>2
<1> HIDE DEF kept, Q
<1>5. kept \subseteq vtNet' /\ \A q \in vtNet' : q \in kept \/ VtFresh(q, vtCookie)
  <2>1. /\ kept \subseteq Posted(kept, reads, Q)
        /\ \A q \in Posted(kept, reads, Q) : q \in kept \/ VtFresh(q, vtCookie)
    BY <1>4, VtReadsPosted
  <2> QED BY <1>1, <2>1
<1>6. /\ \A r \in vtNet' : r \in VtMessages(r.id)
      /\ VtOneSession' /\ VtWrites' /\ \A f \in VtFields : VtBrings(f)'
  BY <1>1, <1>3, <1>5, VtReading
<1>7. VtTyped'
  BY <1>1, <1>2, <1>6 DEF VtTyped
<1>8. ASSUME NEW f \in VtFields PROVE VtShows(f)'
  <2>1. vtDialog.field # f
    BY <1>1, VtShut
  <2>2. ASSUME \A r \in vtNet' : r.kind = "set" /\ r.field = f => ~r.done PROVE VtIsRight(f)'
    <3>1. VtIsRight(f)
      BY <1>3, <1>5, <2>2, VtQuiet DEF VtInv, VtShows
    <3> QED BY <1>1, <2>1, <3>1 DEF VtIsRight
  <2> QED BY <1>1, <2>1, <2>2 DEF VtShows
<1> QED BY <1>6, <1>7, <1>8 DEF VtInv

\* A card as it is drawn.
LEMMA VtCardTyped ==
  /\ \A is \in {"none", "blank"} : Card(is) \in VtCardStates /\ Card(is).is = is
  /\ \A summary \in VtSummaries : Rated(summary) \in VtCardStates /\ Rated(summary).is = "rated" /\ Rated(summary).says = summary
BY DEF Card, Rated, VtCardStates

LEMMA VtRefreshed ==
  ASSUME VtInv, vtCrossed = {}, NEW fields \in SUBSET VtFields \ {{}}, RefreshCatalogVotes(fields)
  PROVE  VtInv'
<1> DEFINE first == CHOOSE f \in fields : \A g \in fields : f <= g
           missing == {f \in fields : vtCache[f] = VtNone}
           waits == first \in missing
           shows(f) == IF f \notin fields THEN Card("none")
                       ELSE IF waits \/ f \in missing THEN Card("blank") ELSE Rated(vtCache[f])
           cards == [f \in VtFields |-> shows(f)]
           reads == IF waits THEN {first} ELSE missing
           rest == IF waits THEN fields \ {first} ELSE {}
<1>1. DrawCards(cards, reads, rest)
  BY DEF RefreshCatalogVotes
<1>2. reads \in SUBSET VtFields /\ rest \in SUBSET VtFields
  OBVIOUS
<1>3. ASSUME NEW f \in VtFields
      PROVE  shows(f) \in VtCardStates /\ (shows(f).is = "rated" => vtCache[f] # VtNone /\ shows(f).says = vtCache[f])
  <2>1. CASE f \notin fields
    BY <2>1, VtCardTyped
  <2>2. CASE f \in fields /\ (waits \/ f \in missing)
    BY <2>2, VtCardTyped
  <2>3. CASE f \in fields /\ ~waits /\ f \notin missing
    <3>1. vtCache[f] # VtNone /\ vtCache[f] \in VtSummaries
      BY <2>3 DEF VtInv, VtTyped
    <3>2. shows(f) = Rated(vtCache[f])
      BY <2>3
    <3> QED BY <3>1, <3>2, VtCardTyped
  <2> QED BY <2>1, <2>2, <2>3
<1> HIDE DEF reads, rest, shows
<1>4. cards \in [VtFields -> VtCardStates]
  BY <1>3
<1>5. \A f \in VtFields : cards[f].is = "rated" => vtCache[f] # VtNone /\ cards[f].says = vtCache[f]
  BY <1>3
<1> HIDE DEF cards
<1> QED BY <1>1, <1>2, <1>4, <1>5, VtDrawn

LEMMA VtRendered == ASSUME VtInv, vtCrossed = {}, RenderCatalog PROVE VtInv'
<1> DEFINE cards == [f \in VtFields |-> Card("blank")]
<1>1. DrawCards(cards, VtFields, {})
  BY DEF RenderCatalog
<1>2. cards \in [VtFields -> VtCardStates] /\ \A f \in VtFields : cards[f].is # "rated"
  BY VtCardTyped
<1> HIDE DEF cards
<1> QED BY <1>1, <1>2, VtDrawn

\* A write of a field as it goes out.
VtSends(w, f, vote, note, asked) ==
  /\ w \in VtMessages(w.id) /\ w.kind = "set" /\ w.field = f /\ ~w.done /\ w.as = vtCookie /\ w.made = VtNone
  /\ w.rest = {} /\ w.note = note /\ w.vote = vote /\ w.asked = asked /\ w.was \in {VtNone, vtCache[f]}

\* One goes out for a field that has none.
LEMMA VtWriting ==
  ASSUME VtInv, vtCrossed = {}, NEW f \in VtFields \ vtPending, NEW vote, NEW note, NEW asked, NEW w,
         VtSends(w, f, vote, note, asked), vtNet' = vtNet \cup {w},
         w.note # VtNone => vtCookie # VtNone /\ w.vote = vtServer[vtCookie][f].vote,
         w.was # VtNone => vtCookie # VtNone /\ w.was = vtServer[vtCookie][f],
         vtPending' = vtPending \cup {f},
         UNCHANGED <<vtServer, vtCookie, vtCache, vtCards, vtCrossed>>, vtDialog' \in VtDialogs,
         vtDialog'.field = vtDialog.field /\ vtDialog'.opened = vtDialog.opened,
         vtDialog.field = f => w.asked
  PROVE  VtInv'
<1> USE DEF VtSends
<1>1. vtCrossed # VtFields
  BY VotesAssumption
<1>2. VtTyped'
  BY DEF VtInv, VtTyped
<1>3. VtOneSession'
  BY <1>1 DEF VtInv, VtOneSession
<1>4. \A r \in vtNet : r.kind = "set" => r.field # f
  BY DEF VtInv, VtWrites
<1>5. VtWrites'
  <2>1. ASSUME NEW g \in VtFields PROVE g \in vtPending' <=> \E r \in vtNet' : r.kind = "set" /\ r.field = g
    BY DEF VtInv, VtWrites
  <2>2. ASSUME NEW r \in vtNet', NEW q \in vtNet', r.kind = "set", q.kind = "set", r.field = q.field PROVE r = q
    BY <1>4, <2>2 DEF VtInv, VtWrites
  <2> QED BY <2>1, <2>2 DEF VtWrites
<1>6. ASSUME NEW g \in VtFields PROVE VtBrings(g)'
  <2>1. VtBrings(g)
    BY DEF VtInv
  <2> QED BY <2>1 DEF VtBrings, VtWho
<1>7. ASSUME NEW g \in VtFields PROVE VtShows(g)'
  <2>1. VtShows(g)
    BY DEF VtInv
  <2>2. ASSUME \A r \in vtNet' : r.kind = "set" /\ r.field = g => ~r.done PROVE VtIsRight(g)'
    <3>1. VtIsRight(g)
      BY <2>1, <2>2 DEF VtShows
    <3> QED BY <3>1 DEF VtIsRight
  <2>3. vtDialog'.field = g => vtCache[g] # VtNone /\ \A r \in vtNet' : r.kind = "set" /\ r.field = g => r.asked
    BY <2>1 DEF VtShows
  <2> QED BY <2>2, <2>3 DEF VtShows
<1> QED BY <1>2, <1>3, <1>5, <1>6, <1>7 DEF VtInv

\* This is what is posted.
LEMMA VtWriteSent ==
  ASSUME NEW f \in VtFields, NEW vote \in VtVotes, NEW note \in VtNotes \cup {VtNone}, NEW asked \in BOOLEAN,
         NEW Q, Q[f] = VtSet(f, vote, note, asked), VtTyped
  PROVE  \E w : VtSends(w, f, vote, note, asked) /\ Posted(vtNet, {f}, Q) = vtNet \cup {w}
<1> DEFINE was == IF vtGame = "smilefall" \/ asked THEN VtNone ELSE vtCache[f]
           write == VtSet(f, vote, note, asked)
<1>1. was \in VtSummaries \cup {VtNone} /\ was \in {VtNone, vtCache[f]} /\ vtCookie \in Nat \cup {VtNone}
  BY DEF VtTyped
<1>2. write = [id |-> 0, kind |-> "set", field |-> f, vote |-> vote, note |-> note, as |-> vtCookie,
               rest |-> {}, drawn |-> TRUE, asked |-> asked, was |-> was, done |-> FALSE, result |-> VtNone,
               made |-> VtNone]
  <2> DEFINE read == VtGet(f, {})
             kind == "set"
  <2>1. read = [id |-> 0, kind |-> "get", field |-> f, vote |-> 0, note |-> VtNone, as |-> vtCookie,
                rest |-> {}, drawn |-> TRUE, asked |-> FALSE, was |-> VtNone, done |-> FALSE, result |-> VtNone,
                made |-> VtNone]
    BY DEF VtGet
  <2>2. write = [read EXCEPT !.kind = kind, !.vote = vote, !.note = note, !.asked = asked, !.was = was]
    BY DEF VtSet
  <2> HIDE DEF read, was, write
  <2> QED BY <2>1, <2>2
<1> HIDE DEF was, write
<1>3. write \in VtMessages(0)
  <2>1. {} \in SUBSET VtFields
    OBVIOUS
  <2> QED BY <1>1, <1>2, <2>1 DEF VtMessages
<1>4. /\ write.kind = "set" /\ write.vote = vote /\ write.note = note /\ write.asked = asked /\ write.was = was
      /\ ~write.done /\ write.as = vtCookie /\ write.made = VtNone /\ write.rest = {} /\ write.field = f
  BY <1>2
<1>5. \E i : Posted(vtNet, {f}, Q) = vtNet \cup {VtNumber(write, i)}
  <2>1. Q[f] = write
    BY DEF write
  <2> DEFINE id == CHOOSE i \in 1 .. VtRequests : \A r \in vtNet : <<r.kind, r.field, r.id>> # <<write.kind, f, i>>
  <2>2. Posted(vtNet, {f}, Q) = vtNet \cup {[write EXCEPT !.id = id]}
    BY <2>1 DEF Posted
  <2>3. Posted(vtNet, {f}, Q) = vtNet \cup {VtNumber(write, id)}
    BY <2>2 DEF VtNumber
  <2> HIDE DEF id
  <2> QED BY <2>3
<1>6. PICK i : Posted(vtNet, {f}, Q) = vtNet \cup {VtNumber(write, i)}
  BY <1>5
<1> DEFINE w == VtNumber(write, i)
<1>7. VtKin(w, write) /\ w.asked = write.asked
  BY <1>3, VtNumbered
<1>8. Posted(vtNet, {f}, Q) = vtNet \cup {w}
  BY <1>6
<1> HIDE DEF w
<1>9. VtSends(w, f, vote, note, asked)
  BY <1>1, <1>4, <1>7 DEF VtKin, VtSends
<1> QED BY <1>8, <1>9

LEMMA VtCast ==
  ASSUME VtInv, vtCrossed = {}, NEW f \in VtFields, NEW value \in VtValues, CastVote(f, value)
  PROVE  VtInv'
<1>1. /\ Clickable /\ f \notin vtPending /\ vtPending' = vtPending \cup {f}
      /\ vtNet' = Posted(vtNet, {f}, [g \in {f} |-> VtSet(f, Toggled(f, value), VtNone, FALSE)])
      /\ UNCHANGED <<vtGame, vtServer, vtCookie, vtCache, vtCards, vtDialog, vtCrossed>>
  BY DEF CastVote, VtIdle
<1>2. Toggled(f, value) \in VtVotes
  BY DEF Toggled, VtVotes
<1>3. PICK w : VtSends(w, f, Toggled(f, value), VtNone, FALSE) /\ vtNet' = vtNet \cup {w}
  <2> DEFINE vote == Toggled(f, value)
             asked == FALSE
             Q == [g \in {f} |-> VtSet(f, vote, VtNone, asked)]
  <2>1. /\ Q[f] = VtSet(f, vote, VtNone, asked) /\ vtNet' = Posted(vtNet, {f}, Q)
        /\ vote \in VtVotes /\ asked \in BOOLEAN
    BY <1>1, <1>2
  <2>2. VtTyped
    BY DEF VtInv
  <2> HIDE DEF vote, asked, Q
  <2>3. \E w : VtSends(w, f, vote, VtNone, asked) /\ Posted(vtNet, {f}, Q) = vtNet \cup {w}
    BY <2>1, <2>2, VtWriteSent
  <2>4. \E w : VtSends(w, f, vote, VtNone, asked) /\ vtNet' = vtNet \cup {w}
    BY <2>1, <2>3
  <2> QED BY <2>4 DEF vote, asked
<1>4. VtIsRight(f)
  BY <1>1 DEF VtInv, VtShows, VtWrites
<1>5. vtDialog.field # f /\ vtDialog \in VtDialogs
  BY <1>1, VtShut DEF VtInv, VtTyped
<1>6. w.was # VtNone => vtCookie # VtNone /\ w.was = vtServer[vtCookie][f]
  BY <1>3, <1>4 DEF VtIsRight, VtSends
<1>7. /\ vtDialog' \in VtDialogs /\ vtDialog'.field = vtDialog.field /\ vtDialog'.opened = vtDialog.opened
      /\ UNCHANGED <<vtServer, vtCookie, vtCache, vtCards, vtCrossed>>
  BY <1>1, <1>5
<1>8. w.note = VtNone
  BY <1>3 DEF VtSends
<1> QED BY <1>1, <1>3, <1>5, <1>6, <1>7, <1>8, VtWriting

LEMMA VtNoteSent ==
  ASSUME VtInv, vtCrossed = {}, NEW text \in VtNotes, SubmitNote(text)
  PROVE  VtInv'
<1> DEFINE f == vtDialog.field
<1>1. /\ ~Clickable /\ f \notin vtPending /\ vtPending' = vtPending \cup {f} /\ vtDialog' = [vtDialog EXCEPT !.busy = TRUE]
      /\ vtNet' = Posted(vtNet, {f}, [g \in {f} |-> VtSet(f, vtCache[f].vote, text, TRUE)])
      /\ UNCHANGED <<vtGame, vtServer, vtCookie, vtCache, vtCards, vtCrossed>>
  BY DEF SubmitNote, VtIdle
<1>2. f \in VtFields /\ vtDialog \in VtDialogs
  BY <1>1 DEF VtInv, VtTyped, VtDialogs, Clickable
<1>3. vtDialog' \in VtDialogs /\ vtDialog'.field = f /\ vtDialog'.opened = vtDialog.opened
  BY <1>1, <1>2 DEF VtDialogs
<1>4. VtIsRight(f) /\ vtCache[f] # VtNone
  BY <1>1, <1>2 DEF VtInv, VtShows, VtWrites
<1>5. vtCache[f] \in VtSummaries
  BY <1>2, <1>4 DEF VtInv, VtTyped
<1>6. vtCache[f].vote \in VtVotes
  BY <1>5 DEF VtSummaries
<1>7. PICK w : VtSends(w, f, vtCache[f].vote, text, TRUE) /\ vtNet' = vtNet \cup {w}
  <2> DEFINE vote == vtCache[f].vote
             asked == TRUE
             Q == [g \in {f} |-> VtSet(f, vote, text, asked)]
  <2>1. /\ Q[f] = VtSet(f, vote, text, asked) /\ vtNet' = Posted(vtNet, {f}, Q)
        /\ vote \in VtVotes /\ f \in VtFields /\ asked \in BOOLEAN
    BY <1>1, <1>2, <1>6
  <2>2. VtTyped
    BY DEF VtInv
  <2> HIDE DEF vote, asked, Q, f
  <2>3. \E w : VtSends(w, f, vote, text, asked) /\ Posted(vtNet, {f}, Q) = vtNet \cup {w}
    BY <2>1, <2>2, VtWriteSent
  <2>4. \E w : VtSends(w, f, vote, text, asked) /\ vtNet' = vtNet \cup {w}
    BY <2>1, <2>3
  <2> QED BY <2>4 DEF vote, asked
<1> HIDE DEF f
<1>8. vtDialog.field = f
  BY DEF f
<1>9. /\ w.was # VtNone => vtCookie # VtNone /\ w.was = vtServer[vtCookie][f]
      /\ w.note # VtNone => vtCookie # VtNone /\ w.vote = vtServer[vtCookie][f].vote
  BY <1>4, <1>7 DEF VtIsRight, VtSends
<1>10. /\ vtDialog' \in VtDialogs /\ vtDialog'.field = vtDialog.field /\ vtDialog'.opened = vtDialog.opened
       /\ UNCHANGED <<vtServer, vtCookie, vtCache, vtCards, vtCrossed>>
  BY <1>1, <1>3, <1>8
<1>11. w.asked
  BY <1>7 DEF VtSends
<1> QED BY <1>1, <1>2, <1>7, <1>8, <1>9, <1>10, <1>11, VtWriting

LEMMA VtOpened ==
  ASSUME VtInv, vtCrossed = {}, NEW f \in VtFields, OpenNote(f)
  PROVE  VtInv'
<1>1. /\ vtCache[f] # VtNone /\ f \notin vtPending /\ vtNet' = Unasked(vtNet)
      /\ vtDialog' = [field |-> f, opened |-> vtCache[f].note, busy |-> FALSE]
      /\ UNCHANGED <<vtGame, vtServer, vtCookie, vtCache, vtCards, vtPending, vtCrossed>>
  BY DEF OpenNote, VtIdle
<1>2. VtTyped /\ VtWrites
  BY DEF VtInv
<1>3. VtKept(vtNet')
  BY <1>1, <1>2, VtUnaskedKept
<1>4. /\ \A r \in vtNet' : r \in VtMessages(r.id)
      /\ VtOneSession' /\ VtWrites' /\ \A g \in VtFields : VtBrings(g)'
  BY <1>1, <1>3, VtReading
<1>5. vtCache[f] \in VtSummaries
  BY <1>1 DEF VtInv, VtTyped
<1>6. vtDialog' \in VtDialogs /\ vtDialog'.field = f /\ vtDialog'.opened = vtCache[f].note
  BY <1>1, <1>5 DEF VtDialogs, VtSummaries
<1>7. VtTyped'
  BY <1>1, <1>2, <1>4, <1>6 DEF VtTyped
<1>8. ASSUME NEW g \in VtFields PROVE VtShows(g)'
  <2>1. ASSUME \A r \in vtNet' : r.kind = "set" /\ r.field = g => ~r.done PROVE VtIsRight(g)'
    <3>1. VtIsRight(g)
      BY <1>3, <2>1, VtQuiet DEF VtInv, VtShows
    <3> QED BY <1>1, <1>6, <3>1 DEF VtIsRight
  <2>2. \A r \in vtNet' : ~(r.kind = "set" /\ r.field = f)
    BY <1>1, <1>4 DEF VtWrites
  <2> QED BY <1>1, <1>6, <2>1, <2>2 DEF VtShows
<1> QED BY <1>4, <1>7, <1>8 DEF VtInv

LEMMA VtClosed == ASSUME VtInv, vtCrossed = {}, CloseNote PROVE VtInv'
<1>1. /\ vtNet' = Unasked(vtNet) /\ vtDialog' = NoDialog
      /\ UNCHANGED <<vtGame, vtServer, vtCookie, vtCache, vtCards, vtPending, vtCrossed>>
  BY DEF CloseNote
<1>2. VtTyped /\ VtWrites
  BY DEF VtInv
<1>3. VtKept(vtNet')
  BY <1>1, <1>2, VtUnaskedKept
<1>4. /\ \A r \in vtNet' : r \in VtMessages(r.id)
      /\ VtOneSession' /\ VtWrites' /\ \A g \in VtFields : VtBrings(g)'
  BY <1>1, <1>3, VtReading
<1>5. vtDialog' \in VtDialogs /\ \A g \in VtFields : vtDialog'.field # g
  BY <1>1, VotesAssumption DEF VtDialogs, NoDialog, VtNotes
<1>6. VtTyped'
  BY <1>1, <1>2, <1>4, <1>5 DEF VtTyped
<1>7. ASSUME NEW g \in VtFields PROVE VtShows(g)'
  <2>1. ASSUME \A r \in vtNet' : r.kind = "set" /\ r.field = g => ~r.done PROVE VtIsRight(g)'
    <3>1. VtIsRight(g)
      BY <1>3, <2>1, VtQuiet DEF VtInv, VtShows
    <3> QED BY <1>1, <1>5, <3>1 DEF VtIsRight
  <2> QED BY <1>5, <2>1 DEF VtShows
<1> QED BY <1>4, <1>6, <1>7 DEF VtInv

-----------------------------------------------------------------------------
(* What the platform does.                                                 *)

\* What a request leaves of the platform's sessions: a write changes one field of
\* the session it speaks for, and nothing else changes.
VtServed(r, who, mine) ==
  /\ vtServer' \in Seq([VtFields -> VtSummaries]) /\ Len(vtServer) <= Len(vtServer')
  /\ who \in 1 .. Len(vtServer') /\ vtServer'[who][r.field] = mine
  /\ \A x \in 1 .. Len(vtServer), h \in VtFields :
       (r.kind = "set" /\ x = r.as /\ h = r.field) \/ vtServer'[x][h] = vtServer[x][h]
VtMine(r) ==
  IF r.kind = "get" THEN Held(r)[r.field]
  ELSE [vote |-> r.vote, note |-> IF r.note = VtNone THEN Held(r)[r.field].note ELSE r.note]

LEMMA VtHeld ==
  ASSUME VtInv, vtCrossed = {}, NEW r \in vtNet
  PROVE  /\ Held(r) \in [VtFields -> VtSummaries] /\ VtMine(r) \in VtSummaries
         /\ r.as # VtNone => r.as \in 1 .. Len(vtServer)
         /\ r.kind = "set" => VtMine(r).vote = r.vote
<1>1. r \in VtMessages(r.id) /\ vtServer \in Seq([VtFields -> VtSummaries])
  BY DEF VtInv, VtTyped
<1>2. /\ r.field \in VtFields /\ r.vote \in VtVotes /\ r.note \in VtNotes \cup {VtNone} /\ r.kind \in {"get", "set"}
  BY <1>1 DEF VtMessages
<1>3. r.as # VtNone => r.as \in 1 .. Len(vtServer)
  BY VotesAssumption DEF VtInv, VtTyped, VtOneSession
<1>4. Unrated \in VtSummaries
  BY DEF Unrated, VtSummaries, VtVotes, VtNotes
<1>5. Held(r) \in [VtFields -> VtSummaries]
  BY <1>1, <1>3, <1>4 DEF Held
<1>6. Held(r)[r.field] \in VtSummaries
  BY <1>2, <1>5
<1> DEFINE note == IF r.note = VtNone THEN Held(r)[r.field].note ELSE r.note
<1>7. note \in VtNotes
  BY <1>2, <1>6 DEF VtSummaries
<1> HIDE DEF note
<1>8. [vote |-> r.vote, note |-> note] \in VtSummaries
  BY <1>2, <1>7 DEF VtSummaries
<1>9. VtMine(r) = IF r.kind = "get" THEN Held(r)[r.field] ELSE [vote |-> r.vote, note |-> note]
  BY DEF VtMine, note
<1>10. VtMine(r) \in VtSummaries /\ (r.kind = "set" => VtMine(r).vote = r.vote)
  BY <1>6, <1>8, <1>9
<1> QED BY <1>3, <1>5, <1>10

LEMMA VtServes ==
  ASSUME VtInv, vtCrossed = {}, NEW r, CarryOut(r)
  PROVE  VtServed(r, Visitor(r), VtMine(r))
<1> DEFINE mine == VtMine(r)
           after == [Held(r) EXCEPT ![r.field] = mine]
           who == Visitor(r)
<1>1. /\ r \in vtNet
      /\ IF r.as = VtNone THEN vtServer' = Append(vtServer, after) ELSE vtServer' = [vtServer EXCEPT ![who] = after]
  BY DEF CarryOut, VtMine
<1>2. /\ Held(r) \in [VtFields -> VtSummaries] /\ mine \in VtSummaries
      /\ r.as # VtNone => r.as \in 1 .. Len(vtServer)
  BY <1>1, VtHeld
<1>3. r.field \in VtFields /\ r.kind \in {"get", "set"} /\ vtServer \in Seq([VtFields -> VtSummaries])
  BY <1>1 DEF VtInv, VtTyped, VtMessages
<1>4. r.kind = "get" => mine = Held(r)[r.field]
  BY DEF VtMine
<1> HIDE DEF mine
<1>5. /\ after \in [VtFields -> VtSummaries] /\ after[r.field] = mine
      /\ \A h \in VtFields : (h = r.field /\ r.kind = "set") \/ after[h] = Held(r)[h]
  BY <1>2, <1>3, <1>4
<1> HIDE DEF after
<1>6. CASE r.as = VtNone
  <2>1. vtServer' = Append(vtServer, after) /\ who = Len(vtServer) + 1
    BY <1>1, <1>6 DEF Visitor
  <2> HIDE DEF who
  <2>2. /\ vtServer' \in Seq([VtFields -> VtSummaries]) /\ Len(vtServer') = Len(vtServer) + 1 /\ vtServer'[who] = after
        /\ \A x \in 1 .. Len(vtServer) : vtServer'[x] = vtServer[x]
    BY <1>3, <1>5, <2>1
  <2>3. who \in 1 .. Len(vtServer') /\ Len(vtServer) <= Len(vtServer')
    BY <1>3, <2>1, <2>2
  <2> QED BY <1>5, <2>2, <2>3 DEF VtServed, mine, who
<1>7. CASE r.as # VtNone
  <2>1. vtServer' = [vtServer EXCEPT ![who] = after] /\ who = r.as /\ who \in 1 .. Len(vtServer) /\ Held(r) = vtServer[who]
    BY <1>1, <1>2, <1>7 DEF Visitor, Held
  <2> HIDE DEF who
  <2>2. /\ vtServer' \in Seq([VtFields -> VtSummaries]) /\ Len(vtServer') = Len(vtServer) /\ vtServer'[who] = after
        /\ \A x \in 1 .. Len(vtServer) : x # who => vtServer'[x] = vtServer[x]
    BY <1>3, <1>5, <2>1
  <2>3. Len(vtServer) \in Nat
    BY <1>3
  <2>4. \A x \in 1 .. Len(vtServer), h \in VtFields :
          (r.kind = "set" /\ x = r.as /\ h = r.field) \/ vtServer'[x][h] = vtServer[x][h]
    BY <1>5, <2>1, <2>2
  <2>5. who \in 1 .. Len(vtServer') /\ Len(vtServer) <= Len(vtServer') /\ vtServer'[who][r.field] = mine
    BY <1>5, <2>1, <2>2, <2>3
  <2> QED BY <2>2, <2>4, <2>5 DEF VtServed, mine, who
<1> QED BY <1>6, <1>7

\* The request that was carried out.
VtDone(d, r) ==
  /\ d \in VtMessages(d.id) /\ d.kind = r.kind /\ d.field = r.field /\ d.vote = r.vote /\ d.note = r.note
  /\ d.as = r.as /\ d.rest = r.rest /\ d.asked = r.asked /\ d.was = r.was /\ d.done /\ d.result = VtMine(r)
  /\ d.made = IF r.as = VtNone THEN Visitor(r) ELSE VtNone
LEMMA VtIsDone ==
  ASSUME VtInv, vtCrossed = {}, NEW r, CarryOut(r)
  PROVE  \E d : VtDone(d, r) /\ vtNet' = (vtNet \ {r}) \cup {d}
<1> DEFINE mine == VtMine(r)
           made == IF r.as = VtNone THEN Visitor(r) ELSE VtNone
           yes == TRUE
           d == [r EXCEPT !.done = yes, !.result = mine, !.made = made]
<1>1. r \in vtNet /\ vtNet' = (vtNet \ {r}) \cup {d}
  BY DEF CarryOut, VtMine
<1>2. r \in VtMessages(r.id) /\ vtServer \in Seq([VtFields -> VtSummaries])
  BY <1>1 DEF VtInv, VtTyped
<1>3. mine \in VtSummaries
  BY <1>1, VtHeld
<1>4. made \in Nat \cup {VtNone}
  BY <1>2 DEF Visitor
<1>5. yes \in BOOLEAN /\ yes
  OBVIOUS
<1> HIDE DEF mine, made, yes
<1>6. d \in VtMessages(r.id)
  BY <1>2, <1>3, <1>4, <1>5 DEF VtMessages
<1>7. /\ d.id = r.id /\ d.kind = r.kind /\ d.field = r.field /\ d.vote = r.vote /\ d.note = r.note
      /\ d.as = r.as /\ d.rest = r.rest /\ d.asked = r.asked /\ d.was = r.was /\ d.done = yes /\ d.result = mine
      /\ d.made = made
  BY <1>2 DEF VtMessages
<1> HIDE DEF d
<1>8. VtDone(d, r)
  BY <1>5, <1>6, <1>7 DEF VtDone, mine, made
<1> QED BY <1>1, <1>8

LEMMA VtCarriedOut ==
  ASSUME VtInv, vtCrossed = {}, NEW r, CarryOut(r)
  PROVE  VtInv'
<1>1. /\ r \in vtNet /\ ~r.done /\ UNCHANGED <<vtGame, vtCookie, vtCache, vtCards, vtPending, vtDialog>>
      /\ vtCrossed' = {f \in {r.field} : r.kind = "set" /\ \E q \in vtNet : q.kind = "get" /\ q.field = f /\ q.done}
  BY DEF CarryOut
<1>2. PICK d : VtDone(d, r) /\ vtNet' = (vtNet \ {r}) \cup {d}
  BY VtIsDone
<1>3. VtServed(r, Visitor(r), VtMine(r))
  BY VtServes
<1>4. r \in VtMessages(r.id) /\ vtServer \in Seq([VtFields -> VtSummaries])
  BY <1>1 DEF VtInv, VtTyped
<1>5. r.field \in VtFields /\ r.kind \in {"get", "set"} /\ Len(vtServer) \in Nat
  BY <1>4 DEF VtMessages
<1>6. VtNone \notin Nat /\ vtCrossed # VtFields
  BY VotesAssumption
<1>7. /\ Len(vtServer) <= Len(vtServer') /\ vtServer' \in Seq([VtFields -> VtSummaries]) /\ Len(vtServer') \in Nat
      /\ Visitor(r) \in 1 .. Len(vtServer')
  BY <1>3 DEF VtServed
<1>8. VtTyped'
  <2>1. vtCookie' \in 1 .. Len(vtServer') \cup {VtNone}
    BY <1>1, <1>5, <1>7 DEF VtInv, VtTyped
  <2>2. \A q \in vtNet' : q \in VtMessages(q.id)
    BY <1>2 DEF VtInv, VtTyped, VtDone
  <2>3. vtCrossed' \subseteq VtFields
    BY <1>1, <1>5
  <2> QED BY <1>1, <1>7, <2>1, <2>2, <2>3 DEF VtInv, VtTyped
<1>9. VtOneSession'
  <2> SUFFICES ASSUME NEW q \in vtNet'
               PROVE  /\ q.as # VtNone => q.as = vtCookie'
                      /\ q.made # VtNone <=> q.done /\ q.as = VtNone
                      /\ q.made # VtNone => q.made \in 1 .. Len(vtServer')
    BY DEF VtOneSession
  <2>1. CASE q \in vtNet
    BY <1>1, <1>5, <1>6, <1>7, <2>1 DEF VtInv, VtOneSession
  <2>2. CASE q = d
    BY <1>1, <1>2, <1>6, <1>7, <2>2 DEF VtInv, VtOneSession, VtDone
  <2> QED BY <1>2, <2>1, <2>2
<1>10. VtWrites'
  <2>1. ASSUME NEW f \in VtFields PROVE f \in vtPending' <=> \E q \in vtNet' : q.kind = "set" /\ q.field = f
    BY <1>1, <1>2 DEF VtInv, VtWrites, VtDone
  <2>2. ASSUME NEW p \in vtNet', NEW q \in vtNet', p.kind = "set", q.kind = "set", p.field = q.field PROVE p = q
    BY <1>1, <1>2, <2>2 DEF VtInv, VtWrites, VtDone
  <2> QED BY <2>1, <2>2 DEF VtWrites
\* The write of a field, and the reads that it overtakes.
<1>11. ASSUME NEW f \in VtFields \ vtCrossed', NEW q \in vtNet, q.field = f, q # r, r.kind = "set", r.field = f
       PROVE  q.kind = "get" /\ ~q.done
  <2>1. q.kind \in {"get", "set"}
    BY DEF VtInv, VtTyped, VtMessages
  <2>2. q.kind # "set"
    BY <1>1, <1>11 DEF VtInv, VtWrites
  <2> QED BY <1>1, <1>11, <2>1, <2>2
<1>12. ASSUME NEW f \in VtFields, NEW x \in 1 .. Len(vtServer), ~(r.kind = "set" /\ r.field = f)
       PROVE  vtServer'[x][f] = vtServer[x][f]
  BY <1>3, <1>12 DEF VtServed
<1>13. vtCookie # VtNone => vtCookie \in 1 .. Len(vtServer)
  BY DEF VtInv, VtTyped
<1>14. ASSUME NEW f \in VtFields \ vtCrossed' PROVE VtBrings(f)'
  <2>1. VtBrings(f)
    BY DEF VtInv
  <2> SUFFICES ASSUME NEW q \in vtNet', q.field = f
               PROVE  /\ q.done => q.result = vtServer'[VtWho(q)][f]
                      /\ q.kind = "set" /\ q.note # VtNone => q.as # VtNone /\ q.vote = vtServer'[q.as][f].vote
                      /\ ~q.done /\ q.was # VtNone => vtCookie' # VtNone /\ q.was = vtServer'[vtCookie'][f]
                      /\ IF q.kind = "get" THEN q.was = VtNone ELSE q.rest = {}
    BY DEF VtBrings, VtWho
  <2>2. CASE q = d
    <3>1. VtWho(d) = Visitor(r)
      BY <1>2 DEF VtDone, VtWho, Visitor
    <3>2. d.result = vtServer'[VtWho(d)][f]
      BY <1>2, <1>3, <2>2, <3>1 DEF VtDone, VtServed
    <3>3. d.kind = "set" /\ d.note # VtNone => d.as # VtNone /\ d.vote = vtServer'[d.as][f].vote
      <4> SUFFICES ASSUME d.kind = "set", d.note # VtNone PROVE d.as # VtNone /\ d.vote = vtServer'[d.as][f].vote
        OBVIOUS
      <4>1. r.kind = "set" /\ r.note # VtNone /\ r.field = f /\ d.as = r.as /\ d.vote = r.vote
        BY <1>2, <2>2 DEF VtDone
      <4>2. r.as # VtNone
        BY <1>1, <2>1, <4>1 DEF VtBrings
      <4>3. Visitor(r) = r.as /\ VtMine(r).vote = r.vote
        BY <1>1, <4>1, <4>2, VtHeld DEF Visitor
      <4> QED BY <1>3, <4>1, <4>2, <4>3 DEF VtServed
    <3>4. d.done /\ IF d.kind = "get" THEN d.was = VtNone ELSE d.rest = {}
      BY <1>1, <1>2, <2>1, <2>2 DEF VtDone, VtBrings
    <3> QED BY <2>2, <3>2, <3>3, <3>4
  <2>3. CASE q \in vtNet /\ q # r
    <3>1. CASE r.kind = "set" /\ r.field = f
      <4>1. q.kind = "get" /\ ~q.done
        BY <1>11, <2>3, <3>1
      <4> QED BY <2>1, <2>3, <4>1 DEF VtBrings
    <3>2. CASE ~(r.kind = "set" /\ r.field = f)
      <4>1. q.done => VtWho(q) \in 1 .. Len(vtServer)
        BY <1>6, <1>13, <2>3 DEF VtInv, VtOneSession, VtWho
      <4>2. q.as # VtNone => q.as \in 1 .. Len(vtServer)
        BY <1>6, <1>13, <2>3 DEF VtInv, VtOneSession
      <4>3. q.done => q.result = vtServer'[VtWho(q)][f]
        BY <1>12, <2>1, <2>3, <3>2, <4>1 DEF VtBrings
      <4>4. q.kind = "set" /\ q.note # VtNone => q.as # VtNone /\ q.vote = vtServer'[q.as][f].vote
        BY <1>12, <2>1, <2>3, <3>2, <4>2 DEF VtBrings
      <4>5. ~q.done /\ q.was # VtNone => vtCookie' # VtNone /\ q.was = vtServer'[vtCookie'][f]
        BY <1>1, <1>12, <1>13, <2>1, <2>3, <3>2 DEF VtBrings
      <4> QED BY <2>1, <2>3, <4>3, <4>4, <4>5 DEF VtBrings
    <3> QED BY <3>1, <3>2
  <2> QED BY <1>2, <2>2, <2>3
<1>15. ASSUME NEW f \in VtFields \ vtCrossed' PROVE VtShows(f)'
  <2>1. VtShows(f)
    BY DEF VtInv
  <2>2. ASSUME \A q \in vtNet' : q.kind = "set" /\ q.field = f => ~q.done PROVE VtIsRight(f)'
    <3>1. ~(r.kind = "set" /\ r.field = f)
      BY <1>2, <2>2 DEF VtDone
    <3>2. \A q \in vtNet : q.kind = "set" /\ q.field = f => ~q.done
      BY <1>1, <1>2, <2>2
    <3>3. VtIsRight(f)
      BY <2>1, <3>2 DEF VtShows
    <3>4. vtCookie # VtNone => vtServer'[vtCookie][f] = vtServer[vtCookie][f]
      BY <1>12, <1>13, <3>1
    <3> QED BY <1>1, <3>3, <3>4 DEF VtIsRight
  <2>3. vtDialog'.field = f => vtCache'[f] # VtNone /\ \A q \in vtNet' : q.kind = "set" /\ q.field = f => q.asked
    BY <1>1, <1>2, <2>1 DEF VtShows, VtDone
  <2> QED BY <2>2, <2>3 DEF VtShows
<1> QED BY <1>8, <1>9, <1>10, <1>14, <1>15 DEF VtInv

-----------------------------------------------------------------------------
(* Answers, and calls that fail.                                           *)

\* A request is over: the reads that waited for it go out.
LEMMA VtFollowed ==
  ASSUME VtInv, NEW r \in vtNet, FollowUp(r), vtCookie' \in Nat \cup {VtNone}
  PROVE  /\ vtNet \ {r} \subseteq vtNet'
         /\ \A q \in vtNet' : q \in vtNet \ {r} \/ VtFresh(q, vtCookie')
         /\ \A q \in vtNet' : q \in VtMessages(q.id)
<1> DEFINE fields == Followers(r)
           Q == [f \in fields |-> [VtGet(f, {}) EXCEPT !.as = vtCookie', !.drawn = r.drawn]]
<1>1. vtNet' = Posted(vtNet \ {r}, fields, Q)
  BY DEF FollowUp
<1>2. r \in VtMessages(r.id) /\ vtCookie \in Nat \cup {VtNone}
  BY DEF VtInv, VtTyped
<1>3. fields \subseteq VtFields /\ r.drawn \in BOOLEAN
  BY <1>2 DEF Followers, VtMessages
<1>4. ASSUME NEW f \in fields PROVE Q[f] \in VtMessages(0) /\ VtFresh(Q[f], vtCookie')
  <2> DEFINE get == VtGet(f, {})
             drawn == r.drawn
             p == [get EXCEPT !.as = vtCookie', !.drawn = drawn]
  <2>1. f \in VtFields /\ {} \in SUBSET VtFields
    BY <1>3
  <2>2. get \in VtMessages(0) /\ VtFresh(get, vtCookie)
    BY <1>2, <2>1, VtGetTyped
  <2>3. Q[f] = p
    OBVIOUS
  <2>4. drawn \in BOOLEAN
    BY <1>3
  <2> HIDE DEF get, Q, drawn, fields
  <2>5. p \in VtMessages(0)
    BY <2>2, <2>4 DEF VtMessages
  <2>6. /\ p.id = get.id /\ p.kind = get.kind /\ p.note = get.note /\ p.was = get.was /\ p.done = get.done
        /\ p.made = get.made /\ p.as = vtCookie'
    BY <2>2 DEF VtMessages
  <2>7. get.id = 0
    BY <2>2 DEF VtMessages
  <2> HIDE DEF p
  <2>8. VtFresh(p, vtCookie')
    BY <2>2, <2>5, <2>6, <2>7 DEF VtFresh
  <2> QED BY <2>3, <2>5, <2>8
<1> HIDE DEF Q, fields
<1>5. /\ vtNet \ {r} \subseteq Posted(vtNet \ {r}, fields, Q)
      /\ \A q \in Posted(vtNet \ {r}, fields, Q) : q \in vtNet \ {r} \/ VtFresh(q, vtCookie')
  <2> DEFINE others == vtNet \ {r}
             cookie == vtCookie'
  <2> HIDE DEF others, cookie
  <2>1. \A f \in fields : Q[f] \in VtMessages(0) /\ VtFresh(Q[f], cookie)
    BY <1>4 DEF cookie
  <2>2. others \subseteq Posted(others, fields, Q) /\ \A q \in Posted(others, fields, Q) : q \in others \/ VtFresh(q, cookie)
    BY <2>1, VtReadsPosted
  <2> QED BY <2>2 DEF others, cookie
<1>6. \A q \in vtNet' : q \in vtNet \ {r} \/ VtFresh(q, vtCookie')
  BY <1>1, <1>5
<1>7. \A q \in vtNet' : q \in VtMessages(q.id)
  BY <1>6 DEF VtInv, VtTyped, VtFresh
<1> QED BY <1>1, <1>5, <1>6, <1>7

\* A write that is over makes way for the next one.
LEMMA VtMakesWay ==
  ASSUME VtInv, NEW r \in vtNet, vtNet \ {r} \subseteq vtNet',
         \A q \in vtNet' : q \in vtNet \ {r} \/ VtFresh(q, vtCookie'),
         vtPending' = IF r.kind = "set" THEN vtPending \ {r.field} ELSE vtPending
  PROVE  VtWrites'
<1>1. VtWrites
  BY DEF VtInv
<1>2. ASSUME NEW f \in VtFields PROVE f \in vtPending' <=> \E q \in vtNet' : q.kind = "set" /\ q.field = f
  <2>1. ASSUME f \in vtPending' PROVE \E q \in vtNet' : q.kind = "set" /\ q.field = f
    <3>1. PICK q \in vtNet : q.kind = "set" /\ q.field = f
      BY <1>1, <2>1 DEF VtWrites
    <3>2. q # r
      BY <2>1, <3>1
    <3> QED BY <3>1, <3>2
  <2>2. ASSUME NEW q \in vtNet', q.kind = "set", q.field = f PROVE f \in vtPending'
    <3>1. q \in vtNet /\ q # r
      BY <2>2 DEF VtFresh
    <3>2. ~(r.kind = "set" /\ r.field = f)
      BY <1>1, <2>2, <3>1 DEF VtWrites
    <3> QED BY <1>1, <2>2, <3>1, <3>2 DEF VtWrites
  <2> QED BY <2>1, <2>2
<1>3. ASSUME NEW p \in vtNet', NEW q \in vtNet', p.kind = "set", q.kind = "set", p.field = q.field PROVE p = q
  BY <1>1, <1>3 DEF VtWrites, VtFresh
<1> QED BY <1>2, <1>3 DEF VtWrites

\* What an answer brings, and whose cookie the browser has then.
LEMMA VtAnswerIsKnown ==
  ASSUME VtInv, vtCrossed = {}, NEW r \in vtNet, r.done
  PROVE  /\ VtWho(r) \in 1 .. Len(vtServer) /\ VtWho(r) # VtNone
         /\ r.result = vtServer[VtWho(r)][r.field] /\ r.result \in VtSummaries /\ r.result # VtNone
         /\ r.made # VtNone => r.made = VtWho(r)
         /\ r.made = VtNone => vtCookie = VtWho(r)
<1>1. VtNone \notin Nat /\ vtCrossed # VtFields /\ VtNone \notin VtSummaries
  BY VotesAssumption DEF VtSummaries, VtVotes, VtNotes
<1>2. /\ r.as # VtNone => r.as = vtCookie
      /\ r.made # VtNone <=> r.as = VtNone
      /\ r.made # VtNone => r.made \in 1 .. Len(vtServer)
  BY <1>1 DEF VtInv, VtOneSession
<1>3. vtCookie # VtNone => vtCookie \in 1 .. Len(vtServer)
  BY DEF VtInv, VtTyped
<1>4. VtWho(r) \in 1 .. Len(vtServer) /\ VtWho(r) # VtNone
  BY <1>1, <1>2, <1>3 DEF VtWho
<1>5. r.field \in VtFields /\ vtServer \in Seq([VtFields -> VtSummaries])
  BY DEF VtInv, VtTyped, VtMessages
<1>6. r.result = vtServer[VtWho(r)][r.field]
  BY <1>5 DEF VtInv, VtBrings
<1>7. r.result \in VtSummaries
  <2>1. vtServer[VtWho(r)] \in [VtFields -> VtSummaries]
    BY <1>4, <1>5
  <2> QED BY <1>5, <1>6, <2>1
<1> QED BY <1>1, <1>2, <1>4, <1>6, <1>7 DEF VtWho

LEMMA VtAnsweredStep ==
  ASSUME VtInv, vtCrossed = {}, NEW r, VtAnswered(r)
  PROVE  VtInv'
<1> DEFINE late == {f \in r.rest : vtCache[f] # VtNone /\ r.drawn /\ vtCards[f].is # "none"}
           card == r.kind = "set" \/ r.drawn
           shown(f) == IF f \in late THEN Rated(vtCache[f])
                       ELSE IF card /\ f = r.field THEN OnCard(f, Rated(r.result))[f] ELSE vtCards[f]
<1>1. /\ r \in vtNet /\ r.done /\ FollowUp(r) /\ UNCHANGED <<vtGame, vtServer>>
      /\ vtCookie' = IF r.made # VtNone THEN r.made ELSE vtCookie
      /\ vtCrossed' = IF r.made # VtNone /\ vtCookie # VtNone THEN VtFields ELSE vtCrossed
      /\ vtCache' = [vtCache EXCEPT ![r.field] = r.result]
      /\ vtCards' = [f \in VtFields |-> shown(f)]
      /\ vtPending' = IF r.kind = "set" THEN vtPending \ {r.field} ELSE vtPending
      /\ vtDialog' = IF r.asked THEN NoDialog ELSE vtDialog
  BY DEF VtAnswered
<1>2. r \in VtMessages(r.id) /\ VtTyped
  BY <1>1 DEF VtInv, VtTyped
<1>3. r.field \in VtFields /\ r.kind \in {"get", "set"} /\ r.rest \subseteq VtFields
  BY <1>2 DEF VtMessages
<1>4. /\ VtWho(r) \in 1 .. Len(vtServer) /\ VtWho(r) # VtNone
      /\ r.result = vtServer[VtWho(r)][r.field] /\ r.result \in VtSummaries /\ r.result # VtNone
      /\ r.made # VtNone => r.made = VtWho(r)
      /\ r.made = VtNone => vtCookie = VtWho(r)
  BY <1>1, VtAnswerIsKnown
<1>5. vtCookie' = VtWho(r) /\ vtCookie' \in Nat \cup {VtNone}
  BY <1>1, <1>4
<1>6. /\ vtNet \ {r} \subseteq vtNet' /\ \A q \in vtNet' : q \in vtNet \ {r} \/ VtFresh(q, vtCookie')
      /\ \A q \in vtNet' : q \in VtMessages(q.id)
  BY <1>1, <1>5, VtFollowed
<1>7. VtWrites'
  BY <1>1, <1>6, VtMakesWay
\* What the cards show.
<1>8. ASSUME NEW f \in VtFields
      PROVE  /\ shown(f) \in VtCardStates
             /\ \/ shown(f) = vtCards[f] /\ (f = r.field => r.kind = "get" \/ vtCards[f].is = "none")
                \/ f \in late /\ vtCache[f] # VtNone /\ shown(f).says = vtCache[f]
                \/ f = r.field /\ shown(f).says = r.result
  <2>1. vtCards[f] \in VtCardStates /\ vtCache[f] \in VtSummaries \cup {VtNone}
    BY <1>2 DEF VtTyped
  <2>2. CASE f \in late
    <3>1. vtCache[f] \in VtSummaries /\ vtCache[f] # VtNone /\ shown(f) = Rated(vtCache[f])
      BY <2>1, <2>2
    <3> QED BY <2>2, <3>1, VtCardTyped
  <2>3. CASE f \notin late /\ ~(card /\ f = r.field)
    BY <1>3, <2>1, <2>3
  <2>4. CASE f \notin late /\ card /\ f = r.field
    <3>1. shown(f) = OnCard(f, Rated(r.result))[f]
      BY <2>4
    <3>2. vtCards \in [VtFields -> VtCardStates]
      BY <1>2 DEF VtTyped
    <3>3. shown(f) = IF vtCards[f].is = "none" THEN vtCards[f] ELSE Rated(r.result)
      BY <3>1, <3>2 DEF OnCard
    <3>4. Rated(r.result) \in VtCardStates /\ Rated(r.result).says = r.result
      BY <1>4, VtCardTyped
    <3> QED BY <2>1, <2>4, <3>3, <3>4
  <2> QED BY <2>2, <2>3, <2>4
<1> HIDE DEF shown, late
<1>9. VtTyped'
  <2>1. vtCache' \in [VtFields -> VtSummaries \cup {VtNone}] /\ vtCards' \in [VtFields -> VtCardStates]
    BY <1>1, <1>2, <1>4, <1>8 DEF VtTyped
  <2>2. vtDialog' \in VtDialogs
    BY <1>1, <1>2 DEF VtTyped, VtDialogs, NoDialog, VtNotes
  <2>3. vtPending' \subseteq VtFields /\ vtCrossed' \subseteq VtFields
    BY <1>1, <1>2 DEF VtTyped
  <2>4. vtCookie' \in 1 .. Len(vtServer') \cup {VtNone} /\ vtServer' \in Seq([VtFields -> VtSummaries])
    BY <1>1, <1>2, <1>4, <1>5 DEF VtTyped
  <2> QED BY <1>6, <2>1, <2>2, <2>3, <2>4 DEF VtTyped
<1>10. CASE r.made # VtNone /\ vtCookie # VtNone
  <2>1. vtCrossed' = VtFields
    BY <1>1, <1>10
  <2> QED BY <1>7, <1>9, <2>1 DEF VtInv, VtOneSession
<1>11. CASE ~(r.made # VtNone /\ vtCookie # VtNone)
  <2>1. vtCrossed' = {} /\ VtNone \notin Nat /\ vtCrossed # VtFields
    BY <1>1, <1>11, VotesAssumption
  <2>2. vtCookie # VtNone => vtCookie' = vtCookie
    BY <1>1, <1>11
  <2>3. VtOneSession'
    <3> SUFFICES ASSUME NEW q \in vtNet'
                 PROVE  /\ q.as # VtNone => q.as = vtCookie'
                        /\ q.made # VtNone <=> q.done /\ q.as = VtNone
                        /\ q.made # VtNone => q.made \in 1 .. Len(vtServer')
      BY DEF VtOneSession
    <3>1. CASE q \in vtNet
      <4>1. /\ q.as # VtNone => q.as = vtCookie
            /\ q.made # VtNone <=> q.done /\ q.as = VtNone
            /\ q.made # VtNone => q.made \in 1 .. Len(vtServer)
        BY <2>1, <3>1 DEF VtInv, VtOneSession
      <4> QED BY <1>1, <2>2, <4>1
    <3>2. CASE VtFresh(q, vtCookie')
      BY <3>2 DEF VtFresh
    <3> QED BY <1>6, <3>1, <3>2
  <2>4. ASSUME NEW f \in VtFields PROVE VtBrings(f)'
    <3>1. VtBrings(f)
      BY DEF VtInv
    <3> SUFFICES ASSUME NEW q \in vtNet', q.field = f
                 PROVE  /\ q.done => q.result = vtServer'[VtWho(q)][f]
                        /\ q.kind = "set" /\ q.note # VtNone => q.as # VtNone /\ q.vote = vtServer'[q.as][f].vote
                        /\ ~q.done /\ q.was # VtNone => vtCookie' # VtNone /\ q.was = vtServer'[vtCookie'][f]
                        /\ IF q.kind = "get" THEN q.was = VtNone ELSE q.rest = {}
      BY DEF VtBrings, VtWho
    <3>2. CASE q \in vtNet
      BY <1>1, <2>2, <3>1, <3>2 DEF VtBrings
    <3>3. CASE VtFresh(q, vtCookie')
      BY <3>3 DEF VtFresh
    <3> QED BY <1>6, <3>2, <3>3
  <2>5. \A f \in VtFields : vtDialog'.field = f => vtDialog' = vtDialog /\ ~r.asked
    BY <1>1, VotesAssumption DEF NoDialog
\* The page was right before, unless the answer is to a write of this very field.
  <2>6. ASSUME NEW f \in VtFields, \A q \in vtNet' : q.kind = "set" /\ q.field = f => ~q.done,
               ~(r.kind = "set" /\ r.field = f)
        PROVE  VtIsRight(f)
    <3>1. \A q \in vtNet : q.kind = "set" /\ q.field = f => ~q.done
      BY <1>6, <2>6
    <3> QED BY <3>1 DEF VtInv, VtShows
  <2>7. ASSUME NEW f \in VtFields, f # r.field, VtIsRight(f) PROVE VtIsRight(f)'
    <3>1. vtCache'[f] = vtCache[f] /\ vtCards'[f] = shown(f)
      BY <1>1, <1>2, <2>7 DEF VtTyped
    <3>2. \/ shown(f) = vtCards[f]
          \/ vtCache[f] # VtNone /\ shown(f).says = vtCache[f]
      BY <1>8, <2>7
    <3> QED BY <1>1, <2>2, <2>5, <2>7, <3>1, <3>2 DEF VtIsRight
  <2>8. ASSUME NEW f \in VtFields, f = r.field, r.kind = "get" => VtIsRight(f) PROVE VtIsRight(f)'
    <3>1. vtCache'[f] = r.result /\ vtCards'[f] = shown(f)
      BY <1>1, <1>2, <2>8 DEF VtTyped
    <3>2. vtCookie' # VtNone /\ r.result = vtServer'[vtCookie'][f]
      BY <1>1, <1>4, <1>5, <2>8
    <3>3. r.kind = "set" => r.rest = {}
      BY <1>1, <1>3 DEF VtInv, VtBrings
    <3>4. shown(f).is = "rated" => shown(f).says = vtServer'[vtCookie'][f]
      <4>1. CASE shown(f) = vtCards[f] /\ (r.kind = "get" \/ vtCards[f].is = "none")
        BY <1>1, <2>2, <2>8, <4>1 DEF VtIsRight
      <4>2. CASE f \in late /\ vtCache[f] # VtNone /\ shown(f).says = vtCache[f]
        <5>1. r.kind = "get"
          BY <1>3, <3>3, <4>2 DEF late
        <5> QED BY <1>1, <2>2, <2>8, <4>2, <5>1 DEF VtIsRight
      <4>3. CASE shown(f).says = r.result
        BY <3>2, <4>3
      <4> QED BY <1>8, <2>8, <4>1, <4>2, <4>3
    <3>5. vtDialog'.field = f => vtDialog'.opened = vtServer'[vtCookie'][f].note
      <4> SUFFICES ASSUME vtDialog'.field = f PROVE vtDialog'.opened = vtServer'[vtCookie'][f].note
        OBVIOUS
      <4>1. vtDialog' = vtDialog /\ ~r.asked
        BY <2>5
      <4>2. r.kind # "set"
        BY <1>1, <2>8, <4>1 DEF VtInv, VtShows
      <4> QED BY <1>1, <1>3, <2>2, <2>8, <4>1, <4>2 DEF VtIsRight
    <3> QED BY <3>1, <3>2, <3>4, <3>5 DEF VtIsRight
  <2>9. ASSUME NEW f \in VtFields PROVE VtShows(f)'
    <3>1. ASSUME \A q \in vtNet' : q.kind = "set" /\ q.field = f => ~q.done PROVE VtIsRight(f)'
      <4>1. CASE f # r.field
        BY <2>6, <2>7, <3>1, <4>1
      <4>2. CASE f = r.field
        <5>1. r.kind = "get" => VtIsRight(f)
          BY <2>6, <3>1
        <5> QED BY <2>8, <4>2, <5>1
      <4> QED BY <4>1, <4>2
    <3>2. ASSUME vtDialog'.field = f
          PROVE  vtCache'[f] # VtNone /\ \A q \in vtNet' : q.kind = "set" /\ q.field = f => q.asked
      <4>1. vtDialog.field = f
        BY <2>5, <3>2
      <4>2. vtCache[f] # VtNone /\ \A q \in vtNet : q.kind = "set" /\ q.field = f => q.asked
        BY <4>1 DEF VtInv, VtShows
      <4>3. vtCache'[f] \in {vtCache[f], r.result}
        BY <1>1, <1>2 DEF VtTyped
      <4> QED BY <1>4, <1>6, <4>2, <4>3 DEF VtFresh
    <3> QED BY <3>1, <3>2 DEF VtShows
  <2> QED BY <1>7, <1>9, <2>1, <2>3, <2>4, <2>9 DEF VtInv
<1> QED BY <1>10, <1>11

LEMMA VtFailedStep ==
  ASSUME VtInv, vtCrossed = {}, NEW r, Failed(r)
  PROVE  VtInv'
<1> DEFINE late == {f \in r.rest : vtCache[f] # VtNone /\ r.drawn /\ vtCards[f].is # "none"}
           card == r.kind = "set" \/ r.drawn
           left == IF vtGame = "smilefall" THEN vtCache[r.field] ELSE r.was
           back == IF left = VtNone THEN Card("blank") ELSE Rated(left)
           shown(f) == IF f \in late THEN Rated(vtCache[f])
                       ELSE IF card /\ f = r.field /\ ~(r.note # VtNone) THEN OnCard(f, back)[f] ELSE vtCards[f]
<1>1. /\ r \in vtNet /\ FollowUp(r) /\ UNCHANGED <<vtGame, vtServer, vtCookie, vtCache>>
      /\ vtCrossed' = IF r.done /\ r.kind = "set" THEN vtCrossed \cup {r.field} ELSE vtCrossed
      /\ vtCards' = [f \in VtFields |-> shown(f)]
      /\ vtPending' = IF r.kind = "set" THEN vtPending \ {r.field} ELSE vtPending
      /\ vtDialog' = IF r.asked THEN [vtDialog EXCEPT !.busy = FALSE] ELSE vtDialog
  BY DEF Failed
<1>2. r \in VtMessages(r.id) /\ VtTyped
  BY <1>1 DEF VtInv, VtTyped
<1>3. r.field \in VtFields /\ r.kind \in {"get", "set"} /\ r.was \in VtSummaries \cup {VtNone}
  BY <1>2 DEF VtMessages
<1>4. vtCookie' \in Nat \cup {VtNone} /\ VtNone \notin Nat /\ vtCrossed # VtFields
  <2>1. VtNone \notin Nat /\ vtCrossed # VtFields
    BY VotesAssumption
  <2>2. vtCookie \in Nat \cup {VtNone}
    BY <1>2 DEF VtTyped
  <2> QED BY <1>1, <2>1, <2>2
<1>5. /\ vtNet \ {r} \subseteq vtNet' /\ \A q \in vtNet' : q \in vtNet \ {r} \/ VtFresh(q, vtCookie')
      /\ \A q \in vtNet' : q \in VtMessages(q.id)
  BY <1>1, <1>4, VtFollowed
<1>6. VtWrites'
  BY <1>1, <1>5, VtMakesWay
<1>7. left \in VtSummaries \cup {VtNone} /\ left \in {vtCache[r.field], r.was}
  BY <1>2, <1>3 DEF VtTyped
<1> HIDE DEF left
<1>8. back \in VtCardStates /\ (back.is = "rated" => left # VtNone /\ back.says = left)
  BY <1>7, VtCardTyped
<1> HIDE DEF back
<1>9. ASSUME NEW f \in VtFields
      PROVE  /\ shown(f) \in VtCardStates
             /\ \/ shown(f) = vtCards[f]
                \/ vtCache[f] # VtNone /\ shown(f).says = vtCache[f]
                \/ f = r.field /\ (shown(f).is = "rated" => left # VtNone /\ shown(f).says = left)
  <2>1. vtCards[f] \in VtCardStates /\ vtCache[f] \in VtSummaries \cup {VtNone} /\ vtCards \in [VtFields -> VtCardStates]
    BY <1>2 DEF VtTyped
  <2>2. CASE f \in late
    <3>1. vtCache[f] \in VtSummaries /\ vtCache[f] # VtNone /\ shown(f) = Rated(vtCache[f])
      BY <2>1, <2>2
    <3> QED BY <3>1, VtCardTyped
  <2>3. CASE f \notin late /\ ~(card /\ f = r.field /\ ~(r.note # VtNone))
    BY <2>1, <2>3
  <2>4. CASE f \notin late /\ card /\ f = r.field /\ ~(r.note # VtNone)
    <3>1. shown(f) = OnCard(f, back)[f]
      BY <2>4
    <3>2. shown(f) = IF vtCards[f].is = "none" THEN vtCards[f] ELSE back
      BY <2>1, <3>1 DEF OnCard
    <3> QED BY <1>8, <2>1, <2>4, <3>2
  <2> QED BY <2>2, <2>3, <2>4
<1> HIDE DEF shown
<1>10. /\ vtDialog' \in VtDialogs /\ vtDialog'.field = vtDialog.field /\ vtDialog'.opened = vtDialog.opened
  <2>1. vtDialog \in VtDialogs
    BY <1>2 DEF VtTyped
  <2>2. CASE r.asked
    BY <1>1, <2>1, <2>2 DEF VtDialogs
  <2>3. CASE ~r.asked
    BY <1>1, <2>1, <2>3
  <2> QED BY <2>2, <2>3
<1>11. VtTyped'
  <2>1. vtCards' \in [VtFields -> VtCardStates]
    BY <1>1, <1>9
  <2>2. vtPending' \subseteq VtFields /\ vtCrossed' \subseteq VtFields
    BY <1>1, <1>2, <1>3 DEF VtTyped
  <2> QED BY <1>1, <1>2, <1>5, <1>10, <2>1, <2>2 DEF VtTyped
<1>12. VtOneSession'
  <2> SUFFICES ASSUME NEW q \in vtNet'
               PROVE  /\ q.as # VtNone => q.as = vtCookie'
                      /\ q.made # VtNone <=> q.done /\ q.as = VtNone
                      /\ q.made # VtNone => q.made \in 1 .. Len(vtServer')
    BY DEF VtOneSession
  <2>1. CASE q \in vtNet
    BY <1>1, <1>4, <2>1 DEF VtInv, VtOneSession
  <2>2. CASE VtFresh(q, vtCookie')
    BY <2>2 DEF VtFresh
  <2> QED BY <1>5, <2>1, <2>2
<1>13. ASSUME NEW f \in VtFields PROVE VtBrings(f)'
  <2>1. VtBrings(f)
    BY DEF VtInv
  <2> SUFFICES ASSUME NEW q \in vtNet', q.field = f
               PROVE  /\ q.done => q.result = vtServer'[VtWho(q)][f]
                      /\ q.kind = "set" /\ q.note # VtNone => q.as # VtNone /\ q.vote = vtServer'[q.as][f].vote
                      /\ ~q.done /\ q.was # VtNone => vtCookie' # VtNone /\ q.was = vtServer'[vtCookie'][f]
                      /\ IF q.kind = "get" THEN q.was = VtNone ELSE q.rest = {}
    BY DEF VtBrings, VtWho
  <2>2. CASE q \in vtNet
    BY <1>1, <2>1, <2>2 DEF VtBrings
  <2>3. CASE VtFresh(q, vtCookie')
    BY <2>3 DEF VtFresh
  <2> QED BY <1>5, <2>2, <2>3
<1>14. ASSUME NEW f \in VtFields \ vtCrossed' PROVE VtShows(f)'
  <2>1. VtShows(f)
    BY DEF VtInv
  <2>2. ASSUME \A q \in vtNet' : q.kind = "set" /\ q.field = f => ~q.done PROVE VtIsRight(f)'
\* A write of this field that was carried out would have lost it.
    <3>1. \A q \in vtNet : q.kind = "set" /\ q.field = f => ~q.done
      BY <1>1, <1>5, <2>2
    <3>2. VtIsRight(f)
      BY <2>1, <3>1 DEF VtShows
    <3>3. vtCards'[f] = shown(f)
      BY <1>1
    <3>4. ASSUME shown(f).is = "rated" PROVE vtCookie # VtNone /\ shown(f).says = vtServer[vtCookie][f]
      <4>1. CASE shown(f) = vtCards[f] \/ (vtCache[f] # VtNone /\ shown(f).says = vtCache[f])
        BY <3>2, <3>4, <4>1 DEF VtIsRight
      <4>2. CASE f = r.field /\ left # VtNone /\ shown(f).says = left
        <5>1. left = r.was => r.kind = "set" /\ ~r.done
          BY <1>1, <1>3, <3>1, <4>2 DEF VtInv, VtBrings
        <5>2. left = r.was => vtCookie # VtNone /\ left = vtServer[vtCookie][f]
          BY <1>1, <4>2, <5>1 DEF VtInv, VtBrings
        <5> QED BY <1>7, <3>2, <4>2, <5>2 DEF VtIsRight
      <4> QED BY <1>9, <3>4, <4>1, <4>2
    <3> QED BY <1>1, <1>10, <3>2, <3>3, <3>4 DEF VtIsRight
  <2>3. vtDialog'.field = f => vtCache'[f] # VtNone /\ \A q \in vtNet' : q.kind = "set" /\ q.field = f => q.asked
    BY <1>1, <1>5, <1>10, <2>1 DEF VtShows, VtFresh
  <2> QED BY <2>2, <2>3 DEF VtShows
<1> QED BY <1>6, <1>11, <1>12, <1>13, <1>14 DEF VtInv

LEMMA VtStep == ASSUME VtInv, [VtNext]_vtVars PROVE VtInv'
<1>1. CASE UNCHANGED vtVars
  BY <1>1 DEF vtVars, VtInv, VtTyped, VtOneSession, VtWrites, VtBrings, VtShows, VtIsRight, VtWho
<1>2. CASE VtNext
  <2>1. vtCrossed = {}
    BY <1>2 DEF VtNext, VtMoves
  <2>2. ASSUME NEW fields \in SUBSET VtFields \ {{}}, RefreshCatalogVotes(fields) PROVE VtInv'
    BY <2>1, <2>2, VtRefreshed
  <2>3. CASE RenderCatalog
    BY <2>1, <2>3, VtRendered
  <2>4. CASE CloseNote
    BY <2>1, <2>4, VtClosed
  <2>5. ASSUME NEW f \in VtFields, OpenNote(f) PROVE VtInv'
    BY <2>1, <2>5, VtOpened
  <2>6. ASSUME NEW f \in VtFields, NEW value \in VtValues, CastCatalogVote(f, value) \/ SetCatalogVote(f, value)
        PROVE  VtInv'
    BY <2>1, <2>6, VtCast DEF CastCatalogVote, SetCatalogVote
  <2>7. ASSUME NEW text \in VtTexts \cup {""}, SubmitNote(text) PROVE VtInv'
    BY <2>1, <2>7, VtNoteSent DEF VtNotes
  <2>8. ASSUME NEW r \in vtNet, CarryOut(r) PROVE VtInv'
    BY <2>1, <2>8, VtCarriedOut
  <2>9. ASSUME NEW r \in vtNet, VtAnswered(r) PROVE VtInv'
    BY <2>1, <2>9, VtAnsweredStep
  <2>10. ASSUME NEW r \in vtNet, Failed(r) PROVE VtInv'
    BY <2>1, <2>10, VtFailedStep
  <2> QED BY <1>2, <2>2, <2>3, <2>4, <2>5, <2>6, <2>7, <2>8, <2>9, <2>10 DEF VtNext, VtMoves
<1> QED BY <1>1, <1>2

(* The invariant says what the page promises.                              *)
LEMMA VtInvIsEnough == VtInv => VtPageKnowsTheVote
<1> SUFFICES ASSUME VtInv, NEW f \in VtFields \ vtCrossed
             PROVE  /\ f \notin vtPending =>
                         /\ vtCache[f] # VtNone => vtCookie # VtNone /\ vtCache[f] = vtServer[vtCookie][f]
                         /\ vtCards[f].is = "rated" => vtCards[f].says = vtServer[vtCookie][f]
                         /\ vtDialog.field = f => vtDialog.opened = vtServer[vtCookie][f].note
                    /\ \A r \in vtNet : r.kind = "set" /\ r.field = f /\ r.note # VtNone =>
                         r.vote = vtServer[r.as][f].vote
  BY DEF VtPageKnowsTheVote
<1>1. VtBrings(f) /\ VtShows(f) /\ VtWrites
  BY DEF VtInv
<1>2. f \notin vtPending => VtIsRight(f)
  BY <1>1 DEF VtShows, VtWrites
<1> QED BY <1>1, <1>2 DEF VtBrings, VtIsRight

\* For any number of fields, requests, sessions and votes: as long as no read was
\* overtaken, no answer to a write lost and no second session started, the cards, the
\* summaries and the note dialog say what the platform holds for the visitor, and a
\* note on its way carries the vote that is there.
THEOREM PageKnowsTheVote == VtSpec => []VtPageKnowsTheVote
<1>1. VtInit => VtInv
  BY VtBegins
<1>2. VtInv /\ [VtNext]_vtVars => VtInv'
  BY VtStep
<1>3. VtInv => VtPageKnowsTheVote
  BY VtInvIsEnough
<1> QED BY <1>1, <1>2, <1>3, PTL DEF VtSpec

-----------------------------------------------------------------------------
(* The page a person plays Partition on                                    *)

\* What a filter has after each of the elements it looks at.
PlLeft(s, T, g, n) ==
  g = [k \in 0 .. n |-> IF k = 0 THEN <<>> ELSE IF s[k] \in T THEN Append(g[k - 1], s[k]) ELSE g[k - 1]]

\* A filter gets through every sequence.
LEMMA PlFilters ==
  ASSUME NEW s, NEW T, NEW n \in Nat
  PROVE  \E g : PlLeft(s, T, g, n)
<1> DEFINE U == {m \in Nat : ~ \E g : PlLeft(s, T, g, m)}
           Next1(q, k) == IF s[k] \in T THEN Append(q, s[k]) ELSE q
<1>1. ASSUME U # {} PROVE FALSE
  <2>1. PICK m \in U : \A k \in U : m <= k
    <3>1. U \in SUBSET Nat
      OBVIOUS
    <3> HIDE DEF U
    <3> QED BY <1>1, <3>1, LeastNumber
  <2>2. m \in Nat /\ ~ \E g : PlLeft(s, T, g, m)
    OBVIOUS
  <2>3. PlLeft(s, T, [k \in 0 .. 0 |-> <<>>], 0)
    BY DEF PlLeft
  <2>4. m - 1 \in Nat /\ m # 0
    BY <2>2, <2>3
  <2>5. PICK g : PlLeft(s, T, g, m - 1)
    <3>1. m - 1 \notin U
      <4> HIDE DEF U
      <4> QED BY <2>1, <2>2, <2>4
    <3> QED BY <2>4, <3>1
  <2> DEFINE h == [k \in 0 .. m |-> IF k = m THEN Next1(g[m - 1], m) ELSE g[k]]
  <2>6. PlLeft(s, T, h, m)
    <3>1. ASSUME NEW k \in 0 .. m
          PROVE  h[k] = IF k = 0 THEN <<>> ELSE Next1(h[k - 1], k)
      <4> HIDE DEF Next1, U
      <4>1. CASE k = m
        <5>1. h[k] = Next1(g[m - 1], m) /\ h[m - 1] = g[m - 1]
          BY <2>2, <2>4, <4>1
        <5> QED BY <2>4, <4>1, <5>1
      <4>2. CASE k = 0
        <5>1. g[0] = <<>>
          BY <2>4, <2>5 DEF PlLeft
        <5> QED BY <2>2, <2>4, <4>2, <5>1
      <4>3. CASE k # m /\ k # 0
        <5>1. k \in 0 .. m - 1 /\ k - 1 \in 0 .. m - 1
          BY <2>2, <4>3
        <5>2. g[k] = Next1(g[k - 1], k)
          BY <2>5, <4>3, <5>1 DEF PlLeft, Next1
        <5>3. h[k] = g[k] /\ h[k - 1] = g[k - 1]
          BY <2>2, <4>3, <5>1
        <5> QED BY <4>3, <5>2, <5>3
      <4> QED BY <4>1, <4>2, <4>3
    <3> HIDE DEF U
    <3>2. h = [k \in 0 .. m |-> h[k]]
      OBVIOUS
    <3> DEFINE Put(k) == IF k = 0 THEN <<>> ELSE IF s[k] \in T THEN Append(h[k - 1], s[k]) ELSE h[k - 1]
    <3> HIDE DEF h
    <3>3. [k \in 0 .. m |-> h[k]] = [k \in 0 .. m |-> Put(k)]
      BY <3>1
    <3> QED BY <3>2, <3>3 DEF PlLeft
  <2> QED BY <2>2, <2>6
<1> QED BY <1>1

\* What is left in the end is what the filter answers.
LEMMA PlFilterEnds ==
  ASSUME NEW s, Len(s) \in Nat, NEW T
  PROVE  \E g : PlLeft(s, T, g, Len(s)) /\ Only(s, T) = g[Len(s)]
<1> DEFINE n == Len(s)
           left == CHOOSE g : PlLeft(s, T, g, n)
<1>1. PlLeft(s, T, left, n)
  BY PlFilters
<1>2. Only(s, T) = left[n]
  BY DEF Only, PlLeft
<1> QED BY <1>1, <1>2

\* The elements of one sequence are among the first of another, in their order.
PlAmong(q, s, n) ==
  /\ \A a \in 1 .. Len(q) : \E i \in 1 .. n : q[a] = s[i]
  /\ \A a, b \in 1 .. Len(q) : a < b => \E i, j \in 1 .. n : i < j /\ q[a] = s[i] /\ q[b] = s[j]

\* One more element: kept at the end or left out.
LEMMA PlFilterStep ==
  ASSUME NEW S, NEW s \in Seq(S), NEW T, NEW m \in 1 .. Len(s), NEW q \in Seq(S \cap T), PlAmong(q, s, m - 1)
  PROVE  LET r == IF s[m] \in T THEN Append(q, s[m]) ELSE q
         IN  r \in Seq(S \cap T) /\ PlAmong(r, s, m)
<1>1. m \in Nat /\ Len(q) \in Nat /\ s[m] \in S /\ 1 .. m - 1 \subseteq 1 .. m /\ m \in 1 .. m
  OBVIOUS
<1>2. CASE s[m] \notin T
  <2>1. \A a \in 1 .. Len(q) : \E i \in 1 .. m : q[a] = s[i]
    BY <1>1 DEF PlAmong
  <2>2. ASSUME NEW a \in 1 .. Len(q), NEW b \in 1 .. Len(q), a < b
        PROVE  \E i, j \in 1 .. m : i < j /\ q[a] = s[i] /\ q[b] = s[j]
    <3>1. PICK i \in 1 .. m - 1, j \in 1 .. m - 1 : i < j /\ q[a] = s[i] /\ q[b] = s[j]
      BY <2>2 DEF PlAmong
    <3> QED BY <1>1, <3>1
  <2> QED BY <1>2, <2>1, <2>2 DEF PlAmong
<1>3. CASE s[m] \in T
  <2> DEFINE r == Append(q, s[m])
  <2>1. r \in Seq(S \cap T) /\ Len(r) = Len(q) + 1 /\ r[Len(q) + 1] = s[m]
    BY <1>1, <1>3
  <2>2. \A a \in 1 .. Len(q) : r[a] = q[a]
    BY <1>1, <1>3
  <2> HIDE DEF r
  <2>3. ASSUME NEW a \in 1 .. Len(r) PROVE \E i \in 1 .. m : r[a] = s[i]
    <3>1. CASE a = Len(q) + 1
      BY <1>1, <2>1, <3>1
    <3>2. CASE a # Len(q) + 1
      <4>1. a \in 1 .. Len(q)
        BY <1>1, <2>1, <3>2
      <4> QED BY <1>1, <2>2, <4>1 DEF PlAmong
    <3> QED BY <3>1, <3>2
  <2>4. ASSUME NEW a \in 1 .. Len(r), NEW b \in 1 .. Len(r), a < b
        PROVE  \E i, j \in 1 .. m : i < j /\ r[a] = s[i] /\ r[b] = s[j]
    <3>1. a \in 1 .. Len(q)
      BY <1>1, <2>1, <2>4
    <3>2. CASE b = Len(q) + 1
      <4>1. PICK i \in 1 .. m - 1 : q[a] = s[i]
        BY <3>1 DEF PlAmong
      <4>2. i \in 1 .. m /\ i < m
        BY <1>1
      <4> QED BY <1>1, <2>1, <2>2, <3>1, <3>2, <4>1, <4>2
    <3>3. CASE b # Len(q) + 1
      <4>1. b \in 1 .. Len(q)
        BY <1>1, <2>1, <3>3
      <4>2. PICK i \in 1 .. m - 1, j \in 1 .. m - 1 : i < j /\ q[a] = s[i] /\ q[b] = s[j]
        BY <2>4, <3>1, <4>1 DEF PlAmong
      <4> QED BY <1>1, <2>2, <3>1, <4>1, <4>2
    <3> QED BY <3>2, <3>3
  <2>5. PlAmong(r, s, m)
    BY <2>3, <2>4 DEF PlAmong
  <2> QED BY <1>3, <2>1, <2>5 DEF r
<1> QED BY <1>2, <1>3

\* A filter keeps members of its set, in their order, and makes up none.
LEMMA PlFiltered ==
  ASSUME NEW S, NEW s \in Seq(S), NEW T
  PROVE  Only(s, T) \in Seq(S \cap T) /\ PlAmong(Only(s, T), s, Len(s))
<1> DEFINE n == Len(s)
<1>1. n \in Nat
  OBVIOUS
<1>2. PICK g : PlLeft(s, T, g, n) /\ Only(s, T) = g[n]
  BY <1>1, PlFilterEnds
<1> DEFINE Kept(k) == g[k] \in Seq(S \cap T) /\ PlAmong(g[k], s, k)
           U == {k \in 0 .. n : ~Kept(k)}
<1>3. ASSUME U # {} PROVE FALSE
  <2>1. PICK m \in U : \A k \in U : m <= k
    <3>1. U \in SUBSET Nat
      BY <1>1
    <3> HIDE DEF U
    <3> QED BY <1>3, <3>1, LeastNumber
  <2>2. m \in 0 .. n /\ ~Kept(m)
    BY <2>1
  <2>3. CASE m = 0
    <3>1. g[m] = <<>>
      BY <1>1, <1>2, <2>3 DEF PlLeft
    <3>2. Kept(m)
      BY <3>1 DEF PlAmong
    <3> QED BY <2>2, <3>2
  <2>4. CASE m # 0
    <3>1. m - 1 \in 0 .. n /\ m \in 1 .. n
      BY <1>1, <2>2, <2>4
    <3>2. Kept(m - 1)
      <4>1. m - 1 \notin U
        <5> HIDE DEF U
        <5> QED BY <1>1, <2>1, <2>2, <3>1
      <4> QED BY <3>1, <4>1
    <3>3. g[m] = IF s[m] \in T THEN Append(g[m - 1], s[m]) ELSE g[m - 1]
      BY <1>1, <1>2, <2>2, <2>4 DEF PlLeft
    <3>4. Kept(m)
      BY <3>1, <3>2, <3>3, PlFilterStep
    <3> QED BY <2>2, <3>4
  <2> QED BY <2>3, <2>4
<1>4. n \in 0 .. n
  BY <1>1
<1>5. Kept(n)
  BY <1>3, <1>4
<1> QED BY <1>2, <1>5

\* What is a sequence of some things is one of more.
LEMMA PlWider ==
  ASSUME NEW S, NEW R, S \subseteq R, NEW s \in Seq(S)
  PROVE  s \in Seq(R)
OBVIOUS

\* The last element, or another.
LEMMA PlLast ==
  ASSUME NEW S, NEW s \in Seq(S), NEW other \in S
  PROVE  LastOr(s, other) \in S
<1>1. CASE s = <<>>
  BY <1>1 DEF LastOr
<1>2. CASE s # <<>>
  <2>1. Len(s) \in 1 .. Len(s)
    BY <1>2
  <2> QED BY <1>2, <2>1 DEF LastOr
<1> QED BY <1>1, <1>2

\* The controls hold nothing that is not held down, each pointer once.
PlTouches == [id : Pointers, action : Actions]
PlHands == [keys : SUBSET Codes, dirs : Seq(Directions), pointers : Seq(PlTouches),
            buffered : Directions, armed : BOOLEAN, owes : BOOLEAN]
PlApart(s) == \A j, k \in 1 .. Len(s) : s[j].id = s[k].id => j = k
PlHand(h) == h \in PlHands /\ h.dirs \in Seq(h.keys) /\ PlApart(h.pointers)

\* What changes nothing that is held keeps it so.
LEMMA PlSameHeld ==
  ASSUME NEW h, PlHand(h), NEW buffered \in Directions, NEW armed \in BOOLEAN, NEW owes \in BOOLEAN
  PROVE  PlHand([h EXCEPT !.buffered = buffered, !.armed = armed, !.owes = owes])
BY DEF PlHand, PlHands

\* To arm is to change nothing else.
LEMMA PlArms ==
  ASSUME NEW h, PlHand(h), NEW f
  PROVE  PlHand(Arm(h, f)) /\ Arm(h, f).owes = h.owes
BY DEF Arm, PlHand, PlHands

\* A direction let go of is not among those held.
LEMMA PlWithout ==
  ASSUME NEW s \in Seq(Directions), NEW keys, s \in Seq(keys), NEW d
  PROVE  Without(s, d) \in Seq(Directions) /\ Without(s, d) \in Seq(keys \ {d})
<1>1. /\ Without(s, d) \in Seq(Directions \cap (Directions \ {d}))
      /\ Without(s, d) \in Seq(keys \cap (Directions \ {d}))
  BY PlFiltered DEF Without
<1> QED BY <1>1, PlWider

\* A key goes down.
LEMMA PlPresses ==
  ASSUME NEW h, PlHand(h), NEW code \in Codes, NEW f
  PROVE  PlHand(Press(h, code, f)) /\ Press(h, code, f).owes = h.owes
<1>1. CASE code \in h.keys
  BY <1>1 DEF Press
<1>2. CASE code \notin h.keys /\ code = "Space"
  <2> DEFINE g == [h EXCEPT !.keys = @ \cup {code}]
  <2>1. g \in PlHands /\ g.dirs = h.dirs /\ g.keys = h.keys \cup {code} /\ g.pointers = h.pointers /\ g.owes = h.owes
    BY DEF PlHand, PlHands
  <2>2. g.dirs \in Seq(g.keys)
    BY <2>1, PlWider DEF PlHand
  <2>3. PlHand(g)
    BY <2>1, <2>2 DEF PlHand
  <2> HIDE DEF g
  <2>4. Press(h, code, f) = Arm(g, f)
    BY <1>2 DEF Press, g
  <2> QED BY <2>1, <2>3, <2>4, PlArms
<1>3. CASE code \notin h.keys /\ code # "Space"
  <2> DEFINE rest == Without(h.dirs, code)
             g == [h EXCEPT !.keys = @ \cup {code}, !.dirs = Append(rest, code), !.buffered = code]
  <2>1. code \in Directions
    BY <1>3, PlayAssumption
  <2>2. rest \in Seq(Directions) /\ rest \in Seq(h.keys \ {code})
    BY PlWithout DEF PlHand, PlHands
  <2>3. rest \in Seq(h.keys \cup {code})
    BY <2>2, PlWider
  <2> HIDE DEF rest
  <2>4. Append(rest, code) \in Seq(Directions) /\ Append(rest, code) \in Seq(h.keys \cup {code})
    BY <2>1, <2>2, <2>3
  <2>5. /\ g \in PlHands /\ g.dirs = Append(rest, code) /\ g.keys = h.keys \cup {code}
        /\ g.pointers = h.pointers /\ g.owes = h.owes
    BY <2>1, <2>4 DEF PlHand, PlHands
  <2>6. Press(h, code, f) = g
    BY <1>3 DEF Press, rest
  <2> HIDE DEF g
  <2> QED BY <2>4, <2>5, <2>6 DEF PlHand
<1> QED BY <1>1, <1>2, <1>3

\* A key comes up.
LEMMA PlReleases ==
  ASSUME NEW h, PlHand(h), NEW code \in Codes
  PROVE  PlHand(Release(h, code)) /\ Release(h, code).owes = h.owes
<1> DEFINE rest == Without(h.dirs, code)
           g == [h EXCEPT !.keys = @ \ {code}, !.dirs = rest]
<1>1. rest \in Seq(Directions) /\ rest \in Seq(h.keys \ {code})
  BY PlWithout DEF PlHand, PlHands
<1>2. Release(h, code) = g
  BY DEF Release
<1> HIDE DEF rest
<1>3. g \in PlHands /\ g.dirs = rest /\ g.keys = h.keys \ {code} /\ g.pointers = h.pointers /\ g.owes = h.owes
  BY <1>1 DEF PlHand, PlHands
<1> HIDE DEF g
<1> QED BY <1>1, <1>2, <1>3 DEF PlHand

\* The other pointers stay, each of them once.
LEMMA PlOthers ==
  ASSUME NEW s \in Seq(PlTouches), PlApart(s), NEW id
  PROVE  /\ Lifted(s, id) \in Seq(PlTouches) /\ PlApart(Lifted(s, id))
         /\ \A k \in 1 .. Len(Lifted(s, id)) : Lifted(s, id)[k].id # id
<1> DEFINE T == [id : Pointers \ {id}, action : Actions]
           q == Lifted(s, id)
<1>1. q \in Seq(PlTouches \cap T) /\ PlAmong(q, s, Len(s)) /\ Len(s) \in Nat
  <2>1. q = Only(s, T)
    BY DEF Lifted
  <2> HIDE DEF q, T
  <2> QED BY <2>1, PlFiltered
<1> HIDE DEF q
<1>2. q \in Seq(PlTouches) /\ Len(q) \in Nat
  BY <1>1, PlWider
<1>3. ASSUME NEW k \in 1 .. Len(q) PROVE q[k].id # id
  <2>1. q[k] \in T
    BY <1>1
  <2> QED BY <2>1
<1>4. ASSUME NEW j \in 1 .. Len(q), NEW k \in 1 .. Len(q), j < k, q[j].id = q[k].id PROVE FALSE
  <2>1. PICK a \in 1 .. Len(s), b \in 1 .. Len(s) : a < b /\ q[j] = s[a] /\ q[k] = s[b]
    BY <1>1, <1>4 DEF PlAmong
  <2>2. a # b /\ s[a].id = s[b].id
    BY <1>4, <2>1
  <2> QED BY <2>2 DEF PlApart
<1>5. PlApart(q)
  <2>1. ASSUME NEW j \in 1 .. Len(q), NEW k \in 1 .. Len(q), q[j].id = q[k].id PROVE j = k
    <3>1. ~(j < k) /\ ~(k < j)
      BY <1>4, <2>1
    <3> QED BY <1>2, <3>1
  <2> QED BY <2>1 DEF PlApart
<1> QED BY <1>2, <1>3, <1>5 DEF q

\* A pointer goes down.
LEMMA PlTouched ==
  ASSUME NEW h, PlHand(h), NEW id \in Pointers, NEW action \in Actions, NEW f
  PROVE  PlHand(Touch(h, id, action, f)) /\ Touch(h, id, action, f).owes = h.owes
<1> DEFINE rest == Lifted(h.pointers, id)
           one == [id |-> id, action |-> action]
           more == Append(rest, one)
           g == [h EXCEPT !.pointers = more]
<1>1. rest \in Seq(PlTouches) /\ PlApart(rest) /\ \A k \in 1 .. Len(rest) : rest[k].id # id
  BY PlOthers DEF PlHand, PlHands
<1> HIDE DEF rest
<1>2. one \in PlTouches /\ one.id = id
  BY DEF PlTouches
<1> HIDE DEF one
<1>3. /\ more \in Seq(PlTouches) /\ Len(rest) \in Nat /\ Len(more) = Len(rest) + 1
      /\ more[Len(rest) + 1] = one /\ \A k \in 1 .. Len(rest) : more[k] = rest[k]
  BY <1>1, <1>2
<1> HIDE DEF more
<1>4. PlApart(more)
  <2>1. ASSUME NEW j \in 1 .. Len(more), NEW k \in 1 .. Len(more), more[j].id = more[k].id PROVE j = k
    <3>1. CASE j \in 1 .. Len(rest) /\ k \in 1 .. Len(rest)
      BY <1>1, <1>3, <2>1, <3>1 DEF PlApart
    <3>2. CASE j \in 1 .. Len(rest) /\ k \notin 1 .. Len(rest)
      <4>1. k = Len(rest) + 1
        BY <1>3, <3>2
      <4> QED BY <1>1, <1>2, <1>3, <2>1, <3>2, <4>1
    <3>3. CASE j \notin 1 .. Len(rest) /\ k \in 1 .. Len(rest)
      <4>1. j = Len(rest) + 1
        BY <1>3, <3>3
      <4> QED BY <1>1, <1>2, <1>3, <2>1, <3>3, <4>1
    <3>4. CASE j \notin 1 .. Len(rest) /\ k \notin 1 .. Len(rest)
      BY <1>3, <3>4
    <3> QED BY <3>1, <3>2, <3>3, <3>4
  <2> QED BY <2>1 DEF PlApart
<1>5. g \in PlHands /\ g.dirs = h.dirs /\ g.keys = h.keys /\ g.pointers = more /\ g.owes = h.owes
  BY <1>3 DEF PlHand, PlHands
<1>6. PlHand(g)
  BY <1>4, <1>5 DEF PlHand
<1>7. Touch(h, id, action, f) = IF action = "trace" THEN Arm(g, f) ELSE [g EXCEPT !.buffered = action]
  BY DEF Touch, more, rest, one
<1> HIDE DEF g
<1>8. CASE action = "trace"
  BY <1>5, <1>6, <1>7, <1>8, PlArms
<1>9. CASE action # "trace"
  <2>1. action \in Directions
    BY <1>9, PlayAssumption
  <2> QED BY <1>5, <1>6, <1>7, <1>9, <2>1 DEF PlHand, PlHands
<1> QED BY <1>8, <1>9

\* A pointer comes up, or is taken away with what it asked for.
LEMMA PlLifts ==
  ASSUME NEW h, PlHand(h), NEW id \in Pointers, NEW g \in {Lift(h, id), CancelTouch(h, id)}
  PROVE  PlHand(g) /\ g.owes = h.owes
<1> DEFINE rest == Lifted(h.pointers, id)
           l == [h EXCEPT !.pointers = rest]
<1>1. rest \in Seq(PlTouches) /\ PlApart(rest)
  BY PlOthers DEF PlHand, PlHands
<1> HIDE DEF rest
<1>2. l \in PlHands /\ l.dirs = h.dirs /\ l.keys = h.keys /\ l.pointers = rest /\ l.owes = h.owes
  BY <1>1 DEF PlHand, PlHands
<1>3. PlHand(l) /\ l.owes = h.owes /\ Lift(h, id) = l
  BY <1>1, <1>2 DEF PlHand, Lift, rest
<1> HIDE DEF l
<1>4. CASE g = Lift(h, id)
  BY <1>3, <1>4
<1>5. CASE g = CancelTouch(h, id)
  <2>1. PICK armed \in BOOLEAN, buffered \in Directions : g = [l EXCEPT !.armed = armed, !.buffered = buffered]
    <3> DEFINE acts == {p.action : p \in {p \in {h.pointers[k] : k \in 1 .. Len(h.pointers)} : p.id = id}}
    <3>1. g = [l EXCEPT !.armed = l.armed /\ "trace" \notin acts,
                        !.buffered = IF "trace" \notin acts /\ l.buffered \in acts THEN "idle" ELSE l.buffered]
      BY <1>3, <1>5 DEF CancelTouch
    <3> HIDE DEF acts
    <3>2. (l.armed /\ "trace" \notin acts) \in BOOLEAN
      OBVIOUS
    <3>3. (IF "trace" \notin acts /\ l.buffered \in acts THEN "idle" ELSE l.buffered) \in Directions
      BY <1>2 DEF PlHands, Directions
    <3> QED BY <3>1, <3>2, <3>3
  <2> QED BY <1>2, <1>3, <2>1 DEF PlHand, PlHands
<1> QED BY <1>4, <1>5

\* What the controls ask for is an input.
LEMMA PlSamples ==
  ASSUME NEW h, PlHand(h), NEW f
  PROVE  Sample(h, f) \in Inputs
<1> DEFINE acts == [k \in 1 .. Len(h.pointers) |-> h.pointers[k].action]
           touched == Only(acts, Directions)
           held == LastOr(h.dirs, LastOr(touched, "idle"))
<1>1. acts \in Seq(Actions)
  <2>1. h.pointers \in Seq(PlTouches) /\ Len(h.pointers) \in Nat
    BY DEF PlHand, PlHands
  <2>2. \A k \in 1 .. Len(h.pointers) : h.pointers[k] \in PlTouches
    BY <2>1
  <2>3. \A p \in PlTouches : p.action \in Actions
    BY DEF PlTouches
  <2> QED BY <2>1, <2>2, <2>3
<1>2. touched \in Seq(Actions \cap Directions)
  BY <1>1, PlFiltered
<1>3. touched \in Seq(Directions)
  BY <1>2, PlWider
<1>4. "idle" \in Directions /\ h.dirs \in Seq(Directions) /\ h.buffered \in Directions
  BY DEF PlHand, PlHands, Directions
<1>5. held \in Directions
  BY <1>3, <1>4, PlLast
<1>6. Steered(h, f) = IF Moves(f) /\ held = "idle" THEN h.buffered ELSE held
  BY DEF Steered
<1> HIDE DEF held
<1>7. Steered(h, f) \in Directions
  BY <1>4, <1>5, <1>6
<1> QED BY <1>4, <1>7 DEF Sample, Inputs, Idle

\* To be asked and to be told of a tick changes nothing that is held.
LEMMA PlSampledHeld ==
  ASSUME NEW h, PlHand(h), NEW f, NEW g
  PROVE  /\ PlHand(Sampled(h, f)) /\ PlHand(Observe(Sampled(h, f), g))
         /\ TraceEnded(g) => Observe(Sampled(h, f), g).owes
<1> DEFINE t == Sampled(h, f)
<1>1. PlHand(t)
  BY DEF PlHand, PlHands, Sampled, Directions
<1> HIDE DEF t
<1>2. PlHand(Observe(t, g)) /\ (TraceEnded(g) => Observe(t, g).owes)
  BY <1>1 DEF PlHand, PlHands, Observe, TraceEnded
<1> QED BY <1>1, <1>2 DEF t

\* The next stage begins with what is held, and nothing else.
LEMMA PlHeldOver ==
  ASSUME NEW h, PlHand(h)
  PROVE  PlHand(HeldOver(h))
BY DEF HeldOver, PlHand, PlHands, Directions

\* Nothing is held.
LEMMA PlNothing == PlHand(Released)
BY DEF Released, PlHand, PlHands, PlApart, Directions

-----------------------------------------------------------------------------
(* The invariant of the page                                               *)

PlReplica == [field : Fields, version : Nat, ok : BOOLEAN]
PlStage == [own : BOOLEAN, verifies : BOOLEAN]

PlTyped ==
  /\ Sound(field) /\ Sound(replica.field) /\ replica \in PlReplica /\ PlHand(human)
  /\ mode \in Modes /\ context \in Contexts /\ level \in 1 .. Stages
  /\ starting \in Contexts \cup {"no"} /\ dropped \in BOOLEAN
  /\ record \in Seq(PlStage)

\* A field that runs has room for its stage, and so has the run asked for next.
PlRoom ==
  /\ Len(record) <= MaxRecord + 1
  /\ Running(field) => Len(record) <= MaxRecord
  /\ starting # "no" => Len(record) <= MaxRecord
  /\ Running(field) /\ starting # "no" => Len(record) < MaxRecord

\* Whenever the engine waits for the button to be let go, the controls know.
PlOwed == field.release => human.owes

\* Two fields that become the same with every input.
PlAlike(f, g) == \A i \in Inputs : SetInput(f, i) = SetInput(g, i)

\* As long as no release was dropped, the replay so far goes on like the field.
PlReplays == ~dropped /\ Running(field) => replica.ok /\ PlAlike(field, replica.field)

PlVerifies == \A k \in 1 .. Len(record) : record[k].verifies

PlInv == PlTyped /\ PlRoom /\ PlOwed /\ PlReplays /\ PlVerifies

\* The page begins with nothing held and nothing recorded.
LEMMA PlBegins == Init => PlInv
<1> SUFFICES ASSUME Init PROVE PlInv
  OBVIOUS
<1>1. Sound(NewField) /\ NewField \in Fields /\ ~NewField.release
  BY NewFieldSound DEF Sound, Good, NewField
<1>2. PlTyped
  <2>1. NewReplay \in PlReplica /\ NewReplay.field = NewField
    BY <1>1 DEF NewReplay, PlReplica
  <2>2. 1 \in 1 .. Stages /\ <<>> \in Seq(PlStage)
    BY PlayAssumption
  <2> QED BY <1>1, <2>1, <2>2, PlNothing DEF Init, PlTyped, Modes, Contexts
<1>3. PlRoom /\ PlVerifies
  BY PlayAssumption DEF Init, PlRoom, PlVerifies
<1>4. PlOwed /\ PlReplays
  BY <1>1 DEF Init, PlOwed, PlReplays, NewReplay, PlAlike
<1> QED BY <1>2, <1>3, <1>4 DEF PlInv

\* The properties follow.
LEMMA PlIsEnough == PlInv => NoSwallowedCut /\ StageReplaysVerify
<1> SUFFICES ASSUME PlInv PROVE NoSwallowedCut /\ StageReplaysVerify
  OBVIOUS
<1>1. \A k \in 1 .. Len(human.dirs) : human.dirs[k] \in human.keys \cap Directions
  <2>1. human.dirs \in Seq(human.keys) /\ human.dirs \in Seq(Directions)
    BY DEF PlInv, PlTyped, PlHand, PlHands
  <2> QED BY <2>1
<1>2. human.keys \subseteq Codes /\ human.buffered \in Directions
  BY DEF PlInv, PlTyped, PlHand, PlHands
<1>3. TypeOK
  BY <1>1, <1>2 DEF PlInv, PlTyped, PlHand, PlApart, PlRoom, TypeOK
<1>4. Sample(human, field).draw = "fast" => ~field.release
  BY DEF PlInv, PlOwed, Sample, Idle
<1> QED BY <1>3, <1>4 DEF PlInv, PlVerifies, NoSwallowedCut, StageReplaysVerify

\* A control that is used: the fields and the record stay.
LEMMA PlControls ==
  ASSUME PlInv, Untouched, PlHand(human'), human'.owes = human.owes
  PROVE  PlInv'
BY DEF PlInv, PlTyped, PlRoom, PlOwed, PlReplays, PlAlike, PlVerifies, Untouched, Page

\* What an input sets, another sets again.
LEMMA PlSetTwice ==
  ASSUME NEW f, f \in Fields, ~f.release, NEW i \in Inputs
  PROVE  SetInput(SetInput(f, Idle), i) = SetInput(f, i)
<1>1. Idle \in Inputs
  BY DEF Idle, Inputs, Directions
<1> QED BY <1>1 DEF SetInput, Fields

\* The controls are cleared, and with them the engine's input.
LEMMA PlClears ==
  ASSUME PlInv, Clear, UNCHANGED replica, mode' \in Modes, context' \in Contexts, level' \in 1 .. Stages,
         UNCHANGED <<starting, record>>
  PROVE  PlInv'
<1>1. /\ Sound(field) /\ field \in Fields /\ Idle \in Inputs /\ dropped \in BOOLEAN /\ Idle.draw = "off"
  BY DEF PlInv, PlTyped, Sound, Good, Idle, Inputs, Directions
<1>2. /\ Sound(field') /\ field'.status = field.status /\ ~field'.release
  BY <1>1, SetInputSound DEF Clear
<1>3. PlTyped'
  BY <1>1, <1>2, PlNothing DEF PlInv, PlTyped, Clear
<1>4. PlRoom' /\ PlOwed' /\ PlVerifies'
  BY <1>2 DEF PlInv, PlRoom, PlOwed, PlVerifies, Running
<1>5. PlReplays'
  <2> SUFFICES ASSUME ~dropped', Running(field)' PROVE replica'.ok /\ PlAlike(field', replica'.field)
    BY DEF PlReplays
  <2>1. Running(field) /\ ~dropped /\ ~field.release
    BY <1>2 DEF Clear, Running
  <2>2. replica.ok /\ PlAlike(field, replica.field)
    BY <2>1 DEF PlInv, PlReplays
  <2>3. PlAlike(field', field)
    BY <1>1, <2>1, PlSetTwice DEF PlAlike, Clear
  <2> QED BY <2>2, <2>3 DEF PlAlike
<1> QED BY <1>3, <1>4, <1>5 DEF PlInv

\* A new field, and a record that has room for it.
LEMMA PlLaunches ==
  ASSUME PlInv, NEW h, PlHand(h), NewSession(h), context' \in Contexts, level' \in 1 .. Stages,
         starting' \in Contexts \cup {"no"}, record' \in Seq(PlStage), PlVerifies',
         Len(record') <= MaxRecord, starting' # "no" => Len(record') < MaxRecord
  PROVE  PlInv'
<1>1. Sound(NewField) /\ NewField \in Fields /\ ~NewField.release
  BY NewFieldSound DEF Sound, Good, NewField
<1>2. NewReplay \in PlReplica /\ NewReplay.field = NewField /\ NewReplay.ok
  BY <1>1 DEF NewReplay, PlReplica
<1>3. PlTyped'
  BY <1>1, <1>2 DEF PlTyped, NewSession, Modes
<1>4. PlRoom'
  BY PlayAssumption DEF PlRoom
<1>5. PlOwed' /\ PlReplays'
  BY <1>1, <1>2 DEF NewSession, PlOwed, PlReplays, PlAlike
<1> QED BY <1>3, <1>4, <1>5 DEF PlInv

\* A replay of a sound field is one, whatever it is given.
LEMMA PlReplaying ==
  ASSUME NEW r \in PlReplica, Sound(r.field), NEW tick, NEW i \in Inputs, NEW events
  PROVE  ReplayTick(r, tick, i, 0, events) \in PlReplica /\ Sound(ReplayTick(r, tick, i, 0, events).field)
<1> DEFINE next == Step(SetInput(r.field, i))
<1>1. Sound(SetInput(r.field, i))
  BY SetInputSound
<1>2. Sound(next) /\ next \in Fields
  <2>1. Sound(next)
    BY <1>1, StepSound, StepOver
  <2> QED BY <2>1 DEF Sound, Good
<1> DEFINE u == ReplayTick(r, tick, i, 0, events)
<1>3. u = Replayed(r, next, tick, 0, events)
  BY DEF ReplayTick
<1> SUFFICES u \in PlReplica /\ Sound(u.field)
  OBVIOUS
<1> HIDE DEF next, u
<1>4. CASE Accepted(r, next, tick, events)
  <2>1. u = [field |-> next, version |-> 0, ok |-> TRUE]
    BY <1>3, <1>4 DEF Replayed
  <2>2. u.field = next /\ u \in PlReplica
    BY <1>2, <2>1 DEF PlReplica
  <2> QED BY <1>2, <2>2
<1>5. CASE ~Accepted(r, next, tick, events)
  <2>1. u = [r EXCEPT !.ok = FALSE]
    BY <1>3, <1>5 DEF Replayed
  <2> QED BY <2>1 DEF PlReplica
<1> QED BY <1>4, <1>5

\* A tick: what the page plays and what the replay plays go on alike, and the
\* record of a stage that ends holds up.
LEMMA PlTicks == ASSUME PlInv, Tick PROVE PlInv'
<1> DEFINE in == Sample(human, field)
           given == SetInput(field, in)
           after == Step(given)
<1>1. /\ replica' = ReplayTick(replica, after.tick, in, 0, after.events)
      /\ record' = IF Running(after) THEN record ELSE Append(record, Recorded(replica', after))
      /\ IF ~Running(after) /\ LastOfRun(after)
         THEN field' = SetInput(after, Idle) /\ human' = Released
         ELSE field' = after /\ human' = Observe(Sampled(human, field), after)
      /\ Running(field) /\ UNCHANGED <<mode, started, context, level, starting, dropped>>
  BY DEF Tick
<1>2. /\ Sound(field) /\ Sound(replica.field) /\ replica \in PlReplica /\ PlHand(human)
      /\ in \in Inputs /\ Idle \in Inputs /\ Idle.draw = "off"
  BY PlSamples DEF PlInv, PlTyped, Idle, Inputs, Directions
<1>3. /\ Sound(given) /\ given.tick = field.tick /\ given.status = "running"
      /\ given.release = (field.release /\ in.draw # "off")
  BY <1>1, <1>2, SetInputSound DEF Running
<1>4. ~given.release
  <2>1. human.owes => in.draw = "off"
    BY DEF Sample, Idle
  <2> QED BY <1>3, <2>1 DEF PlInv, PlOwed
<1> HIDE DEF in
<1>5. Sound(after) /\ after.tick = field.tick + 1 /\ ReleaseIsTold(after)
  BY <1>3, <1>4, StepSound
<1>6. replica' \in PlReplica /\ Sound(replica'.field)
  BY <1>1, <1>2, PlReplaying
<1>7. ~dropped => replica' = [field |-> after, version |-> 0, ok |-> TRUE]
  <2> SUFFICES ASSUME ~dropped PROVE replica' = [field |-> after, version |-> 0, ok |-> TRUE]
    OBVIOUS
  <2>1. replica.ok /\ SetInput(replica.field, in) = given
    BY <1>1, <1>2 DEF PlInv, PlReplays, PlAlike
  <2>2. replica.field.tick = given.tick
    BY <1>2, <2>1, SetInputSound
  <2> HIDE DEF given
  <2>3. replica' = Replayed(replica, after, after.tick, 0, after.events)
    BY <1>1, <2>1 DEF ReplayTick
  <2>4. Accepted(replica, after, after.tick, after.events)
    BY <1>3, <1>5, <2>1, <2>2 DEF Accepted
  <2> QED BY <2>3, <2>4 DEF Replayed
<1> HIDE DEF given, after
<1>8. Recorded(replica', after) \in PlStage /\ Recorded(replica', after).verifies
  <2>1. dropped \/ Matches(replica', after, 0)
    BY <1>7 DEF Matches
  <2> QED BY <2>1 DEF Recorded, PlStage
<1>9. /\ record' \in Seq(PlStage) /\ PlVerifies'
      /\ Len(record') = IF Running(after) THEN Len(record) ELSE Len(record) + 1
  <2>1. record \in Seq(PlStage) /\ Len(record) \in Nat /\ \A k \in 1 .. Len(record) : record[k].verifies
    BY DEF PlInv, PlTyped, PlVerifies
  <2>2. CASE Running(after)
    BY <1>1, <2>1, <2>2 DEF PlVerifies
  <2>3. CASE ~Running(after)
    <3> DEFINE last == Recorded(replica', after)
    <3>1. record' = Append(record, last) /\ last \in PlStage /\ last.verifies
      BY <1>1, <1>8, <2>3
    <3> HIDE DEF last
    <3>2. /\ record' \in Seq(PlStage) /\ Len(record') = Len(record) + 1
          /\ record'[Len(record) + 1] = last /\ \A k \in 1 .. Len(record) : record'[k] = record[k]
      BY <2>1, <3>1
    <3>3. ASSUME NEW k \in 1 .. Len(record') PROVE record'[k].verifies
      BY <2>1, <3>1, <3>2, <3>3
    <3> QED BY <2>3, <3>2, <3>3 DEF PlVerifies
  <2> QED BY <2>2, <2>3
<1>10. Len(record) \in Nat /\ MaxRecord \in Nat \ {0}
  BY PlayAssumption DEF PlInv, PlTyped
<1>11. CASE ~Running(after) /\ LastOfRun(after)
  <2>1. /\ Sound(field') /\ ~Running(field)' /\ ~field'.release
    <3>1. field' = SetInput(after, Idle)
      BY <1>1, <1>11
    <3> QED BY <1>2, <1>5, <1>11, <3>1, SetInputSound DEF Running
  <2>2. PlTyped'
    BY <1>1, <1>6, <1>9, <1>11, <2>1, PlNothing DEF PlInv, PlTyped
  <2>3. PlRoom'
    <3>1. Len(record') = Len(record) + 1
      BY <1>9, <1>11
    <3> QED BY <1>1, <1>10, <2>1, <3>1 DEF PlInv, PlRoom
  <2>4. PlOwed' /\ PlReplays'
    BY <2>1 DEF PlOwed, PlReplays
  <2> QED BY <1>9, <2>2, <2>3, <2>4 DEF PlInv
<1>12. CASE Running(after) \/ ~LastOfRun(after)
  <2>1. field' = after /\ human' = Observe(Sampled(human, field), after)
    BY <1>1, <1>12
  <2>2. PlHand(human') /\ (TraceEnded(after) => human'.owes)
    BY <1>2, <2>1, PlSampledHeld
  <2>3. PlTyped'
    BY <1>1, <1>5, <1>6, <1>9, <2>1, <2>2 DEF PlInv, PlTyped
  <2>4. PlRoom'
    BY <1>1, <1>9, <1>10, <2>1 DEF PlInv, PlRoom
  <2>5. PlOwed'
    BY <1>5, <2>1, <2>2 DEF PlOwed, ReleaseIsTold
  <2>6. PlReplays'
    BY <1>1, <1>7, <2>1 DEF PlReplays, PlAlike
  <2> QED BY <1>9, <2>3, <2>4, <2>5, <2>6 DEF PlInv
<1> QED BY <1>11, <1>12

\* Every step keeps it.
LEMMA PlStep == PlInv /\ [Next]_vars => PlInv'
<1> SUFFICES ASSUME PlInv, [Next]_vars PROVE PlInv'
  OBVIOUS
<1>1. /\ PlHand(human) /\ mode \in Modes /\ context \in Contexts /\ level \in 1 .. Stages /\ Stages \in Nat \ {0}
      /\ starting \in Contexts \cup {"no"} /\ record \in Seq(PlStage) /\ Len(record) \in Nat
      /\ MaxRecord \in Nat \ {0} /\ <<>> \in Seq(PlStage) /\ Len(<<>>) = 0
  BY PlayAssumption DEF PlInv, PlTyped
<1>2. CASE UNCHANGED vars
  BY <1>2 DEF vars, PlInv, PlTyped, PlRoom, PlOwed, PlReplays, PlAlike, PlVerifies
<1>3. CASE KeyDown
  BY <1>1, <1>3, PlPresses, PlControls DEF KeyDown
<1>4. CASE KeyUp
  BY <1>1, <1>4, PlReleases, PlControls DEF KeyUp
<1>5. CASE PointerDown
  BY <1>1, <1>5, PlTouched, PlControls DEF PointerDown
<1>6. CASE PointerEnd
  BY <1>1, <1>6, PlLifts, PlControls DEF PointerEnd
<1>7. CASE Click
  <2>1. PICK action \in Actions : human' = IF action = "trace" THEN Arm(human, field)
                                           ELSE [human EXCEPT !.buffered = action]
    BY <1>7 DEF Click
  <2>2. PlHand(human') /\ human'.owes = human.owes
    <3>1. CASE action = "trace"
      BY <1>1, <2>1, <3>1, PlArms
    <3>2. CASE action # "trace"
      <4>1. action \in Directions
        BY <3>2, PlayAssumption
      <4> QED BY <1>1, <2>1, <3>2, <4>1 DEF PlHand, PlHands
    <3> QED BY <3>1, <3>2
  <2> QED BY <1>7, <2>2, PlControls DEF Click
<1>8. CASE Blur
  BY <1>1, <1>8, PlClears DEF Blur, Page
<1>9. CASE HowToPlay
  BY <1>1, <1>9, PlClears DEF HowToPlay, Page
<1>10. ASSUME NEW m \in Modes, SetMode(m) PROVE PlInv'
  <2>1. mode' \in Modes /\ context' \in Contexts /\ level' \in 1 .. Stages
    BY <1>1, <1>10 DEF SetMode, Contexts
  <2> QED BY <1>10, <2>1, PlClears DEF SetMode
<1>11. CASE Tick
  BY <1>11, PlTicks
<1>12. CASE Advance
  <2>1. PlHand(HeldOver(human)) /\ level' \in 1 .. Stages
    BY <1>1, <1>12, PlHeldOver DEF Advance
  <2>2. PlVerifies' /\ Len(record') <= MaxRecord
    BY <1>1, <1>12 DEF Advance, PlInv, PlVerifies
  <2> QED BY <1>1, <1>12, <2>1, <2>2, PlLaunches DEF Advance
<1>13. CASE RestartField
  <2>1. PlVerifies'
    BY <1>13 DEF RestartField, PlVerifies
  <2> QED BY <1>1, <1>13, <2>1, PlNothing, PlLaunches DEF RestartField
<1>14. ASSUME NEW c \in Contexts, BeginRun(c) PROVE PlInv'
  <2>1. PlTyped'
    BY <1>1, <1>14 DEF BeginRun, PlInv, PlTyped
  <2>2. PlRoom' /\ PlVerifies'
    BY <1>1, <1>14 DEF BeginRun, PlRoom, PlVerifies
  <2>3. PlOwed' /\ PlReplays'
    BY <1>14 DEF BeginRun, PlInv, PlOwed, PlReplays, PlAlike, Running
  <2> QED BY <2>1, <2>2, <2>3 DEF PlInv
<1>15. CASE Launch
  <2> DEFINE carried == [k \in DOMAIN record |-> [record[k] EXCEPT !.own = FALSE]]
  <2>1. record' = carried /\ starting # "no" /\ NewSession(Released)
        /\ context' = starting /\ starting' = "no" /\ level' = 1
    BY <1>15 DEF Launch
  <2>2. DOMAIN record = 1 .. Len(record)
    BY <1>1
  <2>3. \A k \in 1 .. Len(record) : record[k] \in PlStage /\ record[k].verifies
    BY <1>1 DEF PlInv, PlVerifies
  <2>4. \A k \in 1 .. Len(record) : [record[k] EXCEPT !.own = FALSE] \in PlStage /\ [record[k] EXCEPT !.own = FALSE].verifies
    BY <2>3 DEF PlStage
  <2>5. carried \in Seq(PlStage) /\ Len(carried) = Len(record) /\ \A k \in 1 .. Len(carried) : carried[k].verifies
    <3> DEFINE Carry(k) == [record[k] EXCEPT !.own = FALSE]
    <3>1. carried = [k \in 1 .. Len(record) |-> Carry(k)]
      BY <2>2
    <3>2. \A k \in 1 .. Len(record) : Carry(k) \in PlStage /\ Carry(k).verifies
      BY <2>4
    <3> HIDE DEF Carry, carried
    <3>3. carried \in Seq(PlStage) /\ Len(carried) = Len(record)
      BY <1>1, <3>1, <3>2
    <3>4. \A k \in 1 .. Len(record) : carried[k] = Carry(k)
      BY <3>1
    <3> QED BY <3>2, <3>3, <3>4
  <2> HIDE DEF carried
  <2>6. PlVerifies' /\ Len(record') <= MaxRecord
    BY <2>1, <2>5 DEF PlVerifies, PlInv, PlRoom
  <2> QED BY <1>1, <2>1, <2>5, <2>6, PlNothing, PlLaunches
<1> QED BY <1>2, <1>3, <1>4, <1>5, <1>6, <1>7, <1>8, <1>9, <1>10, <1>11, <1>12, <1>13, <1>14, <1>15 DEF Next

LEMMA PlInvariance == Spec => []PlInv
BY PlBegins, PlStep, PTL DEF Spec

(* On every board, with any keys, pointers and buttons, and for runs of any *)
(* length: a cut the controls ask for is one the engine makes               *)
(* (viewer/human-input.ts, viewer/main.ts).                                 *)
THEOREM CutsAreNotSwallowed == Spec => []NoSwallowedCut
BY PlInvariance, PlIsEnough, PTL

(* Every stage a run records replays to the state that ended it, whatever   *)
(* was cleared, left or interrupted on the way, unless a clear took the     *)
(* release of a trace that had just ended (viewer/main.ts, core/replay.ts). *)
THEOREM RecordedStagesVerify == Spec => []StageReplaysVerify
BY PlInvariance, PlIsEnough, PTL
====
