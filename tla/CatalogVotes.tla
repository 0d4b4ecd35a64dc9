---------------------------- MODULE CatalogVotes ----------------------------
(***************************************************************************)
(* Votes and private notes on the cards of a catalog: the feedback part of *)
(* viewer/main.ts and viewer/feedback-note.ts of Partition and Smilefall,  *)
(* with the anonymous session of the platform (session.ts), which every    *)
(* request without a cookie starts anew.                                   *)
(*                                                                         *)
(* A request is sent, carried out by the platform, and answered or lost,   *)
(* in any order with the others.  The page keeps a summary of each field,  *)
(* sends one write of a field at a time and reads whenever cards are drawn.*)
(***************************************************************************)
EXTENDS Naturals, FiniteSets, Sequences

CONSTANTS
  VtFields,          \* the fields of the catalog, numbered from 1
  VtNoted,           \* bound: the fields whose notes are opened
  VtRequests,        \* bound on requests in flight
  VtViewers,         \* bound on the sessions the platform starts
  VtValues,          \* votes other than none
  VtTexts,           \* notes other than none
  VtGames,           \* which of the two pages: "partition", "smilefall"
  VtNone

ASSUME VotesAssumption ==
  /\ VtFields \subseteq Nat \ {0} /\ VtFields # {} /\ VtNoted \subseteq VtFields
  /\ VtValues \subseteq {1, 2} /\ "" \notin VtTexts
  /\ VtGames \subseteq {"partition", "smilefall"}
  /\ VtNone \notin Nat \cup VtTexts \cup {""}
  /\ VtNone \notin [vote : VtValues \cup {0}, note : VtTexts \cup {""}]

VARIABLES
  vtGame,
  vtServer,          \* what the platform holds for each session it started
  vtCookie,          \* the session of the browser
  vtCache,           \* catalogVotes
  vtCards,           \* what the card of a field shows; "none" without one
  vtPending,         \* pendingFeedback
  vtDialog,          \* the note dialog
  vtNet,             \* requests under way
  vtCrossed          \* fields whose truth the page may have lost, see below
vtVars == <<vtGame, vtServer, vtCookie, vtCache, vtCards, vtPending, vtDialog,
            vtNet, vtCrossed>>

Unrated == [vote |-> 0, note |-> ""]
\* A card is not there, shows no votes (it waits for them or is offline), or does.
Card(is) == [is |-> is, says |-> VtNone]
Rated(summary) == [is |-> "rated", says |-> summary]
NoDialog == [field |-> VtNone, opened |-> "", busy |-> FALSE]

VtInit ==
  /\ vtGame \in VtGames
  /\ vtServer = <<>> /\ vtCookie = VtNone
  /\ vtCache = [f \in VtFields |-> VtNone] /\ vtCards = [f \in VtFields |-> Card("none")]
  /\ vtPending = {} /\ vtDialog = NoDialog /\ vtNet = {} /\ vtCrossed = {}

-----------------------------------------------------------------------------
(* Requests                                                                *)

\* `drawn' and `asked' say whether the cards and the
\* dialog a request was made for are still there, `rest' are the reads that follow.
VtGet(f, rest) ==
  [id |-> 0, kind |-> "get", field |-> f, vote |-> 0, note |-> VtNone, as |-> vtCookie,
   rest |-> rest, drawn |-> TRUE, asked |-> FALSE, was |-> VtNone,
   done |-> FALSE, result |-> VtNone, made |-> VtNone]
VtSet(f, vote, note, asked) ==
  [VtGet(f, {}) EXCEPT !.kind = "set", !.vote = vote, !.note = note, !.asked = asked,
                       !.was = IF vtGame = "smilefall" \/ asked THEN VtNone ELSE vtCache[f]]
\* The requests of a set of fields; a number tells those of a kind apart.
Posted(net, fields, Q) ==
  net \cup {[Q[f] EXCEPT !.id = CHOOSE i \in 1 .. VtRequests : \A r \in net :
              <<r.kind, r.field, r.id>> # <<Q[f].kind, f, i>>] : f \in fields}
Fits(net, fields) == Cardinality(net) + Cardinality(fields) <= VtRequests

Clickable == vtDialog.field = VtNone        \* a modal dialog shuts the page off

-----------------------------------------------------------------------------
(* Cards and votes                                                         *)

Unseen(net) == {[r EXCEPT !.drawn = FALSE] : r \in net}
\* Cards are drawn anew: requests for the old ones no longer reach them.
DrawCards(cards, reads, rest) ==
  LET kept == Unseen(vtNet) IN
  /\ Clickable /\ Fits(kept, reads)
  /\ vtNet' = Posted(kept, reads, [f \in reads |-> VtGet(f, rest)])
  /\ vtCards' = cards
  /\ UNCHANGED <<vtGame, vtServer, vtCookie, vtCache, vtPending, vtDialog, vtCrossed>>

\* Partition draws the fields its filter lets through and reads what it has no
\* summary of, the first field alone before the others.
RefreshCatalogVotes(fields) ==
  LET first   == CHOOSE f \in fields : \A g \in fields : f <= g
      missing == {f \in fields : vtCache[f] = VtNone}
      waits   == first \in missing
      shows(f) == IF f \notin fields THEN Card("none")
                  ELSE IF waits \/ f \in missing THEN Card("blank") ELSE Rated(vtCache[f])
  IN  /\ vtGame = "partition"
      /\ DrawCards([f \in VtFields |-> shows(f)], IF waits THEN {first} ELSE missing,
                   IF waits THEN fields \ {first} ELSE {})

\* Smilefall draws all fields and reads them all at once.
RenderCatalog ==
  /\ vtGame = "smilefall"
  /\ DrawCards([f \in VtFields |-> Card("blank")], VtFields, {})

\* Mutant of VtIdle: a field may have two writes under way.
VtAlwaysIdle(f) == TRUE
VtIdle(f) == f \notin vtPending

\* The vote that is set is taken back.
Toggled(f, value) ==
  IF vtCache[f] # VtNone /\ vtCache[f].vote = value THEN 0 ELSE value
CastVote(f, value) ==
  /\ Clickable /\ vtCards[f].is # "none" /\ VtIdle(f) /\ Fits(vtNet, {f})
  /\ vtPending' = vtPending \cup {f}
  /\ vtNet' = Posted(vtNet, {f}, [g \in {f} |-> VtSet(f, Toggled(f, value), VtNone, FALSE)])
  /\ UNCHANGED <<vtGame, vtServer, vtCookie, vtCache, vtCards, vtDialog, vtCrossed>>
CastCatalogVote(f, value) == vtGame = "partition" /\ CastVote(f, value)
SetCatalogVote(f, value) ==
  vtGame = "smilefall" /\ vtCache[f] # VtNone /\ CastVote(f, value)

-----------------------------------------------------------------------------
(* The note dialog                                                         *)

Unasked(net) == {[r EXCEPT !.asked = FALSE] : r \in net}
OpenNote(f) ==
  /\ Clickable /\ f \in VtNoted /\ vtCards[f].is # "none" /\ vtCache[f] # VtNone /\ VtIdle(f)
  /\ vtDialog' = [field |-> f, opened |-> vtCache[f].note, busy |-> FALSE]
  /\ vtNet' = Unasked(vtNet)
  /\ UNCHANGED <<vtGame, vtServer, vtCookie, vtCache, vtCards, vtPending, vtCrossed>>

\* save and clear, when their buttons can be pressed (syncActions), with what has
\* been typed by then: anything may have been before a note is cleared.
SubmitNote(text) ==
  LET f == vtDialog.field IN
  /\ ~Clickable /\ ~vtDialog.busy /\ VtIdle(f) /\ Fits(vtNet, {f})
  /\ text # vtDialog.opened \/ text = ""
  /\ vtDialog' = [vtDialog EXCEPT !.busy = TRUE]
  /\ vtPending' = vtPending \cup {f}
  /\ vtNet' = Posted(vtNet, {f}, [g \in {f} |-> VtSet(f, vtCache[f].vote, text, TRUE)])
  /\ UNCHANGED <<vtGame, vtServer, vtCookie, vtCache, vtCards, vtCrossed>>

CloseNote ==
  /\ ~Clickable /\ vtDialog' = NoDialog /\ vtNet' = Unasked(vtNet)
  /\ UNCHANGED <<vtGame, vtServer, vtCookie, vtCache, vtCards, vtPending, vtCrossed>>

-----------------------------------------------------------------------------
(* The platform                                                            *)

\* anonymousSession: who a request speaks for, and what is held for him.
Visitor(r) == IF r.as = VtNone THEN Len(vtServer) + 1 ELSE r.as
Held(r) == IF r.as = VtNone THEN [f \in VtFields |-> Unrated] ELSE vtServer[r.as]

\* A read that was carried out and has not arrived when a write of the same field
\* is carried out is overtaken by it.
CarryOut(r) ==
  LET new   == r.as = VtNone
      who   == Visitor(r)
      held  == Held(r)
      mine  == IF r.kind = "get" THEN held[r.field]
               ELSE [vote |-> r.vote, note |-> IF r.note = VtNone THEN held[r.field].note ELSE r.note]
      after == [held EXCEPT ![r.field] = mine]
  IN  /\ r \in vtNet /\ ~r.done
      /\ IF new THEN Len(vtServer) < VtViewers /\ vtServer' = Append(vtServer, after)
                ELSE vtServer' = [vtServer EXCEPT ![who] = after]
      /\ vtNet' = (vtNet \ {r}) \cup {[r EXCEPT !.done = TRUE, !.result = mine,
                                               !.made = IF new THEN who ELSE VtNone]}
      /\ vtCrossed' = vtCrossed \cup
           {f \in {r.field} : r.kind = "set" /\ \E q \in vtNet :
                                q.kind = "get" /\ q.field = f /\ q.done}
      /\ UNCHANGED <<vtGame, vtCookie, vtCache, vtCards, vtPending, vtDialog>>

\* The card of a field, if there is one.
OnCard(f, what) == IF vtCards[f].is = "none" THEN vtCards ELSE [vtCards EXCEPT ![f] = what]

\* The reads that wait for the first one go out when it ends, well or not, with
\* what the browser knows by then.
Followers(r) == {f \in r.rest : vtCache'[f] = VtNone}
FollowUp(r) ==
  LET q == Followers(r)
      others == vtNet \ {r}
  IN  /\ Fits(others, q)
      /\ vtNet' = Posted(others, q, [f \in q |->
           [VtGet(f, {}) EXCEPT !.as = vtCookie', !.drawn = r.drawn]])

VtAnswered(r) ==
  LET card == r.kind = "set" \/ r.drawn
      late == {f \in r.rest : vtCache[f] # VtNone /\ r.drawn /\ vtCards[f].is # "none"}
  IN  /\ r \in vtNet /\ r.done
      /\ vtCookie' = IF r.made # VtNone THEN r.made ELSE vtCookie
      /\ vtCrossed' = IF r.made # VtNone /\ vtCookie # VtNone THEN VtFields ELSE vtCrossed
      /\ vtCache' = [vtCache EXCEPT ![r.field] = r.result]
      /\ vtCards' = [f \in VtFields |->
           IF f \in late THEN Rated(vtCache[f])
           ELSE IF card /\ f = r.field THEN OnCard(f, Rated(r.result))[f] ELSE vtCards[f]]
      /\ vtPending' = IF r.kind = "set" THEN vtPending \ {r.field} ELSE vtPending
      /\ vtDialog' = IF r.asked THEN NoDialog ELSE vtDialog
      /\ FollowUp(r)
      /\ UNCHANGED <<vtGame, vtServer>>

\* Refused, or the answer lost: nobody knows whether it was carried out.
Failed(r) ==
  LET card == r.kind = "set" \/ r.drawn
      late == {f \in r.rest : vtCache[f] # VtNone /\ r.drawn /\ vtCards[f].is # "none"}
      left == IF vtGame = "smilefall" THEN vtCache[r.field] ELSE r.was
  IN  /\ r \in vtNet
      /\ vtCrossed' = IF r.done /\ r.kind = "set" THEN vtCrossed \cup {r.field} ELSE vtCrossed
      /\ vtCards' = [f \in VtFields |->
           IF f \in late THEN Rated(vtCache[f])
           ELSE IF card /\ f = r.field /\ ~(r.note # VtNone)
           THEN OnCard(f, IF left = VtNone THEN Card("blank") ELSE Rated(left))[f] ELSE vtCards[f]]
      /\ vtPending' = IF r.kind = "set" THEN vtPending \ {r.field} ELSE vtPending
      /\ vtDialog' = IF r.asked THEN [vtDialog EXCEPT !.busy = FALSE] ELSE vtDialog
      /\ UNCHANGED <<vtGame, vtServer, vtCookie, vtCache>>
      /\ FollowUp(r)

\* What happens when no request fails.
VtMoves ==
  \/ \E fields \in SUBSET VtFields \ {{}} : RefreshCatalogVotes(fields)
  \/ RenderCatalog \/ CloseNote
  \/ \E f \in VtFields : OpenNote(f) \/ \E value \in VtValues :
       CastCatalogVote(f, value) \/ SetCatalogVote(f, value)
  \/ \E text \in VtTexts \cup {""} : SubmitNote(text)
  \/ \E r \in vtNet : CarryOut(r) \/ VtAnswered(r)

\* The visitor is followed until the page has lost a field: fields share only the
\* cookie, so what a second one does after that is seen without the first.
VtNext == vtCrossed = {} /\ (VtMoves \/ \E r \in vtNet : Failed(r))
VtSpec == VtInit /\ [][VtNext]_vtVars

\* Every request is answered, and the visitor is followed to the end.
VtHeardSpec == VtInit /\ [][VtMoves]_vtVars

-----------------------------------------------------------------------------
(* Properties                                                              *)

\* "one request per field at a time, so a save and a vote cannot race": what the page
\* says of a field is what the platform holds for its visitor, and a note on its way
\* carries the vote that is there.  Three things break it, and nothing else: a
\* read overtaken by a write, a write whose answer is lost, and a second session
\* started by requests that went out before the first cookie came.
VtPageKnowsTheVote ==
  \A f \in VtFields \ vtCrossed :
    /\ f \notin vtPending =>
         /\ vtCache[f] # VtNone => vtCookie # VtNone /\ vtCache[f] = vtServer[vtCookie][f]
         /\ vtCards[f].is = "rated" => vtCards[f].says = vtServer[vtCookie][f]
         /\ vtDialog.field = f => vtDialog.opened = vtServer[vtCookie][f].note
    /\ \A r \in vtNet : r.kind = "set" /\ r.field = f /\ r.note # VtNone =>
         r.vote = vtServer[r.as][f].vote

\* "The vote that travels with a note is read from the field's current server summary
\* at submit time ... so a vote that landed in between cannot be overwritten": a note
\* that has not been carried out yet carries the vote its visitor has.
NoteCarriesTheVote ==
  \A r \in vtNet : r.kind = "set" /\ r.note # VtNone /\ r.as # VtNone /\ ~r.done =>
    r.vote = vtServer[r.as][r.field].vote
=============================================================================
