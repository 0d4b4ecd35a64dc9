----------------------------- MODULE ScoreLedger ----------------------------
(***************************************************************************)
(* What the shared platform promises about scores, without workers, object *)
(* states or maintenance: a run is owned by at most one score; a score is  *)
(* listed in the same step in which its archive becomes readable; a kept   *)
(* archive goes only when an operator removes the score; a temporary one   *)
(* may lapse.  SharedSubmission implements this specification.             *)
(***************************************************************************)
CONSTANTS Request, Run, NoRequest

VARIABLES
  owner,      \* the score that used each run
  listed,     \* scores on public boards
  kept,       \* scores whose archive is readable without deadline
  temporary   \* scores whose archive is readable until its deadline

vars == <<owner, listed, kept, temporary>>

Init ==
  /\ owner = [r \in Run |-> NoRequest]
  /\ listed = {} /\ kept = {} /\ temporary = {}

Accept(r, q) ==
  /\ owner[r] = NoRequest
  /\ \A o \in Run : owner[o] # q
  /\ owner' = [owner EXCEPT ![r] = q]
  /\ listed' = listed \cup {q}
  /\ \/ kept' = kept \cup {q} /\ temporary' = temporary
     \/ temporary' = temporary \cup {q} /\ kept' = kept

Hide(q) ==
  /\ q \in listed
  /\ listed' = listed \ {q}
  /\ UNCHANGED <<owner, kept, temporary>>

Remove(q) ==
  /\ \E r \in Run : owner[r] = q
  /\ listed' = listed \ {q}
  /\ kept' = kept \ {q}
  /\ temporary' = temporary \ {q}
  /\ UNCHANGED owner

Lapse ==
  /\ temporary' \subseteq temporary
  /\ UNCHANGED <<owner, listed, kept>>

Next ==
  \/ \E r \in Run, q \in Request : Accept(r, q)
  \/ \E q \in Request : Hide(q) \/ Remove(q)
  \/ Lapse

Spec == Init /\ [][Next]_vars
=============================================================================
