------------------------------ MODULE RankedRun ------------------------------
(***************************************************************************)
(* What the live Maltline cabinet promises about one ranked attempt: a     *)
(* score is recorded only for an attempt that was offered a challenge,     *)
(* started under it, finished as a ranked result and was sent.  Ranking    *)
(* can be lost at any time and is never regained within the attempt.       *)
(***************************************************************************)
EXTENDS Naturals

VARIABLES
  attempt,  \* which attempt the cabinet is in, 0 before the first
  phase,    \* where that attempt stands
  sent      \* its score is on its way to the server

Phases == {"idle", "preparing", "offered", "ranked", "result", "recorded", "unranked"}

Init == attempt = 0 /\ phase = "idle" /\ sent = FALSE

NewAttempt ==
  /\ attempt' = attempt + 1
  /\ phase' \in {"preparing", "unranked"}
  /\ sent' = FALSE

\* The moves within an attempt that do not touch `sent'.
Move ==
  /\ \/ phase = "preparing" /\ phase' \in {"offered", "unranked"}
     \/ phase = "offered" /\ phase' \in {"ranked", "unranked"}
     \/ phase = "ranked" /\ phase' \in {"result", "unranked"}
     \/ phase = "result" /\ phase' = "unranked"
  /\ UNCHANGED <<attempt, sent>>

Send ==
  /\ phase = "result" /\ ~sent
  /\ sent' = TRUE
  /\ UNCHANGED <<attempt, phase>>

SendFails ==
  /\ sent /\ sent' = FALSE
  /\ UNCHANGED <<attempt, phase>>

Record ==
  /\ sent /\ sent' = FALSE
  /\ phase \in {"result", "unranked"} /\ phase' = "recorded"
  /\ UNCHANGED attempt

Next == NewAttempt \/ Move \/ Send \/ SendFails \/ Record

Spec == Init /\ [][Next]_<<attempt, phase, sent>>
=============================================================================
