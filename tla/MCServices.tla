----------------------------- MODULE MCServices ------------------------------
(* What runs behind the pages, one of them in each behaviour: the session a  *)
(* model plays, on the field of MCPartitionSession; the legacy route of      *)
(* Partition's scores; its replay shares; its votes and notes; and the       *)
(* benchmark run that drives such a session.                                 *)
(* They share no state: scores and shares meet in one pass of the            *)
(* maintenance, which treats each on its own.                                *)
EXTENDS MCPartitionSession, LegacyPartition, Feedback, HarnessRun, TLC

VARIABLE shown

ServicesInit ==
  /\ shown \in {"session", "scores", "shares", "feedback", "run"}
  /\ Init /\ LpInit /\ FbInit /\ HrInit
  /\ shown # "feedback" => fbChannel = "direct"   \* one start of what is not shown
ServicesNext ==
  /\ UNCHANGED shown
  /\ \/ shown = "session" /\ Next /\ UNCHANGED <<lpVars, fbVars, hrVars>>
     \/ shown = "scores" /\ LpNext /\ UNCHANGED <<lpShareVars, vars, fbVars, hrVars>>
     \/ shown = "shares" /\ LpNext /\ UNCHANGED <<lpTables, lpCall, vars, fbVars, hrVars>>
     \/ shown = "feedback" /\ FbNext /\ UNCHANGED <<vars, lpVars, hrVars>>
     \/ shown = "run" /\ HrNext /\ UNCHANGED <<vars, lpVars, fbVars>>
ServicesSpec == ServicesInit /\ [][ServicesNext]_<<shown, vars, lpVars, fbVars, hrVars>>

\* The session has no symmetric constants; the services' requests are alike.
\* All kinds of request share their model values, which keeps the group small.
ServicesSymmetry == Permutations(LpCall) \cup Permutations(FbSession)
=============================================================================
