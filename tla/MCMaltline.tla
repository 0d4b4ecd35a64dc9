----------------------------- MODULE MCMaltline ------------------------------
(* What must come to an end at Maltline, one of them in each behaviour: a    *)
(* small stage, and the proofs behind a run, whose object may be             *)
(* overwritten, under the scheduled maintenance.  They share no state.       *)
EXTENDS MaltlineEngine, MaltlineProofs, TLC

VARIABLE shown

TwoFlavors == <<"vanilla", "chocolate">>

MaltlineInit ==
  /\ shown \in {"stage", "proofs"}
  /\ Init /\ MpInit
  /\ shown = "proofs" => controlMode = "two-button-v1"   \* one start of what is not shown
MaltlineNext ==
  /\ UNCHANGED shown
  /\ \/ shown = "stage" /\ Next /\ UNCHANGED mpVars
     \/ shown = "proofs" /\ MpNext /\ UNCHANGED vars

\* What is shown is served: the host steps the engine, the schedule comes round.
MaltlineSpec ==
  /\ MaltlineInit /\ [][MaltlineNext]_<<shown, vars, mpVars>>
  /\ \/ shown = "stage" /\ WF_vars(Next)
     \/ shown = "proofs" /\ MpFairness
=============================================================================
