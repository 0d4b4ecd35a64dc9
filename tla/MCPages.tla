------------------------------- MODULE MCPages -------------------------------
(* What a visitor has open, one page at a time: Partition, Smilefall, the    *)
(* panel of Maltline's ranked runs (Competition) or a catalog of fields with *)
(* their votes (CatalogVotes).                                               *)
(* Partition has a three by two field with a drifter in its right column: a  *)
(* cut straight up takes a third of it, a cut one step to the right wins it. *)
(* Smilefall has two stages, two difficulties and two challenges.            *)
EXTENDS PartitionPlay, SmilefallPlay, Competition, CatalogVotes

VARIABLE shown       \* what is open

BottomWall == <<1, 2>>
OneDrifter == << [at |-> <<7, 2>>, v |-> <<0, 1>>] >>
ThreeTicks == {3}
NoTouch(body, walls, trace, spark) == FALSE

PagesInit ==
  /\ shown \in {"partition", "smilefall", "panel", "votes"}
  /\ Init /\ SfInit /\ CoInit /\ VtInit
  /\ shown = "votes" \/ vtGame = "partition"
PagesNext ==
  /\ UNCHANGED shown
  /\ \/ shown = "partition" /\ Next /\ UNCHANGED <<sfPlayVars, coVars, vtVars>>
     \/ shown = "smilefall" /\ SfNext /\ UNCHANGED <<vars, coVars, vtVars>>
     \/ shown = "panel" /\ CoNext /\ UNCHANGED <<vars, sfPlayVars, vtVars>>
     \/ shown = "votes" /\ VtNext /\ UNCHANGED <<vars, sfPlayVars, coVars>>
PagesSpec == PagesInit /\ [][PagesNext]_<<vars, sfPlayVars, coVars, vtVars, shown>>
=============================================================================
