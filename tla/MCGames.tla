------------------------------ MODULE MCGames ------------------------------
(* What a game is made of, one part in each behaviour.  Two simulations,   *)
(* Partition's and Smilefall's: a four by three field with two blocked     *)
(* cells, a drifter and a filament; and a stage of three smilies for two   *)
(* buckets, with a ledge, spikes, a plain and a spiked rock, and a pail    *)
(* that walks to and fro.  The record of a run of Maltline: two stages, in *)
(* which every idle tick costs a life and the second serve ends the stage, *)
(* and limits that the longest runs exceed.  The clock that paces it.  The *)
(* tool that buys its sounds, for two plans of the same two.  The page on  *)
(* which players compare its stages (HumanLab).  And the proofs its older  *)
(* write path keeps: two POSTs of one run.                                 *)
EXTENDS PartitionField, SmilefallEngine, MaltlineReplay, FixedStepClock, AudioProduction, HumanLab,
        MaltlineProofs, TLC

BlockedCorner == {<<0, 0>>, <<0, 1>>}
BottomWall == <<2, 3>>
TwoBodies == << [at |-> <<1, 7>>, v |-> <<0, 1>>], [at |-> <<5, 1>>, v |-> <<1, 1>>] >>
SevenTicks == {7}

\* A filament reaches the upright sides of its own cell.
Upright(body, walls, trace, spark) ==
  \E e \in trace : \A p, q \in e :
    /\ p[1] = q[1] /\ p \in Corners(<<body.at[1] \div Scale, body.at[2] \div Scale>>)

SmallPhysics ==
  [radius |-> 1, gravity |-> 1, terminal |-> 2, leanAccel |-> 1, leanMax |-> 2,
   dragNumerator |-> 1, dragDenominator |-> 2, wallNumerator |-> 3, wallDenominator |-> 4,
   hop |-> 3, bucketHeight |-> 2, rim |-> 1, burp |-> 3, sidekick |-> 1, bonkLift |-> 2,
   bonkPush |-> 1, grace |-> 2, floorBounce |-> 2, rimBounce |-> 2, ledgeBounce |-> 2,
   thickness |-> 2, spikeHeight |-> 1, base |-> 4, perCombo |-> 1, maxCombo |-> 2, minPoints |-> 1]
SmallStage ==
  [width |-> 10, floor |-> 9, hopCharges |-> 1, hopRechargeTicks |-> 3, limit |-> 7, timeBonus |-> 1,
   buckets |-> << [x |-> 2, width |-> 3, capacity |-> 1, filled |-> 0, v |-> 1, minX |-> 1, maxX |-> 3, base |-> 9],
                  [x |-> 6, width |-> 3, capacity |-> 1, filled |-> 0, v |-> 0, minX |-> 6, maxX |-> 6, base |-> 9] >>,
   platforms |-> << [x |-> 6, y |-> 3, width |-> 2] >>,
   spikes |-> << [x |-> 0, y |-> 9, width |-> 1, up |-> TRUE] >>,
   drops |-> << [tick |-> 1, x |-> 3, y |-> 2, vx |-> 0], [tick |-> 1, x |-> 8, y |-> 1, vx |-> 0],
                [tick |-> 3, x |-> 6, y |-> 4, vx |-> 0] >>,
   rocks |-> << [tick |-> 2, left |-> TRUE, radius |-> 1, y |-> 3, speed |-> 2, drift |-> 1, spiked |-> FALSE],
                [tick |-> 4, left |-> FALSE, radius |-> 1, y |-> 5, speed |-> 2, drift |-> 0, spiked |-> TRUE] >>]

Serves(fed) == Len(SelectSeq(fed, LAMBDA input : input = "serve"))
Countdown(stage, lives, fed) ==
  LET left == lives - (Len(fed) - Serves(fed))
  IN [status |-> IF left <= 0 THEN "lost" ELSE IF Serves(fed) >= 2 THEN "won" ELSE "running",
      lives |-> IF left < 0 THEN 0 ELSE left]

VARIABLE shown
gameVars == <<vars, smile, rpVars, ckVars, auVars, labVars, mpVars, shown>>
GamesInit ==
  /\ shown \in {"partition", "smilefall", "record", "clock", "audio", "lab", "proofs"}
  /\ Init /\ SmInit /\ RpInit /\ AuInit /\ LabInit /\ MpInit
  /\ CkInit /\ (shown # "clock" => ckTick = Min(CkTicks))
  /\ shown # "lab" => lab.session.mode = "human" /\ labWorld.front
GamesNext ==
  /\ UNCHANGED shown
  /\ \/ shown = "partition" /\ Next /\ UNCHANGED <<smile, rpVars, ckVars, auVars, labVars, mpVars>>
     \/ shown = "smilefall" /\ SmTick /\ UNCHANGED <<vars, rpVars, ckVars, auVars, labVars, mpVars>>
     \/ shown = "record" /\ RpNext /\ UNCHANGED <<vars, smile, ckVars, auVars, labVars, mpVars>>
     \/ shown = "clock" /\ CkNext /\ UNCHANGED <<vars, smile, rpVars, auVars, labVars, mpVars>>
     \/ shown = "audio" /\ AuNext /\ UNCHANGED <<vars, smile, rpVars, ckVars, labVars, mpVars>>
     \/ shown = "lab" /\ LabNext /\ UNCHANGED <<vars, smile, rpVars, ckVars, auVars, mpVars>>
     \/ shown = "proofs" /\ MpNext /\ UNCHANGED <<vars, smile, rpVars, ckVars, auVars, labVars>>
\* Two plans of the same sounds are alike, and so are two POSTs and what they carry.
GamesSymmetry == Permutations(AuPlans) \cup Permutations(Variant)
GamesSpec == GamesInit /\ [][GamesNext]_gameVars
=============================================================================
