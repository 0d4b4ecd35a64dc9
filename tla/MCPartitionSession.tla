------------------------- MODULE MCPartitionSession -------------------------
(* A three by two field, a drifter in its right column, and two programs.  *)
EXTENDS PartitionSession

BottomWall == <<1, 2>>
OneDrifter == << [at |-> <<7, 1>>, v |-> <<0, 1>>] >>
SixTicks == {6}
NoTouch(body, walls, trace, spark) == FALSE

UpFast   == [direction |-> "up", draw |-> "fast"]
UpOff    == [direction |-> "up", draw |-> "off"]
RightFast == [direction |-> "right", draw |-> "fast"]
CutUp    == [steps |-> << [ticks |-> 3, input |-> UpFast], [ticks |-> 1, input |-> RightFast] >>,
             loop |-> TRUE, fallback |-> Idle]
CutOnce  == [steps |-> << [ticks |-> 1, input |-> UpFast], [ticks |-> 1, input |-> RightFast] >>,
             loop |-> FALSE, fallback |-> RightFast]
ThePrograms == {CutUp, CutOnce}
TheSteers == {UpFast, UpOff, RightFast}
=============================================================================
