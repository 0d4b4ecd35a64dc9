--------------------------- MODULE FixedStepClock ---------------------------
(* The clock that paces the live cabinet (fixed-step-clock.ts): timestamps *)
(* of animation frames become whole ticks, a fraction is carried over, and *)
(* what exceeds the backlog is dropped and said to be.  Time is counted in *)
(* whole units, so the tolerance for floating point has nothing to absorb. *)
EXTENDS Integers

CONSTANTS
  CkTicks,            \* lengths a tick may have: stages differ in ticksPerSecond
  CkMaxCatchUp,       \* MALTLINE_VIEWER_MAXIMUM_CATCH_UP_TICKS
  CkMaxElapsed,       \* longest time between two frames
  CkMaxTotal          \* bound: time counted since the clock was reset

ASSUME CkAssumption ==
  /\ CkTicks \subseteq Nat \ {0} /\ CkMaxCatchUp \in Nat \ {0}
  /\ CkMaxElapsed \in Nat /\ CkMaxTotal \in Nat

VARIABLES
  ckTick,             \* tickMs
  ckAnchored,         \* whether there is a previousTimeMs
  ckAccumulator,      \* accumulatorMs
  ckAnswer,           \* ticks and dropped of the last advance
  ckSince             \* what became of the time counted since the clock was reset

ckVars == <<ckTick, ckAnchored, ckAccumulator, ckAnswer, ckSince>>

Still == [ticks |-> 0, dropped |-> 0]
Reckoning == [elapsed |-> 0, run |-> 0, dropped |-> 0, lost |-> 0]

CkInit ==
  /\ ckTick \in CkTicks /\ ckAnchored = FALSE /\ ckAccumulator = 0
  /\ ckAnswer = Still /\ ckSince = Reckoning

\* setTicksPerSecond; with the same tick, reset alone.
CkReset(tick) ==
  /\ ckTick' = tick /\ ckAnchored' = FALSE /\ ckAccumulator' = 0
  /\ ckAnswer' = Still /\ ckSince' = Reckoning

\* The first timestamp, or one that is earlier than the last.
CkAnchor ==
  /\ ckAnchored' = TRUE /\ ckAccumulator' = 0 /\ ckAnswer' = Still
  /\ ckSince' = [ckSince EXCEPT !.lost = @ + ckAccumulator]
  /\ UNCHANGED ckTick

Backlog == ckTick * CkMaxCatchUp
Dropped(time) == IF time > Backlog THEN time - Backlog ELSE 0
\* Mutant of Kept: the backlog has no ceiling, although the excess is reported.
KeptAll(time) == time
Kept(time) == IF time > Backlog THEN Backlog ELSE time
Whole(time) == IF time \div ckTick < CkMaxCatchUp THEN time \div ckTick ELSE CkMaxCatchUp

CkAdvance(elapsed) ==
  LET time == ckAccumulator + elapsed
      ticks == Whole(Kept(time))
  IN /\ ckAnchored
     /\ ckSince.elapsed + elapsed <= CkMaxTotal
     /\ ckAccumulator' = Kept(time) - ticks * ckTick
     /\ ckAnswer' = [ticks |-> ticks, dropped |-> Dropped(time)]
     /\ ckSince' = [ckSince EXCEPT !.elapsed = @ + elapsed, !.run = @ + ticks * ckTick, !.dropped = @ + Dropped(time)]
     /\ UNCHANGED <<ckTick, ckAnchored>>

CkNext ==
  \/ \E tick \in CkTicks : CkReset(tick)
  \/ CkAnchor
  \/ \E elapsed \in 0..CkMaxElapsed : CkAdvance(elapsed)

CkSpec == CkInit /\ [][CkNext]_ckVars

-----------------------------------------------------------------------------

CkCounts ==
  /\ ckTick \in CkTicks /\ ckAccumulator \in Nat
  /\ ckAnswer \in [ticks : Nat, dropped : Nat]
  /\ ckSince \in [elapsed : Nat, run : Nat, dropped : Nat, lost : Nat]
CkTypeOK == ckAnchored \in BOOLEAN /\ CkCounts

CkAccount ==
  /\ ckSince.elapsed = ckSince.run + ckAccumulator + ckSince.dropped + ckSince.lost
  /\ ckAccumulator < ckTick
  /\ ckAnswer.ticks <= CkMaxCatchUp
  /\ ckAnswer.dropped > 0 => ckAnswer.ticks = CkMaxCatchUp /\ ckAccumulator = 0

(* No time is made or lost unseen: what has passed since the clock was     *)
(* reset was run as ticks, is carried over, was reported as dropped, or    *)
(* fell to a timestamp that ran backwards.  Less than a tick is carried,   *)
(* no frame owes more than the catch-up, and time is dropped only by a     *)
(* frame that runs all of it (fixed-step-clock.ts:52).                     *)
ClockKeepsTime == CkTypeOK /\ CkAccount
=============================================================================
