-------------------------- MODULE SmilefallLedger --------------------------
(***************************************************************************)
(* What a Smilefall stage promises, whatever its geometry: every smiley of *)
(* its schedule is counted once, and the reserve, the smilies it has more  *)
(* than its buckets need, is a life budget that only popped smilies spend  *)
(* ("Reserve is a life budget, not a probability estimate",                *)
(* games/smilefall/src/core/engine.ts).  SmilefallEngine implements it.    *)
(***************************************************************************)
EXTENDS Integers

CONSTANTS
  Drops,             \* the smilies of the schedule
  Capacity,          \* what the buckets hold together
  Limit              \* timeLimitTicks

VARIABLES tick, waiting, flock, filled, popped, status, reason
ledger == <<tick, waiting, flock, filled, popped, status, reason>>

LgInit ==
  /\ tick = 0 /\ waiting = Drops /\ flock = 0 /\ filled = 0 /\ popped = 0
  /\ status = "running" /\ reason = "none"

\* resolveOutcome: full buckets win, even on the tick that pops the last life.
LgOutcome ==
  IF filled' = Capacity THEN status' = "won" /\ reason' = "none"
  ELSE IF flock' + waiting' <= Capacity - filled' THEN status' = "lost" /\ reason' = "out_of_smilies"
  ELSE IF tick' >= Limit THEN status' = "lost" /\ reason' = "timeout"
  ELSE status' = "running" /\ reason' = "none"

\* One tick: some drop, of those in the air some are caught and some popped.
LgTick ==
  /\ status = "running" /\ tick' = tick + 1
  /\ \E drop \in 0 .. waiting : \E catch, pop \in 0 .. flock + drop :
       /\ catch + pop <= flock + drop /\ filled + catch <= Capacity
       /\ waiting' = waiting - drop /\ flock' = flock + drop - catch - pop
       /\ filled' = filled + catch /\ popped' = popped + pop
  /\ LgOutcome

LgSpec == LgInit /\ [][LgTick]_ledger

Counted ==
  /\ {tick, waiting, flock, filled, popped} \subseteq Nat
  /\ waiting + flock + filled + popped = Drops
  /\ filled <= Capacity
  /\ status \in {"running", "won", "lost"} /\ reason \in {"none", "out_of_smilies", "timeout"}

(* A stage runs as long as a life is left and ends with the last one: the  *)
(* reserve is what the schedule has over the buckets less what was popped, *)
(* no stage is played on without it, none is lost for smilies while it     *)
(* lasts, and a stage is won exactly when its buckets are full.            *)
ReserveIsLives ==
  /\ waiting + flock - (Capacity - filled) = Drops - Capacity - popped
  /\ status = "running" /\ tick > 0 => popped < Drops - Capacity /\ tick < Limit
  /\ reason = "out_of_smilies" => popped >= Drops - Capacity
  /\ reason = "timeout" => popped < Drops - Capacity /\ tick >= Limit
  /\ tick > 0 => (status = "won" <=> filled = Capacity)
  /\ status = "lost" <=> reason # "none"
=============================================================================
