------------------------------- MODULE Refresh -------------------------------
(***************************************************************************)
(* RefreshScheduler: ticks are counted up to an interval that is shorter   *)
(* while a resource is in transition and doubles while services are        *)
(* overloaded, and the interval may shrink below what is counted already.  *)
(***************************************************************************)
EXTENDS Naturals

CONSTANTS NormalTicks, FastTicks,   \* NORMAL_INTERVAL, FAST_INTERVAL in ticks
          MaxBackoff                \* MAX_BACKOFF_MULTIPLIER

(* The factor is doubled from 1 on and has to come to MAX_BACKOFF_MULTIPLIER *)
(* exactly, or it would pass it by: 8 in the code.                           *)
ASSUME RefreshAssumption ==
  /\ {NormalTicks, FastTicks} \subseteq Nat \ {0}
  /\ MaxBackoff \in {1, 2, 4, 8}
  /\ FastTicks <= NormalTicks

VARIABLES ticks,    \* tick_count
          isFast, factor,   \* is_fast, backoff_multiplier
          reloads   \* history: a refresh action was sent at the last tick

refreshVars == <<ticks, isFast, factor, reloads>>

RefreshInit == ticks = 0 /\ isFast = FALSE /\ factor = 1 /\ reloads = FALSE

(* Mutant: the interval must be hit exactly. *)
DueExactly(n, fast) == n = (IF fast THEN FastTicks ELSE NormalTicks) * factor

Due(n, fast) == n >= (IF fast THEN FastTicks ELSE NormalTicks) * factor

(* on_tick in Normal mode, with no dialog in front; otherwise it does not  *)
(* reach the scheduler.                                                    *)
CountTick(inTransition) ==
  /\ isFast' = inTransition
  /\ reloads' = Due(ticks + 1, inTransition)
  /\ ticks' = IF reloads' THEN 0 ELSE ticks + 1
  /\ UNCHANGED factor

SkippedTick == reloads' = FALSE /\ UNCHANGED <<ticks, isFast, factor>>

(* handle_event: an ApiError of rate limiting or unavailability backs off, *)
(* of whatever operation it is; another ApiError changes nothing, and any  *)
(* other event ends the backing off.                                       *)
Backoff == factor' = IF factor < MaxBackoff THEN factor * 2 ELSE factor
AnswerSeen(overloaded) ==
  /\ IF overloaded THEN Backoff ELSE factor' = 1
  /\ UNCHANGED <<ticks, isFast, reloads>>

(* Navigate, Back. *)
Restart == ticks' = 0 /\ UNCHANGED <<isFast, factor, reloads>>

RefreshNext ==
  \/ \E b \in BOOLEAN : CountTick(b) \/ AnswerSeen(b)
  \/ SkippedTick \/ Restart

RefreshSpec == RefreshInit /\ [][RefreshNext]_refreshVars

-----------------------------------------------------------------------------
(* However errors and transitions move the interval while ticks are        *)
(* counted, a screen the user rests on is refreshed again within the       *)
(* longest interval (RefreshScheduler::tick, backoff).                     *)
RefreshInTime == ticks < MaxBackoff * NormalTicks
=============================================================================
