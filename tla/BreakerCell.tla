---------------------------- MODULE BreakerCell ----------------------------
(***************************************************************************)
(* The circuit-breaker cell of busbar's in-memory state store: the record  *)
(* a (pool, lane) pair carries and the transitions every caller applies to *)
(* it.  Each operator is the body of one `cell_*` function of              *)
(* store/in_memory.rs, which runs whole under the cell's transition lock,  *)
(* so a caller's action applies it in one step.                            *)
(*                                                                         *)
(* An operator whose name is another's and a suffix (OpenLocked_KeepsProbe) *)
(* is that operator with a plausible mistake in it; nothing uses it, and it *)
(* is there to show which property notices the mistake.                    *)
(*                                                                         *)
(* The outcome window is not kept here: the error-rate trip test is any    *)
(* verdict (TripVerdicts), the consecutive one is exact.  The wall-clock   *)
(* jitter is any value of its band (CooldownChoices).                      *)
(***************************************************************************)
EXTENDS Integers

CONSTANTS
  TripMode,              \* "consecutive" or "error_rate"
  ConsecutiveN,          \* breaker.trip.consecutive_n
  BaseCooldown,          \* base_cooldown_secs
  MaxCooldown,           \* max_cooldown_secs
  MaxHonoredRetryAfter,  \* ceiling on an upstream's Retry-After
  HardDownSecs,          \* hard_down_cooldown_secs
  StreakCap              \* bound: the streak saturates here

ASSUME CellConstants ==
  /\ TripMode \in {"consecutive", "error_rate"}
  /\ ConsecutiveN \in Nat \ {0}
  /\ BaseCooldown \in Nat \ {0}
  /\ MaxCooldown \in Nat
  /\ BaseCooldown <= MaxCooldown
  /\ MaxHonoredRetryAfter \in Nat
  /\ HardDownSecs \in Nat \ {0}
  /\ StreakCap \in Nat
  /\ ConsecutiveN <= StreakCap

States == {"Closed", "Open", "HalfOpen"}

Cell == [state    : States,
         streak   : 0..StreakCap,
         cooldown : Nat,
         probe    : BOOLEAN,
         epoch    : Nat]

NewCell == [state |-> "Closed", streak |-> 0, cooldown |-> 0,
            probe |-> FALSE, epoch |-> 0]

(***************************************************************************)
(* Cooldown lengths                                                        *)
(***************************************************************************)
Lesser(a, b)  == IF a <= b THEN a ELSE b
Greater(a, b) == IF a >= b THEN a ELSE b

\* base * 2^streak, saturated at max_cooldown_secs.  The streak-0 arm is the
\* base itself, without the minimum.
Backoff(streak) ==
  IF streak = 0 THEN BaseCooldown
                ELSE Lesser(BaseCooldown * 2^streak, MaxCooldown)

JitterBand(target) == Greater(target \div 10, 1)

\* Every length the jittered draw can give: target +- band, clamped to
\* [max(target/2, 1), max_cooldown_secs].
JitteredCooldowns(target) ==
  { d \in Greater(target \div 2, 1)..MaxCooldown :
      /\ d <= target + JitterBand(target)
      /\ target <= d + JitterBand(target) }

\* The honored Retry-After is a floor, itself capped; 0 stands for "absent".
CooldownChoices(streak, retryAfter) ==
  { Greater(d, Lesser(retryAfter, MaxHonoredRetryAfter)) :
      d \in JitteredCooldowns(Backoff(streak)) }

(***************************************************************************)
(* Tripping                                                                *)
(***************************************************************************)
Bump(streak) == Lesser(streak + 1, StreakCap)

\* should_trip on a Closed cell whose streak has just been bumped.
TripVerdicts(streak) ==
  IF TripMode = "consecutive" THEN {streak >= ConsecutiveN} ELSE BOOLEAN

OpenLocked_KeepsProbe(c, until) ==
  [c EXCEPT !.cooldown = until, !.state = "Open"]

OpenLocked(c, until) ==
  [c EXCEPT !.cooldown = until, !.state = "Open", !.probe = FALSE]

ClosedLocked(c) ==
  [c EXCEPT !.streak = 0, !.cooldown = 0, !.state = "Closed", !.probe = FALSE]

\* record_hard_down_all_cells' per-cell closure: sticky Open whatever the cell
\* was doing.
HardDown(c, at) == OpenLocked(c, at + HardDownSecs)

\* A Closed cell trips or arms a soft cooldown, a HalfOpen one reopens, an Open
\* one is left alone.
RecordFailure(c, at, dur, trip) ==
  CASE c.state = "Closed" /\ trip ->
         OpenLocked([c EXCEPT !.streak = Bump(c.streak)], at + dur)
    [] c.state = "Closed" /\ ~trip ->
         [c EXCEPT !.streak = Bump(c.streak), !.cooldown = at + dur]
    [] c.state = "HalfOpen" ->
         OpenLocked([c EXCEPT !.streak = Bump(c.streak)], at + dur)
    [] c.state = "Open" -> c

\* The cells a failure recorded at `at`, carrying `retryAfter`, can leave.
FailureResults(c, at, retryAfter) ==
  { RecordFailure(c, at, dur, trip) :
      dur  \in CooldownChoices(Bump(c.streak), retryAfter),
      trip \in TripVerdicts(Bump(c.streak)) }

(***************************************************************************)
(* Recovery                                                                *)
(***************************************************************************)
\* The streak survives a success that lands on an Open cell.
RecordSuccess(c) ==
  CASE c.state = "HalfOpen" -> ClosedLocked(c)
    [] c.state = "Closed"   -> [c EXCEPT !.streak = 0]
    [] c.state = "Open"     -> c

Suppressed_CooldownOnly(c, at) == c.cooldown > at

Suppressed(c, at) == c.state # "Closed" \/ c.cooldown > at

ClosedIfRecoverable_Unchecked(c, at, observed) ==
  IF Suppressed(c, at) THEN ClosedLocked(c) ELSE c

\* The under-lock half of recover_lane: `observed` is the cooldown the
\* lock-free pre-filter read.
ClosedIfRecoverable(c, at, observed) ==
  IF c.cooldown <= observed /\ Suppressed(c, at) THEN ClosedLocked(c) ELSE c

(***************************************************************************)
(* Admission and the single-flight probe                                   *)
(***************************************************************************)
Ready(c, at) == c.state # "HalfOpen" /\ c.cooldown <= at

\* cell_acquire_breaker on a cell that is Ready: a Closed cell admits and stays
\* as it is, an Open one is moved to HalfOpen and its probe is won.
Acquire(c) ==
  IF c.state = "Open"
  THEN [c EXCEPT !.state = "HalfOpen", !.epoch = c.epoch + 1, !.probe = TRUE]
  ELSE c

\* cell_release_probe, the release that does not check who is asking.
ReleaseProbe(c) ==
  [c EXCEPT !.state = IF c.state = "HalfOpen" THEN "Open" ELSE c.state,
            !.probe = FALSE]

ReleaseProbeOwned(c, owned) ==
  IF c.epoch = owned THEN ReleaseProbe(c) ELSE c

(***************************************************************************)
(* Cells born from other state                                             *)
(***************************************************************************)
\* A HalfOpen read off another cell, or off a snapshot, is stored as Open: the
\* probe it speaks of is not this cell's.
Normalized(state) == IF state = "HalfOpen" THEN "Open" ELSE state

=============================================================================
