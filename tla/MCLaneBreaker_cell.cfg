SPECIFICATION Spec
CONSTANTS
  TripMode = "error_rate"
  ConsecutiveN = 1
  BaseCooldown = 1
  MaxCooldown = 2
  MaxHonoredRetryAfter = 3
  HardDownSecs = 3
  StreakCap = 1
  Default = Default
  Pools = {}
  Nobody = Nobody
  Requests = {r1, r2}
  Prober = Prober
  ProbeMode = "none"
  MaxConcurrent = 1
  Routes = {"sticky", "walk", "fallback", "least_bad"}
  Answers = {"success", "transient", "hard_down", "no_outcome", "disconnect"}
  RetryAfters = {0, 3}
  MaxNow = 4
  MaxEpoch = 2
INVARIANTS ProbeIffHalfOpen NoOrphanProbe
CHECK_DEADLOCK FALSE
