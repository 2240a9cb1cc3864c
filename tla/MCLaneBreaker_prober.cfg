SPECIFICATION RecoveringSpec
CONSTANTS
  TripMode = "error_rate"
  ConsecutiveN = 1
  BaseCooldown = 1
  MaxCooldown = 1
  MaxHonoredRetryAfter = 3
  HardDownSecs = 2
  StreakCap = 1
  Default = Default
  Pools = {a}
  Nobody = Nobody
  Requests = {r1}
  Prober = Prober
  ProbeMode = "dead"
  MaxConcurrent = 1
  Routes = {"walk"}
  Answers = {"success", "transient", "hard_down", "disconnect"}
  RetryAfters = {0}
  MaxNow = 2
  MaxEpoch = 1
INVARIANTS HardDownParksLane
PROPERTIES OpenIsSticky ProbeResolves
CHECK_DEADLOCK FALSE
