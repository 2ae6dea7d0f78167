\* ratelimit.rs on eviction against a map full of busy users.
SPECIFICATION Spec
CONSTANTS
  Keys = {k1, k2, k3}
  Callers = {c1, c2}
  PerMinute = 2
  MaxBuckets = 2
  Minute = 2
  Idle = 3
  MaxWait = 1
  MaxClock = 6
  NoKey = NoKey
PROPERTIES
  EvictionGivesNothing
CHECK_DEADLOCK FALSE
