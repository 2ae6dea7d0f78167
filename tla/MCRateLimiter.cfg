\* Three users and room for two, two calls at a time, six ticks.
SPECIFICATION Spec
CONSTANTS
  Keys = {k1, k2, k3}
  Callers = {c1, c2}
  PerMinute = 2
  MaxBuckets = 2
  Minute = 2
  Idle = 3
  MaxWait = 1
  MaxClock = 6
  NoKey = NoKey
SYMMETRY Symmetry
INVARIANTS
  TypeOK
  SteadyRate
  MapBounded
CHECK_DEADLOCK FALSE
