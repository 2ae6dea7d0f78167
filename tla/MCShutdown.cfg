\* Two listeners, two connections at a time, with and without a drain timeout.
SPECIFICATION FairSpec
CONSTANTS
  Listeners = {l1, l2}
  Conns = {c1, c2}
  DrainTimeouts = {0, 30}
  Nobody = Nobody
INVARIANTS
  TypeOK
  DrainedMeansDone
  PanicFails
PROPERTIES
  TrackerShrinks
  SignalStops
  PanicStops
  SecondSignalStops
