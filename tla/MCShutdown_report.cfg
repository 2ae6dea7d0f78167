\* What main.rs says of a second signal.
SPECIFICATION Spec
CONSTANTS
  Listeners = {l1, l2}
  Conns = {c1}
  DrainTimeouts = {30}
  Nobody = Nobody
INVARIANTS
  NothingToReport
