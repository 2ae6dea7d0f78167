\* A message to two recipients under every --upstream_tls, through any upstream.
SPECIFICATION FairSpec
CONSTANTS
  Modes = {"off", "opportunistic", "required", "implicit"}
  Rcpts = 2
  Pieces = 2
  Window = 2
  Codes <- MCCodes
INVARIANTS
  TypeOK
  WholeMessage
  UpstreamTlsHonoured
  ParamsOnlyIfAnnounced
PROPERTIES
  KeepsPromise
  Settles
  AcceptedIsTold
CHECK_DEADLOCK FALSE
