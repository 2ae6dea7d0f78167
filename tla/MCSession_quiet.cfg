\* docs/manual.md against the TLS handshake.
SPECIFICATION FairSpec
CONSTANTS
  None = None
  Junk = Junk
  u1 = u1
  s1 = s1
  s2 = s2
  Users = {u1}
  Senders = {s1}
  RequireStartTls = FALSE
  RequireAuth = FALSE
  TlsOffered = TRUE
  MaxRecipients = 1
  HeaderCap = 1
  Commands <- GateCommands
  Pipeline = 1
  Window = 2
PROPERTIES
  QuietIsClosedInEveryPhase
CHECK_DEADLOCK FALSE
