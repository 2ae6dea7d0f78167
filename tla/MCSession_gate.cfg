\* STARTTLS and AUTH required; every order of the commands that lead to a message,
\* from a client that may hang up or fall silent anywhere.
SPECIFICATION FairSpec
CONSTANTS
  None = None
  Junk = Junk
  u1 = u1
  s1 = s1
  s2 = s2
  Users = {u1}
  Senders = {s1}
  RequireStartTls = TRUE
  RequireAuth = TRUE
  TlsOffered = TRUE
  MaxRecipients = 1
  HeaderCap = 1
  Commands <- GateCommands
  Pipeline = 2
  Window = 1
INVARIANTS
  Admission
  NoPlaintextInTls
PROPERTIES
  GoneIsClosed
  QuietIsClosed
CHECK_DEADLOCK FALSE
