\* Transactions and messages; STARTTLS and AUTH offered and not required.
SPECIFICATION Spec
CONSTANTS
  None = None
  Junk = Junk
  u1 = u1
  s1 = s1
  s2 = s2
  Users = {u1}
  Senders = {s1, s2}
  RequireStartTls = FALSE
  RequireAuth = FALSE
  TlsOffered = TRUE
  MaxRecipients = 2
  HeaderCap = 1
  Commands <- MailCommands
  Pipeline = 2
  Window = 1
INVARIANTS
  TypeOK
  InSync
  ReplyPerCommand
  EnvelopeAgreed
  RecipientsInStep
  DrainAnswersMessages
  FreshAtTls
CHECK_DEADLOCK FALSE
