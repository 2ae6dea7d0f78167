\* A message byte by byte, cut into reads in every way.
SPECIFICATION Spec
CONSTANTS
  max_header_size = 12
  WRITE_CHUNK = 3
  MAX_COMMAND_BUFFER = 2
  MaxRead = 2
  Inputs <- MCInputs
  Answers <- MCAnswers
INVARIANTS
  TypeOK
  StopsAtTerminator
  CapByTheMessage
  BodyVerbatim
  ApiHasTheLastWord
  EveryHeaderShown
CHECK_DEADLOCK FALSE
