\* docs/manual.md against a client that sends its first command byte by byte.
SPECIFICATION Spec
CONSTANTS
  greeting_timeout = 2
  idle_timeout = 4
  MAX_COMMAND_BUFFER = 3
  MaxAge = 12
INVARIANTS
  FirstCommandInTime
CHECK_DEADLOCK FALSE
