--------------------------- MODULE CommandDeadline ---------------------------
(***************************************************************************)
(* How long a connection may take over a command: Session::next_line, read *)
(* by read, as the command loop calls it (server/session.rs).  Each trip   *)
(* round its loop arms the timer anew, and the timer is --greeting_timeout *)
(* until one whole line has been taken.  Time is counted in ticks; a timer *)
(* that has run out fires before the next one.                             *)
(***************************************************************************)
EXTENDS Naturals

CONSTANTS
  greeting_timeout, idle_timeout,
  MAX_COMMAND_BUFFER,
  MaxAge   \* bound: ticks a connection is followed for

VARIABLES
  age,                \* ticks since the greeting
  waited,             \* ticks the pending read has been waiting
  len,                \* bytes in buf, none of them a newline
  first_command_seen,
  ended               \* why the connection was closed

vars == <<age, waited, len, first_command_seen, ended>>

Init == age = 0 /\ waited = 0 /\ len = 0 /\ first_command_seen = FALSE /\ ended = "open"

deadline == IF first_command_seen THEN idle_timeout ELSE greeting_timeout

Tick ==
  /\ ended = "open" /\ waited < deadline /\ age < MaxAge
  /\ age' = age + 1 /\ waited' = waited + 1
  /\ UNCHANGED <<len, first_command_seen, ended>>

\* A read that brings no newline: round the loop again, unless what is held
\* exceeds max_incomplete and refuse_long_line closes the connection.
ReadsPart ==
  /\ ended = "open"
  /\ len' = len + 1 /\ waited' = 0
  /\ ended' = IF len' > MAX_COMMAND_BUFFER THEN "too long" ELSE "open"
  /\ UNCHANGED <<age, first_command_seen>>

\* A read that brings the newline: serve takes the line and asks for the next.
ReadsLine ==
  /\ ended = "open"
  /\ len' = 0 /\ waited' = 0 /\ first_command_seen' = TRUE
  /\ UNCHANGED <<age, ended>>

TimesOut ==
  /\ ended = "open" /\ waited = deadline
  /\ ended' = "timed out"
  /\ UNCHANGED <<age, waited, len, first_command_seen>>

Eof ==
  /\ ended = "open"
  /\ ended' = "closed"
  /\ UNCHANGED <<age, waited, len, first_command_seen>>

Next == Tick \/ ReadsPart \/ ReadsLine \/ TimesOut \/ Eof

Spec == Init /\ [][Next]_vars

-----------------------------------------------------------------------------
\* "A connection that has not sent a complete command within
\* --greeting_timeout seconds is closed" (docs/manual.md).
FirstCommandInTime ==
  ended = "open" /\ ~first_command_seen => age <= greeting_timeout
=============================================================================
