----------------------------- MODULE MCSession -----------------------------
(* Session with the commands of each run. *)
EXTENDS Session

CONSTANTS u1, s1, s2

Cmd(line, arg) == [line |-> line, arg |-> arg]

\* What leads through STARTTLS and AUTH to a message, and what ends a session.
GateCommands ==
  {Cmd("EHLO", None), Cmd("STARTTLS", None), Cmd("AUTH PLAIN", u1), Cmd("AUTH PLAIN", None),
   Cmd("AUTH LOGIN", None), Cmd("MAIL", s1), Cmd("RCPT", None), Cmd("DATA", None),
   Cmd("BAD", None), Cmd("QUIT", None), Cmd("long", None)}

\* Transactions and messages, with STARTTLS and AUTH at any point or not at all,
\* and what is refused or changes nothing.
MailCommands ==
  {Cmd("EHLO", None), Cmd("STARTTLS", None), Cmd("AUTH PLAIN", None), Cmd("AUTH OTHER", None),
   Cmd("MAIL", s1), Cmd("MAIL", s2), Cmd("MAIL", Junk), Cmd("RCPT", None), Cmd("RCPT", Junk),
   Cmd("DATA", None), Cmd("RSET", None), Cmd("NOOP", None), Cmd("VRFY", None)}
=============================================================================
