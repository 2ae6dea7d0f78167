------------------------------- MODULE Session -------------------------------
(***************************************************************************)
(* One client connection of the proxy: server/session.rs, driven by a      *)
(* client that may pipeline, fall silent or hang up, and serving a Handler *)
(* (proxy.rs, ProxyHandler) whose transaction is the variable transaction. *)
(*                                                                         *)
(* A line is a record [line, arg, role, tls].  `line' and `arg' are what   *)
(* the bytes say; `role' is what the client meant by them (a command, a    *)
(* SASL token, message text, or the end of the message) and is never read  *)
(* by the proxy: it is there so that the invariants can say that the proxy *)
(* reads every line as what it was sent as.  `tls' says whether the line   *)
(* was sent inside TLS.  The line "long" is bytes with no newline that     *)
(* exceed every budget of next_line; what follows it is the tail of the    *)
(* same line.  An argument of Junk is one the proxy's own checks refuse: a *)
(* SASL token that does not decode, DSN parameters that are not valid.     *)
(***************************************************************************)
EXTENDS Naturals, Sequences, FiniteSets, SequencesExt

CONSTANTS
  RequireStartTls, RequireAuth, TlsOffered,  \* ServerConfig
  MaxRecipients,   \* ServerConfig::max_recipients, 0 is unlimited
  HeaderCap,       \* max_header_size, counted in header lines
  Users,           \* usernames the client may claim
  Senders,         \* envelope senders
  None, Junk,      \* no value; a value that is refused
  Commands,        \* the commands [line, arg] the client sends
  Pipeline,        \* bound: replies the client awaits, lines it has in flight
  Window           \* replies the connection holds unread before a write waits

ASSUME ConfigAssumption ==
  /\ RequireStartTls \in BOOLEAN /\ RequireAuth \in BOOLEAN /\ TlsOffered \in BOOLEAN
  /\ MaxRecipients \in Nat /\ HeaderCap \in Nat /\ Pipeline \in Nat \ {0}
  /\ Window \in Nat \ {0}

AuthVerbs == {"AUTH PLAIN", "AUTH LOGIN", "AUTH OTHER"}
Sequenced == {"STARTTLS", "MAIL", "RCPT", "DATA"} \cup AuthVerbs
Verbs == {"EHLO", "QUIT", "RSET", "NOOP", "VRFY"} \cup Sequenced
\* what a line can say, and what a client can await the answer to
Words == Verbs \cup {"BAD", "token", "hdr", "blank", "dot", "long"}
               \cup {"GREETING", "TOKEN", "MESSAGE"}
Args  == Users \cup Senders \cup {None, Junk}
Awaited == [line : Words, arg : Args]

ASSUME NamesAssumption ==
  /\ None \notin Users \cup Senders /\ Junk \notin Users \cup Senders /\ None # Junk
  /\ Commands \subseteq Awaited

\* The last three of Words are no lines, and a MAIL without a path is no MAIL
\* (parse_path): it is a line that parse_command refuses.
ASSUME CommandsAssumption ==
  \A c \in Commands :
    /\ c.line \notin {"GREETING", "TOKEN", "MESSAGE"}
    /\ c.line = "MAIL" => c.arg # None

VARIABLES
  pc,            \* where serve() goes on once its last reply is out, or its End
  state,         \* Session::state
  tls_active,    \* Session::tls_active
  buf,           \* Session::buf, whole lines
  recipients,    \* Session::recipients
  login,         \* the username token of an AUTH LOGIN in progress
  hdrs,          \* header lines collected, HeaderCollector::size
  body_follows,  \* read_message: the terminator has not been read yet
  at_line_start, \* the next bytes begin a line
  why,           \* what the drain to the terminator is for
  username,      \* ProxyHandler::username
  transaction,   \* ProxyHandler::transaction
  draining,      \* Drain::token is cancelled
  sock,          \* lines the client has sent and the session has not read
  replies,       \* reply codes written, or being written, and not read yet
  pending,       \* commands the client awaits a reply to, oldest first
  cphase,        \* what the client may send next
  mine,          \* the envelope the client has been told is accepted
  gone, quiet    \* the client has closed the connection; it will never send again

sessionVars == <<state, tls_active, recipients, login>>
dataVars    == <<hdrs, body_follows, at_line_start, why>>
handlerVars == <<username, transaction>>
clientVars  == <<pending, cphase, mine, gone, quiet>>
serverVars  == <<pc, sessionVars, buf, dataVars, handlerVars>>
vars == <<serverVars, draining, sock, replies, clientVars>>

(* enum State, whose derived Ord is part of the protocol *)
WantGreeting == 0
WantStartTls == 1
WantAuth     == 2
WantMail     == 3
WantRcpt     == 4
WantData     == 5

SaslPhases == {"plain", "login_user", "login_pass"}
\* where a message is being received or relayed, and not yet refused
MessagePhases == {"header", "open_body", "body", "write", "finish"}
Ends == {"Quit", "Eof", "Io", "Timeout", "TlsFailed", "Closed", "Drained"}
Phases == {"greet", "command", "handshake", "discard"}
            \cup SaslPhases \cup MessagePhases \cup Ends
\* the phases that call next_line
Reading == {"command", "header", "body", "discard"} \cup SaslPhases


NoEnvelope == [from |-> None, rcpts |-> 0]
Message(c) == [line |-> c, arg |-> None]

Init ==
  /\ pc = "greet" /\ state = WantGreeting /\ tls_active = FALSE /\ buf = <<>>
  /\ recipients = 0 /\ login = None
  /\ hdrs = 0 /\ body_follows = TRUE /\ at_line_start = TRUE /\ why = "none"
  /\ username = None /\ transaction = NoEnvelope
  /\ draining = FALSE
  /\ sock = <<>> /\ replies = <<>>
  /\ pending = <<Message("GREETING")>>
  /\ cphase = "cmd" /\ mine = NoEnvelope /\ gone = FALSE /\ quiet = FALSE

-----------------------------------------------------------------------------
(* The reader and the writer of the session *)

\* next_line may wait for bytes; at a command it does so only while no drain
\* has begun (next_command_line, whose select is biased).
Waiting ==
  /\ pc \in Reading /\ buf = <<>>
  /\ pc = "command" => ~draining

\* The socket is read only when the buffer holds no line, and one read may
\* bring in several.
Read ==
  /\ Waiting
  /\ \E n \in 1..Len(sock) :
        /\ buf' = SubSeq(sock, 1, n)
        /\ sock' = SubSeq(sock, n + 1, Len(sock))
  /\ UNCHANGED <<pc, sessionVars, dataVars, handlerVars, draining, replies, clientVars>>

\* next_line returning the line l, or TooLong when it is "long".
Take(l) ==
  /\ buf # <<>>
  /\ l = Head(buf).line
  /\ buf' = Tail(buf)

Arg == Head(buf).arg

\* The last send() has returned.  write_all and flush wait, without a timeout,
\* while the client does not read and the connection holds no more.
Sent == Len(replies) <= Window

\* send(): the reply is written and serve() goes on at `next' as soon as it is
\* Sent, or the client has hung up, the write fails and it goes on at `failed'.
\* What the code does between the write and its next wait, which nobody else
\* sees, is part of the same step.
Tell(code, next, failed) ==
  \/ replies' = Append(replies, code) /\ pc' = next
  \/ gone /\ pc' = failed /\ UNCHANGED replies

\* A reply sent with `?': a failure ends serve() with End::Io.
Answer(code, next) == Tell(code, next, "Io")

\* Mutant: only the handler forgets the recipients.
start_transaction_mutant ==
  /\ UNCHANGED recipients
  /\ transaction' = NoEnvelope

\* Session::start_transaction with Handler::reset.
start_transaction ==
  /\ recipients' = 0
  /\ transaction' = NoEnvelope

\* Mutant: discard_to_terminator reads on after the end of the stream.
HangUp_mutant ==
  /\ Waiting /\ gone /\ pc # "discard" /\ sock = <<>>
  /\ pc' = IF pc = "command" THEN "Eof" ELSE "Closed"
  /\ UNCHANGED <<sessionVars, buf, dataVars, handlerVars, draining, sock, replies, clientVars>>

\* next_line reporting the end of the stream, or its reset.  mirror() still
\* clears the transaction after an end of stream.
HangUp ==
  /\ Waiting /\ gone
  /\ \/ /\ sock = <<>>
        /\ pc' = IF pc = "command" THEN "Eof" ELSE "Closed"
        /\ IF pc = "discard" /\ why = "mirror"
           THEN start_transaction ELSE UNCHANGED <<recipients, transaction>>
     \/ /\ pc' = "Io"
        /\ UNCHANGED <<recipients, transaction>>
  /\ UNCHANGED <<state, tls_active, login, buf, dataVars, username, draining, sock,
                 replies, clientVars>>

\* Mutant: only the wait for a command is timed.
IdleTimeout_mutant ==
  /\ pc = "command" /\ Waiting /\ sock = <<>> /\ ~gone
  /\ pc' = "Timeout"
  /\ UNCHANGED <<sessionVars, buf, dataVars, handlerVars, draining, sock, replies, clientVars>>

\* next_line running into greeting_timeout or idle_timeout.
IdleTimeout ==
  /\ Waiting /\ sock = <<>> /\ ~gone
  /\ pc' = "Timeout"
  /\ UNCHANGED <<sessionVars, buf, dataVars, handlerVars, draining, sock, replies, clientVars>>

\* The write of a reply that could not go out failing: End::Io, or from
\* refuse_data End::Closed.  drained and refuse_long_line ignore the failure.
WriteFails ==
  /\ ~Sent /\ gone
  /\ \/ pc \notin Ends /\ pc' \in {"Io", "Closed"}
     \/ pc = "Quit" /\ pc' = "Io"
  /\ UNCHANGED <<sessionVars, buf, dataVars, handlerVars, draining, sock, replies, clientVars>>

\* serve: the 220 before the loop.
Greet ==
  /\ pc = "greet"
  /\ Answer(220, "command")
  /\ UNCHANGED <<sessionVars, buf, dataVars, handlerVars, draining, sock, clientVars>>

\* Mutant: every read is cancelled by the drain, read_message's too.
Drained_mutant ==
  /\ pc \in Reading /\ draining
  /\ Tell(421, "Drained", "Drained")
  /\ UNCHANGED <<sessionVars, buf, dataVars, handlerVars, draining, sock, clientVars>>

\* The drain winning next_command_line, and drained().
Drained ==
  /\ pc = "command" /\ draining
  /\ Tell(421, "Drained", "Drained")
  /\ UNCHANGED <<sessionVars, buf, dataVars, handlerVars, draining, sock, clientVars>>

-----------------------------------------------------------------------------
(* The command loop: serve() and dispatch() *)

Command(line) == pc = "command" /\ ~draining /\ Take(line)

\* The state in which a command is judged: want_starttls and want_auth hand a
\* command on to the next state when the configuration does not insist.
settle(line) ==
  LET s == IF /\ state = WantStartTls /\ ~RequireStartTls
              /\ ~(line = "STARTTLS" /\ TlsOffered)
           THEN WantAuth ELSE state
  IN  IF s = WantAuth /\ line \notin AuthVerbs /\ ~RequireAuth THEN WantMail ELSE s

\* The states whose handler runs the command rather than refusing it.
accepts(line) ==
  LET s == settle(line)
  IN  \/ line = "STARTTLS" /\ s = WantStartTls /\ TlsOffered
      \/ line \in AuthVerbs /\ s = WantAuth
      \/ line = "MAIL" /\ s = WantMail
      \/ line = "RCPT" /\ s \in {WantRcpt, WantData}
      \/ line = "DATA" /\ s = WantData

\* bad_sequence, or the 530 of want_starttls and want_auth.
OutOfSequence ==
  \E line \in Sequenced :
    /\ Command(line)
    /\ ~accepts(line)
    /\ state' = settle(line)
    /\ Answer(IF settle(line) \in {WantStartTls, WantAuth} THEN 530 ELSE 503, "command")
    /\ UNCHANGED <<tls_active, recipients, login, dataVars, handlerVars, draining,
                   sock, clientVars>>

\* NOOP, VRFY, and whatever parse_command refuses: a reply and nothing else.
ReplyOnly ==
  /\ \/ Command("NOOP") /\ Answer(250, "command")
     \/ Command("VRFY") /\ Answer(553, "command")
     \/ /\ buf # <<>> /\ Head(buf).line \notin Verbs \cup {"long"}
        /\ Command(Head(buf).line) /\ Answer(500, "command")
  /\ UNCHANGED <<sessionVars, dataVars, handlerVars, draining, sock, clientVars>>

\* refuse_long_line, from the command loop and from auth_continuation.
LongLine ==
  /\ Command("long") \/ (pc \in SaslPhases /\ Take("long"))
  /\ Tell(500, "Closed", "Closed")
  /\ UNCHANGED <<sessionVars, dataVars, handlerVars, draining, sock, clientVars>>

Quit ==
  /\ Command("QUIT")
  /\ Answer(221, "Quit")
  /\ UNCHANGED <<sessionVars, dataVars, handlerVars, draining, sock, clientVars>>

\* Mutant: the transaction goes, the state stays.
RsetState_mutant == state

\* The state after RSET: back to WantMail, never forward to it.
RsetState == IF state > WantMail THEN WantMail ELSE state

Rset ==
  /\ Command("RSET")
  /\ start_transaction
  /\ state' = RsetState
  /\ Answer(250, "command")
  /\ UNCHANGED <<tls_active, login, dataVars, username, draining, sock, clientVars>>

\* Mutant: any earlier greeting counts as having passed STARTTLS.
GreetedState_mutant ==
  IF state >= WantMail THEN WantMail
  ELSE IF state >= WantStartTls \/ tls_active THEN WantAuth
  ELSE WantStartTls

\* Mutant: a greeting in the clear starts the session over.
GreetedState_restart ==
  IF tls_active THEN (IF state >= WantMail THEN WantMail ELSE WantAuth) ELSE WantStartTls

\* The state after a greeting: authentication survives it.
GreetedState ==
  IF state >= WantMail THEN WantMail
  ELSE IF state >= WantAuth \/ tls_active THEN WantAuth
  ELSE WantStartTls

\* greeting(): EHLO and HELO reset the transaction but never the session.
Greeting ==
  /\ Command("EHLO")
  /\ IF state >= WantMail THEN start_transaction ELSE UNCHANGED <<recipients, transaction>>
  /\ state' = GreetedState
  /\ Answer(250, "command")
  /\ UNCHANGED <<tls_active, login, dataVars, username, draining, sock, clientVars>>

\* Mutant: the lines read in the clear are kept.
StartTls_mutant ==
  /\ Command("STARTTLS") /\ accepts("STARTTLS")
  /\ Answer(220, "handshake")
  /\ UNCHANGED <<sessionVars, dataVars, handlerVars, draining, sock, clientVars>>

\* want_starttls: 220, then whatever was read in the clear is thrown away and
\* the stream is handed to the TLS acceptor.
StartTls ==
  /\ pc = "command" /\ ~draining
  /\ buf # <<>> /\ Head(buf).line = "STARTTLS" /\ accepts("STARTTLS")
  /\ Answer(220, "handshake")
  /\ buf' = IF pc' = "Io" THEN Tail(buf) ELSE <<>>
  /\ UNCHANGED <<sessionVars, dataVars, handlerVars, draining, sock, clientVars>>

\* TlsAcceptor::accept failing: the client left, or the bytes are not TLS.
HandshakeFails ==
  /\ pc = "handshake"
  /\ gone \/ sock # <<>>
  /\ pc' = "TlsFailed"
  /\ UNCHANGED <<sessionVars, buf, dataVars, handlerVars, draining, sock, replies, clientVars>>

\* The handshake, a joint step of the client and the acceptor.  It has no
\* timeout of its own, so it is the client that decides when it ends and how.
ClientHandshake ==
  /\ pc = "handshake" /\ cphase = "hello" /\ sock = <<>>
  /\ ~gone /\ ~quiet
  /\ \/ /\ pc' = "command" /\ tls_active' = TRUE /\ state' = WantAuth
        /\ cphase' = "cmd"
     \/ /\ pc' = "TlsFailed"
        /\ UNCHANGED <<tls_active, state, cphase>>
  /\ UNCHANGED <<recipients, login, buf, dataVars, handlerVars, draining, sock, replies,
                 pending, mine, gone, quiet>>

-----------------------------------------------------------------------------
(* Authentication.  ProxyHandler::auth accepts whatever decodes. *)

finish_auth(cred) ==
  IF cred \in Users
  THEN /\ username' = cred
       /\ Answer(235, "command")
       /\ state' = IF pc' = "Io" THEN WantAuth ELSE WantMail
  ELSE /\ Answer(535, "command")
       /\ state' = WantAuth
       /\ UNCHANGED username

\* want_auth up to its first reply.
Auth ==
  /\ \/ /\ Command("AUTH PLAIN") /\ accepts("AUTH PLAIN")
        /\ IF Arg = None
           THEN Answer(334, "plain") /\ state' = WantAuth /\ UNCHANGED username
           ELSE finish_auth(Arg)
     \/ /\ Command("AUTH LOGIN") /\ accepts("AUTH LOGIN")
        /\ Answer(334, "login_user") /\ state' = WantAuth /\ UNCHANGED username
     \/ /\ Command("AUTH OTHER") /\ accepts("AUTH OTHER")
        /\ Answer(504, "command") /\ state' = WantAuth /\ UNCHANGED username
  /\ UNCHANGED <<tls_active, recipients, login, dataVars, transaction, draining, sock,
                 clientVars>>

\* auth_continuation and what want_auth does with the token.
AuthToken ==
  /\ pc \in SaslPhases
  /\ buf # <<>> /\ Head(buf).line # "long" /\ Take(Head(buf).line)
  /\ IF Head(buf).line = "blank"
     THEN Answer(500, "command") /\ UNCHANGED <<state, username, login>>
     ELSE CASE pc = "plain" -> finish_auth(Arg) /\ UNCHANGED login
            [] pc = "login_user" -> /\ login' = Arg
                                    /\ Answer(334, "login_pass")
                                    /\ UNCHANGED <<state, username>>
            [] pc = "login_pass" -> /\ finish_auth(IF Arg = Junk THEN Junk ELSE login)
                                    /\ UNCHANGED login
  /\ UNCHANGED <<tls_active, recipients, dataVars, transaction, draining, sock, clientVars>>

-----------------------------------------------------------------------------
(* The envelope.  ProxyHandler::mail may refuse (the rate limit); rcpt never
   does. *)

Mail ==
  /\ Command("MAIL") /\ accepts("MAIL")
  /\ \/ /\ Arg = Junk
        /\ Answer(501, "command") /\ state' = WantMail
        /\ UNCHANGED <<recipients, transaction>>
     \/ /\ Arg # Junk
        /\ recipients' = 0
        /\ transaction' = [from |-> Arg, rcpts |-> 0]
        /\ Answer(250, "command")
        /\ state' = IF pc' = "Io" THEN WantMail ELSE WantRcpt
     \/ /\ Arg # Junk
        /\ start_transaction
        /\ Answer(450, "command") /\ state' = WantMail
  /\ UNCHANGED <<tls_active, login, dataVars, username, draining, sock, clientVars>>

AtRecipientCap == MaxRecipients > 0 /\ recipients >= MaxRecipients

Rcpt ==
  /\ Command("RCPT") /\ accepts("RCPT")
  /\ IF Arg = Junk \/ AtRecipientCap
     THEN /\ Answer(IF Arg = Junk THEN 501 ELSE 452, "command")
          /\ UNCHANGED <<state, recipients, transaction>>
     ELSE /\ transaction' = [transaction EXCEPT !.rcpts = @ + 1]
          /\ recipients' = recipients + 1
          /\ Answer(250, "command")
          /\ state' = IF pc' = "Io" THEN state ELSE WantData
  /\ UNCHANGED <<tls_active, login, dataVars, username, draining, sock, clientVars>>

-----------------------------------------------------------------------------
(* DATA: read_message and what it calls *)

Data ==
  /\ Command("DATA") /\ accepts("DATA")
  /\ Answer(354, "header")
  /\ hdrs' = 0 /\ body_follows' = TRUE /\ at_line_start' = TRUE /\ why' = "none"
  /\ UNCHANGED <<sessionVars, handlerVars, draining, sock, clientVars>>

\* discard_to_terminator is entered for the reason r.
Discard(r, line_start) ==
  pc' = "discard" /\ why' = r /\ at_line_start' = line_start

\* Mutant: the cap is tested before the line is counted.
HeaderFull_mutant == hdrs > HeaderCap

\* HeaderCollector::push_line: one more header line crosses the cap.
HeaderFull == hdrs = HeaderCap

\* The header loop: HeaderCollector::push_line, and TooLong mid-line.
HeaderLine ==
  /\ pc = "header" /\ buf # <<>> /\ Take(Head(buf).line)
  /\ CASE Head(buf).line = "long" ->
            Discard("large", FALSE) /\ UNCHANGED <<hdrs, body_follows>>
       [] Head(buf).line = "dot" ->
            /\ pc' = "open_body" /\ body_follows' = FALSE
            /\ UNCHANGED <<hdrs, at_line_start, why>>
       [] Head(buf).line = "blank" ->
            pc' = "open_body" /\ UNCHANGED dataVars
       [] OTHER ->
            IF HeaderFull
            THEN Discard("large", TRUE) /\ UNCHANGED <<hdrs, body_follows>>
            ELSE hdrs' = hdrs + 1 /\ UNCHANGED <<pc, body_follows, at_line_start, why>>
  /\ UNCHANGED <<sessionVars, handlerVars, draining, sock, replies, clientVars>>

\* refuse_data: a client that has left is closed, not an error.
refuse_data(code, next) == Tell(code, next, "Closed")

\* Handler::open_body returning; the message is refused at its terminator.
OpenBody ==
  /\ pc = "open_body"
  /\ \/ /\ pc' = IF body_follows THEN "body" ELSE "finish"
        /\ UNCHANGED <<state, at_line_start, why, replies>>
     \/ /\ body_follows
        /\ Discard("refused", TRUE)
        /\ UNCHANGED <<state, replies>>
     \/ /\ ~body_follows
        /\ state' = WantMail
        /\ refuse_data(550, "command")
        /\ UNCHANGED <<at_line_start, why>>
  /\ UNCHANGED <<tls_active, recipients, login, buf, hdrs, body_follows, handlerVars,
                 draining, sock, clientVars>>

\* Mutant: the tail of a long line may end the message.
AtTerminator_mutant == Head(buf).line = "dot"

\* is_terminator, tested only where a line begins.
AtTerminator == Head(buf).line = "dot" /\ at_line_start

\* The body loop up to BodyFramer's answer.  A line too long for the buffer
\* always fills a chunk; any other line may.
BodyLine ==
  /\ pc = "body" /\ buf # <<>> /\ Take(Head(buf).line)
  /\ \/ /\ Head(buf).line = "long"
        /\ pc' = "write" /\ at_line_start' = FALSE
     \/ /\ AtTerminator
        /\ pc' = "finish" /\ UNCHANGED at_line_start
     \/ /\ Head(buf).line # "long"
        /\ ~AtTerminator
        /\ pc' \in {"body", "write"} /\ at_line_start' = TRUE
  /\ UNCHANGED <<sessionVars, hdrs, body_follows, why, handlerVars, draining, sock,
                 replies, clientVars>>

\* mirror(): the upstream dropped us, or its refusal is passed on at once.
mirror ==
  /\ state' = WantMail
  /\ \/ pc' = "Closed" /\ UNCHANGED <<why, replies>>
     \/ why' = "mirror" /\ refuse_data(550, "discard")

\* BodySink::write returning.
Write ==
  /\ pc = "write"
  /\ \/ pc' = "body" /\ UNCHANGED <<state, why, replies>>
     \/ mirror
  /\ UNCHANGED <<tls_active, recipients, login, buf, hdrs, body_follows, at_line_start,
                 handlerVars, draining, sock, clientVars>>

\* conclude(): accepted, refused, or dropped without a word.
conclude ==
  /\ state' = WantMail
  /\ \/ refuse_data(250, "command")
     \/ refuse_data(550, "command")
     \/ pc' = "Closed" /\ UNCHANGED replies

\* BodySink::write_final and finish.
Finish ==
  /\ pc = "finish"
  /\ conclude
  /\ UNCHANGED <<tls_active, recipients, login, buf, dataVars, handlerVars, draining, sock,
                 clientVars>>

\* Mutant: a message already refused by mirror() is refused again.
TerminatorReply_mutant == refuse_data(IF why = "large" THEN 552 ELSE 550, "command")

\* What is said at the terminator of a discarded message.
TerminatorReply ==
  CASE why = "large"   -> refuse_data(552, "command")
    [] why = "refused" -> refuse_data(550, "command")
    [] OTHER           -> pc' = "command" /\ UNCHANGED replies

\* discard_to_terminator, and what its three callers do at the terminator.
DiscardLine ==
  /\ pc = "discard" /\ buf # <<>> /\ Take(Head(buf).line)
  /\ IF AtTerminator
     THEN /\ state' = WantMail
          /\ IF why = "refused" THEN UNCHANGED <<recipients, transaction>>
                                ELSE start_transaction
          /\ TerminatorReply
          /\ UNCHANGED at_line_start
     ELSE /\ at_line_start' = (Head(buf).line # "long")
          /\ UNCHANGED <<pc, state, recipients, transaction, replies>>
  /\ UNCHANGED <<tls_active, login, hdrs, body_follows, why, username, draining, sock,
                 clientVars>>

\* Drain::token.cancel(), called once by the shutdown path.
DrainBegins ==
  /\ ~draining /\ pc \notin Ends
  /\ draining' = TRUE
  /\ UNCHANGED <<serverVars, sock, replies, clientVars>>

-----------------------------------------------------------------------------
(* The client *)

Puts(line, arg, role) ==
  sock' = Append(sock, [line |-> line, arg |-> arg, role |-> role, tls |-> tls_active])

\* serve() has returned: its last reply is out, or failed to go.
Returned == pc \in Ends /\ (Sent \/ gone)

\* What a client does once serve() has returned reaches nobody.
Connected == ~gone /\ ~Returned

\* Nor does what it sends once serve() is only waiting to say why it ends.
CanSend == Connected /\ pc \notin Ends /\ ~quiet /\ Len(sock) < Pipeline

\* A command, possibly before the earlier ones are answered.  DATA and an
\* exchange of SASL tokens end a pipelined group; STARTTLS ought to.
ClientCommand ==
  /\ CanSend /\ cphase = "cmd" /\ Len(pending) < Pipeline
  /\ \E c \in Commands :
       /\ Puts(c.line, c.arg, "cmd")
       /\ pending' = Append(pending, c)
       /\ cphase' = CASE c.line = "DATA" -> "wait"
                      [] c.line \in AuthVerbs /\ (c.arg = None \/ c.line = "AUTH LOGIN") -> "wait"
                      [] c.line \in {"QUIT", "long"} -> "done"
                      [] OTHER -> "cmd"
  /\ UNCHANGED <<serverVars, draining, replies, mine, gone, quiet>>

ClientToken ==
  /\ CanSend /\ cphase = "auth"
  /\ \/ \E t \in Users \cup {Junk} : Puts("token", t, "auth") /\ cphase' = "wait"
     \/ Puts("blank", None, "auth") /\ cphase' = "wait"
     \/ Puts("long", None, "auth") /\ cphase' = "done"
  /\ pending' = Append(pending, Message("TOKEN"))
  /\ UNCHANGED <<serverVars, draining, replies, mine, gone, quiet>>

\* A line of the message.  The tail of a line that began with "long" may be a
\* dot like any other text.
ClientText ==
  /\ CanSend
  /\ \/ /\ cphase \in {"data", "tail"}
        /\ \/ \E l \in {"hdr", "blank"} : Puts(l, None, "text") /\ cphase' = "data"
           \/ Puts("long", None, "text") /\ cphase' = "tail"
     \/ cphase = "data" /\ Puts("dot", None, "end") /\ cphase' = "cmd"
     \/ cphase = "tail" /\ Puts("dot", None, "text") /\ cphase' = "data"
  /\ UNCHANGED <<serverVars, draining, replies, pending, mine, gone, quiet>>

\* What the client takes its envelope e to become with reply r to command c.
Envelope(e, c, r) ==
  CASE c.line = "MAIL" /\ r = 250 -> [from |-> c.arg, rcpts |-> 0]
    [] c.line = "RCPT" /\ r = 250 -> [e EXCEPT !.rcpts = @ + 1]
    [] \/ c.line = "MESSAGE"
       \/ c.line \in {"EHLO", "RSET"} /\ r = 250
       \/ c.line = "MAIL" /\ r = 450 -> NoEnvelope
    [] OTHER -> e

ClientReads ==
  /\ replies # <<>> /\ pending # <<>> /\ ~gone
  /\ LET r == Head(replies)
         c == Head(pending)
     IN  /\ mine' = Envelope(mine, c, r)
         /\ pending' = CASE r = 354 -> <<Message("MESSAGE")>>
                         [] c.line = "STARTTLS" /\ r = 220 -> <<>>
                         [] OTHER -> Tail(pending)
         /\ cphase' = CASE r = 421 -> "done"
                        [] r = 354 -> "data"
                        [] r = 334 -> "auth"
                        [] c.line = "STARTTLS" /\ r = 220 -> "hello"
                        [] OTHER -> IF cphase = "wait" /\ Len(pending) = 1 THEN "cmd" ELSE cphase
  /\ replies' = Tail(replies)
  /\ UNCHANGED <<serverVars, draining, sock, gone, quiet>>

ClientHangsUp ==
  /\ Connected
  /\ gone' = TRUE
  /\ UNCHANGED <<serverVars, draining, sock, replies, pending, cphase, mine, quiet>>

ClientFallsSilent ==
  /\ Connected /\ ~quiet
  /\ quiet' = TRUE
  /\ UNCHANGED <<serverVars, draining, sock, replies, pending, cphase, mine, gone>>

-----------------------------------------------------------------------------
\* What the proxy does on its own when it waits for no write, each wait for the
\* API or the upstream being bounded by a timeout of its own.
Serve ==
  \/ Read \/ HangUp \/ IdleTimeout \/ Greet \/ Drained
  \/ OutOfSequence \/ ReplyOnly \/ LongLine \/ Quit \/ Rset \/ Greeting
  \/ StartTls \/ HandshakeFails \/ Auth \/ AuthToken \/ Mail \/ Rcpt
  \/ Data \/ HeaderLine \/ OpenBody \/ BodyLine \/ Write \/ Finish \/ DiscardLine

Client ==
  \/ ClientHandshake \/ ClientCommand \/ ClientToken \/ ClientText \/ ClientReads
  \/ ClientHangsUp \/ ClientFallsSilent

\* One task: nothing is read, timed or drained while a reply waits to go out.
Proceed == (Sent /\ Serve) \/ WriteFails

Next == Proceed \/ Client \/ DrainBegins

Spec == Init /\ [][Next]_vars

\* The runtime keeps polling the session; nothing is assumed of the client, which
\* need not read.
FairSpec == Spec /\ WF_vars(Proceed)

-----------------------------------------------------------------------------
(* Properties *)

Lines == [line : Words, arg : Args, role : {"cmd", "auth", "text", "end"}, tls : BOOLEAN]
Envelopes == [from : Args, rcpts : Nat]

SessionType ==
  /\ state \in WantGreeting..WantData /\ tls_active \in BOOLEAN
  /\ recipients \in Nat /\ login \in Args

DataType ==
  /\ hdrs \in 0..HeaderCap /\ body_follows \in BOOLEAN /\ at_line_start \in BOOLEAN
  /\ why \in {"none", "large", "refused", "mirror"}

HandlerType == username \in Users \cup {None} /\ transaction \in Envelopes

WireType ==
  /\ pc \in Phases /\ draining \in BOOLEAN
  /\ buf \in Seq(Lines) /\ sock \in Seq(Lines) /\ replies \in Seq(Nat)

ClientType ==
  /\ pending \in Seq(Awaited)
  /\ cphase \in {"cmd", "wait", "auth", "data", "tail", "hello", "done"}
  /\ mine \in Envelopes /\ gone \in BOOLEAN /\ quiet \in BOOLEAN

\* The type of every variable; the header block stays within its cap.
TypeOK == SessionType /\ DataType /\ HandlerType /\ WireType /\ ClientType

Stream == buf \o sock

\* What the proxy will read the next line as.
Expects ==
  IF pc \in SaslPhases THEN {"auth"}
  ELSE IF pc \in {"header", "body", "write", "discard"} \/ (pc = "open_body" /\ body_follows)
  THEN {"text", "end"}
  ELSE {"cmd"}

\* The proxy reads every line as what the client sent it as: message text is
\* never run as a command, nor a command swallowed as text, whatever was
\* refused before it and wherever in a line the refusal fell
\* (discard_to_terminator, BodyFramer, auth_continuation).
InSync ==
  pc \notin Ends \cup {"handshake"} /\ Stream # <<>> => Head(Stream).role \in Expects

\* Replies the session still owes for what it has already read.
Owed ==
  IF pc \in {"greet"} \cup MessagePhases \/ (pc = "discard" /\ why # "mirror") THEN 1 ELSE 0

CountOf(seq, Test(_)) == Cardinality({i \in DOMAIN seq : Test(seq[i])})

\* Exactly one reply per command, SASL token and message, so that a client
\* that pipelines never takes the answer to one for the answer to another: in
\* particular the reply mirror() sends in mid-message is the message's only
\* one.
ReplyPerCommand ==
  pc \notin Ends \cup {"handshake"} =>
    Len(pending) + CountOf(replies, LAMBDA r : r = 354)
      = Len(replies) + CountOf(Stream, LAMBDA l : l.role \in {"cmd", "auth"}) + Owed

\* The message is relayed under the envelope its client has been told was
\* accepted, with a sender and at least one recipient: nothing leaks from an
\* earlier transaction, through RSET, EHLO, a refused MAIL or a refused
\* message.
EnvelopeAgreed ==
  pc \in MessagePhases /\ (\A i \in DOMAIN replies : replies[i] # 354) =>
    transaction = mine /\ mine.from # None /\ mine.rcpts > 0

\* Session::recipients, which enforces max_recipients, counts what the handler
\* holds, though the two are kept by different objects.
RecipientsInStep ==
  /\ recipients = transaction.rcpts
  /\ MaxRecipients > 0 => recipients <= MaxRecipients

\* No envelope is opened and no message relayed before the session has passed
\* what the configuration requires, and no credentials are taken in the clear
\* when STARTTLS is required; State carries this on its own, without a flag.
Admission ==
  /\ pc \in MessagePhases \/ transaction # NoEnvelope =>
        /\ RequireStartTls => tls_active
        /\ RequireAuth => username # None
  /\ RequireStartTls /\ (pc \in SaslPhases \/ username # None) => tls_active

\* What State stands for, phase by phase; with the two invariants above it is
\* inductive, and Admission and FreshAtTls follow from it.
Sequencing ==
  /\ pc = "handshake" => state = WantStartTls
  /\ pc \in SaslPhases => state = WantAuth
  /\ pc \in MessagePhases => state = WantData
  /\ pc = "discard" => state \in {WantMail, WantData}
  /\ state < WantMail => transaction = NoEnvelope
  /\ state < WantMail /\ pc \notin Ends => username = None
  /\ RequireStartTls /\ (state >= WantAuth \/ username # None) => tls_active
  /\ RequireAuth /\ state >= WantMail => username # None

\* Nothing received in the clear is read as though it came through TLS
\* (want_starttls, CVE-2011-0411).
NoPlaintextInTls ==
  tls_active => \A i \in DOMAIN Stream : Stream[i].tls

\* Nothing learned in the clear survives into TLS (RFC 3207 4.2): want_starttls
\* resets nothing, so there must be nothing to reset.
FreshAtTls ==
  pc = "handshake" => username = None /\ transaction = NoEnvelope /\ recipients = 0

\* A drain closes a session between commands: whoever was sending a message
\* has been given its verdict before the 421 (next_command_line).
DrainAnswersMessages ==
  pc = "Drained" =>
    /\ \A i \in DOMAIN Stream : Stream[i].role = "cmd"
    /\ \A i \in DOMAIN pending :
         pending[i].line = "MESSAGE" => i <= CountOf(replies, LAMBDA r : r # 421)

\* A client that hangs up gives its connection slot back, wherever the session
\* was: every phase that reads notices the end of the stream, and a write that
\* waits for the client fails.
GoneIsClosed == gone ~> Returned

\* A client that falls silent is let go of in every phase in which the session
\* reads lines (next_line), whatever it pipelined before, unless it also stops
\* reading the replies: send() and the TLS handshake wait without a timeout.
QuietIsClosed == quiet ~> (Returned \/ pc = "handshake" \/ []~Sent)

\* "a connection that sends nothing for ten minutes is closed, in every phase
\* of the session" (docs/manual.md).
QuietIsClosedInEveryPhase == quiet ~> Returned
=============================================================================
