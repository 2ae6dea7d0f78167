-------------------------------- MODULE Relay --------------------------------
(***************************************************************************)
(* One message from the end of its header block to the client's answer:    *)
(* ProxyHandler::open_body and ProxySink (proxy.rs) on top of              *)
(* UpstreamSession (relay.rs), facing an upstream that answers each        *)
(* command once, may refuse a body before its end, may close at any moment *)
(* and may stop reading or answering for good.                             *)
(*                                                                         *)
(* `out' holds what the proxy has written and the upstream has not read,   *)
(* `in' the replies the other way.  Both carry the channel they were sent  *)
(* in.  A body is a number of pieces, each at most WRITE_CHUNK.            *)
(***************************************************************************)
EXTENDS Naturals, Sequences

CONSTANTS
  Modes,    \* the UpstreamTlsModes the proxy may be started with
  Rcpts,    \* recipients of the message
  Pieces,   \* bound: body pieces the client sends
  Window,   \* pieces that fit in flight before a write blocks
  Codes     \* bound: the reply codes the upstream chooses from

ASSUME RelayAssumption ==
  /\ Modes \subseteq {"off", "opportunistic", "required", "implicit"}
  /\ Rcpts \in Nat \ {0} /\ Pieces \in Nat /\ Window \in Nat \ {0}
  /\ Codes \subseteq 0..999

Keywords == {"STARTTLS", "DSN", "SIZE"}

VARIABLES
  mode,       \* --upstream_tls
  pc,         \* open_body, and after it the session's use of the sink
  api,        \* ApiClient::check, and what open_body makes of its answer
  step,       \* UpstreamSession::connect
  refusal,    \* the client's code for the error connect returned
  tls,        \* the upstream channel is TLS
  caps,       \* UpstreamSession::caps
  upstream_dsn, \* ProxyFactory::upstream_dsn
  rcpt,       \* recipients the upstream has accepted
  last_written, \* UpstreamSession::last_written, as far as finish() looks
  given,      \* pieces the client has sent, the header block included
  ended,      \* the client has sent its terminator
  told,       \* what the client is answered
  out, in,
  ustate,     \* upstream: taking commands, a body, or a body it has refused
  got, uline, \* upstream: pieces of the body, and whether a line begins
  padded,     \* upstream: the message has an empty line its client never sent
  offered,    \* upstream: what it announced in each channel
  delivered,  \* upstream: it has taken the message
  ugone       \* upstream: it has closed the connection

connectVars  == <<step, refusal, tls, caps>>
bodyVars     == <<last_written, given, ended>>
upstreamVars == <<ustate, got, uline, padded, offered, delivered, ugone>>
proxyVars    == <<mode, pc, api, connectVars, upstream_dsn, rcpt, bodyVars, told>>
vars == <<proxyVars, out, in, upstreamVars>>

Garbled == 0  \* in place of a reply code: a reply that does not parse
NotYet == 0
Closed == 1   \* the client's connection is closed without an answer

Init ==
  /\ mode \in Modes
  /\ pc = "open" /\ api = "asking" /\ step = "dial" /\ refusal = NotYet
  /\ tls = FALSE /\ caps = {} /\ upstream_dsn = FALSE /\ rcpt = 0
  /\ last_written = "none" /\ given = 0 /\ ended = FALSE /\ told = NotYet
  /\ out = <<>> /\ in = <<>>
  /\ ustate = "command" /\ got = 0 /\ uline = TRUE /\ padded = FALSE
  /\ offered = [plain |-> {}, tls |-> {}]
  /\ delivered = FALSE /\ ugone = FALSE

-----------------------------------------------------------------------------
(* Helpers *)

\* Mutant: any code outside the expected class is passed on.
client_code_mutant(code) == code

\* RelayError::client_code and UpstreamVerdict::replied: what an upstream's
\* refusal may be passed on as.
client_code(code) == IF code \in 400..599 THEN code ELSE 451

Class(code) == code \div 100

\* Written upstream, in the channel of the moment; params: the extensions whose
\* parameters it carries.
Item(what, secure, params) == [what |-> what, tls |-> secure, params |-> params]

\* Mutant: DSN parameters go out whatever the upstream announced.
dsn_suffix_mutant == {"DSN"}

\* dsn_suffix: DSN parameters go out on MAIL and RCPT, or are dropped.
dsn_suffix == caps \cap {"DSN"}

\* size_suffix: the client's SIZE= goes out on MAIL, or is dropped.
size_suffix == caps \cap {"SIZE"}

Unreadable == in # <<>> /\ Head(in).code = Garbled

\* read_reply
ReadReply == in # <<>> /\ Head(in).code # Garbled /\ in' = Tail(in)

\* Mutant: read_reply waits for ever.
NoReply_mutant == (ugone \/ Unreadable) /\ UNCHANGED in

\* read_reply failing: the end of the stream, a reset, the timeout, or a reply
\* that is too long or no reply at all.
NoReply == (ugone \/ in = <<>> \/ Unreadable) /\ UNCHANGED in

-----------------------------------------------------------------------------
(* UpstreamSession::connect: dial, greet and Upstream::open *)

Ask(cmd, secure) == step' = cmd /\ out' = Append(out, Item(cmd, secure, {}))

ConnectFails(code) ==
  /\ step' = "failed" /\ refusal' = code
  /\ UNCHANGED <<tls, caps, out>>

dial ==
  /\ step = "dial"
  /\ \/ /\ tls' = (mode = "implicit")
        /\ Ask("CONNECT", tls')
        /\ UNCHANGED <<refusal, caps>>
     \/ ConnectFails(451)
  /\ UNCHANGED <<mode, pc, api, upstream_dsn, rcpt, bodyVars, told, in, upstreamVars>>

\* open, once it has a set of extensions.
want_tls(extensions) ==
  IF mode = "required" /\ "STARTTLS" \notin extensions THEN ConnectFails(451)
  ELSE IF mode \in {"opportunistic", "required"} /\ "STARTTLS" \in extensions
  THEN Ask("STARTTLS", FALSE) /\ UNCHANGED <<refusal, tls, caps>>
  ELSE step' = "up" /\ caps' = extensions /\ UNCHANGED <<refusal, tls, out>>

\* What open does with the reply to the step it waits in.
open(r) ==
  LET ok == Class(r.code) = 2
  IN  CASE step = "CONNECT" /\ ok -> Ask("EHLO", tls) /\ UNCHANGED <<refusal, tls, caps>>
        [] step = "EHLO" /\ ok -> want_tls(r.exts)
        [] step = "EHLO" /\ Class(r.code) = 5 ->
             Ask("HELO", tls) /\ UNCHANGED <<refusal, tls, caps>>
        [] step = "HELO" /\ ok -> want_tls({})
        [] step = "STARTTLS" /\ ok ->
             step' = "upgrade" /\ UNCHANGED <<refusal, tls, caps, out>>
        [] step = "EHLO in TLS" /\ ok ->
             step' = "up" /\ caps' = r.exts /\ UNCHANGED <<refusal, tls, out>>
        [] OTHER -> ConnectFails(client_code(r.code))

ConnectSteps == {"CONNECT", "EHLO", "HELO", "STARTTLS", "EHLO in TLS"}

Open ==
  /\ step \in ConnectSteps
  /\ \/ ReadReply /\ open(Head(in))
     \/ NoReply /\ ConnectFails(451)
  /\ UNCHANGED <<mode, pc, api, upstream_dsn, rcpt, bodyVars, told, upstreamVars>>

\* Mutant: what was sent before the handshake is read after it.
upgrade_mutant ==
  /\ step = "upgrade" /\ ~ugone
  /\ tls' = TRUE /\ Ask("EHLO in TLS", TRUE)
  /\ UNCHANGED <<mode, refusal, caps, pc, api, upstream_dsn, rcpt, bodyVars, told, in, upstreamVars>>

\* upgrade and handshake: bytes sent ahead of the handshake end the session.
upgrade ==
  /\ step = "upgrade"
  /\ \/ /\ in = <<>> /\ ~ugone
        /\ tls' = TRUE /\ Ask("EHLO in TLS", TRUE)
        /\ UNCHANGED <<refusal, caps>>
     \/ ConnectFails(451)
  /\ UNCHANGED <<mode, pc, api, upstream_dsn, rcpt, bodyVars, told, in, upstreamVars>>

-----------------------------------------------------------------------------
(* ProxyHandler::open_body *)

\* ApiClient::check: unfit is an answer whose headers or sender cannot be
\* relayed, or a message whose addresses cannot.
ApiAnswers ==
  /\ api = "asking"
  /\ api' \in {"allow", "deny", "unfit", "error"}
  /\ UNCHANGED <<mode, pc, connectVars, upstream_dsn, rcpt, bodyVars, told, out, in, upstreamVars>>

\* The client's answer; the sink, and with it the connection, is dropped.
Settle(answer) == pc' = "done" /\ told' = answer

\* Both futures of the join have ended.
Joined ==
  /\ pc = "open" /\ api # "asking" /\ step \in {"up", "failed"}
  /\ CASE api = "error"            -> Settle(451) /\ UNCHANGED <<upstream_dsn, out>>
       [] api \in {"deny", "unfit"} -> Settle(550) /\ UNCHANGED <<upstream_dsn, out>>
       [] api = "allow" /\ step = "failed" ->
            Settle(refusal) /\ UNCHANGED <<upstream_dsn, out>>
       [] OTHER ->
            /\ upstream_dsn' = ("DSN" \in caps)
            /\ pc' = "MAIL"
            /\ out' = Append(out, Item("MAIL", tls, dsn_suffix \cup size_suffix))
            /\ UNCHANGED told
  /\ UNCHANGED <<mode, api, connectVars, rcpt, bodyVars, in, upstreamVars>>

\* open_transaction: MAIL, every RCPT, DATA, each after the last is answered.
Command(cmd, params) == pc' = cmd /\ out' = Append(out, Item(cmd, tls, params)) /\ UNCHANGED told

accepted ==
  CASE pc = "MAIL" -> Command("RCPT", dsn_suffix) /\ UNCHANGED <<rcpt, bodyVars>>
    [] pc = "RCPT" /\ rcpt + 1 < Rcpts ->
         Command("RCPT", dsn_suffix) /\ rcpt' = rcpt + 1 /\ UNCHANGED bodyVars
    [] pc = "RCPT" /\ rcpt + 1 = Rcpts ->
         Command("DATA", {}) /\ rcpt' = rcpt + 1 /\ UNCHANGED bodyVars
    [] pc = "DATA" ->
         /\ pc' = "header" /\ given' = 1
         /\ UNCHANGED <<rcpt, last_written, ended, told, out>>

open_transaction ==
  /\ pc \in {"MAIL", "RCPT", "DATA"}
  /\ \/ /\ ReadReply
        /\ IF Class(Head(in).code) = (IF pc = "DATA" THEN 3 ELSE 2)
           THEN accepted
           ELSE Settle(client_code(Head(in).code)) /\ UNCHANGED <<rcpt, bodyVars, out>>
     \/ NoReply /\ Settle(451) /\ UNCHANGED <<rcpt, bodyVars, out>>
  /\ UNCHANGED <<mode, api, connectVars, upstream_dsn, upstreamVars>>

-----------------------------------------------------------------------------
(* The body: UpstreamSession::write, raced against an early answer *)

\* A write failed: open_body is still in its own voice for the header block,
\* and afterwards there is nothing to say.
Dropped == Settle(IF pc = "header" THEN 451 ELSE Closed)

\* The last piece may end in the middle of a line, if it is not the last.
Push(ends) ==
  /\ Len(out) < Window
  /\ out' = Append(out, Item(ends, tls, {}))
  /\ last_written' = ends
  /\ pc' = IF pc = "final" THEN "finish" ELSE "body"
  /\ UNCHANGED <<told, in>>

write ==
  /\ pc \in {"header", "write", "final"}
  /\ \/ \E ends \in IF pc = "write" THEN {"line", "partial"} ELSE {"line"} : Push(ends)
     \/ ReadReply /\ Settle(client_code(Head(in).code)) /\ UNCHANGED <<last_written, out>>
     \/ /\ ugone \/ Len(out) >= Window \/ Unreadable
        /\ Dropped /\ UNCHANGED <<last_written, out, in>>
  /\ UNCHANGED <<mode, api, connectVars, upstream_dsn, rcpt, given, ended, upstreamVars>>

\* read_message: a further piece, the terminator with or without a piece
\* before it, or the client leaving, which drops the sink.
ClientSends ==
  /\ pc = "body"
  /\ \/ given <= Pieces /\ pc' = "write" /\ given' = given + 1 /\ UNCHANGED <<ended, told>>
     \/ /\ given <= Pieces /\ pc' = "final" /\ given' = given + 1 /\ ended' = TRUE
        /\ UNCHANGED told
     \/ /\ last_written = "line" /\ pc' = "finish" /\ ended' = TRUE
        /\ UNCHANGED <<given, told>>
     \/ Settle(Closed) /\ UNCHANGED <<given, ended>>
  /\ UNCHANGED <<mode, api, connectVars, upstream_dsn, rcpt, last_written, out, in, upstreamVars>>

\* Mutant: a body that ends in a newline gets another one.
tail_mutant == "CRLF end"

\* finish(): the terminator is a line of its own.
tail == IF last_written = "line" THEN "end" ELSE "CRLF end"

finish ==
  /\ pc = "finish"
  /\ \/ /\ Len(out) < Window
        /\ out' = Append(out, Item(tail, tls, {})) /\ pc' = "verdict"
        /\ UNCHANGED told
     \/ (ugone \/ Len(out) >= Window) /\ Settle(Closed) /\ UNCHANGED out
  /\ UNCHANGED <<mode, api, connectVars, upstream_dsn, rcpt, bodyVars, in, upstreamVars>>

\* Mutant: an upstream that is lost at the terminator is a refusal.
Lost_mutant == 451

\* What the client hears when the upstream is lost at the terminator.
Lost == Closed

verdict ==
  /\ pc = "verdict"
  /\ \/ /\ ReadReply
        /\ IF Class(Head(in).code) = 2
           THEN Command("QUIT", {})
           ELSE Settle(client_code(Head(in).code)) /\ UNCHANGED out
     \/ NoReply /\ Settle(Lost) /\ UNCHANGED out
  /\ UNCHANGED <<mode, api, connectVars, upstream_dsn, rcpt, bodyVars, upstreamVars>>

\* Mutant: an upstream that is lost at QUIT is lost.
quit_mutant ==
  /\ pc = "QUIT"
  /\ (ReadReply /\ Settle(250)) \/ (NoReply /\ Settle(Lost))
  /\ UNCHANGED <<mode, api, connectVars, upstream_dsn, rcpt, bodyVars, out, upstreamVars>>

\* quit(): whatever comes of it, the message is accepted.
quit ==
  /\ pc = "QUIT"
  /\ ReadReply \/ NoReply
  /\ Settle(250)
  /\ UNCHANGED <<mode, api, connectVars, upstream_dsn, rcpt, bodyVars, out, upstreamVars>>

-----------------------------------------------------------------------------
(* The upstream *)

Answers(code, exts, secure) == Append(in, [code |-> code, exts |-> exts, tls |-> secure])

UpstreamAnswers ==
  /\ ~ugone /\ ustate = "command" /\ out # <<>>
  /\ \E code \in Codes :
       LET c  == Head(out)
           ok == Class(code) = 2
       IN  /\ \/ /\ c.what \in {"EHLO", "EHLO in TLS"} /\ ok
                 /\ \E exts \in SUBSET Keywords :
                      /\ in' = Answers(code, exts, c.tls)
                      /\ offered' = IF c.tls THEN [offered EXCEPT !.tls = exts]
                                             ELSE [offered EXCEPT !.plain = exts]
              \/ /\ c.what = "STARTTLS" /\ ok
                 /\ in' = Append(Answers(code, {}, FALSE),
                                 [code |-> code, exts |-> Keywords, tls |-> FALSE])
                 /\ UNCHANGED offered
              \/ /\ ~(c.what \in {"EHLO", "EHLO in TLS"} /\ ok)
                 /\ in' = Answers(code, {}, c.tls)
                 /\ UNCHANGED offered
           /\ ustate' = IF c.what = "DATA" /\ Class(code) = 3 THEN "data" ELSE ustate
  /\ out' = Tail(out)
  /\ UNCHANGED <<proxyVars, got, uline, padded, delivered, ugone>>

UpstreamTakes ==
  /\ ~ugone /\ ustate \in {"data", "refused"}
  /\ out # <<>> /\ Head(out).what \in {"line", "partial"}
  /\ got' = got + 1 /\ uline' = (Head(out).what = "line")
  /\ out' = Tail(out)
  /\ UNCHANGED <<proxyVars, in, ustate, padded, offered, delivered, ugone>>

\* The terminator counts where a line begins, and the CRLF before it makes an
\* empty line there.
UpstreamEnds ==
  /\ ~ugone /\ ustate \in {"data", "refused"}
  /\ out # <<>> /\ Head(out).what \in {"end", "CRLF end"}
  /\ uline \/ Head(out).what = "CRLF end"
  /\ padded' = (uline /\ Head(out).what = "CRLF end")
  /\ ustate' = "command"
  /\ IF ustate = "refused" THEN UNCHANGED <<in, delivered>>
     ELSE \E code \in Codes :
            /\ in' = Answers(code, {}, tls)
            /\ delivered' \in IF code = Garbled THEN BOOLEAN ELSE {Class(code) = 2}
  /\ out' = Tail(out)
  /\ UNCHANGED <<proxyVars, got, uline, offered, ugone>>

UpstreamRefusesEarly ==
  /\ ~ugone /\ ustate = "data"
  /\ \E code \in Codes : Class(code) # 2 /\ in' = Answers(code, {}, tls)
  /\ ustate' = "refused"
  /\ UNCHANGED <<proxyVars, out, got, uline, padded, offered, delivered, ugone>>

UpstreamCloses ==
  /\ ~ugone /\ pc # "done"
  /\ ugone' = TRUE
  /\ UNCHANGED <<proxyVars, out, in, ustate, got, uline, padded, offered, delivered>>

-----------------------------------------------------------------------------
Proxy ==
  \/ dial \/ Open \/ upgrade \/ Joined \/ open_transaction
  \/ write \/ finish \/ verdict \/ quit

Upstream ==
  UpstreamAnswers \/ UpstreamTakes \/ UpstreamEnds \/ UpstreamRefusesEarly \/ UpstreamCloses

Next == Proxy \/ ApiAnswers \/ ClientSends \/ Upstream

Spec == Init /\ [][Next]_vars

\* Every wait for the upstream and for the API has a timeout; the client's
\* silence is the session's to end, and nothing is assumed of the upstream.
FairSpec == Spec /\ WF_vars(dial \/ Open \/ upgrade) /\ WF_vars(ApiAnswers)
                 /\ WF_vars(Joined \/ open_transaction \/ write \/ finish \/ verdict \/ quit)

-----------------------------------------------------------------------------
(* Properties *)

Replies == [code : Codes, exts : SUBSET Keywords, tls : BOOLEAN]

\* The type of every variable.
TypeOK ==
  /\ mode \in Modes
  /\ pc \in {"open", "MAIL", "RCPT", "DATA", "header", "body", "write", "final", "finish",
             "verdict", "QUIT", "done"}
  /\ api \in {"asking", "allow", "deny", "unfit", "error"}
  /\ step \in ConnectSteps \cup {"dial", "upgrade", "up", "failed"}
  /\ refusal \in {NotYet} \cup 400..599 /\ tls \in BOOLEAN /\ caps \subseteq Keywords
  /\ upstream_dsn \in BOOLEAN /\ rcpt \in 0..Rcpts
  /\ last_written \in {"none", "line", "partial"} /\ given \in 0..Pieces + 1
  /\ ended \in BOOLEAN /\ told \in {NotYet, Closed, 250} \cup 400..599
  /\ \A i \in DOMAIN out : out[i].tls \in BOOLEAN /\ out[i].params \subseteq Keywords
  /\ in \in Seq(Replies)
  /\ ustate \in {"command", "data", "refused"} /\ got \in Nat /\ uline \in BOOLEAN
  /\ padded \in BOOLEAN /\ delivered \in BOOLEAN /\ ugone \in BOOLEAN

\* What the client hears, as Delivery puts it.
heard ==
  IF told = NotYet THEN "nothing"
  ELSE IF told = Closed THEN "closed"
  ELSE IF told = 250 THEN "accepted"
  ELSE IF told \in 400..599 THEN "refused" ELSE "unsendable"

Promise == INSTANCE Delivery WITH delivered <- delivered, heard <- heard

\* A client told 250 has its message delivered, a client that is refused never
\* has, and it is answered once: however the API, the early answers, the
\* timeouts and the loss of the upstream fall (open_body, write, finish).
KeepsPromise == Promise!Spec

\* What the upstream takes is the whole message its client finished sending,
\* to every recipient, allowed by the API, and with no line added: a body cut
\* short by a client that leaves or a write that fails is never delivered.
WholeMessage ==
  delivered => ended /\ got = given /\ ~padded /\ rcpt = Rcpts /\ api = "allow"

Private == {"MAIL", "RCPT", "DATA", "line", "partial", "end", "CRLF end"}

\* --upstream_tls is honoured for everything that says something about the
\* message, and inside TLS nothing is believed that was sent outside it.
UpstreamTlsHonoured ==
  /\ \A i \in DOMAIN out : out[i].what \in Private =>
        \/ out[i].tls
        \/ mode = "off"
        \/ mode = "opportunistic" /\ "STARTTLS" \notin offered.plain
  /\ tls => \A i \in DOMAIN in : in[i].tls

\* DSN and SIZE parameters go out only to an upstream that announced them in the
\* channel they are sent in, and only then is DSN offered to clients.
ParamsOnlyIfAnnounced ==
  LET announced == IF tls THEN offered.tls ELSE offered.plain
  IN  /\ \A i \in DOMAIN out : out[i].params \subseteq announced
      /\ upstream_dsn => "DSN" \in announced

\* Whatever the upstream stops doing, the client gets its answer or is asked
\* for more of its message.
Settles == pc # "body" ~> pc \in {"body", "done"}

\* finish() waits for the answer to QUIT before the client hears of its message:
\* once the upstream has said 2xx to the terminator the client is told 250,
\* whether that answer is a refusal, nonsense, late or never comes.
AcceptedIsTold == pc = "QUIT" ~> told = 250
=============================================================================
