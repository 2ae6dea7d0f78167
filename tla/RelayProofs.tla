----------------------------- MODULE RelayProofs -----------------------------
(***************************************************************************)
(* Theorems about Relay, for every --upstream_tls, number of recipients,   *)
(* length of body, window and set of reply codes: its types, the channel   *)
(* connect leaves behind, that the upstream takes whole messages only, and *)
(* that Relay implements Delivery.                                         *)
(***************************************************************************)
EXTENDS Relay, TLAPS

-----------------------------------------------------------------------------
(* The invariant *)

PieceNames == {"line", "partial"}
TailNames == {"end", "CRLF end"}
CommandNames == ConnectSteps \cup {"MAIL", "RCPT", "DATA", "QUIT"}
Items == [what : CommandNames \cup PieceNames \cup TailNames, tls : BOOLEAN,
          params : SUBSET Keywords]

\* TypeOK by the part of the system, with the types of `out' and `offered'.
ConnectType ==
  /\ step \in ConnectSteps \cup {"dial", "upgrade", "up", "failed"}
  /\ refusal \in {NotYet} \cup 400..599 /\ tls \in BOOLEAN /\ caps \subseteq Keywords

ProxyType ==
  /\ mode \in Modes
  /\ pc \in {"open", "MAIL", "RCPT", "DATA", "header", "body", "write", "final", "finish",
             "verdict", "QUIT", "done"}
  /\ api \in {"asking", "allow", "deny", "unfit", "error"}
  /\ upstream_dsn \in BOOLEAN /\ rcpt \in 0..Rcpts
  /\ pc \in {"open", "MAIL"} => rcpt = 0
  /\ pc = "RCPT" => rcpt < Rcpts
  /\ told \in {NotYet, Closed, 250} \cup 400..599

BodyType ==
  /\ last_written \in {"none", "line", "partial"} /\ given \in 0..Pieces + 1 /\ ended \in BOOLEAN

WireType == out \in Seq(Items) /\ in \in Seq(Replies)

UpstreamType ==
  /\ ustate \in {"command", "data", "refused"} /\ got \in Nat /\ uline \in BOOLEAN
  /\ padded \in BOOLEAN /\ delivered \in BOOLEAN /\ ugone \in BOOLEAN
  /\ offered \in [plain : SUBSET Keywords, tls : SUBSET Keywords]

TypeInv == ConnectType /\ ProxyType /\ BodyType /\ WireType /\ UpstreamType

\* What the upstream announced in the channel of the moment.
Announced == IF tls THEN offered.tls ELSE offered.plain

\* A command is on its way, or its reply is; an upstream may send a second one
\* with the reply to STARTTLS.
Waits(cmd) ==
  \/ Len(out) = 1 /\ out[1].what = cmd /\ in = <<>>
  \/ out = <<>> /\ (Len(in) = 1 \/ (cmd = "STARTTLS" /\ Len(in) = 2))

\* connect has one command outstanding, and leaves none behind when it is up.
OneAtATime ==
  /\ pc # "open" => step \in {"up", "failed"}
  /\ pc \notin {"open", "done"} => step = "up"
  /\ pc = "open" => ustate = "command"
  /\ step = "dial" => out = <<>> /\ in = <<>>
  /\ step \in ConnectSteps => Waits(step)
  /\ step = "upgrade" => out = <<>>
  /\ step = "up" /\ pc = "open" => out = <<>> /\ in = <<>>

\* What goes out is in the channel of the moment, and carries parameters of an
\* extension only once connect is up.
Fit(item) ==
  /\ item.tls = tls
  /\ step = "up" => item.what \notin ConnectSteps /\ item.params \subseteq caps
  /\ step # "up" => item.what \in ConnectSteps /\ item.params = {}
  /\ item.what = "STARTTLS" => ~tls

\* So is what comes in.
InChannel ==
  /\ \A i \in DOMAIN out : Fit(out[i])
  /\ \A i \in DOMAIN in : in[i].tls = tls

\* --upstream_tls allows the channel.
Allowed == tls \/ mode = "off" \/ (mode = "opportunistic" /\ "STARTTLS" \notin offered.plain)

\* What connect knows of the upstream is what the upstream said in the channel.
Believed ==
  /\ step \in {"dial", "STARTTLS", "upgrade"} => ~tls
  /\ step \in {"CONNECT", "EHLO", "HELO"} => (tls <=> mode = "implicit")
  /\ step = "EHLO in TLS" => tls
  /\ step \in {"dial", "CONNECT"} => offered.plain = {}
  /\ step \in {"dial", "CONNECT", "STARTTLS", "upgrade"} => offered.tls = {}
  /\ step = "HELO" => Announced = {}
  /\ step \in {"EHLO", "EHLO in TLS"} =>
       Announced = IF in # <<>> /\ Class(in[1].code) = 2 THEN in[1].exts ELSE {}
  /\ step \in {"EHLO", "HELO"} => tls \/ offered.tls = {}
  /\ step = "up" => caps \subseteq Announced /\ Allowed
  /\ upstream_dsn => step = "up" /\ "DSN" \in caps

ConnectInv == TypeInv /\ OneAtATime /\ InChannel /\ Believed

-----------------------------------------------------------------------------
(* Operators *)

\* Only a refusal that may be sent to a client is.
LEMMA ClientCode == \A code \in Nat : client_code(code) \in 400..599
BY DEF client_code

LEMMA CodesType == \A code \in Codes : code \in Nat
BY RelayAssumption

LEMMA Suffixes == dsn_suffix \subseteq caps /\ size_suffix \subseteq caps
BY DEF dsn_suffix, size_suffix

\* What is written, and what is answered, goes to the end of its stream.
LEMMA AppendOf ==
  ASSUME NEW S, NEW s \in Seq(S), NEW e \in S
  PROVE  /\ Append(s, e) \in Seq(S) /\ Append(s, e) # <<>>
         /\ Len(Append(s, e)) = Len(s) + 1 /\ Append(s, e)[Len(s) + 1] = e
         /\ DOMAIN Append(s, e) = 1..Len(s) + 1
         /\ \A i \in 1..Len(s) : Append(s, e)[i] = s[i]
OBVIOUS

\* What is read comes from its beginning, and the rest moves up.
LEMMA TailOf ==
  ASSUME NEW S, NEW s \in Seq(S), s # <<>>
  PROVE  /\ Head(s) = s[1] /\ s[1] \in S /\ Tail(s) \in Seq(S)
         /\ Len(s) \in Nat \ {0} /\ Len(Tail(s)) = Len(s) - 1
         /\ DOMAIN Tail(s) = 1..Len(s) - 1
         /\ \A i \in 1..Len(s) - 1 : Tail(s)[i] = s[i + 1]
OBVIOUS

LEMMA EmptyOf ==
  ASSUME NEW S, NEW s \in Seq(S)
  PROVE  /\ DOMAIN s = 1..Len(s) /\ Len(s) \in Nat /\ (s = <<>> <=> Len(s) = 0)
         /\ \A i \in 1..Len(s) : s[i] \in S
OBVIOUS

\* A stream that was empty.
LEMMA FirstOf ==
  ASSUME NEW e, NEW f
  PROVE  /\ Append(<<>>, e) # <<>> /\ Len(Append(<<>>, e)) = 1 /\ Append(<<>>, e)[1] = e
         /\ Len(Append(Append(<<>>, e), f)) = 2
<1>1. <<>> \in Seq({e, f}) /\ Len(<<>>) = 0
  OBVIOUS
<1>2. /\ Append(<<>>, e) \in Seq({e, f}) /\ Append(<<>>, e) # <<>>
      /\ Len(Append(<<>>, e)) = 1 /\ Append(<<>>, e)[1] = e
  BY <1>1, AppendOf
<1>3. Len(Append(Append(<<>>, e), f)) = 2
  BY <1>2, AppendOf
<1>4. QED
  BY <1>2, <1>3

-----------------------------------------------------------------------------
(* Type correctness *)

LEMMA TypeParts == TypeInv => TypeOK
<1> SUFFICES ASSUME TypeInv PROVE TypeOK
  OBVIOUS
<1>1. ASSUME NEW i \in DOMAIN out PROVE out[i].tls \in BOOLEAN /\ out[i].params \subseteq Keywords
  <2>1. out[i] \in Items
    BY EmptyOf DEF TypeInv, WireType
  <2>2. QED
    BY <2>1 DEF Items
<1>2. QED
  BY <1>1 DEF TypeInv, TypeOK, ConnectType, ProxyType, BodyType, WireType, UpstreamType

LEMMA Unchanged ==
  /\ ConnectType /\ UNCHANGED connectVars => ConnectType'
  /\ ProxyType /\ UNCHANGED <<mode, pc, api, upstream_dsn, rcpt, told>> => ProxyType'
  /\ BodyType /\ UNCHANGED bodyVars => BodyType'
  /\ WireType /\ UNCHANGED <<out, in>> => WireType'
  /\ UpstreamType /\ UNCHANGED upstreamVars => UpstreamType'
<1>1. ConnectType /\ UNCHANGED connectVars => ConnectType'
  BY DEF ConnectType, connectVars
<1>2. ProxyType /\ UNCHANGED <<mode, pc, api, upstream_dsn, rcpt, told>> => ProxyType'
  BY DEF ProxyType
<1>3. BodyType /\ UNCHANGED bodyVars => BodyType'
  BY DEF BodyType, bodyVars
<1>4. WireType /\ UNCHANGED <<out, in>> => WireType'
  BY DEF WireType, Replies, Items
<1>5. UpstreamType /\ UNCHANGED upstreamVars => UpstreamType'
  BY DEF UpstreamType, upstreamVars
<1>6. QED
  BY <1>1, <1>2, <1>3, <1>4, <1>5

LEMMA InitType == Init => TypeInv
<1> SUFFICES ASSUME Init PROVE TypeInv
  OBVIOUS
<1>1. ConnectType
  BY DEF Init, ConnectType, NotYet
<1>2. ProxyType
  <2>1. upstream_dsn \in BOOLEAN
    BY DEF Init
  <2>2. QED
    BY <2>1, RelayAssumption DEF Init, ProxyType, NotYet
<1>3. BodyType
  <2>1. ended \in BOOLEAN
    BY DEF Init
  <2>2. QED
    BY <2>1, RelayAssumption DEF Init, BodyType
<1>4. WireType
  BY DEF Init, WireType
<1>5. UpstreamType
  <2>1. uline \in BOOLEAN /\ padded \in BOOLEAN /\ delivered \in BOOLEAN /\ ugone \in BOOLEAN
    BY DEF Init
  <2>2. QED
    BY <2>1 DEF Init, UpstreamType
<1>6. QED
  BY <1>1, <1>2, <1>3, <1>4, <1>5 DEF TypeInv

\* A command goes out in the channel of the moment.
LEMMA WriteType ==
  ASSUME WireType, NEW item \in Items, out' = Append(out, item) PROVE out' \in Seq(Items)
BY AppendOf DEF WireType

LEMMA ItemType ==
  ASSUME NEW what \in CommandNames \cup PieceNames \cup TailNames, NEW secure \in BOOLEAN,
         NEW params \in SUBSET Keywords
  PROVE  Item(what, secure, params) \in Items
BY DEF Item, Items

LEMMA ReadType ==
  ASSUME WireType, ReadReply
  PROVE  /\ in' \in Seq(Replies) /\ Head(in) \in Replies /\ in # <<>> /\ in' = Tail(in)
         /\ Head(in).code \in Nat /\ Head(in).exts \subseteq Keywords
<1>1. Head(in) \in Replies /\ in' \in Seq(Replies)
  BY TailOf DEF WireType, ReadReply
<1>2. Head(in).code \in Codes /\ Head(in).exts \subseteq Keywords
  BY <1>1 DEF Replies
<1>3. Head(in).code \in Nat
  BY <1>2, CodesType
<1>4. QED
  BY <1>1, <1>2, <1>3 DEF ReadReply

\* Settling a message leaves the client an answer it can be sent.
LEMMA SettleType ==
  ASSUME ProxyType, NEW answer \in {Closed, 250} \cup 400..599, Settle(answer),
         UNCHANGED <<mode, api, upstream_dsn, rcpt>>
  PROVE  ProxyType'
BY DEF ProxyType, Settle

\* The steps of connect keep the types.
LEMMA ConnectKeepsType == ASSUME TypeInv, dial \/ Open \/ upgrade PROVE TypeInv'
<1> USE DEF TypeInv
<1>1. ProxyType' /\ BodyType' /\ UpstreamType'
  BY Unchanged DEF dial, Open, upgrade
<1>2. ASSUME NEW cmd \in ConnectSteps, NEW secure \in BOOLEAN, Ask(cmd, secure),
             tls' \in BOOLEAN, UNCHANGED <<refusal, caps>>
      PROVE  ConnectType' /\ out' \in Seq(Items)
  <2>1. Item(cmd, secure, {}) \in Items
    BY ItemType DEF CommandNames
  <2>2. out' \in Seq(Items) /\ step' = cmd
    BY <1>2, <2>1, WriteType DEF Ask
  <2>3. QED
    BY <1>2, <2>2 DEF ConnectType
<1>3. ASSUME NEW code \in 400..599, ConnectFails(code) PROVE ConnectType' /\ out' \in Seq(Items)
  BY <1>3 DEF ConnectFails, ConnectType, WireType
<1>4. tls \in BOOLEAN /\ 451 \in 400..599
  BY DEF ConnectType
<1>5. CASE dial
  <2>1. in' \in Seq(Replies)
    BY <1>5 DEF dial, WireType
  <2>2. CASE ConnectFails(451)
    BY <1>1, <1>3, <1>4, <2>1, <2>2 DEF WireType
  <2>3. CASE tls' = (mode = "implicit") /\ Ask("CONNECT", tls') /\ UNCHANGED <<refusal, caps>>
    <3>1. tls' \in BOOLEAN /\ "CONNECT" \in ConnectSteps
      BY <2>3 DEF ConnectSteps
    <3>2. QED
      BY <1>1, <1>2, <2>1, <2>3, <3>1 DEF WireType
  <2>4. QED
    BY <1>5, <2>2, <2>3 DEF dial
<1>6. CASE upgrade
  <2>1. in' \in Seq(Replies)
    BY <1>6 DEF upgrade, WireType
  <2>2. CASE ConnectFails(451)
    BY <1>1, <1>3, <1>4, <2>1, <2>2 DEF WireType
  <2>3. CASE tls' = TRUE /\ Ask("EHLO in TLS", TRUE) /\ UNCHANGED <<refusal, caps>>
    <3>1. tls' \in BOOLEAN /\ "EHLO in TLS" \in ConnectSteps
      BY <2>3 DEF ConnectSteps
    <3>2. QED
      BY <1>1, <1>2, <2>1, <2>3, <3>1 DEF WireType
  <2>4. QED
    BY <1>6, <2>2, <2>3 DEF upgrade
<1>7. CASE Open
  <2>1. CASE NoReply /\ ConnectFails(451)
    BY <1>1, <1>3, <1>4, <2>1 DEF WireType, NoReply
  <2>2. CASE ReadReply /\ open(Head(in))
    <3> DEFINE r == Head(in)
    <3>1. in' \in Seq(Replies) /\ r.code \in Nat /\ r.exts \subseteq Keywords
      BY <2>2, ReadType
    <3> HIDE DEF r
    <3>2. client_code(r.code) \in 400..599
      BY <3>1, ClientCode
    <3>3. ASSUME NEW exts \in SUBSET Keywords, want_tls(exts)
          PROVE  ConnectType' /\ out' \in Seq(Items)
      <4>1. CASE ConnectFails(451)
        BY <1>3, <1>4, <4>1
      <4>2. CASE Ask("STARTTLS", FALSE) /\ UNCHANGED <<refusal, tls, caps>>
        BY <1>2, <1>4, <4>2 DEF ConnectSteps
      <4>3. CASE step' = "up" /\ caps' = exts /\ UNCHANGED <<refusal, tls, out>>
        BY <4>3 DEF ConnectType, WireType
      <4>4. QED
        BY <3>3, <4>1, <4>2, <4>3 DEF want_tls
    <3>4. CASE \E cmd \in {"EHLO", "HELO"} : Ask(cmd, tls) /\ UNCHANGED <<refusal, tls, caps>>
      BY <1>1, <1>2, <1>4, <3>1, <3>4 DEF ConnectSteps, WireType
    <3>5. CASE \E exts \in {r.exts, {}} : want_tls(exts)
      BY <1>1, <3>1, <3>3, <3>5 DEF WireType
    <3>6. CASE step' = "upgrade" /\ UNCHANGED <<refusal, tls, caps, out>>
      BY <1>1, <3>1, <3>6 DEF ConnectType, WireType
    <3>7. CASE step' = "up" /\ caps' = r.exts /\ UNCHANGED <<refusal, tls, out>>
      BY <1>1, <3>1, <3>7 DEF ConnectType, WireType
    <3>8. CASE ConnectFails(client_code(r.code))
      BY <1>1, <1>3, <3>1, <3>2, <3>8 DEF WireType
    <3>9. QED
      BY <2>2, <3>4, <3>5, <3>6, <3>7, <3>8 DEF open, r
  <2>3. QED
    BY <1>7, <2>1, <2>2 DEF Open
<1>8. QED
  BY <1>5, <1>6, <1>7

\* The join ends in an answer to the client, or in MAIL: the latter only when both
\* the API and connect have said yes.
LEMMA JoinedCases ==
  ASSUME TypeInv, Joined
  PROVE  \/ /\ \E answer \in {451, 550, refusal} : Settle(answer)
            /\ UNCHANGED <<upstream_dsn, out>>
         \/ /\ step = "up" /\ api = "allow" /\ upstream_dsn' = ("DSN" \in caps)
            /\ pc' = "MAIL" /\ told' = told
            /\ out' = Append(out, Item("MAIL", tls, dsn_suffix \cup size_suffix))
<1>1. api # "asking" /\ api \in {"asking", "allow", "deny", "unfit", "error"} /\ step \in {"up", "failed"}
  BY DEF Joined, TypeInv, ProxyType
<1>2. CASE api = "error"
  BY <1>2 DEF Joined
<1>3. CASE api \in {"deny", "unfit"}
  BY <1>3 DEF Joined
<1>4. CASE api = "allow" /\ step = "failed"
  BY <1>4 DEF Joined
<1>5. CASE api = "allow" /\ step = "up"
  BY <1>5 DEF Joined
<1>6. QED
  BY <1>1, <1>2, <1>3, <1>4, <1>5

\* What an accepted command of the transaction leads to.
LEMMA AcceptedCases ==
  ASSUME TypeInv, accepted, pc \in {"MAIL", "RCPT", "DATA"}
  PROVE  \/ pc = "MAIL" /\ Command("RCPT", dsn_suffix) /\ UNCHANGED <<rcpt, bodyVars>>
         \/ /\ pc = "RCPT" /\ rcpt + 1 < Rcpts
            /\ Command("RCPT", dsn_suffix) /\ rcpt' = rcpt + 1 /\ UNCHANGED bodyVars
         \/ /\ pc = "RCPT" /\ rcpt + 1 = Rcpts
            /\ Command("DATA", {}) /\ rcpt' = rcpt + 1 /\ UNCHANGED bodyVars
         \/ /\ pc = "DATA" /\ pc' = "header" /\ given' = 1
            /\ UNCHANGED <<rcpt, last_written, ended, told, out>>
<1>1. pc = "RCPT" => \/ rcpt + 1 < Rcpts /\ rcpt + 1 # Rcpts
                     \/ rcpt + 1 = Rcpts /\ ~(rcpt + 1 < Rcpts)
  BY RelayAssumption DEF TypeInv, ProxyType
<1>2. CASE pc = "MAIL"
  BY <1>2 DEF accepted
<1>3. CASE pc = "RCPT" /\ rcpt + 1 < Rcpts /\ rcpt + 1 # Rcpts
  BY <1>3 DEF accepted
<1>4. CASE pc = "RCPT" /\ rcpt + 1 = Rcpts /\ ~(rcpt + 1 < Rcpts)
  BY <1>4 DEF accepted
<1>5. CASE pc = "DATA"
  BY <1>5 DEF accepted
<1>6. QED
  BY <1>1, <1>2, <1>3, <1>4, <1>5

\* So does the end of the join, whoever refused.
LEMMA JoinedType == ASSUME TypeInv, Joined PROVE TypeInv'
<1> USE DEF TypeInv
<1>1. ConnectType' /\ BodyType' /\ UpstreamType'
  BY Unchanged DEF Joined
<1>2. in' \in Seq(Replies) /\ UNCHANGED <<mode, api, rcpt>> /\ pc = "open"
  BY DEF Joined, WireType
<1>3. CASE \E answer \in {451, 550, refusal} : Settle(answer) /\ UNCHANGED <<upstream_dsn, out>>
  <2>3. told' \in {NotYet} \cup 400..599 /\ pc' = "done" /\ upstream_dsn' = upstream_dsn
    BY <1>3 DEF Settle, ConnectType
  <2>1. ProxyType'
    BY <1>2, <2>3 DEF ProxyType
  <2>2. QED
    BY <1>1, <1>2, <1>3, <2>1 DEF WireType
<1>4. CASE /\ upstream_dsn' = ("DSN" \in caps) /\ pc' = "MAIL" /\ UNCHANGED told
           /\ out' = Append(out, Item("MAIL", tls, dsn_suffix \cup size_suffix))
  <2>1. dsn_suffix \cup size_suffix \subseteq Keywords
    BY Suffixes DEF ConnectType
  <2>2. Item("MAIL", tls, dsn_suffix \cup size_suffix) \in Items
    BY <2>1, ItemType DEF CommandNames, ConnectType
  <2>3. out' \in Seq(Items)
    BY <1>4, <2>2, WriteType
  <2>4. upstream_dsn' \in BOOLEAN
    BY <1>4
  <2>5. ProxyType'
    BY <1>2, <1>4, <2>4 DEF ProxyType
  <2>6. QED
    BY <1>1, <1>2, <2>3, <2>5 DEF WireType
<1>5. QED
  BY <1>3, <1>4, JoinedCases

\* What a command of the transaction does to the types.
LEMMA CommandType ==
  ASSUME TypeInv, NEW cmd \in {"RCPT", "DATA", "QUIT"}, NEW params \in SUBSET Keywords,
         Command(cmd, params)
  PROVE  out' \in Seq(Items) /\ pc' = cmd /\ told' = told
<1> USE DEF TypeInv
<1>1. Item(cmd, tls, params) \in Items
  BY ItemType DEF CommandNames, ConnectType
<1>2. QED
  BY <1>1, WriteType DEF Command

\* So do MAIL, RCPT and DATA, accepted, refused or unanswered.
LEMMA TransactionType == ASSUME TypeInv, open_transaction PROVE TypeInv'
<1> USE DEF TypeInv
<1>1. ConnectType' /\ UpstreamType' /\ UNCHANGED <<mode, api, upstream_dsn>>
  BY Unchanged DEF open_transaction
<1>2. in' \in Seq(Replies)
  BY ReadType DEF open_transaction, NoReply, WireType
<1>3. ASSUME NEW answer \in 400..599, Settle(answer), UNCHANGED <<rcpt, bodyVars, out>>
      PROVE  TypeInv'
  BY <1>1, <1>2, <1>3, SettleType, Unchanged DEF WireType
<1>4. CASE ReadReply /\ Class(Head(in).code) = (IF pc = "DATA" THEN 3 ELSE 2) /\ accepted
  <2>1. dsn_suffix \in SUBSET Keywords /\ {} \in SUBSET Keywords
    BY Suffixes DEF ConnectType
  <2>2. ASSUME NEW cmd \in {"RCPT", "DATA"}, NEW params \in {dsn_suffix, {}}, Command(cmd, params),
               UNCHANGED bodyVars, rcpt' \in 0..Rcpts, cmd = "RCPT" => rcpt' < Rcpts
        PROVE  TypeInv'
    <3>1. out' \in Seq(Items) /\ pc' = cmd /\ told' = told
      BY <2>1, <2>2, CommandType
    <3>2. ProxyType'
      BY <1>1, <2>2, <3>1 DEF ProxyType
    <3>3. QED
      BY <1>1, <1>2, <2>2, <3>1, <3>2, Unchanged DEF WireType
  <2>3. CASE pc = "MAIL" /\ Command("RCPT", dsn_suffix) /\ UNCHANGED <<rcpt, bodyVars>>
    BY <2>2, <2>3, RelayAssumption DEF ProxyType
  <2>4. CASE pc = "RCPT" /\ rcpt' = rcpt + 1 /\ rcpt + 1 < Rcpts /\ UNCHANGED bodyVars
             /\ Command("RCPT", dsn_suffix)
    BY <2>2, <2>4, RelayAssumption DEF ProxyType
  <2>5. CASE pc = "RCPT" /\ rcpt' = rcpt + 1 /\ rcpt + 1 = Rcpts /\ UNCHANGED bodyVars
             /\ Command("DATA", {})
    BY <2>2, <2>5, RelayAssumption DEF ProxyType
  <2>6. CASE pc' = "header" /\ given' = 1 /\ UNCHANGED <<rcpt, last_written, ended, told, out>>
    <3>1. ProxyType' /\ BodyType'
      BY <1>1, <2>6, RelayAssumption DEF ProxyType, BodyType
    <3>2. QED
      BY <1>1, <1>2, <2>6, <3>1 DEF WireType
  <2>7. pc \in {"MAIL", "RCPT", "DATA"}
    BY DEF open_transaction
  <2>8. QED
    BY <1>4, <2>3, <2>4, <2>5, <2>6, <2>7, AcceptedCases
<1>5. CASE /\ ReadReply /\ Settle(client_code(Head(in).code)) /\ UNCHANGED <<rcpt, bodyVars, out>>
  BY <1>3, <1>5, ReadType, ClientCode
<1>6. CASE NoReply /\ Settle(451) /\ UNCHANGED <<rcpt, bodyVars, out>>
  BY <1>3, <1>6
<1>7. QED
  BY <1>4, <1>5, <1>6 DEF open_transaction

\* So does the body: pieces, the terminator and its verdict, and QUIT.
LEMMA BodyKeepsType ==
  ASSUME TypeInv, write \/ finish \/ verdict \/ quit PROVE TypeInv'
<1> USE DEF TypeInv
<1>1. /\ ConnectType' /\ UpstreamType' /\ UNCHANGED <<mode, api, upstream_dsn, rcpt, given, ended>>
      /\ pc \in {"header", "write", "final", "finish", "verdict", "QUIT"}
  BY Unchanged DEF write, finish, verdict, quit, bodyVars
<1>2. in' \in Seq(Replies)
  BY ReadType DEF write, finish, verdict, quit, NoReply, WireType, Push
<1>3. ASSUME NEW answer \in {Closed, 250} \cup 400..599, Settle(answer), UNCHANGED <<last_written, out>>
      PROVE  TypeInv'
  <2>1. ProxyType'
    BY <1>1, <1>3, SettleType
  <2>2. BodyType'
    BY <1>1, <1>3 DEF BodyType
  <2>3. QED
    BY <1>1, <1>2, <1>3, <2>1, <2>2 DEF WireType
<1>4. ASSUME NEW ends \in PieceNames, Push(ends) PROVE TypeInv'
  <2>1. Item(ends, tls, {}) \in Items
    BY ItemType DEF ConnectType
  <2>2. out' \in Seq(Items)
    BY <1>4, <2>1, WriteType DEF Push
  <2>3. ProxyType' /\ BodyType'
    BY <1>1, <1>4 DEF Push, ProxyType, BodyType, PieceNames
  <2>4. QED
    BY <1>1, <1>2, <2>2, <2>3 DEF WireType
<1>5. CASE write
  <2>1. CASE \E ends \in IF pc = "write" THEN {"line", "partial"} ELSE {"line"} : Push(ends)
    BY <1>4, <2>1 DEF PieceNames
  <2>2. CASE ReadReply /\ Settle(client_code(Head(in).code)) /\ UNCHANGED <<last_written, out>>
    BY <1>3, <2>2, ReadType, ClientCode
  <2>3. CASE Dropped /\ UNCHANGED <<last_written, out>>
    BY <1>3, <2>3 DEF Dropped
  <2>4. QED
    BY <1>5, <2>1, <2>2, <2>3 DEF write
<1>6. CASE finish
  <2>1. CASE out' = Append(out, Item(tail, tls, {})) /\ pc' = "verdict" /\ UNCHANGED told
    <3>1. Item(tail, tls, {}) \in Items
      BY ItemType DEF tail, TailNames, ConnectType
    <3>2. out' \in Seq(Items)
      BY <2>1, <3>1, WriteType
    <3>3. ProxyType' /\ BodyType'
      BY <1>1, <1>6, <2>1 DEF finish, bodyVars, ProxyType, BodyType
    <3>4. QED
      BY <1>1, <1>2, <3>2, <3>3 DEF WireType
  <2>2. CASE Settle(Closed) /\ UNCHANGED out
    BY <1>3, <1>6, <2>2 DEF finish, bodyVars
  <2>3. QED
    BY <1>6, <2>1, <2>2 DEF finish
<1>7. CASE verdict
  <2>1. CASE Command("QUIT", {})
    <3>1. out' \in Seq(Items) /\ pc' = "QUIT" /\ told' = told
      BY <2>1, CommandType
    <3>2. ProxyType' /\ BodyType'
      BY <1>1, <1>7, <3>1 DEF verdict, bodyVars, ProxyType, BodyType
    <3>3. QED
      BY <1>1, <1>2, <3>1, <3>2 DEF WireType
  <2>2. CASE ReadReply /\ Settle(client_code(Head(in).code)) /\ UNCHANGED out
    BY <1>3, <1>7, <2>2, ReadType, ClientCode DEF verdict, bodyVars
  <2>3. CASE Settle(Lost) /\ UNCHANGED out
    BY <1>3, <1>7, <2>3 DEF verdict, bodyVars, Lost
  <2>4. QED
    BY <1>7, <2>1, <2>2, <2>3 DEF verdict
<1>8. CASE quit
  BY <1>3, <1>8 DEF quit, bodyVars
<1>9. QED
  BY <1>5, <1>6, <1>7, <1>8

\* So do the API and the client.
LEMMA OthersType == ASSUME TypeInv, ApiAnswers \/ ClientSends PROVE TypeInv'
<1> USE DEF TypeInv
<1>1. ConnectType' /\ UpstreamType' /\ WireType'
  BY Unchanged DEF ApiAnswers, ClientSends
<1>2. CASE ApiAnswers
  <2>1. ProxyType' /\ BodyType'
    BY <1>2, Unchanged DEF ApiAnswers, ProxyType
  <2>2. QED
    BY <1>1, <2>1
<1>3. CASE ClientSends
  <2>1. ProxyType'
    BY <1>3 DEF ClientSends, Settle, ProxyType
  <2>2. given' \in 0..Pieces + 1 /\ last_written' = last_written
    BY <1>3, RelayAssumption DEF ClientSends, BodyType
  <2>3. ended' \in BOOLEAN
    BY <1>3 DEF ClientSends, BodyType
  <2>4. QED
    BY <1>1, <2>1, <2>2, <2>3 DEF BodyType
<1>4. QED
  BY <1>2, <1>3

\* So does the upstream.
LEMMA UpstreamKeepsType == ASSUME TypeInv, Upstream PROVE TypeInv'
<1> USE DEF TypeInv
<1>1. ConnectType' /\ ProxyType' /\ BodyType'
  BY Unchanged DEF Upstream, UpstreamAnswers, UpstreamTakes, UpstreamEnds, UpstreamRefusesEarly,
                   UpstreamCloses, proxyVars
<1>2. ASSUME NEW code \in Codes, NEW exts \in SUBSET Keywords, NEW secure \in BOOLEAN
      PROVE  /\ [code |-> code, exts |-> exts, tls |-> secure] \in Replies
             /\ Answers(code, exts, secure) \in Seq(Replies)
  <2>1. [code |-> code, exts |-> exts, tls |-> secure] \in Replies
    BY DEF Replies
  <2>2. QED
    BY <2>1, AppendOf DEF Answers, WireType
<1>3. out # <<>> => /\ Tail(out) \in Seq(Items) /\ Head(out).tls \in BOOLEAN
                    /\ Head(out).what \in CommandNames \cup PieceNames \cup TailNames
  <2>1. out # <<>> => Tail(out) \in Seq(Items) /\ Head(out) \in Items
    BY TailOf DEF WireType
  <2>2. QED
    BY <2>1 DEF Items
<1>4. tls \in BOOLEAN /\ {} \in SUBSET Keywords /\ Keywords \in SUBSET Keywords
  BY DEF ConnectType
<1>5. CASE UpstreamAnswers
  <2>1. PICK code \in Codes :
          /\ \/ \E exts \in SUBSET Keywords :
                  /\ in' = Answers(code, exts, Head(out).tls)
                  /\ offered' = IF Head(out).tls THEN [offered EXCEPT !.tls = exts]
                                               ELSE [offered EXCEPT !.plain = exts]
             \/ /\ in' = Append(Answers(code, {}, FALSE),
                                 [code |-> code, exts |-> Keywords, tls |-> FALSE])
                /\ UNCHANGED offered
             \/ in' = Answers(code, {}, Head(out).tls) /\ UNCHANGED offered
          /\ ustate' = IF Head(out).what = "DATA" /\ Class(code) = 3 THEN "data" ELSE ustate
    BY <1>5 DEF UpstreamAnswers
  <2>2. out # <<>> /\ out' = Tail(out) /\ UNCHANGED <<got, uline, padded, delivered, ugone>>
    BY <1>5 DEF UpstreamAnswers
  <2>3. in' \in Seq(Replies)
    <3>1. CASE \E exts \in SUBSET Keywords : in' = Answers(code, exts, Head(out).tls)
      BY <1>2, <1>3, <2>2, <3>1
    <3>2. CASE in' = Append(Answers(code, {}, FALSE),
                            [code |-> code, exts |-> Keywords, tls |-> FALSE])
      <4>1. FALSE \in BOOLEAN
        OBVIOUS
      <4>2. /\ Answers(code, {}, FALSE) \in Seq(Replies)
            /\ [code |-> code, exts |-> Keywords, tls |-> FALSE] \in Replies
        BY <1>2, <1>4, <4>1
      <4>3. QED
        BY <3>2, <4>2, AppendOf
    <3>3. CASE in' = Answers(code, {}, Head(out).tls)
      BY <1>2, <1>3, <1>4, <2>2, <3>3
    <3>4. QED
      BY <2>1, <3>1, <3>2, <3>3
  <2>4. offered' \in [plain : SUBSET Keywords, tls : SUBSET Keywords]
    BY <2>1 DEF UpstreamType
  <2>5. UpstreamType'
    BY <2>1, <2>2, <2>4 DEF UpstreamType
  <2>6. QED
    BY <1>1, <1>3, <2>2, <2>3, <2>5 DEF WireType
<1>6. CASE UpstreamTakes
  <2>1. uline' \in BOOLEAN
    BY <1>6 DEF UpstreamTakes
  <2>2. UpstreamType'
    BY <1>6, <2>1 DEF UpstreamTakes, UpstreamType
  <2>3. QED
    BY <1>1, <1>3, <1>6, <2>2 DEF UpstreamTakes, WireType
<1>7. CASE UpstreamEnds
  <2>1. padded' \in BOOLEAN /\ UNCHANGED <<got, uline, offered, ugone>>
    BY <1>7 DEF UpstreamEnds
  <2>2. delivered' \in BOOLEAN
    BY <1>7 DEF UpstreamEnds, UpstreamType
  <2>3. in' \in Seq(Replies)
    BY <1>2, <1>4, <1>7 DEF UpstreamEnds, WireType
  <2>4. UpstreamType'
    BY <1>7, <2>1, <2>2 DEF UpstreamEnds, UpstreamType
  <2>5. QED
    BY <1>1, <1>3, <1>7, <2>3, <2>4 DEF UpstreamEnds, WireType
<1>8. CASE UpstreamRefusesEarly
  <2>1. in' \in Seq(Replies) /\ out' = out
    BY <1>2, <1>4, <1>8 DEF UpstreamRefusesEarly
  <2>2. UpstreamType'
    BY <1>8 DEF UpstreamRefusesEarly, UpstreamType
  <2>3. QED
    BY <1>1, <2>1, <2>2 DEF WireType
<1>9. CASE UpstreamCloses
  <2>1. ugone' \in BOOLEAN
    BY <1>9 DEF UpstreamCloses
  <2>2. UpstreamType' /\ WireType'
    BY <1>9, <2>1 DEF UpstreamCloses, UpstreamType, WireType
  <2>3. QED
    BY <1>1, <2>2
<1>10. QED
  BY <1>5, <1>6, <1>7, <1>8, <1>9 DEF Upstream

\* Every step keeps the types.
LEMMA NextType == ASSUME TypeInv, [Next]_vars PROVE TypeInv'
<1>1. CASE UNCHANGED vars
  BY <1>1, Unchanged DEF TypeInv, vars, proxyVars
<1>2. QED
  BY <1>1, ConnectKeepsType, JoinedType, TransactionType, BodyKeepsType, OthersType,
     UpstreamKeepsType DEF Next, Proxy

\* Relaying a message keeps every variable in its type, whatever the upstream and
\* the API answer: no refusal outside 400..599 reaches a client (client_code), and
\* no more recipients are counted than the message has (open_transaction).
THEOREM TypeCorrect == Spec => []TypeOK
<1>1. TypeInv /\ [Next]_vars => TypeInv'
  BY NextType
<1>2. Spec => []TypeInv
  BY <1>1, InitType, PTL DEF Spec
<1>3. QED
  BY <1>2, TypeParts, PTL

-----------------------------------------------------------------------------
(* The channel: what a step may do to the two streams *)

\* The stream stays, loses its first item or gains a fitting one.
OutMoves ==
  \/ out' = out
  \/ out # <<>> /\ out' = Tail(out)
  \/ \E item \in Items : Fit(item) /\ out' = Append(out, item)

InMoves ==
  \/ in' = in
  \/ in # <<>> /\ in' = Tail(in)
  \/ \E r \in Replies : r.tls = tls /\ in' = Append(in, r)

LEMMA KeepsChannel ==
  ASSUME TypeInv, InChannel, UNCHANGED connectVars, OutMoves, InMoves PROVE InChannel'
<1> USE DEF connectVars
<1>1. DOMAIN out = 1..Len(out) /\ DOMAIN in = 1..Len(in) /\ Len(out) \in Nat /\ Len(in) \in Nat
  BY EmptyOf DEF TypeInv, WireType
<1>2. ASSUME NEW i \in DOMAIN out'
      PROVE  \E item : out'[i] = item /\ Fit(item)
  <2>1. CASE out' = out
    BY <1>2, <2>1 DEF InChannel
  <2>2. CASE out # <<>> /\ out' = Tail(out)
    <3>1. i \in 1..Len(out) - 1 /\ out'[i] = out[i + 1]
      BY <1>2, <2>2, TailOf DEF TypeInv, WireType
    <3>2. i + 1 \in DOMAIN out
      BY <1>1, <3>1
    <3>3. QED
      BY <3>1, <3>2 DEF InChannel
  <2>3. ASSUME NEW item \in Items, Fit(item), out' = Append(out, item)
        PROVE  \E it : out'[i] = it /\ Fit(it)
    <3>1. /\ i \in 1..Len(out) + 1 /\ out'[Len(out) + 1] = item
          /\ \A j \in 1..Len(out) : out'[j] = out[j]
      BY <1>2, <2>3, AppendOf DEF TypeInv, WireType
    <3>2. CASE i = Len(out) + 1
      BY <2>3, <3>1, <3>2
    <3>3. CASE i \in 1..Len(out)
      BY <1>1, <3>1, <3>3 DEF InChannel
    <3>4. QED
      BY <1>1, <3>1, <3>2, <3>3
  <2>4. QED
    BY <2>1, <2>2, <2>3 DEF OutMoves
<1>3. ASSUME NEW i \in DOMAIN in' PROVE in'[i].tls = tls
  <2>1. CASE in' = in
    BY <1>3, <2>1 DEF InChannel
  <2>2. CASE in # <<>> /\ in' = Tail(in)
    <3>1. i \in 1..Len(in) - 1 /\ in'[i] = in[i + 1]
      BY <1>3, <2>2, TailOf DEF TypeInv, WireType
    <3>2. i + 1 \in DOMAIN in
      BY <1>1, <3>1
    <3>3. QED
      BY <3>1, <3>2 DEF InChannel
  <2>3. ASSUME NEW r \in Replies, r.tls = tls, in' = Append(in, r) PROVE in'[i].tls = tls
    <3>1. /\ i \in 1..Len(in) + 1 /\ in'[Len(in) + 1] = r
          /\ \A j \in 1..Len(in) : in'[j] = in[j]
      BY <1>3, <2>3, AppendOf DEF TypeInv, WireType
    <3>2. CASE i = Len(in) + 1
      BY <2>3, <3>1, <3>2
    <3>3. CASE i \in 1..Len(in)
      BY <1>1, <3>1, <3>3 DEF InChannel
    <3>4. QED
      BY <1>1, <3>1, <3>2, <3>3
  <2>4. QED
    BY <2>1, <2>2, <2>3 DEF InMoves
<1>4. ASSUME NEW item, Fit(item)
      PROVE  /\ item.tls = tls'
             /\ step' = "up" => item.what \notin ConnectSteps /\ item.params \subseteq caps'
             /\ step' # "up" => item.what \in ConnectSteps /\ item.params = {}
             /\ item.what = "STARTTLS" => ~tls'
  BY <1>4 DEF Fit
<1>5. QED
  BY <1>2, <1>3, <1>4 DEF InChannel, Fit

\* Once connect has ended, it stays as it ended.
LEMMA LateStep ==
  ASSUME ConnectInv, step \in {"up", "failed"}, pc' # "open",
         pc' # "done" => step = "up",
         UNCHANGED <<mode, connectVars, offered>>, TypeInv', OutMoves, InMoves,
         upstream_dsn' => step = "up" /\ "DSN" \in caps
  PROVE  ConnectInv'
<1>1. InChannel'
  BY KeepsChannel DEF ConnectInv
<1>2. OneAtATime'
  BY DEF OneAtATime, connectVars, ConnectSteps
<1>3. Believed'
  BY DEF ConnectInv, Believed, Announced, Allowed, connectVars
<1>4. QED
  BY <1>1, <1>2, <1>3 DEF ConnectInv

\* What the proxy writes after connect fits the channel.
LEMMA FitsUp ==
  ASSUME TypeInv, step = "up",
         NEW what \in {"MAIL", "RCPT", "DATA", "QUIT"} \cup PieceNames \cup TailNames,
         NEW params \in SUBSET Keywords, params \subseteq caps
  PROVE  Item(what, tls, params) \in Items /\ Fit(Item(what, tls, params))
<1>1. Item(what, tls, params) \in Items
  BY ItemType DEF TypeInv, ConnectType, CommandNames
<1>2. QED
  BY <1>1 DEF Fit, Item, ConnectSteps, PieceNames, TailNames

\* The transaction and the body write in the channel connect left them.
LEMMA LateProxy ==
  ASSUME ConnectInv, Joined \/ open_transaction \/ write \/ finish \/ verdict \/ quit
  PROVE  ConnectInv'
<1> USE DEF ConnectInv
<1>1. TypeInv'
  BY JoinedType, TransactionType, BodyKeepsType
<1>2. UNCHANGED <<mode, connectVars, offered>>
  BY DEF Joined, open_transaction, write, finish, verdict, quit, upstreamVars
<1>3. /\ step \in {"up", "failed"} /\ pc' # "open" /\ (pc' # "done" => step = "up")
      /\ pc # "open" => step = "up"
  <2>1. pc \notin {"open", "done"} => step = "up"
    BY DEF OneAtATime
  <2>2. CASE Joined
    BY <2>2, JoinedCases DEF Joined, Settle
  <2>3. CASE open_transaction
    BY <2>1, <2>3, AcceptedCases DEF open_transaction, Settle, Command
  <2>4. CASE write \/ finish \/ verdict \/ quit
    BY <2>1, <2>4 DEF write, finish, verdict, quit, Push, Dropped, Settle, Command
  <2>5. QED
    BY <2>2, <2>3, <2>4
<1>4. upstream_dsn' => step = "up" /\ "DSN" \in caps
  <2>1. CASE Joined
    BY <2>1, JoinedCases DEF Believed
  <2>2. CASE open_transaction \/ write \/ finish \/ verdict \/ quit
    BY <2>2 DEF open_transaction, write, finish, verdict, quit, Believed
  <2>3. QED
    BY <2>1, <2>2
<1>5. InMoves
  BY DEF Joined, open_transaction, write, finish, verdict, quit, Push, ReadReply, NoReply, InMoves
<1>6. OutMoves
  <2>1. ASSUME NEW what \in {"MAIL", "RCPT", "DATA", "QUIT"} \cup PieceNames \cup TailNames,
               NEW params \in SUBSET caps, out' = Append(out, Item(what, tls, params)), step = "up"
        PROVE  OutMoves
    <3>1. params \in SUBSET Keywords
      BY DEF TypeInv, ConnectType
    <3>2. QED
      BY <2>1, <3>1, FitsUp DEF OutMoves
  <2>2. dsn_suffix \cup size_suffix \in SUBSET caps /\ dsn_suffix \in SUBSET caps /\ {} \in SUBSET caps
    BY Suffixes
  <2>3. CASE Joined
    <3>1. CASE UNCHANGED out
      BY <3>1 DEF OutMoves
    <3>2. CASE out' = Append(out, Item("MAIL", tls, dsn_suffix \cup size_suffix)) /\ pc' = "MAIL"
      BY <1>3, <2>1, <2>2, <3>2
    <3>3. QED
      BY <2>3, <3>1, <3>2, JoinedCases
  <2>4. CASE open_transaction
    <3>1. CASE UNCHANGED out
      BY <3>1 DEF OutMoves
    <3>2. CASE \E cmd \in {"RCPT", "DATA"}, params \in {dsn_suffix, {}} :
                  out' = Append(out, Item(cmd, tls, params))
      BY <1>3, <2>1, <2>2, <2>4, <3>2 DEF open_transaction
    <3>3. UNCHANGED out \/ \E cmd \in {"RCPT", "DATA"}, params \in {dsn_suffix, {}} :
                               out' = Append(out, Item(cmd, tls, params))
      <4>1. CASE accepted
        BY <2>4, <4>1, AcceptedCases DEF open_transaction, Command
      <4>2. CASE UNCHANGED out
        BY <4>2
      <4>3. QED
        BY <2>4, <4>1, <4>2 DEF open_transaction
    <3>4. QED
      BY <3>1, <3>2, <3>3
  <2>5. CASE write \/ finish \/ verdict \/ quit
    <3>1. CASE UNCHANGED out
      BY <3>1 DEF OutMoves
    <3>2. CASE \E what \in {"QUIT"} \cup PieceNames \cup TailNames : out' = Append(out, Item(what, tls, {}))
      BY <1>3, <2>1, <2>2, <2>5, <3>2 DEF write, finish, verdict, quit
    <3>3. QED
      BY <2>5, <3>1, <3>2 DEF write, finish, verdict, quit, Push, Dropped, tail, Command, PieceNames, TailNames
  <2>6. QED
    BY <2>3, <2>4, <2>5
<1>7. QED
  BY <1>1, <1>2, <1>3, <1>4, <1>5, <1>6, LateStep

\* The API and the client have no hand in it.
LEMMA LateOthers ==
  ASSUME ConnectInv, ApiAnswers \/ ClientSends PROVE ConnectInv'
<1>1. TypeInv' /\ UNCHANGED <<mode, connectVars, upstream_dsn, out, in, upstreamVars>>
  BY OthersType DEF ApiAnswers, ClientSends, ConnectInv
<1>2. OutMoves /\ InMoves
  BY <1>1 DEF OutMoves, InMoves
<1>3. CASE ApiAnswers
  <2>1. InChannel' /\ pc' = pc
    BY <1>1, <1>2, <1>3, KeepsChannel DEF ConnectInv, ApiAnswers
  <2>2. OneAtATime' /\ Believed'
    BY <1>1, <2>1 DEF ConnectInv, OneAtATime, Waits, Believed, Announced, Allowed, connectVars, upstreamVars
  <2>3. QED
    BY <1>1, <2>1, <2>2 DEF ConnectInv
<1>4. CASE ClientSends
  <2>1. pc = "body" /\ pc' # "open" /\ step = "up"
    BY <1>4 DEF ClientSends, Settle, ConnectInv, OneAtATime
  <2>2. QED
    BY <1>1, <1>2, <2>1, LateStep DEF upstreamVars, ConnectInv, Believed
<1>5. QED
  BY <1>3, <1>4

-----------------------------------------------------------------------------
(* The channel: connect *)

\* What a step of connect leaves alone.
ConnectFrame == TypeInv' /\ UNCHANGED <<mode, pc, upstream_dsn, ustate, offered>>

\* connect that fails leaves its command where it is, and reads no more.
LEMMA FailsKeeps ==
  ASSUME ConnectInv, ConnectFrame, step \notin {"up", "failed"}, NEW code, ConnectFails(code),
         in' = in \/ (in # <<>> /\ in' = Tail(in))
  PROVE  ConnectInv'
<1> USE DEF ConnectFrame, ConnectInv
<1>1. step' = "failed" /\ UNCHANGED <<tls, caps, out>>
  BY DEF ConnectFails
<1>2. \A i \in DOMAIN in' : in'[i].tls = tls'
  <2>1. CASE in' = in
    BY <1>1, <2>1 DEF InChannel
  <2>2. CASE in # <<>> /\ in' = Tail(in)
    <3>1. in \in Seq(Replies)
      BY DEF TypeInv, WireType
    <3>2. /\ DOMAIN in' = 1..Len(in) - 1 /\ Len(in) \in Nat /\ DOMAIN in = 1..Len(in)
          /\ \A i \in 1..Len(in) - 1 : in'[i] = in[i + 1]
      BY <2>2, <3>1, TailOf, EmptyOf
    <3>3. \A i \in 1..Len(in) - 1 : i + 1 \in DOMAIN in
      BY <3>2
    <3>4. QED
      BY <1>1, <3>2, <3>3 DEF InChannel
  <2>3. QED
    BY <2>1, <2>2
<1>3. InChannel'
  BY <1>1, <1>2 DEF InChannel, Fit
<1>4. pc = "open" /\ ~upstream_dsn
  BY DEF OneAtATime, Believed
<1>5. OneAtATime'
  BY <1>1, <1>4 DEF OneAtATime, ConnectSteps
<1>6. Believed'
  BY <1>1, <1>4 DEF Believed
<1>7. QED
  BY <1>3, <1>5, <1>6

\* A command that follows the answer to the last one is the only one out.
LEMMA AskKeeps ==
  ASSUME ConnectInv, ConnectFrame, step \notin {"up", "failed"}, out = <<>>, in' = <<>>,
         NEW cmd \in ConnectSteps, Ask(cmd, tls'), cmd = "STARTTLS" => ~tls', Believed'
  PROVE  ConnectInv'
<1> USE DEF ConnectFrame, ConnectInv
<1>1. step' = cmd /\ out' = Append(out, Item(cmd, tls', {}))
  BY DEF Ask
<1>2. Item(cmd, tls', {}) \in Items
  BY ItemType DEF TypeInv, ConnectType, CommandNames
<1>3. Len(out') = 1 /\ out'[1] = Item(cmd, tls', {}) /\ DOMAIN out' = 1..1
  BY <1>1, <1>2
<1>8. out'[1].what = cmd /\ out'[1].tls = tls' /\ out'[1].params = {}
  BY <1>3 DEF Item
<1>9. cmd \notin {"dial", "upgrade", "up", "failed"}
  BY DEF ConnectSteps
<1>4. InChannel'
  <2>1. \A i \in DOMAIN out' : i = 1
    BY <1>3
  <2>2. \A i \in DOMAIN in' : FALSE
    OBVIOUS
  <2>3. QED
    BY <1>1, <1>8, <1>9, <2>1, <2>2 DEF InChannel, Fit
<1>5. pc = "open" /\ ustate = "command"
  BY DEF OneAtATime
<1>6. OneAtATime'
  BY <1>1, <1>3, <1>5, <1>8, <1>9 DEF OneAtATime, Waits
<1>7. QED
  BY <1>4, <1>6

\* connect that is up has had all its answers.
LEMMA UpKeeps ==
  ASSUME ConnectInv, ConnectFrame, step \notin {"up", "failed"}, out = <<>>, in' = <<>>, out' = out,
         step' = "up", tls' = tls, caps' \subseteq Announced, Allowed
  PROVE  ConnectInv'
<1> USE DEF ConnectFrame, ConnectInv
<1>1. InChannel'
  BY DEF InChannel
<1>2. pc = "open" /\ ustate = "command" /\ ~upstream_dsn
  BY DEF OneAtATime, Believed
<1>3. OneAtATime'
  BY <1>2 DEF OneAtATime, ConnectSteps
<1>4. Believed'
  BY <1>2 DEF Believed, Announced, Allowed
<1>5. QED
  BY <1>1, <1>3, <1>4

\* Whether TLS is asked for is decided on what the upstream announced: required
\* TLS is never done without, and nobody is skipped who offers it.
LEMMA WantTlsKeeps ==
  ASSUME ConnectInv, ConnectFrame, step \in {"EHLO", "HELO"}, out = <<>>, in' = <<>>,
         in' = in \/ (in # <<>> /\ in' = Tail(in)), want_tls(Announced)
  PROVE  ConnectInv'
<1> USE DEF ConnectFrame, ConnectInv
<1>1. (tls <=> mode = "implicit") /\ (tls \/ offered.tls = {})
  BY DEF Believed
<1>2. mode \in {"off", "opportunistic", "required", "implicit"}
  BY RelayAssumption DEF TypeInv, ProxyType
<1>3. CASE ConnectFails(451)
  BY <1>3, FailsKeeps
<1>4. CASE mode \in {"opportunistic", "required"} /\ Ask("STARTTLS", FALSE) /\ UNCHANGED <<refusal, tls, caps>>
  <2>4. ~tls /\ tls' = tls /\ step' = "STARTTLS" /\ ~upstream_dsn
    BY <1>1, <1>4 DEF Ask, Believed
  <2>1. ~tls /\ tls' = tls /\ step' = "STARTTLS" /\ ~upstream_dsn /\ tls' = FALSE
    BY <2>4 DEF TypeInv, ConnectType
  <2>2. Believed'
    BY <1>1, <2>1 DEF Believed
  <2>3. QED
    BY <1>4, <2>1, <2>2, AskKeeps DEF ConnectSteps
<1>5. CASE /\ ~(mode = "required" /\ "STARTTLS" \notin Announced)
           /\ ~(mode \in {"opportunistic", "required"} /\ "STARTTLS" \in Announced)
           /\ step' = "up" /\ caps' = Announced /\ UNCHANGED <<refusal, tls, out>>
  <2>1. Allowed
    BY <1>1, <1>2, <1>5 DEF Allowed, Announced
  <2>2. QED
    BY <1>5, <2>1, UpKeeps
<1>6. QED
  BY <1>3, <1>4, <1>5 DEF want_tls

\* connect's one wait: the reply read is the answer to its step.
LEMMA OnlyReply ==
  ASSUME ConnectInv, step \in ConnectSteps, in # <<>>
  PROVE  /\ out = <<>> /\ Head(in) = in[1]
         /\ step # "STARTTLS" => Tail(in) = <<>>
<1>1. in \in Seq(Replies)
  BY DEF ConnectInv, TypeInv, WireType
<1>2. out = <<>> /\ (Len(in) = 1 \/ step = "STARTTLS")
  BY DEF ConnectInv, OneAtATime, Waits
<1>3. Head(in) = in[1] /\ Len(Tail(in)) = Len(in) - 1 /\ Tail(in) \in Seq(Replies)
  BY <1>1, TailOf
<1>5. step # "STARTTLS" => Tail(in) = <<>>
  <2> SUFFICES ASSUME step # "STARTTLS" PROVE Tail(in) = <<>>
    OBVIOUS
  <2>1. Len(Tail(in)) = 0
    BY <1>2, <1>3
  <2>2. QED
    BY <1>3, <2>1, EmptyOf
<1>4. QED
  BY <1>2, <1>3, <1>5

\* connect keeps to one command, one channel and what it was told there.
LEMMA ConnectKeeps == ASSUME ConnectInv, dial \/ Open \/ upgrade PROVE ConnectInv'
<1> USE DEF ConnectInv
<1>1. ConnectFrame
  BY ConnectKeepsType DEF dial, Open, upgrade, upstreamVars, ConnectFrame
<1>8. step \notin {"up", "failed"}
  BY DEF dial, Open, upgrade, ConnectSteps
<1>2. step \notin {"up", "failed"} /\ ~upstream_dsn
  BY <1>8 DEF Believed
<1>3. UNCHANGED <<mode, offered, upstream_dsn>>
  BY <1>1 DEF ConnectFrame
<1>4. CASE dial
  <2>1. in' = in /\ in = <<>> /\ out = <<>>
    BY <1>4 DEF dial, OneAtATime
  <2>2. CASE ConnectFails(451)
    BY <1>1, <1>2, <2>1, <2>2, FailsKeeps
  <2>3. CASE tls' = (mode = "implicit") /\ Ask("CONNECT", tls') /\ UNCHANGED <<refusal, caps>>
    <3>1. step = "dial" /\ step' = "CONNECT" /\ (tls' <=> mode' = "implicit")
      BY <1>3, <1>4, <2>3 DEF dial, Ask
    <3>2. Believed'
      BY <1>2, <1>3, <3>1 DEF Believed
    <3>3. QED
      BY <1>1, <1>2, <2>1, <2>3, <3>2, AskKeeps DEF ConnectSteps
  <2>4. QED
    BY <1>4, <2>2, <2>3 DEF dial
<1>5. CASE upgrade
  <2>1. in' = in /\ out = <<>> /\ step = "upgrade"
    BY <1>5 DEF upgrade, OneAtATime
  <2>2. CASE ConnectFails(451)
    BY <1>1, <1>2, <2>1, <2>2, FailsKeeps
  <2>3. CASE in = <<>> /\ tls' = TRUE /\ Ask("EHLO in TLS", TRUE) /\ UNCHANGED <<refusal, caps>>
    <3>1. step' = "EHLO in TLS" /\ tls' = TRUE /\ in' = <<>> /\ offered.tls = {}
      BY <2>1, <2>3 DEF Ask, Believed
    <3>2. Believed'
      BY <1>2, <1>3, <3>1 DEF Believed, Announced
    <3>3. QED
      BY <1>1, <1>2, <2>1, <2>3, <3>1, <3>2, AskKeeps DEF ConnectSteps
  <2>4. QED
    BY <1>5, <2>2, <2>3 DEF upgrade
<1>6. CASE Open
  <2>1. CASE NoReply /\ ConnectFails(451)
    BY <1>1, <1>2, <2>1, FailsKeeps DEF NoReply
  <2>2. CASE ReadReply /\ open(Head(in))
    <3> DEFINE r == Head(in)
    <3>1. in # <<>> /\ in' = Tail(in) /\ step \in ConnectSteps
      BY <1>6, <2>2 DEF ReadReply, Open
    <3>2. out = <<>> /\ r = in[1] /\ (step # "STARTTLS" => in' = <<>>)
      BY <3>1, OnlyReply
    <3>3. ConnectFails(client_code(r.code)) => ConnectInv'
      BY <1>1, <1>2, <3>1, FailsKeeps
    <3>4. CASE step = "CONNECT" /\ Ask("EHLO", tls) /\ UNCHANGED <<refusal, tls, caps>>
      <4>1. step' = "EHLO" /\ tls' = tls /\ in' = <<>>
        BY <3>2, <3>4 DEF Ask
      <4>2. Believed'
        BY <1>2, <1>3, <3>4, <4>1 DEF Believed, Announced
      <4>3. QED
        BY <1>1, <1>2, <3>2, <3>4, <4>1, <4>2, AskKeeps DEF ConnectSteps
    <3>5. CASE step = "EHLO" /\ Class(r.code) = 2 /\ want_tls(r.exts)
      <4>1. r.exts = Announced
        BY <3>1, <3>2, <3>5 DEF Believed
      <4>2. QED
        BY <1>1, <3>1, <3>2, <3>5, <4>1, WantTlsKeeps
    <3>6. CASE step = "EHLO" /\ Class(r.code) = 5 /\ Ask("HELO", tls) /\ UNCHANGED <<refusal, tls, caps>>
      <4>1. step' = "HELO" /\ tls' = tls /\ in' = <<>>
        BY <3>2, <3>6 DEF Ask
      <4>2. Announced = {} /\ Announced' = Announced
        BY <1>3, <3>2, <3>6, <4>1 DEF Believed, Announced
      <4>3. Believed'
        BY <1>2, <1>3, <3>6, <4>1, <4>2 DEF Believed
      <4>4. QED
        BY <1>1, <1>2, <3>2, <3>6, <4>1, <4>3, AskKeeps DEF ConnectSteps
    <3>7. CASE step = "HELO" /\ want_tls({})
      <4>1. Announced = {}
        BY <3>7 DEF Believed
      <4>2. QED
        BY <1>1, <3>1, <3>2, <3>7, <4>1, WantTlsKeeps
    <3>8. CASE step = "STARTTLS" /\ step' = "upgrade" /\ UNCHANGED <<refusal, tls, caps, out>>
      <4>1. Believed'
        BY <1>2, <1>3, <3>8 DEF Believed
      <4>2. OneAtATime'
        BY <1>1, <3>2, <3>8 DEF OneAtATime, ConnectFrame, ConnectSteps
      <4>3. in \in Seq(Replies)
        BY DEF TypeInv, WireType
      <4>4. /\ DOMAIN in' = 1..Len(in) - 1 /\ Len(in) \in Nat /\ DOMAIN in = 1..Len(in)
            /\ \A i \in 1..Len(in) - 1 : in'[i] = in[i + 1]
        BY <3>1, <4>3, TailOf, EmptyOf
      <4>5. \A i \in 1..Len(in) - 1 : i + 1 \in DOMAIN in
        BY <4>4
      <4>6. InChannel'
        BY <3>2, <3>8, <4>4, <4>5 DEF InChannel
      <4>7. QED
        BY <1>1, <4>1, <4>2, <4>6 DEF ConnectFrame
    <3>9. CASE step = "EHLO in TLS" /\ Class(r.code) = 2 /\ step' = "up" /\ caps' = r.exts
               /\ UNCHANGED <<refusal, tls, out>>
      <4>1. r.exts = Announced /\ Allowed
        BY <3>1, <3>2, <3>9 DEF Believed, Allowed
      <4>2. QED
        BY <1>1, <1>2, <3>2, <3>9, <4>1, UpKeeps
    <3>10. QED
      BY <2>2, <3>3, <3>4, <3>5, <3>6, <3>7, <3>8, <3>9 DEF open
  <2>3. QED
    BY <1>6, <2>1, <2>2 DEF Open
<1>7. QED
  BY <1>4, <1>5, <1>6

-----------------------------------------------------------------------------
(* The channel: the upstream *)

LEMMA AppendInTls ==
  ASSUME NEW s \in Seq(Replies), \A i \in DOMAIN s : s[i].tls = tls, NEW r \in Replies, r.tls = tls
  PROVE  Append(s, r) \in Seq(Replies) /\ \A i \in DOMAIN Append(s, r) : Append(s, r)[i].tls = tls
<1>1. /\ Append(s, r) \in Seq(Replies) /\ DOMAIN Append(s, r) = 1..Len(s) + 1
      /\ Append(s, r)[Len(s) + 1] = r /\ \A i \in 1..Len(s) : Append(s, r)[i] = s[i]
      /\ DOMAIN s = 1..Len(s) /\ Len(s) \in Nat
  BY AppendOf, EmptyOf
<1>2. \A i \in 1..Len(s) + 1 : i = Len(s) + 1 \/ i \in 1..Len(s)
  BY <1>1
<1>3. QED
  BY <1>1, <1>2

\* The upstream answers the oldest command, in the command's channel.
LEMMA AnswerCases ==
  ASSUME ConnectInv, UpstreamAnswers
  PROVE  /\ out # <<>> /\ out' = Tail(out) /\ Fit(out[1]) /\ out[1] \in Items /\ ustate = "command"
         /\ UNCHANGED <<mode, pc, connectVars, upstream_dsn>>
         /\ \E code \in Codes :
              /\ \/ /\ out[1].what \in {"EHLO", "EHLO in TLS"} /\ Class(code) = 2
                    /\ \E exts \in SUBSET Keywords :
                         /\ in' = Append(in, [code |-> code, exts |-> exts, tls |-> tls])
                         /\ offered' = IF tls THEN [offered EXCEPT !.tls = exts]
                                             ELSE [offered EXCEPT !.plain = exts]
                 \/ /\ out[1].what = "STARTTLS" /\ UNCHANGED offered
                    /\ in' = Append(Append(in, [code |-> code, exts |-> {}, tls |-> tls]),
                                    [code |-> code, exts |-> Keywords, tls |-> tls])
                 \/ /\ ~(out[1].what \in {"EHLO", "EHLO in TLS"} /\ Class(code) = 2)
                    /\ UNCHANGED offered
                    /\ in' = Append(in, [code |-> code, exts |-> {}, tls |-> tls])
              /\ ustate' = IF out[1].what = "DATA" /\ Class(code) = 3 THEN "data" ELSE ustate
<1> USE DEF ConnectInv
<1>1. out # <<>> /\ out' = Tail(out) /\ UNCHANGED proxyVars /\ ustate = "command"
  BY DEF UpstreamAnswers
<1>2. Head(out) = out[1] /\ 1 \in DOMAIN out /\ out[1] \in Items
  BY <1>1, TailOf, EmptyOf DEF TypeInv, WireType
<1>3. Fit(out[1]) /\ out[1].tls = tls
  BY <1>2 DEF InChannel, Fit
<1>4. out[1].what = "STARTTLS" => tls = FALSE
  <2>1. out[1].what = "STARTTLS" => ~tls
    BY <1>3 DEF Fit
  <2>2. QED
    BY <2>1 DEF TypeInv, ConnectType
<1>5. UNCHANGED <<mode, pc, connectVars, upstream_dsn>>
  BY <1>1 DEF proxyVars
<1>6. QED
  BY <1>1, <1>2, <1>3, <1>4, <1>5 DEF UpstreamAnswers, Answers

\* Its answers leave both streams in the channel.
LEMMA AnswerInChannel == ASSUME ConnectInv, UpstreamAnswers PROVE InChannel'
<1> USE DEF ConnectInv
<1>1. /\ out # <<>> /\ out' = Tail(out) /\ UNCHANGED connectVars
      /\ \E code \in Codes :
           \/ \E exts \in SUBSET Keywords : in' = Append(in, [code |-> code, exts |-> exts, tls |-> tls])
           \/ in' = Append(Append(in, [code |-> code, exts |-> {}, tls |-> tls]),
                           [code |-> code, exts |-> Keywords, tls |-> tls])
  BY AnswerCases
<1>2. in \in Seq(Replies) /\ \A i \in DOMAIN in : in[i].tls = tls
  BY DEF TypeInv, WireType, InChannel
<1>3. \A code \in Codes, exts \in SUBSET Keywords :
        LET r == [code |-> code, exts |-> exts, tls |-> tls] IN r \in Replies /\ r.tls = tls
  BY DEF TypeInv, ConnectType, Replies
<1>4. \A i \in DOMAIN in' : in'[i].tls = tls
  <2>1. ASSUME NEW code \in Codes, NEW exts \in SUBSET Keywords,
               in' = Append(in, [code |-> code, exts |-> exts, tls |-> tls])
        PROVE  \A i \in DOMAIN in' : in'[i].tls = tls
    BY <1>2, <1>3, <2>1, AppendInTls
  <2>2. ASSUME NEW code \in Codes,
               in' = Append(Append(in, [code |-> code, exts |-> {}, tls |-> tls]),
                            [code |-> code, exts |-> Keywords, tls |-> tls])
        PROVE  \A i \in DOMAIN in' : in'[i].tls = tls
    <3> DEFINE r1 == [code |-> code, exts |-> {}, tls |-> tls]
               r2 == [code |-> code, exts |-> Keywords, tls |-> tls]
    <3>1. r1 \in Replies /\ r1.tls = tls /\ r2 \in Replies /\ r2.tls = tls
      BY <1>3
    <3>2. in' = Append(Append(in, r1), r2)
      BY <2>2
    <3> HIDE DEF r1, r2
    <3>3. Append(in, r1) \in Seq(Replies) /\ \A i \in DOMAIN Append(in, r1) : Append(in, r1)[i].tls = tls
      BY <1>2, <3>1, AppendInTls
    <3>4. QED
      BY <3>1, <3>2, <3>3, AppendInTls
  <2>3. QED
    BY <1>1, <2>1, <2>2
<1>5. \A i \in DOMAIN out' : i + 1 \in DOMAIN out /\ out'[i] = out[i + 1]
  <2>1. /\ DOMAIN out' = 1..Len(out) - 1 /\ DOMAIN out = 1..Len(out) /\ Len(out) \in Nat
        /\ \A i \in 1..Len(out) - 1 : out'[i] = out[i + 1]
    BY <1>1, TailOf, EmptyOf DEF TypeInv, WireType
  <2>2. QED
    BY <2>1
<1>6. QED
  BY <1>1, <1>4, <1>5 DEF InChannel, Fit, connectVars

\* What the upstream does, says or closes, connect goes on believing what it heard.
LEMMA UpstreamKeeps == ASSUME ConnectInv, Upstream PROVE ConnectInv'
<1> USE DEF ConnectInv
<1>1. TypeInv' /\ UNCHANGED <<mode, pc, connectVars, upstream_dsn>>
  BY UpstreamKeepsType DEF Upstream, UpstreamAnswers, UpstreamTakes, UpstreamEnds,
       UpstreamRefusesEarly, UpstreamCloses, proxyVars
<1>2. upstream_dsn => step = "up" /\ "DSN" \in caps
  BY DEF Believed
<1>3. CASE UpstreamTakes \/ UpstreamEnds \/ UpstreamRefusesEarly
  <2>1. pc # "open" /\ step \in {"up", "failed"} /\ (pc # "done" => step = "up")
    BY <1>3 DEF UpstreamTakes, UpstreamEnds, UpstreamRefusesEarly, OneAtATime
  <2>2. UNCHANGED offered /\ OutMoves
    BY <1>3 DEF UpstreamTakes, UpstreamEnds, UpstreamRefusesEarly, OutMoves
  <2>3. \A code \in Codes : [code |-> code, exts |-> {}, tls |-> tls] \in Replies
    BY DEF TypeInv, ConnectType, Replies
  <2>4. \/ in' = in
        \/ \E code \in Codes : in' = Append(in, [code |-> code, exts |-> {}, tls |-> tls])
    BY <1>3 DEF UpstreamTakes, UpstreamEnds, UpstreamRefusesEarly, Answers
  <2>5. InMoves
    <3>1. \A code \in Codes : [code |-> code, exts |-> {}, tls |-> tls].tls = tls
      OBVIOUS
    <3>2. QED
      BY <2>3, <2>4, <3>1 DEF InMoves
  <2>6. QED
    BY <1>1, <1>2, <2>1, <2>2, <2>5, LateStep
<1>4. CASE UpstreamCloses
  <2>1. UNCHANGED <<offered, out, in, ustate>>
    BY <1>4 DEF UpstreamCloses
  <2>2. OneAtATime' /\ Believed' /\ InChannel'
    BY <1>1, <2>1 DEF OneAtATime, Waits, Believed, Announced, Allowed, InChannel, Fit, connectVars
  <2>3. QED
    BY <1>1, <2>2
<1>5. CASE UpstreamAnswers
  <2>1. InChannel' /\ out # <<>> /\ ustate = "command" /\ Fit(out[1])
    BY <1>5, AnswerInChannel, AnswerCases
  <2>2. CASE step = "up"
    <3>1. out[1].what \notin ConnectSteps /\ UNCHANGED offered
      BY <1>5, <2>1, <2>2, AnswerCases DEF Fit, ConnectSteps
    <3>2. pc # "open"
      BY <2>1, <2>2 DEF OneAtATime
    <3>3. OneAtATime' /\ Believed'
      BY <1>1, <2>2, <3>1, <3>2 DEF OneAtATime, Believed, Announced, Allowed, connectVars, ConnectSteps
    <3>4. QED
      BY <1>1, <2>1, <3>3
  <2>3. CASE step = "failed"
    <3>1. ustate' = ustate
      BY <1>5, <2>1, <2>3, AnswerCases DEF Fit, ConnectSteps
    <3>2. OneAtATime' /\ Believed'
      BY <1>1, <1>2, <2>1, <2>3, <3>1 DEF OneAtATime, Believed, connectVars, ConnectSteps
    <3>3. QED
      BY <1>1, <2>1, <3>2
  <2>4. CASE step \in ConnectSteps
    <3>1. Len(out) = 1 /\ out[1].what = step /\ in = <<>> /\ pc = "open"
      BY <2>1, <2>4 DEF OneAtATime, Waits, ConnectSteps
    <3>2. out' = <<>>
      <4>1. out' \in Seq(Items) /\ Len(out') = 0
        <5>1. out' = Tail(out) /\ out \in Seq(Items)
          BY <1>5, AnswerCases DEF TypeInv, WireType
        <5>2. Tail(out) \in Seq(Items) /\ Len(Tail(out)) = Len(out) - 1
          BY <2>1, <5>1, TailOf
        <5>3. QED
          BY <3>1, <5>1, <5>2
      <4>2. QED
        BY <4>1, EmptyOf
    <3>3. PICK code \in Codes :
            \/ /\ step \in {"EHLO", "EHLO in TLS"} /\ Class(code) = 2
               /\ \E exts \in SUBSET Keywords :
                    /\ in' = Append(in, [code |-> code, exts |-> exts, tls |-> tls])
                    /\ offered' = IF tls THEN [offered EXCEPT !.tls = exts]
                                        ELSE [offered EXCEPT !.plain = exts]
            \/ /\ step = "STARTTLS" /\ UNCHANGED offered
               /\ in' = Append(Append(in, [code |-> code, exts |-> {}, tls |-> tls]),
                               [code |-> code, exts |-> Keywords, tls |-> tls])
            \/ /\ ~(step \in {"EHLO", "EHLO in TLS"} /\ Class(code) = 2)
               /\ UNCHANGED offered
               /\ in' = Append(in, [code |-> code, exts |-> {}, tls |-> tls])
      BY <1>5, <3>1, AnswerCases
    <3>4. ustate' = ustate
      BY <1>5, <2>4, <3>1, AnswerCases DEF ConnectSteps
    <3>5. Len(in') = 1 \/ (step = "STARTTLS" /\ Len(in') = 2)
      <4>1. \A e, f : Len(Append(in, e)) = 1 /\ Len(Append(Append(in, e), f)) = 2
        BY <3>1, FirstOf
      <4>2. QED
        BY <3>3, <4>1
    <3>6. OneAtATime'
      BY <1>1, <2>1, <2>4, <3>1, <3>2, <3>4, <3>5 DEF OneAtATime, Waits, connectVars, ConnectSteps
    <3>7. CASE UNCHANGED offered /\ step \notin {"EHLO", "EHLO in TLS"}
      <4>1. Believed'
        BY <1>1, <3>7 DEF Believed, Announced, Allowed, connectVars
      <4>2. QED
        BY <1>1, <2>1, <3>6, <4>1
    <3>8. CASE /\ UNCHANGED offered /\ step \in {"EHLO", "EHLO in TLS"} /\ Class(code) # 2
               /\ in' = Append(in, [code |-> code, exts |-> {}, tls |-> tls])
      <4>1. in'[1].code = code
        <5>1. \A e : Append(in, e)[1] = e
          BY <3>1, FirstOf
        <5>2. in'[1] = [code |-> code, exts |-> {}, tls |-> tls]
          BY <3>8, <5>1
        <5>3. QED
          BY <5>2
      <4>2. Announced = {} /\ Announced' = Announced
        BY <1>1, <3>1, <3>8 DEF Believed, Announced, connectVars
      <4>3. Believed'
        BY <1>1, <3>8, <4>1, <4>2 DEF Believed, connectVars
      <4>4. QED
        BY <1>1, <2>1, <3>6, <4>3
    <3>9. ASSUME NEW exts \in SUBSET Keywords, step \in {"EHLO", "EHLO in TLS"}, Class(code) = 2,
                 in' = Append(in, [code |-> code, exts |-> exts, tls |-> tls]),
                 offered' = IF tls THEN [offered EXCEPT !.tls = exts] ELSE [offered EXCEPT !.plain = exts]
          PROVE  ConnectInv'
      <4>1. in' # <<>> /\ in'[1].code = code /\ in'[1].exts = exts
        <5>1. \A e : Append(in, e) # <<>> /\ Append(in, e)[1] = e
          BY <3>1, FirstOf
        <5>2. in' # <<>> /\ in'[1] = [code |-> code, exts |-> exts, tls |-> tls]
          BY <3>9, <5>1
        <5>3. QED
          BY <5>2
      <4>2. Announced' = exts /\ (tls \/ offered'.tls = offered.tls)
        BY <1>1, <3>9 DEF Announced, connectVars, TypeInv, UpstreamType
      <4>3. Believed'
        BY <1>1, <3>9, <4>1, <4>2 DEF Believed, connectVars
      <4>4. QED
        BY <1>1, <2>1, <3>6, <4>3
    <3>10. QED
      BY <3>3, <3>7, <3>8, <3>9
  <2>5. step \notin {"dial", "upgrade"}
    BY <2>1 DEF OneAtATime
  <2>6. QED
    BY <2>2, <2>3, <2>4, <2>5 DEF TypeInv, ConnectType
<1>6. QED
  BY <1>3, <1>4, <1>5 DEF Upstream

-----------------------------------------------------------------------------
(* What the channel promises *)

LEMMA ConnectInit == Init => ConnectInv
<1> SUFFICES ASSUME Init PROVE ConnectInv
  OBVIOUS
<1>1. OneAtATime /\ Believed
  BY DEF Init, OneAtATime, Believed, ConnectSteps
<1>2. InChannel
  BY DEF Init, InChannel
<1>3. QED
  BY <1>1, <1>2, InitType DEF ConnectInv

LEMMA ConnectNext == ASSUME ConnectInv, [Next]_vars PROVE ConnectInv'
<1>1. CASE UNCHANGED vars
  <2>1. /\ TypeInv'
        /\ UNCHANGED <<mode, pc, step, tls, caps, upstream_dsn, out, in, ustate, offered>>
    BY <1>1, NextType DEF vars, proxyVars, connectVars, upstreamVars, ConnectInv
  <2>2. OneAtATime' /\ InChannel' /\ Believed'
    BY <2>1 DEF ConnectInv, OneAtATime, Waits, InChannel, Fit, Believed, Announced, Allowed
  <2>3. QED
    BY <2>1, <2>2 DEF ConnectInv
<1>2. QED
  BY <1>1, ConnectKeeps, LateProxy, LateOthers, UpstreamKeeps DEF Next, Proxy

\* connect waits for one reply at a time, in one channel, and what it believes of
\* the upstream is what it was told there (Upstream::open, upgrade).
THEOREM ChannelHolds == Spec => []ConnectInv
<1>1. ConnectInv /\ [Next]_vars => ConnectInv'
  BY ConnectNext
<1>2. QED
  BY <1>1, ConnectInit, PTL DEF Spec

\* Whatever the upstream announces, refuses or injects ahead of the handshake,
\* nothing about the message leaves in a channel --upstream_tls does not allow,
\* and inside TLS no reply is read that came from outside it (open, upgrade).
THEOREM TlsHonoured == Spec => []UpstreamTlsHonoured
<1>1. ConnectInv => UpstreamTlsHonoured
  <2> SUFFICES ASSUME ConnectInv PROVE UpstreamTlsHonoured
    OBVIOUS
  <2>1. ASSUME NEW i \in DOMAIN out, out[i].what \in Private
        PROVE  \/ out[i].tls
               \/ mode = "off"
               \/ mode = "opportunistic" /\ "STARTTLS" \notin offered.plain
    <3>1. out[i].what \notin ConnectSteps
      BY <2>1 DEF Private, ConnectSteps
    <3>2. out[i].tls = tls /\ step = "up"
      BY <3>1 DEF ConnectInv, InChannel, Fit
    <3>3. QED
      BY <3>2 DEF ConnectInv, Believed, Allowed
  <2>2. tls => \A i \in DOMAIN in : in[i].tls
    BY DEF ConnectInv, InChannel
  <2>3. QED
    BY <2>1, <2>2 DEF UpstreamTlsHonoured
<1>2. QED
  BY <1>1, ChannelHolds, PTL

\* Parameters of DSN and SIZE go only to an upstream that announced the extension
\* in the channel they are sent in, and only then is DSN offered to clients: what
\* was announced before STARTTLS is forgotten (dsn_suffix, size_suffix, open).
THEOREM ParamsAnnounced == Spec => []ParamsOnlyIfAnnounced
<1>1. ConnectInv => ParamsOnlyIfAnnounced
  <2> SUFFICES ASSUME ConnectInv PROVE ParamsOnlyIfAnnounced
    OBVIOUS
  <2>1. ASSUME NEW i \in DOMAIN out PROVE out[i].params \subseteq Announced
    <3>1. CASE step = "up"
      BY <3>1 DEF ConnectInv, InChannel, Fit, Believed
    <3>2. CASE step # "up"
      BY <3>2 DEF ConnectInv, InChannel, Fit
    <3>3. QED
      BY <3>1, <3>2
  <2>2. upstream_dsn => "DSN" \in Announced
    BY DEF ConnectInv, Believed
  <2>3. QED
    BY <2>1, <2>2 DEF ParamsOnlyIfAnnounced, Announced
<1>2. QED
  BY <1>1, ChannelHolds, PTL

-----------------------------------------------------------------------------
(***************************************************************************)
(* What relaying a message promises.  The invariant follows the message:   *)
(* before the body there is one command or one reply under way; in it      *)
(* every piece is with the upstream or on its way; and a terminator on its *)
(* way ends the whole message whether or not anyone still waits for the    *)
(* verdict.                                                                *)
(***************************************************************************)

-----------------------------------------------------------------------------
(* The invariant *)

\* Whether what precedes item i + 1 of `out' ends a line.
LineBefore(i) == IF i = 0 THEN uline ELSE out[i].what = "line"

TailSent == out # <<>> /\ out[Len(out)].what \in TailNames

\* At most one command on its way to an upstream that takes commands; pieces, and
\* perhaps a tail, on their way to one that takes a body.
OutShape ==
  IF ustate = "command"
  THEN Len(out) <= 1 /\ \A i \in DOMAIN out : out[i].what \in CommandNames
  ELSE \A i \in DOMAIN out :
         out[i].what \in PieceNames \/ (i = Len(out) /\ out[i].what \in TailNames)

\* Pieces the proxy has written.
Written == IF pc \in {"header", "write", "final"} THEN given - 1 ELSE given

\* Before the body: one command at a time, and nothing of the message is out.
BeforeBody ==
  /\ pc \notin {"open", "done"} => api = "allow" /\ told = NotYet
  /\ pc = "open" => told = NotYet
  /\ pc \in {"open", "MAIL", "RCPT", "DATA"} =>
       ~delivered /\ got = 0 /\ given = 0 /\ last_written = "none" /\ ~ended
  /\ pc \in {"MAIL", "RCPT"} => ustate = "command" /\ Waits(pc)
  /\ pc = "DATA" =>
       \/ ustate = "command" /\ Waits("DATA") /\ (in # <<>> => Class(in[1].code) # 3)
       \/ ustate = "data" /\ out = <<>> /\ Len(in) = 1
       \/ ustate = "refused" /\ out = <<>> /\ Len(in) = 2 /\ Class(in[2].code) # 2

\* An upstream that takes a body has said nothing yet, or has refused it.
SaidOfBody ==
  /\ ustate = "data" => in = <<>>
  /\ ustate = "refused" => Len(in) = 1 /\ Class(in[1].code) # 2

\* In the body: every piece is with the upstream or on its way.
InBody ==
  /\ pc \in {"DATA", "header", "body", "write", "final", "finish", "verdict", "QUIT"} =>
       rcpt = Rcpts
  /\ pc \in {"header", "body", "write", "final", "finish"} =>
       /\ ustate # "command" /\ SaidOfBody /\ ~delivered
       /\ \A i \in DOMAIN out : out[i].what \in PieceNames
       /\ got + Len(out) = Written
  /\ pc = "header" => last_written = "none" /\ out = <<>>
  /\ pc \in {"body", "write", "final", "finish"} =>
       last_written # "none" /\ (LineBefore(Len(out)) <=> last_written = "line")
  /\ pc \in {"final", "finish", "verdict", "QUIT"} => ended
  /\ pc = "verdict" =>
       \/ TailSent /\ SaidOfBody
       \/ /\ out = <<>> /\ ustate = "command" /\ Len(in) = 1
          /\ Class(in[1].code) = 2 => delivered
          /\ delivered => Class(in[1].code) = 2 \/ in[1].code = Garbled
  /\ pc = "QUIT" => delivered /\ ustate = "command"

\* Whoever still waits: a terminator on its way ends the whole message.
TailWhole ==
  TailSent =>
    /\ pc \in {"verdict", "done"} /\ ended /\ rcpt = Rcpts /\ api = "allow"
    /\ got + Len(out) = given + 1 /\ ~delivered /\ ustate # "command"
    /\ LineBefore(Len(out) - 1) <=> out[Len(out)].what = "end"
    /\ ustate = "data" => told \in {NotYet, Closed}

DeliveredWhole ==
  delivered =>
    /\ ended /\ got = given /\ ~padded /\ rcpt = Rcpts /\ api = "allow"
    /\ pc \in {"verdict", "QUIT", "done"} /\ ustate = "command"
    /\ told \in {NotYet, Closed, 250}
    /\ \A i \in DOMAIN out : out[i].what = "QUIT"

MessageInv == ConnectInv /\ OutShape /\ BeforeBody /\ InBody /\ TailWhole /\ DeliveredWhole

-----------------------------------------------------------------------------
(* The answer to the client *)

\* An answer that is true of the message now and stays so.
Honest(answer) ==
  /\ answer \in {NotYet, Closed, 250} \cup 400..599
  /\ answer = 250 => delivered
  /\ answer \in 400..599 => ~delivered /\ (TailSent => ustate # "data")

\* What answering leaves alone.
SettleFrame == UNCHANGED <<out, api, rcpt, given, ended, upstreamVars>>

LEMMA ClosedHonest == Honest(Closed)
BY DEF Honest, Closed

LEMMA RefusalHonest ==
  ASSUME NEW answer \in {NotYet} \cup 400..599, ~delivered, TailSent => ustate # "data"
  PROVE  Honest(answer)
BY DEF Honest, NotYet

\* Whichever step ends a message, its client had no answer before and gets one
\* that is true.
LEMMA Settling ==
  ASSUME MessageInv, Proxy \/ ClientSends, pc' = "done"
  PROVE  told = NotYet /\ Honest(told') /\ SettleFrame
<1> USE DEF MessageInv, SettleFrame
<1>1. TypeInv
  BY DEF ConnectInv
<1>2. CASE dial \/ Open \/ upgrade
  BY <1>2 DEF dial, Open, upgrade, OneAtATime, ConnectInv, ConnectSteps
<1>3. CASE Joined
  <2>1. told = NotYet /\ ~delivered /\ ustate = "command"
    BY <1>3 DEF Joined, BeforeBody, ConnectInv, OneAtATime
  <2>2. told' \in {451, 550, refusal} /\ out' = out
    BY <1>1, <1>3, JoinedCases DEF Settle
  <2>3. told' \in {NotYet} \cup 400..599
    BY <1>1, <2>2 DEF TypeInv, ConnectType
  <2>4. Honest(told')
    BY <2>1, <2>3, RefusalHonest
  <2>5. QED
    BY <1>3, <2>1, <2>2, <2>4 DEF Joined, bodyVars
<1>4. CASE open_transaction
  <2>1. pc \in {"MAIL", "RCPT", "DATA"} /\ told = NotYet /\ ~delivered /\ ~TailSent
    BY <1>4 DEF open_transaction, BeforeBody, TailWhole
  <2>2. /\ \E answer \in {451, client_code(Head(in).code)} : Settle(answer)
        /\ in # <<>> => Head(in).code \in Nat
        /\ UNCHANGED <<rcpt, bodyVars, out>>
    <3>1. in # <<>> => Head(in).code \in Nat
      <4>1. in # <<>> => Head(in) \in Replies
        BY <1>1, TailOf DEF TypeInv, WireType
      <4>2. QED
        BY <4>1, CodesType DEF Replies
    <3>2. ~accepted
      BY <1>1, <2>1, AcceptedCases DEF Command
    <3>3. QED
      BY <1>4, <3>1, <3>2 DEF open_transaction
  <2>3. told' \in 400..599
    <3>1. CASE Settle(451)
      BY <3>1 DEF Settle
    <3>2. CASE ReadReply /\ Settle(client_code(Head(in).code))
      BY <2>2, <3>2, ClientCode DEF Settle, ReadReply
    <3>3. ~accepted
      BY <1>1, <2>1, AcceptedCases DEF Command
    <3>4. QED
      BY <1>4, <3>1, <3>2, <3>3 DEF open_transaction
  <2>4. Honest(told')
    BY <2>1, <2>3, RefusalHonest
  <2>5. QED
    BY <1>4, <2>1, <2>2, <2>4 DEF open_transaction, bodyVars
<1>5. CASE write
  <2>1. pc \in {"header", "write", "final"} /\ told = NotYet /\ ~delivered /\ ~TailSent
    BY <1>5 DEF write, BeforeBody, InBody, TailWhole
  <2>2. UNCHANGED <<api, rcpt, given, ended, upstreamVars>>
    BY <1>5 DEF write
  <2>3. CASE ReadReply /\ Settle(client_code(Head(in).code)) /\ UNCHANGED <<last_written, out>>
    <3>1. told' \in 400..599
      BY <1>1, <2>3, ReadType, ClientCode DEF Settle, TypeInv
    <3>2. QED
      BY <2>1, <2>2, <2>3, <3>1, RefusalHonest
  <2>4. CASE Dropped /\ UNCHANGED <<last_written, out, in>>
    <3>1. told' \in {451, Closed}
      BY <2>4 DEF Dropped, Settle
    <3>4. 451 \in {NotYet} \cup 400..599
      OBVIOUS
    <3>2. Honest(451)
      BY <2>1, <3>4, RefusalHonest
    <3>3. QED
      BY <2>1, <2>2, <2>4, <3>1, <3>2, ClosedHonest
  <2>5. CASE \E ends : Push(ends)
    BY <2>5 DEF Push
  <2>6. QED
    BY <1>5, <2>3, <2>4, <2>5 DEF write
<1>6. CASE finish \/ ClientSends
  <2>1. pc \in {"finish", "body"} /\ told = NotYet
    BY <1>6 DEF finish, ClientSends, BeforeBody
  <2>2. told' = Closed /\ SettleFrame
    BY <1>6 DEF finish, ClientSends, Settle, bodyVars
  <2>3. QED
    BY <2>1, <2>2, ClosedHonest
<1>7. CASE verdict
  <2>1. pc = "verdict" /\ told = NotYet /\ SettleFrame
    BY <1>7 DEF verdict, BeforeBody, Settle, Command, bodyVars
  <2>2. CASE Settle(Lost)
    BY <2>1, <2>2, ClosedHonest DEF Settle, Lost
  <2>3. CASE ReadReply /\ Class(Head(in).code) # 2 /\ Settle(client_code(Head(in).code))
    <3>1. told' \in 400..599
      BY <1>1, <2>3, ReadType, ClientCode DEF Settle, TypeInv
    <3>2. in # <<>> /\ Head(in) = in[1] /\ in[1].code # Garbled
      BY <1>1, <2>3, TailOf DEF ReadReply, TypeInv, WireType
    <3>3. ~delivered /\ (TailSent => ustate # "data")
      BY <2>1, <2>3, <3>2 DEF InBody, TailWhole, TailSent, SaidOfBody
    <3>4. QED
      BY <2>1, <3>1, <3>3, RefusalHonest
  <2>4. QED
    BY <1>7, <2>2, <2>3 DEF verdict, Command
<1>8. CASE quit
  <2>1. told = NotYet /\ delivered /\ told' = 250
    BY <1>8 DEF quit, BeforeBody, InBody, Settle
  <2>2. QED
    BY <1>8, <2>1 DEF quit, bodyVars, Honest
<1>9. QED
  BY <1>2, <1>3, <1>4, <1>5, <1>6, <1>7, <1>8 DEF Proxy

\* After the answer nothing is written any more, and what is on its way may still
\* be taken only if the answer allows it.
LEMMA SettledKeeps ==
  ASSUME MessageInv, ConnectInv', pc' = "done", told = NotYet, Honest(told'), SettleFrame
  PROVE  MessageInv'
<1> USE DEF MessageInv, SettleFrame, upstreamVars
<1>1. TailSent' = TailSent
  BY DEF TailSent
<1>2. OutShape'
  BY DEF OutShape
<1>3. BeforeBody' /\ InBody'
  BY DEF BeforeBody, InBody
<1>4. TailWhole'
  <2>1. TailSent /\ ustate = "data" => told' \in {NotYet, Closed}
    BY DEF Honest, TailWhole
  <2>2. QED
    BY <1>1, <2>1 DEF TailWhole, LineBefore
<1>5. DeliveredWhole'
  BY DEF DeliveredWhole, Honest
<1>6. QED
  BY <1>2, <1>3, <1>4, <1>5

-----------------------------------------------------------------------------
(* The proxy's other steps *)

\* While connect is under way, only its own commands are out.
LEMMA ConnectMessage ==
  ASSUME MessageInv, ConnectInv', dial \/ Open \/ upgrade PROVE MessageInv'
<1> USE DEF MessageInv
<1>1. /\ UNCHANGED <<pc, api, rcpt, told, given, ended, last_written>>
      /\ UNCHANGED <<ustate, got, uline, padded, delivered>>
  BY DEF dial, Open, upgrade, bodyVars, upstreamVars
<1>2. pc = "open" /\ ustate = "command" /\ ~delivered
  BY DEF dial, Open, upgrade, ConnectInv, OneAtATime, ConnectSteps, BeforeBody
<1>3. out' \in Seq(Items) /\ step' \in ConnectSteps \cup {"dial", "upgrade", "up", "failed"}
  BY DEF ConnectInv, TypeInv, WireType, ConnectType
<1>4. Len(out') <= 1
  <2>1. CASE step' = "failed"
    <3>1. out' = out
      BY <2>1 DEF dial, Open, upgrade, Ask, ConnectFails, open, want_tls
    <3>2. QED
      BY <1>2, <3>1 DEF OutShape
  <2>2. CASE step' # "failed"
    <3>1. out' = <<>> \/ Len(out') = 1
      BY <1>1, <1>2, <1>3, <2>2 DEF ConnectInv, OneAtATime, Waits
    <3>2. QED
      BY <1>3, <3>1, EmptyOf
  <2>3. QED
    BY <2>1, <2>2
<1>5. \A i \in DOMAIN out' : out'[i].what \in ConnectSteps
  <2>1. CASE step' = "up"
    <3>1. out' = <<>>
      BY <1>1, <1>2, <2>1 DEF ConnectInv, OneAtATime
    <3>2. QED
      BY <3>1
  <2>2. CASE step' # "up"
    BY <2>2 DEF ConnectInv, InChannel, Fit
  <2>3. QED
    BY <2>1, <2>2
<1>6. OutShape'
  BY <1>1, <1>2, <1>4, <1>5 DEF OutShape, CommandNames
<1>7. ~TailSent'
  <2>1. out' # <<>> => Len(out') \in DOMAIN out'
    BY <1>3, EmptyOf
  <2>2. QED
    BY <1>5, <2>1 DEF TailSent, ConnectSteps, TailNames
<1>8. BeforeBody' /\ InBody' /\ DeliveredWhole'
  BY <1>1, <1>2 DEF BeforeBody, InBody, DeliveredWhole
<1>9. QED
  BY <1>6, <1>7, <1>8 DEF TailWhole

\* A command of the transaction is the only thing under way.
LEMMA OneCommand ==
  ASSUME ConnectInv', out = <<>>, in' = <<>>, ustate' = "command",
         NEW cmd \in {"MAIL", "RCPT", "DATA", "QUIT"}, NEW params,
         out' = Append(out, Item(cmd, tls, params))
  PROVE  /\ Len(out') = 1 /\ out'[1].what = cmd /\ DOMAIN out' = 1..1
         /\ Waits(cmd)' /\ OutShape' /\ ~TailSent'
<1>1. \A e : Len(Append(out, e)) = 1 /\ Append(out, e)[1] = e
  BY FirstOf
<1>2. Len(out') = 1 /\ out'[1] = Item(cmd, tls, params)
  BY <1>1
<1>3. out'[1].what = cmd
  BY <1>2 DEF Item
<1>4. DOMAIN out' = 1..1
  BY <1>2, EmptyOf DEF ConnectInv, TypeInv, WireType
<1>5. Waits(cmd)'
  BY <1>2, <1>3 DEF Waits
<1>6. OutShape'
  <2>1. \A i \in DOMAIN out' : out'[i].what \in CommandNames
    BY <1>3, <1>4 DEF CommandNames
  <2>2. QED
    BY <1>2, <2>1 DEF OutShape
<1>7. ~TailSent'
  BY <1>2, <1>3 DEF TailSent, TailNames
<1>8. QED
  BY <1>2, <1>3, <1>4, <1>5, <1>6, <1>7

\* MAIL follows the join.
LEMMA JoinedMessage ==
  ASSUME MessageInv, ConnectInv', Joined, pc' # "done" PROVE MessageInv'
<1> USE DEF MessageInv
<1>1. /\ step = "up" /\ api = "allow" /\ pc' = "MAIL" /\ told' = told
      /\ out' = Append(out, Item("MAIL", tls, dsn_suffix \cup size_suffix))
  BY JoinedCases DEF Settle, ConnectInv
<1>2. /\ UNCHANGED <<api, rcpt, last_written, given, ended, in>>
      /\ UNCHANGED <<ustate, got, uline, padded, delivered>>
  BY DEF Joined, bodyVars, upstreamVars
<1>3. pc = "open" /\ out = <<>> /\ in = <<>> /\ ustate = "command"
  BY <1>1 DEF Joined, ConnectInv, OneAtATime
<1>4. Waits("MAIL")' /\ OutShape' /\ ~TailSent'
  BY <1>1, <1>2, <1>3, OneCommand
<1>5. BeforeBody'
  BY <1>1, <1>2, <1>3, <1>4 DEF BeforeBody
<1>6. InBody' /\ TailWhole' /\ DeliveredWhole'
  BY <1>1, <1>2, <1>3, <1>4 DEF InBody, TailWhole, DeliveredWhole, BeforeBody
<1>7. QED
  BY <1>4, <1>5, <1>6

\* Each command of the transaction follows the answer to the last, and the body
\* follows a 3xx: by then the upstream is taking one.
LEMMA TransactionMessage ==
  ASSUME MessageInv, ConnectInv', open_transaction, pc' # "done" PROVE MessageInv'
<1> USE DEF MessageInv
<1>1. TypeInv /\ in \in Seq(Replies) /\ out \in Seq(Items)
  BY DEF ConnectInv, TypeInv, WireType
<1>2. /\ UNCHANGED <<api, ustate, got, uline, padded, delivered>>
      /\ pc \in {"MAIL", "RCPT", "DATA"}
  BY DEF open_transaction, upstreamVars
<1>3. /\ in # <<>> /\ in' = Tail(in) /\ accepted
      /\ Class(Head(in).code) = (IF pc = "DATA" THEN 3 ELSE 2)
  BY DEF open_transaction, ReadReply, Settle
<1>4. /\ Head(in) = in[1] /\ Tail(in) \in Seq(Replies) /\ Len(in) \in Nat \ {0}
      /\ Len(Tail(in)) = Len(in) - 1 /\ \A i \in 1..Len(in) - 1 : Tail(in)[i] = in[i + 1]
  BY <1>1, <1>3, TailOf
<1>5. api = "allow" /\ told = NotYet /\ ~delivered /\ got = 0 /\ given = 0
      /\ last_written = "none" /\ ~ended
  BY <1>2 DEF BeforeBody
<1>6. CASE pc \in {"MAIL", "RCPT"}
  <2>1. out = <<>> /\ Len(in) = 1 /\ ustate = "command"
    BY <1>3, <1>6 DEF BeforeBody, Waits
  <2>2. in' = <<>>
    <3>1. Len(Tail(in)) = 0
      BY <1>4, <2>1
    <3>2. QED
      BY <1>3, <1>4, <3>1, EmptyOf
  <2>3. PICK cmd \in {"RCPT", "DATA"}, params \in {dsn_suffix, {}} :
          Command(cmd, params) /\ UNCHANGED bodyVars /\ (cmd = "DATA" => rcpt' = Rcpts)
    BY <1>1, <1>2, <1>3, <1>6, AcceptedCases
  <2>4. Waits(cmd)' /\ OutShape' /\ ~TailSent' /\ pc' = cmd /\ told' = told
    BY <1>2, <2>1, <2>2, <2>3, OneCommand DEF Command
  <2>5. BeforeBody'
    BY <1>2, <1>5, <2>1, <2>2, <2>3, <2>4 DEF BeforeBody, bodyVars
  <2>6. InBody' /\ TailWhole' /\ DeliveredWhole'
    BY <1>2, <1>5, <2>3, <2>4 DEF InBody, TailWhole, DeliveredWhole
  <2>7. QED
    BY <2>4, <2>5, <2>6
<1>7. CASE pc = "DATA"
  <2>1. pc' = "header" /\ given' = 1 /\ UNCHANGED <<rcpt, last_written, ended, told, out>>
    BY <1>1, <1>2, <1>3, <1>7, AcceptedCases
  <2>2. out = <<>> /\ \/ ustate = "data" /\ Len(in) = 1
                      \/ ustate = "refused" /\ Len(in) = 2 /\ Class(in[2].code) # 2
    BY <1>3, <1>4, <1>7 DEF BeforeBody, Waits
  <2>3. SaidOfBody'
    <3>1. CASE ustate = "data" /\ Len(in) = 1
      <4>1. Len(Tail(in)) = 0
        BY <1>4, <3>1
      <4>2. QED
        BY <1>2, <1>3, <1>4, <3>1, <4>1, EmptyOf DEF SaidOfBody
    <3>2. CASE ustate = "refused" /\ Len(in) = 2 /\ Class(in[2].code) # 2
      <4>3. 1 \in 1..Len(in) - 1 /\ 1 + 1 = 2
        BY <3>2
      <4>4. Tail(in)[1] = in[1 + 1]
        BY <1>4, <4>3
      <4>1. Len(Tail(in)) = 1 /\ Tail(in)[1] = in[2]
        BY <1>4, <3>2, <4>3, <4>4
      <4>2. QED
        BY <1>2, <1>3, <3>2, <4>1 DEF SaidOfBody
    <3>3. QED
      BY <2>2, <3>1, <3>2
  <2>4. out' = <<>> /\ Len(out') = 0 /\ ustate' # "command"
    BY <1>2, <2>1, <2>2
  <2>5. OutShape' /\ ~TailSent'
    BY <2>4 DEF OutShape, TailSent
  <2>6. BeforeBody'
    BY <1>2, <1>5, <2>1 DEF BeforeBody
  <2>7. InBody'
    BY <1>2, <1>5, <1>7, <2>1, <2>3, <2>4 DEF InBody, Written
  <2>8. QED
    BY <1>2, <1>5, <2>5, <2>6, <2>7 DEF TailWhole, DeliveredWhole
<1>8. QED
  BY <1>2, <1>6, <1>7

\* A piece joins the others on their way, and a line begins where it ends one.
LEMMA PushMessage ==
  ASSUME MessageInv, ConnectInv', write, pc' # "done" PROVE MessageInv'
<1> USE DEF MessageInv
<1>1. out \in Seq(Items) /\ out' \in Seq(Items) /\ got \in Nat /\ given \in Nat /\ tls \in BOOLEAN
  BY DEF ConnectInv, TypeInv, WireType, UpstreamType, BodyType, ConnectType
<1>2. /\ pc \in {"header", "write", "final"}
      /\ UNCHANGED <<api, rcpt, given, ended, ustate, got, uline, padded, delivered>>
  BY DEF write, upstreamVars
<1>3. PICK ends \in PieceNames : Push(ends)
  BY DEF write, Settle, Dropped, PieceNames
<1>4. /\ out' = Append(out, Item(ends, tls, {})) /\ last_written' = ends
      /\ pc' = (IF pc = "final" THEN "finish" ELSE "body") /\ UNCHANGED <<told, in>>
  BY <1>3 DEF Push
<1>5. /\ rcpt = Rcpts /\ ustate # "command" /\ SaidOfBody /\ ~delivered /\ api = "allow" /\ told = NotYet
      /\ \A i \in DOMAIN out : out[i].what \in PieceNames
      /\ got + Len(out) = given - 1 /\ (pc = "final" => ended)
  BY <1>2 DEF InBody, BeforeBody, Written
<1>6. /\ Len(out') = Len(out) + 1 /\ out'[Len(out) + 1] = Item(ends, tls, {})
      /\ DOMAIN out' = 1..Len(out) + 1 /\ \A i \in 1..Len(out) : out'[i] = out[i]
      /\ DOMAIN out = 1..Len(out) /\ Len(out) \in Nat /\ out' # <<>>
  <2>1. Item(ends, tls, {}) \in Items
    BY <1>1, ItemType
  <2>2. QED
    BY <1>1, <1>4, <2>1, AppendOf, EmptyOf
<1>7. out'[Len(out')].what = ends
  BY <1>6 DEF Item
<1>8. \A i \in DOMAIN out' : out'[i].what \in PieceNames
  <2>1. \A i \in 1..Len(out) + 1 : i = Len(out) + 1 \/ i \in 1..Len(out)
    BY <1>6
  <2>2. QED
    BY <1>5, <1>6, <1>7, <2>1
<1>9. OutShape' /\ ~TailSent'
  BY <1>2, <1>5, <1>7, <1>8 DEF OutShape, TailSent, TailNames, PieceNames
<1>10. SaidOfBody'
  BY <1>2, <1>4, <1>5 DEF SaidOfBody
<1>11. LineBefore(Len(out))' <=> last_written' = "line"
  BY <1>4, <1>6, <1>7 DEF LineBefore
<1>12. InBody'
  <2>1. pc' \in {"body", "finish"} /\ (pc' = "finish" => ended')
    BY <1>2, <1>4, <1>5
  <2>2. got' + Len(out') = given'
    BY <1>1, <1>2, <1>5, <1>6
  <2>3. last_written' # "none"
    BY <1>4 DEF PieceNames
  <2>4. QED
    BY <1>2, <1>5, <1>8, <1>10, <1>11, <2>1, <2>2, <2>3 DEF InBody, Written
<1>13. BeforeBody'
  BY <1>2, <1>4, <1>5 DEF BeforeBody
<1>14. QED
  BY <1>2, <1>5, <1>9, <1>12, <1>13 DEF TailWhole, DeliveredWhole

\* The terminator goes out after every piece, and begins a line of its own.
LEMMA FinishMessage ==
  ASSUME MessageInv, ConnectInv', finish, pc' # "done" PROVE MessageInv'
<1> USE DEF MessageInv
<1>1. /\ out \in Seq(Items) /\ out' \in Seq(Items) /\ got \in Nat /\ given \in Nat
      /\ tls \in BOOLEAN
  BY DEF ConnectInv, TypeInv, WireType, UpstreamType, BodyType, ConnectType
<1>2. /\ pc = "finish" /\ pc' = "verdict" /\ out' = Append(out, Item(tail, tls, {}))
      /\ UNCHANGED <<api, rcpt, given, ended, last_written, in, told>>
      /\ UNCHANGED <<ustate, got, uline, padded, delivered>>
  BY DEF finish, Settle, bodyVars, upstreamVars
<1>3. /\ rcpt = Rcpts /\ ustate # "command" /\ SaidOfBody /\ ~delivered /\ api = "allow" /\ told = NotYet
      /\ \A i \in DOMAIN out : out[i].what \in PieceNames
      /\ got + Len(out) = given /\ ended
      /\ LineBefore(Len(out)) <=> last_written = "line"
  BY <1>2 DEF InBody, BeforeBody, Written
<1>4. tail \in TailNames /\ (tail = "end" <=> last_written = "line")
  BY DEF tail, TailNames
<1>5. /\ Len(out') = Len(out) + 1 /\ out'[Len(out) + 1] = Item(tail, tls, {})
      /\ DOMAIN out' = 1..Len(out) + 1 /\ \A i \in 1..Len(out) : out'[i] = out[i]
      /\ DOMAIN out = 1..Len(out) /\ Len(out) \in Nat /\ out' # <<>>
  <2>1. Item(tail, tls, {}) \in Items
    BY <1>1, <1>4, ItemType
  <2>2. QED
    BY <1>1, <1>2, <2>1, AppendOf, EmptyOf
<1>6. out'[Len(out')].what = tail
  BY <1>5 DEF Item
<1>7. TailSent'
  BY <1>4, <1>5, <1>6 DEF TailSent
<1>8. OutShape'
  <2>1. \A i \in 1..Len(out) + 1 : i = Len(out') \/ i \in 1..Len(out)
    BY <1>5
  <2>2. \A i \in DOMAIN out' : out'[i].what \in PieceNames \/ (i = Len(out') /\ out'[i].what \in TailNames)
    BY <1>3, <1>4, <1>5, <1>6, <2>1
  <2>3. QED
    BY <1>2, <1>3, <2>2 DEF OutShape
<1>9. LineBefore(Len(out) - 1)' <=> LineBefore(Len(out))
  <2>1. Len(out') - 1 = Len(out) /\ (Len(out) # 0 => Len(out) \in 1..Len(out))
    BY <1>5
  <2>2. QED
    BY <1>2, <1>5, <2>1 DEF LineBefore
<1>10. SaidOfBody'
  BY <1>2, <1>3 DEF SaidOfBody
<1>11. TailWhole'
  <2>1. got' + Len(out') = given' + 1
    BY <1>1, <1>2, <1>3, <1>5
  <2>2. QED
    BY <1>2, <1>3, <1>4, <1>6, <1>9, <2>1 DEF TailWhole
<1>12. InBody' /\ BeforeBody'
  BY <1>2, <1>3, <1>7, <1>10 DEF InBody, BeforeBody
<1>13. QED
  BY <1>2, <1>3, <1>8, <1>11, <1>12 DEF DeliveredWhole

\* A 2xx to the terminator is the upstream taking the message.
LEMMA VerdictMessage ==
  ASSUME MessageInv, ConnectInv', verdict, pc' # "done" PROVE MessageInv'
<1> USE DEF MessageInv
<1>1. in \in Seq(Replies)
  BY DEF ConnectInv, TypeInv, WireType
<1>2. /\ pc = "verdict" /\ in # <<>> /\ in' = Tail(in) /\ Class(Head(in).code) = 2
      /\ Command("QUIT", {})
      /\ UNCHANGED <<api, rcpt, given, ended, last_written>>
      /\ UNCHANGED <<ustate, got, uline, padded, delivered>>
  BY DEF verdict, ReadReply, Settle, bodyVars, upstreamVars
<1>3. Head(in) = in[1] /\ Len(Tail(in)) = Len(in) - 1 /\ Tail(in) \in Seq(Replies)
  BY <1>1, <1>2, TailOf
<1>4. out = <<>> /\ ustate = "command" /\ Len(in) = 1 /\ delivered
  BY <1>2, <1>3 DEF InBody, SaidOfBody, TailWhole, TailSent, ConnectInv, TypeInv, UpstreamType
<1>5. in' = <<>>
  <2>1. Len(Tail(in)) = 0
    BY <1>3, <1>4
  <2>2. QED
    BY <1>2, <1>3, <2>1, EmptyOf
<1>6. /\ out'[1].what = "QUIT" /\ DOMAIN out' = 1..1 /\ OutShape' /\ ~TailSent'
      /\ pc' = "QUIT" /\ told' = told
  BY <1>2, <1>4, <1>5, OneCommand DEF Command
<1>7. \A i \in DOMAIN out' : out'[i].what = "QUIT"
  BY <1>6
<1>8. BeforeBody' /\ InBody'
  BY <1>2, <1>4, <1>6 DEF BeforeBody, InBody
<1>9. QED
  BY <1>2, <1>4, <1>6, <1>7, <1>8 DEF TailWhole, DeliveredWhole

\* The client's further pieces, and its terminator.
LEMMA ClientMessage ==
  ASSUME MessageInv, ConnectInv', ClientSends, pc' # "done" PROVE MessageInv'
<1> USE DEF MessageInv
<1>1. /\ UNCHANGED <<api, rcpt, last_written, out, in>>
      /\ UNCHANGED <<ustate, got, uline, padded, delivered>>
  BY DEF ClientSends, upstreamVars
<1>2. /\ pc = "body" /\ told' = told
      /\ \/ pc' = "write" /\ given' = given + 1 /\ ended' = ended
         \/ pc' = "final" /\ given' = given + 1 /\ ended'
         \/ pc' = "finish" /\ given' = given /\ ended'
  BY DEF ClientSends, Settle
<1>3. given \in Nat /\ given + 1 - 1 = given
  BY DEF ConnectInv, TypeInv, BodyType
<1>4. OutShape' /\ ~TailSent'
  BY <1>1, <1>2 DEF OutShape, TailSent, TailWhole
<1>5. BeforeBody'
  BY <1>1, <1>2 DEF BeforeBody
<1>6. Written' = Written
  BY <1>2, <1>3 DEF Written
<1>7. SaidOfBody' = SaidOfBody /\ LineBefore(Len(out))' = LineBefore(Len(out))
  BY <1>1 DEF SaidOfBody, LineBefore
<1>8. InBody'
  BY <1>1, <1>2, <1>6, <1>7 DEF InBody
<1>9. QED
  BY <1>1, <1>2, <1>4, <1>5, <1>8 DEF TailWhole, DeliveredWhole, InBody

\* The API answers before anything is out, or after the answer to the client.
LEMMA ApiMessage ==
  ASSUME MessageInv, ConnectInv', ApiAnswers PROVE MessageInv'
<1> USE DEF MessageInv
<1>1. /\ UNCHANGED <<pc, rcpt, last_written, given, ended, told, out, in>>
      /\ UNCHANGED <<ustate, got, uline, padded, delivered>> /\ api = "asking"
  BY DEF ApiAnswers, bodyVars, upstreamVars
<1>2. pc \in {"open", "done"} /\ ~TailSent /\ ~delivered
  BY <1>1 DEF BeforeBody, TailWhole, DeliveredWhole, ConnectInv, TypeInv, ProxyType
<1>3. OutShape' /\ ~TailSent'
  BY <1>1, <1>2 DEF OutShape, TailSent
<1>4. BeforeBody' /\ InBody'
  BY <1>1, <1>2 DEF BeforeBody, InBody
<1>5. QED
  BY <1>1, <1>2, <1>3, <1>4 DEF TailWhole, DeliveredWhole

-----------------------------------------------------------------------------
(* The upstream's steps *)

\* A command is answered: only the DATA of a transaction that still stands, or of
\* one its proxy has given up, opens a body.
LEMMA AnswersMessage ==
  ASSUME MessageInv, ConnectInv', UpstreamAnswers PROVE MessageInv'
<1> USE DEF MessageInv
<1>1. /\ UNCHANGED <<pc, api, rcpt, told, given, ended, last_written, got, uline, padded, delivered>>
  BY DEF UpstreamAnswers, proxyVars, bodyVars
<1>2. /\ out # <<>> /\ out' = Tail(out) /\ ustate = "command" /\ ConnectInv
      /\ out \in Seq(Items) /\ in \in Seq(Replies)
  BY DEF UpstreamAnswers, ConnectInv, TypeInv, WireType
<1>3. Len(out) = 1 /\ out' = <<>> /\ Len(out') = 0 /\ 1 \in DOMAIN out
  <2>4. Len(out) \in Nat \ {0} /\ DOMAIN out = 1..Len(out)
    BY <1>2, TailOf, EmptyOf
  <2>5. Len(out) <= 1
    BY <1>2 DEF OutShape
  <2>1. Len(out) = 1 /\ DOMAIN out = 1..Len(out)
    BY <2>4, <2>5
  <2>2. Tail(out) \in Seq(Items) /\ Len(Tail(out)) = 0
    BY <1>2, <2>1, TailOf
  <2>3. QED
    BY <1>2, <2>1, <2>2, EmptyOf
<1>4. OutShape' /\ ~TailSent'
  BY <1>3 DEF OutShape, TailSent
<1>5. PICK code \in Codes :
        /\ ustate' = IF out[1].what = "DATA" /\ Class(code) = 3 THEN "data" ELSE ustate
        /\ out[1].what \in {"MAIL", "RCPT", "DATA", "QUIT"} =>
              in' = Append(in, [code |-> code, exts |-> {}, tls |-> tls])
  BY <1>2, AnswerCases
<1>6. pc = "done" \/ pc \in {"open", "MAIL", "RCPT", "DATA", "QUIT"}
  BY <1>2 DEF ConnectInv, TypeInv, ProxyType, InBody, TailWhole
<1>7. pc = "open" => out[1].what # "DATA"
  BY <1>2, <1>3 DEF ConnectInv, OneAtATime, InChannel, Fit, ConnectSteps
<1>8. delivered => out[1].what = "QUIT"
  BY <1>3 DEF DeliveredWhole
<1>9. pc \in {"MAIL", "RCPT", "DATA"} =>
        /\ in = <<>> /\ out[1].what = pc /\ Len(in') = 1 /\ in'[1].code = code
  <2> SUFFICES ASSUME pc \in {"MAIL", "RCPT", "DATA"}
               PROVE  in = <<>> /\ out[1].what = pc /\ Len(in') = 1 /\ in'[1].code = code
    OBVIOUS
  <2>1. in = <<>> /\ out[1].what = pc
    BY <1>2, <1>3 DEF BeforeBody, Waits
  <2>2. in' = Append(<<>>, [code |-> code, exts |-> {}, tls |-> tls])
    BY <1>5, <2>1
  <2>3. \A e : Len(Append(<<>>, e)) = 1 /\ Append(<<>>, e)[1] = e
    BY FirstOf
  <2>4. Len(in') = 1 /\ in'[1] = [code |-> code, exts |-> {}, tls |-> tls]
    BY <2>2, <2>3
  <2>5. QED
    BY <2>1, <2>4
<1>10. pc = "QUIT" => delivered
  BY DEF InBody
<1>11. BeforeBody'
  BY <1>1, <1>2, <1>3, <1>5, <1>9 DEF BeforeBody, Waits
<1>12. InBody'
  BY <1>1, <1>2, <1>5, <1>6, <1>8, <1>10 DEF InBody
<1>13. DeliveredWhole'
  <2>1. \A i \in DOMAIN out' : FALSE
    BY <1>3
  <2>2. QED
    BY <1>1, <1>2, <1>5, <1>8, <2>1 DEF DeliveredWhole
<1>14. QED
  BY <1>4, <1>11, <1>12, <1>13 DEF TailWhole

\* A piece is taken: what was on its way is with the upstream.
LEMMA TakesMessage ==
  ASSUME MessageInv, ConnectInv', UpstreamTakes PROVE MessageInv'
<1> USE DEF MessageInv
<1>1. UNCHANGED <<pc, api, rcpt, told, given, ended, last_written, in, ustate, padded, delivered>>
  BY DEF UpstreamTakes, proxyVars, bodyVars
<1>2. /\ ustate # "command" /\ out # <<>> /\ Head(out).what \in PieceNames /\ out' = Tail(out)
      /\ got' = got + 1 /\ (uline' <=> Head(out).what = "line")
      /\ out \in Seq(Items) /\ got \in Nat
  <2>1. /\ ustate # "command" /\ out # <<>> /\ Head(out).what \in PieceNames /\ out' = Tail(out)
        /\ got' = got + 1 /\ uline' = (Head(out).what = "line")
    BY DEF UpstreamTakes, PieceNames
  <2>2. out \in Seq(Items) /\ got \in Nat
    BY DEF ConnectInv, TypeInv, WireType, UpstreamType
  <2>3. uline' <=> Head(out).what = "line"
    BY <2>1
  <2>4. QED
    BY <2>1, <2>2, <2>3
<1>3. /\ Head(out) = out[1] /\ DOMAIN out = 1..Len(out) /\ DOMAIN out' = 1..Len(out) - 1
      /\ Len(out') = Len(out) - 1 /\ Len(out) \in Nat \ {0} /\ out' \in Seq(Items)
      /\ \A i \in 1..Len(out) - 1 : out'[i] = out[i + 1]
  BY <1>2, TailOf, EmptyOf
<1>4. \A i \in 1..Len(out) - 1 : i + 1 \in 1..Len(out) /\ (i + 1 = Len(out) <=> i = Len(out) - 1)
  BY <1>3
<1>5. ASSUME NEW k \in 0..Len(out) - 1
      PROVE  (IF k = 0 THEN uline' ELSE out'[k].what = "line") <=> out[k + 1].what = "line"
  <2>1. CASE k = 0
    BY <1>2, <1>3, <2>1
  <2>2. CASE k # 0
    <3>1. k \in 1..Len(out) - 1
      BY <1>3, <2>2
    <3>2. QED
      BY <1>3, <2>2, <3>1
  <2>3. QED
    BY <2>1, <2>2
<1>6. OutShape'
  BY <1>1, <1>2, <1>3, <1>4 DEF OutShape
<1>7. got' + Len(out') = got + Len(out)
  BY <1>2, <1>3
<1>8. LineBefore(Len(out))' <=> LineBefore(Len(out))
  <2>1. Len(out) - 1 \in 0..Len(out) - 1 /\ Len(out) - 1 + 1 = Len(out) /\ Len(out) # 0
    BY <1>3
  <2>2. QED
    BY <1>3, <1>5, <2>1 DEF LineBefore
<1>9. SaidOfBody' = SaidOfBody /\ Written' = Written
  BY <1>1 DEF SaidOfBody, Written
<1>10. TailSent' => /\ TailSent /\ Len(out') \in 1..Len(out) - 1 /\ out'[Len(out')] = out[Len(out)]
  <2> SUFFICES ASSUME TailSent'
               PROVE  TailSent /\ Len(out') \in 1..Len(out) - 1 /\ out'[Len(out')] = out[Len(out)]
    OBVIOUS
  <2>1. Len(out') # 0
    BY <1>3, EmptyOf DEF TailSent
  <2>2. Len(out') \in 1..Len(out) - 1 /\ Len(out') + 1 = Len(out)
    BY <1>3, <2>1
  <2>3. out'[Len(out')] = out[Len(out)]
    BY <1>3, <2>2
  <2>4. QED
    BY <1>2, <2>2, <2>3 DEF TailSent
<1>11. TailSent => Len(out) > 1
  <2>1. TailSent => Len(out) # 1
    BY <1>2, <1>3 DEF TailSent, PieceNames, TailNames
  <2>2. QED
    BY <1>3, <2>1
<1>12. TailSent => TailSent'
  <2> SUFFICES ASSUME TailSent PROVE TailSent'
    OBVIOUS
  <2>1. Len(out') \in 1..Len(out) - 1 /\ Len(out') + 1 = Len(out) /\ Len(out') # 0
    BY <1>3, <1>11
  <2>2. out'[Len(out')] = out[Len(out)] /\ out' # <<>>
    BY <1>3, <2>1, EmptyOf
  <2>3. QED
    BY <2>2 DEF TailSent
<1>13. TailWhole'
  <2> SUFFICES ASSUME TailSent' PROVE TailWhole'
    BY DEF TailWhole
  <2>1. TailSent /\ out'[Len(out')] = out[Len(out)] /\ Len(out) > 1
    BY <1>10, <1>11
  <2>2. LineBefore(Len(out) - 1)' <=> LineBefore(Len(out) - 1)
    <3>1. /\ Len(out') - 1 \in 0..Len(out) - 1 /\ Len(out') - 1 + 1 = Len(out) - 1 /\ Len(out) - 1 # 0
      BY <1>3, <2>1
    <3>2. QED
      BY <1>5, <3>1 DEF LineBefore
  <2>3. QED
    BY <1>1, <1>7, <2>1, <2>2 DEF TailWhole
<1>14. BeforeBody'
  <2>1. pc \notin {"open", "MAIL", "RCPT", "DATA"}
    BY <1>2 DEF BeforeBody, ConnectInv, OneAtATime, Waits
  <2>2. QED
    BY <1>1, <2>1 DEF BeforeBody
<1>15. InBody'
  <2>1. pc # "header" /\ pc # "QUIT"
    BY <1>2 DEF InBody
  <2>2. (\A i \in DOMAIN out : out[i].what \in PieceNames) => \A i \in DOMAIN out' : out'[i].what \in PieceNames
    BY <1>3, <1>4
  <2>3. pc \in {"header", "body", "write", "final", "finish"} => got' + Len(out') = Written'
    BY <1>7, <1>9 DEF InBody
  <2>4. pc = "verdict" => TailSent' /\ SaidOfBody'
    BY <1>2, <1>9, <1>12 DEF InBody
  <2>5. QED
    BY <1>1, <1>8, <1>9, <2>1, <2>2, <2>3, <2>4 DEF InBody
<1>16. DeliveredWhole'
  BY <1>1, <1>2 DEF DeliveredWhole
<1>17. QED
  BY <1>6, <1>13, <1>14, <1>15, <1>16

\* The body ends: what the upstream takes is whole, and nothing is behind it.
LEMMA EndsMessage ==
  ASSUME MessageInv, ConnectInv', UpstreamEnds PROVE MessageInv'
<1> USE DEF MessageInv
<1>1. UNCHANGED <<pc, api, rcpt, told, given, ended, last_written, got, uline>>
  BY DEF UpstreamEnds, proxyVars, bodyVars
<1>2. /\ ustate # "command" /\ ustate' = "command" /\ out # <<>> /\ Head(out).what \in TailNames
      /\ out' = Tail(out) /\ (padded' <=> uline /\ Head(out).what = "CRLF end")
      /\ out \in Seq(Items) /\ got \in Nat /\ given \in Nat
  <2>1. /\ ustate # "command" /\ ustate' = "command" /\ out # <<>> /\ Head(out).what \in TailNames
        /\ out' = Tail(out) /\ padded' = (uline /\ Head(out).what = "CRLF end")
    BY DEF UpstreamEnds, TailNames
  <2>2. out \in Seq(Items) /\ got \in Nat /\ given \in Nat
    BY DEF ConnectInv, TypeInv, WireType, UpstreamType, BodyType
  <2>3. padded' <=> uline /\ Head(out).what = "CRLF end"
    BY <2>1
  <2>4. QED
    BY <2>1, <2>2, <2>3
<1>3. /\ Head(out) = out[1] /\ 1 \in DOMAIN out /\ Len(out) \in Nat \ {0}
      /\ Tail(out) \in Seq(Items) /\ Len(Tail(out)) = Len(out) - 1
  <2>1. /\ Head(out) = out[1] /\ Len(out) \in Nat \ {0} /\ DOMAIN out = 1..Len(out)
        /\ Tail(out) \in Seq(Items) /\ Len(Tail(out)) = Len(out) - 1
    BY <1>2, TailOf, EmptyOf
  <2>2. 1 \in 1..Len(out)
    BY <2>1
  <2>3. QED
    BY <2>1, <2>2
<1>4. Len(out) = 1
  BY <1>2, <1>3 DEF OutShape, PieceNames, TailNames
<1>5. out' = <<>> /\ Len(out') = 0
  <2>1. Len(Tail(out)) = 0
    BY <1>3, <1>4
  <2>2. QED
    BY <1>2, <1>3, <2>1, EmptyOf
<1>6. TailSent
  BY <1>2, <1>3, <1>4 DEF TailSent
<1>7. /\ pc \in {"verdict", "done"} /\ ended /\ rcpt = Rcpts /\ api = "allow" /\ ~delivered
      /\ got = given /\ (uline <=> out[1].what = "end") /\ (ustate = "data" => told \in {NotYet, Closed})
  <2>1. got + 1 = given + 1 /\ (LineBefore(0) <=> out[1].what = "end")
    BY <1>4, <1>6 DEF TailWhole
  <2>4. got \in Nat /\ given \in Nat
    BY <1>2
  <2>2. got = given
    BY <2>1, <2>4
  <2>3. QED
    BY <1>6, <2>1, <2>2 DEF TailWhole, LineBefore
<1>8. ~padded'
  BY <1>2, <1>3, <1>7
<1>9. OutShape' /\ ~TailSent'
  BY <1>5 DEF OutShape, TailSent
<1>10. BeforeBody'
  BY <1>1, <1>7 DEF BeforeBody
<1>11. delivered' => ustate = "data"
  BY <1>7 DEF UpstreamEnds
<1>12. DeliveredWhole'
  <2>1. \A i \in DOMAIN out' : FALSE
    BY <1>5
  <2>2. QED
    BY <1>1, <1>2, <1>7, <1>8, <1>11, <2>1 DEF DeliveredWhole
<1>13. pc = "verdict" => /\ Len(in') = 1 /\ (Class(in'[1].code) = 2 => delivered')
                         /\ delivered' => Class(in'[1].code) = 2 \/ in'[1].code = Garbled
  <2> SUFFICES ASSUME pc = "verdict"
               PROVE  /\ Len(in') = 1 /\ (Class(in'[1].code) = 2 => delivered')
                      /\ delivered' => Class(in'[1].code) = 2 \/ in'[1].code = Garbled
    OBVIOUS
  <2>1. SaidOfBody
    BY <1>2 DEF InBody
  <2>2. CASE ustate = "refused"
    BY <1>7, <2>1, <2>2 DEF UpstreamEnds, SaidOfBody
  <2>3. CASE ustate # "refused"
    <3>1. in = <<>>
      BY <2>1, <2>3 DEF SaidOfBody, UpstreamEnds
    <3>2. PICK code \in Codes :
            /\ in' = Append(<<>>, [code |-> code, exts |-> {}, tls |-> tls])
            /\ delivered' \in IF code = Garbled THEN BOOLEAN ELSE {Class(code) = 2}
      BY <2>3, <3>1 DEF UpstreamEnds, Answers
    <3>3. \A e : Len(Append(<<>>, e)) = 1 /\ Append(<<>>, e)[1] = e
      BY FirstOf
    <3>4. Len(in') = 1 /\ in'[1] = [code |-> code, exts |-> {}, tls |-> tls]
      BY <3>2, <3>3
    <3>5. Len(in') = 1 /\ in'[1].code = code
      BY <3>4
    <3>6. Class(code) = 2 => code # Garbled
      BY DEF Class, Garbled
    <3>7. QED
      BY <3>2, <3>5, <3>6
  <2>4. QED
    BY <2>2, <2>3
<1>14. InBody'
  BY <1>1, <1>2, <1>5, <1>7, <1>13 DEF InBody
<1>15. QED
  BY <1>9, <1>10, <1>12, <1>14 DEF TailWhole

\* A body is refused before its end: from here on its terminator counts for nothing.
LEMMA RefusesMessage ==
  ASSUME MessageInv, ConnectInv', UpstreamRefusesEarly PROVE MessageInv'
<1> USE DEF MessageInv
<1>1. /\ UNCHANGED <<pc, api, rcpt, told, given, ended, last_written>>
      /\ UNCHANGED <<out, got, uline, padded, delivered>>
      /\ ustate = "data" /\ ustate' = "refused"
  BY DEF UpstreamRefusesEarly, proxyVars, bodyVars
<1>2. PICK code \in Codes :
        Class(code) # 2 /\ in' = Append(in, [code |-> code, exts |-> {}, tls |-> tls])
  BY DEF UpstreamRefusesEarly, Answers
<1>3. in = <<>> => Len(in') = 1 /\ Class(in'[1].code) # 2
  <2> SUFFICES ASSUME in = <<>> PROVE Len(in') = 1 /\ Class(in'[1].code) # 2
    OBVIOUS
  <2>1. \A e : Len(Append(<<>>, e)) = 1 /\ Append(<<>>, e)[1] = e
    BY FirstOf
  <2>2. Len(in') = 1 /\ in'[1] = [code |-> code, exts |-> {}, tls |-> tls]
    BY <1>2, <2>1
  <2>3. QED
    BY <1>2, <2>2
<1>4. Len(in) = 1 => Len(in') = 2 /\ Class(in'[2].code) # 2
  <2> DEFINE r == [code |-> code, exts |-> {}, tls |-> tls]
  <2>1. in \in Seq(Replies) /\ r \in Replies
    BY DEF ConnectInv, TypeInv, WireType, ConnectType, Replies
  <2>2. r.code = code /\ in' = Append(in, r)
    BY <1>2
  <2> HIDE DEF r
  <2>3. Len(Append(in, r)) = Len(in) + 1 /\ Append(in, r)[Len(in) + 1] = r
    BY <2>1, AppendOf
  <2>4. Len(in) = 1 => Len(in') = 2 /\ in'[2] = r
    BY <2>2, <2>3
  <2>5. QED
    BY <1>2, <2>2, <2>4
<1>5. OutShape' /\ TailSent' = TailSent
  BY <1>1 DEF OutShape, TailSent
<1>6. BeforeBody'
  BY <1>1, <1>4 DEF BeforeBody, Waits
<1>7. SaidOfBody => SaidOfBody'
  BY <1>1, <1>3 DEF SaidOfBody
<1>8. InBody'
  BY <1>1, <1>5, <1>7 DEF InBody, Written, LineBefore
<1>9. QED
  BY <1>1, <1>5, <1>6, <1>8 DEF TailWhole, DeliveredWhole, LineBefore

\* The upstream closing its connection changes nothing that was said or written.
LEMMA ClosesMessage ==
  ASSUME MessageInv, ConnectInv', UpstreamCloses \/ UNCHANGED vars PROVE MessageInv'
<1> USE DEF MessageInv
<1>1. /\ UNCHANGED <<pc, api, rcpt, told, given, ended, last_written, out, in>>
      /\ UNCHANGED <<ustate, got, uline, padded, delivered>>
  BY DEF UpstreamCloses, vars, proxyVars, bodyVars, upstreamVars
<1>2. OutShape' /\ BeforeBody'
  BY <1>1 DEF OutShape, BeforeBody, Waits
<1>3. InBody'
  BY <1>1 DEF InBody, SaidOfBody, Written, LineBefore, TailSent
<1>4. TailWhole' /\ DeliveredWhole'
  BY <1>1 DEF TailWhole, TailSent, LineBefore, DeliveredWhole
<1>5. QED
  BY <1>2, <1>3, <1>4

-----------------------------------------------------------------------------
(* The invariant holds *)

LEMMA MessageInit == Init => MessageInv
<1> SUFFICES ASSUME Init PROVE MessageInv
  OBVIOUS
<1>1. out = <<>> /\ in = <<>> /\ pc = "open" /\ ustate = "command" /\ ~delivered
  BY DEF Init
<1>2. OutShape
  BY <1>1 DEF OutShape
<1>3. BeforeBody
  BY <1>1 DEF Init, BeforeBody
<1>4. InBody /\ TailWhole /\ DeliveredWhole
  BY <1>1 DEF InBody, TailWhole, TailSent, DeliveredWhole
<1>5. QED
  BY <1>2, <1>3, <1>4, ConnectInit DEF MessageInv

LEMMA MessageNext == ASSUME MessageInv, [Next]_vars PROVE MessageInv'
<1>1. ConnectInv'
  BY ConnectNext DEF MessageInv
<1>2. CASE (Proxy \/ ClientSends) /\ pc' = "done"
  BY <1>1, <1>2, Settling, SettledKeeps
<1>3. CASE Proxy /\ pc' # "done"
  <2>1. ~quit
    BY <1>3 DEF quit, Settle
  <2>2. QED
    BY <1>1, <1>3, <2>1, ConnectMessage, JoinedMessage, TransactionMessage, PushMessage,
       FinishMessage, VerdictMessage DEF Proxy
<1>4. CASE ClientSends /\ pc' # "done"
  BY <1>1, <1>4, ClientMessage
<1>5. CASE ApiAnswers
  BY <1>1, <1>5, ApiMessage
<1>6. CASE Upstream \/ UNCHANGED vars
  BY <1>1, <1>6, AnswersMessage, TakesMessage, EndsMessage, RefusesMessage, ClosesMessage
     DEF Upstream
<1>7. QED
  BY <1>2, <1>3, <1>4, <1>5, <1>6 DEF Next

\* Every piece of a body is with the upstream or on its way until the terminator
\* is, and a terminator on its way ends the whole message even when its client
\* has been given up (write, finish, and the sink dropped in between).
THEOREM MessageHolds == Spec => []MessageInv
<1>1. MessageInv /\ [Next]_vars => MessageInv'
  BY MessageNext
<1>2. QED
  BY <1>1, MessageInit, PTL DEF Spec

\* For any number of recipients and any length of body, what the upstream takes
\* is the whole message the client finished, to every recipient, allowed by the
\* API, and with no line added (open_transaction, write, finish).
THEOREM WholeMessageHolds == Spec => []WholeMessage
<1>1. MessageInv => WholeMessage
  BY DEF MessageInv, DeliveredWhole, WholeMessage
<1>2. QED
  BY <1>1, MessageHolds, PTL

-----------------------------------------------------------------------------
(* Relay implements Delivery *)

\* The upstream takes a message only while its client has not been refused.
LEMMA EndsPromise ==
  ASSUME MessageInv, UpstreamEnds PROVE [Promise!Next]_(Promise!vars)
<1>1. told' = told /\ delivered \in BOOLEAN /\ delivered' \in BOOLEAN
  <2>1. told' = told
    BY DEF UpstreamEnds, proxyVars
  <2>2. delivered \in BOOLEAN
    BY DEF MessageInv, ConnectInv, TypeInv, UpstreamType
  <2>3. delivered' \in BOOLEAN
    BY <2>2 DEF UpstreamEnds
  <2>4. QED
    BY <2>1, <2>2, <2>3
<1>2. heard' = heard
  BY <1>1 DEF heard
<1>3. CASE delivered' = delivered
  BY <1>2, <1>3 DEF Promise!vars
<1>4. CASE delivered' # delivered
  <2>1. ustate = "data" /\ out # <<>> /\ Head(out).what \in TailNames
    BY <1>4 DEF UpstreamEnds, TailNames
  <2>2. out \in Seq(Items)
    BY DEF MessageInv, ConnectInv, TypeInv, WireType
  <2>3. Head(out) = out[1] /\ 1 \in DOMAIN out
    BY <2>1, <2>2, TailOf, EmptyOf
  <2>4. TailSent
    BY <2>1, <2>3 DEF MessageInv, OutShape, TailSent, TailNames, PieceNames
  <2>5. ~delivered /\ told \in {NotYet, Closed}
    BY <2>1, <2>4 DEF MessageInv, TailWhole
  <2>6. heard \in {"nothing", "closed"}
    BY <2>5 DEF heard, NotYet, Closed
  <2>7. QED
    BY <1>1, <1>2, <1>4, <2>5, <2>6 DEF Promise!Next, Promise!Deliver
<1>5. QED
  BY <1>3, <1>4

\* The client is answered once, and by what is true of its message.
LEMMA SettlePromise ==
  ASSUME MessageInv, Proxy \/ ClientSends, pc' = "done" PROVE [Promise!Next]_(Promise!vars)
<1>1. told = NotYet /\ Honest(told') /\ delivered' = delivered
  BY Settling DEF SettleFrame, upstreamVars
<1>2. heard = "nothing"
  BY <1>1 DEF heard
<1>3. CASE told' = NotYet
  <2>1. heard' = "nothing"
    BY <1>3 DEF heard
  <2>2. QED
    BY <1>1, <1>2, <2>1 DEF Promise!vars
<1>4. CASE told' = Closed
  <2>1. heard' = "closed"
    BY <1>4 DEF heard, NotYet, Closed
  <2>2. QED
    BY <1>1, <1>2, <2>1 DEF Promise!Next, Promise!Close
<1>5. CASE told' = 250
  <2>1. heard' = "accepted" /\ delivered
    BY <1>1, <1>5 DEF heard, NotYet, Closed, Honest
  <2>2. QED
    BY <1>1, <1>2, <2>1 DEF Promise!Next, Promise!Accept
<1>6. CASE told' \in 400..599
  <2>1. heard' = "refused" /\ ~delivered
    BY <1>1, <1>6 DEF heard, NotYet, Closed, Honest
  <2>2. QED
    BY <1>1, <1>2, <2>1 DEF Promise!Next, Promise!Refuse
<1>7. QED
  BY <1>1, <1>3, <1>4, <1>5, <1>6 DEF Honest

\* No other step answers the client or takes the message.
LEMMA OthersPromise ==
  ASSUME MessageInv, [Next]_vars, ~UpstreamEnds,
         ~((Proxy \/ ClientSends) /\ pc' = "done")
  PROVE  UNCHANGED <<told, delivered>>
<1>1. CASE dial \/ Open \/ upgrade
  BY <1>1 DEF dial, Open, upgrade, upstreamVars
<1>2. CASE Joined
  BY <1>2 DEF Proxy, Joined, Settle, upstreamVars
<1>3. CASE open_transaction
  <2>1. pc' # "done" /\ pc \in {"MAIL", "RCPT", "DATA"} /\ delivered' = delivered
    BY <1>3 DEF Proxy, open_transaction, upstreamVars
  <2>2. accepted
    BY <1>3, <2>1 DEF open_transaction, Settle
  <2>3. QED
    BY <2>1, <2>2, AcceptedCases DEF Command, MessageInv, ConnectInv
<1>4. CASE write \/ finish \/ verdict \/ quit
  BY <1>4 DEF Proxy, write, finish, verdict, quit, Push, Dropped, Settle, Command, upstreamVars
<1>5. CASE ClientSends
  BY <1>5 DEF ClientSends, Settle, upstreamVars
<1>6. CASE ApiAnswers
  BY <1>6 DEF ApiAnswers, upstreamVars
<1>7. CASE Upstream
  BY <1>7 DEF Upstream, UpstreamAnswers, UpstreamTakes, UpstreamRefusesEarly, UpstreamCloses,
              proxyVars
<1>8. CASE UNCHANGED vars
  BY <1>8 DEF vars, proxyVars, upstreamVars
<1>9. QED
  BY <1>1, <1>2, <1>3, <1>4, <1>5, <1>6, <1>7, <1>8 DEF Next, Proxy

\* Relay implements Delivery: a client told 250 has its message delivered, a
\* client that is refused never has, not even by a terminator still on its way,
\* and it is answered once, whatever is lost, late or refused (open_body, write,
\* finish, quit).
THEOREM DeliveryKept == Spec => KeepsPromise
<1>1. Init => Promise!Init
  BY DEF Init, Promise!Init, heard, NotYet
<1>2. MessageInv /\ [Next]_vars => [Promise!Next]_(Promise!vars)
  <2> SUFFICES ASSUME MessageInv, [Next]_vars PROVE [Promise!Next]_(Promise!vars)
    OBVIOUS
  <2>1. CASE UpstreamEnds
    BY <2>1, EndsPromise
  <2>2. CASE (Proxy \/ ClientSends) /\ pc' = "done"
    BY <2>2, SettlePromise
  <2>3. CASE ~UpstreamEnds /\ ~((Proxy \/ ClientSends) /\ pc' = "done")
    <3>1. UNCHANGED <<told, delivered>>
      BY <2>3, OthersPromise
    <3>2. QED
      BY <3>1 DEF Promise!vars, heard
  <2>4. QED
    BY <2>1, <2>2, <2>3
<1>3. QED
  BY <1>1, <1>2, MessageHolds, PTL DEF Spec, KeepsPromise, Promise!Spec
=============================================================================
