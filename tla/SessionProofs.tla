--------------------------- MODULE SessionProofs ---------------------------
(***************************************************************************)
(* Theorems about Session, for every configuration, command set and        *)
(* pipeline: its types and guards first; then that the client and the      *)
(* session stay in step.                                                   *)
(***************************************************************************)
EXTENDS Session, FiniteSetTheorems, TLAPS

USE DEF WantGreeting, WantStartTls, WantAuth, WantMail, WantRcpt, WantData

-----------------------------------------------------------------------------
(* What the building blocks of the actions preserve *)

LEMMA Unchanged ==
  /\ SessionType /\ UNCHANGED sessionVars => SessionType'
  /\ DataType /\ UNCHANGED dataVars => DataType'
  /\ HandlerType /\ UNCHANGED handlerVars => HandlerType'
  /\ ClientType /\ UNCHANGED clientVars => ClientType'
BY DEF SessionType, sessionVars, DataType, dataVars, HandlerType, handlerVars,
       ClientType, clientVars

\* next_line takes a line of the buffer and leaves lines.
LEMMA TakeType ==
  ASSUME WireType, NEW l, Take(l)
  PROVE  buf' \in Seq(Lines) /\ Head(buf) \in Lines /\ Arg \in Args /\ l = Head(buf).line
<1>1. buf \in Seq(Lines) /\ buf # <<>>
  BY DEF WireType, Take
<1>2. Head(buf) \in Lines /\ Tail(buf) \in Seq(Lines)
  BY <1>1
<1>3. QED
  BY <1>2 DEF Take, Arg, Lines

\* send() appends a code and goes on to a phase.
LEMMA TellType ==
  ASSUME WireType, NEW code \in Nat, NEW next \in Phases, NEW failed \in Phases,
         Tell(code, next, failed)
  PROVE  replies' \in Seq(Nat) /\ pc' \in {next, failed} /\ pc' \in Phases
<1>1. replies \in Seq(Nat)
  BY DEF WireType
<1>2. Append(replies, code) \in Seq(Nat)
  BY <1>1
<1>3. QED
  BY <1>1, <1>2 DEF Tell

LEMMA AnswerType ==
  ASSUME WireType, NEW code \in Nat, NEW next \in Phases, Answer(code, next)
  PROVE  replies' \in Seq(Nat) /\ pc' \in {next, "Io"} /\ pc' \in Phases
<1>1. "Io" \in Phases
  BY DEF Phases, Ends
<1>2. QED
  BY <1>1, TellType DEF Answer

LEMMA NoneTyped == None \in Args /\ NoEnvelope \in Envelopes /\ Users \subseteq Args
BY DEF Args, Envelopes, NoEnvelope

-----------------------------------------------------------------------------
(* Type correctness *)

LEMMA InitType == Init => TypeOK
<1> SUFFICES ASSUME Init PROVE TypeOK
  OBVIOUS
<1>1. SessionType
  <2>1. tls_active \in BOOLEAN
    BY DEF Init
  <2>2. QED
    BY <2>1, NoneTyped DEF Init, SessionType
<1>2. DataType
  BY ConfigAssumption DEF Init, DataType, ConfigAssumption
<1>3. HandlerType
  BY NoneTyped DEF Init, HandlerType
<1>4. WireType
  <2>1. draining \in BOOLEAN /\ pc \in Phases
    BY DEF Init, Phases
  <2>2. buf \in Seq(Lines) /\ sock \in Seq(Lines) /\ replies \in Seq(Nat)
    BY DEF Init
  <2>3. QED
    BY <2>1, <2>2 DEF WireType
<1>5. ClientType
  <2>1. Message("GREETING") \in Awaited
    BY NoneTyped DEF Message, Words, Awaited
  <2>2. pending \in Seq(Awaited)
    BY <2>1 DEF Init
  <2>3. gone \in BOOLEAN /\ quiet \in BOOLEAN
    BY DEF Init
  <2>4. QED
    BY <2>2, <2>3, NoneTyped DEF Init, ClientType
<1>6. QED
  BY <1>1, <1>2, <1>3, <1>4, <1>5 DEF TypeOK

LEMMA ReadType == TypeOK /\ Read => TypeOK'
<1> SUFFICES ASSUME TypeOK, Read PROVE TypeOK'
  OBVIOUS
<1>1. PICK n \in 1..Len(sock) : buf' = SubSeq(sock, 1, n) /\ sock' = SubSeq(sock, n + 1, Len(sock))
  BY DEF Read
<1>2. sock \in Seq(Lines)
  BY DEF TypeOK, WireType
<1>3. buf' \in Seq(Lines) /\ sock' \in Seq(Lines)
  BY <1>1, <1>2
<1>4. WireType'
  BY <1>3 DEF TypeOK, WireType, Read
<1>5. QED
  BY <1>4, Unchanged DEF TypeOK, Read

LEMMA HangUpType == TypeOK /\ HangUp => TypeOK'
<1> SUFFICES ASSUME TypeOK, HangUp PROVE TypeOK'
  OBVIOUS
<1>1. WireType'
  BY DEF TypeOK, WireType, HangUp, Phases, Ends
<1>2. recipients' \in Nat /\ transaction' \in Envelopes
  BY NoneTyped DEF TypeOK, HangUp, SessionType, HandlerType, start_transaction
<1>3. SessionType' /\ HandlerType'
  BY <1>2 DEF TypeOK, HangUp, SessionType, HandlerType
<1>4. QED
  BY <1>1, <1>3, Unchanged DEF TypeOK, HangUp

LEMMA IdleTimeoutType == TypeOK /\ IdleTimeout => TypeOK'
<1> SUFFICES ASSUME TypeOK, IdleTimeout PROVE TypeOK'
  OBVIOUS
<1>1. WireType'
  BY DEF TypeOK, WireType, IdleTimeout, Phases, Ends
<1>2. QED
  BY <1>1, Unchanged DEF TypeOK, IdleTimeout

\* The write that waits for the client failing: serve() ends.
LEMMA WriteFailsType == TypeOK /\ WriteFails => TypeOK'
<1> SUFFICES ASSUME TypeOK, WriteFails PROVE TypeOK'
  OBVIOUS
<1>1. WireType'
  BY DEF TypeOK, WireType, WriteFails, Phases, Ends
<1>2. QED
  BY <1>1, Unchanged DEF TypeOK, WriteFails

\* Greet and Drained: a reply, and nothing is read.
LEMMA GreetType == TypeOK /\ (Greet \/ Drained) => TypeOK'
<1> SUFFICES ASSUME TypeOK, Greet \/ Drained PROVE TypeOK'
  OBVIOUS
<1>1. "command" \in Phases /\ "Drained" \in Phases
  BY DEF Phases, Ends
<1>2. replies' \in Seq(Nat) /\ pc' \in Phases
  BY <1>1, AnswerType, TellType DEF Greet, Drained, TypeOK
<1>3. WireType'
  BY <1>2 DEF TypeOK, WireType, Greet, Drained
<1>4. QED
  BY <1>3, Unchanged DEF TypeOK, Greet, Drained

\* The buffer after any command is taken.
LEMMA CommandType ==
  ASSUME WireType, NEW l, Command(l)
  PROVE  buf' \in Seq(Lines) /\ Arg \in Args
BY TakeType DEF Command

LEMMA OutOfSequenceType == TypeOK /\ OutOfSequence => TypeOK'
<1> SUFFICES ASSUME TypeOK, NEW line \in Sequenced, Command(line),
                    state' = settle(line),
                    Answer(IF settle(line) \in {WantStartTls, WantAuth} THEN 530 ELSE 503, "command"),
                    UNCHANGED <<tls_active, recipients, login, dataVars, handlerVars, draining,
                                sock, clientVars>>
             PROVE  TypeOK'
  BY DEF OutOfSequence
<1>1. "command" \in Phases
  BY DEF Phases
<1>2. replies' \in Seq(Nat) /\ pc' \in Phases
  BY <1>1, AnswerType DEF TypeOK
<1>3. buf' \in Seq(Lines)
  BY CommandType DEF TypeOK
<1>4. WireType'
  BY <1>2, <1>3 DEF TypeOK, WireType
<1>5. settle(line) \in WantGreeting..WantData
  BY DEF settle, TypeOK, SessionType
<1>6. SessionType'
  BY <1>5 DEF TypeOK, SessionType
<1>7. QED
  BY <1>4, <1>6, Unchanged DEF TypeOK

LEMMA ReplyOnlyType == TypeOK /\ (ReplyOnly \/ LongLine \/ Quit) => TypeOK'
<1> SUFFICES ASSUME TypeOK, ReplyOnly \/ LongLine \/ Quit PROVE TypeOK'
  OBVIOUS
<1>1. {"command", "Closed", "Quit"} \subseteq Phases
  BY DEF Phases, Ends
<1>2. replies' \in Seq(Nat) /\ pc' \in Phases
  BY <1>1, AnswerType, TellType DEF ReplyOnly, LongLine, Quit, TypeOK
<1>3. buf' \in Seq(Lines)
  BY CommandType, TakeType DEF ReplyOnly, LongLine, Quit, TypeOK
<1>4. WireType'
  BY <1>2, <1>3 DEF TypeOK, WireType, ReplyOnly, LongLine, Quit
<1>5. QED
  BY <1>4, Unchanged DEF TypeOK, ReplyOnly, LongLine, Quit

LEMMA RsetType == TypeOK /\ (Rset \/ Greeting) => TypeOK'
<1> SUFFICES ASSUME TypeOK, Rset \/ Greeting PROVE TypeOK'
  OBVIOUS
<1>1. "command" \in Phases
  BY DEF Phases
<1>2. replies' \in Seq(Nat) /\ pc' \in Phases /\ buf' \in Seq(Lines)
  BY <1>1, AnswerType, CommandType DEF Rset, Greeting, TypeOK
<1>3. WireType'
  BY <1>2 DEF TypeOK, WireType, Rset, Greeting
<1>4. recipients' \in Nat /\ transaction' \in Envelopes
  BY NoneTyped DEF TypeOK, SessionType, HandlerType, Rset, Greeting, start_transaction
<1>5. state' \in WantGreeting..WantData
  BY DEF TypeOK, SessionType, Rset, Greeting, RsetState, GreetedState
<1>6. SessionType' /\ HandlerType'
  BY <1>4, <1>5 DEF TypeOK, SessionType, HandlerType, Rset, Greeting
<1>7. QED
  BY <1>3, <1>6, Unchanged DEF TypeOK, Rset, Greeting

LEMMA StartTlsType == TypeOK /\ StartTls => TypeOK'
<1> SUFFICES ASSUME TypeOK, StartTls PROVE TypeOK'
  OBVIOUS
<1>1. "handshake" \in Phases
  BY DEF Phases
<1>2. replies' \in Seq(Nat) /\ pc' \in Phases
  BY <1>1, AnswerType DEF StartTls, TypeOK
<1>3. Tail(buf) \in Seq(Lines) /\ <<>> \in Seq(Lines)
  BY DEF StartTls, TypeOK, WireType
<1>4. buf' \in Seq(Lines)
  BY <1>3 DEF StartTls
<1>5. WireType'
  BY <1>2, <1>4 DEF TypeOK, WireType, StartTls
<1>6. QED
  BY <1>5, Unchanged DEF TypeOK, StartTls

LEMMA HandshakeType == TypeOK /\ (HandshakeFails \/ ClientHandshake) => TypeOK'
<1> SUFFICES ASSUME TypeOK, HandshakeFails \/ ClientHandshake PROVE TypeOK'
  OBVIOUS
<1>1. CASE HandshakeFails
  <2>1. WireType'
    BY <1>1 DEF TypeOK, WireType, HandshakeFails, Phases, Ends
  <2>2. QED
    BY <1>1, <2>1, Unchanged DEF TypeOK, HandshakeFails
<1>2. CASE ClientHandshake
  <2>1. WireType'
    BY <1>2 DEF TypeOK, WireType, ClientHandshake, Phases, Ends
  <2>2. tls_active' \in BOOLEAN
    BY <1>2 DEF TypeOK, SessionType, ClientHandshake
  <2>3. SessionType'
    BY <1>2, <2>2 DEF TypeOK, SessionType, ClientHandshake
  <2>4. ClientType'
    BY <1>2 DEF TypeOK, ClientType, ClientHandshake
  <2>5. QED
    BY <1>2, <2>1, <2>3, <2>4, Unchanged DEF TypeOK, ClientHandshake
<1>3. QED
  BY <1>1, <1>2

LEMMA FinishAuthType ==
  ASSUME TypeOK, NEW cred, finish_auth(cred)
  PROVE  /\ username' \in Users \cup {None} /\ state' \in WantGreeting..WantData
         /\ replies' \in Seq(Nat) /\ pc' \in Phases
<1>1. "command" \in Phases
  BY DEF Phases
<1>2. replies' \in Seq(Nat) /\ pc' \in Phases
  BY <1>1, AnswerType DEF finish_auth, TypeOK
<1>3. QED
  BY <1>2 DEF finish_auth, TypeOK, HandlerType

LEMMA AuthType == TypeOK /\ (Auth \/ AuthToken) => TypeOK'
<1> SUFFICES ASSUME TypeOK, Auth \/ AuthToken PROVE TypeOK'
  OBVIOUS
<1>1. {"command", "plain", "login_user", "login_pass"} \subseteq Phases
  BY DEF Phases, SaslPhases
<1>2. buf' \in Seq(Lines) /\ Arg \in Args
  BY CommandType, TakeType DEF Auth, AuthToken, TypeOK
<1>3. /\ username' \in Users \cup {None} /\ state' \in WantGreeting..WantData
      /\ replies' \in Seq(Nat) /\ pc' \in Phases /\ login' \in Args
  <2>1. CASE Auth
    <3>1. \/ finish_auth(Arg)
          \/ /\ \E code \in {334, 504}, next \in {"plain", "login_user", "command"} :
                   Answer(code, next)
             /\ state' = WantAuth /\ UNCHANGED username
      <4>1. \/ finish_auth(Arg)
            \/ Answer(334, "plain") /\ state' = WantAuth /\ UNCHANGED username
            \/ Answer(334, "login_user") /\ state' = WantAuth /\ UNCHANGED username
            \/ Answer(504, "command") /\ state' = WantAuth /\ UNCHANGED username
        BY <2>1, ZenonT(60) DEF Auth
      <4>2. CASE Answer(334, "plain") /\ state' = WantAuth /\ UNCHANGED username
        BY <4>2
      <4>3. CASE Answer(334, "login_user") /\ state' = WantAuth /\ UNCHANGED username
        BY <4>3
      <4>4. CASE Answer(504, "command") /\ state' = WantAuth /\ UNCHANGED username
        BY <4>4
      <4>5. QED
        BY <4>1, <4>2, <4>3, <4>4
    <3>2. /\ username' \in Users \cup {None} /\ state' \in WantGreeting..WantData
          /\ replies' \in Seq(Nat) /\ pc' \in Phases
      BY <1>1, <3>1, AnswerType, FinishAuthType DEF TypeOK, HandlerType
    <3>3. QED
      BY <2>1, <3>2 DEF Auth, TypeOK, SessionType
  <2>2. CASE AuthToken
    <3>0. \/ \E cred : finish_auth(cred)
          \/ /\ \E code \in {334, 500}, next \in {"login_pass", "command"} :
                   Answer(code, next)
             /\ UNCHANGED <<state, username>>
      <4>1. CASE Head(buf).line = "blank"
        BY <2>2, <4>1 DEF AuthToken
      <4>2. CASE Head(buf).line # "blank" /\ pc = "plain"
        BY <2>2, <4>2 DEF AuthToken
      <4>3. CASE Head(buf).line # "blank" /\ pc = "login_user"
        BY <2>2, <4>3 DEF AuthToken
      <4>4. CASE Head(buf).line # "blank" /\ pc = "login_pass"
        BY <2>2, <4>4 DEF AuthToken
      <4>5. QED
        BY <2>2, <4>1, <4>2, <4>3, <4>4 DEF AuthToken, SaslPhases
    <3>1. /\ username' \in Users \cup {None} /\ state' \in WantGreeting..WantData
          /\ replies' \in Seq(Nat) /\ pc' \in Phases
      BY <1>1, <3>0, AnswerType, FinishAuthType DEF TypeOK, SessionType, HandlerType
    <3>2. login' \in Args
      BY <1>2, <2>2 DEF AuthToken, SaslPhases, TypeOK, SessionType
    <3>3. QED
      BY <3>1, <3>2
  <2>3. QED
    BY <2>1, <2>2
<1>4. WireType'
  BY <1>2, <1>3 DEF TypeOK, WireType, Auth, AuthToken
<1>5. SessionType' /\ HandlerType'
  BY <1>3 DEF TypeOK, SessionType, HandlerType, Auth, AuthToken
<1>6. QED
  BY <1>4, <1>5, Unchanged DEF TypeOK, Auth, AuthToken

LEMMA MailType == TypeOK /\ Mail => TypeOK'
<1> SUFFICES ASSUME TypeOK, Mail PROVE TypeOK'
  OBVIOUS
<1>1. "command" \in Phases
  BY DEF Phases
<1>2. buf' \in Seq(Lines) /\ Arg \in Args
  BY CommandType DEF Mail, TypeOK
<1>3. replies' \in Seq(Nat) /\ pc' \in Phases
  BY <1>1, AnswerType DEF Mail, TypeOK
<1>4. recipients' \in Nat /\ transaction' \in Envelopes /\ state' \in WantGreeting..WantData
  BY <1>2, NoneTyped DEF Mail, TypeOK, SessionType, HandlerType, Envelopes, start_transaction
<1>5. WireType'
  BY <1>2, <1>3 DEF TypeOK, WireType, Mail
<1>6. SessionType' /\ HandlerType'
  BY <1>4 DEF TypeOK, SessionType, HandlerType, Mail
<1>7. QED
  BY <1>5, <1>6, Unchanged DEF TypeOK, Mail

LEMMA RcptType == TypeOK /\ Rcpt => TypeOK'
<1> SUFFICES ASSUME TypeOK, Rcpt PROVE TypeOK'
  OBVIOUS
<1>1. "command" \in Phases
  BY DEF Phases
<1>2. buf' \in Seq(Lines)
  BY CommandType DEF Rcpt, TypeOK
<1>3. replies' \in Seq(Nat) /\ pc' \in Phases
  <2>1. \E code \in {501, 452, 250} : Answer(code, "command")
    BY DEF Rcpt
  <2>2. QED
    BY <1>1, <2>1, AnswerType DEF TypeOK
<1>4. recipients' \in Nat /\ transaction' \in Envelopes /\ state' \in WantGreeting..WantData
  BY DEF Rcpt, TypeOK, SessionType, HandlerType, Envelopes
<1>5. WireType'
  BY <1>2, <1>3 DEF TypeOK, WireType, Rcpt
<1>6. SessionType' /\ HandlerType'
  BY <1>4 DEF TypeOK, SessionType, HandlerType, Rcpt
<1>7. QED
  BY <1>5, <1>6, Unchanged DEF TypeOK, Rcpt

LEMMA DataCommandType == TypeOK /\ Data => TypeOK'
<1> SUFFICES ASSUME TypeOK, Data PROVE TypeOK'
  OBVIOUS
<1>1. "header" \in Phases
  BY DEF Phases, MessagePhases
<1>2. buf' \in Seq(Lines) /\ replies' \in Seq(Nat) /\ pc' \in Phases
  BY <1>1, CommandType, AnswerType DEF Data, TypeOK
<1>3. WireType'
  BY <1>2 DEF TypeOK, WireType, Data
<1>4. DataType'
  BY ConfigAssumption DEF DataType, Data, ConfigAssumption
<1>5. QED
  BY <1>3, <1>4, Unchanged DEF TypeOK, Data

LEMMA HeaderLineType == TypeOK /\ HeaderLine => TypeOK'
<1> SUFFICES ASSUME TypeOK, HeaderLine PROVE TypeOK'
  OBVIOUS
<1>1. {"discard", "open_body", "header"} \subseteq Phases
  BY DEF Phases, MessagePhases
<1>2. buf' \in Seq(Lines)
  BY TakeType DEF HeaderLine, TypeOK
<1>3. pc' \in Phases
  BY <1>1 DEF HeaderLine, Discard
<1>4. WireType'
  BY <1>2, <1>3 DEF TypeOK, WireType, HeaderLine
<1>5. hdrs' \in 0..HeaderCap
  <2>1. \/ UNCHANGED hdrs
        \/ hdrs # HeaderCap /\ hdrs' = hdrs + 1
    BY DEF HeaderLine, HeaderFull, dataVars
  <2>2. QED
    BY <2>1, ConfigAssumption DEF TypeOK, DataType, ConfigAssumption
<1>6. /\ body_follows' \in BOOLEAN /\ at_line_start' \in BOOLEAN
      /\ why' \in {"none", "large", "refused", "mirror"}
  BY DEF TypeOK, DataType, HeaderLine, Discard, dataVars
<1>7. QED
  BY <1>4, <1>5, <1>6, Unchanged DEF TypeOK, DataType, HeaderLine

LEMMA OpenBodyType == TypeOK /\ OpenBody => TypeOK'
<1> SUFFICES ASSUME TypeOK, OpenBody PROVE TypeOK'
  OBVIOUS
<1>1. {"discard", "body", "finish", "command", "Closed"} \subseteq Phases
  BY DEF Phases, MessagePhases, Ends
<1>2. replies' \in Seq(Nat) /\ pc' \in Phases
  BY <1>1, TellType DEF OpenBody, Discard, refuse_data, TypeOK, WireType
<1>3. WireType'
  BY <1>2 DEF TypeOK, WireType, OpenBody
<1>4. \/ UNCHANGED <<at_line_start, why>>
      \/ at_line_start' = TRUE /\ why' = "refused"
  BY Zenon DEF OpenBody, Discard
<1>5. DataType'
  <2>1. UNCHANGED <<hdrs, body_follows>>
    BY Zenon DEF OpenBody
  <2>2. DataType
    BY DEF TypeOK
  <2>3. at_line_start' \in BOOLEAN
    BY <1>4, <2>2 DEF DataType
  <2>4. why' \in {"none", "large", "refused", "mirror"}
    BY <1>4, <2>2 DEF DataType
  <2>5. QED
    BY <2>1, <2>2, <2>3, <2>4 DEF DataType
<1>6. SessionType'
  <2>1. state' \in {state, WantMail}
    BY DEF OpenBody
  <2>2. QED
    BY <2>1 DEF TypeOK, SessionType, OpenBody
<1>7. QED
  BY <1>3, <1>5, <1>6, Unchanged DEF TypeOK, OpenBody

LEMMA BodyLineType == TypeOK /\ BodyLine => TypeOK'
<1> SUFFICES ASSUME TypeOK, BodyLine PROVE TypeOK'
  OBVIOUS
<1>1. {"write", "body", "finish"} \subseteq Phases
  BY DEF Phases, MessagePhases
<1>2. buf' \in Seq(Lines) /\ pc' \in Phases
  BY <1>1, TakeType DEF BodyLine, TypeOK
<1>3. WireType'
  BY <1>2 DEF TypeOK, WireType, BodyLine
<1>4. at_line_start' \in BOOLEAN
  BY DEF TypeOK, DataType, BodyLine
<1>5. DataType'
  BY <1>4 DEF TypeOK, DataType, BodyLine
<1>6. QED
  BY <1>3, <1>5, Unchanged DEF TypeOK, BodyLine

LEMMA WriteType == TypeOK /\ (Write \/ Finish) => TypeOK'
<1> SUFFICES ASSUME TypeOK, Write \/ Finish PROVE TypeOK'
  OBVIOUS
<1>1. {"discard", "body", "command", "Closed"} \subseteq Phases
  BY DEF Phases, MessagePhases, Ends
<1>2. replies' \in Seq(Nat) /\ pc' \in Phases
  BY <1>1, TellType DEF Write, mirror, Finish, conclude, refuse_data, TypeOK, WireType
<1>3. WireType'
  BY <1>2 DEF TypeOK, WireType, Write, mirror, Finish, conclude
<1>4. why' \in {"none", "large", "refused", "mirror"}
  BY DEF TypeOK, DataType, Write, mirror, Finish, conclude, dataVars
<1>5. DataType'
  BY <1>4 DEF TypeOK, DataType, Write, mirror, Finish, conclude, dataVars
<1>6. SessionType'
  BY DEF TypeOK, SessionType, Write, mirror, Finish, conclude
<1>7. QED
  BY <1>3, <1>5, <1>6, Unchanged DEF TypeOK, Write, mirror, Finish, conclude

LEMMA DiscardLineType == TypeOK /\ DiscardLine => TypeOK'
<1> SUFFICES ASSUME TypeOK, DiscardLine PROVE TypeOK'
  OBVIOUS
<1>1. {"discard", "command", "Closed"} \subseteq Phases
  BY DEF Phases, Ends
<1>2. buf' \in Seq(Lines)
  BY TakeType DEF DiscardLine, TypeOK
<1>3. replies' \in Seq(Nat) /\ pc' \in Phases
  <2>1. \/ \E code \in {552, 550} : Tell(code, "command", "Closed")
        \/ pc' \in {pc, "command"} /\ UNCHANGED replies
    <3>1. CASE AtTerminator
      <4>1. TerminatorReply
        BY <3>1 DEF DiscardLine
      <4>2. QED
        BY <4>1 DEF TerminatorReply, refuse_data
    <3>2. CASE ~AtTerminator
      BY <3>2 DEF DiscardLine
    <3>3. QED
      BY <3>1, <3>2
  <2>2. QED
    BY <1>1, <2>1, TellType DEF TypeOK, WireType
<1>4. WireType'
  BY <1>2, <1>3 DEF TypeOK, WireType, DiscardLine
<1>5. at_line_start' \in BOOLEAN
  BY DEF TypeOK, DataType, DiscardLine
<1>6. DataType'
  BY <1>5 DEF TypeOK, DataType, DiscardLine
<1>7. recipients' \in Nat /\ transaction' \in Envelopes /\ state' \in WantGreeting..WantData
  BY NoneTyped DEF TypeOK, SessionType, HandlerType, DiscardLine, start_transaction
<1>8. SessionType' /\ HandlerType'
  BY <1>7 DEF TypeOK, SessionType, HandlerType, DiscardLine
<1>9. QED
  BY <1>4, <1>6, <1>8, Unchanged DEF TypeOK, DiscardLine

\* An action of the client or of the shutdown leaves the session alone.
LEMMA ServerUnchanged ==
  TypeOK /\ UNCHANGED serverVars =>
    /\ SessionType' /\ DataType' /\ HandlerType'
    /\ pc' \in Phases /\ buf' \in Seq(Lines)
BY Unchanged DEF TypeOK, WireType, serverVars

\* What the client puts on the wire is a line.
LEMMA PutsType ==
  ASSUME TypeOK, NEW line \in Words, NEW arg \in Args,
         NEW role \in {"cmd", "auth", "text", "end"}, Puts(line, arg, role)
  PROVE  sock' \in Seq(Lines)
<1>1. tls_active \in BOOLEAN /\ sock \in Seq(Lines)
  BY DEF TypeOK, SessionType, WireType
<1>2. [line |-> line, arg |-> arg, role |-> role, tls |-> tls_active] \in Lines
  BY <1>1 DEF Lines
<1>3. QED
  BY <1>1, <1>2 DEF Puts

LEMMA DrainBeginsType == TypeOK /\ DrainBegins => TypeOK'
<1> SUFFICES ASSUME TypeOK, DrainBegins PROVE TypeOK'
  OBVIOUS
<1>1. WireType'
  BY ServerUnchanged DEF TypeOK, WireType, DrainBegins
<1>2. QED
  BY <1>1, ServerUnchanged, Unchanged DEF TypeOK, DrainBegins

LEMMA ClientCommandType == TypeOK /\ ClientCommand => TypeOK'
<1> SUFFICES ASSUME TypeOK, ClientCommand PROVE TypeOK'
  OBVIOUS
<1>1. PICK c \in Commands : /\ Puts(c.line, c.arg, "cmd") /\ pending' = Append(pending, c)
                            /\ cphase' \in {"wait", "done", "cmd"}
  BY DEF ClientCommand
<1>2. c \in Awaited
  BY NamesAssumption DEF NamesAssumption
<1>3. c.line \in Words /\ c.arg \in Args
  BY <1>2 DEF Awaited
<1>4. sock' \in Seq(Lines)
  BY <1>1, <1>3, PutsType
<1>5. WireType'
  BY <1>4, ServerUnchanged DEF TypeOK, WireType, ClientCommand
<1>6. pending' \in Seq(Awaited)
  BY <1>1, <1>2 DEF TypeOK, ClientType
<1>7. ClientType'
  BY <1>1, <1>6 DEF TypeOK, ClientType, ClientCommand
<1>8. QED
  BY <1>5, <1>7, ServerUnchanged DEF TypeOK, ClientCommand

LEMMA ClientTokenType == TypeOK /\ ClientToken => TypeOK'
<1> SUFFICES ASSUME TypeOK, ClientToken PROVE TypeOK'
  OBVIOUS
<1>1. \E line \in Words, arg \in Args : Puts(line, arg, "auth")
  BY DEF ClientToken, Words, Args
<1>2. sock' \in Seq(Lines)
  BY <1>1, PutsType
<1>3. WireType'
  BY <1>2, ServerUnchanged DEF TypeOK, WireType, ClientToken
<1>4. Message("TOKEN") \in Awaited
  BY NoneTyped DEF Message, Words, Awaited
<1>5. pending' \in Seq(Awaited) /\ cphase' \in {"wait", "done"}
  BY <1>4 DEF TypeOK, ClientType, ClientToken
<1>6. ClientType'
  BY <1>5 DEF TypeOK, ClientType, ClientToken
<1>7. QED
  BY <1>3, <1>6, ServerUnchanged DEF TypeOK, ClientToken

LEMMA ClientTextType == TypeOK /\ ClientText => TypeOK'
<1> SUFFICES ASSUME TypeOK, ClientText PROVE TypeOK'
  OBVIOUS
<1>1. \E line \in Words, role \in {"text", "end"} : Puts(line, None, role)
  BY DEF ClientText, Words
<1>2. sock' \in Seq(Lines)
  BY <1>1, NoneTyped, PutsType
<1>3. WireType'
  BY <1>2, ServerUnchanged DEF TypeOK, WireType, ClientText
<1>4. ClientType'
  BY DEF TypeOK, ClientType, ClientText
<1>5. QED
  BY <1>3, <1>4, ServerUnchanged DEF TypeOK, ClientText

LEMMA ClientReadsType == TypeOK /\ ClientReads => TypeOK'
<1> SUFFICES ASSUME TypeOK, ClientReads PROVE TypeOK'
  OBVIOUS
<1> DEFINE r == Head(replies)
           c == Head(pending)
<1>1. replies \in Seq(Nat) /\ replies # <<>> /\ pending \in Seq(Awaited) /\ pending # <<>>
  BY DEF TypeOK, WireType, ClientType, ClientReads
<1>2. Tail(replies) \in Seq(Nat) /\ Tail(pending) \in Seq(Awaited) /\ c \in Awaited
  BY <1>1
<1>3. WireType'
  BY <1>2, ServerUnchanged DEF TypeOK, WireType, ClientReads
<1>4. mine' \in Envelopes
  <2>1. c.arg \in Args
    BY <1>2 DEF Awaited
  <2>2. mine \in Envelopes
    BY DEF TypeOK, ClientType
  <2>3. /\ [from |-> c.arg, rcpts |-> 0] \in Envelopes
        /\ [mine EXCEPT !.rcpts = @ + 1] \in Envelopes
    BY <2>1, <2>2 DEF Envelopes
  <2>4. Envelope(mine, c, r) \in Envelopes
    BY <2>2, <2>3, NoneTyped DEF Envelope
  <2>5. QED
    BY <2>4 DEF ClientReads
<1>5. pending' \in Seq(Awaited)
  <2>1. Message("MESSAGE") \in Awaited
    BY NoneTyped DEF Message, Words, Awaited
  <2>2. <<Message("MESSAGE")>> \in Seq(Awaited) /\ <<>> \in Seq(Awaited)
    BY <2>1
  <2>3. pending' \in {<<Message("MESSAGE")>>, <<>>, Tail(pending)}
    BY DEF ClientReads
  <2>4. QED
    BY <1>2, <2>2, <2>3
<1>6. cphase' \in {"done", "data", "auth", "hello", "cmd", cphase}
  BY DEF ClientReads
<1>7. ClientType'
  BY <1>4, <1>5, <1>6 DEF TypeOK, ClientType, ClientReads
<1>8. QED
  BY <1>3, <1>7, ServerUnchanged DEF TypeOK, ClientReads

LEMMA ClientLeavesType == TypeOK /\ (ClientHangsUp \/ ClientFallsSilent) => TypeOK'
<1> SUFFICES ASSUME TypeOK, ClientHangsUp \/ ClientFallsSilent PROVE TypeOK'
  OBVIOUS
<1>1. WireType'
  BY ServerUnchanged DEF TypeOK, WireType, ClientHangsUp, ClientFallsSilent
<1>2. gone' \in BOOLEAN /\ quiet' \in BOOLEAN
  BY DEF TypeOK, ClientType, ClientHangsUp, ClientFallsSilent
<1>3. ClientType'
  BY <1>2 DEF TypeOK, ClientType, ClientHangsUp, ClientFallsSilent
<1>4. QED
  BY <1>1, <1>3, ServerUnchanged DEF TypeOK, ClientHangsUp, ClientFallsSilent

LEMMA StutterType == TypeOK /\ UNCHANGED vars => TypeOK'
<1> SUFFICES ASSUME TypeOK, UNCHANGED vars PROVE TypeOK'
  OBVIOUS
<1>1. WireType'
  BY DEF TypeOK, WireType, vars, serverVars
<1>2. QED
  BY <1>1, ServerUnchanged, Unchanged DEF TypeOK, vars

\* Every variable keeps its type; in particular no header block grows past
\* its cap, and every phase is one serve() knows.
THEOREM TypeCorrect == Spec => []TypeOK
<1>1. Init => TypeOK
  BY InitType
<1>2. TypeOK /\ [Next]_vars => TypeOK'
  BY ReadType, HangUpType, IdleTimeoutType, GreetType, OutOfSequenceType, ReplyOnlyType,
     RsetType, StartTlsType, HandshakeType, AuthType, MailType, RcptType, DataCommandType,
     HeaderLineType, OpenBodyType, BodyLineType, WriteType, DiscardLineType,
     DrainBeginsType, ClientCommandType, ClientTokenType, ClientTextType, ClientReadsType,
     ClientLeavesType, WriteFailsType, StutterType
     DEF Next, Proceed, Serve, Client
<1>3. QED
  BY <1>1, <1>2, PTL DEF Spec

-----------------------------------------------------------------------------
(* The gate: what State stands for *)

\* The inductive invariant.
GateInv == TypeOK /\ Sequencing /\ RecipientsInStep

USE DEF SaslPhases, MessagePhases, Ends

LEMMA GateInit == Init => GateInv
<1> SUFFICES ASSUME Init PROVE GateInv
  OBVIOUS
<1>1. Sequencing
  BY DEF Init, Sequencing
<1>2. RecipientsInStep
  BY ConfigAssumption DEF Init, RecipientsInStep, NoEnvelope, ConfigAssumption
<1>3. QED
  BY <1>1, <1>2, InitType DEF GateInv

\* A step that leaves the gate's variables alone, or only ends the session.
LEMMA GateIdle ==
  ASSUME GateInv, UNCHANGED <<state, tls_active, username, transaction, recipients>>,
         \/ UNCHANGED pc
         \/ pc' \in Ends
         \/ pc' = "command" /\ pc \notin Ends
         \/ {pc, pc'} \subseteq MessagePhases
         \/ pc' = "discard" /\ pc \in MessagePhases
  PROVE  Sequencing' /\ RecipientsInStep'
BY DEF GateInv, Sequencing, RecipientsInStep, Ends

LEMMA GateRsetGreeting ==
  ASSUME GateInv, Rset \/ Greeting PROVE Sequencing' /\ RecipientsInStep'
<1>1. pc = "command" /\ pc' \in {"command", "Io"}
  BY DEF Rset, Greeting, Command, Answer, Tell
<1>2. state \in WantGreeting..WantData
  BY DEF GateInv, TypeOK, SessionType
<1>3. \/ recipients' = 0 /\ transaction' = NoEnvelope
      \/ state < WantMail /\ UNCHANGED <<recipients, transaction>>
  BY <1>2 DEF Rset, Greeting, start_transaction
<1>4. RecipientsInStep'
  BY <1>3, ConfigAssumption DEF GateInv, RecipientsInStep, NoEnvelope, ConfigAssumption
<1>5. UNCHANGED <<tls_active, username>>
  BY DEF Rset, Greeting
<1>6. /\ state' \in WantGreeting..WantMail
      /\ state' >= WantMail <=> state >= WantMail
      /\ state' >= WantAuth => state >= WantAuth \/ tls_active
  BY <1>2 DEF Rset, Greeting, RsetState, GreetedState
<1>7. Sequencing'
  BY <1>1, <1>2, <1>3, <1>5, <1>6 DEF GateInv, Sequencing
<1>8. QED
  BY <1>4, <1>7

\* A command that is handed on to a later state leaves nothing behind that the
\* configuration insists on.
LEMMA SettleStep ==
  ASSUME GateInv, NEW line,
         state' = settle(line), pc = "command", pc' \notin MessagePhases \cup {"handshake", "discard"},
         pc' \in SaslPhases => state' = WantAuth,
         UNCHANGED <<tls_active, username, transaction, recipients>>
  PROVE  Sequencing' /\ RecipientsInStep'
<1>1. /\ state \in WantGreeting..WantData
      /\ state' \in WantGreeting..WantData
      /\ state' >= state
      /\ state' # state => \/ state' = WantAuth /\ ~RequireStartTls
                           \/ state' = WantMail /\ ~RequireAuth /\ (~RequireStartTls \/ state = WantAuth)
  BY DEF settle, GateInv, TypeOK, SessionType
<1>2. Sequencing'
  BY <1>1 DEF GateInv, Sequencing
<1>3. QED
  BY <1>2 DEF GateInv, RecipientsInStep

LEMMA GateOutOfSequence ==
  ASSUME GateInv, OutOfSequence PROVE Sequencing' /\ RecipientsInStep'
<1>1. PICK line \in Sequenced : Command(line) /\ state' = settle(line) /\ pc' \in {"command", "Io"}
  BY DEF OutOfSequence, Answer, Tell
<1>2. UNCHANGED <<tls_active, username, transaction, recipients>>
  BY DEF OutOfSequence, handlerVars
<1>3. QED
  BY <1>1, <1>2, SettleStep DEF Command

LEMMA GateStartTls ==
  ASSUME GateInv, StartTls PROVE Sequencing' /\ RecipientsInStep'
<1>1. state = WantStartTls /\ pc' \in {"handshake", "Io"}
  BY DEF StartTls, accepts, settle, AuthVerbs, Answer, Tell
<1>2. UNCHANGED <<state, tls_active, username, transaction, recipients>>
  BY DEF StartTls, sessionVars, handlerVars
<1>3. QED
  BY <1>1, <1>2 DEF StartTls, GateInv, Sequencing, RecipientsInStep

LEMMA GateHandshake ==
  ASSUME GateInv, HandshakeFails \/ ClientHandshake PROVE Sequencing' /\ RecipientsInStep'
<1>1. pc = "handshake" /\ state = WantStartTls
  BY DEF GateInv, Sequencing, HandshakeFails, ClientHandshake
<1>2. username = None /\ transaction = NoEnvelope
  BY <1>1 DEF GateInv, Sequencing
<1>3. UNCHANGED <<username, transaction, recipients>>
  BY DEF HandshakeFails, ClientHandshake, sessionVars, handlerVars
<1>4. \/ pc' = "TlsFailed" /\ UNCHANGED <<state, tls_active>>
      \/ pc' = "command" /\ tls_active' = TRUE /\ state' = WantAuth
  BY DEF HandshakeFails, ClientHandshake, sessionVars
<1>5. Sequencing'
  BY <1>1, <1>2, <1>3, <1>4 DEF GateInv, Sequencing
<1>6. QED
  BY <1>3, <1>5 DEF GateInv, RecipientsInStep

\* finish_auth runs where AUTH is allowed, so inside TLS when it is required.
LEMMA GateFinishAuth ==
  ASSUME GateInv, NEW cred, finish_auth(cred),
         transaction = NoEnvelope, username = None,
         RequireStartTls => tls_active,
         UNCHANGED <<tls_active, transaction, recipients>>
  PROVE  Sequencing' /\ RecipientsInStep'
<1>1. pc' \in {"command", "Io"}
  BY DEF finish_auth, Answer, Tell
<1>2. \/ username' # None /\ state' \in {WantAuth, WantMail} /\ (state' = WantAuth => pc' = "Io")
      \/ username' = None /\ state' = WantAuth
  BY NamesAssumption DEF finish_auth, NamesAssumption
<1>3. Sequencing'
  BY <1>1, <1>2 DEF GateInv, Sequencing
<1>4. QED
  BY <1>3 DEF GateInv, RecipientsInStep

LEMMA GateAuth ==
  ASSUME GateInv, Auth PROVE Sequencing' /\ RecipientsInStep'
<1>1. PICK line \in AuthVerbs : Command(line) /\ accepts(line)
  BY DEF Auth, AuthVerbs
<1>2. settle(line) = WantAuth
  BY <1>1 DEF accepts, AuthVerbs
<1>3. \/ state = WantAuth
      \/ state = WantStartTls /\ ~RequireStartTls
  BY <1>1, <1>2 DEF settle, AuthVerbs
<1>4. UNCHANGED <<tls_active, transaction, recipients>>
  BY DEF Auth
<1>5. username = None /\ transaction = NoEnvelope /\ (RequireStartTls => tls_active)
  BY <1>1, <1>3 DEF Command, GateInv, Sequencing
<1>6. CASE finish_auth(Arg)
  BY <1>4, <1>5, <1>6, GateFinishAuth
<1>7. CASE ~finish_auth(Arg)
  <2>1. pc' \in {"plain", "login_user", "command", "Io"} /\ state' = WantAuth /\ UNCHANGED username
    BY <1>7 DEF Auth, Answer, Tell
  <2>2. QED
    BY <1>1, <1>2, <1>4, <2>1, SettleStep DEF Command
<1>8. QED
  BY <1>6, <1>7

LEMMA GateAuthToken ==
  ASSUME GateInv, AuthToken PROVE Sequencing' /\ RecipientsInStep'
<1>1. pc \in SaslPhases /\ state = WantAuth
  BY DEF AuthToken, GateInv, Sequencing
<1>2. UNCHANGED <<tls_active, transaction, recipients>>
  BY DEF AuthToken
<1>3. username = None /\ transaction = NoEnvelope /\ (RequireStartTls => tls_active)
  BY <1>1 DEF GateInv, Sequencing
<1>4. CASE \E cred : finish_auth(cred)
  BY <1>2, <1>3, <1>4, GateFinishAuth
<1>5. CASE ~ \E cred : finish_auth(cred)
  <2>1. pc' \in {"login_pass", "command", "Io"} /\ UNCHANGED <<state, username>>
    BY <1>1, <1>5 DEF AuthToken, Answer, Tell
  <2>2. QED
    BY <1>1, <1>2, <1>3, <2>1 DEF GateInv, Sequencing, RecipientsInStep
<1>6. QED
  BY <1>4, <1>5

LEMMA GateMail ==
  ASSUME GateInv, Mail PROVE Sequencing' /\ RecipientsInStep'
<1>1. pc = "command" /\ settle("MAIL") = WantMail /\ pc' \in {"command", "Io"}
  BY DEF Mail, Command, accepts, AuthVerbs, Answer, Tell
<1>2. /\ state \in WantGreeting..WantData
      /\ RequireAuth => state >= WantMail
      /\ RequireStartTls => state >= WantAuth
  BY <1>1 DEF settle, AuthVerbs, GateInv, TypeOK, SessionType
<1>3. /\ state' \in {WantMail, WantRcpt}
      /\ UNCHANGED <<tls_active, username>>
  BY DEF Mail
<1>4. Sequencing'
  BY <1>1, <1>2, <1>3 DEF GateInv, Sequencing
<1>5. \/ UNCHANGED <<recipients, transaction>>
      \/ recipients' = 0 /\ transaction'.rcpts = 0
  BY DEF Mail, start_transaction, NoEnvelope
<1>6. RecipientsInStep'
  BY <1>5, ConfigAssumption DEF GateInv, RecipientsInStep, ConfigAssumption
<1>7. QED
  BY <1>4, <1>6

LEMMA GateRcpt ==
  ASSUME GateInv, Rcpt PROVE Sequencing' /\ RecipientsInStep'
<1>1. pc = "command" /\ pc' \in {"command", "Io"}
  BY DEF Rcpt, Command, Answer, Tell
<1>2. state \in {WantRcpt, WantData}
  BY DEF Rcpt, accepts, settle, AuthVerbs
<1>3. state' \in {state, WantData} /\ UNCHANGED <<tls_active, username>>
  BY DEF Rcpt
<1>4. Sequencing'
  BY <1>1, <1>2, <1>3 DEF GateInv, Sequencing
<1>5. \/ UNCHANGED <<recipients, transaction>>
      \/ /\ ~AtRecipientCap /\ recipients' = recipients + 1
         /\ transaction' = [transaction EXCEPT !.rcpts = @ + 1]
  BY DEF Rcpt
<1>6. recipients \in Nat /\ transaction \in Envelopes /\ MaxRecipients \in Nat
  BY ConfigAssumption DEF GateInv, TypeOK, SessionType, HandlerType, ConfigAssumption
<1>7. RecipientsInStep'
  BY <1>5, <1>6 DEF GateInv, RecipientsInStep, AtRecipientCap, Envelopes
<1>8. QED
  BY <1>4, <1>7

LEMMA GateData ==
  ASSUME GateInv, Data PROVE Sequencing' /\ RecipientsInStep'
<1>1. state = WantData /\ pc' \in {"header", "Io"}
  BY DEF Data, accepts, settle, AuthVerbs, Answer, Tell
<1>2. UNCHANGED <<state, tls_active, username, transaction, recipients>>
  BY DEF Data, sessionVars, handlerVars
<1>3. QED
  BY <1>1, <1>2 DEF Data, Command, GateInv, Sequencing, RecipientsInStep

\* A message that is over, however it ended, leaves the session at WantMail.
LEMMA GateConclude ==
  ASSUME GateInv, state >= WantMail, pc \notin Ends, state' = WantMail,
         pc' \in {"command", "discard"} \cup Ends,
         UNCHANGED <<tls_active, username>>,
         \/ UNCHANGED <<transaction, recipients>>
         \/ recipients' = 0 /\ transaction' = NoEnvelope
  PROVE  Sequencing' /\ RecipientsInStep'
<1>1. Sequencing'
  BY DEF GateInv, Sequencing, TypeOK, SessionType
<1>2. RecipientsInStep'
  BY ConfigAssumption DEF GateInv, RecipientsInStep, NoEnvelope, ConfigAssumption
<1>3. QED
  BY <1>1, <1>2

LEMMA GateMessage ==
  ASSUME GateInv, HeaderLine \/ OpenBody \/ BodyLine \/ Write \/ Finish
  PROVE  Sequencing' /\ RecipientsInStep'
<1>1. pc \in MessagePhases /\ state = WantData
  BY DEF HeaderLine, OpenBody, BodyLine, Write, mirror, Finish, conclude, GateInv, Sequencing
<1>2. UNCHANGED <<tls_active, username, transaction, recipients>>
  BY DEF HeaderLine, OpenBody, BodyLine, Write, mirror, Finish, conclude, sessionVars, handlerVars
<1>3. \/ UNCHANGED state /\ pc' \in MessagePhases \cup {"discard"}
      \/ state' = WantMail /\ pc' \in {"command", "discard", "Closed"}
  <2>1. CASE HeaderLine
    BY <2>1 DEF HeaderLine, Discard, sessionVars
  <2>2. CASE OpenBody
    BY <2>2 DEF OpenBody, Discard, refuse_data, Tell
  <2>3. CASE BodyLine
    BY <2>3 DEF BodyLine, sessionVars
  <2>4. CASE Write \/ Finish
    BY <2>4 DEF Write, mirror, Finish, conclude, refuse_data, Tell
  <2>5. QED
    BY <2>1, <2>2, <2>3, <2>4
<1>4. CASE UNCHANGED state /\ pc' \in MessagePhases \cup {"discard"}
  BY <1>1, <1>2, <1>4, GateIdle
<1>5. CASE state' = WantMail /\ pc' \in {"command", "discard", "Closed"}
  BY <1>1, <1>2, <1>5, GateConclude
<1>6. QED
  BY <1>3, <1>4, <1>5

LEMMA GateDiscardLine ==
  ASSUME GateInv, DiscardLine PROVE Sequencing' /\ RecipientsInStep'
<1>1. pc = "discard" /\ state \in {WantMail, WantData}
  BY DEF DiscardLine, GateInv, Sequencing
<1>2. UNCHANGED <<tls_active, username>>
  BY DEF DiscardLine
<1>3. CASE AtTerminator
  <2>1. TerminatorReply /\ state' = WantMail
    BY <1>3 DEF DiscardLine
  <2>2. pc' \in {"command", "Closed"}
    BY <2>1 DEF TerminatorReply, refuse_data, Tell
  <2>3. \/ UNCHANGED <<transaction, recipients>>
        \/ recipients' = 0 /\ transaction' = NoEnvelope
    BY <1>3 DEF DiscardLine, start_transaction
  <2>4. QED
    BY <1>1, <1>2, <2>1, <2>2, <2>3, GateConclude
<1>4. CASE ~AtTerminator
  <2>1. UNCHANGED <<pc, state, recipients, transaction>>
    BY <1>4 DEF DiscardLine
  <2>2. QED
    BY <1>2, <2>1, GateIdle
<1>5. QED
  BY <1>3, <1>4

LEMMA GateHangUp ==
  ASSUME GateInv, HangUp PROVE Sequencing' /\ RecipientsInStep'
<1>1. pc' \in {"Eof", "Closed", "Io"} /\ UNCHANGED <<state, tls_active, username>>
  BY DEF HangUp
<1>2. \/ UNCHANGED <<transaction, recipients>>
      \/ recipients' = 0 /\ transaction' = NoEnvelope
  BY DEF HangUp, start_transaction
<1>3. Sequencing'
  BY <1>1, <1>2 DEF GateInv, Sequencing
<1>4. RecipientsInStep'
  BY <1>2, ConfigAssumption DEF GateInv, RecipientsInStep, NoEnvelope, ConfigAssumption
<1>5. QED
  BY <1>3, <1>4

LEMMA GateWriteFails ==
  ASSUME GateInv, WriteFails PROVE Sequencing' /\ RecipientsInStep'
<1>1. pc' \in Ends /\ UNCHANGED <<state, tls_active, username, transaction, recipients>>
  BY DEF WriteFails, sessionVars, handlerVars
<1>2. QED
  BY <1>1, GateIdle

\* The steps that do not touch the gate.
LEMMA GateOthers ==
  ASSUME GateInv,
         \/ Read \/ IdleTimeout \/ Greet \/ Drained \/ ReplyOnly \/ LongLine \/ Quit
         \/ DrainBegins \/ ClientCommand \/ ClientToken \/ ClientText \/ ClientReads
         \/ ClientHangsUp \/ ClientFallsSilent \/ UNCHANGED vars
  PROVE  Sequencing' /\ RecipientsInStep'
<1>1. CASE Read \/ IdleTimeout \/ Greet \/ Drained \/ ReplyOnly \/ LongLine \/ Quit
  <2>1. UNCHANGED <<state, tls_active, username, transaction, recipients>>
    BY <1>1 DEF Read, IdleTimeout, Greet, Drained, ReplyOnly, LongLine, Quit,
                sessionVars, handlerVars
  <2>2. pc \notin Ends
    BY <1>1 DEF Read, IdleTimeout, Waiting, Reading, Greet, Drained, ReplyOnly, LongLine,
                Quit, Command
  <2>3. pc' = pc \/ pc' \in Ends \/ pc' = "command"
    BY <1>1 DEF Read, IdleTimeout, Greet, Drained, ReplyOnly, LongLine, Quit, Answer, Tell
  <2>4. QED
    BY <2>1, <2>2, <2>3, GateIdle
<1>2. CASE \/ DrainBegins \/ ClientCommand \/ ClientToken \/ ClientText \/ ClientReads
           \/ ClientHangsUp \/ ClientFallsSilent \/ UNCHANGED vars
  <2>1. UNCHANGED serverVars
    BY <1>2 DEF DrainBegins, ClientCommand, ClientToken, ClientText, ClientReads,
                ClientHangsUp, ClientFallsSilent, vars
  <2>2. UNCHANGED <<pc, state, tls_active, username, transaction, recipients>>
    BY <2>1 DEF serverVars, sessionVars, handlerVars
  <2>3. QED
    BY <2>2, GateIdle
<1>3. QED
  BY <1>1, <1>2

\* State, phase, transaction and credentials stay in step in every reachable
\* state, whatever the configuration and however the client behaves.
THEOREM GateCorrect == Spec => []GateInv
<1>1. Init => GateInv
  BY GateInit
<1>2. GateInv /\ TypeOK' /\ [Next]_vars => GateInv'
  <2> SUFFICES ASSUME GateInv, TypeOK', [Next]_vars PROVE Sequencing' /\ RecipientsInStep'
    BY DEF GateInv
  <2>1. QED
    BY GateOthers, GateHangUp, GateOutOfSequence, GateRsetGreeting, GateStartTls,
       GateHandshake, GateAuth, GateAuthToken, GateMail, GateRcpt, GateData, GateMessage,
       GateDiscardLine, GateWriteFails
       DEF Next, Proceed, Serve, Client
<1>3. QED
  BY <1>1, <1>2, TypeCorrect, PTL DEF Spec

\* No message and no envelope before STARTTLS and AUTH where they are
\* required, and no credentials in the clear: for every configuration.
THEOREM AdmissionHolds == Spec => []Admission
<1>1. GateInv => Admission
  <2> SUFFICES ASSUME GateInv PROVE Admission
    OBVIOUS
  <2>1. state \in WantGreeting..WantData
    BY DEF GateInv, TypeOK, SessionType
  <2>2. QED
    BY <2>1 DEF GateInv, Sequencing, Admission
<1>2. QED
  BY <1>1, GateCorrect, PTL

\* The recipient limit counts exactly the recipients the handler holds.
THEOREM RecipientsHold == Spec => []RecipientsInStep
<1>1. GateInv => RecipientsInStep
  BY DEF GateInv
<1>2. QED
  BY <1>1, GateCorrect, PTL

\* There is nothing to forget when TLS starts.
THEOREM FreshAtTlsHolds == Spec => []FreshAtTls
<1>1. GateInv => FreshAtTls
  BY DEF GateInv, Sequencing, RecipientsInStep, FreshAtTls, NoEnvelope
<1>2. QED
  BY <1>1, GateCorrect, PTL

-----------------------------------------------------------------------------
(* Nothing sent in the clear is read inside TLS *)

TlsLines == {l \in Lines : l.tls}

\* The inductive invariant: the buffer is empty from the 220 of STARTTLS on,
\* and from the end of the handshake only TLS lines arrive.
PlainInv ==
  /\ tls_active => buf \in Seq(TlsLines) /\ sock \in Seq(TlsLines)
  /\ pc = "handshake" => buf = <<>>

\* A step of the session that takes at most one line off the buffer.
LEMMA PlainTake ==
  ASSUME TypeOK, PlainInv, UNCHANGED <<tls_active, sock>>, pc # "handshake", pc' # "handshake",
         UNCHANGED buf \/ (buf # <<>> /\ buf' = Tail(buf))
  PROVE  PlainInv'
<1>1. CASE tls_active /\ buf # <<>> /\ buf' = Tail(buf)
  <2>1. buf \in Seq(TlsLines)
    BY <1>1 DEF PlainInv
  <2>2. Tail(buf) \in Seq(TlsLines)
    BY <1>1, <2>1
  <2>3. QED
    BY <1>1, <2>2 DEF PlainInv
<1>2. CASE ~tls_active \/ UNCHANGED buf
  BY <1>2 DEF PlainInv
<1>3. QED
  BY <1>1, <1>2

LEMMA PlainRead ==
  ASSUME TypeOK, PlainInv, Read PROVE PlainInv'
<1>1. pc # "handshake" /\ UNCHANGED <<pc, tls_active>>
  BY DEF Read, Waiting, Reading, sessionVars
<1>2. CASE tls_active
  <2>1. PICK n \in 1..Len(sock) : buf' = SubSeq(sock, 1, n) /\ sock' = SubSeq(sock, n + 1, Len(sock))
    BY DEF Read
  <2>2. sock \in Seq(TlsLines)
    BY <1>2 DEF PlainInv
  <2>3. buf' \in Seq(TlsLines) /\ sock' \in Seq(TlsLines)
    BY <2>1, <2>2
  <2>4. QED
    BY <1>1, <2>3 DEF PlainInv
<1>3. CASE ~tls_active
  BY <1>1, <1>3 DEF PlainInv
<1>4. QED
  BY <1>2, <1>3

LEMMA PlainStartTls ==
  ASSUME TypeOK, PlainInv, StartTls PROVE PlainInv'
<1>1. buf' = <<>> \/ (pc' = "Io" /\ buf # <<>> /\ buf' = Tail(buf))
  BY DEF StartTls
<1>2. UNCHANGED <<tls_active, sock>> /\ pc # "handshake"
  BY DEF StartTls, sessionVars
<1>3. CASE buf' = <<>>
  BY <1>2, <1>3 DEF PlainInv
<1>4. CASE pc' = "Io" /\ buf # <<>> /\ buf' = Tail(buf)
  BY <1>2, <1>4, PlainTake
<1>5. QED
  BY <1>1, <1>3, <1>4

LEMMA PlainHandshake ==
  ASSUME TypeOK, PlainInv, ClientHandshake PROVE PlainInv'
<1>1. buf' = <<>> /\ sock' = <<>> /\ pc' # "handshake"
  BY DEF PlainInv, ClientHandshake
<1>2. QED
  BY <1>1 DEF PlainInv

\* The client sends inside TLS once there is TLS.
LEMMA PlainSend ==
  ASSUME TypeOK, PlainInv, UNCHANGED serverVars,
         \/ UNCHANGED sock
         \/ \E line \in Words, arg \in Args, role \in {"cmd", "auth", "text", "end"} :
               Puts(line, arg, role)
  PROVE  PlainInv'
<1>1. UNCHANGED <<pc, tls_active, buf>>
  BY DEF serverVars, sessionVars
<1>2. CASE UNCHANGED sock
  BY <1>1, <1>2 DEF PlainInv
<1>3. CASE ~tls_active
  BY <1>1, <1>3 DEF PlainInv
<1>4. ASSUME tls_active, NEW line \in Words, NEW arg \in Args,
             NEW role \in {"cmd", "auth", "text", "end"}, Puts(line, arg, role)
      PROVE  PlainInv'
  <2>1. sock \in Seq(TlsLines)
    BY <1>4 DEF PlainInv
  <2>2. [line |-> line, arg |-> arg, role |-> role, tls |-> tls_active] \in TlsLines
    BY <1>4 DEF TlsLines, Lines, TypeOK, SessionType
  <2>3. sock' \in Seq(TlsLines)
    BY <1>4, <2>1, <2>2 DEF Puts
  <2>4. QED
    BY <1>1, <1>4, <2>3 DEF PlainInv
<1>5. QED
  BY <1>2, <1>3, <1>4

LEMMA PlainClient ==
  ASSUME TypeOK, PlainInv,
         \/ DrainBegins \/ ClientCommand \/ ClientToken \/ ClientText \/ ClientReads
         \/ ClientHangsUp \/ ClientFallsSilent
  PROVE  PlainInv'
<1>1. UNCHANGED serverVars
  BY DEF DrainBegins, ClientCommand, ClientToken, ClientText, ClientReads, ClientHangsUp,
         ClientFallsSilent
<1>2. \/ UNCHANGED sock
      \/ \E line \in Words, arg \in Args, role \in {"cmd", "auth", "text", "end"} :
            Puts(line, arg, role)
  <2>1. CASE ClientCommand
    <3>1. \A c \in Commands : c.line \in Words /\ c.arg \in Args
      BY NamesAssumption DEF NamesAssumption, Awaited
    <3>2. QED
      BY <2>1, <3>1 DEF ClientCommand
  <2>2. CASE ClientToken
    BY <2>2 DEF ClientToken, Words, Args
  <2>3. CASE ClientText
    BY <2>3, NoneTyped DEF ClientText, Words
  <2>4. QED
    BY <2>1, <2>2, <2>3 DEF DrainBegins, ClientReads, ClientHangsUp, ClientFallsSilent
<1>3. QED
  BY <1>1, <1>2, PlainSend

\* The other steps of the session, none of which starts a handshake.
LEMMA PlainServe ==
  ASSUME TypeOK, PlainInv, Serve, ~Read, ~StartTls PROVE PlainInv'
<1>1. CASE HandshakeFails
  BY <1>1 DEF HandshakeFails, PlainInv, sessionVars
<1>2. CASE ~HandshakeFails
  <2>1. UNCHANGED <<tls_active, sock>> /\ pc # "handshake"
    <3>1. CASE HangUp \/ IdleTimeout \/ Greet \/ Drained
      BY <3>1 DEF HangUp, IdleTimeout, Greet, Drained, Waiting, Reading, sessionVars
    <3>2. CASE OutOfSequence \/ ReplyOnly \/ LongLine \/ Quit \/ Rset \/ Greeting
      BY <3>2 DEF OutOfSequence, ReplyOnly, LongLine, Quit, Rset, Greeting, Command, sessionVars
    <3>3. CASE Auth \/ AuthToken \/ Mail \/ Rcpt \/ Data
      BY <3>3 DEF Auth, AuthToken, Mail, Rcpt, Data, Command, sessionVars
    <3>4. CASE HeaderLine \/ OpenBody \/ BodyLine \/ Write \/ Finish \/ DiscardLine
      BY <3>4 DEF HeaderLine, OpenBody, BodyLine, Write, mirror, Finish, conclude, DiscardLine, sessionVars
    <3>5. QED
      BY <1>2, <3>1, <3>2, <3>3, <3>4 DEF Serve
  <2>2. UNCHANGED buf \/ (buf # <<>> /\ buf' = Tail(buf))
    <3>1. CASE \/ HangUp \/ IdleTimeout \/ Greet \/ Drained \/ OpenBody \/ Write \/ Finish
      BY <3>1 DEF HangUp, IdleTimeout, Greet, Drained, OpenBody, Write, mirror, Finish, conclude
    <3>2. CASE \/ OutOfSequence \/ ReplyOnly \/ LongLine \/ Quit \/ Rset \/ Greeting
      BY <3>2 DEF OutOfSequence, ReplyOnly, LongLine, Quit, Rset, Greeting, Command, Take
    <3>3. CASE Auth \/ AuthToken \/ Mail \/ Rcpt \/ Data
      BY <3>3 DEF Auth, AuthToken, Mail, Rcpt, Data, Command, Take
    <3>4. CASE HeaderLine \/ BodyLine \/ DiscardLine
      BY <3>4 DEF HeaderLine, BodyLine, DiscardLine, Take
    <3>5. QED
      BY <1>2, <3>1, <3>2, <3>3, <3>4 DEF Serve
  <2>3. pc' # "handshake"
    <3>1. CASE HangUp \/ IdleTimeout \/ Greet \/ Drained
      BY <3>1 DEF HangUp, IdleTimeout, Greet, Drained, Answer, Tell
    <3>2. CASE OutOfSequence \/ ReplyOnly \/ LongLine \/ Quit \/ Rset \/ Greeting
      BY <3>2 DEF OutOfSequence, ReplyOnly, LongLine, Quit, Rset, Greeting, Answer, Tell
    <3>3. CASE Auth \/ Mail \/ Rcpt \/ Data
      <4>1. CASE Auth
        BY <4>1 DEF Auth, finish_auth, Answer, Tell
      <4>2. CASE Mail \/ Rcpt \/ Data
        BY <4>2 DEF Mail, Rcpt, Data, Answer, Tell
      <4>3. QED
        BY <3>3, <4>1, <4>2
    <3>4. CASE AuthToken
      BY <3>4 DEF AuthToken, finish_auth, Answer, Tell
    <3>5. CASE HeaderLine \/ OpenBody \/ BodyLine
      BY <2>1, <3>5 DEF HeaderLine, OpenBody, BodyLine, Discard, refuse_data, Tell
    <3>6. CASE Write \/ Finish
      BY <3>6 DEF Write, mirror, Finish, conclude, refuse_data, Tell
    <3>7. CASE DiscardLine
      BY <2>1, <3>7 DEF DiscardLine, TerminatorReply, refuse_data, Tell
    <3>8. QED
      BY <1>2, <3>1, <3>2, <3>3, <3>4, <3>5, <3>6, <3>7 DEF Serve
  <2>4. QED
    BY <2>1, <2>2, <2>3, PlainTake
<1>3. QED
  BY <1>1, <1>2

LEMMA PlainWriteFails ==
  ASSUME PlainInv, WriteFails PROVE PlainInv'
BY DEF WriteFails, PlainInv, sessionVars

\* Nothing received in the clear is ever read inside TLS, for every client.
THEOREM NoPlaintextHolds == Spec => []NoPlaintextInTls
<1>1. Init => PlainInv
  BY DEF Init, PlainInv
<1>2. TypeOK /\ PlainInv /\ [Next]_vars => PlainInv'
  <2> SUFFICES ASSUME TypeOK, PlainInv, [Next]_vars PROVE PlainInv'
    OBVIOUS
  <2>1. CASE UNCHANGED vars
    BY <2>1 DEF vars, serverVars, sessionVars, PlainInv
  <2>2. CASE Next
    BY <2>2, PlainRead, PlainStartTls, PlainHandshake, PlainClient, PlainServe, PlainWriteFails
       DEF Next, Proceed, Client
  <2>3. QED
    BY <2>1, <2>2
<1>3. TypeOK /\ PlainInv => NoPlaintextInTls
  <2> SUFFICES ASSUME TypeOK, PlainInv, tls_active PROVE \A i \in DOMAIN Stream : Stream[i].tls
    BY DEF NoPlaintextInTls
  <2>1. buf \in Seq(TlsLines) /\ sock \in Seq(TlsLines)
    BY DEF PlainInv
  <2>2. Stream \in Seq(TlsLines)
    BY <2>1 DEF Stream
  <2>3. QED
    BY <2>2 DEF TlsLines
<1>4. QED
  BY <1>1, <1>2, <1>3, TypeCorrect, PTL DEF Spec

-----------------------------------------------------------------------------
(***************************************************************************)
(* The client and the session stay in step: every line is read as what it  *)
(* was sent as, every reply answers what its client takes it to answer, a  *)
(* drain leaves no message without its verdict, and a message is relayed   *)
(* under the envelope its client was told of.                              *)
(*                                                                         *)
(* The invariant lays what the client awaits beside what is under way: the *)
(* replies it has not read, the one the session owes, and the commands in  *)
(* the stream, with the text of a message in front of them.  What may be   *)
(* in the stream, and how it lines up, depends on where the session reads. *)
(***************************************************************************)

USE DEF SaslPhases, MessagePhases, Ends

-----------------------------------------------------------------------------
(* The invariant *)

\* What a client sends nothing behind before it is answered.
Blocks(c) ==
  \/ c.line \in {"DATA", "TOKEN"}
  \/ c.line \in AuthVerbs /\ (c.arg = None \/ c.line = "AUTH LOGIN")

\* Reply i leaves what its client may send as it was.
Plain(i) ==
  replies[i] \notin {334, 354, 421} /\ ~(pending[i].line = "STARTTLS" /\ replies[i] = 220)

\* What the client awaits ahead of the commands in the stream.
Ahead == Len(replies) + Owed

\* Behind its first t lines the stream holds the commands awaited last.
CommandsAfter(t) ==
  /\ t \in 0..Len(Stream) /\ Len(pending) = Ahead + Len(Stream) - t
  /\ \A i \in t + 1..Len(Stream) :
       /\ Stream[i].role = "cmd" /\ Stream[i].line # "MESSAGE"
       /\ Stream[i].line = "MAIL" => Stream[i].arg # None
       /\ pending[Ahead + i - t].line = Stream[i].line
       /\ pending[Ahead + i - t].arg = Stream[i].arg

\* A client that sends commands: only the last it awaits may hold it up.
Pipelined ==
  /\ cphase \in {"cmd", "wait", "done"}
  /\ \A i \in DOMAIN pending : Blocks(pending[i]) => i = Len(pending) /\ cphase = "wait"
  /\ cphase = "wait" => pending # <<>> /\ Blocks(pending[Len(pending)])

ReadsCommands == pc \in {"greet", "command", "finish"} \/ (pc = "open_body" /\ ~body_follows)

AtCommands ==
  /\ CommandsAfter(0) /\ Pipelined
  /\ \A i \in DOMAIN replies : Plain(i)
  /\ pc # "command" => replies = <<>> /\ pending[1].line \in {"GREETING", "MESSAGE"}

\* The session has asked for a token or for a message, and nothing is behind it.
Challenged(code) ==
  /\ Stream = <<>> /\ cphase = "wait" /\ Pipelined
  /\ replies # <<>> /\ Len(pending) = Len(replies) /\ replies[Len(replies)] = code
  /\ \A i \in 1..Len(replies) - 1 : Plain(i)

AtToken ==
  \/ Challenged(334)
  \/ Stream = <<>> /\ pending = <<>> /\ replies = <<>> /\ cphase = "auth"
  \/ /\ Len(Stream) = 1 /\ Stream[1].role = "auth" /\ replies = <<>>
     /\ pending = <<Message("TOKEN")>>
     /\ cphase = IF Stream[1].line = "long" THEN "done" ELSE "wait"

ReadsText == pc \in {"header", "body", "write", "discard"} \/ (pc = "open_body" /\ body_follows)

\* Whether a line begins with line i of the stream.
LineStart(i) == IF i = 1 THEN at_line_start ELSE Stream[i - 1].line # "long"

\* The first t lines of the stream are text, and a lone dot ends it.
TextBefore(t) ==
  \A i \in 1..t :
    /\ Stream[i].role \in {"text", "end"}
    /\ Stream[i].role = "end" <=> Stream[i].line = "dot" /\ LineStart(i)
    /\ Stream[i].role = "end" => i = t

InText(t) ==
  /\ Ahead <= 1 /\ (Ahead = 1 => pending # <<>> /\ pending[1].line = "MESSAGE")
  /\ \A i \in DOMAIN replies : Plain(i)
  /\ CommandsAfter(t) /\ TextBefore(t)
  /\ cphase \in {"data", "tail"} =>
       /\ t = Len(Stream) /\ \A i \in 1..t : Stream[i].role = "text"
       /\ cphase = "data" <=> LineStart(t + 1)
  /\ cphase \notin {"data", "tail"} => Pipelined /\ t >= 1 /\ Stream[t].role = "end"

AtText ==
  /\ pc \in {"header", "open_body"} => at_line_start /\ body_follows
  /\ pc = "discard" => why # "none"
  /\ (pc = "header" /\ Challenged(354)) \/ \E t \in Nat : InText(t)

AtHandshake ==
  /\ buf = <<>>
  /\ \/ cphase = "hello" /\ pending = <<>> /\ replies = <<>>
     \/ /\ cphase \in {"cmd", "wait", "done"} /\ replies # <<>> /\ Len(replies) <= Len(pending)
        /\ pending[Len(replies)].line = "STARTTLS" /\ replies[Len(replies)] = 220
        /\ \A i \in 1..Len(replies) - 1 : Plain(i)

\* After a drain the client has its 421, behind the verdict on every message.
AtDrained ==
  /\ \A i \in DOMAIN Stream : Stream[i].role = "cmd"
  /\ \A i \in DOMAIN replies : replies[i] # 354 /\ (replies[i] = 421 => i = Len(replies))
  /\ \A i \in DOMAIN pending :
       pending[i].line = "MESSAGE" => i <= Len(replies) /\ replies[i] # 421

SyncInv ==
  /\ ReadsCommands => AtCommands
  /\ pc \in SaslPhases => AtToken
  /\ ReadsText => AtText
  /\ pc = "handshake" => AtHandshake
  /\ pc = "Drained" => AtDrained

-----------------------------------------------------------------------------
(* The stream *)

LEMMA StreamType == ASSUME TypeOK PROVE Stream \in Seq(Lines) /\ Len(Stream) \in Nat
BY DEF TypeOK, WireType, Stream

\* next_line takes the first line of the stream.
LEMMA StreamTake ==
  ASSUME TypeOK, buf # <<>>, buf' = Tail(buf), sock' = sock
  PROVE  /\ Stream # <<>> /\ Len(Stream) >= 1 /\ Stream[1] = Head(buf)
         /\ Len(Stream') = Len(Stream) - 1
         /\ \A i \in 1..Len(Stream') : Stream'[i] = Stream[i + 1]
<1>1. buf \in Seq(Lines) /\ sock \in Seq(Lines)
  BY DEF TypeOK, WireType
<1>2. Len(buf) >= 1 /\ Head(buf) = buf[1] /\ Tail(buf) \in Seq(Lines)
      /\ Len(Tail(buf)) = Len(buf) - 1 /\ \A i \in 1..Len(buf) - 1 : Tail(buf)[i] = buf[i + 1]
  BY <1>1
<1>3. QED
  BY <1>1, <1>2 DEF Stream

\* A read moves lines from the socket to the buffer.
LEMMA StreamRead == ASSUME TypeOK, Read PROVE Stream' = Stream
<1>1. PICK n \in 1..Len(sock) : buf' = SubSeq(sock, 1, n) /\ sock' = SubSeq(sock, n + 1, Len(sock))
  BY DEF Read
<1>2. sock \in Seq(Lines) /\ buf = <<>>
  BY DEF TypeOK, WireType, Read, Waiting
<1>3. SubSeq(sock, 1, n) \o SubSeq(sock, n + 1, Len(sock)) = sock
  BY <1>2
<1>4. <<>> \o sock = sock
  BY <1>2
<1>5. QED
  BY <1>1, <1>2, <1>3, <1>4 DEF Stream

\* What the client sends goes to the end of the stream.
LEMMA StreamPuts ==
  ASSUME TypeOK, NEW line \in Words, NEW arg \in Args,
         NEW role \in {"cmd", "auth", "text", "end"}, buf' = buf, Puts(line, arg, role)
  PROVE  /\ Len(Stream') = Len(Stream) + 1
         /\ \A i \in 1..Len(Stream) : Stream'[i] = Stream[i]
         /\ Stream'[Len(Stream) + 1].line = line /\ Stream'[Len(Stream) + 1].arg = arg
         /\ Stream'[Len(Stream) + 1].role = role
<1> DEFINE l == [line |-> line, arg |-> arg, role |-> role, tls |-> tls_active]
<1>1. l \in Lines /\ l.line = line /\ l.arg = arg /\ l.role = role /\ sock' = Append(sock, l)
  BY DEF Lines, TypeOK, SessionType, Puts
<1> HIDE DEF l
<1>2. buf \in Seq(Lines) /\ sock \in Seq(Lines)
  BY DEF TypeOK, WireType
<1>3. /\ Len(Append(sock, l)) = Len(sock) + 1 /\ Append(sock, l)[Len(sock) + 1] = l
      /\ \A i \in 1..Len(sock) : Append(sock, l)[i] = sock[i]
  BY <1>1, <1>2
<1>4. /\ Len(Stream') = Len(Stream) + 1 /\ Stream'[Len(Stream) + 1] = l
      /\ \A i \in 1..Len(Stream) : Stream'[i] = Stream[i]
  BY <1>1, <1>2, <1>3 DEF Stream
<1>5. QED
  BY <1>1, <1>4

LEMMA Counts ==
  ASSUME TypeOK
  PROVE  /\ Len(replies) \in Nat /\ Len(pending) \in Nat /\ Len(Stream) \in Nat
         /\ DOMAIN replies = 1..Len(replies) /\ DOMAIN pending = 1..Len(pending)
         /\ DOMAIN Stream = 1..Len(Stream)
         /\ replies = <<>> <=> Len(replies) = 0
         /\ pending = <<>> <=> Len(pending) = 0
         /\ Stream = <<>> <=> Len(Stream) = 0
<1>1. replies \in Seq(Nat) /\ pending \in Seq(Awaited) /\ Stream \in Seq(Lines)
  BY StreamType DEF TypeOK, WireType, ClientType
<1>2. QED
  BY <1>1

LEMMA ReplySent ==
  ASSUME TypeOK, NEW code \in Nat, replies' = Append(replies, code)
  PROVE  /\ Len(replies') = Len(replies) + 1 /\ replies'[Len(replies) + 1] = code
         /\ \A i \in 1..Len(replies) : replies'[i] = replies[i]
<1>1. replies \in Seq(Nat)
  BY DEF TypeOK, WireType
<1>2. QED
  BY <1>1

-----------------------------------------------------------------------------
(* Steps of the session, by what they do to the stream and the replies *)

\* The session ends other than by a drain: nothing is asked of it any more.
LEMMA EndStep == ASSUME pc' \in Ends \ {"Drained"} PROVE SyncInv'
BY DEF SyncInv, ReadsCommands, ReadsText

\* Nothing that is under way between the two is touched.
LEMMA Same ==
  ASSUME UNCHANGED <<Stream, pending, cphase>>
  PROVE  /\ Pipelined => Pipelined'
         /\ replies' = replies => \A i : Plain(i) => Plain(i)'
         /\ replies' = replies => \A code : Challenged(code) => Challenged(code)'
         /\ Ahead' = Ahead => \A t : CommandsAfter(t) => CommandsAfter(t)'
         /\ at_line_start' = at_line_start => \A t : TextBefore(t) => TextBefore(t)'
<1>1. Pipelined => Pipelined'
  BY DEF Pipelined, Blocks
<1>2. replies' = replies => \A i : Plain(i) => Plain(i)'
  BY DEF Plain
<1>3. ASSUME NEW code, replies' = replies, Challenged(code) PROVE Challenged(code)'
  BY <1>1, <1>2, <1>3 DEF Challenged
<1>4. ASSUME NEW t, Ahead' = Ahead, CommandsAfter(t) PROVE CommandsAfter(t)'
  BY <1>4 DEF CommandsAfter
<1>5. ASSUME NEW t, at_line_start' = at_line_start, TextBefore(t) PROVE TextBefore(t)'
  BY <1>5 DEF TextBefore, LineStart
<1>6. QED
  BY <1>1, <1>2, <1>3, <1>4, <1>5

\* A command is answered, and the loop goes on.
LEMMA AnswerStep ==
  ASSUME TypeOK, TypeOK', SyncInv, pc = "command", pc' = "command",
         buf # <<>>, buf' = Tail(buf), UNCHANGED <<sock, pending, cphase>>,
         NEW code \in Nat \ {334, 354, 421}, replies' = Append(replies, code),
         ~(Head(buf).line = "STARTTLS" /\ code = 220)
  PROVE  SyncInv'
<1>1. AtCommands
  BY DEF SyncInv, ReadsCommands
<1>2. Owed = 0 /\ Owed' = 0
  BY DEF Owed
<1>3. /\ Len(Stream) >= 1 /\ Stream[1] = Head(buf) /\ Len(Stream') = Len(Stream) - 1
      /\ \A i \in 1..Len(Stream') : Stream'[i] = Stream[i + 1]
  BY StreamTake
<1>4. /\ Len(replies') = Len(replies) + 1 /\ replies'[Len(replies) + 1] = code
      /\ \A i \in 1..Len(replies) : replies'[i] = replies[i]
  BY ReplySent
<1>5. pending[Len(replies) + 1].line = Stream[1].line
  BY <1>1, <1>2, <1>3, Counts DEF AtCommands, CommandsAfter, Ahead
<1>6. CommandsAfter(0)'
  <2>1. 0 \in 0..Len(Stream') /\ Len(pending') = Ahead' + Len(Stream') - 0
    BY <1>1, <1>2, <1>3, <1>4, Counts DEF AtCommands, CommandsAfter, Ahead
  <2>2. ASSUME NEW i \in 0 + 1..Len(Stream')
        PROVE  /\ Stream'[i].role = "cmd" /\ Stream'[i].line # "MESSAGE"
               /\ Stream'[i].line = "MAIL" => Stream'[i].arg # None
               /\ pending'[Ahead' + i - 0].line = Stream'[i].line
               /\ pending'[Ahead' + i - 0].arg = Stream'[i].arg
    <3>1. i + 1 \in 0 + 1..Len(Stream) /\ Stream'[i] = Stream[i + 1]
          /\ Ahead' + i - 0 = Ahead + (i + 1) - 0
      BY <1>2, <1>3, <1>4, Counts DEF Ahead
    <3>2. QED
      BY <1>1, <3>1 DEF AtCommands, CommandsAfter
  <2>3. QED
    BY <2>1, <2>2 DEF CommandsAfter
<1>7. Pipelined'
  BY <1>1 DEF AtCommands, Pipelined, Blocks
<1>8. \A i \in DOMAIN replies' : Plain(i)'
  <2>1. DOMAIN replies' = 1..Len(replies) + 1 /\ DOMAIN replies = 1..Len(replies)
        /\ Len(replies) \in Nat
    BY <1>4, Counts DEF TypeOK, WireType
  <2>2. ASSUME NEW i \in 1..Len(replies) PROVE Plain(i)'
    BY <1>1, <1>4, <2>1, <2>2 DEF AtCommands, Plain
  <2>3. ASSUME NEW i \in {Len(replies) + 1} PROVE Plain(i)'
    BY <1>3, <1>4, <1>5, <2>3 DEF Plain
  <2>4. QED
    BY <2>1, <2>2, <2>3
<1>9. AtCommands'
  BY <1>6, <1>7, <1>8 DEF AtCommands
<1>10. QED
  BY <1>9 DEF SyncInv, ReadsCommands, ReadsText

\* A command that holds its client up is answered with a challenge or a 354: it
\* was the last the client sent.
LEMMA ChallengeStep ==
  ASSUME TypeOK, TypeOK', SyncInv, pc = "command", pc' # "command",
         buf # <<>>, buf' = Tail(buf), UNCHANGED <<sock, pending, cphase>>,
         NEW code \in {334, 354}, replies' = Append(replies, code),
         Blocks(Head(buf))
  PROVE  Challenged(code)'
<1>1. AtCommands
  BY DEF SyncInv, ReadsCommands
<1>2. Owed = 0
  BY DEF Owed
<1>3. Len(Stream) >= 1 /\ Stream[1] = Head(buf) /\ Len(Stream') = Len(Stream) - 1
  BY StreamTake
<1>4. /\ Len(replies') = Len(replies) + 1 /\ replies'[Len(replies) + 1] = code
      /\ \A i \in 1..Len(replies) : replies'[i] = replies[i]
  BY ReplySent
<1>5. /\ Len(replies) + 1 \in DOMAIN pending
      /\ pending[Len(replies) + 1].line = Stream[1].line
      /\ pending[Len(replies) + 1].arg = Stream[1].arg
  BY <1>1, <1>2, <1>3, Counts DEF AtCommands, CommandsAfter, Ahead
<1>6. Blocks(pending[Len(replies) + 1])
  BY <1>3, <1>5 DEF Blocks
<1>7. Len(pending) = Len(replies) + 1 /\ cphase = "wait"
  BY <1>1, <1>5, <1>6 DEF AtCommands, Pipelined
<1>8. Len(Stream) = 1
  BY <1>1, <1>2, <1>7, Counts DEF AtCommands, CommandsAfter, Ahead
<1>9. Stream' = <<>> /\ replies' # <<>>
  <2>1. TypeOK' => (Stream' = <<>> <=> Len(Stream') = 0) /\ (replies' = <<>> <=> Len(replies') = 0)
    <3>1. TypeOK' => Stream' \in Seq(Lines) /\ replies' \in Seq(Nat)
      BY DEF TypeOK, WireType, Stream
    <3>2. QED
      BY <3>1
  <2>2. QED
    BY <1>3, <1>4, <1>8, <2>1, Counts
<1>10. \A i \in 1..Len(replies') - 1 : Plain(i)'
  BY <1>1, <1>4, Counts DEF AtCommands, Plain
<1>11. Pipelined'
  BY <1>1 DEF AtCommands, Pipelined, Blocks
<1>12. QED
  BY <1>4, <1>7, <1>9, <1>10, <1>11 DEF Challenged

LEMMA OwedType == Owed \in {0, 1}
BY DEF Owed

\* What the session owes becomes a reply.
LEMMA ReplyOwed ==
  ASSUME TypeOK, NEW code \in Nat \ {220, 334, 354, 421}, replies' = Append(replies, code),
         pending' = pending, \A i \in DOMAIN replies : Plain(i)
  PROVE  /\ Owed = 1 /\ Owed' = 0 => Ahead' = Ahead
         /\ \A i \in DOMAIN replies' : Plain(i)'
<1>1. /\ Len(replies') = Len(replies) + 1 /\ replies'[Len(replies) + 1] = code
      /\ \A i \in 1..Len(replies) : replies'[i] = replies[i]
  BY ReplySent
<1>2. DOMAIN replies' = 1..Len(replies) + 1
  <2>1. replies \in Seq(Nat)
    BY DEF TypeOK, WireType
  <2>2. QED
    BY <2>1
<1>3. ASSUME NEW i \in DOMAIN replies' PROVE Plain(i)'
  <2>1. CASE i \in 1..Len(replies)
    BY <1>1, <2>1, Counts DEF Plain
  <2>2. CASE i = Len(replies) + 1
    BY <1>1, <2>2 DEF Plain
  <2>3. QED
    BY <1>2, <2>1, <2>2, Counts
<1>4. QED
  BY <1>1, <1>3, Counts DEF Ahead

\* The session says what it owes, and the loop goes on.
LEMMA VerdictStep ==
  ASSUME TypeOK, SyncInv, ReadsCommands, pc # "command", pc' = "command",
         UNCHANGED <<Stream, pending, cphase>>,
         NEW code \in Nat \ {334, 354, 421}, replies' = Append(replies, code)
  PROVE  SyncInv'
<1>1. AtCommands /\ replies = <<>> /\ pending[1].line \in {"GREETING", "MESSAGE"}
  BY DEF SyncInv, AtCommands
<1>2. Owed = 1 /\ Owed' = 0
  BY DEF Owed, ReadsCommands
<1>3. Len(replies') = 1 /\ replies'[1] = code /\ DOMAIN replies' = 1..1
  BY <1>1
<1>4. Ahead' = Ahead
  BY <1>1, <1>2, <1>3, Counts DEF Ahead
<1>5. CommandsAfter(0)' /\ Pipelined'
  BY <1>1, <1>4, Same DEF AtCommands
<1>6. \A i \in DOMAIN replies' : Plain(i)'
  BY <1>1, <1>3 DEF Plain
<1>7. QED
  BY <1>5, <1>6 DEF SyncInv, ReadsCommands, ReadsText, AtCommands

\* A token is taken: it is all there is.
LEMMA TokenStep ==
  ASSUME TypeOK, TypeOK', SyncInv, pc \in SaslPhases, buf # <<>>, buf' = Tail(buf),
         Head(buf).line # "long", UNCHANGED <<sock, pending, cphase>>,
         pc' \in SaslPhases \cup {"command"},
         NEW code \in Nat \ {220, 354, 421}, replies' = Append(replies, code),
         code = 334 <=> pc' \in SaslPhases
  PROVE  SyncInv'
<1>1. AtToken
  BY DEF SyncInv
<1>2. /\ Len(Stream) >= 1 /\ Stream # <<>> /\ Stream[1] = Head(buf)
      /\ Len(Stream') = Len(Stream) - 1
  BY StreamTake
<1>3. Len(Stream) = 1 /\ replies = <<>> /\ pending = <<Message("TOKEN")>> /\ cphase = "wait"
  BY <1>1, <1>2 DEF AtToken, Challenged
<1>4. /\ Len(replies') = 1 /\ replies'[1] = code /\ DOMAIN replies' = 1..1 /\ replies' # <<>>
  BY <1>3
<1>5. Len(Stream') = 0 /\ Stream' = <<>>
  <2>1. Stream' \in Seq(Lines)
    BY DEF TypeOK, WireType, Stream
  <2>2. QED
    BY <1>2, <1>3, <2>1
<1>6. /\ pending' = pending /\ Len(pending) = 1 /\ DOMAIN pending = 1..1 /\ pending # <<>>
      /\ Blocks(pending[1]) /\ pending[1].line # "STARTTLS"
  <2>1. Message("TOKEN").line = "TOKEN"
    BY DEF Message
  <2>2. Len(pending) = 1 /\ DOMAIN pending = 1..1 /\ pending # <<>> /\ pending[1] = Message("TOKEN")
    BY <1>3
  <2>3. QED
    BY <2>1, <2>2 DEF Blocks
<1>7. Pipelined'
  <2>1. Pipelined
    <3>1. cphase = "wait"
      BY <1>3
    <3>2. \A i \in DOMAIN pending : i = Len(pending)
      BY <1>6
    <3>3. Len(pending) = 1 /\ Blocks(pending[1])
      BY <1>6
    <3>4. Blocks(pending[Len(pending)])
      BY <3>3
    <3>5. QED
      BY <1>6, <3>1, <3>2, <3>4 DEF Pipelined
  <2>2. pending' = pending /\ cphase' = cphase
    OBVIOUS
  <2>3. QED
    BY <2>1, <2>2 DEF Pipelined
<1>8. CASE pc' = "command"
  <2>1. Owed' = 0
    BY <1>8 DEF Owed
  <2>2. CommandsAfter(0)'
    <3>1. Ahead' = 1 /\ Len(pending') = 1
      BY <1>4, <1>6, <2>1 DEF Ahead
    <3>2. QED
      BY <1>5, <3>1 DEF CommandsAfter
  <2>3. \A i \in DOMAIN replies' : Plain(i)'
    <3>1. pending'[1].line # "STARTTLS" /\ replies'[1] \notin {334, 354, 421}
      BY <1>4, <1>6, <1>8
    <3>2. QED
      BY <1>4, <3>1 DEF Plain
  <2>4. QED
    BY <1>7, <1>8, <2>2, <2>3 DEF SyncInv, ReadsCommands, ReadsText, AtCommands
<1>9. CASE pc' \in SaslPhases
  <2>1. Challenged(334)'
    BY <1>3, <1>4, <1>5, <1>6, <1>7, <1>9 DEF Challenged
  <2>2. QED
    BY <1>9, <2>1 DEF SyncInv, ReadsCommands, ReadsText, AtToken
<1>10. QED
  BY <1>8, <1>9

-----------------------------------------------------------------------------
(* The text of a message *)

\* A message phase that reads has text or its end in front.
LEMMA TextFirst ==
  ASSUME TypeOK, SyncInv, pc \in {"header", "body", "discard"}, buf # <<>>, buf' = Tail(buf),
         sock' = sock
  PROVE  \E t \in Nat : InText(t) /\ t >= 1
<1>1. AtText
  BY DEF SyncInv, ReadsText
<1>2. Len(Stream) >= 1 /\ Stream # <<>>
  BY StreamTake
<1>3. PICK t \in Nat : InText(t)
  BY <1>1, <1>2 DEF AtText, Challenged
<1>4. t >= 1
  BY <1>2, <1>3 DEF InText
<1>5. QED
  BY <1>3, <1>4

\* A line that does not end the message was not meant to.
LEMMA TextStep ==
  ASSUME TypeOK, SyncInv, pc \in {"header", "body", "discard"}, buf # <<>>, buf' = Tail(buf),
         UNCHANGED <<sock, replies, pending, cphase>>, Owed' = Owed,
         ~(Head(buf).line = "dot" /\ at_line_start),
         at_line_start' = (Head(buf).line # "long")
  PROVE  \E t \in Nat : InText(t)'
<1>1. /\ Len(Stream) >= 1 /\ Stream[1] = Head(buf) /\ Len(Stream') = Len(Stream) - 1
      /\ \A i \in 1..Len(Stream') : Stream'[i] = Stream[i + 1]
  BY StreamTake
<1>2. PICK t \in Nat : InText(t) /\ t >= 1
  BY TextFirst
<1>3. t \in 1..Len(Stream) /\ Len(pending) = Ahead + Len(Stream) - t
  <2>1. CommandsAfter(t)
    BY <1>2 DEF InText
  <2>2. t \in 0..Len(Stream) /\ Len(pending) = Ahead + Len(Stream) - t
    BY <2>1 DEF CommandsAfter
  <2>3. QED
    BY <1>2, <2>2, Counts
<1>4. Ahead' = Ahead /\ Ahead \in Nat
  BY OwedType, Counts DEF Ahead
<1>5. Stream[1].role # "end"
  BY <1>1, <1>2, <1>3 DEF InText, TextBefore, LineStart
<1>6. \A i \in 1..Len(Stream') + 1 : LineStart(i)' = LineStart(i + 1)
  <2>1. ASSUME NEW i \in 1..Len(Stream') + 1 PROVE LineStart(i)' = LineStart(i + 1)
    <3>1. CASE i = 1
      BY <1>1, <3>1 DEF LineStart
    <3>2. CASE i # 1
      <4>1. i - 1 \in 1..Len(Stream') /\ (i - 1) + 1 = i /\ (i + 1) - 1 = i /\ i + 1 # 1
        BY <1>1, <3>2, Counts
      <4>2. Stream'[i - 1] = Stream[i]
        BY <1>1, <4>1
      <4>3. QED
        BY <3>2, <4>1, <4>2 DEF LineStart
    <3>3. QED
      BY <3>1, <3>2
  <2>2. QED
    BY <2>1
<1> DEFINE u == t - 1
<1>7. u \in 0..Len(Stream') /\ u \in Nat /\ u + 1 = t
  BY <1>1, <1>3, Counts
<1>8. ASSUME NEW v \in Nat, v = u PROVE InText(v)'
  <2> HIDE DEF u
  <2>1. v = t - 1 /\ t = v + 1 /\ v \in 0..Len(Stream') /\ pending' = pending
    BY <1>7, <1>8
  <2>2. CommandsAfter(v)'
    <3>1. Len(pending') = Ahead' + Len(Stream') - v
      BY <1>1, <1>3, <1>4, <2>1, Counts
    <3>2. ASSUME NEW i \in v + 1..Len(Stream')
          PROVE  /\ Stream'[i].role = "cmd" /\ Stream'[i].line # "MESSAGE"
                 /\ Stream'[i].line = "MAIL" => Stream'[i].arg # None
                 /\ pending'[Ahead' + i - v].line = Stream'[i].line
                 /\ pending'[Ahead' + i - v].arg = Stream'[i].arg
      <4>1. i + 1 \in t + 1..Len(Stream) /\ i \in 1..Len(Stream')
            /\ Ahead' + i - v = Ahead + (i + 1) - t
        BY <1>1, <1>4, <1>7, <1>8, Counts
      <4>2. QED
        BY <1>1, <1>2, <4>1 DEF InText, CommandsAfter
    <3>3. QED
      BY <1>7, <1>8, <3>1, <3>2 DEF CommandsAfter
  <2>3. TextBefore(v)'
    <3>1. ASSUME NEW i \in 1..v
          PROVE  /\ Stream'[i].role \in {"text", "end"}
                 /\ Stream'[i].role = "end" <=> Stream'[i].line = "dot" /\ LineStart(i)'
                 /\ Stream'[i].role = "end" => i = v
      <4>1. i + 1 \in 1..t /\ i \in 1..Len(Stream') /\ (i + 1 = t => i = v)
        BY <1>7, <1>8, <1>1, Counts
      <4>2. Stream'[i] = Stream[i + 1] /\ LineStart(i)' = LineStart(i + 1)
        BY <1>1, <1>6, <4>1
      <4>3. QED
        BY <1>2, <4>1, <4>2 DEF InText, TextBefore
    <3>2. QED
      BY <3>1 DEF TextBefore
  <2>4. \A i \in DOMAIN replies' : Plain(i)'
    BY <1>2 DEF InText, Plain
  <2>5. ASSUME cphase' \in {"data", "tail"}
        PROVE  /\ v = Len(Stream') /\ \A i \in 1..v : Stream'[i].role = "text"
               /\ cphase' = "data" <=> LineStart(v + 1)'
    <3>1. t = Len(Stream) /\ \A i \in 1..t : Stream[i].role = "text"
      BY <1>2, <2>5 DEF InText
    <3>2. cphase = "data" <=> LineStart(t + 1)
      BY <1>2, <2>5 DEF InText
    <3>3. LineStart(v + 1)' = LineStart((v + 1) + 1) /\ v + 1 = t
      BY <1>6, <1>7, <1>8, <1>1, Counts
    <3>4. v = Len(Stream')
      BY <1>1, <2>1, <3>1, Counts
    <3>5. ASSUME NEW i \in 1..v PROVE Stream'[i].role = "text"
      <4>1. i \in 1..Len(Stream') /\ i + 1 \in 1..t
        BY <2>1, <3>4, Counts
      <4>2. QED
        BY <1>1, <3>1, <4>1
    <3>6. QED
      BY <3>2, <3>3, <3>4, <3>5
  <2>6. ASSUME cphase' \notin {"data", "tail"}
        PROVE  Pipelined' /\ v >= 1 /\ Stream'[v].role = "end"
    <3>1. Pipelined /\ Stream[t].role = "end"
      BY <1>2, <2>6 DEF InText
    <3>2. t # 1
      BY <1>5, <3>1
    <3>3. v >= 1 /\ Stream'[v] = Stream[t]
      BY <1>1, <1>3, <2>1, <3>2
    <3>4. QED
      BY <3>1, <3>3 DEF Pipelined
  <2>7. QED
    BY <1>2, <1>4, <2>2, <2>3, <2>4, <2>5, <2>6 DEF InText
<1>9. QED
  BY <1>7, <1>8

\* The line that ends the message was meant to, and only commands are behind it.
LEMMA TerminatorStep ==
  ASSUME TypeOK, SyncInv, pc \in {"header", "body", "discard"}, buf # <<>>, buf' = Tail(buf),
         UNCHANGED <<sock, pending, cphase>>, Head(buf).line = "dot", at_line_start
  PROVE  /\ Ahead' = Ahead => CommandsAfter(0)'
         /\ Pipelined' /\ Ahead <= 1 /\ (Ahead = 1 => pending[1].line = "MESSAGE")
         /\ \A i \in DOMAIN replies : Plain(i)
<1>1. /\ Len(Stream) >= 1 /\ Stream[1] = Head(buf) /\ Len(Stream') = Len(Stream) - 1
      /\ \A i \in 1..Len(Stream') : Stream'[i] = Stream[i + 1]
  BY StreamTake
<1>2. PICK t \in Nat : InText(t) /\ t >= 1
  BY TextFirst
<1>3. Stream[1].role = "end" /\ t = 1
  BY <1>1, <1>2 DEF InText, TextBefore, LineStart
<1>4. cphase \notin {"data", "tail"}
  BY <1>2, <1>3 DEF InText
<1>5. Ahead \in Nat
  BY OwedType, Counts DEF Ahead
<1>6. ASSUME Ahead' = Ahead PROVE CommandsAfter(0)'
  <2>1. 0 \in 0..Len(Stream') /\ Len(pending') = Ahead' + Len(Stream') - 0
    BY <1>1, <1>2, <1>3, <1>5, <1>6, Counts DEF InText, CommandsAfter
  <2>2. ASSUME NEW i \in 0 + 1..Len(Stream')
        PROVE  /\ Stream'[i].role = "cmd" /\ Stream'[i].line # "MESSAGE"
               /\ Stream'[i].line = "MAIL" => Stream'[i].arg # None
               /\ pending'[Ahead' + i - 0].line = Stream'[i].line
               /\ pending'[Ahead' + i - 0].arg = Stream'[i].arg
    <3>1. i + 1 \in t + 1..Len(Stream) /\ i \in 1..Len(Stream')
          /\ Ahead' + i - 0 = Ahead + (i + 1) - t
      BY <1>1, <1>3, <1>5, <1>6, Counts
    <3>2. QED
      BY <1>1, <1>2, <3>1 DEF InText, CommandsAfter
  <2>3. QED
    BY <2>1, <2>2 DEF CommandsAfter
<1>7. Pipelined'
  <2>1. Pipelined
    BY <1>2, <1>4 DEF InText
  <2>2. QED
    BY <2>1 DEF Pipelined
<1>8. QED
  BY <1>2, <1>6, <1>7 DEF InText

-----------------------------------------------------------------------------
(* The steps of the session *)

\* Nothing the invariant looks at changes.
LEMMA SyncIdle ==
  ASSUME SyncInv, UNCHANGED <<Stream, replies, pending, cphase, pc, why, body_follows, at_line_start>>,
         pc = "handshake" => buf' = buf
  PROVE  SyncInv'
<1>1. Owed' = Owed /\ Ahead' = Ahead
  BY DEF Owed, Ahead
<1>2. ASSUME AtCommands PROVE AtCommands'
  BY <1>1, <1>2, Same DEF AtCommands
<1>3. ASSUME AtToken PROVE AtToken'
  BY <1>3, Same DEF AtToken
<1>4. ASSUME NEW t \in Nat, InText(t) PROVE InText(t)'
  <2>1. /\ CommandsAfter(t)' /\ TextBefore(t)' /\ \A i \in DOMAIN replies' : Plain(i)'
        /\ Pipelined => Pipelined'
    BY <1>1, <1>4, Same DEF InText
  <2>2. LineStart(t + 1)' = LineStart(t + 1)
    BY DEF LineStart
  <2>3. QED
    BY <1>1, <1>4, <2>1, <2>2 DEF InText
<1>5. ASSUME AtText PROVE AtText'
  BY <1>4, <1>5, Same DEF AtText
<1>6. ASSUME AtHandshake, buf' = buf PROVE AtHandshake'
  BY <1>6, Same DEF AtHandshake
<1>7. ASSUME AtDrained PROVE AtDrained'
  BY <1>7 DEF AtDrained
<1>8. QED
  BY <1>2, <1>3, <1>5, <1>6, <1>7 DEF SyncInv, ReadsCommands, ReadsText

LEMMA SyncRead == ASSUME TypeOK, SyncInv, Read PROVE SyncInv'
<1>1. Stream' = Stream
  BY StreamRead
<1>2. UNCHANGED <<replies, pending, cphase, pc, why, body_follows, at_line_start>> /\ pc # "handshake"
  BY DEF Read, Waiting, Reading, clientVars, dataVars
<1>3. QED
  BY <1>1, <1>2, SyncIdle

\* A reply sent or not, by what comes after it.
LEMMA TellCases ==
  ASSUME NEW code, NEW next, NEW failed, Tell(code, next, failed)
  PROVE  (replies' = Append(replies, code) /\ pc' = next) \/ pc' = failed
BY DEF Tell

LEMMA SyncLeaves ==
  ASSUME TypeOK, SyncInv,
         HangUp \/ IdleTimeout \/ LongLine \/ Quit \/ HandshakeFails \/ WriteFails
  PROVE  SyncInv'
<1>1. pc' \in Ends \ {"Drained"}
  BY DEF HangUp, IdleTimeout, LongLine, Quit, HandshakeFails, WriteFails, Answer, Tell
<1>2. QED
  BY <1>1, EndStep

LEMMA SyncGreet == ASSUME TypeOK, SyncInv, Greet PROVE SyncInv'
<1>1. CASE pc' = "Io"
  BY <1>1, EndStep
<1>2. CASE pc' # "Io"
  <2>1. pc = "greet" /\ pc' = "command" /\ replies' = Append(replies, 220)
    BY <1>2, TellCases DEF Greet, Answer
  <2>2. UNCHANGED <<Stream, pending, cphase>>
    BY DEF Greet, clientVars, Stream
  <2>3. QED
    BY <2>1, <2>2, VerdictStep DEF ReadsCommands
<1>3. QED
  BY <1>1, <1>2

\* The drain wins between two commands: every message awaited has its verdict.
LEMMA SyncDrained == ASSUME TypeOK, SyncInv, Drained PROVE SyncInv'
<1>1. AtCommands /\ Owed = 0
  BY DEF Drained, SyncInv, ReadsCommands, Owed
<1>2. pc' = "Drained" /\ UNCHANGED <<buf, sock, pending>>
  BY DEF Drained, Tell, clientVars
<1>3. Stream' = Stream
  BY <1>2 DEF Stream
<1>4. replies' = replies \/ replies' = Append(replies, 421)
  BY DEF Drained, Tell
<1>5. \A i \in DOMAIN Stream' : Stream'[i].role = "cmd"
  BY <1>1, <1>3, Counts DEF AtCommands, CommandsAfter
<1>6. ASSUME NEW i \in DOMAIN pending, pending[i].line = "MESSAGE" PROVE i \in 1..Len(replies)
  <2> SUFFICES ASSUME i > Len(replies) PROVE FALSE
    BY Counts
  <2>1. i - Len(replies) \in 0 + 1..Len(Stream) /\ Ahead = Len(replies)
        /\ Ahead + (i - Len(replies)) - 0 = i
    BY <1>1, Counts DEF AtCommands, CommandsAfter, Ahead
  <2>2. pending[i].line = Stream[i - Len(replies)].line /\ Stream[i - Len(replies)].line # "MESSAGE"
    BY <1>1, <2>1 DEF AtCommands, CommandsAfter
  <2>3. QED
    BY <1>6, <2>2
<1>7. \A i \in 1..Len(replies) : replies[i] \notin {354, 421}
  BY <1>1, Counts DEF AtCommands, Plain
<1>8. CASE replies' = replies
  BY <1>2, <1>3, <1>5, <1>6, <1>7, <1>8, Counts DEF AtDrained, SyncInv, ReadsCommands, ReadsText
<1>9. CASE replies' = Append(replies, 421)
  <2>1. /\ Len(replies') = Len(replies) + 1 /\ replies'[Len(replies) + 1] = 421
        /\ \A i \in 1..Len(replies) : replies'[i] = replies[i]
    BY <1>9, ReplySent
  <2>2. DOMAIN replies' = 1..Len(replies) + 1
    <3>1. replies \in Seq(Nat)
      BY DEF TypeOK, WireType
    <3>2. QED
      BY <1>9, <3>1
  <2>3. \A i \in DOMAIN replies' : replies'[i] # 354 /\ (replies'[i] = 421 => i = Len(replies'))
    BY <1>7, <2>1, <2>2, Counts
  <2>4. \A i \in DOMAIN pending' :
          pending'[i].line = "MESSAGE" => i <= Len(replies') /\ replies'[i] # 421
    BY <1>2, <1>6, <1>7, <2>1, Counts
  <2>5. QED
    BY <1>2, <1>5, <2>3, <2>4 DEF AtDrained, SyncInv, ReadsCommands, ReadsText
<1>10. QED
  BY <1>4, <1>8, <1>9

\* A command that is taken leaves the client and the socket alone.
LEMMA CommandTaken ==
  ASSUME NEW l, Command(l)
  PROVE  pc = "command" /\ buf # <<>> /\ buf' = Tail(buf) /\ Head(buf).line = l
BY DEF Command, Take

\* What is answered with one of these goes on in the loop.
LEMMA SyncAnswer ==
  ASSUME TypeOK, TypeOK', SyncInv, pc = "command", buf # <<>>, buf' = Tail(buf),
         UNCHANGED <<sock, clientVars>>,
         NEW code \in Nat \ {220, 334, 354, 421}, Answer(code, "command")
  PROVE  SyncInv'
<1>1. CASE pc' = "Io"
  BY <1>1, EndStep
<1>2. CASE replies' = Append(replies, code) /\ pc' = "command"
  BY <1>2, AnswerStep DEF clientVars
<1>3. QED
  BY <1>1, <1>2, TellCases DEF Answer

LEMMA SyncSimple ==
  ASSUME TypeOK, TypeOK', SyncInv, OutOfSequence \/ ReplyOnly \/ Rset \/ Greeting
  PROVE  SyncInv'
<1>1. UNCHANGED <<sock, clientVars>>
  BY DEF OutOfSequence, ReplyOnly, Rset, Greeting
<1>2. pc = "command" /\ buf # <<>> /\ buf' = Tail(buf)
  BY DEF OutOfSequence, ReplyOnly, Rset, Greeting, Command, Take
<1>3. \E code \in {250, 500, 503, 530, 553} : Answer(code, "command")
  BY DEF OutOfSequence, ReplyOnly, Rset, Greeting
<1>4. QED
  BY <1>1, <1>2, <1>3, SyncAnswer

LEMMA SyncEnvelope == ASSUME TypeOK, TypeOK', SyncInv, Mail \/ Rcpt PROVE SyncInv'
<1>1. UNCHANGED <<sock, clientVars>>
  BY DEF Mail, Rcpt
<1>2. pc = "command" /\ buf # <<>> /\ buf' = Tail(buf)
  BY CommandTaken DEF Mail, Rcpt
<1>3. \E code \in {250, 450, 452, 501} : Answer(code, "command")
  BY DEF Mail, Rcpt
<1>4. QED
  BY <1>1, <1>2, <1>3, SyncAnswer

\* What is read in the clear is thrown away; what is awaited is the 220.
LEMMA SyncStartTls == ASSUME TypeOK, TypeOK', SyncInv, StartTls PROVE SyncInv'
<1>1. CASE pc' = "Io"
  BY <1>1, EndStep
<1>2. CASE pc' # "Io"
  <2>1. pc = "command" /\ pc' = "handshake" /\ replies' = Append(replies, 220) /\ buf' = <<>>
    BY <1>2, TellCases DEF StartTls, Answer
  <2>2. buf # <<>> /\ Head(buf).line = "STARTTLS" /\ UNCHANGED <<sock, pending, cphase>>
    BY DEF StartTls, clientVars
  <2>3. AtCommands /\ Owed = 0
    BY <2>1 DEF SyncInv, ReadsCommands, Owed
  <2>4. Len(Stream) >= 1 /\ Stream[1] = Head(buf)
    <3>1. buf \in Seq(Lines) /\ sock \in Seq(Lines)
      BY DEF TypeOK, WireType
    <3>2. QED
      BY <2>2, <3>1 DEF Stream
  <2>5. /\ Len(pending) >= Len(replies) + 1
        /\ pending[Len(replies) + 1].line = "STARTTLS"
    BY <2>2, <2>3, <2>4, Counts DEF AtCommands, CommandsAfter, Ahead
  <2>6. /\ Len(replies') = Len(replies) + 1 /\ replies'[Len(replies) + 1] = 220
        /\ \A i \in 1..Len(replies) : replies'[i] = replies[i]
    BY <2>1, ReplySent
  <2>7. replies' # <<>>
    <3>1. replies \in Seq(Nat)
      BY DEF TypeOK, WireType
    <3>2. QED
      BY <2>1, <3>1
  <2>8. \A i \in 1..Len(replies') - 1 : Plain(i)'
    BY <2>2, <2>3, <2>6, Counts DEF AtCommands, Plain
  <2>9. cphase' \in {"cmd", "wait", "done"}
    BY <2>2, <2>3 DEF AtCommands, Pipelined
  <2>10. AtHandshake'
    BY <2>1, <2>2, <2>5, <2>6, <2>7, <2>8, <2>9 DEF AtHandshake
  <2>11. QED
    BY <2>1, <2>10 DEF SyncInv, ReadsCommands, ReadsText
<1>3. QED
  BY <1>1, <1>2

\* finish_auth answers 235 or 535.
LEMMA FinishAuthAnswers ==
  ASSUME NEW cred, finish_auth(cred) PROVE \E code \in {235, 535} : Answer(code, "command")
BY DEF finish_auth

\* A challenge goes to a client that waits for it.
LEMMA SyncAuth == ASSUME TypeOK, TypeOK', SyncInv, Auth PROVE SyncInv'
<1>1. UNCHANGED <<sock, clientVars>>
  BY DEF Auth
<1>2. pc = "command" /\ buf # <<>> /\ buf' = Tail(buf)
  BY CommandTaken DEF Auth
<1>3. CASE \E code \in {235, 504, 535} : Answer(code, "command")
  BY <1>1, <1>2, <1>3, SyncAnswer
<1>4. CASE \E next \in SaslPhases : Answer(334, next) /\ Blocks(Head(buf))
  <2>1. CASE pc' = "Io"
    BY <2>1, EndStep
  <2>2. CASE pc' # "Io"
    <3>1. replies' = Append(replies, 334) /\ pc' \in SaslPhases /\ Blocks(Head(buf))
      BY <1>4, <2>2, TellCases DEF Answer
    <3>2. Challenged(334)'
      BY <1>1, <1>2, <3>1, ChallengeStep DEF clientVars
    <3>3. QED
      BY <3>1, <3>2 DEF SyncInv, ReadsCommands, ReadsText, AtToken
  <2>3. QED
    BY <2>1, <2>2
<1>5. QED
  <2>1. CASE Command("AUTH PLAIN") /\ Arg = None /\ Answer(334, "plain")
    BY <1>4, <2>1, CommandTaken DEF Blocks, Arg, AuthVerbs
  <2>2. CASE finish_auth(Arg)
    BY <1>3, <2>2, FinishAuthAnswers
  <2>3. CASE Command("AUTH LOGIN") /\ Answer(334, "login_user")
    BY <1>4, <2>3, CommandTaken DEF Blocks, AuthVerbs
  <2>4. CASE Answer(504, "command")
    BY <1>3, <2>4
  <2>5. QED
    BY <2>1, <2>2, <2>3, <2>4 DEF Auth

LEMMA SyncAuthToken == ASSUME TypeOK, TypeOK', SyncInv, AuthToken PROVE SyncInv'
<1>1. /\ UNCHANGED <<sock, pending, cphase>> /\ pc \in SaslPhases /\ buf # <<>> /\ buf' = Tail(buf)
      /\ Head(buf).line # "long"
  BY DEF AuthToken, Take, clientVars
<1>2. CASE pc' = "Io"
  BY <1>2, EndStep
<1>3. CASE pc' # "Io"
  <2>1. \/ \E code \in {235, 500, 535} : Answer(code, "command")
        \/ Answer(334, "login_pass")
    <3>1. CASE Head(buf).line = "blank"
      BY <3>1 DEF AuthToken
    <3>2. CASE Head(buf).line # "blank" /\ pc = "plain"
      BY <3>2, FinishAuthAnswers DEF AuthToken
    <3>3. CASE Head(buf).line # "blank" /\ pc = "login_user"
      BY <3>3 DEF AuthToken
    <3>4. CASE Head(buf).line # "blank" /\ pc = "login_pass"
      BY <3>4, FinishAuthAnswers DEF AuthToken
    <3>5. QED
      BY <1>1, <3>1, <3>2, <3>3, <3>4
  <2>2. CASE \E code \in {235, 500, 535} : Answer(code, "command")
    <3>1. PICK code \in {235, 500, 535} : replies' = Append(replies, code) /\ pc' = "command"
      BY <1>3, <2>2, TellCases DEF Answer
    <3>2. QED
      BY <1>1, <3>1, TokenStep
  <2>3. CASE Answer(334, "login_pass")
    <3>1. replies' = Append(replies, 334) /\ pc' = "login_pass"
      BY <1>3, <2>3, TellCases DEF Answer
    <3>2. QED
      BY <1>1, <3>1, TokenStep
  <2>4. QED
    BY <2>1, <2>2, <2>3
<1>4. QED
  BY <1>2, <1>3

\* The 354 goes to a client that waits for it.
LEMMA SyncData == ASSUME TypeOK, TypeOK', SyncInv, Data PROVE SyncInv'
<1>1. UNCHANGED <<sock, pending, cphase>> /\ at_line_start' = TRUE /\ body_follows' = TRUE
  BY DEF Data, clientVars
<1>2. pc = "command" /\ buf # <<>> /\ buf' = Tail(buf) /\ Head(buf).line = "DATA"
  BY CommandTaken DEF Data
<1>3. CASE pc' = "Io"
  BY <1>3, EndStep
<1>4. CASE pc' # "Io"
  <2>1. replies' = Append(replies, 354) /\ pc' = "header"
    BY <1>4, TellCases DEF Data, Answer
  <2>2. Challenged(354)'
    BY <1>1, <1>2, <2>1, ChallengeStep DEF Blocks
  <2>3. QED
    BY <1>1, <2>1, <2>2 DEF SyncInv, ReadsCommands, ReadsText, AtText
<1>5. QED
  BY <1>3, <1>4

\* The message goes on: the phase it goes on in, and what it may rely on there.
TextFollows ==
  /\ ReadsText /\ (pc \in {"header", "open_body"} => at_line_start /\ body_follows)
  /\ pc = "discard" => why # "none"

LEMMA SyncText ==
  ASSUME TextFollows', \E t \in Nat : InText(t)' PROVE SyncInv'
<1>1. AtText'
  BY DEF TextFollows, AtText
<1>2. ~ReadsCommands' /\ pc' \notin SaslPhases \cup {"handshake", "Drained"}
  BY DEF TextFollows, ReadsText, ReadsCommands
<1>3. QED
  BY <1>1, <1>2 DEF SyncInv

\* The message is over: commands are next, and it may still be owed its verdict.
LEMMA SyncOver ==
  ASSUME TypeOK, SyncInv, pc \in {"header", "body", "discard"}, buf # <<>>, buf' = Tail(buf),
         UNCHANGED <<sock, pending, cphase, replies>>, Head(buf).line = "dot", at_line_start,
         ReadsCommands', Owed' = Owed, pc' # "command" => Owed = 1
  PROVE  SyncInv'
<1>1. Ahead' = Ahead
  BY DEF Ahead
<1>2. /\ CommandsAfter(0)' /\ Pipelined' /\ Ahead <= 1 /\ (Ahead = 1 => pending[1].line = "MESSAGE")
      /\ \A i \in DOMAIN replies : Plain(i)
  BY <1>1, TerminatorStep
<1>3. \A i \in DOMAIN replies' : Plain(i)'
  BY <1>2 DEF Plain
<1>4. pc' # "command" => replies = <<>> /\ pending[1].line = "MESSAGE"
  BY <1>2, Counts DEF Ahead
<1>5. AtCommands'
  BY <1>2, <1>3, <1>4 DEF AtCommands
<1>6. QED
  BY <1>5 DEF SyncInv, ReadsCommands, ReadsText

LEMMA SyncHeaderLine == ASSUME TypeOK, TypeOK', SyncInv, HeaderLine PROVE SyncInv'
<1>1. /\ pc = "header" /\ buf # <<>> /\ buf' = Tail(buf)
      /\ UNCHANGED <<sock, replies, pending, cphase>>
  BY DEF HeaderLine, Take, clientVars
<1>2. at_line_start /\ body_follows /\ at_line_start \in BOOLEAN /\ body_follows \in BOOLEAN
  BY <1>1 DEF SyncInv, ReadsText, AtText, TypeOK, DataType
<1>3. Owed = 1
  BY <1>1 DEF Owed
<1>4. CASE Head(buf).line = "dot"
  <2>1. pc' = "open_body" /\ body_follows' = FALSE
    BY <1>4 DEF HeaderLine
  <2>2. Owed' = 1 /\ ReadsCommands'
    BY <2>1 DEF Owed, ReadsCommands
  <2>3. QED
    BY <1>1, <1>2, <1>3, <1>4, <2>1, <2>2, SyncOver
<1>5. CASE Head(buf).line # "dot"
  <2>1. /\ pc' \in {"header", "open_body", "discard"} /\ body_follows' = body_follows
        /\ pc' = "discard" => why' = "large"
        /\ at_line_start' = (Head(buf).line # "long")
        /\ Head(buf).line = "long" => pc' = "discard"
    <3>1. CASE Head(buf).line = "long"
      BY <3>1 DEF HeaderLine, Discard
    <3>2. CASE Head(buf).line = "blank"
      BY <1>1, <1>2, <3>2 DEF HeaderLine, dataVars
    <3>3. CASE Head(buf).line \notin {"dot", "long", "blank"}
      BY <1>1, <1>2, <3>3 DEF HeaderLine, Discard
    <3>4. QED
      BY <1>5, <3>1, <3>2, <3>3
  <2>2. Owed' = 1
    BY <2>1 DEF Owed
  <2>3. \E t \in Nat : InText(t)'
    BY <1>1, <1>3, <1>5, <2>1, <2>2, TextStep
  <2>4. TextFollows'
    BY <1>2, <2>1 DEF TextFollows, ReadsText
  <2>5. QED
    BY <2>3, <2>4, SyncText
<1>6. QED
  BY <1>4, <1>5

LEMMA SyncBodyLine == ASSUME TypeOK, TypeOK', SyncInv, BodyLine PROVE SyncInv'
<1>1. /\ pc = "body" /\ buf # <<>> /\ buf' = Tail(buf)
      /\ UNCHANGED <<sock, replies, pending, cphase, why, body_follows>>
  BY DEF BodyLine, Take, clientVars
<1>2. Owed = 1
  BY <1>1 DEF Owed
<1>3. CASE AtTerminator
  <2>1. pc' = "finish"
    BY <1>3 DEF BodyLine, AtTerminator
  <2>2. Owed' = 1 /\ ReadsCommands'
    BY <2>1 DEF Owed, ReadsCommands
  <2>3. QED
    BY <1>1, <1>2, <1>3, <2>1, <2>2, SyncOver DEF AtTerminator
<1>4. CASE ~AtTerminator
  <2>1. pc' \in {"body", "write"} /\ at_line_start' = (Head(buf).line # "long")
    BY <1>4 DEF BodyLine
  <2>2. Owed' = 1 /\ TextFollows'
    BY <2>1 DEF Owed, TextFollows, ReadsText
  <2>3. \E t \in Nat : InText(t)'
    BY <1>1, <1>2, <1>4, <2>1, <2>2, TextStep DEF AtTerminator
  <2>4. QED
    BY <2>2, <2>3, SyncText
<1>5. QED
  BY <1>3, <1>4

\* What is said or decided in the middle of a message leaves its text alone.
LEMMA TextIdle ==
  ASSUME SyncInv, pc = "write" \/ (pc = "open_body" /\ body_follows),
         UNCHANGED <<Stream, pending, cphase, at_line_start>>, Ahead' = Ahead,
         (\A i \in DOMAIN replies : Plain(i)) => \A i \in DOMAIN replies' : Plain(i)'
  PROVE  \E t \in Nat : InText(t)'
<1>1. PICK t \in Nat : InText(t)
  BY DEF SyncInv, ReadsText, AtText
<1>2. CommandsAfter(t)' /\ TextBefore(t)' /\ (Pipelined => Pipelined')
  BY <1>1, Same DEF InText
<1>3. LineStart(t + 1)' = LineStart(t + 1)
  BY DEF LineStart
<1>4. InText(t)'
  BY <1>1, <1>2, <1>3 DEF InText
<1>5. QED
  BY <1>4

LEMMA SyncOpenBody == ASSUME TypeOK, TypeOK', SyncInv, OpenBody PROVE SyncInv'
<1>1. pc = "open_body" /\ UNCHANGED <<buf, sock, pending, cphase, body_follows>> /\ Stream' = Stream
  BY DEF OpenBody, clientVars, Stream
<1>2. Owed = 1
  BY <1>1 DEF Owed
<1>3. CASE pc' = "Closed"
  BY <1>3, EndStep
<1>4. CASE body_follows
  <2>1. at_line_start = TRUE
    BY <1>1, <1>4 DEF SyncInv, ReadsText, AtText, TypeOK, DataType
  <2>2. /\ pc' = "body" \/ (pc' = "discard" /\ why' = "refused")
        /\ replies' = replies /\ at_line_start' = at_line_start
    BY <1>4, <2>1 DEF OpenBody, Discard
  <2>3. Owed' = 1 /\ TextFollows'
    BY <2>2 DEF Owed, TextFollows, ReadsText
  <2>4. Ahead' = Ahead
    BY <1>2, <2>2, <2>3 DEF Ahead
  <2>5. (\A i \in DOMAIN replies : Plain(i)) => \A i \in DOMAIN replies' : Plain(i)'
    BY <1>1, <2>2, Same DEF Plain
  <2>6. \E t \in Nat : InText(t)'
    BY <1>1, <1>4, <2>2, <2>4, <2>5, TextIdle
  <2>7. QED
    BY <2>3, <2>6, SyncText
<1>5. CASE ~body_follows /\ pc' = "finish"
  <2>1. replies' = replies
    BY <1>5 DEF OpenBody, Discard, refuse_data, Tell
  <2>2. AtCommands /\ Owed' = 1
    BY <1>1, <1>5 DEF SyncInv, ReadsCommands, Owed
  <2>3. Ahead' = Ahead
    BY <1>2, <2>1, <2>2 DEF Ahead
  <2>4. AtCommands'
    BY <1>1, <2>1, <2>2, <2>3, Same DEF AtCommands
  <2>5. QED
    BY <1>5, <2>4 DEF SyncInv, ReadsCommands, ReadsText
<1>6. CASE ~body_follows /\ pc' \notin {"finish", "Closed"}
  <2>1. pc' = "command" /\ replies' = Append(replies, 550)
    BY <1>6, TellCases DEF OpenBody, Discard, refuse_data
  <2>2. QED
    BY <1>1, <1>6, <2>1, VerdictStep DEF ReadsCommands
<1>7. QED
  BY <1>3, <1>4, <1>5, <1>6

\* A refusal in the middle of a message is the verdict that was owed for it.
LEMMA SyncWrite == ASSUME TypeOK, TypeOK', SyncInv, Write PROVE SyncInv'
<1>1. /\ pc = "write" /\ UNCHANGED <<buf, sock, pending, cphase, body_follows, at_line_start>>
      /\ Stream' = Stream
  BY DEF Write, clientVars, Stream
<1>2. Owed = 1
  BY <1>1 DEF Owed
<1>3. CASE pc' = "Closed"
  BY <1>3, EndStep
<1>4. CASE pc' = "body" /\ replies' = replies
  <2>1. Owed' = 1 /\ TextFollows'
    BY <1>4 DEF Owed, TextFollows, ReadsText
  <2>2. Ahead' = Ahead
    BY <1>2, <1>4, <2>1 DEF Ahead
  <2>3. (\A i \in DOMAIN replies : Plain(i)) => \A i \in DOMAIN replies' : Plain(i)'
    BY <1>1, <1>4, Same DEF Plain
  <2>4. \E t \in Nat : InText(t)'
    BY <1>1, <2>2, <2>3, TextIdle
  <2>5. QED
    BY <2>1, <2>4, SyncText
<1>5. CASE pc' = "discard" /\ why' = "mirror" /\ replies' = Append(replies, 550)
  <2>1. Owed' = 0 /\ TextFollows'
    BY <1>5 DEF Owed, TextFollows, ReadsText
  <2>2. Ahead' = Ahead
    <3>1. Len(replies') = Len(replies) + 1
      BY <1>5, ReplySent
    <3>2. QED
      BY <1>2, <2>1, <3>1, Counts DEF Ahead
  <2>3. ASSUME \A i \in DOMAIN replies : Plain(i) PROVE \A i \in DOMAIN replies' : Plain(i)'
    BY <1>1, <1>5, <2>3, ReplyOwed
  <2>4. \E t \in Nat : InText(t)'
    BY <1>1, <2>2, <2>3, TextIdle
  <2>5. QED
    BY <2>1, <2>4, SyncText
<1>6. QED
  BY <1>3, <1>4, <1>5, TellCases DEF Write, mirror, refuse_data

LEMMA SyncFinish == ASSUME TypeOK, TypeOK', SyncInv, Finish PROVE SyncInv'
<1>1. pc = "finish" /\ UNCHANGED <<Stream, pending, cphase>>
  BY DEF Finish, clientVars, Stream
<1>2. CASE pc' = "Closed"
  BY <1>2, EndStep
<1>3. CASE pc' # "Closed"
  <2>1. PICK code \in {250, 550} : replies' = Append(replies, code) /\ pc' = "command"
    BY <1>3, TellCases DEF Finish, conclude, refuse_data
  <2>2. QED
    BY <1>1, <2>1, VerdictStep DEF ReadsCommands
<1>4. QED
  BY <1>2, <1>3

\* A message that was refused ends where its client ends it.
LEMMA SyncDiscardLine == ASSUME TypeOK, TypeOK', SyncInv, DiscardLine PROVE SyncInv'
<1>1. /\ pc = "discard" /\ buf # <<>> /\ buf' = Tail(buf)
      /\ UNCHANGED <<sock, pending, cphase, why, body_follows>>
  BY DEF DiscardLine, Take, clientVars
<1>2. why # "none" /\ why \in {"none", "large", "refused", "mirror"}
  BY <1>1 DEF SyncInv, ReadsText, AtText, TypeOK, DataType
<1>3. CASE ~AtTerminator
  <2>1. pc' = pc /\ replies' = replies /\ at_line_start' = (Head(buf).line # "long")
    BY <1>3 DEF DiscardLine
  <2>2. Owed' = Owed /\ TextFollows'
    BY <1>1, <1>2, <2>1 DEF Owed, TextFollows, ReadsText
  <2>3. \E t \in Nat : InText(t)'
    BY <1>1, <1>3, <2>1, <2>2, TextStep DEF AtTerminator
  <2>4. QED
    BY <2>2, <2>3, SyncText
<1>4. CASE AtTerminator /\ pc' = "Closed"
  BY <1>4, EndStep
<1>5. CASE AtTerminator /\ why = "mirror"
  <2>1. pc' = "command" /\ replies' = replies
    BY <1>5 DEF DiscardLine, TerminatorReply
  <2>2. Owed = 0 /\ Owed' = 0 /\ ReadsCommands'
    BY <1>1, <1>5, <2>1 DEF Owed, ReadsCommands
  <2>3. QED
    BY <1>1, <1>5, <2>1, <2>2, SyncOver DEF AtTerminator
<1>6. CASE AtTerminator /\ why # "mirror" /\ pc' # "Closed"
  <2>1. PICK code \in {550, 552} : replies' = Append(replies, code) /\ pc' = "command"
    BY <1>2, <1>6, TellCases DEF DiscardLine, TerminatorReply, refuse_data
  <2>2. Owed = 1 /\ Owed' = 0
    BY <1>1, <1>6, <2>1 DEF Owed
  <2>3. Ahead' = Ahead
    <3>1. Len(replies') = Len(replies) + 1
      BY <2>1, ReplySent
    <3>2. QED
      BY <2>2, <3>1, Counts DEF Ahead
  <2>4. CommandsAfter(0)' /\ Pipelined' /\ \A i \in DOMAIN replies : Plain(i)
    BY <1>1, <1>6, <2>3, TerminatorStep DEF AtTerminator
  <2>5. \A i \in DOMAIN replies' : Plain(i)'
    BY <1>1, <2>1, <2>4, ReplyOwed
  <2>6. AtCommands'
    BY <2>1, <2>4, <2>5 DEF AtCommands
  <2>7. QED
    BY <2>1, <2>6 DEF SyncInv, ReadsCommands, ReadsText
<1>7. QED
  BY <1>2, <1>3, <1>4, <1>5, <1>6

LEMMA SyncServe == ASSUME TypeOK, TypeOK', SyncInv, Serve PROVE SyncInv'
BY SyncRead, SyncLeaves, SyncGreet, SyncDrained, SyncSimple, SyncStartTls, SyncAuth, SyncAuthToken,
   SyncEnvelope, SyncData, SyncHeaderLine, SyncOpenBody, SyncBodyLine, SyncWrite, SyncFinish,
   SyncDiscardLine DEF Serve

-----------------------------------------------------------------------------
(* The steps of the client *)

\* The handshake leaves nothing of the session before it.
LEMMA SyncHandshake == ASSUME TypeOK, TypeOK', SyncInv, ClientHandshake PROVE SyncInv'
<1>1. CASE pc' = "TlsFailed"
  BY <1>1, EndStep
<1>2. CASE pc' # "TlsFailed"
  <2>1. /\ pc = "handshake" /\ cphase = "hello" /\ pc' = "command" /\ cphase' = "cmd"
        /\ sock = <<>> /\ UNCHANGED <<buf, sock, replies, pending>>
    BY <1>2 DEF ClientHandshake
  <2>2. buf = <<>> /\ pending = <<>> /\ replies = <<>>
    BY <2>1 DEF SyncInv, AtHandshake
  <2>3. Stream' = <<>>
    BY <2>1, <2>2 DEF Stream
  <2>4. Owed' = 0
    BY <2>1 DEF Owed
  <2>5. CommandsAfter(0)'
    <3>1. Len(Stream') = 0 /\ Len(pending') = 0 /\ Len(replies') = 0
      BY <2>1, <2>2, <2>3
    <3>2. QED
      BY <2>4, <3>1 DEF CommandsAfter, Ahead
  <2>6. Pipelined' /\ \A i \in DOMAIN replies' : Plain(i)'
    BY <2>1, <2>2 DEF Pipelined
  <2>7. AtCommands'
    BY <2>1, <2>5, <2>6 DEF AtCommands
  <2>8. QED
    BY <2>1, <2>7 DEF SyncInv, ReadsCommands, ReadsText
<1>3. QED
  BY <1>1, <1>2

LEMMA PendingAppended ==
  ASSUME TypeOK, NEW c \in Awaited, pending' = Append(pending, c)
  PROVE  /\ Len(pending') = Len(pending) + 1 /\ pending'[Len(pending) + 1] = c
         /\ \A i \in 1..Len(pending) : pending'[i] = pending[i]
         /\ DOMAIN pending' = 1..Len(pending) + 1 /\ pending' # <<>>
<1>1. pending \in Seq(Awaited)
  BY DEF TypeOK, ClientType
<1>2. QED
  BY <1>1

\* A command goes to the end of the stream and of what is awaited.
LEMMA CommandAppended ==
  ASSUME TypeOK, NEW c \in Commands, Puts(c.line, c.arg, "cmd"), pending' = Append(pending, c),
         UNCHANGED <<buf, replies>>, Owed' = Owed, NEW t \in Nat, CommandsAfter(t)
  PROVE  CommandsAfter(t)'
<1>1. c \in Awaited /\ c.line \in Words /\ c.arg \in Args
  BY NamesAssumption DEF NamesAssumption, Awaited
<1>2. c.line # "MESSAGE" /\ (c.line = "MAIL" => c.arg # None)
  BY CommandsAssumption DEF CommandsAssumption
<1>3. /\ Len(Stream') = Len(Stream) + 1 /\ \A i \in 1..Len(Stream) : Stream'[i] = Stream[i]
      /\ Stream'[Len(Stream) + 1].line = c.line /\ Stream'[Len(Stream) + 1].arg = c.arg
      /\ Stream'[Len(Stream) + 1].role = "cmd"
  BY <1>1, StreamPuts
<1>4. /\ Len(pending') = Len(pending) + 1 /\ pending'[Len(pending) + 1] = c
      /\ \A i \in 1..Len(pending) : pending'[i] = pending[i]
  BY <1>1, PendingAppended
<1>5. Ahead' = Ahead /\ Ahead \in Nat
  BY OwedType, Counts DEF Ahead
<1>6. t \in 0..Len(Stream) /\ Len(pending) = Ahead + Len(Stream) - t
  BY DEF CommandsAfter
<1>7. t \in 0..Len(Stream') /\ Len(pending') = Ahead' + Len(Stream') - t
  BY <1>3, <1>4, <1>5, <1>6, Counts
<1>8. ASSUME NEW i \in t + 1..Len(Stream')
      PROVE  /\ Stream'[i].role = "cmd" /\ Stream'[i].line # "MESSAGE"
             /\ Stream'[i].line = "MAIL" => Stream'[i].arg # None
             /\ pending'[Ahead' + i - t].line = Stream'[i].line
             /\ pending'[Ahead' + i - t].arg = Stream'[i].arg
  <2>1. CASE i \in t + 1..Len(Stream)
    <3>1. i \in 1..Len(Stream) /\ Ahead + i - t \in 1..Len(pending)
      BY <1>5, <1>6, <2>1, Counts
    <3>2. Stream'[i] = Stream[i] /\ pending'[Ahead + i - t] = pending[Ahead + i - t]
      BY <1>3, <1>4, <3>1
    <3>3. QED
      BY <1>5, <2>1, <3>2 DEF CommandsAfter
  <2>2. CASE i = Len(Stream) + 1
    <3>1. Ahead' + i - t = Len(pending) + 1
      BY <1>5, <1>6, <2>2, Counts
    <3>2. pending'[Ahead' + i - t] = c
      BY <1>4, <3>1
    <3>3. Stream'[i].line = c.line /\ Stream'[i].arg = c.arg /\ Stream'[i].role = "cmd"
      BY <1>3, <2>2
    <3>4. QED
      BY <1>2, <3>2, <3>3
  <2>3. i \in t + 1..Len(Stream) \/ i = Len(Stream) + 1
    BY <1>3, <1>6, Counts
  <2>4. QED
    BY <2>1, <2>2, <2>3
<1>9. QED
  BY <1>7, <1>8 DEF CommandsAfter

LEMMA LastOrBefore ==
  ASSUME NEW n \in Nat PROVE \A i \in 1..n + 1 : i \in 1..n \/ i = n + 1
OBVIOUS

\* Behind a command that holds it up the client sends nothing more.
LEMMA PipelinedAppended ==
  ASSUME TypeOK, NEW c \in Commands, pending' = Append(pending, c), cphase = "cmd", Pipelined,
         cphase' = CASE c.line = "DATA" -> "wait"
                     [] c.line \in AuthVerbs /\ (c.arg = None \/ c.line = "AUTH LOGIN") -> "wait"
                     [] c.line \in {"QUIT", "long"} -> "done"
                     [] OTHER -> "cmd"
  PROVE  Pipelined'
<1>1. c \in Awaited /\ c.line # "TOKEN"
  BY NamesAssumption, CommandsAssumption DEF NamesAssumption, CommandsAssumption
<1>2. /\ Len(pending') = Len(pending) + 1 /\ pending'[Len(pending) + 1] = c
      /\ \A i \in 1..Len(pending) : pending'[i] = pending[i]
      /\ DOMAIN pending' = 1..Len(pending) + 1 /\ pending' # <<>>
  BY <1>1, PendingAppended
<1>3. Blocks(c) <=> cphase' = "wait"
  BY <1>1 DEF Blocks, AuthVerbs
<1>4. cphase' \in {"cmd", "wait", "done"}
  BY DEF AuthVerbs
<1>5. \A i \in 1..Len(pending) : ~Blocks(pending[i])
  BY Counts DEF Pipelined
<1>6. ASSUME NEW i \in 1..Len(pending) + 1, Blocks(pending'[i])
      PROVE  i = Len(pending') /\ cphase' = "wait"
  <2>1. i \notin 1..Len(pending)
    BY <1>2, <1>5, <1>6 DEF Blocks
  <2>2. i = Len(pending) + 1
    BY <2>1, Counts, LastOrBefore
  <2>3. pending'[i] = c
    BY <1>2, <2>2
  <2>4. Blocks(c)
    BY <1>6, <2>3
  <2>5. QED
    BY <1>2, <1>3, <2>2, <2>4
<1>7. ASSUME cphase' = "wait" PROVE Blocks(pending'[Len(pending')])
  BY <1>2, <1>3, <1>7
<1>8. QED
  BY <1>2, <1>4, <1>6, <1>7 DEF Pipelined

LEMMA SyncClientCommand == ASSUME TypeOK, TypeOK', SyncInv, ClientCommand PROVE SyncInv'
<1>1. PICK c \in Commands :
        /\ Puts(c.line, c.arg, "cmd") /\ pending' = Append(pending, c)
        /\ cphase' = CASE c.line = "DATA" -> "wait"
                       [] c.line \in AuthVerbs /\ (c.arg = None \/ c.line = "AUTH LOGIN") -> "wait"
                       [] c.line \in {"QUIT", "long"} -> "done"
                       [] OTHER -> "cmd"
  BY DEF ClientCommand
<1>2. /\ UNCHANGED <<pc, buf, replies, why, body_follows, at_line_start>>
      /\ cphase = "cmd" /\ pc \notin Ends
  BY DEF ClientCommand, CanSend, Connected, serverVars, dataVars
<1>3. Owed' = Owed /\ Ahead' = Ahead
  BY <1>2 DEF Owed, Ahead
<1>4. c \in Awaited /\ c.line \in Words /\ c.arg \in Args
  BY NamesAssumption DEF NamesAssumption, Awaited
<1>5. /\ Len(pending') = Len(pending) + 1 /\ pending' # <<>>
      /\ \A i \in 1..Len(pending) : pending'[i] = pending[i]
  BY <1>1, <1>4, PendingAppended
<1>6. Pipelined => Pipelined'
  BY <1>1, <1>2, PipelinedAppended
<1>7. \A i \in 1..Len(pending) : Plain(i) => Plain(i)'
  BY <1>2, <1>5 DEF Plain
<1>8. \A t \in Nat : CommandsAfter(t) => CommandsAfter(t)'
  BY <1>1, <1>2, <1>3, CommandAppended
<1>9. cphase' \in {"cmd", "wait", "done"}
  BY <1>1 DEF AuthVerbs
<1>10. CASE ReadsCommands
  <2>1. AtCommands
    BY <1>10 DEF SyncInv
  <2>2. Len(replies) <= Len(pending)
    BY <2>1, Counts, OwedType DEF AtCommands, CommandsAfter, Ahead
  <2>3. \A i \in DOMAIN replies' : Plain(i)'
    BY <1>2, <1>7, <2>1, <2>2, Counts DEF AtCommands
  <2>4. pc # "command" => Len(pending) >= 1
    BY <1>10, <2>1, Counts DEF AtCommands, CommandsAfter, Ahead, Owed, ReadsCommands
  <2>5. pc' # "command" => replies' = <<>> /\ pending'[1].line \in {"GREETING", "MESSAGE"}
    BY <1>2, <1>5, <2>1, <2>4, Counts DEF AtCommands
  <2>6. AtCommands'
    BY <1>6, <1>8, <2>1, <2>3, <2>5 DEF AtCommands
  <2>7. QED
    BY <1>2, <1>10, <2>6 DEF SyncInv, ReadsCommands, ReadsText
<1>11. CASE ReadsText
  <2>1. PICK t \in Nat : InText(t)
    BY <1>2, <1>11 DEF SyncInv, AtText, Challenged
  <2>2. CommandsAfter(t) /\ TextBefore(t) /\ Pipelined /\ t >= 1 /\ Stream[t].role = "end"
    BY <1>2, <2>1 DEF InText
  <2>3. t \in 1..Len(Stream) /\ Ahead <= Len(pending) /\ Len(replies) <= Len(pending)
    BY <2>2, Counts, OwedType DEF CommandsAfter, Ahead
  <2>4. \A i \in 1..Len(Stream) : Stream'[i] = Stream[i]
    BY <1>1, <1>2, <1>4, StreamPuts
  <2>5. \A i \in 1..t : LineStart(i)' = LineStart(i)
    BY <1>2, <2>3, <2>4 DEF LineStart
  <2>6. TextBefore(t)'
    BY <2>2, <2>3, <2>4, <2>5 DEF TextBefore
  <2>7. \A i \in DOMAIN replies' : Plain(i)'
    BY <1>2, <1>7, <2>1, <2>3, Counts DEF InText
  <2>8. Ahead = 1 => pending'[1] = pending[1]
    BY <1>5, <2>3, Counts
  <2>9. InText(t)'
    BY <1>3, <1>5, <1>6, <1>8, <1>9, <2>1, <2>2, <2>3, <2>4, <2>6, <2>7, <2>8 DEF InText
  <2>10. TextFollows'
    BY <1>2, <1>11 DEF TextFollows, ReadsText, SyncInv, AtText
  <2>11. QED
    BY <2>9, <2>10, SyncText
<1>12. CASE pc = "handshake"
  <2>1. /\ buf = <<>> /\ replies # <<>> /\ Len(replies) <= Len(pending)
        /\ pending[Len(replies)].line = "STARTTLS" /\ replies[Len(replies)] = 220
        /\ \A i \in 1..Len(replies) - 1 : Plain(i)
    BY <1>2, <1>12 DEF SyncInv, AtHandshake
  <2>2. Len(replies) \in 1..Len(pending)
    BY <2>1, Counts
  <2>3. pending'[Len(replies')].line = "STARTTLS" /\ Len(replies') <= Len(pending')
    BY <1>2, <1>5, <2>1, <2>2, Counts
  <2>4. \A i \in 1..Len(replies') - 1 : Plain(i)'
    BY <1>2, <1>7, <2>1, <2>2, Counts
  <2>5. AtHandshake'
    BY <1>2, <1>9, <2>1, <2>3, <2>4 DEF AtHandshake
  <2>6. QED
    BY <1>2, <1>12, <2>5 DEF SyncInv, ReadsCommands, ReadsText
<1>13. CASE pc \in SaslPhases
  BY <1>2, <1>13 DEF SyncInv, AtToken, Challenged
<1>14. QED
  <2>1. pc \in Phases /\ body_follows \in BOOLEAN
    BY DEF TypeOK, WireType, DataType
  <2>2. ReadsCommands \/ ReadsText \/ pc = "handshake" \/ pc \in SaslPhases
    BY <1>2, <2>1 DEF Phases, ReadsCommands, ReadsText
  <2>3. QED
    BY <1>10, <1>11, <1>12, <1>13, <2>2

\* The token is the only line under way, and its answer all that is awaited.
LEMMA SyncClientToken == ASSUME TypeOK, TypeOK', SyncInv, ClientToken PROVE SyncInv'
<1>1. /\ UNCHANGED <<pc, buf, replies, why, body_follows, at_line_start>>
      /\ cphase = "auth" /\ pc \notin Ends /\ pending' = Append(pending, Message("TOKEN"))
  BY DEF ClientToken, CanSend, Connected, serverVars, dataVars
<1>2. PICK line \in Words, arg \in Args :
        /\ Puts(line, arg, "auth")
        /\ cphase' = IF line = "long" THEN "done" ELSE "wait"
  <2>1. {"token", "blank", "long"} \subseteq Words /\ None \in Args /\ Junk \in Args /\ Users \subseteq Args
    BY DEF Words, Args
  <2>2. CASE \E t \in Users \cup {Junk} : Puts("token", t, "auth") /\ cphase' = "wait"
    BY <2>1, <2>2
  <2>3. CASE Puts("blank", None, "auth") /\ cphase' = "wait"
    BY <2>1, <2>3
  <2>4. CASE Puts("long", None, "auth") /\ cphase' = "done"
    BY <2>1, <2>4
  <2>5. QED
    BY <2>2, <2>3, <2>4 DEF ClientToken
<1>3. pc \in Phases /\ body_follows \in BOOLEAN
  BY DEF TypeOK, WireType, DataType
<1>4. ~ReadsCommands
  BY <1>1 DEF SyncInv, AtCommands, Pipelined
<1>5. ~ReadsText
  BY <1>1 DEF SyncInv, AtText, Challenged, InText, Pipelined
<1>6. pc # "handshake"
  BY <1>1 DEF SyncInv, AtHandshake
<1>7. pc \in SaslPhases
  BY <1>1, <1>3, <1>4, <1>5, <1>6 DEF Phases, ReadsCommands, ReadsText
<1>8. Stream = <<>> /\ pending = <<>> /\ replies = <<>>
  BY <1>1, <1>7 DEF SyncInv, AtToken, Challenged
<1>9. Len(Stream) = 0
  BY <1>8
<1>10. Len(Stream') = 1 /\ Stream'[1].role = "auth" /\ Stream'[1].line = line
  BY <1>1, <1>2, <1>9, StreamPuts
<1>11. pending' = <<Message("TOKEN")>>
  BY <1>1, <1>8
<1>12. AtToken'
  BY <1>1, <1>2, <1>8, <1>10, <1>11 DEF AtToken
<1>13. QED
  BY <1>1, <1>7, <1>12 DEF SyncInv, ReadsCommands, ReadsText

\* A line of text goes behind the text; a dot where a line begins ends it.
LEMMA SyncClientText == ASSUME TypeOK, TypeOK', SyncInv, ClientText PROVE SyncInv'
<1>1. /\ UNCHANGED <<pc, buf, replies, pending, why, body_follows, at_line_start>>
      /\ cphase \in {"data", "tail"} /\ pc \notin Ends
  BY DEF ClientText, CanSend, Connected, serverVars, dataVars
<1>2. PICK line \in Words, role \in {"text", "end"} :
        /\ Puts(line, None, role)
        /\ role = "end" <=> line = "dot" /\ cphase = "data"
        /\ cphase' = CASE role = "end" -> "cmd" [] line = "long" -> "tail" [] OTHER -> "data"
  <2>1. {"hdr", "blank", "dot", "long"} \subseteq Words
    BY DEF Words
  <2>2. CASE \E l \in {"hdr", "blank"} : Puts(l, None, "text") /\ cphase' = "data"
    BY <2>1, <2>2
  <2>3. CASE Puts("long", None, "text") /\ cphase' = "tail"
    BY <2>1, <2>3
  <2>4. CASE cphase = "data" /\ Puts("dot", None, "end") /\ cphase' = "cmd"
    BY <2>1, <2>4
  <2>5. CASE cphase = "tail" /\ Puts("dot", None, "text") /\ cphase' = "data"
    BY <2>1, <2>5
  <2>6. QED
    BY <2>2, <2>3, <2>4, <2>5 DEF ClientText
<1>3. pc \in Phases /\ body_follows \in BOOLEAN
  BY DEF TypeOK, WireType, DataType
<1>4. ~ReadsCommands
  BY <1>1 DEF SyncInv, AtCommands, Pipelined
<1>5. pc \notin SaslPhases
  BY <1>1 DEF SyncInv, AtToken, Challenged
<1>6. pc # "handshake"
  BY <1>1 DEF SyncInv, AtHandshake
<1>7. ReadsText
  BY <1>1, <1>3, <1>4, <1>5, <1>6 DEF Phases, ReadsCommands, ReadsText
<1>8. PICK t \in Nat : InText(t)
  BY <1>1, <1>7 DEF SyncInv, AtText, Challenged
<1>9. /\ t = Len(Stream) /\ \A i \in 1..t : Stream[i].role = "text"
      /\ cphase = "data" <=> LineStart(t + 1)
  BY <1>1, <1>8 DEF InText
<1>10. /\ Len(Stream') = t + 1 /\ \A i \in 1..t : Stream'[i] = Stream[i]
       /\ Stream'[t + 1].line = line /\ Stream'[t + 1].role = role
  BY <1>1, <1>2, <1>9, StreamPuts DEF Args
<1>11. \A i \in 1..t + 1 : LineStart(i)' = LineStart(i)
  <2>1. ASSUME NEW i \in 1..t + 1 PROVE LineStart(i)' = LineStart(i)
    <3>1. CASE i = 1
      BY <1>1, <3>1 DEF LineStart
    <3>2. CASE i # 1
      <4>1. i - 1 \in 1..t
        BY <3>2
      <4>2. Stream'[i - 1] = Stream[i - 1]
        BY <1>10, <4>1
      <4>3. QED
        BY <3>2, <4>2 DEF LineStart
    <3>3. QED
      BY <3>1, <3>2
  <2>2. QED
    BY <2>1
<1>12. Owed' = Owed /\ Ahead' = Ahead /\ Ahead \in Nat
  BY <1>1, OwedType, Counts DEF Owed, Ahead
<1>13. ASSUME NEW v \in Nat, v = t + 1 PROVE InText(v)'
  <2>1. Len(pending') = Ahead /\ Len(pending) = Ahead /\ Ahead <= 1
    BY <1>1, <1>8, <1>9, <1>12, Counts DEF InText, CommandsAfter
  <2>2. CommandsAfter(v)'
    <3>1. v \in 0..Len(Stream') /\ Len(pending') = Ahead' + Len(Stream') - v
      BY <1>10, <1>12, <1>13, <2>1
    <3>2. \A i \in v + 1..Len(Stream') : FALSE
      BY <1>10, <1>13
    <3>3. QED
      BY <3>1, <3>2 DEF CommandsAfter
  <2>3. TextBefore(v)'
    <3>1. ASSUME NEW i \in 1..v
          PROVE  /\ Stream'[i].role \in {"text", "end"}
                 /\ Stream'[i].role = "end" <=> Stream'[i].line = "dot" /\ LineStart(i)'
                 /\ Stream'[i].role = "end" => i = v
      <4>1. CASE i \in 1..t
        <5>1. Stream'[i] = Stream[i] /\ LineStart(i)' = LineStart(i)
          BY <1>10, <1>11, <4>1
        <5>2. Stream[i].role = "text"
          BY <1>9, <4>1
        <5>3. QED
          BY <1>8, <4>1, <5>1, <5>2 DEF InText, TextBefore
      <4>2. CASE i = t + 1
        <5>1. LineStart(i)' = LineStart(i) /\ (LineStart(i) <=> cphase = "data")
          BY <1>9, <1>11, <4>2
        <5>2. Stream'[i].line = line /\ Stream'[i].role = role
          BY <1>10, <4>2
        <5>3. QED
          BY <1>2, <1>13, <4>2, <5>1, <5>2
      <4>3. i \in 1..t \/ i = t + 1
        BY <1>13
      <4>4. QED
        BY <4>1, <4>2, <4>3
    <3>2. QED
      BY <3>1 DEF TextBefore
  <2>4. \A i \in DOMAIN replies' : Plain(i)'
    BY <1>1, <1>8 DEF InText, Plain
  <2>5. Stream'[v].line = line /\ Stream'[v].role = role /\ v >= 1 /\ v = Len(Stream')
    BY <1>10, <1>13
  <2>6. ASSUME cphase' \in {"data", "tail"}
        PROVE  /\ v = Len(Stream') /\ \A i \in 1..v : Stream'[i].role = "text"
               /\ cphase' = "data" <=> LineStart(v + 1)'
    <3>1. role = "text"
      BY <1>2, <2>6
    <3>2. ASSUME NEW i \in 1..v PROVE Stream'[i].role = "text"
      <4>1. i \in 1..t \/ i = v
        BY <1>13
      <4>2. QED
        BY <1>9, <1>10, <2>5, <3>1, <4>1
    <3>3. LineStart(v + 1)' = (Stream'[v].line # "long")
      <4>1. v + 1 # 1 /\ (v + 1) - 1 = v
        BY <2>5
      <4>2. QED
        BY <4>1 DEF LineStart
    <3>4. cphase' = "data" <=> line # "long"
      BY <1>2, <3>1
    <3>5. QED
      BY <2>5, <3>2, <3>3, <3>4
  <2>7. ASSUME cphase' \notin {"data", "tail"}
        PROVE  Pipelined' /\ v >= 1 /\ Stream'[v].role = "end"
    <3>1. role = "end" /\ cphase' = "cmd"
      BY <1>2, <2>7
    <3>2. ASSUME NEW i \in DOMAIN pending' PROVE ~Blocks(pending'[i])
      <4>1. i \in 1..Len(pending) /\ pending'[i] = pending[i]
        BY <1>1, Counts
      <4>2. i = 1 /\ Ahead = 1
        BY <1>12, <2>1, <4>1
      <4>3. pending[i].line = "MESSAGE"
        BY <1>8, <4>2 DEF InText
      <4>4. QED
        BY <4>1, <4>3 DEF Blocks, AuthVerbs
    <3>3. Pipelined'
      BY <3>1, <3>2 DEF Pipelined
    <3>4. QED
      BY <2>5, <3>1, <3>3
  <2>8. Ahead' <= 1 /\ (Ahead' = 1 => pending' # <<>> /\ pending'[1].line = "MESSAGE")
    BY <1>1, <1>8, <1>12 DEF InText
  <2>9. QED
    BY <2>2, <2>3, <2>4, <2>6, <2>7, <2>8 DEF InText
<1>14. \E v \in Nat : InText(v)'
  BY <1>13
<1>15. TextFollows'
  BY <1>1, <1>7 DEF TextFollows, ReadsText, SyncInv, AtText
<1>16. QED
  BY <1>14, <1>15, SyncText

LEMMA EmptySeq ==
  ASSUME NEW S, NEW s \in Seq(S) PROVE s = <<>> <=> Len(s) = 0
OBVIOUS

\* The client reads its first reply.
LEMMA ReplyTaken ==
  ASSUME TypeOK, ClientReads
  PROVE  /\ Len(replies) >= 1 /\ Len(pending) >= 1
         /\ Head(replies) = replies[1] /\ Head(pending) = pending[1]
         /\ Len(replies') = Len(replies) - 1
         /\ \A i \in 1..Len(replies') : replies'[i] = replies[i + 1]
         /\ DOMAIN replies' = 1..Len(replies) - 1
         /\ Len(replies) = 1 => replies' = <<>>
         /\ Len(Tail(pending)) = Len(pending) - 1 /\ DOMAIN Tail(pending) = 1..Len(pending) - 1
         /\ \A i \in 1..Len(pending) - 1 : Tail(pending)[i] = pending[i + 1]
         /\ Len(pending) = 1 <=> Tail(pending) = <<>>
<1>1. replies \in Seq(Nat) /\ pending \in Seq(Awaited)
  BY DEF TypeOK, WireType, ClientType
<1>2. replies # <<>> /\ pending # <<>> /\ replies' = Tail(replies)
  BY DEF ClientReads
<1>3. Len(replies) >= 1 /\ Head(replies) = replies[1] /\ Len(replies') = Len(replies) - 1
      /\ \A i \in 1..Len(replies') : replies'[i] = replies[i + 1]
  BY <1>1, <1>2
<1>4. DOMAIN replies' = 1..Len(replies) - 1 /\ (Len(replies) = 1 => replies' = <<>>)
  BY <1>1, <1>2
<1>5. /\ Len(pending) >= 1 /\ Head(pending) = pending[1]
      /\ Len(Tail(pending)) = Len(pending) - 1 /\ DOMAIN Tail(pending) = 1..Len(pending) - 1
      /\ \A i \in 1..Len(pending) - 1 : Tail(pending)[i] = pending[i + 1]
  BY <1>1, <1>2
<1>6. Len(pending) = 1 <=> Tail(pending) = <<>>
  <2>1. Tail(pending) \in Seq(Awaited)
    BY <1>1, <1>2
  <2>2. Tail(pending) = <<>> <=> Len(Tail(pending)) = 0
    BY <2>1, EmptySeq
  <2>3. QED
    BY <1>5, <2>2
<1>7. QED
  BY <1>3, <1>4, <1>5, <1>6

LEMMA ReadLeaves ==
  ASSUME ClientReads
  PROVE  /\ UNCHANGED <<pc, buf, sock, why, body_follows, at_line_start, Stream>>
         /\ Owed' = Owed
<1>1. UNCHANGED <<pc, buf, sock, why, body_follows, at_line_start>>
  BY DEF ClientReads, serverVars, dataVars
<1>2. QED
  BY <1>1 DEF Stream, Owed

\* A plain reply answers the oldest command awaited, and no more.
LEMMA PlainReply ==
  ASSUME TypeOK, ClientReads, Plain(1)
  PROVE  /\ pending' = Tail(pending)
         /\ (cphase = "wait" /\ Len(pending) = 1 => cphase' = "cmd")
         /\ (~(cphase = "wait" /\ Len(pending) = 1) => cphase' = cphase)
<1>1. replies[1] \notin {334, 354, 421} /\ ~(pending[1].line = "STARTTLS" /\ replies[1] = 220)
  BY DEF Plain
<1>2. Head(replies) = replies[1] /\ Head(pending) = pending[1]
  BY ReplyTaken
<1>3. QED
  BY <1>1, <1>2 DEF ClientReads

LEMMA PendingRead ==
  ASSUME TypeOK, ClientReads, pending' = Tail(pending)
  PROVE  /\ Len(pending') = Len(pending) - 1 /\ DOMAIN pending' = 1..Len(pending) - 1
         /\ \A i \in 1..Len(pending) - 1 : pending'[i] = pending[i + 1]
         /\ Len(pending) = 1 <=> pending' = <<>>
<1>1. Len(pending') = Len(pending) - 1 /\ DOMAIN pending' = 1..Len(pending) - 1
  BY ReplyTaken
<1>2. \A i \in 1..Len(pending) - 1 : pending'[i] = pending[i + 1]
  BY ReplyTaken
<1>3. Len(pending) = 1 <=> pending' = <<>>
  BY ReplyTaken
<1>4. QED
  BY <1>1, <1>2, <1>3

LEMMA PlainShift ==
  ASSUME TypeOK, ClientReads, Plain(1), NEW i \in 1..Len(replies'), Plain(i + 1),
         i + 1 <= Len(pending)
  PROVE  Plain(i)'
<1>1. i \in 1..Len(pending) - 1
  BY ReplyTaken, Counts
<1>2. replies'[i] = replies[i + 1] /\ pending'[i] = pending[i + 1]
  BY <1>1, ReplyTaken, PlainReply, PendingRead
<1>3. QED
  BY <1>2 DEF Plain

LEMMA OneBefore ==
  ASSUME NEW n \in Nat, n >= 1, n # 1 PROVE n - 1 \in 1..n - 1 /\ (n - 1) + 1 = n
OBVIOUS

LEMMA PipelinedRead ==
  ASSUME TypeOK, ClientReads, Plain(1), Pipelined
  PROVE  Pipelined'
<1>1. Len(pending) >= 1 /\ Len(pending) \in Nat
  BY ReplyTaken, Counts
<1>2. /\ (cphase = "wait" /\ Len(pending) = 1 => cphase' = "cmd")
      /\ (~(cphase = "wait" /\ Len(pending) = 1) => cphase' = cphase)
  BY PlainReply
<1>3. /\ Len(pending') = Len(pending) - 1 /\ DOMAIN pending' = 1..Len(pending) - 1
      /\ \A i \in 1..Len(pending) - 1 : pending'[i] = pending[i + 1]
      /\ Len(pending) = 1 <=> pending' = <<>>
  BY PlainReply, PendingRead
<1>4. ASSUME NEW i \in 1..Len(pending) - 1, Blocks(pending'[i])
      PROVE  i = Len(pending') /\ cphase' = "wait"
  <2>1. i + 1 \in DOMAIN pending /\ i + 1 # 1
    BY <1>1, Counts
  <2>2. pending'[i] = pending[i + 1]
    BY <1>3
  <2>3. Blocks(pending[i + 1])
    BY <1>4, <2>2
  <2>4. i + 1 = Len(pending) /\ cphase = "wait"
    BY <2>1, <2>3 DEF Pipelined
  <2>5. i = Len(pending') /\ Len(pending) # 1
    BY <1>1, <1>3, <2>1, <2>4
  <2>6. QED
    BY <1>2, <2>4, <2>5
<1>5. ASSUME cphase' = "wait" PROVE pending' # <<>> /\ Blocks(pending'[Len(pending')])
  <2>1. cphase = "wait" /\ Len(pending) # 1
    BY <1>2, <1>5
  <2>2. Blocks(pending[Len(pending)])
    BY <2>1 DEF Pipelined
  <2>3. Len(pending) - 1 \in 1..Len(pending) - 1 /\ (Len(pending) - 1) + 1 = Len(pending)
    BY <1>1, <2>1, OneBefore
  <2>4. pending'[Len(pending')] = pending[Len(pending)]
    BY <1>3, <2>3
  <2>5. QED
    BY <1>3, <2>1, <2>2, <2>4
<1>6. cphase' \in {"cmd", "wait", "done"}
  BY <1>2 DEF Pipelined
<1>7. QED
  BY <1>3, <1>4, <1>5, <1>6 DEF Pipelined

LEMMA CommandsRead ==
  ASSUME TypeOK, ClientReads, Plain(1), NEW t \in Nat, CommandsAfter(t)
  PROVE  CommandsAfter(t)'
<1>1. Len(pending') = Len(pending) - 1 /\ \A i \in 1..Len(pending) - 1 : pending'[i] = pending[i + 1]
  BY PlainReply, PendingRead
<1>2. Stream' = Stream /\ Ahead' = Ahead - 1 /\ Ahead \in Nat /\ Ahead >= 1
  BY ReplyTaken, ReadLeaves, OwedType, Counts DEF Ahead
<1>3. t \in 0..Len(Stream) /\ Len(pending) = Ahead + Len(Stream) - t
  BY DEF CommandsAfter
<1>4. t \in 0..Len(Stream') /\ Len(pending') = Ahead' + Len(Stream') - t
  BY <1>1, <1>2, <1>3, Counts
<1>5. ASSUME NEW i \in t + 1..Len(Stream)
      PROVE  pending'[Ahead' + i - t] = pending[Ahead + i - t]
  <2>1. /\ Ahead' + i - t \in 1..Len(pending) - 1
        /\ (Ahead' + i - t) + 1 = Ahead + i - t
    BY <1>2, <1>3, Counts
  <2>2. QED
    BY <1>1, <2>1
<1>6. QED
  BY <1>2, <1>4, <1>5 DEF CommandsAfter

\* A reply ahead of a challenge or of a 354 is read like any other.
LEMMA ChallengeAhead ==
  ASSUME TypeOK, TypeOK', ClientReads, NEW code, Challenged(code), Len(replies) # 1
  PROVE  Challenged(code)'
<1>1. /\ Len(replies) >= 1 /\ Len(replies) \in Nat /\ Len(replies') = Len(replies) - 1
      /\ \A i \in 1..Len(replies') : replies'[i] = replies[i + 1]
  BY ReplyTaken, Counts
<1>2. 1 \in 1..Len(replies) - 1
  BY <1>1
<1>3. Plain(1) /\ Pipelined /\ cphase = "wait" /\ Len(pending) = Len(replies)
  BY <1>2 DEF Challenged
<1>4. /\ Pipelined' /\ cphase' = "wait" /\ Len(pending') = Len(pending) - 1
  BY <1>3, PipelinedRead, PlainReply, PendingRead
<1>5. Stream' = <<>>
  BY ReadLeaves DEF Challenged
<1>6. Len(replies') \in 1..Len(replies') /\ Len(replies') + 1 = Len(replies)
  BY <1>1, OneBefore
<1>7. replies'[Len(replies')] = code /\ replies' # <<>>
  <2>1. replies'[Len(replies')] = replies[Len(replies)]
    BY <1>1, <1>6
  <2>2. replies' # <<>>
    <3>1. replies' \in Seq(Nat)
      BY DEF TypeOK, WireType
    <3>2. Len(replies') # 0
      BY <1>1
    <3>3. QED
      BY <3>1, <3>2, EmptySeq
  <2>3. QED
    BY <2>1, <2>2 DEF Challenged
<1>8. ASSUME NEW i \in 1..Len(replies') - 1 PROVE Plain(i)'
  <2>1. i \in 1..Len(replies') /\ i + 1 \in 1..Len(replies) - 1 /\ i + 1 <= Len(pending)
    BY <1>1, <1>3
  <2>2. Plain(i + 1)
    BY <2>1 DEF Challenged
  <2>3. QED
    BY <1>3, <2>1, <2>2, PlainShift
<1>9. Len(pending') = Len(replies')
  BY <1>1, <1>3, <1>4
<1>10. QED
  BY <1>4, <1>5, <1>7, <1>8, <1>9 DEF Challenged

\* A client that has read all before it is given the word by a challenge.
LEMMA ChallengeRead ==
  ASSUME TypeOK, ClientReads, NEW code \in {334, 354}, Challenged(code), Len(replies) = 1
  PROVE  /\ code = 334 => cphase' = "auth" /\ pending' = <<>>
         /\ code = 354 => cphase' = "data" /\ pending' = <<Message("MESSAGE")>>
         /\ replies' = <<>> /\ Stream' = <<>>
<1>1. Head(replies) = code /\ Len(pending) = 1
  BY ReplyTaken DEF Challenged
<1>2. ASSUME code = 334 PROVE cphase' = "auth" /\ pending' = Tail(pending)
  <2>1. Head(replies) = 334
    BY <1>1, <1>2
  <2>2. QED
    BY <2>1 DEF ClientReads
<1>3. ASSUME code = 354 PROVE cphase' = "data" /\ pending' = <<Message("MESSAGE")>>
  <2>1. Head(replies) = 354
    BY <1>1, <1>3
  <2>2. QED
    BY <2>1 DEF ClientReads
<1>4. Tail(pending) = <<>> /\ replies' = <<>>
  BY <1>1, ReplyTaken
<1>5. Stream' = <<>>
  BY ReadLeaves DEF Challenged
<1>6. code = 334 => cphase' = "auth" /\ pending' = <<>>
  BY <1>2, <1>4
<1>7. QED
  BY <1>3, <1>4, <1>5, <1>6

LEMMA ReadsAtCommands ==
  ASSUME TypeOK, ClientReads, SyncInv, ReadsCommands PROVE SyncInv'
<1>1. AtCommands
  BY DEF SyncInv
<1>2. Len(replies) >= 1 /\ Len(replies) \in Nat /\ replies # <<>>
  BY ReplyTaken, Counts DEF ClientReads
<1>3. pc = "command" /\ pc' = "command"
  BY <1>1, <1>2, ReadLeaves DEF AtCommands
<1>4. \A i \in 1..Len(replies) : Plain(i)
  BY <1>1, Counts DEF AtCommands
<1>5. Plain(1)
  BY <1>2, <1>4
<1>6. CommandsAfter(0)' /\ Pipelined'
  BY <1>1, <1>5, CommandsRead, PipelinedRead DEF AtCommands
<1>7. ASSUME NEW i \in DOMAIN replies' PROVE Plain(i)'
  <2>1. Len(replies) <= Len(pending)
    BY <1>1, Counts, OwedType DEF AtCommands, CommandsAfter, Ahead
  <2>2. i \in 1..Len(replies')  /\ i + 1 \in 1..Len(replies)
    BY <1>2, ReplyTaken
  <2>3. i + 1 <= Len(pending)
    BY <2>1, <2>2, Counts
  <2>4. Plain(i + 1)
    BY <1>4, <2>2
  <2>5. QED
    BY <1>5, <2>2, <2>3, <2>4, PlainShift
<1>8. AtCommands'
  BY <1>3, <1>6, <1>7 DEF AtCommands
<1>9. QED
  BY <1>3, <1>8 DEF SyncInv, ReadsCommands, ReadsText

LEMMA ReadsAtToken ==
  ASSUME TypeOK, TypeOK', ClientReads, SyncInv, pc \in SaslPhases PROVE SyncInv'
<1>1. AtToken /\ replies # <<>>
  BY DEF SyncInv, ClientReads
<1>2. Challenged(334)
  BY <1>1 DEF AtToken
<1>3. AtToken'
  <2>1. CASE Len(replies) = 1
    BY <1>2, <2>1, ChallengeRead DEF AtToken
  <2>2. CASE Len(replies) # 1
    BY <1>2, <2>2, ChallengeAhead DEF AtToken
  <2>3. QED
    BY <2>1, <2>2
<1>4. pc' = pc
  BY ReadLeaves
<1>5. QED
  BY <1>3, <1>4 DEF SyncInv, ReadsCommands, ReadsText

LEMMA ReadsAtText ==
  ASSUME TypeOK, TypeOK', ClientReads, SyncInv, ReadsText PROVE SyncInv'
<1>1. AtText
  BY DEF SyncInv
<1>2. UNCHANGED <<pc, why, body_follows, at_line_start, Stream>> /\ Owed' = Owed
  BY ReadLeaves
<1>3. TextFollows'
  BY <1>1, <1>2 DEF TextFollows, ReadsText, AtText
<1>4. CASE pc = "header" /\ Challenged(354) /\ Len(replies) = 1
  <2>1. /\ cphase' = "data" /\ pending' = <<Message("MESSAGE")>> /\ replies' = <<>>
        /\ Stream' = <<>>
    BY <1>4, ChallengeRead
  <2>2. Len(pending') = 1 /\ pending'[1].line = "MESSAGE" /\ pending' # <<>>
        /\ Len(replies') = 0 /\ Len(Stream') = 0
    BY <2>1 DEF Message
  <2>3. Ahead' = 1
    BY <1>2, <1>4, <2>2 DEF Ahead, Owed
  <2>4. ASSUME NEW t \in {0} PROVE InText(t)'
    <3>1. CommandsAfter(t)'
      BY <2>2, <2>3 DEF CommandsAfter
    <3>2. TextBefore(t)'
      BY DEF TextBefore
    <3>3. LineStart(t + 1)'
      <4>1. at_line_start'
        BY <1>1, <1>2, <1>4 DEF AtText
      <4>2. t + 1 = 1
        OBVIOUS
      <4>3. QED
        BY <4>1, <4>2 DEF LineStart
    <3>4. \A i \in DOMAIN replies' : Plain(i)'
      BY <2>1
    <3>5. t = Len(Stream') /\ \A i \in 1..t : FALSE
      BY <2>2
    <3>6. QED
      BY <2>1, <2>2, <2>3, <3>1, <3>2, <3>3, <3>4, <3>5 DEF InText
  <2>5. QED
    BY <1>3, <2>4, SyncText
<1>5. CASE pc = "header" /\ Challenged(354) /\ Len(replies) # 1
  <2>1. Challenged(354)'
    BY <1>5, ChallengeAhead
  <2>2. AtText'
    BY <1>2, <1>3, <1>5, <2>1 DEF AtText, TextFollows
  <2>3. QED
    BY <1>2, <1>5, <2>2 DEF SyncInv, ReadsCommands, ReadsText
<1>6. CASE \E t \in Nat : InText(t)
  <2>1. PICK t \in Nat : InText(t)
    BY <1>6
  <2>2. Len(replies) >= 1 /\ Len(replies) \in Nat /\ Len(replies') = Len(replies) - 1
    BY ReplyTaken, Counts
  <2>3. Len(replies) = 1 /\ Owed = 0
    BY <2>1, <2>2, OwedType DEF InText, Ahead
  <2>4. Ahead' = 0 /\ replies' = <<>>
    BY <1>2, <2>2, <2>3, ReplyTaken DEF Ahead
  <2>5. Plain(1)
    <3>1. \A i \in 1..Len(replies) : Plain(i)
      BY <2>1, Counts DEF InText
    <3>2. 1 \in 1..Len(replies)
      BY <2>3
    <3>3. QED
      BY <3>1, <3>2
  <2>6. CommandsAfter(t)' /\ (Pipelined => Pipelined')
    BY <2>1, <2>5, CommandsRead, PipelinedRead DEF InText
  <2>7. /\ cphase \in {"data", "tail"} => cphase' = cphase
        /\ cphase \notin {"data", "tail"} => cphase' \notin {"data", "tail"}
    BY <2>5, PlainReply
  <2>8. TextBefore(t)' /\ LineStart(t + 1)' = LineStart(t + 1)
    BY <1>2, <2>1 DEF InText, TextBefore, LineStart
  <2>9. \A i \in DOMAIN replies' : Plain(i)'
    BY <2>4
  <2>10. /\ cphase' \in {"data", "tail"} =>
             /\ t = Len(Stream') /\ \A i \in 1..t : Stream'[i].role = "text"
             /\ cphase' = "data" <=> LineStart(t + 1)'
         /\ cphase' \notin {"data", "tail"} => Pipelined' /\ t >= 1 /\ Stream'[t].role = "end"
    BY <1>2, <2>1, <2>6, <2>7, <2>8 DEF InText
  <2>11. InText(t)'
    BY <2>4, <2>6, <2>8, <2>9, <2>10 DEF InText
  <2>12. QED
    BY <1>3, <2>11, SyncText
<1>7. QED
  BY <1>1, <1>4, <1>5, <1>6 DEF AtText

LEMMA ReadsAtHandshake ==
  ASSUME TypeOK, TypeOK', ClientReads, SyncInv, pc = "handshake" PROVE SyncInv'
<1>1. /\ buf = <<>> /\ cphase \in {"cmd", "wait", "done"} /\ replies # <<>>
      /\ Len(replies) <= Len(pending)
      /\ pending[Len(replies)].line = "STARTTLS" /\ replies[Len(replies)] = 220
      /\ \A i \in 1..Len(replies) - 1 : Plain(i)
  BY DEF SyncInv, AtHandshake, ClientReads
<1>2. pc' = "handshake" /\ buf' = <<>>
  BY <1>1, ReadLeaves
<1>3. /\ Len(replies) >= 1 /\ Len(replies) \in Nat /\ Len(replies') = Len(replies) - 1
      /\ Len(pending) \in Nat /\ \A i \in 1..Len(replies') : replies'[i] = replies[i + 1]
  BY ReplyTaken, Counts
<1>4. CASE Len(replies) = 1
  <2>1. Head(replies) = 220 /\ Head(pending).line = "STARTTLS" /\ replies' = <<>>
    BY <1>1, <1>4, ReplyTaken
  <2>2. cphase' = "hello" /\ pending' = <<>>
    BY <2>1 DEF ClientReads
  <2>3. AtHandshake'
    BY <1>2, <2>1, <2>2 DEF AtHandshake
  <2>4. QED
    BY <1>2, <2>3 DEF SyncInv, ReadsCommands, ReadsText
<1>5. CASE Len(replies) # 1
  <2>1. 1 \in 1..Len(replies) - 1
    BY <1>3, <1>5
  <2>2. Plain(1)
    BY <1>1, <2>1
  <2>3. /\ Len(pending') = Len(pending) - 1
        /\ \A i \in 1..Len(pending) - 1 : pending'[i] = pending[i + 1]
    BY <2>2, PlainReply, PendingRead
  <2>4. cphase' \in {"cmd", "wait", "done"}
    BY <1>1, <2>2, PlainReply
  <2>5. /\ Len(replies') \in 1..Len(replies') /\ Len(replies') + 1 = Len(replies)
        /\ Len(replies') \in 1..Len(pending) - 1 /\ Len(replies') <= Len(pending')
    BY <1>1, <1>3, <1>5, <2>3
  <2>6. replies'[Len(replies')] = 220 /\ pending'[Len(replies')].line = "STARTTLS"
    BY <1>1, <1>3, <2>3, <2>5
  <2>7. replies' # <<>>
    <3>1. replies' \in Seq(Nat)
      BY DEF TypeOK, WireType
    <3>2. Len(replies') # 0
      BY <2>5
    <3>3. QED
      BY <3>1, <3>2, EmptySeq
  <2>8. ASSUME NEW i \in 1..Len(replies') - 1 PROVE Plain(i)'
    <3>1. i \in 1..Len(replies') /\ i + 1 \in 1..Len(replies) - 1 /\ i + 1 <= Len(pending)
      BY <1>1, <1>3
    <3>2. Plain(i + 1)
      BY <1>1, <3>1
    <3>3. QED
      BY <2>2, <3>1, <3>2, PlainShift
  <2>9. AtHandshake'
    BY <1>2, <2>4, <2>5, <2>6, <2>7, <2>8 DEF AtHandshake
  <2>10. QED
    BY <1>2, <2>9 DEF SyncInv, ReadsCommands, ReadsText
<1>6. QED
  BY <1>4, <1>5

LEMMA ReadsAtDrained ==
  ASSUME TypeOK, TypeOK', ClientReads, SyncInv, pc = "Drained" PROVE SyncInv'
<1>1. AtDrained
  BY DEF SyncInv
<1>2. pc' = "Drained" /\ Stream' = Stream
  BY ReadLeaves
<1>3. /\ Len(replies) >= 1 /\ Len(replies) \in Nat /\ Len(replies') = Len(replies) - 1
      /\ Len(pending) >= 1 /\ Len(pending) \in Nat
      /\ \A i \in 1..Len(replies') : replies'[i] = replies[i + 1]
      /\ DOMAIN replies' = 1..Len(replies) - 1 /\ Head(replies) = replies[1]
  BY ReplyTaken, Counts
<1>4. pending' = Tail(pending) \/ pending' = <<>>
  <2>1. Head(replies) # 354
    BY <1>1, <1>3, Counts DEF AtDrained
  <2>2. QED
    BY <2>1 DEF ClientReads
<1>5. ASSUME NEW i \in DOMAIN replies'
      PROVE  replies'[i] # 354 /\ (replies'[i] = 421 => i = Len(replies'))
  <2>1. i \in 1..Len(replies') /\ i + 1 \in DOMAIN replies
    BY <1>3, Counts
  <2>2. replies'[i] = replies[i + 1]
    BY <1>3, <2>1
  <2>3. i + 1 = Len(replies) => i = Len(replies')
    BY <1>3, <2>1
  <2>4. QED
    BY <1>1, <2>1, <2>2, <2>3 DEF AtDrained
<1>6. ASSUME NEW i \in DOMAIN pending', pending'[i].line = "MESSAGE"
      PROVE  i <= Len(replies') /\ replies'[i] # 421
  <2>1. CASE pending' = <<>>
    BY <2>1
  <2>2. CASE pending' = Tail(pending)
    <3>1. i \in 1..Len(pending) - 1
      BY <2>2, PendingRead
    <3>2. pending'[i] = pending[i + 1] /\ i + 1 \in DOMAIN pending
      BY <1>3, <2>2, <3>1, PendingRead, Counts
    <3>3. i + 1 <= Len(replies) /\ replies[i + 1] # 421
      BY <1>1, <1>6, <3>2 DEF AtDrained
    <3>4. i \in 1..Len(replies')
      BY <1>3, <3>1, <3>3
    <3>5. QED
      BY <1>3, <3>3, <3>4
  <2>3. QED
    BY <1>4, <2>1, <2>2
<1>7. AtDrained'
  BY <1>1, <1>2, <1>5, <1>6 DEF AtDrained
<1>8. QED
  BY <1>2, <1>7 DEF SyncInv, ReadsCommands, ReadsText

LEMMA SyncClientReads == ASSUME TypeOK, TypeOK', SyncInv, ClientReads PROVE SyncInv'
<1>1. pc \in Phases /\ body_follows \in BOOLEAN
  BY DEF TypeOK, WireType, DataType
<1>2. \/ ReadsCommands \/ ReadsText \/ pc = "handshake" \/ pc \in SaslPhases \/ pc = "Drained"
      \/ pc \in Ends \ {"Drained"}
  BY <1>1 DEF Phases, ReadsCommands, ReadsText
<1>3. ASSUME pc \in Ends \ {"Drained"} PROVE SyncInv'
  <2>1. pc' = pc
    BY ReadLeaves
  <2>2. QED
    BY <1>3, <2>1, EndStep
<1>4. QED
  BY <1>2, <1>3, ReadsAtCommands, ReadsAtText, ReadsAtHandshake, ReadsAtToken, ReadsAtDrained

\* What neither the stream nor the replies take part in.
LEMMA SyncElsewhere ==
  ASSUME SyncInv, DrainBegins \/ ClientHangsUp \/ ClientFallsSilent \/ UNCHANGED vars
  PROVE  SyncInv'
<1>1. UNCHANGED <<pc, buf, sock, replies, pending, cphase, why, body_follows, at_line_start>>
  BY DEF DrainBegins, ClientHangsUp, ClientFallsSilent, vars, serverVars, dataVars, clientVars
<1>2. Stream' = Stream
  BY <1>1 DEF Stream
<1>3. QED
  BY <1>1, <1>2, SyncIdle

LEMMA SyncStep == ASSUME TypeOK, TypeOK', SyncInv, [Next]_vars PROVE SyncInv'
BY SyncServe, SyncLeaves, SyncHandshake, SyncClientCommand, SyncClientToken, SyncClientText,
   SyncClientReads, SyncElsewhere DEF Next, Proceed, Client

LEMMA SyncInit == ASSUME Init PROVE SyncInv
<1>1. /\ pc = "greet" /\ buf = <<>> /\ sock = <<>> /\ replies = <<>> /\ cphase = "cmd"
      /\ pending = <<Message("GREETING")>>
  BY DEF Init
<1>2. Len(pending) = 1 /\ pending[1].line = "GREETING" /\ DOMAIN pending = 1..1 /\ Len(replies) = 0
  BY <1>1 DEF Message
<1>3. Stream = <<>> /\ Len(Stream) = 0
  BY <1>1 DEF Stream
<1>4. Ahead = 1
  BY <1>1, <1>2 DEF Ahead, Owed
<1>5. CommandsAfter(0)
  BY <1>2, <1>3, <1>4 DEF CommandsAfter
<1>6. Pipelined
  <2>1. ~Blocks(pending[1])
    BY <1>2 DEF Blocks, AuthVerbs
  <2>2. \A i \in DOMAIN pending : i = 1
    BY <1>2
  <2>3. \A i \in DOMAIN pending : ~Blocks(pending[i])
    BY <2>1, <2>2
  <2>4. QED
    BY <1>1, <2>3 DEF Pipelined
<1>7. AtCommands
  BY <1>1, <1>2, <1>5, <1>6 DEF AtCommands
<1>8. QED
  BY <1>1, <1>7 DEF SyncInv, ReadsCommands, ReadsText

\* Whatever the configuration and however the client pipelines, what it awaits
\* lines up with the replies it has not read, the reply the session owes and
\* the commands in the stream (serve, read_message, discard_to_terminator).
THEOREM InStep == Spec => []SyncInv
<1>1. Init => SyncInv
  BY SyncInit
<1>2. SyncInv /\ TypeOK /\ TypeOK' /\ [Next]_vars => SyncInv'
  BY SyncStep
<1>3. QED
  BY <1>1, <1>2, TypeCorrect, PTL DEF Spec

-----------------------------------------------------------------------------
(* What follows from being in step *)

\* Every line is read as what it was sent as (Session!InSync), for every
\* configuration: a message refused in its header, in mid-body or by mirror(),
\* a SASL token and a pipelined command never change places.
THEOREM InSyncHolds == Spec => []InSync
<1>1. ASSUME TypeOK, SyncInv PROVE InSync
  <2>1. SUFFICES ASSUME pc \notin Ends \cup {"handshake"}, Stream # <<>>
                 PROVE  Head(Stream).role \in Expects
    BY DEF InSync
  <2>2. Head(Stream) = Stream[1] /\ Len(Stream) >= 1 /\ Len(Stream) \in Nat
    BY <1>1, <2>1, StreamType
  <2>3. pc \in Phases /\ body_follows \in BOOLEAN
    BY <1>1 DEF TypeOK, WireType, DataType
  <2>4. CASE ReadsCommands
    <3>1. CommandsAfter(0)
      BY <1>1, <2>4 DEF SyncInv, AtCommands
    <3>2. 1 \in 0 + 1..Len(Stream)
      BY <2>2
    <3>3. Stream[1].role = "cmd"
      BY <3>1, <3>2 DEF CommandsAfter
    <3>4. "cmd" \in Expects
      BY <2>4 DEF ReadsCommands, Expects
    <3>5. QED
      BY <2>2, <3>3, <3>4
  <2>5. CASE pc \in SaslPhases
    <3>1. Stream[1].role = "auth"
      BY <1>1, <2>1, <2>5 DEF SyncInv, AtToken, Challenged
    <3>2. QED
      BY <2>2, <2>5, <3>1 DEF Expects
  <2>6. CASE ReadsText
    <3>1. PICK t \in Nat : InText(t)
      BY <1>1, <2>1, <2>6 DEF SyncInv, AtText, Challenged
    <3>2. t >= 1
      BY <2>2, <3>1 DEF InText
    <3>3. Stream[1].role \in {"text", "end"}
      BY <3>1, <3>2 DEF InText, TextBefore
    <3>4. Expects = {"text", "end"}
      BY <2>6 DEF ReadsText, Expects
    <3>5. QED
      BY <2>2, <3>3, <3>4
  <2>7. QED
    BY <2>1, <2>3, <2>4, <2>5, <2>6 DEF Phases, ReadsCommands, ReadsText
<1>2. QED
  BY <1>1, InStep, TypeCorrect, PTL

\* The places of a sequence behind the first a.
LEMMA CountSet ==
  ASSUME NEW a \in Nat, NEW b \in Nat, a <= b
  PROVE  IsFiniteSet(a + 1..b) /\ Cardinality(a + 1..b) = b - a
<1>1. a + 1 \in Int /\ b \in Int
  OBVIOUS
<1>2. IsFiniteSet(a + 1..b) /\ Cardinality(a + 1..b) = IF a + 1 > b THEN 0 ELSE b - (a + 1) + 1
  BY <1>1, FS_Interval
<1>3. QED
  BY <1>2

LEMMA UpTo ==
  ASSUME NEW n \in Nat, NEW i \in Nat, i <= n, NEW j \in 1..i PROVE j = n => j = i
OBVIOUS

\* A drain leaves no message without its verdict (Session!DrainAnswersMessages,
\* next_command_line): whatever the client awaits the answer to, a message is
\* answered ahead of the 421.
THEOREM DrainHolds == Spec => []DrainAnswersMessages
<1>1. ASSUME TypeOK, SyncInv PROVE DrainAnswersMessages
  <2>1. SUFFICES ASSUME pc = "Drained" PROVE
          /\ \A i \in DOMAIN Stream : Stream[i].role = "cmd"
          /\ \A i \in DOMAIN pending :
               pending[i].line = "MESSAGE" => i <= CountOf(replies, LAMBDA r : r # 421)
    BY DEF DrainAnswersMessages
  <2>2. AtDrained
    BY <1>1, <2>1 DEF SyncInv
  <2>3. ASSUME NEW i \in DOMAIN pending, pending[i].line = "MESSAGE"
        PROVE  i <= CountOf(replies, LAMBDA r : r # 421)
    <3> DEFINE S == {j \in DOMAIN replies : replies[j] # 421}
    <3>1. CountOf(replies, LAMBDA r : r # 421) = Cardinality(S)
      BY DEF CountOf
    <3>2. DOMAIN replies = 1..Len(replies) /\ Len(replies) \in Nat /\ i \in Nat /\ i >= 1
      BY <1>1, Counts
    <3>3. i <= Len(replies) /\ replies[i] # 421
      BY <2>2, <2>3 DEF AtDrained
    <3>4. ASSUME NEW j \in 1..i PROVE j \in S
      <4>1. j \in DOMAIN replies
        BY <3>2, <3>3
      <4>2. j = Len(replies) => j = i
        BY <3>2, <3>3, UpTo
      <4>3. QED
        BY <2>2, <3>3, <4>1, <4>2 DEF AtDrained
    <3>5. 1..i \subseteq S /\ S \subseteq 1..Len(replies)
      BY <3>2, <3>4
    <3>6. IsFiniteSet(1..Len(replies)) /\ IsFiniteSet(1..i) /\ Cardinality(1..i) = i
      BY <3>2, FS_Interval
    <3>7. IsFiniteSet(S)
      BY <3>5, <3>6, FS_Subset
    <3>8. Cardinality(1..i) <= Cardinality(S)
      BY <3>5, <3>7, FS_Subset
    <3>9. QED
      BY <3>1, <3>6, <3>8
  <2>4. QED
    BY <2>2, <2>3 DEF AtDrained
<1>2. QED
  BY <1>1, InStep, TypeCorrect, PTL

LEMMA CommandCount ==
  ASSUME TypeOK, NEW t \in 0..Len(Stream),
         \A i \in 1..t : Stream[i].role \notin {"cmd", "auth"},
         \A i \in t + 1..Len(Stream) : Stream[i].role \in {"cmd", "auth"}
  PROVE  CountOf(Stream, LAMBDA l : l.role \in {"cmd", "auth"}) = Len(Stream) - t
<1> DEFINE S == {i \in DOMAIN Stream : Stream[i].role \in {"cmd", "auth"}}
<1>1. CountOf(Stream, LAMBDA l : l.role \in {"cmd", "auth"}) = Cardinality(S)
  BY DEF CountOf
<1>2. DOMAIN Stream = 1..Len(Stream) /\ Len(Stream) \in Nat /\ t \in Nat /\ t <= Len(Stream)
  BY Counts
<1>3. ASSUME NEW i PROVE i \in S <=> i \in t + 1..Len(Stream)
  <2>1. i \in S => i \in 1..Len(Stream) /\ i \notin 1..t
    BY <1>2
  <2>2. i \in 1..Len(Stream) /\ i \notin 1..t => i \in t + 1..Len(Stream)
    BY <1>2
  <2>3. i \in t + 1..Len(Stream) => i \in 1..Len(Stream)
    BY <1>2
  <2>4. QED
    BY <1>2, <2>1, <2>2, <2>3
<1>4. S = t + 1..Len(Stream)
  BY <1>3
<1>5. Cardinality(t + 1..Len(Stream)) = Len(Stream) - t
  BY <1>2, CountSet
<1>6. QED
  BY <1>1, <1>4, <1>5

LEMMA NoGoAhead ==
  ASSUME \A i \in DOMAIN replies : replies[i] # 354
  PROVE  CountOf(replies, LAMBDA r : r = 354) = 0
<1>1. {i \in DOMAIN replies : replies[i] = 354} = {}
  OBVIOUS
<1>2. QED
  BY <1>1, FS_EmptySet DEF CountOf

LEMMA OneGoAhead ==
  ASSUME TypeOK, Challenged(354)
  PROVE  CountOf(replies, LAMBDA r : r = 354) = 1
<1>1. DOMAIN replies = 1..Len(replies) /\ Len(replies) \in Nat /\ Len(replies) >= 1
  BY Counts DEF Challenged
<1>2. \A i \in 1..Len(replies) - 1 : replies[i] # 354
  BY DEF Challenged, Plain
<1>3. \A i \in DOMAIN replies : i \in 1..Len(replies) - 1 \/ i = Len(replies)
  BY <1>1
<1>4. replies[Len(replies)] = 354 /\ Len(replies) \in DOMAIN replies
  BY <1>1 DEF Challenged
<1>5. {i \in DOMAIN replies : replies[i] = 354} = {Len(replies)}
  BY <1>2, <1>3, <1>4
<1>6. QED
  BY <1>5, FS_Singleton DEF CountOf

\* Every command, token and message is answered exactly once
\* (Session!ReplyPerCommand): the reply of mirror() in mid-message and the one
\* at the terminator of a discarded message never both go out.
THEOREM ReplyPerCommandHolds == Spec => []ReplyPerCommand
<1>1. ASSUME TypeOK, SyncInv PROVE ReplyPerCommand
  <2>1. SUFFICES ASSUME pc \notin Ends \cup {"handshake"}
                 PROVE  Len(pending) + CountOf(replies, LAMBDA r : r = 354)
                          = Len(replies) + CountOf(Stream, LAMBDA l : l.role \in {"cmd", "auth"})
                              + Owed
    BY DEF ReplyPerCommand
  <2>2. pc \in Phases /\ body_follows \in BOOLEAN
    BY <1>1 DEF TypeOK, WireType, DataType
  <2>3. /\ Len(replies) \in Nat /\ Len(pending) \in Nat /\ Len(Stream) \in Nat /\ Owed \in {0, 1}
        /\ DOMAIN replies = 1..Len(replies)
    BY <1>1, Counts, OwedType
  <2>4. ASSUME NEW t \in Nat, CommandsAfter(t), \A i \in DOMAIN replies : Plain(i),
               \A i \in 1..t : Stream[i].role \notin {"cmd", "auth"}
        PROVE  Len(pending) + CountOf(replies, LAMBDA r : r = 354)
                 = Len(replies) + CountOf(Stream, LAMBDA l : l.role \in {"cmd", "auth"}) + Owed
    <3>1. /\ t \in 0..Len(Stream) /\ Len(pending) = Len(replies) + Owed + Len(Stream) - t
          /\ \A i \in t + 1..Len(Stream) : Stream[i].role \in {"cmd", "auth"}
      BY <2>4 DEF CommandsAfter, Ahead
    <3>2. CountOf(Stream, LAMBDA l : l.role \in {"cmd", "auth"}) = Len(Stream) - t
      BY <1>1, <2>4, <3>1, CommandCount
    <3>3. CountOf(replies, LAMBDA r : r = 354) = 0
      BY <2>4, NoGoAhead DEF Plain
    <3>4. QED
      BY <2>3, <3>1, <3>2, <3>3
  <2>5. ASSUME Stream = <<>>
        PROVE  CountOf(Stream, LAMBDA l : l.role \in {"cmd", "auth"}) = 0
    <3>1. Len(Stream) = 0
      BY <2>5
    <3>2. \A i \in 1..0 : FALSE
      OBVIOUS
    <3>3. 0 \in 0..Len(Stream) /\ \A i \in 0 + 1..Len(Stream) : FALSE
      BY <3>1
    <3>4. CountOf(Stream, LAMBDA l : l.role \in {"cmd", "auth"}) = Len(Stream) - 0
      BY <1>1, <3>2, <3>3, CommandCount
    <3>5. QED
      BY <3>1, <3>4
  <2>6. CASE ReadsCommands
    <3>1. CommandsAfter(0) /\ \A i \in DOMAIN replies : Plain(i)
      BY <1>1, <2>6 DEF SyncInv, AtCommands
    <3>2. \A i \in 1..0 : Stream[i].role \notin {"cmd", "auth"}
      OBVIOUS
    <3>3. QED
      BY <2>4, <3>1, <3>2
  <2>7. CASE pc \in SaslPhases
    <3>1. Owed = 0
      BY <2>7 DEF Owed
    <3>2. AtToken
      BY <1>1, <2>7 DEF SyncInv
    <3>3. CASE Challenged(334)
      <4>1. \A i \in DOMAIN replies : i \in 1..Len(replies) - 1 \/ i = Len(replies)
        BY <2>3
      <4>2. \A i \in DOMAIN replies : replies[i] # 354
        BY <3>3, <4>1 DEF Challenged, Plain
      <4>3. CountOf(replies, LAMBDA r : r = 354) = 0
        BY <4>2, NoGoAhead
      <4>4. Stream = <<>> /\ Len(pending) = Len(replies)
        BY <3>3 DEF Challenged
      <4>5. QED
        BY <2>3, <2>5, <3>1, <4>3, <4>4
    <3>4. CASE Stream = <<>> /\ pending = <<>> /\ replies = <<>> /\ cphase = "auth"
      <4>1. Len(pending) = 0 /\ Len(replies) = 0 /\ \A i \in DOMAIN replies : FALSE
        BY <3>4
      <4>2. CountOf(replies, LAMBDA r : r = 354) = 0
        BY <4>1, NoGoAhead
      <4>3. QED
        BY <2>5, <3>1, <3>4, <4>1, <4>2
    <3>5. CASE /\ Len(Stream) = 1 /\ Stream[1].role = "auth" /\ replies = <<>>
               /\ pending = <<Message("TOKEN")>>
      <4>1. Len(pending) = 1 /\ Len(replies) = 0 /\ \A i \in DOMAIN replies : FALSE
        BY <3>5
      <4>2. CountOf(replies, LAMBDA r : r = 354) = 0
        BY <4>1, NoGoAhead
      <4>3. 0 \in 0..Len(Stream) /\ \A i \in 0 + 1..Len(Stream) : Stream[i].role \in {"cmd", "auth"}
        BY <3>5
      <4>4. \A i \in 1..0 : Stream[i].role \notin {"cmd", "auth"}
        OBVIOUS
      <4>5. CountOf(Stream, LAMBDA l : l.role \in {"cmd", "auth"}) = Len(Stream) - 0
        BY <1>1, <4>3, <4>4, CommandCount
      <4>6. QED
        BY <3>1, <3>5, <4>1, <4>2, <4>5
    <3>6. QED
      BY <3>2, <3>3, <3>4, <3>5 DEF AtToken
  <2>8. CASE ReadsText
    <3>1. AtText
      BY <1>1, <2>8 DEF SyncInv
    <3>2. CASE pc = "header" /\ Challenged(354)
      <4>1. Owed = 1
        BY <3>2 DEF Owed
      <4>2. CountOf(replies, LAMBDA r : r = 354) = 1
        BY <1>1, <3>2, OneGoAhead
      <4>3. Stream = <<>> /\ Len(pending) = Len(replies)
        BY <3>2 DEF Challenged
      <4>4. QED
        BY <2>3, <2>5, <4>1, <4>2, <4>3
    <3>3. CASE \E t \in Nat : InText(t)
      <4>1. PICK t \in Nat : InText(t)
        BY <3>3
      <4>2. CommandsAfter(t) /\ \A i \in DOMAIN replies : Plain(i)
        BY <4>1 DEF InText
      <4>3. \A i \in 1..t : Stream[i].role \notin {"cmd", "auth"}
        BY <4>1 DEF InText, TextBefore
      <4>4. QED
        BY <2>4, <4>2, <4>3
    <3>4. QED
      BY <3>1, <3>2, <3>3 DEF AtText
  <2>9. QED
    BY <2>1, <2>2, <2>6, <2>7, <2>8 DEF Phases, ReadsCommands, ReadsText
<1>2. QED
  BY <1>1, InStep, TypeCorrect, PTL

-----------------------------------------------------------------------------
(* The envelope *)

\* E[i] is what the client will take its envelope to be after i more replies.
Told(E) ==
  /\ E[0] = mine
  /\ \A i \in 1..Len(replies) : E[i] = Envelope(E[i - 1], pending[i], replies[i])

\* An envelope the session has open is the handler's, and fit for what is next.
Agreed(e) ==
  state \in {WantRcpt, WantData} =>
    e = transaction /\ e.from # None /\ (state = WantData => e.rcpts > 0)

\* What the client will know when it has read all it was told is what the
\* handler holds.  Between two transactions the two may differ: a message that
\* is refused or accepted leaves its envelope with the handler until the next.
EnvelopeInv ==
  /\ pc = "greet" => state = WantGreeting
  /\ pc \notin Ends =>
       \E E \in [0..Len(replies) -> Envelopes] : Told(E) /\ Agreed(E[Len(replies)])

LEMMA EnvelopeType ==
  ASSUME NEW e \in Envelopes, NEW c \in Awaited, NEW r PROVE Envelope(e, c, r) \in Envelopes
<1>1. c.arg \in Args
  BY DEF Awaited
<1>2. [from |-> c.arg, rcpts |-> 0] \in Envelopes /\ [e EXCEPT !.rcpts = @ + 1] \in Envelopes
  BY <1>1 DEF Envelopes
<1>3. QED
  BY <1>2, NoneTyped DEF Envelope

\* Most replies say nothing about the envelope.
LEMMA EnvelopeSame ==
  ASSUME NEW e, NEW c, NEW r, c.line # "MESSAGE",
         r \notin {250, 450} \/ c.line \notin {"MAIL", "RCPT", "EHLO", "RSET"}
  PROVE  Envelope(e, c, r) = e
BY DEF Envelope

\* A client has a command, a token or a message for every reply it is sent.
LEMMA RepliesAwaited ==
  ASSUME TypeOK, SyncInv, pc \notin Ends PROVE Len(replies) <= Len(pending)
<1>1. pc \in Phases /\ body_follows \in BOOLEAN
  BY DEF TypeOK, WireType, DataType
<1>2. ASSUME NEW t \in Nat, CommandsAfter(t) PROVE Len(replies) <= Len(pending)
  BY <1>2, Counts, OwedType DEF CommandsAfter, Ahead
<1>3. CASE ReadsCommands
  BY <1>2, <1>3 DEF SyncInv, AtCommands
<1>4. ASSUME NEW code, Challenged(code) PROVE Len(replies) <= Len(pending)
  BY <1>4, Counts DEF Challenged
<1>5. CASE pc \in SaslPhases
  <2>1. AtToken
    BY <1>5 DEF SyncInv
  <2>2. CASE replies = <<>>
    BY <2>2, Counts
  <2>3. QED
    BY <1>4, <2>1, <2>2 DEF AtToken
<1>6. CASE ReadsText
  <2>1. AtText
    BY <1>6 DEF SyncInv
  <2>2. ASSUME NEW t \in Nat, InText(t) PROVE Len(replies) <= Len(pending)
    BY <1>2, <2>2 DEF InText
  <2>3. QED
    BY <1>4, <2>1, <2>2 DEF AtText
<1>7. CASE pc = "handshake"
  BY <1>7, Counts DEF SyncInv, AtHandshake
<1>8. QED
  BY <1>1, <1>3, <1>5, <1>6, <1>7 DEF Phases, ReadsCommands, ReadsText

\* The command that is read next is the one whose reply comes next.
LEMMA NextAwaited ==
  ASSUME TypeOK, SyncInv, pc = "command", buf # <<>>
  PROVE  /\ pending[Len(replies) + 1].line = Head(buf).line
         /\ pending[Len(replies) + 1].arg = Head(buf).arg
         /\ Head(buf).line # "MESSAGE" /\ (Head(buf).line = "MAIL" => Head(buf).arg # None)
<1>1. CommandsAfter(0) /\ Owed = 0
  BY DEF SyncInv, AtCommands, ReadsCommands, Owed
<1>2. Len(Stream) >= 1 /\ Stream[1] = Head(buf)
  <2>1. buf \in Seq(Lines) /\ sock \in Seq(Lines)
    BY DEF TypeOK, WireType
  <2>2. QED
    BY <2>1 DEF Stream
<1>3. 1 \in 0 + 1..Len(Stream) /\ Ahead + 1 - 0 = Len(replies) + 1
  BY <1>1, <1>2, Counts DEF Ahead
<1>4. QED
  BY <1>1, <1>2, <1>3 DEF CommandsAfter

LEMMA EnvelopeEnds == ASSUME pc' \in Ends PROVE EnvelopeInv'
BY DEF EnvelopeInv

\* Nothing is said to the client.
LEMMA NothingTold ==
  ASSUME TypeOK, EnvelopeInv, pc \notin Ends, UNCHANGED <<replies, mine>>,
         \A i \in 1..Len(replies) : pending'[i] = pending[i],
         pc' = "greet" => state' = WantGreeting,
         state' \in {WantRcpt, WantData} => state' = state /\ transaction' = transaction
  PROVE  EnvelopeInv'
<1>1. PICK E \in [0..Len(replies) -> Envelopes] : Told(E) /\ Agreed(E[Len(replies)])
  BY DEF EnvelopeInv
<1>2. Told(E)'
  BY <1>1 DEF Told
<1>3. ASSUME NEW e \in {E[Len(replies)]} PROVE Agreed(e)'
  BY <1>1, <1>3 DEF Agreed
<1>4. E[Len(replies')] = E[Len(replies)]
  OBVIOUS
<1>5. Agreed(E[Len(replies)])'
  BY <1>3, <1>4
<1>6. QED
  BY <1>2, <1>5 DEF EnvelopeInv

\* The client is told something: what it makes of it agrees with the handler.
LEMMA SomethingTold ==
  ASSUME TypeOK, TypeOK', SyncInv', EnvelopeInv, pc \notin Ends, pc' \notin Ends, pc' # "greet",
         NEW code \in Nat, replies' = Append(replies, code), UNCHANGED <<pending, mine>>,
         \A e, f \in Envelopes :
           Agreed(e) /\ f = Envelope(e, pending[Len(replies) + 1], code) => Agreed(f)'
  PROVE  EnvelopeInv'
<1>1. PICK E \in [0..Len(replies) -> Envelopes] : Told(E) /\ Agreed(E[Len(replies)])
  BY DEF EnvelopeInv
<1>2. /\ Len(replies') = Len(replies) + 1 /\ replies'[Len(replies) + 1] = code
      /\ \A i \in 1..Len(replies) : replies'[i] = replies[i]
  BY ReplySent
<1>3. Len(replies) \in Nat /\ pending \in Seq(Awaited)
  BY Counts DEF TypeOK, ClientType
<1>4. Len(replies) + 1 \in 1..Len(pending)
  <2>1. Len(replies') <= Len(pending')
    <3>1. (TypeOK /\ SyncInv /\ pc \notin Ends => Len(replies) <= Len(pending))'
      BY RepliesAwaited, PTL
    <3>2. QED
      BY <3>1
  <2>2. QED
    BY <1>2, <1>3, <2>1, Counts
<1>5. pending[Len(replies) + 1] \in Awaited
  BY <1>3, <1>4
<1>6. E[Len(replies)] \in Envelopes
  BY <1>1, <1>3
<1>7. PICK f \in Envelopes : f = Envelope(E[Len(replies)], pending[Len(replies) + 1], code)
  BY <1>5, <1>6, EnvelopeType
<1>8. Agreed(f)'
  BY <1>1, <1>6, <1>7
<1> DEFINE F == [i \in 0..Len(replies) + 1 |-> IF i = Len(replies) + 1 THEN f ELSE E[i]]
<1>9. F \in [0..Len(replies) + 1 -> Envelopes]
  BY <1>1, <1>3, <1>7
<1>10. F[Len(replies) + 1] = f /\ \A i \in 0..Len(replies) : F[i] = E[i]
  BY <1>3
<1> HIDE DEF F
<1>11. F[0] = mine'
  BY <1>1, <1>3, <1>10 DEF Told
<1>12. ASSUME NEW i \in 1..Len(replies) + 1 PROVE F[i] = Envelope(F[i - 1], pending'[i], replies'[i])
  <2>1. CASE i \in 1..Len(replies)
    <3>1. i - 1 \in 0..Len(replies) /\ i \in 0..Len(replies)
      BY <1>3, <2>1
    <3>2. F[i] = E[i] /\ F[i - 1] = E[i - 1] /\ replies'[i] = replies[i] /\ pending'[i] = pending[i]
      BY <1>2, <1>10, <2>1, <3>1
    <3>3. E[i] = Envelope(E[i - 1], pending[i], replies[i])
      BY <1>1, <2>1 DEF Told
    <3>4. QED
      BY <3>2, <3>3
  <2>2. CASE i = Len(replies) + 1
    <3>1. i - 1 = Len(replies) /\ Len(replies) \in 0..Len(replies)
      BY <1>3, <2>2
    <3>2. F[i] = f /\ F[i - 1] = E[Len(replies)] /\ replies'[i] = code
          /\ pending'[i] = pending[Len(replies) + 1]
      BY <1>2, <1>10, <2>2, <3>1
    <3>3. QED
      BY <1>7, <3>2
  <2>3. QED
    BY <1>3, <2>1, <2>2, LastOrBefore
<1>13. PICK G \in [0..Len(replies') -> Envelopes] : G = F
  BY <1>2, <1>9
<1>14. Told(G)'
  BY <1>2, <1>11, <1>12, <1>13 DEF Told
<1>15. ASSUME NEW g \in {G[Len(replies')]} PROVE Agreed(g)'
  <2>1. g = f
    BY <1>2, <1>10, <1>13, <1>15
  <2>2. QED
    BY <1>8, <2>1
<1>16. Agreed(G[Len(replies)])'
  BY <1>15
<1>17. QED
  BY <1>14, <1>16 DEF EnvelopeInv

\* A reply in the command loop that leaves the envelope alone, or after which
\* none is open.
LEMMA EnvelopeAnswer ==
  ASSUME TypeOK, TypeOK', SyncInv, SyncInv', EnvelopeInv, pc = "command", buf # <<>>,
         pending' = pending, mine' = mine,
         NEW code \in Nat, NEW next \in Phases \ {"greet"}, Answer(code, next),
         \/ state' \notin {WantRcpt, WantData}
         \/ /\ state' = state /\ transaction' = transaction
            /\ code \notin {250, 450} \/ Head(buf).line \notin {"MAIL", "RCPT", "EHLO", "RSET"}
  PROVE  EnvelopeInv'
<1>1. CASE pc' \in Ends
  BY <1>1, EnvelopeEnds
<1>2. CASE pc' \notin Ends
  <2>1. replies' = Append(replies, code) /\ pc' = next
    BY <1>2, TellCases DEF Answer
  <2>2. ASSUME NEW e \in Envelopes, NEW f \in Envelopes, Agreed(e),
               f = Envelope(e, pending[Len(replies) + 1], code)
        PROVE  Agreed(f)'
    <3>1. CASE state' \notin {WantRcpt, WantData}
      BY <3>1 DEF Agreed
    <3>2. CASE /\ state' = state /\ transaction' = transaction
               /\ code \notin {250, 450} \/ Head(buf).line \notin {"MAIL", "RCPT", "EHLO", "RSET"}
      <4>1. /\ pending[Len(replies) + 1].line = Head(buf).line
            /\ Head(buf).line # "MESSAGE"
        BY NextAwaited
      <4>2. f = e
        BY <2>2, <3>2, <4>1, EnvelopeSame
      <4>3. QED
        BY <2>2, <3>2, <4>2 DEF Agreed
    <3>3. QED
      BY <3>1, <3>2
  <2>3. pc \notin Ends /\ pc' # "greet"
    BY <2>1
  <2>4. QED
    BY <1>2, <2>1, <2>2, <2>3, SomethingTold
<1>3. QED
  BY <1>1, <1>2

\* settle and the two handlers that put the session back never open one.
LEMMA EnvelopeSimple ==
  ASSUME TypeOK, TypeOK', SyncInv, SyncInv', EnvelopeInv,
         OutOfSequence \/ ReplyOnly \/ Rset \/ Greeting
  PROVE  EnvelopeInv'
<1>1. pending' = pending /\ mine' = mine /\ pc = "command" /\ buf # <<>>
  BY DEF OutOfSequence, ReplyOnly, Rset, Greeting, Command, Take, clientVars
<1>2. "command" \in Phases \ {"greet"}
  BY DEF Phases
<1>3. state \in 0..5
  BY DEF TypeOK, SessionType
<1>4. CASE OutOfSequence
  <2>1. PICK line \in Sequenced :
          /\ state' = settle(line) /\ transaction' = transaction
          /\ \E code \in {503, 530} : Answer(code, "command")
    BY <1>4 DEF OutOfSequence, handlerVars
  <2>2. state' \notin {WantRcpt, WantData} \/ state' = state
    BY <1>3, <2>1 DEF settle
  <2>3. QED
    BY <1>1, <1>2, <2>1, <2>2, EnvelopeAnswer
<1>5. CASE ReplyOnly
  <2>1. state' = state /\ transaction' = transaction
    BY <1>5 DEF ReplyOnly, sessionVars, handlerVars
  <2>2. \E code \in {250, 500, 553} :
          /\ Answer(code, "command")
          /\ code \notin {250, 450} \/ Head(buf).line \notin {"MAIL", "RCPT", "EHLO", "RSET"}
    BY <1>5, CommandTaken DEF ReplyOnly
  <2>3. QED
    BY <1>1, <1>2, <2>1, <2>2, EnvelopeAnswer
<1>6. CASE Rset \/ Greeting
  <2>1. state' \notin {WantRcpt, WantData}
    BY <1>3, <1>6 DEF Rset, Greeting, RsetState, GreetedState
  <2>2. Answer(250, "command")
    BY <1>6 DEF Rset, Greeting
  <2>3. QED
    BY <1>1, <1>2, <2>1, <2>2, EnvelopeAnswer
<1>7. QED
  BY <1>4, <1>5, <1>6

LEMMA EnvelopeAuth ==
  ASSUME TypeOK, TypeOK', SyncInv, SyncInv', EnvelopeInv, Auth \/ StartTls
  PROVE  EnvelopeInv'
<1>1. pending' = pending /\ mine' = mine /\ pc = "command" /\ buf # <<>>
  BY CommandTaken DEF Auth, StartTls, clientVars
<1>2. {"command", "plain", "login_user", "handshake"} \subseteq Phases \ {"greet"}
  BY DEF Phases
<1>3. CASE StartTls
  <2>1. Answer(220, "handshake") /\ accepts("STARTTLS") /\ state' = state
    BY <1>3 DEF StartTls, sessionVars
  <2>2. state \notin {WantRcpt, WantData}
    BY <2>1 DEF accepts, settle, AuthVerbs
  <2>3. QED
    BY <1>1, <1>2, <2>1, <2>2, EnvelopeAnswer
<1>4. CASE Auth
  <2>1. ASSUME NEW cred, finish_auth(cred)
        PROVE  (\E code \in {235, 535} : Answer(code, "command")) /\ state' \in {WantAuth, WantMail}
    BY <2>1 DEF finish_auth
  <2>2. CASE finish_auth(Arg)
    BY <1>1, <1>2, <2>1, <2>2, EnvelopeAnswer
  <2>3. CASE /\ state' = WantAuth
             /\ Answer(334, "plain") \/ Answer(334, "login_user") \/ Answer(504, "command")
    BY <1>1, <1>2, <2>3, EnvelopeAnswer
  <2>4. QED
    BY <1>4, <2>2, <2>3 DEF Auth
<1>5. QED
  BY <1>3, <1>4

\* MAIL opens an envelope with what the client sent.
LEMMA EnvelopeMail ==
  ASSUME TypeOK, TypeOK', SyncInv, SyncInv', EnvelopeInv, Mail PROVE EnvelopeInv'
<1>1. pending' = pending /\ mine' = mine /\ pc = "command" /\ buf # <<>> /\ Head(buf).line = "MAIL"
  BY CommandTaken DEF Mail, clientVars
<1>2. "command" \in Phases \ {"greet"}
  BY DEF Phases
<1>3. CASE state' = WantMail /\ \E code \in {450, 501} : Answer(code, "command")
  BY <1>1, <1>2, <1>3, EnvelopeAnswer
<1>4. CASE /\ transaction' = [from |-> Arg, rcpts |-> 0] /\ Answer(250, "command")
           /\ state' = IF pc' = "Io" THEN WantMail ELSE WantRcpt
  <2>1. CASE pc' \in Ends
    BY <2>1, EnvelopeEnds
  <2>2. CASE pc' \notin Ends
    <3>1. replies' = Append(replies, 250) /\ pc' = "command" /\ state' = WantRcpt
      BY <1>4, <2>2, TellCases DEF Answer
    <3>2. ASSUME NEW f \in Envelopes, NEW e \in Envelopes,
                 f = Envelope(e, pending[Len(replies) + 1], 250)
          PROVE  Agreed(f)'
      <4>1. /\ pending[Len(replies) + 1].line = "MAIL"
            /\ pending[Len(replies) + 1].arg = Arg /\ Arg # None
        BY <1>1, NextAwaited DEF Arg
      <4>2. f = [from |-> Arg, rcpts |-> 0]
        BY <3>2, <4>1 DEF Envelope
      <4>3. f = transaction' /\ f.from # None
        BY <1>4, <4>1, <4>2
      <4>4. QED
        BY <3>1, <4>3 DEF Agreed
    <3>3. QED
      BY <1>1, <2>2, <3>1, <3>2, SomethingTold
  <2>3. QED
    BY <2>1, <2>2
<1>5. QED
  BY <1>3, <1>4 DEF Mail

\* RCPT adds the recipient to both.
LEMMA EnvelopeRcpt ==
  ASSUME TypeOK, TypeOK', SyncInv, SyncInv', EnvelopeInv, Rcpt PROVE EnvelopeInv'
<1>1. pending' = pending /\ mine' = mine /\ pc = "command" /\ buf # <<>> /\ Head(buf).line = "RCPT"
      /\ accepts("RCPT")
  BY CommandTaken DEF Rcpt, clientVars
<1>2. "command" \in Phases \ {"greet"}
  BY DEF Phases
<1>3. CASE UNCHANGED <<state, transaction>> /\ \E code \in {452, 501} : Answer(code, "command")
  BY <1>1, <1>2, <1>3, EnvelopeAnswer
<1>4. CASE /\ transaction' = [transaction EXCEPT !.rcpts = @ + 1] /\ Answer(250, "command")
           /\ state' = IF pc' = "Io" THEN state ELSE WantData
  <2>1. CASE pc' \in Ends
    BY <2>1, EnvelopeEnds
  <2>2. CASE pc' \notin Ends
    <3>1. replies' = Append(replies, 250) /\ pc' = "command" /\ state' = WantData
      BY <1>4, <2>2, TellCases DEF Answer
    <3>2. state \in {WantRcpt, WantData}
      BY <1>1 DEF accepts, settle, AuthVerbs
    <3>3. ASSUME NEW e \in Envelopes, NEW f \in Envelopes, Agreed(e),
                 f = Envelope(e, pending[Len(replies) + 1], 250)
          PROVE  Agreed(f)'
      <4>1. pending[Len(replies) + 1].line = "RCPT"
        BY <1>1, NextAwaited
      <4>2. f = [e EXCEPT !.rcpts = @ + 1]
        BY <3>3, <4>1 DEF Envelope
      <4>3. e = transaction /\ e.from # None
        BY <3>2, <3>3 DEF Agreed
      <4>4. f = transaction' /\ f.from # None /\ f.rcpts > 0
        BY <1>4, <4>2, <4>3 DEF Envelopes
      <4>5. QED
        BY <4>4 DEF Agreed
    <3>4. QED
      BY <1>1, <2>2, <3>1, <3>3, SomethingTold
  <2>3. QED
    BY <2>1, <2>2
<1>5. QED
  BY <1>3, <1>4 DEF Rcpt

LEMMA EnvelopeData ==
  ASSUME TypeOK, TypeOK', SyncInv, SyncInv', EnvelopeInv, Data PROVE EnvelopeInv'
<1>1. pending' = pending /\ mine' = mine /\ pc = "command" /\ buf # <<>> /\ Answer(354, "header")
      /\ state' = state /\ transaction' = transaction
  BY CommandTaken DEF Data, clientVars, sessionVars, handlerVars
<1>2. "header" \in Phases \ {"greet"}
  BY DEF Phases
<1>3. QED
  BY <1>1, <1>2, EnvelopeAnswer

\* Any reply after which no envelope is open.
LEMMA EnvelopeReply ==
  ASSUME TypeOK, TypeOK', SyncInv', EnvelopeInv, pc \notin Ends,
         NEW code \in Nat, NEW next \in Phases \ {"greet"}, NEW failed \in Ends,
         Tell(code, next, failed), UNCHANGED <<pending, mine>>, state' \notin {WantRcpt, WantData}
  PROVE  EnvelopeInv'
<1>1. CASE pc' \in Ends
  BY <1>1, EnvelopeEnds
<1>2. CASE pc' \notin Ends
  <2>1. replies' = Append(replies, code) /\ pc' = next
    BY <1>2, TellCases
  <2>2. \A e, f \in Envelopes :
          Agreed(e) /\ f = Envelope(e, pending[Len(replies) + 1], code) => Agreed(f)'
    BY DEF Agreed
  <2>3. pc' # "greet"
    BY <2>1
  <2>4. QED
    BY <1>2, <2>1, <2>2, <2>3, SomethingTold
<1>3. QED
  BY <1>1, <1>2

LEMMA EnvelopeGreet ==
  ASSUME TypeOK, TypeOK', SyncInv', EnvelopeInv, Greet PROVE EnvelopeInv'
<1>1. pc = "greet" /\ Tell(220, "command", "Io") /\ UNCHANGED <<pending, mine, state>>
  BY DEF Greet, Answer, clientVars, sessionVars
<1>2. state' = WantGreeting
  BY <1>1 DEF EnvelopeInv
<1>3. "command" \in Phases \ {"greet"}
  BY DEF Phases
<1>4. QED
  BY <1>1, <1>2, <1>3, EnvelopeReply

LEMMA EnvelopeToken ==
  ASSUME TypeOK, TypeOK', SyncInv', Sequencing, EnvelopeInv, AuthToken PROVE EnvelopeInv'
<1>1. pc \in SaslPhases /\ state = WantAuth /\ UNCHANGED <<pending, mine>>
  BY DEF AuthToken, Sequencing, clientVars
<1>2. ASSUME NEW cred, finish_auth(cred)
      PROVE  (\E code \in {235, 535} : Answer(code, "command")) /\ state' \in {WantAuth, WantMail}
  BY <1>2 DEF finish_auth
<1>3. /\ state' \in {WantAuth, WantMail}
      /\ \/ \E code \in {235, 500, 535} : Answer(code, "command")
         \/ Answer(334, "login_pass")
  <2>1. CASE Head(buf).line = "blank"
    BY <1>1, <2>1 DEF AuthToken
  <2>2. CASE Head(buf).line # "blank" /\ pc = "plain"
    BY <1>2, <2>2 DEF AuthToken
  <2>3. CASE Head(buf).line # "blank" /\ pc = "login_user"
    BY <1>1, <2>3 DEF AuthToken
  <2>4. CASE Head(buf).line # "blank" /\ pc = "login_pass"
    BY <1>2, <2>4 DEF AuthToken
  <2>5. QED
    BY <1>1, <2>1, <2>2, <2>3, <2>4
<1>4. {"command", "login_pass"} \subseteq Phases \ {"greet"}
  BY DEF Phases
<1>5. QED
  BY <1>1, <1>3, <1>4, EnvelopeReply DEF Answer

\* A message on its way keeps its envelope; its verdict closes it.
LEMMA EnvelopeMessage ==
  ASSUME TypeOK, TypeOK', SyncInv', EnvelopeInv,
         HeaderLine \/ OpenBody \/ BodyLine \/ Write \/ Finish \/ DiscardLine
  PROVE  EnvelopeInv'
<1>1. pc \notin Ends /\ pc # "greet" /\ UNCHANGED <<pending, mine>>
  BY DEF HeaderLine, OpenBody, BodyLine, Write, Finish, DiscardLine, clientVars
<1>2. {"command", "discard"} \subseteq Phases \ {"greet"}
  BY DEF Phases
<1>3. CASE replies' = replies /\ state' = state /\ transaction' = transaction /\ pc' # "greet"
  BY <1>1, <1>3, NothingTold
<1>4. CASE replies' = replies /\ state' = WantMail /\ pc' # "greet"
  BY <1>1, <1>4, NothingTold
<1>5. CASE /\ state' = WantMail
           /\ \E code \in {250, 550, 552}, next \in {"command", "discard"} : refuse_data(code, next)
  BY <1>1, <1>2, <1>5, EnvelopeReply DEF refuse_data
<1>6. CASE HeaderLine
  <2>1. replies' = replies /\ state' = state /\ transaction' = transaction
    BY <1>6 DEF HeaderLine, sessionVars, handlerVars
  <2>2. pc' \in {"discard", "open_body", pc}
    BY <1>6 DEF HeaderLine, Discard
  <2>3. QED
    BY <1>1, <1>3, <2>1, <2>2
<1>7. CASE BodyLine
  <2>1. replies' = replies /\ state' = state /\ transaction' = transaction
    BY <1>7 DEF BodyLine, sessionVars, handlerVars
  <2>2. pc' \in {"write", "finish", "body"}
    BY <1>7 DEF BodyLine
  <2>3. QED
    BY <1>3, <2>1, <2>2
<1>8. CASE OpenBody
  <2>1. transaction' = transaction
    BY <1>8 DEF OpenBody, handlerVars
  <2>2. \/ replies' = replies /\ state' = state /\ pc' # "greet"
        \/ state' = WantMail /\ refuse_data(550, "command")
    BY <1>8 DEF OpenBody, Discard
  <2>3. QED
    BY <1>3, <1>5, <2>1, <2>2
<1>9. CASE Write
  <2>1. transaction' = transaction
    BY <1>9 DEF Write, handlerVars
  <2>2. \/ replies' = replies /\ state' = state /\ pc' # "greet"
        \/ replies' = replies /\ state' = WantMail /\ pc' # "greet"
        \/ state' = WantMail /\ refuse_data(550, "discard")
    BY <1>9 DEF Write, mirror
  <2>3. QED
    BY <1>3, <1>4, <1>5, <2>1, <2>2
<1>10. CASE Finish
  <2>1. \/ replies' = replies /\ state' = WantMail /\ pc' # "greet"
        \/ state' = WantMail /\ \E code \in {250, 550} : refuse_data(code, "command")
    BY <1>10 DEF Finish, conclude
  <2>2. QED
    BY <1>4, <1>5, <2>1
<1>11. CASE DiscardLine
  <2>1. CASE AtTerminator
    <3>1. state' = WantMail /\ TerminatorReply
      BY <1>11, <2>1 DEF DiscardLine
    <3>2. \/ replies' = replies /\ pc' # "greet"
          \/ \E code \in {550, 552} : refuse_data(code, "command")
      BY <3>1 DEF TerminatorReply
    <3>3. QED
      BY <1>4, <1>5, <3>1, <3>2
  <2>2. CASE ~AtTerminator
    <3>1. replies' = replies /\ state' = state /\ transaction' = transaction /\ pc' = pc
      BY <1>11, <2>2 DEF DiscardLine
    <3>2. QED
      BY <1>1, <1>3, <3>1
  <2>3. QED
    BY <2>1, <2>2
<1>12. QED
  BY <1>6, <1>7, <1>8, <1>9, <1>10, <1>11

LEMMA EnvelopeServe ==
  ASSUME TypeOK, TypeOK', SyncInv, SyncInv', Sequencing, EnvelopeInv, Serve PROVE EnvelopeInv'
<1>1. CASE Read
  <2>1. UNCHANGED <<pc, replies, mine, pending, state, transaction>> /\ pc \notin Ends /\ pc # "greet"
    BY <1>1 DEF Read, Waiting, Reading, sessionVars, handlerVars, clientVars
  <2>2. QED
    BY <2>1, NothingTold
<1>2. CASE HangUp \/ IdleTimeout \/ Drained \/ LongLine \/ Quit \/ HandshakeFails
  <2>1. pc' \in Ends
    BY <1>2 DEF HangUp, IdleTimeout, Drained, LongLine, Quit, HandshakeFails, Answer, Tell
  <2>2. QED
    BY <2>1, EnvelopeEnds
<1>3. QED
  BY <1>1, <1>2, EnvelopeGreet, EnvelopeSimple, EnvelopeAuth, EnvelopeToken, EnvelopeMail,
     EnvelopeRcpt, EnvelopeData, EnvelopeMessage DEF Serve

LEMMA EnvelopeWriteFails == ASSUME WriteFails PROVE EnvelopeInv'
BY EnvelopeEnds DEF WriteFails

\* A reply ahead of others changes only what its own command awaits.
LEMMA PendingShift ==
  ASSUME TypeOK, SyncInv, ClientReads, pc \notin Ends
  PROVE  \A i \in 1..Len(replies') : pending'[i] = pending[i + 1]
<1>1. /\ Len(replies) >= 1 /\ Len(replies) \in Nat /\ Len(replies') = Len(replies) - 1
      /\ Len(pending) \in Nat /\ DOMAIN replies = 1..Len(replies)
  BY ReplyTaken, Counts
<1>2. Len(replies) <= Len(pending)
  BY RepliesAwaited
<1>3. ASSUME Plain(1) PROVE \A i \in 1..Len(replies') : pending'[i] = pending[i + 1]
  <2>1. \A i \in 1..Len(pending) - 1 : pending'[i] = pending[i + 1]
    BY <1>3, PlainReply, PendingRead
  <2>2. \A i \in 1..Len(replies') : i \in 1..Len(pending) - 1
    BY <1>1, <1>2
  <2>3. QED
    BY <2>1, <2>2
<1>4. CASE Len(replies) = 1
  BY <1>1, <1>4
<1>5. CASE Len(replies) # 1
  <2>1. 1 \in 1..Len(replies) - 1 /\ 1 \in 1..Len(replies)
    BY <1>1, <1>5
  <2>2. pc \in Phases /\ body_follows \in BOOLEAN
    BY DEF TypeOK, WireType, DataType
  <2>3. CASE ReadsCommands
    BY <1>1, <1>3, <2>1, <2>3 DEF SyncInv, AtCommands
  <2>4. ASSUME NEW code, Challenged(code) PROVE Plain(1)
    BY <2>1, <2>4 DEF Challenged
  <2>5. CASE pc \in SaslPhases
    <3>1. AtToken /\ replies # <<>>
      BY <2>5 DEF SyncInv, ClientReads
    <3>2. QED
      BY <1>3, <2>4, <3>1 DEF AtToken
  <2>6. CASE ReadsText
    <3>1. AtText
      BY <2>6 DEF SyncInv
    <3>2. ASSUME NEW t \in Nat, InText(t) PROVE Plain(1)
      BY <1>1, <2>1, <3>2 DEF InText
    <3>3. QED
      BY <1>3, <2>4, <3>1, <3>2 DEF AtText
  <2>7. CASE pc = "handshake"
    <3>1. AtHandshake /\ replies # <<>>
      BY <2>7 DEF SyncInv, ClientReads
    <3>2. Plain(1)
      BY <2>1, <3>1 DEF AtHandshake
    <3>3. QED
      BY <1>3, <3>2
  <2>8. QED
    BY <2>2, <2>3, <2>5, <2>6, <2>7 DEF Phases, ReadsCommands, ReadsText
<1>6. QED
  BY <1>4, <1>5

LEMMA EnvelopeReads ==
  ASSUME TypeOK, SyncInv, EnvelopeInv, ClientReads PROVE EnvelopeInv'
<1>1. UNCHANGED <<pc, state, transaction>>
  BY DEF ClientReads, serverVars, sessionVars, handlerVars
<1>2. CASE pc \in Ends
  BY <1>1, <1>2, EnvelopeEnds
<1>3. CASE pc \notin Ends
  <2>1. PICK E \in [0..Len(replies) -> Envelopes] : Told(E) /\ Agreed(E[Len(replies)])
    BY <1>3 DEF EnvelopeInv
  <2>2. /\ Len(replies) >= 1 /\ Len(replies) \in Nat /\ Len(replies') = Len(replies) - 1
        /\ \A i \in 1..Len(replies') : replies'[i] = replies[i + 1]
        /\ Head(replies) = replies[1] /\ Head(pending) = pending[1]
    BY ReplyTaken, Counts
  <2>3. \A i \in 1..Len(replies') : pending'[i] = pending[i + 1]
    BY <1>3, PendingShift
  <2> DEFINE F == [i \in 0..Len(replies) - 1 |-> E[i + 1]]
  <2>4. F \in [0..Len(replies) - 1 -> Envelopes]
    BY <2>2
  <2>5. \A i \in 0..Len(replies) - 1 : F[i] = E[i + 1]
    OBVIOUS
  <2> HIDE DEF F
  <2>6. F[0] = mine'
    <3>1. F[0] = E[1]
      BY <2>2, <2>5
    <3>2. 1 \in 1..Len(replies) /\ 1 - 1 = 0
      BY <2>2
    <3>3. E[1] = Envelope(E[0], pending[1], replies[1]) /\ E[0] = mine
      BY <2>1, <3>2 DEF Told
    <3>4. mine' = Envelope(mine, pending[1], replies[1])
      BY <2>2 DEF ClientReads
    <3>5. QED
      BY <3>1, <3>3, <3>4
  <2>7. ASSUME NEW i \in 1..Len(replies')
        PROVE  F[i] = Envelope(F[i - 1], pending'[i], replies'[i])
    <3>1. /\ i \in 0..Len(replies) - 1 /\ i - 1 \in 0..Len(replies) - 1 /\ (i - 1) + 1 = i
          /\ i + 1 \in 1..Len(replies) /\ (i + 1) - 1 = i
      BY <2>2
    <3>2. F[i] = E[i + 1] /\ F[i - 1] = E[i]
      BY <2>5, <3>1
    <3>3. E[i + 1] = Envelope(E[i], pending[i + 1], replies[i + 1])
      BY <2>1, <3>1 DEF Told
    <3>4. QED
      BY <2>2, <2>3, <3>2, <3>3
  <2>8. PICK G \in [0..Len(replies') -> Envelopes] : G = F
    BY <2>2, <2>4
  <2>9. Told(G)'
    BY <2>6, <2>7, <2>8 DEF Told
  <2>10. ASSUME NEW g \in {G[Len(replies')]} PROVE Agreed(g)'
    <3>1. Len(replies') \in 0..Len(replies) - 1 /\ Len(replies') + 1 = Len(replies)
      BY <2>2
    <3>2. g = E[Len(replies)]
      BY <2>5, <2>8, <2>10, <3>1
    <3>3. Agreed(g)
      BY <2>1, <3>2
    <3>4. QED
      BY <1>1, <3>3 DEF Agreed
  <2>11. Agreed(G[Len(replies)])'
    BY <2>10
  <2>12. pc' # "greet" \/ state' = WantGreeting
    BY <1>1 DEF EnvelopeInv
  <2>13. QED
    BY <2>9, <2>11, <2>12 DEF EnvelopeInv
<1>4. QED
  BY <1>2, <1>3

LEMMA EnvelopeClient ==
  ASSUME TypeOK, SyncInv, EnvelopeInv,
         \/ ClientHandshake \/ ClientCommand \/ ClientToken \/ ClientText \/ ClientHangsUp
         \/ ClientFallsSilent \/ DrainBegins \/ UNCHANGED vars
  PROVE  EnvelopeInv'
<1>1. CASE pc' \in Ends
  BY <1>1, EnvelopeEnds
<1>2. CASE pc' \notin Ends
  <2>1. /\ UNCHANGED <<replies, mine>> /\ pc \notin Ends
        /\ state' \in {WantRcpt, WantData} => state' = state /\ transaction' = transaction
        /\ pc' # "greet" \/ (pc' = pc /\ state' = state)
    <3>1. CASE ClientHandshake
      BY <1>2, <3>1 DEF ClientHandshake, handlerVars
    <3>2. CASE \/ ClientCommand \/ ClientToken \/ ClientText \/ ClientHangsUp
               \/ ClientFallsSilent \/ DrainBegins
      <4>1. UNCHANGED <<replies, mine, pc, state, transaction>>
        BY <3>2 DEF ClientCommand, ClientToken, ClientText, ClientHangsUp, ClientFallsSilent,
           DrainBegins, serverVars, sessionVars, handlerVars, clientVars
      <4>2. QED
        BY <1>2, <4>1
    <3>3. CASE UNCHANGED vars
      <4>1. UNCHANGED <<replies, mine, pc, state, transaction>>
        BY <3>3 DEF vars, serverVars, sessionVars, handlerVars, clientVars
      <4>2. QED
        BY <1>2, <4>1
    <3>4. QED
      BY <3>1, <3>2, <3>3
  <2>2. pc' = "greet" => state' = WantGreeting
    BY <2>1 DEF EnvelopeInv
  <2>3. \A i \in 1..Len(replies) : i \in 1..Len(pending)
    BY <2>1, RepliesAwaited, Counts
  <2>4. \/ pending' = pending \/ \E c \in Awaited : pending' = Append(pending, c)
    <3>1. Commands \subseteq Awaited /\ Message("TOKEN") \in Awaited
      BY NamesAssumption, NoneTyped DEF NamesAssumption, Message, Awaited, Words
    <3>2. QED
      BY <3>1 DEF ClientHandshake, ClientCommand, ClientToken, ClientText, ClientHangsUp,
         ClientFallsSilent, DrainBegins, vars, clientVars
  <2>5. \A i \in 1..Len(replies) : pending'[i] = pending[i]
    BY <2>3, <2>4, PendingAppended
  <2>6. QED
    BY <2>1, <2>2, <2>5, NothingTold
<1>3. QED
  BY <1>1, <1>2

LEMMA EnvelopeInit == ASSUME Init PROVE EnvelopeInv
<1>1. /\ pc = "greet" /\ state = WantGreeting /\ replies = <<>> /\ mine = NoEnvelope
  BY DEF Init
<1>2. Len(replies) = 0
  BY <1>1
<1> DEFINE E == [i \in 0..0 |-> NoEnvelope]
<1>3. E \in [0..Len(replies) -> Envelopes] /\ E[0] = NoEnvelope
  BY <1>2, NoneTyped
<1> HIDE DEF E
<1>4. Told(E)
  BY <1>1, <1>2, <1>3 DEF Told
<1>5. Agreed(E[Len(replies)])
  BY <1>1 DEF Agreed
<1>6. QED
  BY <1>1, <1>3, <1>4, <1>5 DEF EnvelopeInv

\* What the client will know of its envelope is what the handler holds, for
\* every pipeline of MAIL, RCPT, RSET, EHLO and messages.
THEOREM EnvelopeKnown == Spec => []EnvelopeInv
<1>1. Init => EnvelopeInv
  BY EnvelopeInit
<1>2. TypeOK /\ TypeOK' /\ SyncInv /\ SyncInv' /\ GateInv /\ EnvelopeInv /\ [Next]_vars
        => EnvelopeInv'
  BY EnvelopeServe, EnvelopeWriteFails, EnvelopeReads, EnvelopeClient
     DEF GateInv, Next, Proceed, Client
<1>3. QED
  BY <1>1, <1>2, TypeCorrect, GateCorrect, InStep, PTL DEF Spec

\* A message is relayed under the envelope its client has been told was
\* accepted (Session!EnvelopeAgreed): nothing leaks from an earlier
\* transaction, however the replies are pipelined (mail, rcpt, reset).
THEOREM EnvelopeAgreedHolds == Spec => []EnvelopeAgreed
<1>1. ASSUME TypeOK, SyncInv, GateInv, EnvelopeInv PROVE EnvelopeAgreed
  <2>1. SUFFICES ASSUME pc \in MessagePhases, \A i \in DOMAIN replies : replies[i] # 354
                 PROVE  transaction = mine /\ mine.from # None /\ mine.rcpts > 0
    BY DEF EnvelopeAgreed
  <2>2. state = WantData /\ pc \notin Ends /\ Owed = 1
    BY <1>1, <2>1 DEF GateInv, Sequencing, Owed
  <2>3. replies = <<>>
    <3>1. CASE ReadsCommands
      BY <1>1, <2>1, <3>1 DEF SyncInv, AtCommands
    <3>2. CASE ReadsText
      <4>1. AtText
        BY <1>1, <3>2 DEF SyncInv
      <4>2. ~Challenged(354)
        <5>1. ASSUME replies # <<>> PROVE Len(replies) \in DOMAIN replies
          BY <1>1, <5>1, Counts
        <5>2. QED
          BY <2>1, <5>1 DEF Challenged
      <4>3. PICK t \in Nat : InText(t)
        BY <4>1, <4>2 DEF AtText
      <4>4. Len(replies) + 1 <= 1 /\ Len(replies) \in Nat
        BY <1>1, <2>2, <4>3, Counts DEF InText, Ahead
      <4>5. Len(replies) = 0
        BY <4>4
      <4>6. QED
        BY <1>1, <4>5, Counts
    <3>3. body_follows \in BOOLEAN
      BY <1>1 DEF TypeOK, DataType
    <3>4. QED
      BY <2>1, <3>1, <3>2, <3>3 DEF ReadsCommands, ReadsText
  <2>4. PICK E \in [0..Len(replies) -> Envelopes] : Told(E) /\ Agreed(E[Len(replies)])
    BY <1>1, <2>2 DEF EnvelopeInv
  <2>5. E[Len(replies)] = mine
    BY <2>3, <2>4 DEF Told
  <2>6. QED
    BY <2>2, <2>4, <2>5 DEF Agreed
<1>2. QED
  BY <1>1, InStep, TypeCorrect, GateCorrect, EnvelopeKnown, PTL
=============================================================================
