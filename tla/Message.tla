------------------------------- MODULE Message -------------------------------
(***************************************************************************)
(* DATA byte by byte: Session::read_message (server/session.rs) over       *)
(* Framing, and the header half of ProxyHandler::open_body (proxy.rs) over *)
(* Headers.  The client's bytes arrive in reads of any size; what the      *)
(* proxy makes of them is compared with definitions over the whole input.  *)
(* The bytes behind the message's terminator are the client's next         *)
(* command.  What the upstream may answer, and when, is Relay's subject:   *)
(* here it takes what it is written, refuses it or is lost.                *)
(***************************************************************************)
EXTENDS Framing, Headers

CONSTANTS
  Inputs,   \* bound: what the client may send after the 354
  Answers,  \* bound: the header lists the API may answer with
  MaxRead,  \* bound: bytes a read brings, unless it brings all there are
  MAX_COMMAND_BUFFER

ASSUME MessageAssumption ==
  /\ MAX_COMMAND_BUFFER \in Nat /\ MAX_COMMAND_BUFFER >= 2 /\ MaxRead \in Nat \ {0}
  /\ Inputs \subseteq Seq(Bytes)
  /\ Answers \subseteq Seq([name : Seq(Bytes), value : Seq(Bytes) \cup {Null}])

VARIABLES
  input, pos,     \* what the client sends, and how much of it has been read
  buf,            \* Session::buf
  phase,          \* where read_message is
  collector,      \* HeaderCollector
  headers,        \* the block it has handed over
  framer,         \* BodyFramer
  at_line_start,  \* read_message's own view of the framer's, or the drain's
  body_follows,   \* the terminator has not been read
  asked, api,     \* the headers the API is shown, and those it answers with
  up,             \* what has been written upstream
  why,            \* what the drain to the terminator is for
  reply           \* the code the client is answered, 0 before

readVars == <<input, pos, buf>>
apiVars  == <<asked, api>>
vars == <<readVars, phase, collector, headers, framer, at_line_start, body_follows, apiVars, up,
          why, reply>>

Init ==
  /\ input \in Inputs /\ pos = 0 /\ buf = <<>>
  /\ phase = "header" /\ collector = NewCollector /\ headers = <<>> /\ framer = NewFramer
  /\ at_line_start = TRUE /\ body_follows = TRUE /\ asked = <<>> /\ api = <<>> /\ up = <<>>
  /\ why = "none" /\ reply = 0

-----------------------------------------------------------------------------
(* next_line *)

\* Mutant: the header cap leaves no room for a terminator split across reads.
TERMINATOR_SLACK_mutant == 0

TERMINATOR_SLACK == 2

\* The bytes that may wait for their newline.
max_incomplete ==
  CASE phase = "header"  -> remaining_capacity(collector) + TERMINATOR_SLACK
    [] phase = "body"    -> WRITE_CHUNK
    [] phase = "discard" -> MAX_COMMAND_BUFFER

Reading == {"header", "body", "discard"}

Got == phase \in Reading /\ HasLine(buf) /\ buf' = AfterLine(buf)
TooLong == phase \in Reading /\ ~HasLine(buf) /\ Len(buf) > max_incomplete /\ buf' = <<>>
Waiting == phase \in Reading /\ ~HasLine(buf) /\ Len(buf) <= max_incomplete

\* One read, of however much has arrived.
Read ==
  /\ Waiting
  /\ \E n \in {k \in 1..Len(input) - pos : k <= MaxRead \/ k = Len(input) - pos} :
       /\ buf' = buf \o SubSeq(input, pos + 1, pos + n)
       /\ pos' = pos + n
  /\ UNCHANGED <<input, phase, collector, headers, framer, at_line_start, body_follows, apiVars,
                 up, why, reply>>

\* The end of the stream, a reset or the timeout: no answer, and the sink is
\* dropped.
Eof ==
  /\ Waiting
  /\ phase' = "closed"
  /\ UNCHANGED <<readVars, collector, headers, framer, at_line_start, body_follows, apiVars, up, why,
                 reply>>

-----------------------------------------------------------------------------
(* The header block *)

\* The drain to the terminator, and what it is for.
Drain(line_start, reason) ==
  phase' = "discard" /\ at_line_start' = line_start /\ why' = reason

HeaderLine ==
  /\ phase = "header" /\ Got
  /\ LET r == push_line(collector, FirstLine(buf))
     IN  /\ collector' = r.to
         /\ headers' = IF r.event \in {"Complete", "Terminator"} THEN collector.headers ELSE headers
         /\ CASE r.event = "None" ->
                   UNCHANGED <<phase, at_line_start, body_follows, why>>
              [] r.event = "TooLarge" ->
                   Drain(TRUE, "large") /\ UNCHANGED body_follows
              [] OTHER ->
                   /\ phase' = "open_body" /\ body_follows' = (r.event = "Complete")
                   /\ UNCHANGED <<at_line_start, why>>
  /\ UNCHANGED <<input, pos, framer, apiVars, up, reply>>

\* The cap is crossed inside a line whose tail is still to come.
HeaderTooLong ==
  /\ phase = "header" /\ TooLong
  /\ collector' = mark_too_large(collector)
  /\ Drain(FALSE, "large")
  /\ UNCHANGED <<input, pos, headers, framer, body_follows, apiVars, up, reply>>

Answered(code) == phase' = "done" /\ reply' = code

\* The handler's refusal: at the terminator, which may be still to come.
Refused ==
  IF body_follows THEN Drain(TRUE, "refused") /\ UNCHANGED <<up, reply>>
  ELSE Answered(550) /\ UNCHANGED <<up, at_line_start, why>>

\* open_body: parse, ask, merge, check and write; any other refusal of the
\* message, by the API or on the way to the upstream, is the first disjunct.
OpenBody ==
  /\ phase = "open_body"
  /\ asked' = parse_headers(headers)
  /\ \/ Refused /\ UNCHANGED api
     \/ \E answer \in Answers :
          LET merged == merge_headers(asked', answer)
          IN  /\ api' = answer
              /\ IF assert_header_relayable(merged)
                 THEN /\ up' = header_block(merged)
                      /\ phase' = IF body_follows THEN "body" ELSE "finish"
                      /\ UNCHANGED <<at_line_start, why, reply>>
                 ELSE Refused
  /\ UNCHANGED <<readVars, collector, headers, framer, body_follows>>

-----------------------------------------------------------------------------
(* The body *)

\* The sink takes a piece, or passes on a refusal: mirror() answers at once and
\* reads the rest of the message away; an upstream that is lost closes the client.
Staged(r, begins) ==
  /\ framer' = r.to
  /\ CASE r.piece = "Terminator" ->
            /\ phase' = "finish" /\ body_follows' = FALSE /\ at_line_start' = begins
            /\ UNCHANGED <<up, why, reply>>
       [] r.piece = "Pending" ->
            at_line_start' = begins /\ UNCHANGED <<phase, body_follows, up, why, reply>>
       [] r.piece = "Chunk" ->
            \/ /\ up' = up \o r.bytes /\ at_line_start' = begins
               /\ UNCHANGED <<phase, body_follows, why, reply>>
            \/ Drain(begins, "mirror") /\ reply' = 550 /\ UNCHANGED <<body_follows, up>>
            \/ phase' = "closed" /\ UNCHANGED <<at_line_start, body_follows, up, why, reply>>

BodyLine ==
  /\ phase = "body" /\ Got
  /\ Staged(push(framer, FirstLine(buf)), TRUE)
  /\ UNCHANGED <<input, pos, collector, headers, apiVars>>

\* Mutant: the session takes a line to begin after every piece.
BodyTooLong_mutant ==
  /\ phase = "body" /\ TooLong
  /\ Staged(push_partial(framer, buf), TRUE)
  /\ UNCHANGED <<input, pos, collector, headers, apiVars>>

\* No newline within a chunk's worth of bytes: it goes out as it is.
BodyTooLong ==
  /\ phase = "body" /\ TooLong
  /\ Staged(push_partial(framer, buf), FALSE)
  /\ UNCHANGED <<input, pos, collector, headers, apiVars>>

\* framer.flush()
Rest == framer.out

\* UpstreamSession::finish, from the last byte written.
Tail_ == IF up \o Rest # <<>> /\ Last(up \o Rest) = LF THEN <<DOT>> \o CRLF
         ELSE CRLF \o <<DOT>> \o CRLF

\* write_final, finish and conclude.
Finish ==
  /\ phase = "finish"
  /\ \/ up' = up \o Rest \o Tail_ /\ (Answered(250) \/ Answered(550))
     \/ Answered(550) /\ UNCHANGED up
     \/ phase' = "closed" /\ UNCHANGED <<up, reply>>
  /\ UNCHANGED <<readVars, collector, headers, framer, at_line_start, body_follows, apiVars, why>>

-----------------------------------------------------------------------------
(* discard_to_terminator, and what its callers answer after it *)

DiscardLine ==
  /\ phase = "discard" /\ Got
  /\ IF at_line_start /\ is_terminator(FirstLine(buf))
     THEN /\ Answered(CASE why = "large" -> 552 [] why = "refused" -> 550 [] OTHER -> reply)
          /\ UNCHANGED at_line_start
     ELSE at_line_start' = TRUE /\ UNCHANGED <<phase, reply>>
  /\ UNCHANGED <<input, pos, collector, headers, framer, body_follows, apiVars, up, why>>

DiscardTooLong ==
  /\ phase = "discard" /\ TooLong
  /\ at_line_start' = FALSE
  /\ UNCHANGED <<input, pos, phase, collector, headers, framer, body_follows, apiVars, up, why,
                 reply>>

Next ==
  \/ Read \/ Eof \/ HeaderLine \/ HeaderTooLong \/ OpenBody \/ BodyLine \/ BodyTooLong
  \/ Finish \/ DiscardLine \/ DiscardTooLong

Spec == Init /\ [][Next]_vars

-----------------------------------------------------------------------------
(* The message, from the whole of what the client sends *)

\* Where the first line of s begins that is a lone dot, and the first that is
\* empty; one past the end if none is.
FirstTerminator(s) ==
  LET begins == {i \in DOMAIN s : LineBegins(s, i) /\ is_terminator(LineAt(s, i))}
  IN  IF begins = {} THEN Len(s) + 1 ELSE Min(begins)
FirstBlank(s) ==
  LET begins == {i \in DOMAIN s : LineBegins(s, i) /\ is_empty_line(LineAt(s, i))}
  IN  IF begins = {} THEN Len(s) + 1 ELSE Min(begins)

\* A block without the dots that begin its lines.
unstuff(s) == Picked(s, {i \in DOMAIN s : ~(s[i] = DOT /\ LineBegins(s, i))})

\* What the client sends as its message: whether it ends, the bytes up to there,
\* and the text in front of the terminator.
Terminated == FirstTerminator(input) <= Len(input)
MessageBytes == LineEnd(input, FirstTerminator(input))
Text == SubSeq(input, 1, FirstTerminator(input) - 1)

HeaderSent == unstuff(SubSeq(Text, 1, FirstBlank(Text) - 1))
BodySent   == SubSeq(Text, LineEnd(Text, FirstBlank(Text)) + 1, Len(Text))

(* What a reader at the upstream's end makes of what was written *)

Fields ==
  LET lines == Unfold(unstuff(SubSeq(up, 1, FirstBlank(up) - 1)), {SP})
  IN  [i \in DOMAIN lines |-> SubSeq(lines[i], 1, Len(lines[i]) - 2)]

-----------------------------------------------------------------------------
(* Properties *)

\* The type of every variable; the header block stays within its cap and what is
\* staged below a chunk, however long the lines are.
TypeOK ==
  /\ input \in Inputs /\ pos \in 0..Len(input) /\ buf \in Seq(Bytes) /\ up \in Seq(Bytes)
  /\ phase \in Reading \cup {"open_body", "finish", "done", "closed"}
  /\ collector.headers \in Seq(Bytes) /\ collector.too_large \in BOOLEAN
  /\ Len(collector.headers) <= max_header_size /\ headers \in Seq(Bytes)
  /\ framer.out \in Seq(Bytes) /\ Len(framer.out) < WRITE_CHUNK
  /\ framer.held_cr \in BOOLEAN /\ framer.at_line_start \in BOOLEAN
  /\ at_line_start \in BOOLEAN /\ body_follows \in BOOLEAN
  /\ api \in Answers \cup {<<>>} /\ reply \in {0, 250, 550, 552}
  /\ why \in {"none", "large", "refused", "mirror"}

\* However the bytes are cut into reads, and wherever in a line the header cap,
\* a full staging buffer or a refusal falls, the proxy stops reading at the
\* message's own terminator: the next command is not swallowed and no text is
\* left to be read as one (next_line, TERMINATOR_SLACK, discard_to_terminator).
StopsAtTerminator ==
  LET consumed == pos - Len(buf)
  IN  IF phase = "done" \/ ~body_follows
      THEN Terminated /\ consumed = MessageBytes
      ELSE Terminated => consumed < MessageBytes

\* Whether a message is refused for the size of its header block depends on
\* the message, not on how its bytes arrived (push_line, remaining_capacity).
CapByTheMessage ==
  /\ why = "large" => Len(HeaderSent) > max_header_size
  /\ phase \in {"open_body", "body", "finish"} => HeaderSent = headers

\* A message that is accepted is in the upstream's hands line for line: the
\* body as the client sent it with every line ended by CRLF, one terminator
\* and that at the end, whatever the staging, the held CR and the reads did
\* (BodyFramer, finish).
BodyVerbatim ==
  reply = 250 =>
    LET end == FirstTerminator(up)
    IN  /\ end <= Len(up) /\ LineEnd(up, end) = Len(up)
        /\ SubSeq(up, LineEnd(up, FirstBlank(up)) + 1, end - 1) = normalize_breaks(BodySent)

\* What the upstream reads as the header of a message is what the API judged:
\* each field was shown to it and not named in its answer, or is the API's
\* own, with nothing forged, folded away, split or lost in between
\* (parse_headers, merge_headers, assert_header_relayable, header_block).
ApiHasTheLastWord ==
  phase \in {"body", "finish"} \/ reply = 250 =>
    LET text(h) == h.name \o <<COLON, SP>> \o normalize_breaks(h.value)
        named   == {Lower(api[i].name) : i \in DOMAIN api}
        kept    == Picked(asked, {i \in DOMAIN asked : Lower(asked[i].name) \notin named})
        added   == Picked(api, {i \in DOMAIN api : api[i].value # Null})
        all     == kept \o added
    IN  Fields = [i \in DOMAIN all |-> text(all[i])]

\* The API is shown every header line of the client's under its own name, in
\* order and once: none is lost, or hidden in the value of another, by the way
\* its line ends or by a dot in front of it (push_line, parse_headers).  A name
\* with a line break in it is what a line without a colon makes of its fold.
EveryHeaderShown ==
  phase \in {"body", "finish"} =>
    LET block == SubSeq(Text, 1, FirstBlank(Text) - 1)
        line(k) == trim_end_breaks(Unstuffed(LineAt(block, k)))
        folds(k) == k \in 2..Len(block) /\ Unstuffed(LineAt(block, k))[1] \in {SP, VT}
        heads(k) == /\ LineBegins(block, k) /\ ~folds(k) /\ FirstColon(line(k)) > 1
                    /\ \/ FirstColon(line(k)) < Len(line(k))
                       \/ folds(LineEnd(block, k) + 1)
        name(k) == SubSeq(line(k), 1, FirstColon(line(k)) - 1)
        names   == [i \in DOMAIN asked |-> asked[i].name]
    IN  Picked(names, {i \in DOMAIN names : ~Contains(names[i], LF)})
          = Picked([k \in DOMAIN block |-> name(k)], {k \in DOMAIN block : heads(k)})
=============================================================================
