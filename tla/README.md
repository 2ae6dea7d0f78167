# Verification of smtp-proxy-rs

TLA+ specifications of smtp-proxy: an SMTP server that takes mail from
authenticated clients over TLS, asks an HTTP API whether (and with which
headers) each message may go out, and streams it to one upstream server. All
paths below are relative to the repository.

## The system

| Part | State | Operations | Modelled by |
|---|---|---|---|
| SMTP session, `src/server/session.rs` | `State`, read buffer, TLS flag, recipient counter | one per command, SASL tokens, the phases of a message, timeouts, drain | `Session`; the wait for a line, read by read, in `CommandDeadline` |
| Handler, `src/proxy.rs` | username, transaction | auth, mail, rcpt, open_body, reset | `Session` (transaction), `Relay` and `Message` (open_body) |
| Upstream session, `src/relay.rs` | stream, capabilities, last byte written | connect, open_transaction, write, finish | `Relay` |
| API client, `src/api.rs` | none | check | its outcomes, in `Relay` |
| Connection limits, `src/server/listener.rs` | semaphore, count per client | try_acquire, drop of a permit | `ConnectionLimits` |
| Accept loops, `src/server/listener.rs` | one task per listener | accept, admit or refuse, spawn, end | `ConnectionLimits` (the gate), `Shutdown` (the loop) |
| Shutdown, `src/main.rs`, `src/shutdown.rs`, `Drain` | cancellation token, tracker, signals | first signal, drain, timeout, second signal | `Shutdown`; the drain as one session sees it, in `Session` |
| Rate limiter, `src/ratelimit.rs` | token buckets | allow, evict, prune | `RateLimiter` |
| Upstream capabilities, `ProxyFactory` | three atomics | note, read, startup probe | `UpstreamCaps` |
| Framing, `src/server/data.rs` | header collector, body framer | push_line, push, push_partial, flush | `Wire`, `Framing`, `Message`; on whole lines, among the commands, in `Session` |
| Header merging, `src/proxy.rs` | none | parse, merge, check, render | `Headers`, `Message` |
| Parsers and replies, `src/smtp/` | none | text to commands, replies to text | their results are the inputs of `Session` |
| Configuration, privilege drop, logs | - | - | not modelled: startup and output |

How they interact. Each listener has an accept loop; all share one
`ConnectionLimits`. An admitted connection is a task that runs a `Session`; the
session calls its `ProxyHandler`, which at the end of the header block runs the
API call and the upstream connection concurrently, then drives the upstream
transaction and returns a sink the session streams the body into. A refusal by
the upstream in mid-body travels back at once. SIGTERM cancels a token that
every accept loop and every session waiting for a command watches.

What is hard to get right, and what makes each part correct:

- *Session*: the position in the protocol is carried by the order of one enum;
  the client may pipeline, so a wrong step misreads everything after it. It is
  correct when every line is read as what it was sent as, every command gets
  one reply, nothing is let past the gates (TLS, authentication), nothing
  crosses from plaintext into TLS or from one transaction into the next, and it
  ends when its client is gone, or silent while it reads from it.
- *Relay*: three parties may fail at any moment, and an upstream may answer
  before it has been asked. It is correct when what the client is told agrees
  with what the upstream did, and only whole, permitted messages get through.
- *Connection limits*: two counters, updated in separate steps by several
  tasks. They are correct when both stay exact and neither is exceeded.
- *Rate limiter*: callers read the clock before they wait for the mutex, a
  pruner and an eviction throw buckets away. It is correct when no order of these
  gives a user more than the rate, and the map stays small.
- *Shutdown*: tasks that may start another task race the wait for all of them,
  and a signal may come at any moment. It is correct when a drain that succeeds
  has cut nobody off, a failure is reported, and the process does end.

- *Framing and headers*: a line, a terminator, a CRLF and the header cap may each
  be cut by a read or by a full buffer at any byte. They are correct when what
  is made of a message depends on the message alone: where it ends, whether it is
  too large, what the API is shown and what the upstream is written.
- *Upstream capabilities*: several tasks swap three relaxed atomics, each with an
  answer of a different age. They are correct when the log knows what clients are
  offered and a lasting change of the upstream gets through to them.

`PROJECT.json` lists each of these hazards at its line, with the properties
that would catch it.

## Modules

- `Session` - one connection, its handler's transaction, and its client.
- `MCSession` - the command sets of the Session runs.
- `SessionProofs` - theorems about Session: types, the gates, TLS; and about
  Session with its pipelining client: lines, replies and envelopes stay in step.
- `Relay` - one message from the end of its header block to the client's
  answer, with the upstream and the API.
- `Delivery` - what a mail client is promised about one message, and nothing
  else. `Relay` implements it.
- `MCRelay` - the reply codes of the Relay run.
- `RelayProofs` - theorems about Relay: types, the channel, what is believed of
  the upstream, the message, and the refinement of `Delivery`.
- `Wire` - bytes and lines; `Framing` - `HeaderCollector` and `BodyFramer`;
  `Headers` - the header block between client, API and upstream. All three are
  functions. `Message` composes them: DATA byte by byte. `MCMessage` has its
  inputs and the API's answers.
- `WireProofs` - what the functions of `Wire` and `Headers` compute, for every
  text and every list of headers. `MessageProofs` - the same for `Framing`, and
  theorems about Message.
- `UpstreamCaps`, `MCUpstreamCaps`, `UpstreamCapsProofs` - what the upstream announces, as the tasks
  that hear it and the clients that are offered it share it.
- `CommandDeadline` - the wait for a command in ticks of time.
- `ConnectionLimits`, `MCConnectionLimits`, `ConnectionLimitsProofs`.
- `RateLimiter`, `MCRateLimiter`, `RateLimiterProofs`.
- `Shutdown`, `MCShutdown`, `ShutdownProofs` - the process from the moment its
  signal handlers are registered to its exit.

Definitions ending in `_mutant` (and `GreetedState_restart`) are plausible
mistakes in the definition they stand next to; each shows that a property can
fail. No specification uses them.

### Session

A line is a record: what its bytes say (`line`, `arg`), what the client meant by
it (`role`, which the proxy never reads) and whether it was sent in TLS. `sock`
holds lines on the way, `buf` the read buffer, `replies` and `pending` the
answers and what they are awaited for. `pc` is where the session is suspended:
the phases of `read_message` (`header`, `open_body`, `body`, `write`, `finish`,
`discard`), of SASL, the handshake, or the `End` it returns. Each action is one
handler, from the line it takes to the reply it writes, including the state it
clears. A `send` may fail, which ends the session.

A `send` may also wait: `write_all` and `flush` have no timeout. The connection
holds `Window` replies its client has not read; with one more (`~Sent`) the
session takes no step at all, neither a read nor a timeout nor a drain, until the
client reads (`ClientReads`) or closes the connection (`WriteFails`). A session
whose `pc` is an `End` has `Returned` only when its last reply is out.

Abstractions: a line that no newline ends is the token `long`, and what follows
it is more of the same line; HELO behaves as EHLO; a header block is counted in
lines; a refusal by the API or the upstream is a 550 (Relay has the codes); what
decoding makes of an argument is the argument's value, `Junk` standing for
everything the proxy refuses. A client sends nothing behind DATA, a token, or an
AUTH that may be challenged until it has the answer. The greeting and the idle timeout are one action
because they differ in length only.

### Relay

`pc` is where `open_body` and then the session's use of the sink stand, `step`
where the concurrent `connect` stands. `out` and `in` are the two directions of
the upstream connection; `Window` pieces in flight make a write block. A reply
has a code, and 0 stands for one that cannot be parsed or is too long. Every
`read_reply` may end in a timeout at any moment before the answer is in.

The upstream answers each command once with any code, may announce different
extensions in the clear and in TLS, may send bytes ahead of the handshake, may
refuse a body before its end, may stop reading or answering, and may close at
any moment - after taking the message too. It does not accept a message before
its terminator; RFC 5321 gives it no way to.

Abstractions: every message has DSN parameters and a SIZE; a header block or an
address that cannot be relayed is an outcome of the API call (`unfit`), as
`open_body` treats both alike; the sender the API may substitute is the sender.

### Message

`input` is everything the client sends behind the 354, the next command
included, and `Read` moves any number of its bytes into `buf`, as a TCP stream
may. `Got`, `TooLong` and `Waiting` are the three ways `next_line` goes on. From
there each action is one trip round a loop of `read_message` or of
`discard_to_terminator`, with the collector and the framer as records that
`push_line`, `push` and `push_partial` map to their next value. `up` is what has
been written upstream and `asked` what the API has been shown. The properties
compare these with definitions over the whole input (`FirstTerminator`, `HeaderSent`,
`BodySent`) and with what a reader at the other end makes of `up` (`Fields`),
none of which know of reads, buffers or pieces.

Abstractions: a byte is one of the classes the code tells apart (CR, LF, dot,
colon, folding and other white space, letters of two cases); every refusal but
the cap's is a 550; when an upstream refuses or breaks off is a choice (`Relay`
has the reasons). The API sees names and values as bytes: the replacement of
bytes that are not UTF-8 in the request is left out.

### UpstreamCaps

`Asks` is the answer to an EHLO, `Notes` the call of `note_upstream_caps`, which
for a relay comes after the API's answer and for the probe after its QUIT. A
swap of each cell is a step of its own; as nothing orders relaxed operations on
different cells, a task's three swaps come in any order. What it logs is decided
by the swaps and told with the last one. An announced SIZE that is 0, missing or
not a number is no limit, as `Extensions::size` says.

### CommandDeadline

`age` counts from the greeting, `waited` from the last read. A tick is possible
while the pending read has not timed out.

### ConnectionLimits

`try_acquire` is two steps (semaphore, map), as is the drop of a permit (map,
semaphore). A connection that ends comes back as a new one, so runs have no end
and slots are reused for ever. An address is its kind, its network and its host;
`limit_key` is the code's.

### RateLimiter

`Mail` reads the clock and `AllowAt` is the rest of `allow_at` under the mutex;
`SweepBegins` and `prune` split the pruner the same way. `clock`, `last` and a
caller's instant are in ticks. A token is `Minute` units and a tick refills
`PerMinute` of them, so that the code's fractions of a token are whole numbers;
the rounding of `f64` is left out. `watch` is an observer: it counts what one
user was allowed since some moment, and gives up when that user is evicted.
`Idle` covers a refill and a wait for the mutex (`Minute + MaxWait <= Idle`); the
program's values are ten minutes, one minute and far less than one.

### Shutdown

`pc` is where `run` waits: the first select (`serving`), between the two
(`signalled`), the second one on `serve` (`awaiting_serve`) and on
`wait_drained` (`draining`). `serve` takes its steps only while it is polled. An
accept loop holds a connection in `hand` between `accept` and `tracker.spawn`,
does not look at the token while it does or while it sleeps after an error, and
may panic there. An aborted loop stops where it next waits, not at once.
Signals of one kind that arrive before they are received are one. A session is
greeting, waiting for a command or busy with one; `Session` has the details, and
`ConnectionLimits` decides between `Refuse` and `Spawn`.

## Runs

| Run | Question | Bounds |
|---|---|---|
| `session_gate` | With TLS and AUTH required, can anything get past, and does a session end when its client is gone or silent? | 11 commands in any order, 2 in flight, 1 reply held unread |
| `session_message` | Are messages, refusals, resets, a handshake and a drain kept apart? | 13 commands, two senders, two recipients, a header cap of 1, 2 in flight, 1 reply held unread |
| `limits` | Do racing listeners keep the counts exact? | 2 listeners, 6 connections of 2 clients, limits 3 and 2 |
| `relay` | Does the client's answer agree with the delivery? | every `--upstream_tls`, 2 recipients, 3 pieces, window 2, a code of each class |
| `message` | Does what becomes of a message depend on its bytes and the API alone? | every five bytes of CR, LF, dot, x behind five beginnings, every three pieces of a header block, eight answers of the API; cap 12, chunk 3, reads of 1, 2 or all bytes |
| `caps` | Do racing notes leave the log and the clients right? | two relays and the probe, two answers, one change |
| `rate_limit` | Do races, sweeps and evictions keep the rate and the bound? | 3 users, 2 buckets, 2 callers, 2 messages a minute of 2 ticks, 6 ticks |
| `shutdown` | Does a drain cut anybody off, or hide a failure, and does the process end? | 2 listeners, 2 connections, with and without a drain timeout |
| `session_quiet`, `rate_evict`, `shutdown_report`, `deadline` | Statements of the documentation and of comments that the code does not keep | as above; for `session_quiet` a connection that never fills; for `deadline` a greeting timeout of 2 ticks and a buffer of 3 bytes |

Why the bounds are enough: nothing in the session depends on how many lines are
behind the next one, so two lines in flight already put a command that changes
the state and what follows it into one read; a connection holds many replies, not
one, but that only delays the write that waits, and with room for one every reply
is written both with room and without; a header cap of one
line has a block below, at and above it; two senders tell an envelope from a
stale one; two recipients reach the limit and pass below it. Three connections
for a limit of two per client and three in total make each limit bind first in
some order, and the addresses include an IPv4 client seen through a dual-stack
listener. In Relay two recipients separate the first from the last, and three
pieces (the header block, one in the middle, one last) fill a window of two.
In Message five bytes hold a terminator with its CRLF and something on both
sides of it, and the five beginnings put them at the start of the headers, of
the body and of a body line already begun, and on both sides of the header cap;
a chunk of 3 and a command buffer of 2 are shorter than that, so every buffer
overflows in the middle of a line too. The smallest cap that leaves room for a
header, a fold and the terminator's slack is 12. In UpstreamCaps three tasks are
two that race and a third with an older answer. In RateLimiter six ticks are two bursts, a refill, a prune and a late call after
it; one bucket fewer than users makes every new user evict. In Shutdown one
listener may die or hold a connection while the other ends, and connections and
signals come back without end.
A session may stop for good when both sides wait for the client, a message ends,
and the clocks of `RateLimiter` and `CommandDeadline` stop at a bound, so their
runs do not check for deadlock; `GoneIsClosed`, `QuietIsClosed` and `Settles` say
instead what must not hang.

Fairness. `Session`: the runtime polls the task, so weak fairness of the
session's own steps, which a write that waits for the client disables; every
wait for the API or the upstream is bounded by a timeout and counts as one of
them; nothing is assumed of the client, not even that it reads. `QuietIsClosed`
therefore excepts the handshake and a write that is never read; `GoneIsClosed`
excepts nothing, as a closed connection makes the handshake and the write fail.
`ConnectionLimits`: `try_acquire` and a drop never wait; nothing says that a
session ends. `Relay`: every upstream wait and the API call have a timeout, so
weak fairness of both; nothing is assumed of the upstream or of the client.
`UpstreamCaps`: a task's waits, for the API and for an answer to QUIT, have
timeouts, so weak fairness of its steps; that messages keep being relayed is not
assumed but is a premise of `Noticed`, without which nothing would be heard.
`Shutdown`: the runtime polls what is ready, so weak fairness of each step of
`run` and of a loop that has a connection in hand, sleeps or sees the token
cancelled; nothing says that a client connects or that a session ends, so the
drain timeout, or the second signal, has to do without.

### What the runs show

The properties of the passing runs hold. In particular a message that is
delivered was complete and allowed, to all recipients; a client hears 250 only
when it was, and a refusal only when it was not; where the proxy cannot know it
closes the connection without an answer, which leaves the decision to retry with
the client.

However its bytes are cut, a message ends where its client ended it, is measured
by what it holds, and reaches the upstream line for line under the header fields
the API left or gave; none of the client's fields escapes the API's notice.

A drain that succeeds has waited for everybody who was accepted; a user who
races itself on several connections gains nothing.

Four statements do not hold of the code:

- `session_quiet`: `docs/manual.md` says that a silent connection is closed "in
  every phase of the session". The TLS handshake has no timeout, so a client
  that sends STARTTLS and nothing more stays connected. Nor has
  `send`: a client that pipelines, stops reading and then falls silent stays
  connected once its replies no longer fit into the connection, also when the
  process drains. The run shows the first, with a connection that never fills;
  the second is why `QuietIsClosed` excepts a write that is never read, without
  which `session_gate` fails. Only a closed connection, the drain timeout or a
  second signal ends such a session.
- `rate_evict`: the comment on `evict_idlest` says that an evicted user gets
  what `prune` would have given. The idlest bucket of a full map need not have
  refilled, and its user then has a full burst again.
- `shutdown_report`: a comment in `run` says that a second signal comes before
  `serve` has been awaited, so that there is nothing to report. It may come
  during `wait_drained`, after `serve` reported a panicked loop, and the process
  exits 0.
- `deadline`: `docs/manual.md` says that "a connection that has not sent a complete
  command within --greeting_timeout seconds is closed". `next_line` arms the
  timer for every read, so a connection whose first command arrives byte by byte
  stays open for as long as each byte is in time and the buffer has room.

Two comments are narrower than they read. `TrackerShrinks` is stated for a clean
return of `serve`: after a panic the other loops are aborted and not joined, and
one that has just accepted still spawns, so that `serve` returning does not by
itself prove that nothing more is spawned into the tracker. And `read_message`
says that every refusal is spoken at the terminator, but `mirror()` speaks the
upstream's as soon as it is known; that the replies stay in step all the same is
`ReplyPerCommand`.

## Proofs

`SessionProofs`, for every configuration, set of commands and depth of
pipelining:

- `TypeCorrect`: one lemma per group of actions.
- `GateCorrect`: `RecipientsInStep` and `Sequencing` are inductive, with the
  types. `Admission` and `FreshAtTls` are not: that no credentials exist when
  a handshake begins follows only from what `state` stands for in each phase.
  `Sequencing` says what it stands for, and `AdmissionHolds`, `RecipientsHold`
  and `FreshAtTlsHolds` follow.
- `NoPlaintextHolds`: `NoPlaintextInTls` is inductive with a strengthening for
  the lines a client has yet to send: it sends in TLS once the handshake is
  done, and `want_starttls` empties what came before.

The client in step, in the same module and under the same generality:

- `InStep` is the inductive invariant `SyncInv`. `InSync` looks at one line and
  `ReplyPerCommand` at two lengths; neither survives a step by itself, because
  what a command's reply does to its client depends on which command that was.
  `SyncInv` lays four things side by side: what the client awaits (`pending`),
  the replies it has not read, the reply the session owes, and the lines in the
  stream. `Pipelined` says that only the last command awaited can hold the client
  up; `CommandsAfter(t)` that behind `t` lines of text the stream holds exactly
  the commands awaited last; `TextBefore(t)` that a lone dot is the end of the
  text and of nothing else, which is what keeps a body refused in the middle
  from running into the next command. Each phase (commands, a token, text, the
  handshake, drained) has its own part.
- `InSyncHolds`, `ReplyPerCommandHolds` and `DrainHolds` follow.
- `EnvelopeKnown`: `EnvelopeAgreed` compares the handler's envelope with what its
  client believes, but at the moment of a step the client may have several
  replies unread. `EnvelopeInv` says that there is a chain of envelopes, from what
  the client believes now through what each unread reply will make of it, and that
  the last of them is the handler's while the session has an envelope open.
  Between two transactions the two differ: the handler keeps an old one until
  the next MAIL. `EnvelopeAgreedHolds` follows with `InStep` and `GateCorrect`.

`RelayProofs`, for every set of modes, codes, recipients and pieces:

- `TypeCorrect`, with the range of every code a client is told.
- `ChannelHolds`: `ConnectInv` adds that `connect` has one command outstanding
  (`OneAtATime`), that everything under way is in the channel of the moment
  (`InChannel`) and that what is known of the upstream is what it announced there
  (`Believed`). The first is needed because a reply of the plain channel may
  arrive together with the answer to STARTTLS and has to be gone before `tls` is
  set. `TlsHonoured` and `ParamsAnnounced` follow.

The message, in the same module, for any number of recipients, any length of body
and any window:

- `MessageHolds`: `WholeMessage` speaks of the moment a message is delivered, and
  by then the client may have been gone for long. `MessageInv` follows the pieces:
  what the upstream has and what is under way add up to what was written
  (`InBody`); a terminator under way ends the whole message, for whoever still
  waits (`TailWhole`); and a refusal that is read came from an upstream that will
  not take the message any more. `WholeMessageHolds` follows.
- `DeliveryKept`: `Relay` implements `Delivery`. Initial states map to initial
  states; the only steps that are not stutters are the delivery and the answer to
  the client, and `Honest` is what `MessageInv` gives for that answer in each of
  the places it may be given.

`UpstreamCapsProofs`, for any number of relays: `OwedToTheLog` and
`OfferedIsLoggedHolds`. The invariant says that a value in a cell is in the log or
is owed to it by a task that swapped the cell and noticed a change (`Covered`).
That alone is not inductive: a task may have been overwritten before it ended,
so it adds that whoever overwrote it saw the difference (`OverwriteCovered`), and
for the very first answer that the task which set `known` has yet to swap the
cell or has covered it (`KnownCovered`).

`ConnectionLimitsProofs`, for any number of listeners and connections, any
addresses and any limits: `SlotsConservedHolds`, `PerIpExactHolds` and
`WithinLimitsHolds`. The inductive invariant adds to the two counts that a
listener's gate and a connection's status agree, and that no two gates hold the
same connection, without which two steps of different listeners would count a
connection twice; and that the count of each key is within its limit.

`RateLimiterProofs`, for any users, callers, limits and times: `TypeCorrect`,
`MapBoundedHolds` and `SteadyRateHolds`. `SteadyRate` is not inductive: while the
watched user has a bucket, what is in it and what was spent are bounded together
up to the bucket's own instant (`Within`); once it is pruned, time alone has
paid for what was spent, also up to the instant of a call that read the clock
before the sweep (`Gone`), because the bucket was idle for longer than a refill
and a wait. The products are kept behind `worth` and `cost`, whose few laws are
lemmas.

`ShutdownProofs`, for any number of listeners and connections: `TypeCorrect`,
`DrainedMeansDoneHolds`, `PanicFailsHolds` and the action property
`TrackerShrinksHolds`. The invariant says that a reported loop has ended and
that a clean `serve` has reported all of them (`AllJoined`), that `pc` tells
whether `serve` has returned (`OutcomeKnown`) and that the exit status is its
outcome unless a signal cut in (`StatusTrue`).

`MessageProofs`, for every input, cut into reads in any way, every cap, chunk and
command buffer, and all answers of the API. It rests on `WireProofs`, which says
what the operators over bytes compute for every text; its inductions over
numbers, sequences and the lines of a text are derived there from the naturals
being well ordered.

- `TypeCorrect`: with the types `Typed` keeps that what is in the buffer is what
  was read and not consumed (`Held`), and that the collector's size is the length
  of the block it holds (`Collecting`): without it the cap would say nothing of
  what is kept.
- `TerminatorFound`: `Stops` says that no terminator begins in what was consumed,
  and that whoever looks for one knows whether a line begins there: the session,
  the framer and the drain each have their own account of that, and a piece
  without a newline changes it.
- `CapOnTheMessage`: `Heads` says that what is collected is the unstuffed text so
  far, that no empty line is in it, and that a block given up as too large is too
  large in the message, also where only part of a line had come.
- `BodyRelayed`: `Bodies` says that what was written, what is staged and a CR held
  back are together the header block and the normalised body up to where the
  session has read. A block of relayable headers has no terminator in it and no
  empty line but its last, so the body is found behind it again.
- `HeaderJudged`: `Judged` (part of `Bodies`) says where the headers came from. `BlockReads` is the
  fact behind it: a list of headers that `assert_header_relayable` lets through,
  written by `header_block`, reads back, unstuffed and unfolded, as one line for
  each header and no other.
- `HeadersShown`: `BlockEnded` says that the block under way ends in a whole line,
  which is known when the handler is asked and no longer visible in what has been
  read behind it. `AllAgree` is about such blocks, header by header: a colon in a
  header's first line gives the same name with its folds and without
  (`NameThere`), and where there is none a name can only come from behind the end
  of that line, which is then a byte of it (`NameBroken`).

Assumptions are those of the modules: limits are natural numbers (0 meaning
unlimited), there are finitely many connections and at least one listener,
`Idle` covers a refill and a wait for the mutex, and `None`, `Junk`, `NoKey` and
`Nobody` are not names of anything else. The commands of a Session are lines that
`parse_command` can return: what only the model awaits (a greeting, a token, a
message) is none, and a MAIL has a path. The `Codes` of a Relay have at most
three digits, and there is at least one recipient. The `Answers` of UpstreamCaps
announce DSN or not, and a SIZE of one of the kinds `Extensions::size` tells
apart. The `Inputs` of Message are sequences of `Bytes`, and its `Answers` lists
of headers whose value may be `Null`; a command buffer and a chunk hold at least
two bytes.

Only model-checked is liveness, as fairness is beyond the prover: `GoneIsClosed` and
`QuietIsClosed` of Session, `SlotsReturn` of ConnectionLimits, `Settles` and
`AcceptedIsTold` of Relay, `Noticed` of UpstreamCaps, `SignalStops`, `PanicStops` and
`SecondSignalStops` of Shutdown.

## Not modelled

- The parsers of commands, parameters, DSN keywords and SASL text, and the
  rendering of replies: text to values and back, without state. `Session` takes
  their results as its inputs. The one precondition with consequences, that
  `Reply::wire` panics on a code outside 200..599, is part of `Relay`'s type
  invariant.
- The HTTP exchange with the API: its outcomes are choices in `Relay`.
- Configuration, the privilege drop and logging: startup and output.

## Plan

What is left:

1. A composition of `Session` and `Relay`: `Delivery` for a whole connection.
