------------------------------ MODULE Shutdown ------------------------------
(***************************************************************************)
(* How the proxy stops: the two selects of main.rs, the accept loops that  *)
(* listener.rs serves from, the sessions in the tracker of Drain and the   *)
(* operator's signals.  The loops and the sessions are tasks on threads of *)
(* their own; serve runs only while main waits for it.                     *)
(*                                                                         *)
(* A behaviour begins when the signal handlers are registered.             *)
(***************************************************************************)
EXTENDS Naturals, FiniteSets

CONSTANTS
  Listeners, Conns,
  DrainTimeouts,  \* what --drain_timeout may be; 0 waits for as long as it takes
  Nobody

ASSUME ShutdownAssumption ==
  DrainTimeouts \subseteq Nat /\ Listeners # {} /\ Nobody \notin Conns

VARIABLES
  drain_timeout,
  pc,       \* where main is
  pending,  \* the signals that arrived and were not received
  token,    \* Drain.token is cancelled
  loop,     \* the accept loops
  hand,     \* the connection a loop has accepted and not yet passed on
  session,  \* the sessions, which are the entries of Drain.tracker
  joined,   \* the loops join_next reported
  outcome,  \* what serve returned
  ended     \* why run returned, and with which exit status

vars == <<drain_timeout, pc, pending, token, loop, hand, session, joined, outcome, ended>>

Signals == {"SIGTERM", "SIGINT"}

Running == [why |-> "running", status |-> "none"]

\* The tracker is closed when serve has spawned the loops.
TrackerClosed == \A l \in Listeners : loop[l] # "unborn"

Live == {c \in Conns : session[c] # "away"}
InHand == {c \in Conns : \E l \in Listeners : hand[l] = c}

Init ==
  /\ drain_timeout \in DrainTimeouts
  /\ pc = "serving" /\ pending = {} /\ token = FALSE
  /\ loop = [l \in Listeners |-> "unborn"]
  /\ hand = [l \in Listeners |-> Nobody]
  /\ session = [c \in Conns |-> "away"]
  /\ joined = {} /\ outcome = "none" /\ ended = Running

-----------------------------------------------------------------------------
(* Signals *)

\* A signal of a kind that is still pending is not counted twice.
Signal(s) ==
  /\ pc # "exited"
  /\ pending' = pending \cup {s}
  /\ UNCHANGED <<drain_timeout, pc, token, loop, hand, session, joined, outcome, ended>>

-----------------------------------------------------------------------------
(* serve, polled in either select of main *)

Polled == pc \in {"serving", "awaiting_serve"}

ServeStarts ==
  /\ Polled /\ ~TrackerClosed
  /\ loop' = [l \in Listeners |-> "accepting"]
  /\ UNCHANGED <<drain_timeout, pc, pending, token, hand, session, joined, outcome, ended>>

\* listener_outcome
listener_outcome(o) == IF o = "ListenerFailed" THEN "failed" ELSE "ok"

Exit(why, o) ==
  /\ pc' = "exited"
  /\ ended' = [why |-> why, status |-> listener_outcome(o)]

\* In the first select main leaves with the outcome, in the second it goes on
\* to wait for the sessions.
Returns(o) ==
  /\ outcome' = o
  /\ IF pc = "serving" THEN Exit("serve", o)
     ELSE pc' = "draining" /\ UNCHANGED ended

\* Mutant: the result of join_next is thrown away.
Join_mutant(l) ==
  /\ Polled /\ l \notin joined /\ loop[l] \in {"ended", "panicked"}
  /\ joined' = joined \cup {l}
  /\ UNCHANGED <<drain_timeout, pc, pending, token, loop, hand, session, outcome, ended>>

\* join_next: a loop that ended is one less to wait for, a panicked one aborts
\* the others and ends serve.
Join(l) ==
  /\ Polled /\ l \notin joined
  /\ \/ /\ loop[l] = "ended"
        /\ joined' = joined \cup {l}
        /\ UNCHANGED <<pc, outcome, ended>>
     \/ /\ loop[l] = "panicked"
        /\ Returns("ListenerFailed")
        /\ UNCHANGED joined
  /\ UNCHANGED <<drain_timeout, pending, token, loop, hand, session>>

\* Mutant: serve returns with the first loop that ends.
ServeReturns_mutant ==
  /\ Polled /\ TrackerClosed /\ joined # {}
  /\ Returns("Clean")
  /\ UNCHANGED <<drain_timeout, pending, token, loop, hand, session, joined>>

\* join_next has nothing left.
ServeReturns ==
  /\ Polled /\ TrackerClosed /\ joined = Listeners
  /\ Returns("Clean")
  /\ UNCHANGED <<drain_timeout, pending, token, loop, hand, session, joined>>

-----------------------------------------------------------------------------
(* main *)

FirstSignal ==
  /\ pc = "serving"
  /\ \E s \in pending : pending' = pending \ {s}
  /\ pc' = "signalled"
  /\ UNCHANGED <<drain_timeout, token, loop, hand, session, joined, outcome, ended>>

\* Mutant: the second wait registers receivers of its own.
BeginDrain_mutant ==
  /\ pc = "signalled"
  /\ token' = TRUE /\ pc' = "awaiting_serve" /\ pending' = {}
  /\ UNCHANGED <<drain_timeout, loop, hand, session, joined, outcome, ended>>

BeginDrain ==
  /\ pc = "signalled"
  /\ token' = TRUE /\ pc' = "awaiting_serve"
  /\ UNCHANGED <<drain_timeout, pending, loop, hand, session, joined, outcome, ended>>

\* The second signal: main's own outcome is still Clean.
SecondSignal ==
  /\ pc \in {"awaiting_serve", "draining"}
  /\ \E s \in pending : pending' = pending \ {s}
  /\ Exit("signal", "Clean")
  /\ UNCHANGED <<drain_timeout, token, loop, hand, session, joined, outcome>>

\* Mutant: the drain is awaited before serve.
Drained_mutant ==
  /\ pc \in {"awaiting_serve", "draining"}
  /\ TrackerClosed /\ Live = {}
  /\ Exit("drained", outcome)
  /\ UNCHANGED <<drain_timeout, pending, token, loop, hand, session, joined, outcome>>

\* wait_drained finds the tracker closed and empty.
Drained ==
  /\ pc = "draining"
  /\ TrackerClosed /\ Live = {}
  /\ Exit("drained", outcome)
  /\ UNCHANGED <<drain_timeout, pending, token, loop, hand, session, joined, outcome>>

\* wait_drained gives up.
DrainTimeout ==
  /\ pc = "draining" /\ drain_timeout # 0
  /\ Live # {}
  /\ Exit("timeout", outcome)
  /\ UNCHANGED <<drain_timeout, pending, token, loop, hand, session, joined, outcome>>

-----------------------------------------------------------------------------
(* The accept loops *)

Step(l, from, to) ==
  /\ pc # "exited"
  /\ loop[l] = from
  /\ loop' = [loop EXCEPT ![l] = to]
  /\ UNCHANGED <<drain_timeout, pc, pending, token, joined, outcome, ended>>

\* The biased select: nothing is accepted once the token is cancelled.  abort
\* ends a loop where it waits.
LoopEnds(l) ==
  /\ token \/ outcome = "ListenerFailed"
  /\ Step(l, "accepting", "ended")
  /\ UNCHANGED <<hand, session>>

\* Mutant: the select is not biased.
Accept_mutant(l) ==
  /\ Step(l, "accepting", "admitting")
  /\ \E c \in Conns \ (Live \cup InHand) : hand' = [hand EXCEPT ![l] = c]
  /\ UNCHANGED session

Accept(l) ==
  /\ ~token
  /\ Step(l, "accepting", "admitting")
  /\ \E c \in Conns \ (Live \cup InHand) : hand' = [hand EXCEPT ![l] = c]
  /\ UNCHANGED session

\* accept failed: 100 ms in which the loop does not look at the token.
AcceptFails(l) ==
  /\ ~token
  /\ Step(l, "accepting", "sleeping")
  /\ UNCHANGED <<hand, session>>

Wakes(l) ==
  /\ Step(l, "sleeping", "accepting")
  /\ UNCHANGED <<hand, session>>

\* abort reaches a loop that sleeps.
AbortedAsleep(l) ==
  /\ outcome = "ListenerFailed"
  /\ Step(l, "sleeping", "ended")
  /\ UNCHANGED <<hand, session>>

\* Mutant: the loop goes on with the refused connection still in hand.
Refuse_mutant(l) ==
  /\ Step(l, "admitting", "accepting")
  /\ UNCHANGED <<hand, session>>

\* Over a limit: the 421 is sent by a task nobody tracks.
Refuse(l) ==
  /\ Step(l, "admitting", "accepting")
  /\ hand' = [hand EXCEPT ![l] = Nobody]
  /\ UNCHANGED session

\* tracker.spawn
Spawn(l) ==
  /\ Step(l, "admitting", "accepting")
  /\ hand' = [hand EXCEPT ![l] = Nobody]
  /\ session' = [session EXCEPT ![hand[l]] = "greeting"]

Panic(l) ==
  /\ Step(l, "admitting", "panicked")
  /\ hand' = [hand EXCEPT ![l] = Nobody]
  /\ UNCHANGED session

-----------------------------------------------------------------------------
(* The sessions *)

Becomes(c, from, to) ==
  /\ pc # "exited"
  /\ session[c] \in from
  /\ session' = [session EXCEPT ![c] = to]
  /\ UNCHANGED <<drain_timeout, pc, pending, token, loop, hand, joined, outcome, ended>>

\* The banner is out, or a command is answered.
Answered(c) == Becomes(c, {"greeting", "busy"}, "waiting")

\* next_command_line returns a command, which may be a message's DATA.
Command(c) == ~token /\ Becomes(c, {"waiting"}, "busy")

\* drained: 421 to a session between two commands.
SessionDrained(c) == token /\ Becomes(c, {"waiting"}, "away")

\* QUIT, a client that leaves, a timeout or an error.
SessionEnds(c) == Becomes(c, {"greeting", "waiting", "busy"}, "away")

-----------------------------------------------------------------------------
Main ==
  \/ ServeStarts \/ ServeReturns \/ (\E l \in Listeners : Join(l))
  \/ FirstSignal \/ BeginDrain \/ SecondSignal \/ Drained \/ DrainTimeout

Loop(l) ==
  \/ LoopEnds(l) \/ Accept(l) \/ AcceptFails(l) \/ Wakes(l) \/ AbortedAsleep(l)
  \/ Refuse(l) \/ Spawn(l) \/ Panic(l)

Session(c) == Answered(c) \/ Command(c) \/ SessionDrained(c) \/ SessionEnds(c)

\* The process is gone.
Exited == pc = "exited" /\ UNCHANGED vars

Next ==
  \/ Main
  \/ \E l \in Listeners : Loop(l)
  \/ \E c \in Conns : Session(c)
  \/ \E s \in Signals : Signal(s)
  \/ Exited

Spec == Init /\ [][Next]_vars

\* The runtime polls what is ready: each step of main, and each step of a loop
\* but accept, which waits for a client.  Nothing is assumed of clients.
Fairness ==
  /\ WF_vars(ServeStarts) /\ WF_vars(ServeReturns) /\ WF_vars(BeginDrain)
  /\ WF_vars(FirstSignal) /\ WF_vars(SecondSignal)
  /\ WF_vars(Drained \/ DrainTimeout)
  /\ \A l \in Listeners :
       /\ WF_vars(Join(l)) /\ WF_vars(LoopEnds(l)) /\ WF_vars(Wakes(l))
       /\ WF_vars(Refuse(l) \/ Spawn(l) \/ Panic(l))

FairSpec == Spec /\ Fairness

-----------------------------------------------------------------------------
(* Properties *)

\* The type of every variable; a loop has a connection in hand exactly while it
\* is admitting one.
TypeOK ==
  /\ drain_timeout \in DrainTimeouts
  /\ pc \in {"serving", "signalled", "awaiting_serve", "draining", "exited"}
  /\ pending \subseteq Signals /\ token \in BOOLEAN
  /\ loop \in [Listeners -> {"unborn", "accepting", "sleeping", "admitting", "ended", "panicked"}]
  /\ hand \in [Listeners -> Conns \cup {Nobody}]
  /\ \A l \in Listeners : hand[l] # Nobody <=> loop[l] = "admitting"
  /\ session \in [Conns -> {"away", "greeting", "waiting", "busy"}]
  /\ joined \subseteq Listeners
  /\ outcome \in {"none", "Clean", "ListenerFailed"}
  /\ ended \in [why : {"running", "serve", "drained", "timeout", "signal"},
                status : {"none", "ok", "failed"}]

\* A drain that ends well has cut nobody off: no session is running, no
\* connection is between accept and spawn, and every port is closed.
DrainedMeansDone ==
  ended = [why |-> "drained", status |-> "ok"] =>
    Live = {} /\ InHand = {} /\ \A l \in Listeners : loop[l] = "ended"

\* The process never reports success when an accept loop panicked, unless a
\* second signal cut the shutdown short: Restart=on-failure depends on it.
PanicFails ==
  (\E l \in Listeners : loop[l] = "panicked") /\ ended.why \notin {"running", "signal"} =>
    ended.status = "failed"

\* Once serve has returned cleanly the sessions that are waited for only become
\* fewer.
TrackerShrinks ==
  [][pc = "draining" /\ outcome = "Clean" => Live' \subseteq Live]_vars

\* Only a drain without a timeout, and only a session, may keep the process up.
HeldUp == drain_timeout = 0 /\ pc = "draining" /\ Live # {}

\* A signal ends the process, or leaves it waiting for sessions only: neither a
\* permanent backlog nor a loop with a connection in hand can hold it up.
SignalStops == pending # {} ~> pc = "exited" \/ HeldUp

\* A listener that dies takes the process down with it, instead of leaving one
\* port closed until a shutdown that may never come.
PanicStops == (\E l \in Listeners : loop[l] = "panicked") ~> pc = "exited" \/ HeldUp

\* A signal that arrives after the first was received is heard, also in between
\* the two waits, and ends the process without waiting for any session.
SecondSignalStops == pc # "serving" /\ pending # {} ~> pc = "exited"

\* "an operator's second signal cuts the drain short before serve has been
\* awaited, so there is nothing to report either way" (main.rs, run).
NothingToReport == ended.why = "signal" => outcome # "ListenerFailed"
=============================================================================
