--------------------------- MODULE ShutdownProofs ---------------------------
(* Theorems about Shutdown, for all listeners, connections and timeouts. *)
EXTENDS Shutdown, TLAPS

-----------------------------------------------------------------------------
(* Type correctness *)

\* serve spawns all the loops in one go.
BornTogether == TrackerClosed \/ \A l \in Listeners : loop[l] = "unborn"

TypeInv == TypeOK /\ BornTogether

\* A shutdown begins with every variable of its type.
LEMMA InitType == Init => TypeInv
<1> SUFFICES ASSUME Init PROVE TypeInv
  OBVIOUS
<1>1. /\ loop \in [Listeners -> {"unborn", "accepting", "sleeping", "admitting", "ended", "panicked"}]
      /\ hand \in [Listeners -> Conns \cup {Nobody}]
      /\ session \in [Conns -> {"away", "greeting", "waiting", "busy"}]
      /\ \A l \in Listeners : loop[l] = "unborn" /\ hand[l] = Nobody
  BY DEF Init
<1>2. ended \in [why : {"running", "serve", "drained", "timeout", "signal"},
                 status : {"none", "ok", "failed"}]
  BY DEF Init, Running
<1>3. /\ drain_timeout \in DrainTimeouts
      /\ pc = "serving" /\ pending = {} /\ token = FALSE /\ joined = {} /\ outcome = "none"
  BY DEF Init
<1>4. QED
  BY <1>1, <1>2, <1>3 DEF TypeInv, BornTogether, TypeOK

\* The steps of main keep the types.
LEMMA MainType == ASSUME TypeInv, Main PROVE TypeInv'
<1>1. CASE ServeStarts
  BY <1>1 DEF ServeStarts, TypeInv, BornTogether, TrackerClosed, TypeOK
<1>2. CASE ServeReturns
  BY <1>2 DEF ServeReturns, Returns, Exit, listener_outcome, TypeInv, BornTogether, TrackerClosed, TypeOK
<1>3. CASE \E l \in Listeners : Join(l)
  <2>1. PICK l \in Listeners : Join(l)
    BY <1>3
  <2>2. CASE loop[l] = "ended"
    BY <2>1, <2>2 DEF Join, TypeInv, BornTogether, TrackerClosed, TypeOK
  <2>3. CASE loop[l] = "panicked"
    BY <2>1, <2>3 DEF Join, Returns, Exit, listener_outcome, TypeInv, BornTogether, TrackerClosed, TypeOK
  <2>4. QED
    BY <2>1, <2>2, <2>3 DEF Join
<1>4. CASE FirstSignal \/ BeginDrain
  <2>1. /\ pc' \in {"signalled", "awaiting_serve"} /\ pending' \subseteq pending
        /\ token' \in {token, TRUE}
        /\ UNCHANGED <<drain_timeout, loop, hand, session, joined, outcome, ended>>
    BY <1>4 DEF FirstSignal, BeginDrain
  <2>2. QED
    BY <2>1 DEF TypeInv, BornTogether, TrackerClosed, TypeOK
<1>5. CASE SecondSignal
  BY <1>5 DEF SecondSignal, Exit, listener_outcome, TypeInv, BornTogether, TrackerClosed, TypeOK
<1>6. CASE Drained \/ DrainTimeout
  BY <1>6 DEF Drained, DrainTimeout, Exit, listener_outcome, TypeInv, BornTogether, TrackerClosed, TypeOK
<1>7. QED
  BY <1>1, <1>2, <1>3, <1>4, <1>5, <1>6 DEF Main

\* So do the steps of the accept loops.
LEMMA LoopType == ASSUME TypeInv, NEW l \in Listeners, Loop(l) PROVE TypeInv'
<1>1. CASE LoopEnds(l) \/ AcceptFails(l) \/ Wakes(l) \/ AbortedAsleep(l)
  BY <1>1 DEF LoopEnds, AcceptFails, Wakes, AbortedAsleep, Step, TypeInv, BornTogether, TrackerClosed, TypeOK
<1>2. CASE Accept(l)
  BY <1>2, ShutdownAssumption
     DEF Accept, Step, TypeInv, BornTogether, TrackerClosed, TypeOK, ShutdownAssumption
<1>3. CASE Refuse(l) \/ Panic(l)
  BY <1>3 DEF Refuse, Panic, Step, TypeInv, BornTogether, TrackerClosed, TypeOK
<1>4. CASE Spawn(l)
  BY <1>4 DEF Spawn, Step, TypeInv, BornTogether, TrackerClosed, TypeOK
<1>5. QED
  BY <1>1, <1>2, <1>3, <1>4 DEF Loop

\* So do the sessions, the signals and the end.
LEMMA OtherType ==
  ASSUME TypeInv,
         \/ \E c \in Conns : Session(c)
         \/ \E s \in Signals : Signal(s)
         \/ UNCHANGED vars
  PROVE  TypeInv'
<1>1. CASE \E c \in Conns : Session(c)
  BY <1>1 DEF Session, Answered, Command, SessionDrained, SessionEnds, Becomes,
              TypeInv, BornTogether, TrackerClosed, TypeOK
<1>2. CASE \E s \in Signals : Signal(s)
  BY <1>2 DEF Signal, TypeInv, BornTogether, TrackerClosed, TypeOK
<1>3. CASE UNCHANGED vars
  BY <1>3 DEF vars, TypeInv, BornTogether, TrackerClosed, TypeOK
<1>4. QED
  BY <1>1, <1>2, <1>3

\* Every variable has its type, and a connection is in hand exactly while its
\* loop is between accept and spawn.
THEOREM TypeCorrect == Spec => []TypeOK
<1>1. Init => TypeInv
  BY InitType
<1>2. TypeInv /\ [Next]_vars => TypeInv'
  BY MainType, LoopType, OtherType DEF Next, Exited
<1>3. TypeInv => TypeOK
  BY DEF TypeInv
<1>4. QED
  BY <1>1, <1>2, <1>3, PTL DEF Spec

-----------------------------------------------------------------------------
(* How the process may end *)

\* A loop is reported only when it has ended, and serve is clean only when all
\* of them have.
AllJoined ==
  /\ \A l \in joined : loop[l] = "ended"
  /\ outcome = "Clean" => \A l \in Listeners : loop[l] = "ended"

\* Where main is says whether serve has returned.
OutcomeKnown ==
  /\ pc \in {"serving", "signalled", "awaiting_serve"} => outcome = "none"
  /\ pc = "draining" => outcome # "none"
  /\ pc # "exited" => ended = Running

\* Short of a second signal the exit status is serve's outcome, and a drain that
\* is over has left no session.
StatusTrue ==
  /\ ended.why \in {"serve", "drained", "timeout"} =>
       outcome # "none" /\ ended.status = listener_outcome(outcome)
  /\ ended.why = "drained" => Live = {}

EndInv == AllJoined /\ OutcomeKnown /\ StatusTrue

\* The steps of main keep the invariant: serve returns cleanly only with every
\* loop joined.
LEMMA MainEnd == ASSUME TypeInv, EndInv, Main PROVE EndInv'
<1>1. CASE ServeStarts
  <2>1. joined = {} /\ outcome # "Clean"
    BY <1>1, ShutdownAssumption
       DEF ServeStarts, Polled, TypeInv, BornTogether, TypeOK, EndInv, AllJoined, OutcomeKnown
  <2>2. QED
    BY <1>1, <2>1 DEF ServeStarts, EndInv, AllJoined, OutcomeKnown, StatusTrue, Live
<1>2. CASE ServeReturns
  BY <1>2 DEF ServeReturns, Polled, Returns, Exit, Running, EndInv, AllJoined, OutcomeKnown, StatusTrue, Live
<1>3. CASE \E l \in Listeners : Join(l)
  <2>1. PICK l \in Listeners : Join(l)
    BY <1>3
  <2>2. CASE loop[l] = "ended"
    BY <2>1, <2>2 DEF Join, EndInv, AllJoined, OutcomeKnown, StatusTrue, Live
  <2>3. CASE loop[l] = "panicked"
    BY <2>1, <2>3 DEF Join, Polled, Returns, Exit, Running, EndInv, AllJoined, OutcomeKnown, StatusTrue, Live
  <2>4. QED
    BY <2>1, <2>2, <2>3 DEF Join
<1>4. CASE FirstSignal \/ BeginDrain
  BY <1>4 DEF FirstSignal, BeginDrain, EndInv, AllJoined, OutcomeKnown, StatusTrue, Live
<1>5. CASE SecondSignal
  BY <1>5 DEF SecondSignal, Exit, EndInv, AllJoined, OutcomeKnown, StatusTrue
<1>6. CASE Drained \/ DrainTimeout
  BY <1>6 DEF Drained, DrainTimeout, Exit, EndInv, AllJoined, OutcomeKnown, StatusTrue, Live
<1>7. QED
  BY <1>1, <1>2, <1>3, <1>4, <1>5, <1>6 DEF Main

\* A loop that has ended takes no further step, and the loops and the sessions
\* take none once the process is gone.
LEMMA TaskEnd ==
  ASSUME TypeInv, EndInv,
         \/ \E l \in Listeners : Loop(l)
         \/ \E c \in Conns : Session(c)
  PROVE  EndInv'
<1>1. pc # "exited" /\ UNCHANGED <<pc, joined, outcome, ended>>
  BY DEF Loop, LoopEnds, Accept, AcceptFails, Wakes, AbortedAsleep, Refuse, Spawn, Panic, Step,
         Session, Answered, Command, SessionDrained, SessionEnds, Becomes
<1>2. \A l \in Listeners : loop[l] = "ended" => loop'[l] = "ended"
  <2>1. ASSUME NEW l \in Listeners, Loop(l)
        PROVE  loop[l] # "ended" /\ \E to : loop' = [loop EXCEPT ![l] = to]
    BY <2>1 DEF Loop, LoopEnds, Accept, AcceptFails, Wakes, AbortedAsleep, Refuse, Spawn, Panic, Step
  <2>2. ASSUME NEW c \in Conns, Session(c) PROVE loop' = loop
    BY <2>2 DEF Session, Answered, Command, SessionDrained, SessionEnds, Becomes
  <2>3. QED
    BY <2>1, <2>2 DEF TypeInv, TypeOK
<1>3. AllJoined'
  BY <1>1, <1>2 DEF EndInv, AllJoined, TypeInv, TypeOK
<1>4. OutcomeKnown' /\ StatusTrue'
  BY <1>1 DEF EndInv, OutcomeKnown, StatusTrue, Running
<1>5. QED
  BY <1>3, <1>4 DEF EndInv

\* The inductive invariant of a shutdown.
LEMMA EndInvariant == Spec => [](TypeInv /\ EndInv)
<1>1. Init => TypeInv /\ EndInv
  BY InitType DEF Init, Running, EndInv, AllJoined, OutcomeKnown, StatusTrue
<1>2. TypeInv /\ EndInv /\ [Next]_vars => TypeInv' /\ EndInv'
  <2>1. EndInv /\ (UNCHANGED vars \/ \E s \in Signals : Signal(s)) => EndInv'
    BY DEF vars, Signal, EndInv, AllJoined, OutcomeKnown, StatusTrue, Live
  <2>2. QED
    BY <2>1, MainType, LoopType, OtherType, MainEnd, TaskEnd DEF Next, Exited
<1>3. QED
  BY <1>1, <1>2, PTL DEF Spec

\* A drain that ends well has cut nobody off: awaiting serve before the tracker
\* is what rules out a connection between accept and spawn.
THEOREM DrainedMeansDoneHolds == Spec => []DrainedMeansDone
<1>1. TypeInv /\ EndInv => DrainedMeansDone
  <2> SUFFICES ASSUME TypeInv, EndInv, ended = [why |-> "drained", status |-> "ok"]
               PROVE  Live = {} /\ InHand = {} /\ \A l \in Listeners : loop[l] = "ended"
    BY DEF DrainedMeansDone
  <2>1. outcome = "Clean"
    BY DEF TypeInv, TypeOK, EndInv, StatusTrue, listener_outcome
  <2>2. \A l \in Listeners : loop[l] = "ended" /\ hand[l] = Nobody
    BY <2>1 DEF TypeInv, TypeOK, EndInv, AllJoined
  <2>3. QED
    BY <2>2, ShutdownAssumption DEF EndInv, StatusTrue, InHand, ShutdownAssumption
<1>2. QED
  BY <1>1, EndInvariant, PTL

\* Short of a second signal, a panicked accept loop makes the process fail.
THEOREM PanicFailsHolds == Spec => []PanicFails
<1>1. TypeInv /\ EndInv => PanicFails
  BY DEF TypeInv, TypeOK, EndInv, AllJoined, StatusTrue, listener_outcome, PanicFails
<1>2. QED
  BY <1>1, EndInvariant, PTL

\* After a clean return of serve nothing is spawned into the tracker.
THEOREM TrackerShrinksHolds == Spec => TrackerShrinks
<1>1. TypeInv /\ EndInv /\ [Next]_vars =>
        [pc = "draining" /\ outcome = "Clean" => Live' \subseteq Live]_vars
  <2> SUFFICES ASSUME TypeInv, EndInv, Next, pc = "draining", outcome = "Clean"
               PROVE  Live' \subseteq Live
    BY DEF vars
  <2>1. \A l \in Listeners : loop[l] = "ended"
    BY DEF EndInv, AllJoined
  <2>2. ASSUME NEW l \in Listeners PROVE ~Loop(l)
    BY <2>1 DEF Loop, LoopEnds, Accept, AcceptFails, Wakes, AbortedAsleep, Refuse, Spawn, Panic, Step
  <2>3. ASSUME NEW c \in Conns, Session(c) PROVE Live' \subseteq Live
    BY <2>3 DEF Session, Answered, Command, SessionDrained, SessionEnds, Becomes, Live, TypeInv, TypeOK
  <2>4. ASSUME Main PROVE session' = session
    BY <2>4 DEF Main, ServeStarts, ServeReturns, Join, FirstSignal, BeginDrain, SecondSignal, Drained, DrainTimeout
  <2>5. QED
    BY <2>2, <2>3, <2>4 DEF Next, Signal, Exited, vars, Live
<1>2. QED
  BY <1>1, EndInvariant, PTL DEF Spec, TrackerShrinks
=============================================================================
