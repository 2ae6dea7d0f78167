---------------------------- MODULE UpstreamCaps ----------------------------
(***************************************************************************)
(* What the upstream announces, as the proxy remembers it for its clients  *)
(* (proxy.rs, ProxyFactory): three relaxed atomics that every relay and    *)
(* the startup probe write and every EHLO reads.  The upstream may change  *)
(* its mind; a task may hold its answer for as long as the API, or the     *)
(* answer to the probe's QUIT, takes.                                      *)
(***************************************************************************)
EXTENDS Naturals

CONSTANTS
  Relays,     \* sessions with a message to relay
  Probe,      \* the task main spawns at startup
  Answers,    \* bound: what the upstream may announce
  MaxChanges  \* bound: how often the upstream changes its answer

ASSUME CapsAssumption ==
  /\ Probe \notin Relays /\ MaxChanges \in Nat
  /\ Answers \subseteq [dsn : BOOLEAN, size : {"none", "junk", "0", "1", "2"}]

Tasks == Relays \cup {Probe}
Cells == {"dsn", "known", "size"}
Nothing == [dsn |-> FALSE, size |-> "none"]

VARIABLES
  announces, changes,  \* the upstream's answer to an EHLO of now
  task,                \* what each task is doing
  held,                \* the answer it was given
  todo, differed,      \* cells it has to swap yet; swaps that found another value
  upstream_dsn, upstream_dsn_known, upstream_size,
  logged               \* what the log has been told, as cell and value

cells == <<upstream_dsn, upstream_dsn_known, upstream_size>>
vars == <<announces, changes, task, held, todo, differed, cells, logged>>

Init ==
  /\ announces \in Answers /\ changes = 0
  /\ task = [t \in Tasks |-> "idle"] /\ held = [t \in Tasks |-> Nothing]
  /\ todo = [t \in Tasks |-> {}] /\ differed = [t \in Tasks |-> {}]
  /\ upstream_dsn = FALSE /\ upstream_dsn_known = FALSE /\ upstream_size = 0
  /\ logged = {}

-----------------------------------------------------------------------------
\* Extensions::size, and the 0 that note_upstream_caps stores for None.
size(stated) == CASE stated = "1" -> 1 [] stated = "2" -> 2 [] OTHER -> 0

\* connect, or probe's greet: the answer to EHLO is in.
Asks(t) ==
  /\ task[t] = "idle"
  /\ task' = [task EXCEPT ![t] = "asked"] /\ held' = [held EXCEPT ![t] = announces]
  /\ UNCHANGED <<announces, changes, todo, differed, cells, logged>>

\* The end of a task: the probe runs once, a session has further messages.
Ends(t) ==
  /\ task' = [task EXCEPT ![t] = IF t = Probe THEN "over" ELSE "idle"]
  /\ held' = [held EXCEPT ![t] = Nothing]

\* The connection failed, or the API or an address check refused the message.
GivesUp(t) ==
  /\ task[t] \in {"idle", "asked"} /\ (task[t] = "idle" => t = Probe)
  /\ Ends(t)
  /\ UNCHANGED <<announces, changes, todo, differed, cells, logged>>

\* Mutant: only an answer that offers something is noted.
Notes_mutant(t) ==
  /\ task[t] = "asked"
  /\ IF held[t].dsn \/ size(held[t].size) > 0
     THEN task' = [task EXCEPT ![t] = "notes"] /\ todo' = [todo EXCEPT ![t] = Cells]
                                              /\ UNCHANGED held
     ELSE Ends(t) /\ UNCHANGED todo
  /\ UNCHANGED <<announces, changes, differed, cells, logged>>

\* note_upstream_caps is called.
Notes(t) ==
  /\ task[t] = "asked"
  /\ task' = [task EXCEPT ![t] = "notes"] /\ todo' = [todo EXCEPT ![t] = Cells]
  /\ UNCHANGED <<announces, changes, held, differed, cells, logged>>

\* Mutant: the first answer is logged only if it differs from the initial value.
Told_mutant(t, differ) ==
  (IF "dsn" \in differ THEN {<<"dsn", IF held[t].dsn THEN 1 ELSE 0>>} ELSE {})
    \cup (IF "size" \in differ THEN {<<"size", size(held[t].size)>>} ELSE {})

\* What note_upstream_caps logs: a change, and the first answer.
Told(t, differ) ==
  (IF {"dsn", "known"} \cap differ # {}
     THEN {<<"dsn", IF held[t].dsn THEN 1 ELSE 0>>} ELSE {})
    \cup (IF {"size", "known"} \cap differ # {}
            THEN {<<"size", size(held[t].size)>>} ELSE {})

\* The swap finds another value in the cell than it leaves there.
Differs(t, cell) ==
  CASE cell = "dsn"   -> held[t].dsn # upstream_dsn
    [] cell = "known" -> ~upstream_dsn_known
    [] cell = "size"  -> size(held[t].size) # upstream_size

\* Swapping a cell; nothing orders a relaxed swap after another one.  The log is
\* told with the last of them.
Swap(t, cell) ==
  LET differ == IF Differs(t, cell) THEN differed[t] \cup {cell} ELSE differed[t]
  IN  /\ task[t] = "notes" /\ cell \in todo[t]
      /\ todo' = [todo EXCEPT ![t] = @ \ {cell}]
      /\ upstream_dsn' = IF cell = "dsn" THEN held[t].dsn ELSE upstream_dsn
      /\ upstream_dsn_known' = (cell = "known" \/ upstream_dsn_known)
      /\ upstream_size' = IF cell = "size" THEN size(held[t].size) ELSE upstream_size
      /\ IF todo[t] = {cell}
         THEN /\ logged' = logged \cup Told(t, differ)
              /\ Ends(t) /\ differed' = [differed EXCEPT ![t] = {}]
         ELSE /\ differed' = [differed EXCEPT ![t] = differ]
              /\ UNCHANGED <<task, held, logged>>
      /\ UNCHANGED <<announces, changes>>

UpstreamChanges ==
  /\ changes < MaxChanges
  /\ announces' \in Answers \ {announces} /\ changes' = changes + 1
  /\ UNCHANGED <<task, held, todo, differed, cells, logged>>

Step(t) == Notes(t) \/ GivesUp(t) \/ (\E cell \in Cells : Swap(t, cell))

Next == UpstreamChanges \/ \E t \in Tasks : Asks(t) \/ Step(t)

Spec == Init /\ [][Next]_vars

\* Every wait of a task has a timeout; that mail keeps coming is not assumed.
FairSpec == Spec /\ \A t \in Tasks : WF_vars(Step(t))

-----------------------------------------------------------------------------
(* What a client is offered *)

dsn_available == upstream_dsn
upstream_size_limit == upstream_size

(* Properties *)

\* However the swaps of several tasks fall, what clients are offered once they
\* are done has been told to the log: the first answer too, when it is the
\* value the cells began with (note_upstream_caps, upstream_dsn_known).
OfferedIsLogged ==
  upstream_dsn_known /\ (\A t \in Tasks : task[t] # "notes") =>
    /\ <<"dsn", IF dsn_available THEN 1 ELSE 0>> \in logged
    /\ <<"size", upstream_size_limit>> \in logged

\* "kept current from every relay afterwards, so an upstream that gains or
\* loses DSN is noticed": if mail keeps being relayed, an answer the upstream
\* keeps to is what clients end up being offered, although late tasks write
\* what they were told before (note_upstream_caps, open_body, probe_upstream).
Noticed ==
  []<><<\E r \in Relays : Notes(r)>>_vars =>
    <>[](/\ dsn_available = announces.dsn
         /\ upstream_size_limit = size(announces.size))
=============================================================================
