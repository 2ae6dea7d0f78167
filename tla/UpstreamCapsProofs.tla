------------------------- MODULE UpstreamCapsProofs -------------------------
(***************************************************************************)
(* OfferedIsLogged for any number of relays, any answers and any number of *)
(* changes of the upstream's mind.                                         *)
(*                                                                         *)
(* While tasks are noting, the log may lag behind the cells.  The invariant *)
(* says who owes the log the missing line: a task that found the cell       *)
(* different, or that found no answer known before, and has yet to log.     *)
(***************************************************************************)
EXTENDS UpstreamCaps, TLAPS

\* The cells that are offered; the third only says that one was noted.
Offered == {"dsn", "size"}

\* The value a task leaves in a cell, and the one that is there, as logged.
Value(t, cell) ==
  IF cell = "dsn" THEN IF held[t].dsn THEN 1 ELSE 0 ELSE size(held[t].size)
Current(cell) ==
  IF cell = "dsn" THEN IF upstream_dsn THEN 1 ELSE 0 ELSE upstream_size

\* The task has swapped the cell and not yet ended.
Swapped(t, cell) == task[t] = "notes" /\ cell \notin todo[t]

\* The current value is in the log, or will be when a task ends.
Covered(cell) ==
  \/ <<cell, Current(cell)>> \in logged
  \/ \E t \in Tasks : /\ Swapped(t, cell) /\ Value(t, cell) = Current(cell)
                      /\ {cell, "known"} \cap differed[t] # {}

\* The first task to note an answer has yet to swap the cell.
FirstToCome(cell) ==
  \E t \in Tasks : task[t] = "notes" /\ cell \in todo[t] /\ "known" \in differed[t]

\* A value that was overwritten was overwritten by a task that saw it differ.
OverwriteCovered ==
  \A cell \in Offered : \A t \in Tasks :
    Swapped(t, cell) /\ Value(t, cell) # Current(cell) => Covered(cell)

\* Once an answer is known, each cell is covered or about to be.
KnownCovered ==
  upstream_dsn_known => \A cell \in Offered : Covered(cell) \/ FirstToCome(cell)

\* The types the argument needs.
TypeInv ==
  /\ task \in [Tasks -> {"idle", "asked", "notes", "over"}]
  /\ held \in [Tasks -> [dsn : BOOLEAN, size : {"none", "junk", "0", "1", "2"}]]
  /\ todo \in [Tasks -> SUBSET Cells] /\ differed \in [Tasks -> SUBSET Cells]
  /\ upstream_dsn \in BOOLEAN /\ upstream_dsn_known \in BOOLEAN /\ upstream_size \in 0..2
  /\ announces \in Answers

Inv == TypeInv /\ OverwriteCovered /\ KnownCovered

-----------------------------------------------------------------------------
(* Operators *)

\* A size that is stated is one the cell can hold.
LEMMA SizeType == \A stated : size(stated) \in 0..2
BY DEF size

\* What a task has held since before a step it leaves behind unchanged.
LEMMA SameValue ==
  ASSUME NEW t, NEW cell, held'[t] = held[t]
  PROVE  Value(t, cell)' = Value(t, cell)
BY DEF Value, size

-----------------------------------------------------------------------------
(* Type correctness *)

\* Before the first task, every variable has its type.
LEMMA InitType == Init => TypeInv
<1> SUFFICES ASSUME Init PROVE TypeInv
  OBVIOUS
<1>1. Nothing \in [dsn : BOOLEAN, size : {"none", "junk", "0", "1", "2"}]
  BY DEF Nothing
<1>2. upstream_size \in 0..2
  BY DEF Init
<1>5. upstream_dsn \in BOOLEAN /\ upstream_dsn_known \in BOOLEAN
  BY DEF Init
<1>3. /\ task \in [Tasks -> {"idle", "asked", "notes", "over"}] /\ announces \in Answers
      /\ held \in [Tasks -> [dsn : BOOLEAN, size : {"none", "junk", "0", "1", "2"}]]
      /\ todo \in [Tasks -> SUBSET Cells] /\ differed \in [Tasks -> SUBSET Cells]
  BY <1>1 DEF Init
<1>4. QED
  BY <1>2, <1>3, <1>5 DEF TypeInv

\* Every step keeps the types.
LEMMA NextType == ASSUME TypeInv, [Next]_vars PROVE TypeInv'
<1>1. CASE UpstreamChanges
  BY <1>1 DEF UpstreamChanges, TypeInv, cells
<1>2. ASSUME NEW t \in Tasks, Asks(t) PROVE TypeInv'
  BY <1>2, CapsAssumption DEF Asks, TypeInv, cells
<1>3. ASSUME NEW t \in Tasks, Notes(t) PROVE TypeInv'
  BY <1>3 DEF Notes, TypeInv, cells
<1>4. ASSUME NEW t \in Tasks, GivesUp(t) PROVE TypeInv'
  BY <1>4 DEF GivesUp, Ends, Nothing, TypeInv, cells
<1>5. ASSUME NEW t \in Tasks, NEW cell \in Cells, Swap(t, cell) PROVE TypeInv'
  <2> DEFINE differ == IF Differs(t, cell) THEN differed[t] \cup {cell} ELSE differed[t]
  <2>1. held[t].dsn \in BOOLEAN /\ size(held[t].size) \in 0..2
    BY SizeType DEF TypeInv
  <2>2. /\ upstream_dsn' \in BOOLEAN /\ upstream_size' \in 0..2
        /\ announces' \in Answers /\ todo' \in [Tasks -> SUBSET Cells]
    BY <1>5, <2>1 DEF Swap, TypeInv
  <2>6. upstream_dsn_known' \in BOOLEAN
    BY <1>5 DEF Swap
  <2>3. differ \in SUBSET Cells
    BY DEF TypeInv
  <2>4. /\ task' \in [Tasks -> {"idle", "asked", "notes", "over"}]
        /\ held' \in [Tasks -> [dsn : BOOLEAN, size : {"none", "junk", "0", "1", "2"}]]
        /\ differed' \in [Tasks -> SUBSET Cells]
    <3>1. CASE todo[t] = {cell}
      <4>1. /\ task' = [task EXCEPT ![t] = IF t = Probe THEN "over" ELSE "idle"]
            /\ held' = [held EXCEPT ![t] = Nothing] /\ differed' = [differed EXCEPT ![t] = {}]
        BY <1>5, <3>1 DEF Swap, Ends
      <4>2. QED
        BY <4>1 DEF Nothing, TypeInv
    <3>2. CASE todo[t] # {cell}
      <4>1. differed' = [differed EXCEPT ![t] = differ] /\ UNCHANGED <<task, held>>
        BY <1>5, <3>2 DEF Swap
      <4>2. QED
        BY <2>3, <4>1 DEF TypeInv
    <3>3. QED
      BY <3>1, <3>2
  <2>5. QED
    BY <2>2, <2>4, <2>6 DEF TypeInv
<1>6. CASE UNCHANGED vars
  BY <1>6 DEF vars, cells, TypeInv
<1>7. QED
  BY <1>1, <1>2, <1>3, <1>4, <1>5, <1>6 DEF Next, Step

-----------------------------------------------------------------------------
(* What a step does to the tasks and the log *)

\* What a swap leaves behind in its own task: more swaps to come, or the log told.
LEMMA SwapSelf ==
  ASSUME TypeInv, NEW t \in Tasks, NEW c \in Cells, Swap(t, c),
         NEW differ, differ = IF Differs(t, c) THEN differed[t] \cup {c} ELSE differed[t]
  PROVE  \/ /\ todo[t] = {c} /\ logged' = logged \cup Told(t, differ)
            /\ task'[t] # "notes"
         \/ /\ todo[t] # {c} /\ logged' = logged /\ task'[t] = "notes" /\ held'[t] = held[t]
            /\ todo'[t] = todo[t] \ {c} /\ differed'[t] = differ
BY DEF Swap, Ends, TypeInv

\* A step of one task leaves the others as they are.
LEMMA OthersStay ==
  ASSUME TypeInv, NEW t \in Tasks, NEW u \in Tasks, u # t,
         Asks(t) \/ Notes(t) \/ GivesUp(t) \/ \E c \in Cells : Swap(t, c)
  PROVE  task'[u] = task[u] /\ held'[u] = held[u] /\ todo'[u] = todo[u] /\ differed'[u] = differed[u]
BY DEF Asks, Notes, GivesUp, Swap, Ends, TypeInv

\* A step that is no swap leaves the cells and the log, and no task between its
\* first swap and its last.
LEMMA QuietStep ==
  ASSUME TypeInv, NEW t \in Tasks, Asks(t) \/ Notes(t) \/ GivesUp(t)
  PROVE  /\ UNCHANGED <<cells, logged>> /\ task[t] # "notes"
         /\ task'[t] = "notes" => todo'[t] = Cells
BY DEF Asks, Notes, GivesUp, Ends, TypeInv, cells

-----------------------------------------------------------------------------
(* Who owes the log *)

\* What a task logs at its last swap, if the swap of a cell, or of upstream_dsn_known,
\* found another value.
LEMMA ToldCovers ==
  ASSUME NEW t \in Tasks, NEW cell \in Offered, NEW differ, {cell, "known"} \cap differ # {}
  PROVE  <<cell, Value(t, cell)>> \in Told(t, differ)
<1>1. CASE cell = "dsn"
  BY <1>1 DEF Told, Value
<1>2. CASE cell = "size"
  BY <1>2 DEF Told, Value
<1>3. QED
  BY <1>1, <1>2 DEF Offered

\* A swap writes its own cell and no other.
LEMMA SwapWrites ==
  ASSUME TypeInv, NEW t \in Tasks, NEW c \in Cells, Swap(t, c), NEW cell \in Offered
  PROVE  Current(cell)' = IF c = cell THEN Value(t, cell) ELSE Current(cell)
BY DEF Swap, Current, Value, Offered, TypeInv

\* A swap that finds another value, in the cell or in upstream_dsn_known, leaves
\* the cell covered if it is the task's value that is there.
LEMMA SwapCovers ==
  ASSUME TypeInv, NEW t \in Tasks, NEW c \in Cells, Swap(t, c), NEW cell \in Offered,
         NEW differ, differ = IF Differs(t, c) THEN differed[t] \cup {c} ELSE differed[t],
         {cell, "known"} \cap differ # {}, Current(cell)' = Value(t, cell),
         cell \notin todo[t] \ {c}
  PROVE  Covered(cell)'
<1>1. CASE todo[t] = {c}
  <2>1. logged' = logged \cup Told(t, differ)
    BY <1>1, SwapSelf
  <2>2. QED
    BY <2>1, ToldCovers DEF Covered
<1>2. CASE todo[t] # {c}
  <2>1. /\ task'[t] = "notes" /\ held'[t] = held[t]
        /\ todo'[t] = todo[t] \ {c} /\ differed'[t] = differ
    BY <1>2, SwapSelf
  <2>2. Value(t, cell)' = Value(t, cell)
    BY <2>1, SameValue
  <2>3. QED
    BY <2>1, <2>2 DEF Covered, Swapped
<1>3. QED
  BY <1>1, <1>2

\* A covered cell stays covered while its value stays.
LEMMA CoveredStays ==
  ASSUME TypeInv, NEW t \in Tasks, NEW c \in Cells, Swap(t, c), NEW cell \in Offered,
         Covered(cell), Current(cell)' = Current(cell)
  PROVE  Covered(cell)'
<1> DEFINE differ == IF Differs(t, c) THEN differed[t] \cup {c} ELSE differed[t]
<1>1. logged \subseteq logged'
  BY SwapSelf
<1>2. CASE <<cell, Current(cell)>> \in logged
  BY <1>1, <1>2 DEF Covered
<1>3. ASSUME NEW u \in Tasks, Swapped(u, cell), Value(u, cell) = Current(cell),
             {cell, "known"} \cap differed[u] # {}
      PROVE  Covered(cell)'
  <2>1. CASE u = t
    <3>1. {cell, "known"} \cap differ # {} /\ cell \notin todo[t] \ {c}
      BY <1>3, <2>1 DEF Swapped
    <3>2. Current(cell)' = Value(t, cell)
      BY <1>3, <2>1
    <3> HIDE DEF differ
    <3>3. QED
      BY <3>1, <3>2, SwapCovers DEF differ
  <2>2. CASE u # t
    <3>1. /\ task'[u] = task[u] /\ held'[u] = held[u] /\ todo'[u] = todo[u]
          /\ differed'[u] = differed[u]
      BY <2>2, OthersStay
    <3>2. Value(u, cell)' = Value(u, cell)
      BY <3>1, SameValue
    <3>3. QED
      BY <1>3, <3>1, <3>2 DEF Covered, Swapped
  <2>3. QED
    BY <2>1, <2>2
<1>4. QED
  BY <1>2, <1>3 DEF Covered

\* A swap that overwrites another value covers the cell.
LEMMA OverwriteCovers ==
  ASSUME TypeInv, NEW t \in Tasks, NEW c \in Cells, Swap(t, c), NEW cell \in Offered,
         Current(cell)' # Current(cell)
  PROVE  Covered(cell)'
<1> DEFINE differ == IF Differs(t, c) THEN differed[t] \cup {c} ELSE differed[t]
<1>1. c = cell /\ Current(cell)' = Value(t, cell)
  BY SwapWrites
<1>2. Value(t, cell) # Current(cell)
  BY <1>1
<1>3. Differs(t, cell)
  BY <1>2 DEF Differs, Value, Current, Offered, TypeInv
<1>4. {cell, "known"} \cap differ # {} /\ cell \notin todo[t] \ {c}
  BY <1>1, <1>3
<1> HIDE DEF differ
<1>5. QED
  BY <1>1, <1>4, SwapCovers DEF differ

-----------------------------------------------------------------------------
(* The invariant *)

\* A swap leaves every overwritten value covered.
LEMMA SwapOverwrite ==
  ASSUME Inv, NEW t \in Tasks, NEW c \in Cells, Swap(t, c) PROVE OverwriteCovered'
<1> USE DEF Inv
<1> SUFFICES ASSUME NEW cell \in Offered, NEW u \in Tasks,
                    Swapped(u, cell)', Value(u, cell)' # Current(cell)'
             PROVE  Covered(cell)'
  BY DEF OverwriteCovered
<1>1. CASE Current(cell)' # Current(cell)
  BY <1>1, OverwriteCovers
<1>2. CASE Current(cell)' = Current(cell)
  <2>1. held'[u] = held[u] /\ task[u] = "notes" /\ (cell \notin todo[u] \/ (u = t /\ c = cell))
    <3>1. CASE u = t
      BY <3>1, SwapSelf DEF Swapped, Swap
    <3>2. CASE u # t
      BY <3>2, OthersStay DEF Swapped
    <3>3. QED
      BY <3>1, <3>2
  <2>2. Value(u, cell)' = Value(u, cell)
    BY <2>1, SameValue
  <2>3. ~(u = t /\ c = cell)
    BY <1>2, <2>2, SwapWrites
  <2>4. Covered(cell)
    BY <1>2, <2>1, <2>2, <2>3 DEF OverwriteCovered, Swapped
  <2>5. QED
    BY <1>2, <2>4, CoveredStays
<1>3. QED
  BY <1>1, <1>2

\* A swap leaves what is known covered, or about to be.
LEMMA SwapKnown ==
  ASSUME Inv, NEW t \in Tasks, NEW c \in Cells, Swap(t, c) PROVE KnownCovered'
<1> USE DEF Inv
<1> DEFINE differ == IF Differs(t, c) THEN differed[t] \cup {c} ELSE differed[t]
<1> SUFFICES ASSUME upstream_dsn_known', NEW cell \in Offered
             PROVE  Covered(cell)' \/ FirstToCome(cell)'
  BY DEF KnownCovered
<1>1. CASE Current(cell)' # Current(cell)
  BY <1>1, OverwriteCovers
<1>2. CASE Current(cell)' = Current(cell) /\ Covered(cell)
  BY <1>2, CoveredStays
\* The task found, now or before, that nothing was known.
<1>3. ASSUME "known" \in differ, Current(cell)' = Current(cell), ~Covered(cell)
      PROVE  Covered(cell)' \/ FirstToCome(cell)'
  <2>1. CASE cell \in todo[t] \ {c}
    <3>1. todo[t] # {c}
      BY <2>1
    <3>2. task'[t] = "notes" /\ todo'[t] = todo[t] \ {c} /\ differed'[t] = differ
      BY <3>1, SwapSelf
    <3>3. QED
      BY <1>3, <2>1, <3>2 DEF FirstToCome
  <2>2. CASE cell \notin todo[t] \ {c}
    <3>1. Current(cell)' = Value(t, cell)
      <4>1. CASE c = cell
        BY <4>1, SwapWrites
      <4>2. CASE c # cell
        <5>1. Swapped(t, cell)
          BY <2>2, <4>2 DEF Swapped, Swap
        <5>2. QED
          BY <1>3, <5>1 DEF OverwriteCovered
      <4>3. QED
        BY <4>1, <4>2
    <3> HIDE DEF differ
    <3>2. QED
      BY <1>3, <2>2, <3>1, SwapCovers DEF differ
  <2>3. QED
    BY <2>1, <2>2
<1>4. CASE Current(cell)' = Current(cell) /\ ~Covered(cell) /\ upstream_dsn_known
  <2>1. PICK u \in Tasks : task[u] = "notes" /\ cell \in todo[u] /\ "known" \in differed[u]
    BY <1>4 DEF KnownCovered, FirstToCome
  <2>2. CASE u = t
    BY <1>3, <1>4, <2>1, <2>2
  <2>3. CASE u # t
    BY <2>1, <2>3, OthersStay DEF FirstToCome
  <2>4. QED
    BY <2>2, <2>3
<1>5. CASE Current(cell)' = Current(cell) /\ ~Covered(cell) /\ ~upstream_dsn_known
  <2>1. c = "known" /\ Differs(t, c)
    BY <1>5 DEF Swap, Differs
  <2>2. QED
    BY <1>3, <1>5, <2>1
<1>6. QED
  BY <1>1, <1>2, <1>4, <1>5

\* A step that is no swap changes nothing of either.
LEMMA QuietKeeps ==
  ASSUME Inv, NEW t \in Tasks, Asks(t) \/ Notes(t) \/ GivesUp(t)
  PROVE  OverwriteCovered' /\ KnownCovered'
<1> USE DEF Inv
<1>1. UNCHANGED <<cells, logged>> /\ task[t] # "notes" /\ (task'[t] = "notes" => todo'[t] = Cells)
  BY QuietStep
<1>2. \A cell : Current(cell)' = Current(cell)
  BY <1>1 DEF Current, cells
<1>3. ASSUME NEW u \in Tasks, u # t
      PROVE  /\ task'[u] = task[u] /\ held'[u] = held[u] /\ todo'[u] = todo[u]
             /\ differed'[u] = differed[u]
             /\ \A cell : Value(u, cell)' = Value(u, cell)
  BY <1>3, OthersStay, SameValue
<1>4. ASSUME NEW cell \in Offered, Covered(cell) PROVE Covered(cell)'
  BY <1>1, <1>2, <1>3, <1>4 DEF Covered, Swapped
<1>5. ASSUME NEW cell \in Offered, FirstToCome(cell) PROVE FirstToCome(cell)'
  BY <1>1, <1>3, <1>5 DEF FirstToCome
<1>6. OverwriteCovered'
  <2> SUFFICES ASSUME NEW cell \in Offered, NEW u \in Tasks,
                      Swapped(u, cell)', Value(u, cell)' # Current(cell)'
               PROVE  Covered(cell)'
    BY DEF OverwriteCovered
  <2>1. u # t
    BY <1>1 DEF Swapped, Offered, Cells
  <2>2. QED
    BY <1>2, <1>3, <1>4, <2>1 DEF OverwriteCovered, Swapped
<1>7. KnownCovered'
  <2>1. upstream_dsn_known' = upstream_dsn_known
    BY <1>1 DEF cells
  <2>2. QED
    BY <1>4, <1>5, <2>1 DEF KnownCovered
<1>8. QED
  BY <1>6, <1>7

\* However the swaps of any number of relays and the probe fall, a cell whose
\* value is not in the log is owed to it by a task that will log it when it ends
\* (note_upstream_caps).
THEOREM OwedToTheLog == Spec => []Inv
<1>1. Init => Inv
  <2> SUFFICES ASSUME Init PROVE Inv
    OBVIOUS
  <2>1. OverwriteCovered /\ KnownCovered
    BY DEF Init, OverwriteCovered, KnownCovered, Swapped
  <2>2. QED
    BY <2>1, InitType DEF Inv
<1>2. Inv /\ [Next]_vars => Inv'
  <2> SUFFICES ASSUME Inv, [Next]_vars PROVE Inv'
    OBVIOUS
  <2>1. TypeInv'
    BY NextType DEF Inv
  <2>2. CASE UpstreamChanges \/ UNCHANGED vars
    <3>1. UNCHANGED <<task, held, todo, differed, cells, logged>>
      BY <2>2 DEF UpstreamChanges, vars
    <3>2. OverwriteCovered' /\ KnownCovered'
      BY <3>1 DEF Inv, OverwriteCovered, KnownCovered, Covered, FirstToCome, Swapped, Value,
                  Current, size, cells
    <3>3. QED
      BY <2>1, <3>2 DEF Inv
  <2>3. ASSUME NEW t \in Tasks, Asks(t) \/ Notes(t) \/ GivesUp(t) PROVE Inv'
    BY <2>1, <2>3, QuietKeeps DEF Inv
  <2>4. ASSUME NEW t \in Tasks, NEW c \in Cells, Swap(t, c) PROVE Inv'
    BY <2>1, <2>4, SwapOverwrite, SwapKnown DEF Inv
  <2>5. QED
    BY <2>2, <2>3, <2>4 DEF Next, Step
<1>3. QED
  BY <1>1, <1>2, PTL DEF Spec

\* Once no task is noting an answer, what a client is offered in the reply to EHLO
\* has been told to the log: no interleaving of the relaxed swaps loses the
\* line, the first answer's included.
THEOREM OfferedIsLoggedHolds == Spec => []OfferedIsLogged
<1>1. Inv => OfferedIsLogged
  <2> SUFFICES ASSUME Inv, upstream_dsn_known, \A t \in Tasks : task[t] # "notes"
               PROVE  /\ <<"dsn", IF dsn_available THEN 1 ELSE 0>> \in logged
                      /\ <<"size", upstream_size_limit>> \in logged
    BY DEF OfferedIsLogged
  <2>1. \A cell \in Offered : <<cell, Current(cell)>> \in logged
    BY DEF Inv, KnownCovered, Covered, FirstToCome, Swapped
  <2>2. QED
    BY <2>1 DEF Offered, Current, dsn_available, upstream_size_limit
<1>2. QED
  BY <1>1, OwedToTheLog, PTL
=============================================================================
