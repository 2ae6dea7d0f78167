----------------------- MODULE ConnectionLimitsProofs -----------------------
(* Theorems about ConnectionLimits, for any number of listeners, connections
   and clients, and for every value of the two limits. *)
EXTENDS ConnectionLimits, FiniteSetTheorems, TLAPS

\* The inductive invariant.
Inv == TypeOK /\ SlotsConserved /\ PerIpExact

-----------------------------------------------------------------------------
(* What moving one connection to another status does to the two counts *)

LEMMA FiniteParts ==
  /\ \A S : IsFiniteSet(In(S)) /\ Cardinality(In(S)) \in Nat
  /\ \A k : IsFiniteSet(LiveOf(k)) /\ Cardinality(LiveOf(k)) \in Nat
<1>1. \A T \in SUBSET Conns : IsFiniteSet(T) /\ Cardinality(T) \in Nat
  BY LimitsAssumption, FS_Subset, FS_CardinalityType DEF LimitsAssumption
<1>2. /\ \A S : In(S) \in SUBSET Conns
      /\ \A k : LiveOf(k) \in SUBSET Conns
  BY DEF In, LiveOf
<1>3. QED
  BY <1>1, <1>2

LEMMA HoldersMove ==
  ASSUME TypeOK, NEW c \in Conns, NEW s, conn' = [conn EXCEPT ![c] = s]
  PROVE  /\ conn[c] \notin HoldsTotal /\ s \in HoldsTotal =>
              Cardinality(In(HoldsTotal))' = Cardinality(In(HoldsTotal)) + 1
         /\ conn[c] \in HoldsTotal /\ s \notin HoldsTotal =>
              Cardinality(In(HoldsTotal))' = Cardinality(In(HoldsTotal)) - 1
         /\ (conn[c] \in HoldsTotal <=> s \in HoldsTotal) =>
              Cardinality(In(HoldsTotal))' = Cardinality(In(HoldsTotal))
<1>1. conn \in [Conns -> Statuses]
  BY DEF TypeOK
<1>2. /\ c \in In(HoldsTotal) <=> conn[c] \in HoldsTotal
      /\ s \in HoldsTotal => In(HoldsTotal)' = In(HoldsTotal) \cup {c}
      /\ s \notin HoldsTotal => In(HoldsTotal)' = In(HoldsTotal) \ {c}
  BY <1>1 DEF In
<1>3. QED
  BY <1>2, FiniteParts, FS_AddElement, FS_RemoveElement

LEMMA LiveMove ==
  ASSUME TypeOK, NEW c \in Conns, NEW s, conn' = [conn EXCEPT ![c] = s], NEW k
  PROVE  /\ conn[c] # "live" /\ s = "live" /\ Key(c) = k =>
              Cardinality(LiveOf(k))' = Cardinality(LiveOf(k)) + 1
         /\ conn[c] = "live" /\ s # "live" /\ Key(c) = k =>
              Cardinality(LiveOf(k))' = Cardinality(LiveOf(k)) - 1
         /\ Key(c) # k \/ (conn[c] = "live" <=> s = "live") =>
              Cardinality(LiveOf(k))' = Cardinality(LiveOf(k))
<1>1. conn \in [Conns -> Statuses]
  BY DEF TypeOK
<1>2. /\ c \in LiveOf(k) <=> conn[c] = "live" /\ Key(c) = k
      /\ s = "live" /\ Key(c) = k => LiveOf(k)' = LiveOf(k) \cup {c}
      /\ ~(s = "live" /\ Key(c) = k) => LiveOf(k)' = LiveOf(k) \ {c}
  BY <1>1 DEF LiveOf, Key
<1>3. QED
  BY <1>2, FiniteParts, FS_AddElement, FS_RemoveElement

\* A step that changes neither the map nor who is live.
LEMMA PerIpSame ==
  ASSUME Inv, UNCHANGED per_ip, NEW c \in Conns, NEW s, conn' = [conn EXCEPT ![c] = s],
         conn[c] = "live" <=> s = "live"
  PROVE  PerIpExact'
<1>1. \A k \in Keys : Cardinality(LiveOf(k))' = Cardinality(LiveOf(k))
  BY LiveMove DEF Inv
<1>2. \A k : Count(k)' = Count(k)
  BY DEF Count
<1>3. QED
  BY <1>1, <1>2 DEF Inv, PerIpExact, Keys, Key

-----------------------------------------------------------------------------
(* The map *)

LEMMA CountedMap ==
  ASSUME TypeOK, NEW c \in Conns, per_ip' = Counted(Key(c))
  PROVE  /\ DOMAIN per_ip' \subseteq Keys /\ per_ip' \in [DOMAIN per_ip' -> Nat]
         /\ Count(Key(c))' = Count(Key(c)) + 1
         /\ \A k : k # Key(c) => Count(k)' = Count(k)
         /\ (\A k \in DOMAIN per_ip : per_ip[k] # 0) => \A k \in DOMAIN per_ip' : per_ip'[k] # 0
<1>1. Key(c) \in Keys /\ DOMAIN per_ip \subseteq Keys /\ per_ip \in [DOMAIN per_ip -> Nat]
  BY DEF Keys, TypeOK
<1>2. Count(Key(c)) \in Nat
  BY <1>1 DEF Count
<1>3. DOMAIN per_ip' = DOMAIN per_ip \cup {Key(c)}
  BY DEF Counted
<1>4. \A j \in DOMAIN per_ip' : per_ip'[j] = IF j = Key(c) THEN Count(Key(c)) + 1 ELSE per_ip[j]
  BY <1>3 DEF Counted
<1>5. per_ip' = [j \in DOMAIN per_ip' |-> per_ip'[j]]
  BY <1>3 DEF Counted
<1>6. QED
  BY <1>1, <1>2, <1>3, <1>4, <1>5 DEF Count

LEMMA UncountedMap ==
  ASSUME TypeOK, NEW c \in Conns, per_ip' = Uncounted(Key(c)),
         Count(Key(c)) # 0
  PROVE  /\ DOMAIN per_ip' \subseteq Keys /\ per_ip' \in [DOMAIN per_ip' -> Nat]
         /\ Count(Key(c))' = Count(Key(c)) - 1
         /\ \A k : k # Key(c) => Count(k)' = Count(k)
         /\ (\A k \in DOMAIN per_ip : per_ip[k] # 0) => \A k \in DOMAIN per_ip' : per_ip'[k] # 0
<1>1. /\ DOMAIN per_ip \subseteq Keys /\ per_ip \in [DOMAIN per_ip -> Nat]
      /\ Key(c) \in DOMAIN per_ip /\ per_ip[Key(c)] # 0
  BY DEF TypeOK, Count
<1>2. CASE per_ip[Key(c)] = 1
  <2>1. per_ip' = [j \in DOMAIN per_ip \ {Key(c)} |-> per_ip[j]]
    BY <1>1, <1>2 DEF Uncounted
  <2>2. QED
    BY <1>1, <1>2, <2>1 DEF Count
<1>3. CASE per_ip[Key(c)] # 1
  <2>1. per_ip' = [per_ip EXCEPT ![Key(c)] = @ - 1]
    BY <1>1, <1>3 DEF Uncounted
  <2>2. per_ip[Key(c)] - 1 \in Nat \ {0}
    BY <1>1, <1>3
  <2>3. QED
    BY <1>1, <2>1, <2>2 DEF Count
<1>4. QED
  BY <1>2, <1>3

-----------------------------------------------------------------------------
(* The steps *)

LEMMA LimitsInit == Init => Inv
<1> SUFFICES ASSUME Init PROVE Inv
  OBVIOUS
<1>1. TypeOK
  BY LimitsAssumption DEF Init, TypeOK, LimitsAssumption, Statuses
<1>2. In(HoldsTotal) = {} /\ \A k : LiveOf(k) = {}
  BY DEF Init, In, HoldsTotal, LiveOf
<1>3. SlotsConserved
  BY <1>2, FS_EmptySet, LimitsAssumption DEF Init, SlotsConserved, LimitsAssumption
<1>4. PerIpExact
  <2>1. DOMAIN per_ip = {}
    BY DEF Init
  <2>2. \A k : Count(k) = 0 /\ Cardinality(LiveOf(k)) = 0
    BY <1>2, <2>1, FS_EmptySet DEF Count
  <2>3. QED
    BY <2>1, <2>2 DEF PerIpExact
<1>5. QED
  BY <1>1, <1>3, <1>4 DEF Inv

\* The types after one connection has moved.
LEMMA MoveType ==
  ASSUME TypeOK, NEW c \in Conns, NEW s \in Statuses, conn' = [conn EXCEPT ![c] = s]
  PROVE  conn' \in [Conns -> Statuses]
BY DEF TypeOK

LEMMA LimitsAccept ==
  ASSUME Inv, NEW l \in Listeners, Accept(l) PROVE Inv'
<1>1. PICK c \in Conns : /\ conn[c] = "away" /\ conn' = [conn EXCEPT ![c] = "accepted"]
                         /\ at' = [at EXCEPT ![l] = c]
  BY DEF Accept, In
<1>2. UNCHANGED <<total, per_ip>>
  BY DEF Accept
<1>3. TypeOK'
  BY <1>1, <1>2, MoveType DEF Inv, TypeOK, Statuses, Keys, Key
<1>4. SlotsConserved'
  <2>1. conn[c] \notin HoldsTotal /\ "accepted" \notin HoldsTotal
    BY <1>1 DEF HoldsTotal
  <2>2. Cardinality(In(HoldsTotal))' = Cardinality(In(HoldsTotal))
    BY <1>1, <2>1, HoldersMove DEF Inv
  <2>3. QED
    BY <1>2, <2>2 DEF Inv, SlotsConserved
<1>5. PerIpExact'
  BY <1>1, <1>2, PerIpSame
<1>6. QED
  BY <1>3, <1>4, <1>5 DEF Inv

\* A connection in a gate is one of Conns.
LEMMA AtGate ==
  ASSUME TypeOK, NEW l \in Listeners, at[l] # Nobody
  PROVE  at[l] \in Conns
BY DEF TypeOK

LEMMA LimitsAcquireTotal ==
  ASSUME Inv, NEW l \in Listeners, AcquireTotal(l) PROVE Inv'
<1> DEFINE c == at[l]
<1>1. c \in Conns /\ conn[c] = "accepted" /\ UNCHANGED per_ip
  BY AtGate DEF AcquireTotal, Inv
<1>2. MaxConnections \in Nat /\ total \in Nat
  BY LimitsAssumption DEF LimitsAssumption, Inv, TypeOK
<1>3. \/ /\ conn' = [conn EXCEPT ![c] = "reserved"] /\ UNCHANGED at
         /\ MaxConnections = 0 => total' = total
         /\ MaxConnections # 0 => total > 0 /\ total' = total - 1
      \/ /\ conn' = [conn EXCEPT ![c] = "refused"] /\ at' = [at EXCEPT ![l] = Nobody]
         /\ total' = total
  BY <1>2 DEF AcquireTotal
<1>4. TypeOK'
  <2>1. total' \in Nat
    BY <1>2, <1>3
  <2>2. conn' \in [Conns -> Statuses]
    BY <1>1, <1>3, MoveType DEF Inv, Statuses
  <2>3. at' \in [Listeners -> Conns \cup {Nobody}]
    BY <1>3 DEF Inv, TypeOK
  <2>4. QED
    BY <1>1, <2>1, <2>2, <2>3 DEF Inv, TypeOK, Keys, Key
<1>5. SlotsConserved'
  <2>1. Cardinality(In(HoldsTotal)) \in Nat
    BY FiniteParts
  <2>2. conn[c] \notin HoldsTotal /\ "reserved" \in HoldsTotal /\ "refused" \notin HoldsTotal
    BY <1>1 DEF HoldsTotal
  <2>3. CASE conn' = [conn EXCEPT ![c] = "reserved"]
    <3>1. Cardinality(In(HoldsTotal))' = Cardinality(In(HoldsTotal)) + 1
      BY <1>1, <2>2, <2>3, HoldersMove DEF Inv
    <3>2. conn'[c] = "reserved"
      BY <1>1, <2>3 DEF Inv, TypeOK
    <3>3. CASE MaxConnections # 0
      <4>1. total' = total - 1
        BY <1>1, <1>3, <3>2, <3>3 DEF Inv, TypeOK
      <4>2. QED
        BY <1>2, <2>1, <3>1, <4>1 DEF Inv, SlotsConserved
    <3>4. QED
      BY <3>3 DEF SlotsConserved
  <2>4. CASE conn' = [conn EXCEPT ![c] = "refused"]
    <3>1. Cardinality(In(HoldsTotal))' = Cardinality(In(HoldsTotal))
      BY <1>1, <2>2, <2>4, HoldersMove DEF Inv
    <3>2. conn'[c] = "refused"
      BY <1>1, <2>4 DEF Inv, TypeOK
    <3>3. total' = total
      BY <1>1, <1>3, <3>2 DEF Inv, TypeOK
    <3>4. QED
      BY <3>1, <3>3 DEF Inv, SlotsConserved
  <2>5. QED
    BY <1>3, <2>3, <2>4
<1>6. PerIpExact'
  BY <1>1, <1>3, PerIpSame
<1>7. QED
  BY <1>4, <1>5, <1>6 DEF Inv

LEMMA LimitsCountIp ==
  ASSUME Inv, NEW l \in Listeners, CountIp(l) PROVE Inv'
<1> DEFINE c == at[l]
<1>1. c \in Conns /\ conn[c] = "reserved" /\ UNCHANGED total
  BY AtGate DEF CountIp, Inv
<1>2. CASE conn' = [conn EXCEPT ![c] = "turned"] /\ UNCHANGED <<per_ip, at>>
  <2>1. TypeOK'
    BY <1>1, <1>2, MoveType DEF Inv, TypeOK, Statuses, Keys, Key
  <2>2. SlotsConserved'
    BY <1>1, <1>2, HoldersMove DEF Inv, SlotsConserved, HoldsTotal
  <2>3. PerIpExact'
    BY <1>1, <1>2, PerIpSame
  <2>4. QED
    BY <2>1, <2>2, <2>3 DEF Inv
<1>3. CASE /\ conn' = [conn EXCEPT ![c] = "live"] /\ at' = [at EXCEPT ![l] = Nobody]
           /\ per_ip' = IF PerIpMax = 0 THEN per_ip ELSE Counted(Key(c))
  <2>1. conn' \in [Conns -> Statuses] /\ at' \in [Listeners -> Conns \cup {Nobody}]
    BY <1>1, <1>3, MoveType DEF Inv, TypeOK, Statuses
  <2>2. SlotsConserved'
    BY <1>1, <1>3, HoldersMove DEF Inv, SlotsConserved, HoldsTotal
  <2>3. CASE PerIpMax = 0
    <3>1. TypeOK'
      BY <1>1, <1>3, <2>1, <2>3 DEF Inv, TypeOK, Keys, Key
    <3>2. PerIpExact'
      BY <1>3, <2>3 DEF Inv, PerIpExact
    <3>3. QED
      BY <2>2, <3>1, <3>2 DEF Inv
  <2>4. CASE PerIpMax # 0
    <3>1. per_ip' = Counted(Key(c))
      BY <1>3, <2>4
    <3>2. TypeOK'
      BY <1>1, <2>1, <3>1, CountedMap DEF Inv, TypeOK, Keys, Key
    <3>3. \A k \in Keys : Count(k)' = Cardinality(LiveOf(k))'
      <4> TAKE k \in Keys
      <4>1. Count(k) = Cardinality(LiveOf(k))
        BY <2>4 DEF Inv, PerIpExact
      <4>2. CASE k = Key(c)
        BY <1>1, <1>3, <3>1, <4>1, <4>2, CountedMap, LiveMove DEF Inv
      <4>3. CASE k # Key(c)
        BY <1>1, <1>3, <3>1, <4>1, <4>3, CountedMap, LiveMove DEF Inv
      <4>4. QED
        BY <4>2, <4>3
    <3>4. \A k \in DOMAIN per_ip' : per_ip'[k] # 0
      BY <1>1, <2>4, <3>1, CountedMap DEF Inv, PerIpExact
    <3>5. PerIpExact'
      BY <2>4, <3>3, <3>4 DEF PerIpExact, Keys, Key
    <3>6. QED
      BY <2>2, <3>2, <3>5 DEF Inv
  <2>5. QED
    BY <2>3, <2>4
<1>4. QED
  BY <1>2, <1>3 DEF CountIp

\* Giving a total slot back.
LEMMA ReleaseSlot ==
  ASSUME Inv, NEW c \in Conns, NEW s, conn' = [conn EXCEPT ![c] = s],
         conn[c] \in HoldsTotal, s \notin HoldsTotal, total' = Released
  PROVE  SlotsConserved' /\ total' \in Nat
<1>1. Cardinality(In(HoldsTotal))' = Cardinality(In(HoldsTotal)) - 1
  BY HoldersMove DEF Inv
<1>2. Cardinality(In(HoldsTotal)) \in Nat /\ total \in Nat /\ MaxConnections \in Nat
  BY FiniteParts, LimitsAssumption DEF LimitsAssumption, Inv, TypeOK
<1>3. total' = IF MaxConnections = 0 THEN total ELSE total + 1
  BY DEF Released
<1>4. QED
  BY <1>1, <1>2, <1>3 DEF Inv, SlotsConserved

LEMMA LimitsReleaseTurned ==
  ASSUME Inv, NEW l \in Listeners, ReleaseTurned(l) PROVE Inv'
<1> DEFINE c == at[l]
<1>1. c \in Conns /\ conn[c] = "turned" /\ UNCHANGED per_ip
  BY AtGate DEF ReleaseTurned, Inv
<1>2. conn' = [conn EXCEPT ![c] = "refused"] /\ total' = Released
  BY DEF ReleaseTurned
<1>3. SlotsConserved' /\ total' \in Nat
  BY <1>1, <1>2, ReleaseSlot DEF HoldsTotal
<1>4. PerIpExact'
  BY <1>1, <1>2, PerIpSame
<1>5. TypeOK'
  BY <1>1, <1>2, <1>3, MoveType DEF Inv, TypeOK, Statuses, Keys, Key, ReleaseTurned
<1>6. QED
  BY <1>3, <1>4, <1>5 DEF Inv

LEMMA LimitsTask ==
  ASSUME Inv, NEW c \in Conns, Task(c) PROVE Inv'
<1>1. CASE Refuse(c)
  <2>1. conn[c] = "refused" /\ conn' = [conn EXCEPT ![c] = "away"] /\ UNCHANGED <<total, per_ip, at>>
    BY <1>1 DEF Refuse
  <2>2. conn[c] \notin HoldsTotal /\ "away" \notin HoldsTotal
    BY <2>1 DEF HoldsTotal
  <2>3. Cardinality(In(HoldsTotal))' = Cardinality(In(HoldsTotal))
    BY <2>1, <2>2, HoldersMove DEF Inv
  <2>4. SlotsConserved'
    BY <2>1, <2>3 DEF Inv, SlotsConserved
  <2>5. PerIpExact'
    BY <2>1, PerIpSame
  <2>6. TypeOK'
    BY <2>1, MoveType DEF Inv, TypeOK, Statuses, Keys, Key
  <2>7. QED
    BY <2>4, <2>5, <2>6 DEF Inv
<1>2. CASE ReleaseTotal(c)
  <2>1. /\ conn[c] = "closing" /\ conn' = [conn EXCEPT ![c] = "away"] /\ UNCHANGED <<per_ip, at>>
        /\ total' = Released
    BY <1>2 DEF ReleaseTotal
  <2>2. SlotsConserved' /\ total' \in Nat
    BY <2>1, ReleaseSlot DEF HoldsTotal
  <2>3. PerIpExact'
    BY <2>1, PerIpSame
  <2>4. TypeOK'
    BY <2>1, <2>2, MoveType DEF Inv, TypeOK, Statuses, Keys, Key
  <2>5. QED
    BY <2>2, <2>3, <2>4 DEF Inv
<1>3. QED
  BY <1>1, <1>2 DEF Task

LEMMA LimitsEndSession ==
  ASSUME Inv, NEW c \in Conns, EndSession(c) PROVE Inv'
<1>1. /\ conn[c] = "live" /\ conn' = [conn EXCEPT ![c] = "closing"] /\ UNCHANGED <<total, at>>
      /\ per_ip' = IF PerIpMax = 0 THEN per_ip ELSE Uncounted(Key(c))
  BY DEF EndSession
<1>2. SlotsConserved'
  <2>1. conn[c] \in HoldsTotal /\ "closing" \in HoldsTotal
    BY <1>1 DEF HoldsTotal
  <2>2. Cardinality(In(HoldsTotal))' = Cardinality(In(HoldsTotal))
    BY <1>1, <2>1, HoldersMove DEF Inv
  <2>3. QED
    BY <1>1, <2>2 DEF Inv, SlotsConserved
<1>3. conn' \in [Conns -> Statuses]
  BY <1>1, MoveType DEF Inv, Statuses
<1>4. CASE PerIpMax = 0
  <2>1. TypeOK'
    BY <1>1, <1>3, <1>4 DEF Inv, TypeOK, Keys, Key
  <2>2. PerIpExact'
    BY <1>1, <1>4 DEF Inv, PerIpExact
  <2>3. QED
    BY <1>2, <2>1, <2>2 DEF Inv
<1>5. CASE PerIpMax # 0
  <2>1. per_ip' = Uncounted(Key(c))
    BY <1>1, <1>5
  <2>2. Key(c) \in Keys /\ c \in LiveOf(Key(c))
    BY <1>1 DEF Keys, LiveOf
  <2>3. Cardinality(LiveOf(Key(c))) # 0
    BY <2>2, FiniteParts, FS_EmptySet
  <2>4. Count(Key(c)) # 0
    BY <1>5, <2>2, <2>3 DEF Inv, PerIpExact
  <2>5. TypeOK'
    BY <1>1, <1>3, <2>1, <2>4, UncountedMap DEF Inv, TypeOK, Keys, Key
  <2>6. \A k \in Keys : Count(k)' = Cardinality(LiveOf(k))'
    <3> TAKE k \in Keys
    <3>1. Count(k) = Cardinality(LiveOf(k))
      BY <1>5 DEF Inv, PerIpExact
    <3>2. CASE k = Key(c)
      BY <1>1, <2>1, <2>4, <3>1, <3>2, UncountedMap, LiveMove DEF Inv
    <3>3. CASE k # Key(c)
      BY <1>1, <2>1, <2>4, <3>1, <3>3, UncountedMap, LiveMove DEF Inv
    <3>4. QED
      BY <3>2, <3>3
  <2>7. \A k \in DOMAIN per_ip' : per_ip'[k] # 0
    BY <1>5, <2>1, <2>4, UncountedMap DEF Inv, PerIpExact
  <2>8. PerIpExact'
    BY <1>5, <2>6, <2>7 DEF PerIpExact, Keys, Key
  <2>9. QED
    BY <1>2, <2>5, <2>8 DEF Inv
<1>6. QED
  BY <1>4, <1>5

\* Both counts are exact in every reachable state, whatever the interleaving
\* of the listeners and the sessions that end.
THEOREM LimitsCorrect == Spec => []Inv
<1>1. Init => Inv
  BY LimitsInit
<1>2. Inv /\ [Next]_vars => Inv'
  <2> SUFFICES ASSUME Inv, [Next]_vars PROVE Inv'
    OBVIOUS
  <2>1. CASE UNCHANGED vars
    BY <2>1 DEF vars, Inv, TypeOK, SlotsConserved, PerIpExact, Keys, Key, In, LiveOf, Count
  <2>2. CASE Next
    BY <2>2, LimitsAccept, LimitsAcquireTotal, LimitsCountIp, LimitsReleaseTurned,
       LimitsEndSession, LimitsTask DEF Next, Gate
  <2>3. QED
    BY <2>1, <2>2
<1>3. QED
  BY <1>1, <1>2, PTL DEF Spec

-----------------------------------------------------------------------------
(* From exact counts to the limits *)

\* The per-client check and the count that follows it are under one lock.
Capped == PerIpMax # 0 => \A k : Count(k) <= PerIpMax

LEMMA CapStep == ASSUME Inv, Capped, [Next]_vars PROVE Capped'
<1> SUFFICES ASSUME PerIpMax # 0 PROVE \A k : Count(k)' <= PerIpMax
  BY DEF Capped
<1>1. /\ \A k : Count(k) \in Nat /\ Count(k) <= PerIpMax
      /\ PerIpMax \in Nat
  BY LimitsAssumption DEF Capped, Inv, TypeOK, Count, LimitsAssumption
<1>2. CASE UNCHANGED per_ip
  BY <1>1, <1>2 DEF Count
<1>3. ASSUME NEW l \in Listeners, CountIp(l), per_ip' # per_ip
      PROVE  \A k : Count(k)' <= PerIpMax
  <2>1. at[l] \in Conns
    BY <1>3, AtGate DEF CountIp, Inv
  <2>2. PICK c \in Conns : c = at[l]
    BY <2>1
  <2>3. per_ip' = Counted(Key(c)) /\ Count(Key(c)) < PerIpMax
    BY <1>1, <1>3, <2>2 DEF CountIp
  <2>4. /\ Count(Key(c))' = Count(Key(c)) + 1
        /\ \A k : k # Key(c) => Count(k)' = Count(k)
    BY <2>3, CountedMap DEF Inv
  <2>5. ASSUME NEW k PROVE Count(k)' <= PerIpMax
    <3>1. CASE k = Key(c)
      BY <1>1, <2>3, <2>4, <3>1
    <3>2. CASE k # Key(c)
      BY <1>1, <2>4, <3>2
    <3>3. QED
      BY <3>1, <3>2
  <2>6. QED
    BY <2>5
<1>4. ASSUME NEW c \in Conns, EndSession(c)
      PROVE  \A k : Count(k)' <= PerIpMax
  <2>1. per_ip' = Uncounted(Key(c)) /\ conn[c] = "live"
    BY <1>4 DEF EndSession
  <2>2. Key(c) \in Keys /\ c \in LiveOf(Key(c))
    BY <2>1 DEF Keys, LiveOf
  <2>3. Count(Key(c)) # 0
    BY <2>2, FiniteParts, FS_EmptySet DEF Inv, PerIpExact
  <2>4. /\ Count(Key(c))' = Count(Key(c)) - 1
        /\ \A k : k # Key(c) => Count(k)' = Count(k)
    BY <2>1, <2>3, UncountedMap DEF Inv
  <2>5. QED
    BY <1>1, <2>4
<1>5. QED
  BY <1>2, <1>3, <1>4
  DEF Next, vars, Accept, Gate, AcquireTotal, ReleaseTurned, Task, Refuse, ReleaseTotal

LEMMA LimitsFollow == ASSUME Inv, Capped PROVE WithinLimits
<1>1. ASSUME MaxConnections # 0
      PROVE  Cardinality(In({"live"})) <= MaxConnections
  <2>1. In({"live"}) \in SUBSET In(HoldsTotal)
    BY DEF In, HoldsTotal
  <2>2. Cardinality(In({"live"})) <= Cardinality(In(HoldsTotal))
    BY <2>1, FiniteParts, FS_Subset
  <2>3. total \in Nat /\ Cardinality(In({"live"})) \in Nat /\ Cardinality(In(HoldsTotal)) \in Nat
    BY FiniteParts DEF Inv, TypeOK
  <2>4. total + Cardinality(In(HoldsTotal)) = MaxConnections
    BY <1>1 DEF Inv, SlotsConserved
  <2>5. QED
    BY <2>2, <2>3, <2>4
<1>2. ASSUME PerIpMax # 0, NEW c \in Conns
      PROVE  Cardinality({d \in In({"live"}) : SameClient(c, d)}) <= PerIpMax
  <2> DEFINE Same == {d \in In({"live"}) : SameClient(c, d)}
  <2>1. \A d \in Conns : SameClient(c, d) => Key(d) = Key(c)
    BY DEF SameClient, Key, limit_key
  <2>2. Same \in SUBSET LiveOf(Key(c))
    BY <2>1 DEF In, LiveOf
  <2>3. IsFiniteSet(LiveOf(Key(c))) /\ Cardinality(LiveOf(Key(c))) \in Nat
    BY FiniteParts
  <2>4. Cardinality(Same) \in Nat /\ Cardinality(Same) <= Cardinality(LiveOf(Key(c)))
    BY <2>2, <2>3, FS_Subset, FS_CardinalityType
  <2>5. Count(Key(c)) = Cardinality(LiveOf(Key(c))) /\ Count(Key(c)) <= PerIpMax
    BY <1>2 DEF Inv, PerIpExact, Capped, Keys
  <2>6. PerIpMax \in Nat
    BY LimitsAssumption DEF LimitsAssumption
  <2>7. QED
    BY <2>3, <2>4, <2>5, <2>6
<1>3. QED
  BY <1>1, <1>2 DEF WithinLimits

\* No slot is lost or minted: the free permits and the connections that hold
\* one add up to --max_connections in every reachable state.
THEOREM SlotsConservedHolds == Spec => []SlotsConserved
<1>1. Inv => SlotsConserved
  BY DEF Inv
<1>2. QED
  BY <1>1, LimitsCorrect, PTL

\* The map of try_acquire counts the live sessions of every client exactly and
\* keeps no entry for a client without one.
THEOREM PerIpExactHolds == Spec => []PerIpExact
<1>1. Inv => PerIpExact
  BY DEF Inv
<1>2. QED
  BY <1>1, LimitsCorrect, PTL

\* Neither --max_connections nor --max_connections_per_ip is ever exceeded,
\* however many listeners race in try_acquire and whatever addresses of its
\* network a client uses.
THEOREM WithinLimitsHolds == Spec => []WithinLimits
<1>1. Init => Capped
  BY LimitsAssumption DEF Init, Capped, Count, LimitsAssumption
<1>2. Inv /\ Capped /\ [Next]_vars => Capped'
  BY CapStep
<1>3. Inv /\ Capped => WithinLimits
  BY LimitsFollow
<1>4. QED
  BY <1>1, <1>2, <1>3, LimitsCorrect, PTL DEF Spec
=============================================================================
