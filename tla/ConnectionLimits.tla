-------------------------- MODULE ConnectionLimits --------------------------
(***************************************************************************)
(* The connection limits of server/listener.rs, shared by the accept loops *)
(* of all listeners: a semaphore for the total and a locked map for the    *)
(* count per client.  Each is atomic on its own and the pair is not, so    *)
(* try_acquire and the drop of a permit are two steps each.                *)
(*                                                                         *)
(* A connection is named by its slot in the model, c \in Conns, and comes  *)
(* back as a new connection after it has ended.                            *)
(***************************************************************************)
EXTENDS Naturals, FiniteSets

CONSTANTS
  Listeners, Conns,
  Addr,            \* the client address of each connection
  MaxConnections,  \* --max_connections, 0 is unlimited
  PerIpMax,        \* --max_connections_per_ip, 0 is unlimited
  Nobody

ASSUME LimitsAssumption ==
  /\ MaxConnections \in Nat /\ PerIpMax \in Nat
  /\ IsFiniteSet(Conns) /\ Nobody \notin Conns

VARIABLES
  total,    \* free permits of the semaphore
  per_ip,   \* HashMap<IpAddr, usize>, a function on the keys it holds
  conn,     \* what has become of each connection
  at        \* the connection each accept loop has in its gate

vars == <<total, per_ip, conn, at>>

\* Mutant: an IPv6 client is counted by its full address.
limit_key_mutant(a) == IF a.kind = "v6" THEN a ELSE [kind |-> "v4", net |-> a.net]

\* limit_key: the /64 of an IPv6 address, the IPv4 address of a mapped one.
limit_key(a) == [kind |-> IF a.kind = "v6" THEN "v6" ELSE "v4", net |-> a.net]

Key(c) == limit_key(Addr[c])

\* away: no connection; accepted: returned by accept(); reserved: holds a
\* total slot in try_acquire; turned: over the per-client limit, its total slot
\* not yet dropped; refused: being told 421; live: has a session and a permit;
\* closing: its permit's drop has released the per-client count only.
Statuses == {"away", "accepted", "reserved", "turned", "refused", "live", "closing"}
HoldsTotal == {"reserved", "turned", "live", "closing"}

In(S) == {c \in Conns : conn[c] \in S}

Init ==
  /\ total = MaxConnections
  /\ per_ip = <<>>
  /\ conn = [c \in Conns |-> "away"]
  /\ at = [l \in Listeners |-> Nobody]

-----------------------------------------------------------------------------
\* The accept loop: accept() returns.
Accept(l) ==
  /\ at[l] = Nobody
  /\ \E c \in In({"away"}) :
       /\ conn' = [conn EXCEPT ![c] = "accepted"]
       /\ at' = [at EXCEPT ![l] = c]
  /\ UNCHANGED <<total, per_ip>>

\* try_acquire, the semaphore; a refusal spawns the 421 and the loop goes on.
AcquireTotal(l) ==
  /\ at[l] # Nobody /\ conn[at[l]] = "accepted"
  /\ IF MaxConnections = 0 \/ total > 0
     THEN /\ total' = IF MaxConnections = 0 THEN total ELSE total - 1
          /\ conn' = [conn EXCEPT ![at[l]] = "reserved"]
          /\ UNCHANGED at
     ELSE /\ conn' = [conn EXCEPT ![at[l]] = "refused"]
          /\ at' = [at EXCEPT ![l] = Nobody]
          /\ UNCHANGED total
  /\ UNCHANGED per_ip

\* The count of a key, absent keys counting nothing.
Count(k) == IF k \in DOMAIN per_ip THEN per_ip[k] ELSE 0

\* entry(key).or_insert(0), then += 1
Counted(k) == [j \in DOMAIN per_ip \cup {k} |-> IF j = k THEN Count(k) + 1 ELSE per_ip[j]]

\* Mutant: an entry at zero stays in the map.
Uncounted_mutant(k) == [per_ip EXCEPT ![k] = @ - 1]

\* -= 1, and the entry is removed at zero
Uncounted(k) ==
  IF k \notin DOMAIN per_ip THEN per_ip
  ELSE IF per_ip[k] = 1 THEN [j \in DOMAIN per_ip \ {k} |-> per_ip[j]]
  ELSE [per_ip EXCEPT ![k] = @ - 1]

\* try_acquire, the map, and the spawn of the session.
CountIp(l) ==
  /\ at[l] # Nobody /\ conn[at[l]] = "reserved"
  /\ LET k == Key(at[l])
     IN  IF PerIpMax # 0 /\ Count(k) >= PerIpMax
         THEN /\ conn' = [conn EXCEPT ![at[l]] = "turned"]
              /\ UNCHANGED <<per_ip, at>>
         ELSE /\ per_ip' = IF PerIpMax = 0 THEN per_ip ELSE Counted(k)
              /\ conn' = [conn EXCEPT ![at[l]] = "live"]
              /\ at' = [at EXCEPT ![l] = Nobody]
  /\ UNCHANGED total

\* Mutant: the slot of a connection over its per-client limit is forgotten.
Released_mutant == total

\* OwnedSemaphorePermit::drop
Released == IF MaxConnections = 0 THEN total ELSE total + 1

\* Err("per-ip") returning: the local `total' is dropped last.
ReleaseTurned(l) ==
  /\ at[l] # Nobody /\ conn[at[l]] = "turned"
  /\ total' = Released
  /\ conn' = [conn EXCEPT ![at[l]] = "refused"]
  /\ at' = [at EXCEPT ![l] = Nobody]
  /\ UNCHANGED per_ip

\* The task that writes the 421 and shuts the stream down.
Refuse(c) ==
  /\ conn[c] = "refused"
  /\ conn' = [conn EXCEPT ![c] = "away"]
  /\ UNCHANGED <<total, per_ip, at>>

\* The session future is dropped: ConnectionPermit::drop, then its fields.
EndSession(c) ==
  /\ conn[c] = "live"
  /\ per_ip' = IF PerIpMax = 0 THEN per_ip ELSE Uncounted(Key(c))
  /\ conn' = [conn EXCEPT ![c] = "closing"]
  /\ UNCHANGED <<total, at>>

\* Mutant: a permit that was counted is not given back to the semaphore.
ReleaseTotal_mutant(c) ==
  /\ conn[c] = "closing" /\ PerIpMax = 0
  /\ total' = Released
  /\ conn' = [conn EXCEPT ![c] = "away"]
  /\ UNCHANGED <<per_ip, at>>

ReleaseTotal(c) ==
  /\ conn[c] = "closing"
  /\ total' = Released
  /\ conn' = [conn EXCEPT ![c] = "away"]
  /\ UNCHANGED <<per_ip, at>>

Gate(l) == AcquireTotal(l) \/ CountIp(l) \/ ReleaseTurned(l)
Task(c) == Refuse(c) \/ ReleaseTotal(c)

Next ==
  \/ \E l \in Listeners : Accept(l) \/ Gate(l)
  \/ \E c \in Conns : EndSession(c) \/ Task(c)

Spec == Init /\ [][Next]_vars

\* try_acquire never waits, and dropping a permit cannot be interrupted.
FairSpec ==
  /\ Spec
  /\ \A l \in Listeners : WF_vars(Gate(l))
  /\ \A c \in Conns : WF_vars(Task(c))

-----------------------------------------------------------------------------
(* Properties *)

Keys == {Key(c) : c \in Conns}
LiveOf(k) == {c \in Conns : conn[c] = "live" /\ Key(c) = k}

\* The type of every variable.
TypeOK ==
  /\ total \in Nat
  /\ DOMAIN per_ip \subseteq Keys /\ per_ip \in [DOMAIN per_ip -> Nat]
  /\ conn \in [Conns -> Statuses]
  /\ at \in [Listeners -> Conns \cup {Nobody}]

\* No total slot is lost or minted by a race of two listeners, by a refusal
\* after the slot was taken, or by the two steps of a release.
SlotsConserved ==
  MaxConnections # 0 => total + Cardinality(In(HoldsTotal)) = MaxConnections

\* The map counts exactly the live sessions of each client, and holds no entry
\* for a client that has none: it cannot grow without bound.
PerIpExact ==
  IF PerIpMax = 0 THEN DOMAIN per_ip = {}
  ELSE /\ \A k \in Keys : Count(k) = Cardinality(LiveOf(k))
       /\ \A k \in DOMAIN per_ip : per_ip[k] # 0

\* Neither limit is ever exceeded, whatever address a client uses.
SameClient(c, d) ==
  LET a == Addr[c]  b == Addr[d]
  IN  a.net = b.net /\ (a.kind = "v6" <=> b.kind = "v6")

WithinLimits ==
  /\ MaxConnections # 0 => Cardinality(In({"live"})) <= MaxConnections
  /\ PerIpMax # 0 => \A c \in Conns :
        Cardinality({d \in In({"live"}) : SameClient(c, d)}) <= PerIpMax

\* A slot taken for a connection that is refused, or held by one that has
\* ended, comes back.
SlotsReturn ==
  \A c \in Conns : conn[c] \in {"reserved", "turned", "closing"} ~> conn[c] \notin {"reserved", "turned", "closing"}
=============================================================================
