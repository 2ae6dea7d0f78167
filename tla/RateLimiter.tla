----------------------------- MODULE RateLimiter -----------------------------
(***************************************************************************)
(* The token buckets of ratelimit.rs, shared by every session and by the   *)
(* pruner of main.rs.  A caller reads the clock first and waits for the    *)
(* mutex afterwards, so that calls reach a bucket in any order of their    *)
(* instants.                                                               *)
(*                                                                         *)
(* Time is counted in ticks.  Tokens are counted in units: a tick is worth *)
(* PerMinute units and a token Minute of them, which makes the code's      *)
(* fractions whole numbers.                                                *)
(***************************************************************************)
EXTENDS Integers, FiniteSets

CONSTANTS
  Keys, Callers,
  PerMinute,    \* --max_messages_per_minute, 0 is unlimited
  MaxBuckets,   \* MAX_BUCKETS
  Minute,       \* ticks in a minute
  Idle,         \* RATE_LIMIT_IDLE in ticks
  MaxWait,      \* bound: ticks a caller may wait for the mutex
  MaxClock,     \* bound: the end of time
  NoKey

ASSUME LimiterAssumption ==
  /\ PerMinute \in Nat /\ MaxBuckets \in Nat \ {0} /\ Minute \in Nat \ {0}
  /\ Idle \in Nat /\ MaxWait \in Nat /\ MaxClock \in Nat
  /\ Minute + MaxWait <= Idle
  /\ NoKey \notin Keys

VARIABLES
  clock,
  buckets,  \* HashMap<String, Bucket>, a function on the keys it holds
  call,     \* what each caller is waiting with: its key and its instant
  sweep,    \* the instant the pruner is waiting with
  watch     \* a user somebody counts the messages of, and since when

vars == <<clock, buckets, call, sweep, watch>>

NoCall == [key |-> NoKey, now |-> 0]
NoWatch == [key |-> NoKey, from |-> 0, spent |-> 0]
NoSweep == -1

Full == PerMinute * Minute

Init ==
  /\ clock = 0 /\ buckets = <<>>
  /\ call = [c \in Callers |-> NoCall]
  /\ sweep = NoSweep /\ watch = NoWatch

-----------------------------------------------------------------------------
\* saturating_duration_since
elapsed(last, now) == IF now > last THEN now - last ELSE 0

\* Mutant: a stale instant moves the bucket back.
later_mutant(last, now) == now

\* bucket.last.max(now)
later(last, now) == IF now > last THEN now ELSE last

\* Mutant: a bucket fills for as long as nobody uses it.
capped_mutant(units) == units

\* .min(capacity)
capped(units) == IF units > Full THEN Full ELSE units

\* The bucket the call finds, or makes.
entry(k, now) == IF k \in DOMAIN buckets THEN buckets[k] ELSE [tokens |-> Full, last |-> now]

\* What is in it by then.
refilled(k, now) ==
  LET b == entry(k, now) IN capped(b.tokens + elapsed(b.last, now) * PerMinute)

allowed(k, now) == refilled(k, now) >= Minute

\* Mutant: a full map takes one more key.
MapFull_mutant(k) == Cardinality(DOMAIN buckets) > MaxBuckets /\ k \notin DOMAIN buckets

MapFull(k) == Cardinality(DOMAIN buckets) >= MaxBuckets /\ k \notin DOMAIN buckets

\* min_by_key, which takes any of several that are equally idle.
idlest == {j \in DOMAIN buckets : \A i \in DOMAIN buckets : buckets[j].last <= buckets[i].last}

\* evict_idlest: the keys that may be left when k is looked up.
evict_idlest(k) == IF MapFull(k) THEN {DOMAIN buckets \ {j} : j \in idlest} ELSE {DOMAIN buckets}

-----------------------------------------------------------------------------
Tick ==
  /\ clock < MaxClock
  /\ \A c \in Callers : call[c] # NoCall => clock < call[c].now + MaxWait
  /\ clock' = clock + 1
  /\ UNCHANGED <<buckets, call, sweep, watch>>

\* ProxyHandler::mail calls allow, which reads the clock.
Mail(c) ==
  /\ call[c] = NoCall
  /\ \E k \in Keys : call' = [call EXCEPT ![c] = [key |-> k, now |-> clock]]
  /\ UNCHANGED <<clock, buckets, sweep, watch>>

\* Whoever is watched and evicted is watched no longer.
Watched(k, now, kept) ==
  IF watch.key = k
  THEN [watch EXCEPT !.spent = IF allowed(k, now) THEN @ + 1 ELSE @]
  ELSE IF watch.key \in DOMAIN buckets \ kept THEN NoWatch ELSE watch

\* allow_at, with the mutex held.
AllowAt(c) ==
  /\ call[c] # NoCall
  /\ LET k   == call[c].key
         now == call[c].now
     IN  IF PerMinute = 0 THEN UNCHANGED <<buckets, watch>>
         ELSE \E kept \in evict_idlest(k) :
                LET left == IF allowed(k, now) THEN refilled(k, now) - Minute
                                               ELSE refilled(k, now)
                    b    == [tokens |-> left, last |-> later(entry(k, now).last, now)]
                IN  /\ buckets' = [j \in kept \cup {k} |-> IF j = k THEN b ELSE buckets[j]]
                    /\ watch' = Watched(k, now, kept)
  /\ call' = [call EXCEPT ![c] = NoCall]
  /\ UNCHANGED <<clock, sweep>>

\* The pruner's tick: prune reads the clock.
SweepBegins ==
  /\ sweep = NoSweep
  /\ sweep' = clock
  /\ UNCHANGED <<clock, buckets, call, watch>>

\* prune, with the mutex held.
prune ==
  /\ sweep # NoSweep
  /\ buckets' = [k \in {j \in DOMAIN buckets : elapsed(buckets[j].last, sweep) < Idle} |-> buckets[k]]
  /\ sweep' = NoSweep
  /\ UNCHANGED <<clock, call, watch>>

\* Somebody starts to count a user's messages, at a moment when none is being
\* decided.
Watch(k) ==
  /\ watch.key = NoKey
  /\ \A c \in Callers : call[c].key # k
  /\ watch' = [key |-> k, from |-> clock, spent |-> 0]
  /\ UNCHANGED <<clock, buckets, call, sweep>>

Next ==
  \/ Tick
  \/ \E c \in Callers : Mail(c) \/ AllowAt(c)
  \/ SweepBegins \/ prune
  \/ \E k \in Keys : Watch(k)

Spec == Init /\ [][Next]_vars

-----------------------------------------------------------------------------
(* Properties *)

Buckets == [tokens : 0..Full, last : Nat]

\* The type of every variable; no bucket holds more than its capacity, and no
\* instant lies ahead of the clock.
TypeOK ==
  /\ clock \in Nat
  /\ DOMAIN buckets \subseteq Keys /\ buckets \in [DOMAIN buckets -> Buckets]
  /\ \A k \in DOMAIN buckets : buckets[k].last <= clock
  /\ call \in [Callers -> [key : Keys \cup {NoKey}, now : Nat]]
  /\ \A c \in Callers : call[c].now <= clock
  /\ sweep \in {NoSweep} \cup 0..clock
  /\ watch \in [key : Keys \cup {NoKey}, from : 0..clock, spent : Nat]

\* In any stretch of time in which its bucket is not evicted, a user starts no
\* more messages than a full bucket and what the time is worth: calls that
\* overtake each other on the way to the mutex mint nothing, and neither does
\* a bucket that is pruned and comes back full.
SteadyRate ==
  PerMinute # 0 => watch.spent * Minute <= Full + (clock - watch.from) * PerMinute

\* Invented usernames cannot grow the map beyond MAX_BUCKETS.
MapBounded == Cardinality(DOMAIN buckets) <= MaxBuckets

\* "An evicted user gets a fresh bucket, which is exactly what prune would have
\* given them anyway" (ratelimit.rs, evict_idlest): what is evicted has refilled.
EvictionGivesNothing ==
  [][\A k \in DOMAIN buckets :
       (\E c \in Callers : AllowAt(c)) /\ k \notin DOMAIN buckets'
         => buckets[k].tokens + (clock - buckets[k].last) * PerMinute >= Full]_vars
=============================================================================
