-------------------------- MODULE RateLimiterProofs --------------------------
(* Theorems about RateLimiter, for all users, callers, limits and times. *)
EXTENDS RateLimiter, FiniteSetTheorems, TLAPS

-----------------------------------------------------------------------------
(* Arithmetic and helpers *)

\* What a span of time is worth, with the product kept out of sight.
worth(t) == t * PerMinute

\* The worth of a span of time is additive and grows with the span.
LEMMA WorthFacts ==
  /\ \A s, t \in Int : worth(s) \in Int /\ worth(s + t) = worth(s) + worth(t)
  /\ \A s, t \in Int : worth(s - t) = worth(s) - worth(t)
  /\ \A s, t \in Int : s <= t => worth(s) <= worth(t)
  /\ worth(0) = 0 /\ worth(Minute) = Full
<1>1. PerMinute \in Nat /\ Minute \in Nat
  BY LimiterAssumption DEF LimiterAssumption
<1>2. \A s, t \in Int : s * PerMinute \in Int /\ (s + t) * PerMinute = s * PerMinute + t * PerMinute
  BY <1>1
<1>3. \A s, t \in Int : (s - t) * PerMinute = s * PerMinute - t * PerMinute
  BY <1>1
<1>4. \A s, t \in Int : s <= t => s * PerMinute <= t * PerMinute
  BY <1>1
<1>5. 0 * PerMinute = 0 /\ Minute * PerMinute = PerMinute * Minute
  BY <1>1
<1>6. QED
  BY <1>2, <1>3, <1>4, <1>5 DEF worth, Full

\* A bucket with a limit holds at least one token when it is full.
LEMMA FullFacts == Full \in Nat /\ (PerMinute # 0 => Full >= Minute)
<1>1. PerMinute \in Nat /\ Minute \in Nat
  BY LimiterAssumption DEF LimiterAssumption
<1>2. PerMinute * Minute \in Nat
  BY <1>1
<1>3. PerMinute >= 1 => PerMinute * Minute >= 1 * Minute
  BY <1>1
<1>4. QED
  BY <1>1, <1>2, <1>3 DEF Full

\* The bucket a call finds, and the instant it is left at.
LEMMA EntryFacts ==
  ASSUME TypeOK, NEW k \in Keys, NEW now \in Nat, now <= clock
  PROVE  LET b == entry(k, now)
             n == later(b.last, now)
         IN  /\ b \in Buckets /\ b.tokens \in 0..Full /\ b.last \in Nat
             /\ n \in Nat /\ b.last <= n /\ now <= n /\ n <= clock
             /\ refilled(k, now) \in 0..Full
             /\ refilled(k, now) <= b.tokens + worth(n - b.last)
<1> DEFINE b == entry(k, now)
           n == later(b.last, now)
<1>1. b \in Buckets /\ b.last <= clock
  <2>1. CASE k \in DOMAIN buckets
    BY <2>1 DEF entry, TypeOK
  <2>2. CASE k \notin DOMAIN buckets
    BY <2>2, FullFacts DEF entry, Buckets
  <2>3. QED
    BY <2>1, <2>2
<1>2. b.tokens \in 0..Full /\ b.last \in Nat
  BY <1>1 DEF Buckets
<1>3. /\ n \in Nat /\ b.last <= n /\ now <= n /\ n <= clock
      /\ elapsed(b.last, now) = n - b.last
  BY <1>1, <1>2 DEF later, elapsed, TypeOK
<1>4. elapsed(b.last, now) * PerMinute = worth(n - b.last)
  BY <1>3 DEF worth
<1>5. worth(n - b.last) \in Int /\ worth(n - b.last) >= 0
  <2>1. n - b.last \in Int /\ 0 <= n - b.last
    BY <1>2, <1>3
  <2>2. QED
    BY <2>1, WorthFacts
<1>6. refilled(k, now) = capped(b.tokens + worth(n - b.last))
  BY <1>4 DEF refilled
<1>7. refilled(k, now) \in 0..Full /\ refilled(k, now) <= b.tokens + worth(n - b.last)
  BY <1>2, <1>5, <1>6, FullFacts DEF capped
<1>8. QED
  BY <1>1, <1>2, <1>3, <1>7

\* A waiting caller has a key and an instant of the past.
LEMMA CallFacts ==
  ASSUME TypeOK, NEW c \in Callers
  PROVE  /\ call[c].key \in Keys \cup {NoKey} /\ call[c].now \in Nat /\ call[c].now <= clock
         /\ call[c] = [key |-> call[c].key, now |-> call[c].now]
BY DEF TypeOK

\* The bucket and the keys a call leaves behind.
left(k, now) ==
  IF allowed(k, now) THEN refilled(k, now) - Minute ELSE refilled(k, now)

after(k, now) == [tokens |-> left(k, now), last |-> later(entry(k, now).last, now)]

\* A decision takes a token or nothing out of the refilled bucket.
LEMMA LeftFacts ==
  ASSUME TypeOK, NEW k \in Keys, NEW now \in Nat, now <= clock
  PROVE  /\ left(k, now) \in 0..Full
         /\ after(k, now) \in Buckets /\ after(k, now).last <= clock
         /\ left(k, now) + (IF allowed(k, now) THEN Minute ELSE 0) = refilled(k, now)
<1>1. refilled(k, now) \in 0..Full /\ Minute \in Nat
  BY EntryFacts, LimiterAssumption DEF LimiterAssumption
<1>2. left(k, now) \in 0..Full /\ left(k, now) + (IF allowed(k, now) THEN Minute ELSE 0) = refilled(k, now)
  BY <1>1, FullFacts DEF left, allowed
<1>3. later(entry(k, now).last, now) \in Nat /\ later(entry(k, now).last, now) <= clock
  BY EntryFacts
<1>4. QED
  BY <1>2, <1>3 DEF after, Buckets

\* What allow_at does to the map when there is a limit.
LEMMA AllowFacts ==
  ASSUME NEW c \in Callers, AllowAt(c), PerMinute # 0
  PROVE  \E kept \in evict_idlest(call[c].key) :
           /\ buckets' = [j \in kept \cup {call[c].key} |->
                            IF j = call[c].key THEN after(call[c].key, call[c].now) ELSE buckets[j]]
           /\ watch' = Watched(call[c].key, call[c].now, kept)
BY DEF AllowAt, after, left

\* An eviction only ever removes keys.
LEMMA KeptFacts == \A k : \A kept \in evict_idlest(k) : kept \subseteq DOMAIN buckets
BY DEF evict_idlest

-----------------------------------------------------------------------------
(* Type correctness and the keys of the callers *)

\* A caller that has a call has a key.
CallsKeyed == \A c \in Callers : call[c] # NoCall => call[c].key \in Keys

TypeInv == TypeOK /\ CallsKeyed

\* A decision keeps the types.
LEMMA AllowType == ASSUME TypeInv, NEW c \in Callers, AllowAt(c) PROVE TypeInv'
<1> DEFINE k   == call[c].key
           now == call[c].now
<1>1. k \in Keys /\ now \in Nat /\ now <= clock
  BY CallFacts DEF TypeInv, CallsKeyed, AllowAt
<1>2. /\ DOMAIN buckets' \subseteq Keys /\ buckets' \in [DOMAIN buckets' -> Buckets]
      /\ \A j \in DOMAIN buckets' : buckets'[j].last <= clock
      /\ watch' \in [key : Keys \cup {NoKey}, from : 0..clock, spent : Nat]
  <2>1. CASE PerMinute = 0
    BY <2>1 DEF AllowAt, TypeInv, TypeOK
  <2>2. CASE PerMinute # 0
    <3>1. PICK kept \in evict_idlest(k) :
            /\ buckets' = [j \in kept \cup {k} |-> IF j = k THEN after(k, now) ELSE buckets[j]]
            /\ watch' = Watched(k, now, kept)
      BY <2>2, AllowFacts
    <3>2. kept \subseteq DOMAIN buckets
      BY <3>1, KeptFacts
    <3>3. after(k, now) \in Buckets /\ after(k, now).last <= clock
      BY <1>1, LeftFacts DEF TypeInv
    <3>4. /\ DOMAIN buckets' = kept \cup {k}
          /\ \A j \in DOMAIN buckets' : buckets'[j] \in Buckets /\ buckets'[j].last <= clock
      BY <3>1, <3>2, <3>3 DEF TypeInv, TypeOK
    <3>5. buckets' = [j \in DOMAIN buckets' |-> buckets'[j]]
      BY <3>1
    <3>6. watch' \in [key : Keys \cup {NoKey}, from : 0..clock, spent : Nat]
      <4>1. watch \in [key : Keys \cup {NoKey}, from : 0..clock, spent : Nat] /\ clock \in Nat
        BY DEF TypeInv, TypeOK
      <4>2. watch' \in {watch, [watch EXCEPT !.spent = watch.spent + 1], NoWatch,
                        [watch EXCEPT !.spent = watch.spent]}
        BY <3>1 DEF Watched
      <4>3. QED
        BY <4>1, <4>2 DEF NoWatch
    <3>7. DOMAIN buckets' \subseteq Keys
      BY <1>1, <3>2, <3>4 DEF TypeInv, TypeOK
    <3>8. QED
      BY <3>4, <3>5, <3>6, <3>7
  <2>3. QED
    BY <2>1, <2>2
<1>3. /\ call' = [call EXCEPT ![c] = NoCall] /\ UNCHANGED <<clock, sweep>>
  BY DEF AllowAt
<1>4. call' \in [Callers -> [key : Keys \cup {NoKey}, now : Nat]]
      /\ \A d \in Callers : call'[d].now <= clock /\ (call'[d] # NoCall => call'[d].key \in Keys)
  BY <1>3 DEF TypeInv, TypeOK, CallsKeyed, NoCall
<1>5. QED
  BY <1>2, <1>3, <1>4 DEF TypeInv, TypeOK, CallsKeyed

\* So does every other step.
LEMMA OtherType ==
  ASSUME TypeInv, \/ Tick \/ SweepBegins \/ prune
                  \/ \E c \in Callers : Mail(c)
                  \/ \E k \in Keys : Watch(k)
  PROVE  TypeInv'
<1>1. CASE Tick
  BY <1>1 DEF Tick, TypeInv, TypeOK, CallsKeyed, NoSweep, Buckets
<1>2. CASE SweepBegins
  BY <1>2 DEF SweepBegins, TypeInv, TypeOK, CallsKeyed, NoSweep
<1>3. CASE prune
  BY <1>3 DEF prune, TypeInv, TypeOK, CallsKeyed, NoSweep
<1>4. CASE \E c \in Callers : Mail(c)
  BY <1>4 DEF Mail, TypeInv, TypeOK, CallsKeyed
<1>5. CASE \E k \in Keys : Watch(k)
  BY <1>5 DEF Watch, TypeInv, TypeOK, CallsKeyed
<1>6. QED
  BY <1>1, <1>2, <1>3, <1>4, <1>5

\* No bucket ever holds more than its capacity, and no bucket, call or sweep
\* is dated later than the clock.
THEOREM TypeCorrect == Spec => [](TypeOK /\ CallsKeyed)
<1>1. Init => TypeInv
  BY DEF Init, TypeInv, TypeOK, CallsKeyed, NoCall, NoWatch, NoSweep
<1>2. TypeInv /\ [Next]_vars => TypeInv'
  <2>1. TypeInv /\ UNCHANGED vars => TypeInv'
    BY DEF vars, TypeInv, TypeOK, CallsKeyed
  <2>2. QED
    BY <2>1, AllowType, OtherType DEF Next
<1>3. QED
  BY <1>1, <1>2, PTL DEF Spec, TypeInv

-----------------------------------------------------------------------------
(* The bound on the map *)

\* The map is finite and within its bound.
MapInv == IsFiniteSet(DOMAIN buckets) /\ Cardinality(DOMAIN buckets) <= MaxBuckets

\* When the map is full, looking a new key up evicts one first.
LEMMA EvictFacts ==
  ASSUME TypeInv, MapInv, NEW k \in Keys, NEW kept \in evict_idlest(k)
  PROVE  IsFiniteSet(kept \cup {k}) /\ Cardinality(kept \cup {k}) <= MaxBuckets
<1> DEFINE D == DOMAIN buckets
<1>1. /\ IsFiniteSet(D) /\ Cardinality(D) \in Nat /\ Cardinality(D) <= MaxBuckets
      /\ MaxBuckets \in Nat
  BY FS_CardinalityType, LimiterAssumption DEF MapInv, LimiterAssumption
<1>2. CASE k \in D /\ kept = D
  <2>1. kept \cup {k} = D
    BY <1>2
  <2>2. QED
    BY <1>1, <2>1
<1>3. CASE k \notin D /\ ~MapFull(k) /\ kept = D
  <2>1. Cardinality(D) < MaxBuckets
    BY <1>1, <1>3 DEF MapFull
  <2>2. IsFiniteSet(D \cup {k}) /\ Cardinality(D \cup {k}) = Cardinality(D) + 1
    BY <1>1, <1>3, FS_AddElement
  <2>3. QED
    BY <1>1, <1>3, <2>1, <2>2
<1>4. CASE MapFull(k)
  <2>1. PICK j \in D : kept = D \ {j}
    BY <1>4 DEF evict_idlest, idlest
  <2>2. IsFiniteSet(kept) /\ Cardinality(kept) = Cardinality(D) - 1
    BY <1>1, <2>1, FS_RemoveElement
  <2>3. k \notin kept
    BY <1>4, <2>1 DEF MapFull
  <2>4. IsFiniteSet(kept \cup {k}) /\ Cardinality(kept \cup {k}) = Cardinality(kept) + 1
    BY <2>2, <2>3, FS_AddElement
  <2>5. QED
    BY <1>1, <2>2, <2>4
<1>5. QED
  BY <1>2, <1>3, <1>4 DEF evict_idlest, MapFull

\* Invented usernames cannot grow the map beyond MAX_BUCKETS: every call leaves
\* room for the key it adds.
THEOREM MapBoundedHolds == Spec => []MapBounded
<1>1. Init => MapInv
  <2>1. ASSUME Init PROVE DOMAIN buckets = {}
    BY <2>1 DEF Init
  <2>2. QED
    BY <2>1, FS_EmptySet, LimiterAssumption DEF MapInv, LimiterAssumption
<1>2. TypeInv /\ MapInv /\ [Next]_vars => MapInv'
  <2> SUFFICES ASSUME TypeInv, MapInv, [Next]_vars PROVE MapInv'
    OBVIOUS
  <2>1. CASE \E c \in Callers : AllowAt(c)
    <3>1. PICK c \in Callers : AllowAt(c)
      BY <2>1
    <3>2. CASE PerMinute = 0
      BY <3>1, <3>2 DEF AllowAt, MapInv
    <3>3. CASE PerMinute # 0
      <4>1. PICK kept \in evict_idlest(call[c].key) : DOMAIN buckets' = kept \cup {call[c].key}
        BY <3>1, <3>3, AllowFacts
      <4>2. call[c].key \in Keys
        BY <3>1 DEF TypeInv, CallsKeyed, AllowAt
      <4>3. QED
        BY <4>1, <4>2, EvictFacts DEF MapInv
    <3>4. QED
      BY <3>2, <3>3
  <2>2. CASE prune
    <3>1. DOMAIN buckets' \subseteq DOMAIN buckets
      BY <2>2 DEF prune
    <3>2. /\ IsFiniteSet(DOMAIN buckets') /\ Cardinality(DOMAIN buckets') <= Cardinality(DOMAIN buckets)
          /\ Cardinality(DOMAIN buckets') \in Nat /\ Cardinality(DOMAIN buckets) \in Nat
      BY <3>1, FS_Subset, FS_CardinalityType DEF MapInv
    <3>3. QED
      BY <3>2, LimiterAssumption DEF MapInv, LimiterAssumption
  <2>3. CASE UNCHANGED buckets
    BY <2>3 DEF MapInv
  <2>4. QED
    BY <2>1, <2>2, <2>3 DEF Next, vars, Tick, Mail, SweepBegins, Watch
<1>3. MapInv => MapBounded
  BY DEF MapInv, MapBounded
<1>4. QED
  BY <1>1, <1>2, <1>3, TypeCorrect, PTL DEF Spec, TypeInv

-----------------------------------------------------------------------------
(* The rate *)

\* What a number of messages costs, with the product kept out of sight.
cost(n) == n * Minute

\* One more message costs one more token.
LEMMA CostFacts ==
  \A n \in Nat : cost(n) \in Nat /\ cost(n + 1) = cost(n) + Minute /\ cost(0) = 0
<1>1. Minute \in Nat
  BY LimiterAssumption DEF LimiterAssumption
<1>2. \A n \in Nat : n * Minute \in Nat /\ (n + 1) * Minute = n * Minute + Minute /\ 0 * Minute = 0
  BY <1>1
<1>3. QED
  BY <1>2 DEF cost

\* While the watched user has a bucket, what is in it and what was spent do not
\* exceed a full bucket and the time up to the bucket's instant.
Within ==
  watch.key \in DOMAIN buckets =>
    LET b == buckets[watch.key]
    IN  IF watch.from <= b.last
        THEN b.tokens + cost(watch.spent) <= Full + worth(b.last - watch.from)
        ELSE watch.spent = 0

Earned(t) == cost(watch.spent) <= worth(t - watch.from)

\* Once the bucket is pruned the time alone pays for what was spent, also for a
\* call that read the clock before the sweep did.
Gone ==
  watch.key \in Keys \ DOMAIN buckets =>
    /\ Earned(clock)
    /\ \A c \in Callers : call[c].key = watch.key => Earned(call[c].now)

CallsSince == \A c \in Callers : watch.key \in Keys /\ call[c].key = watch.key => watch.from <= call[c].now

CallsFresh == \A c \in Callers : call[c].key \in Keys => clock <= call[c].now + MaxWait

Unwatched == watch.key = NoKey => watch.spent = 0

RateInv == Within /\ Gone /\ CallsSince /\ CallsFresh /\ Unwatched

\* What the types say of the watched user and of the buckets.
LEMMA WatchFacts ==
  ASSUME TypeOK
  PROVE  /\ watch.key \in Keys \cup {NoKey} /\ watch.from \in Nat /\ watch.from <= clock
         /\ watch.spent \in Nat /\ clock \in Nat /\ DOMAIN buckets \subseteq Keys
         /\ \A k \in DOMAIN buckets : buckets[k].tokens \in 0..Full /\ buckets[k].last \in Nat /\ buckets[k].last <= clock
BY DEF TypeOK, Buckets

\* A message decided for the watched user.
LEMMA OwnCall ==
  ASSUME TypeInv, RateInv, NEW k \in Keys, NEW now \in Nat, now <= clock,
         watch.key = k, watch.from <= now, k \notin DOMAIN buckets => Earned(now)
  PROVE  LET n == after(k, now).last
             s == IF allowed(k, now) THEN watch.spent + 1 ELSE watch.spent
         IN  watch.from <= n /\ left(k, now) + cost(s) <= Full + worth(n - watch.from)
<1> DEFINE b == entry(k, now)
           n == later(b.last, now)
           s == IF allowed(k, now) THEN watch.spent + 1 ELSE watch.spent
<1>1. /\ b.tokens \in 0..Full /\ b.last \in Nat /\ n \in Nat /\ b.last <= n /\ now <= n
      /\ refilled(k, now) \in 0..Full /\ refilled(k, now) <= b.tokens + worth(n - b.last)
  BY EntryFacts DEF TypeInv
<1>2. /\ watch.from \in Nat /\ watch.spent \in Nat /\ Full \in Nat /\ Minute \in Nat
      /\ cost(watch.spent) \in Nat /\ cost(watch.spent + 1) = cost(watch.spent) + Minute
  BY WatchFacts, FullFacts, CostFacts, LimiterAssumption DEF TypeInv, LimiterAssumption
<1>3. left(k, now) \in Nat /\ left(k, now) + cost(s) = refilled(k, now) + cost(watch.spent)
  BY <1>1, <1>2, LeftFacts DEF TypeInv
<1>4. /\ worth(n) \in Int /\ worth(b.last) \in Int /\ worth(watch.from) \in Int /\ worth(now) \in Int
      /\ worth(n - b.last) = worth(n) - worth(b.last)
      /\ worth(n - watch.from) = worth(n) - worth(watch.from)
      /\ worth(b.last - watch.from) = worth(b.last) - worth(watch.from)
      /\ worth(now - watch.from) = worth(now) - worth(watch.from)
      /\ worth(watch.from) <= worth(n) /\ worth(now) <= worth(n)
  <2>1. n \in Int /\ b.last \in Int /\ watch.from \in Int /\ now \in Int /\ watch.from <= n
    BY <1>1, <1>2
  <2>2. QED
    BY <1>1, <2>1, WorthFacts
<1>5. CASE k \in DOMAIN buckets /\ watch.from <= b.last
  <2>1. b.tokens + cost(watch.spent) <= Full + worth(b.last - watch.from)
    BY <1>5 DEF RateInv, Within, entry
  <2>2. QED
    BY <1>1, <1>2, <1>3, <1>4, <2>1 DEF after
<1>6. CASE k \in DOMAIN buckets /\ ~(watch.from <= b.last)
  <2>1. watch.spent = 0
    BY <1>6 DEF RateInv, Within, entry
  <2>2. cost(watch.spent) = 0
    BY <1>2, <2>1, CostFacts
  <2>3. QED
    BY <1>1, <1>2, <1>3, <1>4, <2>2 DEF after
<1>7. CASE k \notin DOMAIN buckets
  <2>1. cost(watch.spent) <= worth(now) - worth(watch.from)
    BY <1>4, <1>7 DEF Earned
  <2>2. QED
    BY <1>1, <1>2, <1>3, <1>4, <2>1 DEF after
<1>8. QED
  BY <1>5, <1>6, <1>7

\* A decision keeps the rate invariant, whoever it is for.
LEMMA AllowRate ==
  ASSUME TypeInv, RateInv, NEW c \in Callers, AllowAt(c)
  PROVE  RateInv'
<1> DEFINE k   == call[c].key
           now == call[c].now
<1>1. k \in Keys /\ now \in Nat /\ now <= clock
  BY CallFacts DEF TypeInv, CallsKeyed, AllowAt
<1>2. /\ \A d \in Callers : call'[d] = IF d = c THEN NoCall ELSE call[d]
      /\ NoCall.key \notin Keys
      /\ clock' = clock /\ sweep' = sweep
  BY LimiterAssumption DEF AllowAt, TypeInv, TypeOK, NoCall, LimiterAssumption
<1>3. CallsFresh'
  BY <1>2 DEF RateInv, CallsFresh
<1>4. CASE PerMinute = 0
  <2>1. UNCHANGED <<buckets, watch>>
    BY <1>4 DEF AllowAt
  <2>2. QED
    BY <1>2, <1>3, <2>1 DEF RateInv, Within, Gone, CallsSince, Unwatched, Earned
<1>5. CASE PerMinute # 0
  <2>1. PICK kept \in evict_idlest(k) :
          /\ buckets' = [j \in kept \cup {k} |-> IF j = k THEN after(k, now) ELSE buckets[j]]
          /\ watch' = Watched(k, now, kept)
    BY <1>5, AllowFacts
  <2>2. kept \subseteq DOMAIN buckets
    BY <2>1, KeptFacts
  <2>3. CASE watch.key = k
    <3>1. watch' = [watch EXCEPT !.spent = IF allowed(k, now) THEN watch.spent + 1 ELSE watch.spent]
      BY <2>1, <2>3 DEF Watched
    <3>2. /\ watch'.key = k /\ watch'.from = watch.from
          /\ watch'.spent = IF allowed(k, now) THEN watch.spent + 1 ELSE watch.spent
      BY <2>3, <3>1 DEF TypeInv, TypeOK
    <3>3. buckets'[k] = after(k, now) /\ k \in DOMAIN buckets' /\ after(k, now).tokens = left(k, now)
      BY <2>1 DEF after
    <3>4. watch.from <= now /\ (k \notin DOMAIN buckets => Earned(now))
      BY <1>1, <2>3 DEF RateInv, CallsSince, Gone
    <3>5. LET n == after(k, now).last
          IN  watch.from <= n /\ left(k, now) + cost(watch'.spent) <= Full + worth(n - watch.from)
      BY <1>1, <2>3, <3>2, <3>4, OwnCall
    <3>6. Within'
      BY <3>2, <3>3, <3>5 DEF Within
    <3>7. Gone' /\ CallsSince' /\ Unwatched'
      BY <1>1, <1>2, <2>3, <3>2, <3>3, LimiterAssumption
         DEF RateInv, Gone, CallsSince, Unwatched, LimiterAssumption
    <3>8. QED
      BY <1>3, <3>6, <3>7 DEF RateInv
  <2>4. CASE watch.key # k /\ watch.key \in DOMAIN buckets \ kept
    <3>1. watch' = NoWatch
      BY <2>1, <2>4 DEF Watched
    <3>2. watch'.key = NoKey /\ watch'.spent = 0
      BY <3>1 DEF NoWatch
    <3>3. NoKey \notin Keys /\ NoKey \notin DOMAIN buckets'
      BY <1>1, <2>1, <2>2, WatchFacts, LimiterAssumption DEF TypeInv, LimiterAssumption
    <3>4. QED
      BY <1>3, <3>2, <3>3 DEF RateInv, Within, Gone, CallsSince, Unwatched
  <2>5. CASE watch.key # k /\ watch.key \notin DOMAIN buckets \ kept
    <3>1. watch' = watch
      BY <2>1, <2>5 DEF Watched
    <3>2. /\ watch.key \in DOMAIN buckets <=> watch.key \in DOMAIN buckets'
          /\ watch.key \in DOMAIN buckets => buckets'[watch.key] = buckets[watch.key]
      BY <2>1, <2>2, <2>5
    <3>3. Within'
      BY <3>1, <3>2 DEF RateInv, Within
    <3>4. Gone' /\ CallsSince' /\ Unwatched'
      BY <1>2, <3>1, <3>2 DEF RateInv, Gone, CallsSince, Unwatched, Earned
    <3>5. QED
      BY <1>3, <3>3, <3>4 DEF RateInv
  <2>6. QED
    BY <2>3, <2>4, <2>5
<1>6. QED
  BY <1>4, <1>5

\* A pruned bucket has been idle for longer than a refill and a wait take, so the time pays.
LEMMA PruneRate == ASSUME TypeInv, RateInv, prune PROVE RateInv'
<1> DEFINE w == watch.key
<1>1. /\ UNCHANGED <<clock, call, watch>>
      /\ DOMAIN buckets' = {j \in DOMAIN buckets : elapsed(buckets[j].last, sweep) < Idle}
      /\ \A j \in DOMAIN buckets' : buckets'[j] = buckets[j]
      /\ sweep \in 0..clock
  BY DEF prune, TypeInv, TypeOK
<1>2. Within' /\ CallsSince' /\ CallsFresh' /\ Unwatched'
  BY <1>1 DEF RateInv, Within, CallsSince, CallsFresh, Unwatched
<1>3. ASSUME w \in DOMAIN buckets, w \notin DOMAIN buckets',
             NEW t \in Nat, watch.from <= t, clock <= t + MaxWait
      PROVE  Earned(t)
  <2> DEFINE b == buckets[w]
  <2>1. /\ b.tokens \in Nat /\ b.last \in Nat /\ watch.from \in Nat /\ watch.spent \in Nat
        /\ clock \in Nat /\ Full \in Nat /\ cost(watch.spent) \in Nat
    BY <1>3, WatchFacts, FullFacts, CostFacts DEF TypeInv
  <2>2. b.last + Minute <= t
    <3>1. elapsed(b.last, sweep) >= Idle
      BY <1>1, <1>3, <2>1, LimiterAssumption DEF elapsed, LimiterAssumption
    <3>2. /\ Minute \in Nat \ {0} /\ MaxWait \in Nat /\ Idle \in Nat /\ Minute + MaxWait <= Idle
      BY LimiterAssumption DEF LimiterAssumption
    <3>3. QED
      BY <1>1, <1>3, <2>1, <3>1, <3>2 DEF elapsed
  <2>3. /\ worth(t) \in Int /\ worth(b.last) \in Int /\ worth(watch.from) \in Int
        /\ worth(t - watch.from) = worth(t) - worth(watch.from)
        /\ worth(b.last - watch.from) = worth(b.last) - worth(watch.from)
        /\ worth(b.last) + Full <= worth(t) /\ worth(watch.from) <= worth(t)
    <3>1. /\ t \in Int /\ b.last \in Int /\ watch.from \in Int /\ Minute \in Int
          /\ b.last + Minute \in Int
      BY <2>1, LimiterAssumption DEF LimiterAssumption
    <3>2. QED
      BY <1>3, <2>2, <3>1, WorthFacts
  <2>4. CASE watch.from <= b.last
    <3>1. b.tokens + cost(watch.spent) <= Full + worth(b.last - watch.from)
      BY <1>3, <2>4 DEF RateInv, Within
    <3>2. QED
      BY <2>1, <2>3, <3>1 DEF Earned
  <2>5. CASE ~(watch.from <= b.last)
    <3>1. watch.spent = 0
      BY <1>3, <2>5 DEF RateInv, Within
    <3>2. cost(watch.spent) = 0
      BY <3>1, <2>1, CostFacts
    <3>3. QED
      BY <2>1, <2>3, <3>2 DEF Earned
  <2>6. QED
    BY <2>4, <2>5
<1>4. Gone'
  <2>1. ASSUME w \in Keys \ DOMAIN buckets'
        PROVE  Earned(clock) /\ \A c \in Callers : call[c].key = w => Earned(call[c].now)
    <3>1. CASE w \notin DOMAIN buckets
      BY <2>1, <3>1 DEF RateInv, Gone
    <3>2. CASE w \in DOMAIN buckets
      <4>1. Earned(clock)
        <5>1. clock \in Nat /\ watch.from <= clock /\ clock <= clock + MaxWait
          BY WatchFacts, LimiterAssumption DEF TypeInv, LimiterAssumption
        <5>2. QED
          BY <1>3, <2>1, <3>2, <5>1
      <4>2. ASSUME NEW c \in Callers, call[c].key = w PROVE Earned(call[c].now)
        <5>1. call[c].now \in Nat /\ watch.from <= call[c].now /\ clock <= call[c].now + MaxWait
          BY <2>1, <4>2, CallFacts DEF TypeInv, RateInv, CallsSince, CallsFresh
        <5>2. QED
          BY <1>3, <2>1, <3>2, <5>1
      <4>3. QED
        BY <4>1, <4>2
    <3>3. QED
      BY <3>1, <3>2
  <2>2. QED
    BY <1>1, <2>1 DEF Gone, Earned
<1>5. QED
  BY <1>2, <1>4 DEF RateInv

\* Time passing only adds to what is earned.
LEMMA TickRate == ASSUME TypeInv, RateInv, Tick PROVE RateInv'
<1>1. /\ clock' = clock + 1 /\ UNCHANGED <<buckets, call, sweep, watch>>
      /\ \A c \in Callers : call[c] # NoCall => clock < call[c].now + MaxWait
  BY DEF Tick
<1>2. Within' /\ CallsSince' /\ Unwatched'
  BY <1>1 DEF RateInv, Within, CallsSince, Unwatched
<1>3. CallsFresh'
  <2>1. \A c \in Callers : call[c].key \in Keys => call[c] # NoCall
    BY LimiterAssumption DEF NoCall, LimiterAssumption
  <2>2. clock \in Nat /\ MaxWait \in Nat /\ \A c \in Callers : call[c].now \in Nat
    BY CallFacts, WatchFacts, LimiterAssumption DEF TypeInv, LimiterAssumption
  <2>3. QED
    BY <1>1, <2>1, <2>2 DEF CallsFresh
<1>4. ASSUME NEW t \in Nat, clock <= t, Earned(clock) PROVE Earned(t)
  <2>1. /\ clock - watch.from \in Int /\ t - watch.from \in Int
        /\ clock - watch.from <= t - watch.from /\ cost(watch.spent) \in Nat
    BY <1>4, WatchFacts, CostFacts DEF TypeInv
  <2>2. /\ worth(clock - watch.from) \in Int /\ worth(t - watch.from) \in Int
        /\ worth(clock - watch.from) <= worth(t - watch.from)
    BY <2>1, WorthFacts
  <2>3. QED
    BY <1>4, <2>1, <2>2 DEF Earned
<1>5. Gone'
  <2>1. clock' \in Nat /\ clock <= clock'
    BY <1>1, WatchFacts DEF TypeInv
  <2>2. Earned(clock) => Earned(clock')
    BY <1>4, <2>1
  <2>3. QED
    BY <1>1, <2>2 DEF RateInv, Gone, Earned
<1>6. QED
  BY <1>2, <1>3, <1>5 DEF RateInv

\* A call that begins reads an instant that everything is paid up to.
LEMMA MailRate == ASSUME TypeInv, RateInv, NEW c \in Callers, Mail(c) PROVE RateInv'
<1>1. UNCHANGED <<clock, buckets, sweep, watch>>
  BY DEF Mail
<1>2. \A d \in Callers : call'[d] = call[d] \/ call'[d].now = clock
  BY DEF Mail, TypeInv, TypeOK
<1>3. clock \in Nat /\ watch.from <= clock /\ clock <= clock + MaxWait
  BY WatchFacts, LimiterAssumption DEF TypeInv, LimiterAssumption
<1>4. Within' /\ Unwatched' /\ CallsSince' /\ CallsFresh'
  BY <1>1, <1>2, <1>3 DEF RateInv, Within, Unwatched, CallsSince, CallsFresh
<1>5. Gone'
  BY <1>1, <1>2 DEF RateInv, Gone, Earned
<1>6. QED
  BY <1>4, <1>5 DEF RateInv

\* Nothing is spent when the counting starts.
LEMMA WatchRate == ASSUME TypeInv, RateInv, NEW k \in Keys, Watch(k) PROVE RateInv'
<1>1. /\ UNCHANGED <<clock, buckets, call, sweep>> /\ \A c \in Callers : call[c].key # k
      /\ watch'.key = k /\ watch'.from = clock /\ watch'.spent = 0
  BY DEF Watch
<1>2. CallsSince' /\ CallsFresh' /\ Unwatched'
  BY <1>1 DEF RateInv, CallsSince, CallsFresh, Unwatched
<1>3. clock \in Nat /\ cost(0) = 0 /\ worth(clock - clock) = 0 /\ Full \in Nat
  <2>1. clock \in Nat /\ cost(0) = 0 /\ worth(0) = 0 /\ Full \in Nat
    BY WatchFacts, CostFacts, WorthFacts, FullFacts DEF TypeInv
  <2>2. clock - clock = 0
    BY <2>1
  <2>3. QED
    BY <2>1, <2>2
<1>4. Gone'
  BY <1>1, <1>3 DEF Gone, Earned
<1>5. Within'
  <2>1. ASSUME k \in DOMAIN buckets, clock <= buckets[k].last
        PROVE  buckets[k].tokens <= Full + worth(buckets[k].last - clock)
    <3>1. buckets[k].last = clock /\ buckets[k].tokens \in 0..Full
      BY <2>1, <1>3, WatchFacts DEF TypeInv
    <3>2. QED
      BY <1>3, <3>1
  <2>2. k \in DOMAIN buckets => buckets[k].tokens \in Nat
    BY <1>3, WatchFacts DEF TypeInv
  <2>3. QED
    BY <1>1, <1>3, <2>1, <2>2 DEF Within
<1>6. QED
  BY <1>2, <1>4, <1>5 DEF RateInv

\* Calls may overtake each other between reading the clock and taking the
\* mutex, and the pruner may drop a bucket while a call is waiting with an older
\* instant: a user whose bucket is not evicted never starts more messages than a
\* full bucket and the time since are worth.
THEOREM SteadyRateHolds == Spec => []SteadyRate
<1>1. Init => RateInv
  <2>1. ASSUME Init PROVE RateInv
    <3>1. /\ watch.key = NoKey /\ watch.spent = 0 /\ DOMAIN buckets = {}
          /\ \A c \in Callers : call[c].key = NoKey
      BY <2>1 DEF Init, NoWatch, NoCall
    <3>2. QED
      BY <3>1, LimiterAssumption
         DEF RateInv, Within, Gone, CallsSince, CallsFresh, Unwatched, LimiterAssumption
  <2>2. QED
    BY <2>1
<1>2. TypeInv /\ RateInv /\ [Next]_vars => RateInv'
  <2>1. RateInv /\ UNCHANGED vars => RateInv'
    BY DEF vars, RateInv, Within, Gone, CallsSince, CallsFresh, Unwatched, Earned
  <2>2. TypeInv /\ RateInv /\ SweepBegins => RateInv'
    BY DEF SweepBegins, RateInv, Within, Gone, CallsSince, CallsFresh, Unwatched, Earned
  <2>3. QED
    BY <2>1, <2>2, AllowRate, PruneRate, TickRate, MailRate, WatchRate DEF Next
<1>3. TypeInv /\ RateInv => SteadyRate
  <2> SUFFICES ASSUME TypeInv, RateInv PROVE cost(watch.spent) <= Full + worth(clock - watch.from)
    BY DEF SteadyRate, cost, worth
  <2>1. /\ watch.from \in Nat /\ watch.spent \in Nat /\ clock \in Nat /\ watch.from <= clock
        /\ Full \in Nat /\ cost(watch.spent) \in Nat /\ watch.key \in Keys \cup {NoKey}
    BY WatchFacts, FullFacts, CostFacts DEF TypeInv
  <2>2. worth(clock - watch.from) \in Int /\ worth(clock - watch.from) >= 0
    <3>1. clock - watch.from \in Int /\ 0 \in Int /\ 0 <= clock - watch.from
      BY <2>1
    <3>2. QED
      BY <3>1, WorthFacts
  <2>3. CASE watch.spent = 0
    BY <2>1, <2>2, <2>3, CostFacts
  <2>4. CASE watch.key \in Keys \ DOMAIN buckets
    BY <2>1, <2>2, <2>4 DEF RateInv, Gone, Earned
  <2>5. CASE watch.key \in DOMAIN buckets /\ watch.from <= buckets[watch.key].last
    <3> DEFINE b == buckets[watch.key]
    <3>1. b.tokens + cost(watch.spent) <= Full + worth(b.last - watch.from)
      BY <2>5 DEF RateInv, Within
    <3>2. b.tokens \in Nat /\ b.last \in Nat /\ b.last <= clock
      BY <2>5, WatchFacts, <2>1 DEF TypeInv
    <3>3. worth(b.last - watch.from) \in Int /\ worth(b.last - watch.from) <= worth(clock - watch.from)
      <4>1. b.last - watch.from \in Int /\ clock - watch.from \in Int /\ b.last - watch.from <= clock - watch.from
        BY <2>1, <3>2
      <4>2. QED
        BY <4>1, WorthFacts
    <3>4. QED
      BY <2>1, <2>2, <3>1, <3>2, <3>3
  <2>6. QED
    BY <2>1, <2>3, <2>4, <2>5 DEF RateInv, Within, Unwatched
<1>4. QED
  BY <1>1, <1>2, <1>3, TypeCorrect, PTL DEF Spec, TypeInv
=============================================================================
