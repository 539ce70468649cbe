---------------------------- MODULE GuardsProofs ----------------------------
(***************************************************************************)
(* Theorems about who and what is refused: the abuse guards (Guards), the  *)
(* dashboard's logins (DashboardAuth), the IP banner (IPBanner), the       *)
(* configuration that decides it all (ControlPlane) and the rules a query  *)
(* is matched against (FilterLists); for any clients, prefixes, names,     *)
(* calls in flight, limits, windows and block durations.                   *)
(*                                                                         *)
(* AdmissionBounded is not inductive: Earned says that a bucket without a  *)
(* block never holds more than the ideal one held when lastSeen was. The   *)
(* invariants of the other parts are explained where the part begins.      *)
(***************************************************************************)
EXTENDS Guards, DashboardAuth, IPBanner, ControlPlane, FilterLists, FiniteSetTheorems, TLAPS

\* lastSeen is never in the future, although it may go back.
Seen == \A c \in Clients : buckets[c] # None => buckets[c].lastSeen <= clock

Earned ==
  \A c \in Clients : buckets[c] # None /\ buckets[c].blockedUntil = 0 =>
    buckets[c].tokens <= allowance[c] - (clock - buckets[c].lastSeen)

IInv == TypeOK /\ Seen /\ Earned /\ AdmissionBounded

-----------------------------------------------------------------------------
(* The maps *)

\* What storing an entry does to a map, eviction included: the key has the
\* entry, every other key what it had or nothing.
LEMMA StoreFacts ==
  ASSUME NEW m, m = [x \in DOMAIN m |-> m[x]], NEW seen, NEW now, NEW k \in DOMAIN m, NEW e,
         NEW result, Store(m, seen, now, k, e, result)
  PROVE  /\ result = [x \in DOMAIN m |-> result[x]]
         /\ result[k] = e
         /\ \A x \in DOMAIN m : x # k => result[x] = m[x] \/ result[x] = None
<1>1. CASE m[k] # None
  <2>1. result = [m EXCEPT ![k] = e]
    BY <1>1 DEF Store
  <2> QED BY <2>1
<1>2. CASE m[k] = None
  <2>1. PICK kept \in SUBSET Held(m) :
          result = [x \in DOMAIN m |-> IF x = k THEN e ELSE IF x \in kept THEN m[x] ELSE None]
    BY <1>2 DEF Store
  <2> QED BY <2>1
<1> QED BY <1>1, <1>2

\* Storing an entry keeps a map within its cap (evictLocked and its copies).
LEMMA StoreBounded ==
  ASSUME NEW m, m = [x \in DOMAIN m |-> m[x]], IsFiniteSet(DOMAIN m), NEW seen, NEW now,
         NEW k \in DOMAIN m, NEW e, NEW result, Store(m, seen, now, k, e, result),
         Cardinality(Held(m)) <= MaxPerShard
  PROVE  Cardinality(Held(result)) <= MaxPerShard
<1>1. IsFiniteSet(Held(m)) /\ Cardinality(Held(m)) \in Nat
  BY FS_Subset, FS_CardinalityType DEF Held
<1>2. CASE m[k] # None
  <2>1. result = [m EXCEPT ![k] = e]
    BY <1>2 DEF Store
  <2>2. Held(result) \subseteq Held(m)
    BY <2>1, <1>2 DEF Held
  <2> QED BY <2>2, <1>1, FS_Subset, FS_CardinalityType, LimitsAssumption
<1>3. CASE m[k] = None
  <2>1. PICK kept \in SUBSET Held(m) :
          /\ Evict(m, seen, now, kept)
          /\ result = [x \in DOMAIN m |-> IF x = k THEN e ELSE IF x \in kept THEN m[x] ELSE None]
    BY <1>3 DEF Store
  <2>2. Cardinality(kept) < MaxPerShard
    BY <2>1 DEF Evict, Room
  <2>3. IsFiniteSet(kept) /\ Cardinality(kept) \in Nat
    BY <1>1, FS_Subset, FS_CardinalityType
  <2>4. IsFiniteSet(kept \cup {k}) /\ Cardinality(kept \cup {k}) <= Cardinality(kept) + 1
    <3>1. IsFiniteSet(kept \cup {k})
             /\ Cardinality(kept \cup {k}) = IF k \in kept THEN Cardinality(kept) ELSE Cardinality(kept) + 1
      BY <2>3, FS_AddElement
    <3> QED BY <3>1, <2>3
  <2>5. Held(result) \subseteq kept \cup {k}
    BY <2>1 DEF Held
  <2>6. Cardinality(Held(result)) <= Cardinality(kept \cup {k})
          /\ Cardinality(Held(result)) \in Nat /\ Cardinality(kept \cup {k}) \in Nat
    BY <2>4, <2>5, FS_Subset, FS_CardinalityType
  <2> QED BY <2>2, <2>3, <2>4, <2>6, LimitsAssumption
<1> QED BY <1>2, <1>3

\* An entry goes into the buckets' shard, by way of an eviction when it is full.
LEMMA StoreBuckets ==
  ASSUME TypeOK, NEW now, NEW k \in Clients, NEW e \in Bucket, Store(buckets, LastSeen, now, k, e, buckets')
  PROVE  /\ buckets' \in [Clients -> Bucket \cup {None}]
         /\ buckets'[k] = e
         /\ \A x \in Clients : x # k => buckets'[x] = buckets[x] \/ buckets'[x] = None
         /\ Cardinality(Held(buckets)) <= MaxPerShard => Cardinality(Held(buckets')) <= MaxPerShard
<1>1. buckets = [x \in DOMAIN buckets |-> buckets[x]] /\ DOMAIN buckets = Clients
  BY DEF TypeOK
<1>2. /\ buckets' = [x \in Clients |-> buckets'[x]] /\ buckets'[k] = e
      /\ \A x \in Clients : x # k => buckets'[x] = buckets[x] \/ buckets'[x] = None
  BY <1>1, StoreFacts
<1>3. Cardinality(Held(buckets)) <= MaxPerShard => Cardinality(Held(buckets')) <= MaxPerShard
  BY <1>1, KeysAssumption, StoreBounded
<1>4. buckets' \in [Clients -> Bucket \cup {None}]
  BY <1>2 DEF TypeOK
<1> QED BY <1>2, <1>3, <1>4

\* The same for the prefixes' NXDOMAIN counts.
LEMMA StoreNX ==
  ASSUME TypeOK, NEW now, NEW k \in Prefixes, NEW e \in NXEntry, Store(nx, NXSeen, now, k, e, nx')
  PROVE  /\ nx' \in [Prefixes -> NXEntry \cup {None}]
         /\ nx'[k] = e
         /\ \A x \in Prefixes : x # k => nx'[x] = nx[x] \/ nx'[x] = None
         /\ Cardinality(Held(nx)) <= MaxPerShard => Cardinality(Held(nx')) <= MaxPerShard
<1>1. nx = [x \in DOMAIN nx |-> nx[x]] /\ DOMAIN nx = Prefixes
  BY DEF TypeOK
<1>2. /\ nx' = [x \in Prefixes |-> nx'[x]] /\ nx'[k] = e
      /\ \A x \in Prefixes : x # k => nx'[x] = nx[x] \/ nx'[x] = None
  BY <1>1, StoreFacts
<1>3. Cardinality(Held(nx)) <= MaxPerShard => Cardinality(Held(nx')) <= MaxPerShard
  BY <1>1, KeysAssumption, StoreBounded
<1>4. nx' \in [Prefixes -> NXEntry \cup {None}]
  BY <1>2 DEF TypeOK
<1> QED BY <1>2, <1>3, <1>4

\* The same for the clients' repeat queries.
LEMMA StoreRQ ==
  ASSUME TypeOK, NEW now, NEW k \in Clients, NEW e \in RQEntry, Store(rq, RQSeen, now, k, e, rq')
  PROVE  /\ rq' \in [Clients -> RQEntry \cup {None}]
         /\ rq'[k] = e
         /\ \A x \in Clients : x # k => rq'[x] = rq[x] \/ rq'[x] = None
         /\ Cardinality(Held(rq)) <= MaxPerShard => Cardinality(Held(rq')) <= MaxPerShard
<1>1. rq = [x \in DOMAIN rq |-> rq[x]] /\ DOMAIN rq = Clients
  BY DEF TypeOK
<1>2. /\ rq' = [x \in Clients |-> rq'[x]] /\ rq'[k] = e
      /\ \A x \in Clients : x # k => rq'[x] = rq[x] \/ rq'[x] = None
  BY <1>1, StoreFacts
<1>3. Cardinality(Held(rq)) <= MaxPerShard => Cardinality(Held(rq')) <= MaxPerShard
  BY <1>1, KeysAssumption, StoreBounded
<1>4. rq' \in [Clients -> RQEntry \cup {None}]
  BY <1>2 DEF TypeOK
<1> QED BY <1>2, <1>3, <1>4

-----------------------------------------------------------------------------
(* Type correctness *)

Steps == {"limit", "nx"} \cup PastNX

\* A query that is not idle is a query, and the times it may have read are
\* past or present.
LEMMA QueryFacts ==
  ASSUME TypeOK, NEW q \in Queries, query[q].pc \in Steps
  PROVE  /\ query[q] \in Query
         /\ query[q].client \in Clients
         /\ \A now \in Now(q) : now \in Nat \ {0} /\ now <= clock
<1>1. query[q] \in Query
  BY DEF TypeOK, Idle, Steps, PastNX
<1>2. \A now \in query[q].at..clock : now \in Nat \ {0} /\ now <= clock
  <2>1. query[q].at \in Nat \ {0} /\ clock \in Nat \ {0}
    BY <1>1 DEF TypeOK, Query
  <2> QED BY <2>1
<1> QED BY <1>1, <1>2 DEF Query, Now

\* Moving a query along keeps the goroutines typed.
LEMMA GotoType ==
  ASSUME TypeOK, NEW q \in Queries, query[q].pc \in Steps, NEW step \in Steps, Goto(q, step)
  PROVE  query' \in [Queries -> Query \cup {Idle}]
<1>1. query[q] \in Query
  BY QueryFacts
<1>2. [query[q] EXCEPT !.pc = step, !.at = clock] \in Query
  BY <1>1 DEF Query, TypeOK, Steps
<1> QED BY <1>2 DEF Goto, TypeOK

\* A query that leaves keeps the types.
LEMMA LeaveType ==
  ASSUME TypeOK, NEW q \in Queries, Leave(q)
  PROVE  query' \in [Queries -> Query \cup {Idle}]
BY DEF Leave, TypeOK

\* A bucket gains at most a token a tick.
LEMMA RefillFacts ==
  ASSUME NEW b \in Bucket, NEW now \in Nat
  PROVE  /\ Refill(b, now) \in Bucket
         /\ Refill(b, now).lastSeen = now
         /\ Refill(b, now).blockedUntil = 0
         /\ b.blockedUntil = 0 => Refill(b, now).tokens <= b.tokens + (now - b.lastSeen)
<1>0. Burst \in Tokens
  BY LimitsAssumption DEF Tokens
<1>1. Slate(b) \in Bucket /\ Slate(b).blockedUntil = 0 /\ (b.blockedUntil = 0 => Slate(b) = b)
  <2>1. CASE b.blockedUntil = 0
    BY <2>1 DEF Slate
  <2>2. CASE b.blockedUntil # 0
    BY <1>0, <2>2 DEF Slate, Bucket
  <2> QED BY <2>1, <2>2
<1> DEFINE t == Slate(b).tokens + (now - b.lastSeen)
<1>2. t \in Int /\ Least(Burst, t) \in Tokens /\ Least(Burst, t) \in Int /\ Least(Burst, t) <= t
  <2>1. Slate(b).tokens \in Int /\ b.lastSeen \in Nat
    BY <1>1 DEF Bucket, Tokens
  <2>2. t \in Int
    BY <2>1
  <2> QED BY <2>2, LimitsAssumption DEF Least, Tokens
<1> HIDE DEF t
<1>3. Refill(b, now) = [Slate(b) EXCEPT !.tokens = Least(Burst, t), !.lastSeen = now]
  BY DEF Refill, t
<1>4. Refill(b, now) \in Bucket /\ Refill(b, now).lastSeen = now /\ Refill(b, now).blockedUntil = 0
        /\ Refill(b, now).tokens = Least(Burst, t)
  BY <1>1, <1>2, <1>3 DEF Bucket
<1>5. b.blockedUntil = 0 => t = b.tokens + (now - b.lastSeen)
  BY <1>1 DEF t
<1> QED BY <1>2, <1>4, <1>5

\* A violation leaves the tokens and lastSeen alone.
LEMMA ViolationFacts ==
  ASSUME NEW b \in Bucket, NEW now \in Nat
  PROVE  /\ Violation(b, now) \in Bucket
         /\ Violation(b, now).lastSeen = b.lastSeen
         /\ Violation(b, now).tokens = b.tokens
<1> DEFINE anew == b.firstViol = 0 \/ now - b.firstViol > BlockFor
           n == IF anew THEN 1 ELSE b.violations + 1
           fv == IF anew THEN now ELSE b.firstViol
           until == now + BlockFor
<1>1. n \in Nat /\ fv \in Nat /\ until \in Nat
  BY BlocksAssumption DEF Bucket
<1> HIDE DEF n, fv, until
<1>2. Violation(b, now) = IF ~AutoBlock THEN b
        ELSE IF n >= BlockAfter
          THEN [b EXCEPT !.blockedUntil = until, !.violations = 0, !.firstViol = 0]
          ELSE [b EXCEPT !.violations = n, !.firstViol = fv]
  BY DEF Violation, n, fv, until
<1>3. CASE ~AutoBlock
  BY <1>2, <1>3
<1>4. CASE AutoBlock /\ n >= BlockAfter
  <2>1. Violation(b, now) = [b EXCEPT !.blockedUntil = until, !.violations = 0, !.firstViol = 0]
    BY <1>2, <1>4
  <2>2. 0 \in Nat
    OBVIOUS
  <2> HIDE <1>2
  <2>3. \A u \in Nat : [b EXCEPT !.blockedUntil = u, !.violations = 0, !.firstViol = 0] \in Bucket
    BY DEF Bucket
  <2> QED BY <1>1, <2>1, <2>3 DEF Bucket
<1>5. CASE AutoBlock /\ ~(n >= BlockAfter)
  <2>1. Violation(b, now) = [b EXCEPT !.violations = n, !.firstViol = fv]
    BY <1>2, <1>5
  <2> QED BY <1>1, <2>1 DEF Bucket
<1> QED BY <1>3, <1>4, <1>5

\* The limiter's ForceBlock: the client has a block, the others what they
\* had or nothing.
LEMMA ForceBlockFacts ==
  ASSUME TypeOK, NEW c \in Clients, NEW d \in Nat, NEW now \in Nat \ {0}, ForceBlock(c, d, now)
  PROVE  /\ buckets' \in [Clients -> Bucket \cup {None}]
         /\ buckets'[c] \in Bucket /\ buckets'[c].lastSeen = now /\ buckets'[c].blockedUntil # 0
         /\ \A x \in Clients : x # c => buckets'[x] = buckets[x] \/ buckets'[x] = None
         /\ Cardinality(Held(buckets)) <= MaxPerShard => Cardinality(Held(buckets')) <= MaxPerShard
<1> DEFINE b == IF buckets[c] # None THEN buckets[c]
                  ELSE [tokens |-> 0, lastSeen |-> now, violations |-> 0, firstViol |-> 0, blockedUntil |-> 0]
           until == now + d
           e == [b EXCEPT !.blockedUntil = until, !.violations = 0, !.firstViol = 0, !.lastSeen = now]
<1>0. until \in Nat /\ until # 0 /\ now \in Nat
  OBVIOUS
<1> HIDE DEF until
<1>1. b \in Bucket
  <2>1. 0 \in Tokens /\ 0 \in Nat
    BY LimitsAssumption DEF Tokens
  <2>2. CASE buckets[c] # None
    BY <2>2 DEF TypeOK
  <2>3. CASE buckets[c] = None
    <3>1. b = [tokens |-> 0, lastSeen |-> now, violations |-> 0, firstViol |-> 0, blockedUntil |-> 0]
      BY <2>3
    <3> QED BY <2>1, <3>1, <1>0 DEF Bucket
  <2> QED BY <2>2, <2>3
<1> HIDE DEF b
<1>2. e \in Bucket /\ e.lastSeen = now /\ e.blockedUntil # 0
  BY <1>0, <1>1 DEF Bucket
<1>3. Store(buckets, LastSeen, now, c, e, buckets')
  BY DEF ForceBlock, b, until
<1> HIDE DEF e
<1> QED BY <1>2, <1>3, StoreBuckets

\* ForceBlock keeps the accounts: the client is blocked afterwards.
LEMMA ForceKeeps ==
  ASSUME IInv, NEW c \in Clients, NEW d \in Nat, NEW now \in Nat \ {0}, now <= clock,
         ForceBlock(c, d, now), UNCHANGED <<clock, allowance>>
  PROVE  Seen' /\ Earned' /\ AdmissionBounded'
<1>1. /\ buckets' \in [Clients -> Bucket \cup {None}]
      /\ buckets'[c] \in Bucket /\ buckets'[c].lastSeen = now /\ buckets'[c].blockedUntil # 0
      /\ \A x \in Clients : x # c => buckets'[x] = buckets[x] \/ buckets'[x] = None
  BY ForceBlockFacts DEF IInv
<1>2. Seen'
  BY <1>1 DEF IInv, Seen
<1>3. Earned'
  BY <1>1 DEF IInv, Earned
<1> QED BY <1>2, <1>3 DEF IInv, AdmissionBounded

\* AllowNew preserves the invariant: a full bucket, and a full allowance.
LEMMA AllowNewKeeps ==
  ASSUME IInv, NEW q \in Queries, AllowNew(q)
  PROVE  IInv'
<1> DEFINE c == query[q].client
<1>1. TypeOK /\ query[q].pc \in Steps /\ c \in Clients
  <2>1. TypeOK /\ query[q].pc \in Steps
    BY DEF IInv, AllowNew, At, Steps
  <2> QED BY <2>1, QueryFacts
<1>2. PICK now \in Now(q) :
        /\ Store(buckets, LastSeen, now, c,
                 [tokens |-> Burst - 1, lastSeen |-> now, violations |-> 0, firstViol |-> 0,
                  blockedUntil |-> 0], buckets')
        /\ allowance' = [allowance EXCEPT ![c] = Full(now) - 1]
  BY DEF AllowNew
<1>3. now \in Nat \ {0} /\ now <= clock /\ clock \in Nat
  BY <1>1, QueryFacts DEF TypeOK
<1> DEFINE e == [tokens |-> Burst - 1, lastSeen |-> now, violations |-> 0, firstViol |-> 0,
                 blockedUntil |-> 0]
<1>4. e \in Bucket /\ e.lastSeen = now /\ e.tokens = Burst - 1
  <2>1. Burst - 1 \in Tokens /\ 0 \in Nat
    BY LimitsAssumption DEF Tokens
  <2> QED BY <2>1, <1>3 DEF Bucket
<1>5. Store(buckets, LastSeen, now, c, e, buckets')
  BY <1>2
<1> HIDE DEF e, c
<1>6. /\ buckets' \in [Clients -> Bucket \cup {None}]
      /\ buckets'[c] = e
      /\ \A x \in Clients : x # c => buckets'[x] = buckets[x] \/ buckets'[x] = None
  BY <1>1, <1>4, <1>5, StoreBuckets
<1>7. allowance' = [allowance EXCEPT ![c] = Full(now) - 1] /\ clock' = clock
  BY <1>2 DEF AllowNew
<1>8. /\ allowance' \in [Clients -> Int] /\ allowance'[c] = Burst + (clock - now) - 1
      /\ \A x \in Clients : x # c => allowance'[x] = allowance[x]
  <2>1. Full(now) - 1 \in Int /\ Full(now) - 1 = Burst + (clock - now) - 1
    BY <1>3, LimitsAssumption DEF Full
  <2> QED BY <1>1, <1>7, <2>1 DEF TypeOK
<1>9. TypeOK'
  <2>1. query' \in [Queries -> Query \cup {Idle}]
    BY <1>1, GotoType DEF AllowNew, Steps
  <2> QED BY <2>1, <1>1, <1>6, <1>7, <1>8 DEF TypeOK, AllowNew
<1>10. Seen'
  BY <1>3, <1>4, <1>6, <1>7 DEF IInv, Seen
<1>11. Earned'
  <2> SUFFICES ASSUME NEW x \in Clients, buckets'[x] # None, buckets'[x].blockedUntil = 0
               PROVE  buckets'[x].tokens <= allowance'[x] - (clock' - buckets'[x].lastSeen)
    BY DEF Earned
  <2>1. CASE x = c
    BY <2>1, <1>3, <1>4, <1>6, <1>7, <1>8, LimitsAssumption
  <2>2. CASE x # c
    BY <2>2, <1>6, <1>7, <1>8 DEF IInv, Earned
  <2> QED BY <2>1, <2>2
<1>12. AdmissionBounded'
  <2> SUFFICES ASSUME NEW x \in Clients PROVE allowance'[x] >= 0
    BY DEF AdmissionBounded
  <2>1. CASE x = c
    BY <2>1, <1>3, <1>8, LimitsAssumption
  <2>2. CASE x # c
    BY <2>2, <1>8 DEF IInv, AdmissionBounded
  <2> QED BY <2>1, <2>2
<1> QED BY <1>9, <1>10, <1>11, <1>12 DEF IInv

\* AllowBucket preserves it: what the bucket earns, the allowance has earned.
LEMMA AllowBucketKeeps ==
  ASSUME IInv, NEW q \in Queries, AllowBucket(q)
  PROVE  IInv'
<1> DEFINE c == query[q].client
           b == buckets[c]
<1>1. TypeOK /\ query[q].pc \in Steps /\ c \in Clients /\ b \in Bucket /\ b # None
  <2>1. TypeOK /\ query[q].pc \in Steps /\ b # None
    BY DEF IInv, AllowBucket, At, Steps
  <2>2. c \in Clients
    BY <2>1, QueryFacts
  <2> QED BY <2>1, <2>2 DEF TypeOK
<1>2. PICK now \in Now(q) :
        \/ /\ Refill(b, now).tokens < 1
           /\ buckets' = [buckets EXCEPT ![c] = Violation(Refill(b, now), now)]
           /\ Leave(q)
           /\ allowance' = [allowance EXCEPT ![c] = IF b.blockedUntil = 0 THEN allowance[c] ELSE Full(now)]
        \/ /\ Refill(b, now).tokens >= 1
           /\ buckets' = [buckets EXCEPT ![c] = [Refill(b, now) EXCEPT !.tokens = Refill(b, now).tokens - 1]]
           /\ allowance' = [allowance EXCEPT ![c] = (IF b.blockedUntil = 0 THEN allowance[c] ELSE Full(now)) - 1]
           /\ Goto(q, "nx")
  BY DEF AllowBucket
<1>3. now \in Nat /\ now <= clock /\ clock \in Nat /\ clock' = clock
        /\ UNCHANGED <<nx, rq>>
  BY <1>1, QueryFacts DEF TypeOK, AllowBucket
<1>4. PICK r \in Bucket : r = Refill(b, now)
  BY <1>1, <1>3, RefillFacts
<1>5. /\ r.lastSeen = now /\ r.blockedUntil = 0
      /\ b.blockedUntil = 0 => r.tokens <= b.tokens + (now - b.lastSeen)
  BY <1>1, <1>3, <1>4, RefillFacts
<1>6. r.tokens \in Int /\ r.tokens <= Burst /\ b.tokens \in Int /\ b.lastSeen \in Nat
        /\ Burst \in Nat \ {0}
  BY <1>1, LimitsAssumption DEF Bucket, Tokens
<1> DEFINE a == IF b.blockedUntil = 0 THEN allowance[c] ELSE Full(now)
<1>7. a \in Int /\ a >= 0 /\ r.tokens <= a - (clock - now)
  <2>1. CASE b.blockedUntil # 0
    BY <2>1, <1>3, <1>6 DEF Full
  <2>2. CASE b.blockedUntil = 0
    <3>1. b.tokens <= allowance[c] - (clock - b.lastSeen) /\ allowance[c] \in Int /\ allowance[c] >= 0
      BY <2>2, <1>1 DEF IInv, Earned, TypeOK, AdmissionBounded
    <3> QED BY <2>2, <3>1, <1>3, <1>5, <1>6
  <2> QED BY <2>1, <2>2
<1> HIDE DEF a
<1>8. PICK n \in {0, 1}, f \in Bucket :
        /\ buckets' = [buckets EXCEPT ![c] = f]
        /\ allowance' = [allowance EXCEPT ![c] = a - n]
        /\ f.tokens = r.tokens - n /\ f.lastSeen = now
        /\ n = 1 => r.tokens >= 1
  <2>1. CASE r.tokens < 1
    <3>1. buckets' = [buckets EXCEPT ![c] = Violation(r, now)] /\ allowance' = [allowance EXCEPT ![c] = a]
      BY <1>2, <1>4, <1>6, <2>1 DEF a
    <3>2. PICK f \in Bucket : f = Violation(r, now)
      BY <1>3, ViolationFacts
    <3>3. f.tokens = r.tokens /\ f.lastSeen = now
      BY <3>2, <1>3, <1>5, ViolationFacts
    <3>4. r.tokens = r.tokens - 0 /\ f.tokens = r.tokens - 0
      BY <1>6, <3>3
    <3>5. allowance' = [allowance EXCEPT ![c] = a - 0]
      <4>1. a - 0 = a
        BY <1>7
      <4> QED BY <3>1, <4>1
    <3>6. buckets' = [buckets EXCEPT ![c] = f]
      BY <3>1, <3>2
    <3>7. /\ buckets' = [buckets EXCEPT ![c] = f]
          /\ allowance' = [allowance EXCEPT ![c] = a - 0]
          /\ f.tokens = r.tokens - 0 /\ f.lastSeen = now
          /\ 0 = 1 => r.tokens >= 1
      BY <3>3, <3>4, <3>5, <3>6
    <3> QED BY <3>2, <3>7, Zenon
  <2>2. CASE r.tokens >= 1
    <3>1. buckets' = [buckets EXCEPT ![c] = [r EXCEPT !.tokens = r.tokens - 1]]
            /\ allowance' = [allowance EXCEPT ![c] = a - 1]
      BY <1>2, <1>4, <1>6, <2>2 DEF a
    <3>2. r.tokens - 1 \in Tokens
      BY <1>6 DEF Tokens
    <3>3. PICK f \in Bucket : f = [r EXCEPT !.tokens = r.tokens - 1]
      BY <3>2 DEF Bucket
    <3>4. f.tokens = r.tokens - 1 /\ f.lastSeen = now
      BY <3>3, <1>5 DEF Bucket
    <3> QED BY <3>1, <3>3, <3>4, <2>2
  <2> QED BY <2>1, <2>2, <1>6
<1>9. /\ buckets' \in [Clients -> Bucket \cup {None}] /\ buckets'[c] = f
      /\ \A x \in Clients : x # c => buckets'[x] = buckets[x] /\ allowance'[x] = allowance[x]
      /\ allowance' \in [Clients -> Int] /\ allowance'[c] = a - n
  BY <1>1, <1>7, <1>8 DEF TypeOK
<1>10. TypeOK'
  <2>1. query' \in [Queries -> Query \cup {Idle}]
    BY <1>1, <1>2, GotoType, LeaveType DEF Steps
  <2> QED BY <2>1, <1>1, <1>3, <1>9 DEF TypeOK
<1>11. f.tokens <= (a - n) - (clock - f.lastSeen) /\ a - n >= 0
  BY <1>3, <1>6, <1>7, <1>8
<1> HIDE DEF c, b
<1>12. Seen'
  BY <1>1, <1>3, <1>8, <1>9 DEF IInv, Seen
<1>13. Earned'
  <2> SUFFICES ASSUME NEW x \in Clients, buckets'[x] # None, buckets'[x].blockedUntil = 0
               PROVE  buckets'[x].tokens <= allowance'[x] - (clock' - buckets'[x].lastSeen)
    BY DEF Earned
  <2>1. CASE x = c
    BY <2>1, <1>3, <1>9, <1>11
  <2>2. CASE x # c
    BY <2>2, <1>3, <1>9 DEF IInv, Earned
  <2> QED BY <2>1, <2>2
<1>14. AdmissionBounded'
  <2> SUFFICES ASSUME NEW x \in Clients PROVE allowance'[x] >= 0
    BY DEF AdmissionBounded
  <2>1. CASE x = c
    BY <2>1, <1>9, <1>11
  <2>2. CASE x # c
    BY <2>2, <1>9 DEF IInv, AdmissionBounded
  <2> QED BY <2>1, <2>2
<1> QED BY <1>10, <1>12, <1>13, <1>14 DEF IInv

\* AllowBlocked only moves lastSeen; the block makes the tokens irrelevant.
LEMMA AllowBlockedKeeps ==
  ASSUME IInv, NEW q \in Queries, AllowBlocked(q)
  PROVE  IInv'
<1> DEFINE c == query[q].client
<1>1. TypeOK /\ query[q].pc \in Steps /\ c \in Clients /\ buckets[c] \in Bucket
  <2>1. TypeOK /\ query[q].pc \in Steps /\ buckets[c] # None
    BY DEF IInv, AllowBlocked, At, Steps
  <2>2. c \in Clients
    BY <2>1, QueryFacts
  <2> QED BY <2>1, <2>2 DEF TypeOK
<1>2. PICK now \in Now(q) :
        /\ buckets[c].blockedUntil # 0
        /\ buckets' = [buckets EXCEPT ![c] = [buckets[c] EXCEPT !.lastSeen = now]]
  BY DEF AllowBlocked
<1>3. now \in Nat /\ now <= clock
  BY <1>1, QueryFacts
<1>4. Leave(q) /\ UNCHANGED <<clock, nx, rq, allowance>>
  BY DEF AllowBlocked
<1> HIDE DEF c
<1>5. PICK f \in Bucket : /\ f = [buckets[c] EXCEPT !.lastSeen = now]
                          /\ f.lastSeen = now /\ f.blockedUntil # 0
  <2>1. PICK g \in Bucket : g = buckets[c]
    BY <1>1
  <2>2. g.blockedUntil # 0
    BY <1>2, <2>1
  <2>3. [g EXCEPT !.lastSeen = now] \in Bucket /\ [g EXCEPT !.lastSeen = now].lastSeen = now
          /\ [g EXCEPT !.lastSeen = now].blockedUntil = g.blockedUntil
    BY <1>3 DEF Bucket
  <2> QED BY <2>1, <2>2, <2>3
<1>6. /\ buckets' \in [Clients -> Bucket \cup {None}] /\ buckets'[c] = f
      /\ \A x \in Clients : x # c => buckets'[x] = buckets[x]
  BY <1>1, <1>2, <1>5 DEF TypeOK
<1>7. TypeOK'
  BY <1>1, <1>4, <1>6, LeaveType DEF TypeOK
<1>8. Seen'
  BY <1>1, <1>3, <1>4, <1>5, <1>6 DEF IInv, Seen
<1>9. Earned'
  BY <1>4, <1>5, <1>6 DEF IInv, Earned
<1> QED BY <1>4, <1>7, <1>8, <1>9 DEF IInv, AdmissionBounded

\* The steps that leave the limiter and the clock alone.
LEMMA AsideKeeps ==
  ASSUME IInv, UNCHANGED <<clock, buckets, allowance>>
  PROVE  Seen' /\ Earned' /\ AdmissionBounded'
BY DEF IInv, Seen, Earned, AdmissionBounded

\* NoteNX writes an entry.
LEMMA CountFacts ==
  ASSUME TypeOK, NEW x \in Prefixes, NEW now \in Nat
  PROVE  CountNX(x, now) \in NXEntry /\ TripNX(CountNX(x, now), now) \in NXEntry
<1>1. CountNX(x, now) \in NXEntry
  <2>1. CASE nx[x] = None \/ now - nx[x].firstSeen > NXWindow
    <3>1. CountNX(x, now) = [count |-> 1, firstSeen |-> now, blockedUntil |-> 0]
      BY <2>1 DEF CountNX
    <3> QED BY <3>1 DEF NXEntry
  <2>2. CASE ~(nx[x] = None \/ now - nx[x].firstSeen > NXWindow)
    <3>1. CountNX(x, now) = [nx[x] EXCEPT !.count = nx[x].count + 1] /\ nx[x] \in NXEntry
      BY <2>2 DEF CountNX, TypeOK
    <3> QED BY <3>1 DEF NXEntry
  <2> QED BY <2>1, <2>2
<1>2. TripNX(CountNX(x, now), now) \in NXEntry
  <2>1. PICK e \in NXEntry : e = CountNX(x, now)
    BY <1>1
  <2>2. PICK until \in Nat : until = now + NXBlockFor
    BY BlocksAssumption
  <2>3. \/ TripNX(e, now) = e
        \/ TripNX(e, now) = [count |-> 0, firstSeen |-> now, blockedUntil |-> until]
    BY <2>2 DEF TripNX
  <2>4. [count |-> 0, firstSeen |-> now, blockedUntil |-> until] \in NXEntry
    BY DEF NXEntry
  <2> QED BY <2>1, <2>3, <2>4
<1> QED BY <1>1, <1>2

\* The entry that NoteQuery or ForceBlock of the repeat guard stores.
LEMMA StreakFacts ==
  ASSUME NEW n \in Names \cup {None}, NEW k \in Nat, NEW t \in Nat, NEW u \in Nat
  PROVE  [qname |-> n, count |-> k, firstSeen |-> t, blockedUntil |-> u] \in RQEntry
BY DEF RQEntry

\* A repeat block lasts a number of ticks.
LEMMA RepeatBlockType ==
  ASSUME NEW trusted
  PROVE  RepeatBlock(trusted) \in Nat
BY BlocksAssumption DEF RepeatBlock

\* Each step preserves the types; the limiter's own steps are above.
LEMMA NoteQueryType ==
  ASSUME TypeOK, NEW q \in Queries, NEW n \in Names, NEW trusted \in BOOLEAN, NoteQuery(q, n, trusted)
  PROVE  TypeOK'
<1> DEFINE c == query[q].client
           e == rq[c]
<1>1. query[q].pc \in Steps /\ c \in Clients
  <2>1. query[q].pc \in Steps
    BY DEF NoteQuery, At, Steps, PastNX
  <2> QED BY <2>1, QueryFacts
<1>2. UNCHANGED <<clock, buckets, nx, allowance>>
  BY DEF NoteQuery
<1>3. query' \in [Queries -> Query \cup {Idle}]
  <2>1. PICK step \in {"trap", "force"} :
          query' = [query EXCEPT ![q] = [pc |-> step, client |-> c, qname |-> n,
                                         trusted |-> trusted, at |-> clock]]
    BY DEF NoteQuery
  <2>2. [pc |-> step, client |-> c, qname |-> n, trusted |-> trusted, at |-> clock] \in Query
    BY <1>1 DEF Query, PastNX, TypeOK
  <2> QED BY <2>1, <2>2 DEF TypeOK
<1>4. rq' \in [Clients -> RQEntry \cup {None}]
  <2>1. PICK now \in Now(q) :
          \/ Store(rq, RQSeen, now, c, [qname |-> n, count |-> 1, firstSeen |-> now, blockedUntil |-> 0], rq')
          \/ ~Broken(e, n, now) /\ rq' = [rq EXCEPT ![c] = [e EXCEPT !.count = e.count + 1]]
    BY DEF NoteQuery
  <2>2. now \in Nat
    BY <1>1, QueryFacts
  <2>3. CASE Store(rq, RQSeen, now, c, [qname |-> n, count |-> 1, firstSeen |-> now, blockedUntil |-> 0], rq')
    <3>1. PICK f \in RQEntry : f = [qname |-> n, count |-> 1, firstSeen |-> now, blockedUntil |-> 0]
      BY <2>2, StreakFacts
    <3>2. Store(rq, RQSeen, now, c, f, rq')
      BY <2>3, <3>1
    <3> QED BY <1>1, <3>2, StoreRQ
  <2>4. CASE ~Broken(e, n, now) /\ rq' = [rq EXCEPT ![c] = [e EXCEPT !.count = e.count + 1]]
    <3>1. e \in RQEntry
      BY <1>1, <2>4 DEF Broken, TypeOK
    <3>2. [e EXCEPT !.count = e.count + 1] \in RQEntry
      BY <3>1 DEF RQEntry
    <3> QED BY <2>4, <3>2 DEF TypeOK
  <2> QED BY <2>1, <2>3, <2>4
<1> QED BY <1>2, <1>3, <1>4 DEF TypeOK

\* A forced repeat block keeps the types.
LEMMA ForceRepeatType ==
  ASSUME TypeOK, NEW q \in Queries, ForceRepeat(q)
  PROVE  TypeOK'
<1> DEFINE c == query[q].client
<1>1. query[q].pc \in Steps /\ c \in Clients
  <2>1. query[q].pc \in Steps
    BY DEF ForceRepeat, At, Steps, PastNX
  <2> QED BY <2>1, QueryFacts
<1>2. PICK now \in Now(q) :
        Store(rq, RQSeen, now, c, [qname |-> None, count |-> 0, firstSeen |-> now,
                                   blockedUntil |-> now + RepeatBlock(query[q].trusted)], rq')
  BY DEF ForceRepeat
<1>3. now \in Nat /\ now + RepeatBlock(query[q].trusted) \in Nat
  <2>1. now \in Nat
    BY <1>1, QueryFacts
  <2> QED BY <2>1, RepeatBlockType
<1>4. PICK f \in RQEntry : f = [qname |-> None, count |-> 0, firstSeen |-> now,
                                blockedUntil |-> now + RepeatBlock(query[q].trusted)]
  BY <1>3, StreakFacts
<1>5. rq' \in [Clients -> RQEntry \cup {None}]
  BY <1>1, <1>2, <1>4, StoreRQ
<1>6. query' \in [Queries -> Query \cup {Idle}]
  BY <1>1, GotoType DEF ForceRepeat, Steps, PastNX
<1> QED BY <1>5, <1>6 DEF TypeOK, ForceRepeat

\* Counting an NXDOMAIN answer keeps the types.
LEMMA AnswerNXType ==
  ASSUME TypeOK, NEW q \in Queries, AnswerNX(q)
  PROVE  TypeOK'
<1> DEFINE x == PrefixOf[query[q].client]
<1>1. query[q].pc \in Steps /\ x \in Prefixes
  <2>1. query[q].pc \in Steps
    BY DEF AnswerNX, At, Steps, PastNX
  <2>2. query[q].client \in Clients
    BY <2>1, QueryFacts
  <2> QED BY <2>1, <2>2, KeysAssumption
<1>2. PICK now \in Now(q) : Store(nx, NXSeen, now, x, TripNX(CountNX(x, now), now), nx')
  BY DEF AnswerNX
<1>3. now \in Nat
  BY <1>1, QueryFacts
<1>4. TripNX(CountNX(x, now), now) \in NXEntry
  BY <1>1, <1>3, CountFacts
<1>5. nx' \in [Prefixes -> NXEntry \cup {None}]
  BY <1>1, <1>2, <1>4, StoreNX
<1> QED BY <1>5, LeaveType DEF TypeOK, AnswerNX

-----------------------------------------------------------------------------
(* The inductive invariant *)

\* The invariant holds in the initial states.
LEMMA InitIInv == Init => IInv
<1> SUFFICES ASSUME Init PROVE IInv
  OBVIOUS
<1>1. TypeOK
  BY DEF Init, TypeOK
<1>2. Seen /\ Earned /\ AdmissionBounded
  BY DEF Init, Seen, Earned, AdmissionBounded
<1> QED BY <1>1, <1>2 DEF IInv

\* An unblock resets a client's bucket and keeps the invariant.
LEMMA UnblockKeeps ==
  ASSUME IInv, NEW c \in Clients, Unblock(c)
  PROVE  IInv'
<1>1. PICK f \in Bucket : /\ buckets' = [buckets EXCEPT ![c] = f]
                          /\ f.tokens = Burst /\ f.lastSeen = clock
  <2>1. Burst \in Tokens /\ 0 \in Nat /\ clock \in Nat
    BY LimitsAssumption DEF Tokens, IInv, TypeOK
  <2>2. PICK f \in Bucket : f = [tokens |-> Burst, lastSeen |-> clock, violations |-> 0,
                                 firstViol |-> 0, blockedUntil |-> 0]
    BY <2>1 DEF Bucket
  <2> QED BY <2>2 DEF Unblock
<1>2. /\ buckets' \in [Clients -> Bucket \cup {None}] /\ buckets'[c] = f
      /\ \A x \in Clients : x # c => buckets'[x] = buckets[x]
  BY <1>1 DEF IInv, TypeOK
<1>3. /\ allowance' \in [Clients -> Int] /\ allowance'[c] = Burst
      /\ \A x \in Clients : x # c => allowance'[x] = allowance[x]
  <2>1. Full(clock) = Burst /\ Burst \in Int
    BY LimitsAssumption DEF Full, IInv, TypeOK
  <2> QED BY <2>1 DEF Unblock, IInv, TypeOK
<1>4. UNCHANGED <<clock, nx, rq, query>>
  BY DEF Unblock
<1>5. TypeOK'
  BY <1>2, <1>3, <1>4 DEF IInv, TypeOK
<1>6. Seen'
  BY <1>1, <1>2, <1>4 DEF IInv, Seen, TypeOK
<1>7. Earned'
  <2>1. f.tokens <= allowance'[c] - (clock' - f.lastSeen)
    BY <1>1, <1>3, <1>4, LimitsAssumption DEF IInv, TypeOK
  <2> QED BY <2>1, <1>2, <1>3, <1>4 DEF IInv, Earned
<1>8. AdmissionBounded'
  BY <1>3, LimitsAssumption DEF IInv, AdmissionBounded
<1> QED BY <1>5, <1>6, <1>7, <1>8 DEF IInv

\* Time passes.
LEMMA TickKeeps ==
  ASSUME IInv, Tick
  PROVE  IInv'
<1>1. TypeOK'
  BY DEF IInv, TypeOK, Tick
<1>2. clock \in Nat /\ clock' = clock + 1 /\ UNCHANGED buckets
  BY DEF IInv, TypeOK, Tick
<1>3. \A c \in Clients : allowance'[c] = allowance[c] + 1 /\ allowance[c] \in Int
  BY DEF IInv, TypeOK, Tick
<1>4. \A c \in Clients : buckets[c] # None => buckets[c].lastSeen \in Nat /\ buckets[c].tokens \in Int
  <2> SUFFICES ASSUME NEW c \in Clients, buckets[c] # None
               PROVE  buckets[c].lastSeen \in Nat /\ buckets[c].tokens \in Int
    OBVIOUS
  <2>1. buckets[c] \in Bucket
    BY DEF IInv, TypeOK
  <2> QED BY <2>1 DEF Bucket, Tokens
<1>5. Seen'
  BY <1>2, <1>4 DEF IInv, Seen
<1>6. Earned'
  BY <1>2, <1>3, <1>4 DEF IInv, Earned
<1>7. AdmissionBounded'
  BY <1>3 DEF IInv, AdmissionBounded
<1> QED BY <1>1, <1>5, <1>6, <1>7 DEF IInv

\* A repeat block is mirrored in the rate limiter.
LEMMA MirrorKeeps ==
  ASSUME IInv, NEW q \in Queries, Mirror(q)
  PROVE  IInv'
<1>1. TypeOK /\ query[q].pc \in Steps
  BY DEF IInv, Mirror, At, Steps, PastNX
<1>2. PICK now \in Now(q) : ForceBlock(query[q].client, RepeatBlock(query[q].trusted), now)
  BY DEF Mirror
<1>3. /\ query[q].client \in Clients /\ now \in Nat \ {0} /\ now <= clock
      /\ RepeatBlock(query[q].trusted) \in Nat
  BY <1>1, QueryFacts, RepeatBlockType
<1>4. UNCHANGED <<clock, nx, rq, allowance>>
  BY DEF Mirror
<1>5. buckets' \in [Clients -> Bucket \cup {None}]
  BY <1>1, <1>2, <1>3, ForceBlockFacts
<1>6. query' \in [Queries -> Query \cup {Idle}]
  BY <1>1, GotoType DEF Mirror, Steps, PastNX
<1>7. TypeOK'
  BY <1>1, <1>4, <1>5, <1>6 DEF TypeOK
<1>8. Seen' /\ Earned' /\ AdmissionBounded'
  BY <1>2, <1>3, <1>4, ForceKeeps
<1> QED BY <1>7, <1>8 DEF IInv

\* A trap name is never answered, and may earn its client a block.
LEMMA TrapKeeps ==
  ASSUME IInv, NEW q \in Queries, Trap(q)
  PROVE  IInv'
<1>1. TypeOK /\ query[q].pc \in Steps
  BY DEF IInv, Trap, At, Steps, PastNX
<1>2. UNCHANGED <<clock, nx, rq, allowance>>
  BY DEF Trap
<1>3. query' \in [Queries -> Query \cup {Idle}]
  BY <1>1, LeaveType DEF Trap
<1>4. CASE UNCHANGED buckets
  <2>1. TypeOK'
    BY <1>1, <1>2, <1>3, <1>4 DEF TypeOK
  <2> QED BY <2>1, <1>2, <1>4, AsideKeeps DEF IInv
<1>5. CASE \E now \in Now(q) : ForceBlock(query[q].client, HoneypotUDPBlock, now)
  <2>1. PICK now \in Now(q) : ForceBlock(query[q].client, HoneypotUDPBlock, now)
    BY <1>5
  <2>2. /\ query[q].client \in Clients /\ now \in Nat \ {0} /\ now <= clock /\ HoneypotUDPBlock \in Nat
    BY <1>1, QueryFacts, BlocksAssumption
  <2>3. buckets' \in [Clients -> Bucket \cup {None}]
    BY <1>1, <2>1, <2>2, ForceBlockFacts
  <2>4. TypeOK'
    BY <1>1, <1>2, <1>3, <2>3 DEF TypeOK
  <2>5. Seen' /\ Earned' /\ AdmissionBounded'
    BY <2>1, <2>2, <1>2, ForceKeeps
  <2> QED BY <2>4, <2>5 DEF IInv
<1> QED BY <1>4, <1>5 DEF Trap

\* The steps that touch neither a guard nor the accounts.
LEMMA QuietKeeps ==
  ASSUME IInv, NEW q \in Queries,
         \/ \E c \in Clients : Arrive(q, c)
         \/ AllowNX(q) \/ AllowRepeat(q) \/ Banned(q) \/ Proceed(q) \/ AnswerOther(q)
  PROVE  IInv'
<1>1. TypeOK /\ UNCHANGED <<clock, buckets, nx, rq, allowance>>
  BY DEF IInv, Arrive, AllowNX, AllowRepeat, Banned, Proceed, AnswerOther
<1>2. query' \in [Queries -> Query \cup {Idle}]
  <2>1. ASSUME NEW c \in Clients, Arrive(q, c) PROVE query' \in [Queries -> Query \cup {Idle}]
    <3>1. [pc |-> "limit", client |-> c, qname |-> None, trusted |-> FALSE, at |-> clock] \in Query
      BY <1>1 DEF Query, TypeOK
    <3> QED BY <1>1, <2>1, <3>1 DEF Arrive, TypeOK
  <2>2. CASE AllowNX(q)
    <3>1. query[q].pc \in Steps /\ (Goto(q, "repeat") \/ Leave(q))
      BY <2>2 DEF AllowNX, At, Steps
    <3> QED BY <1>1, <3>1, GotoType, LeaveType DEF Steps, PastNX
  <2>3. CASE AllowRepeat(q)
    <3>1. query[q].pc \in Steps /\ (Goto(q, "note") \/ Leave(q))
      BY <2>3 DEF AllowRepeat, At, Steps, PastNX
    <3> QED BY <1>1, <3>1, GotoType, LeaveType DEF Steps, PastNX
  <2>4. CASE Proceed(q)
    <3>1. query[q].pc \in Steps
      BY <2>4 DEF Proceed, At, Steps, PastNX
    <3>2. query[q].client \in Clients
      BY <1>1, <3>1, QueryFacts
    <3>3. [pc |-> "resolve", client |-> query[q].client, qname |-> None, trusted |-> FALSE,
           at |-> clock] \in Query
      BY <1>1, <3>2 DEF Query, PastNX, TypeOK
    <3> QED BY <1>1, <2>4, <3>3 DEF Proceed, TypeOK
  <2>5. CASE Banned(q) \/ AnswerOther(q)
    BY <1>1, <2>5, LeaveType DEF Banned, AnswerOther
  <2> QED BY <2>1, <2>2, <2>3, <2>4, <2>5
<1>3. TypeOK'
  BY <1>1, <1>2 DEF TypeOK
<1> QED BY <1>1, <1>3, AsideKeeps DEF IInv

\* Every step keeps the invariant.
LEMMA NextIInv == IInv /\ [Next]_vars => IInv'
<1> SUFFICES ASSUME IInv, [Next]_vars PROVE IInv'
  OBVIOUS
<1>1. CASE Tick
  BY <1>1, TickKeeps
<1>2. ASSUME NEW c \in Clients, Unblock(c) PROVE IInv'
  BY <1>2, UnblockKeeps
<1>3. ASSUME NEW q \in Queries, Step(q) PROVE IInv'
  <2>1. TypeOK
    BY DEF IInv
  <2>2. ASSUME NEW n \in Names, NEW trusted \in BOOLEAN, NoteQuery(q, n, trusted) PROVE IInv'
    <3>1. TypeOK'
      BY <2>1, <2>2, NoteQueryType
    <3>2. UNCHANGED <<clock, buckets, allowance>>
      BY <2>2 DEF NoteQuery
    <3> QED BY <3>1, <3>2, AsideKeeps DEF IInv
  <2>3. CASE ForceRepeat(q)
    <3>1. TypeOK' /\ UNCHANGED <<clock, buckets, allowance>>
      BY <2>1, <2>3, ForceRepeatType DEF ForceRepeat
    <3> QED BY <3>1, AsideKeeps DEF IInv
  <2>4. CASE AnswerNX(q)
    <3>1. TypeOK' /\ UNCHANGED <<clock, buckets, allowance>>
      BY <2>1, <2>4, AnswerNXType DEF AnswerNX
    <3> QED BY <3>1, AsideKeeps DEF IInv
  <2> QED BY <1>3, <2>2, <2>3, <2>4, AllowNewKeeps, AllowBucketKeeps, AllowBlockedKeeps, MirrorKeeps,
             TrapKeeps, QuietKeeps DEF Step
<1>4. CASE UNCHANGED vars
  BY <1>4 DEF IInv, TypeOK, Seen, Earned, AdmissionBounded, vars
<1> QED BY <1>1, <1>2, <1>3, <1>4 DEF Next

\* The inductive invariant holds in every state.
THEOREM Invariance == Spec => []IInv
<1> QED BY InitIInv, NextIInv, PTL DEF Spec

\* Every guard's state keeps its type; no bucket holds more than the burst.
THEOREM TypeCorrect == Spec => []TypeOK
<1>1. IInv => TypeOK
  BY DEF IInv
<1> QED BY <1>1, Invariance, PTL

\* The limiter never lets a client exceed the burst and the tokens earned
\* since its bucket was last filled, in whatever order calls take the lock.
THEOREM Admission == Spec => []AdmissionBounded
<1>1. IInv => AdmissionBounded
  BY DEF IInv
<1> QED BY <1>1, Invariance, PTL

-----------------------------------------------------------------------------
(* The maps stay within their caps *)

\* Writing to a key that is there adds none.
LEMMA OverwriteBounded ==
  ASSUME NEW m, m = [x \in DOMAIN m |-> m[x]], IsFiniteSet(DOMAIN m), NEW k \in DOMAIN m,
         m[k] # None, NEW e, Cardinality(Held(m)) <= MaxPerShard
  PROVE  Cardinality(Held([m EXCEPT ![k] = e])) <= MaxPerShard
<1>1. Store(m, m, 0, k, e, [m EXCEPT ![k] = e])
  BY DEF Store
<1> QED BY <1>1, StoreBounded

\* No step takes the buckets over their cap.
LEMMA BucketsBounded ==
  ASSUME IInv, [Next]_vars, Cardinality(Held(buckets)) <= MaxPerShard
  PROVE  Cardinality(Held(buckets')) <= MaxPerShard
<1>0. TypeOK /\ buckets = [x \in DOMAIN buckets |-> buckets[x]] /\ DOMAIN buckets = Clients
        /\ IsFiniteSet(Clients)
  BY KeysAssumption DEF IInv, TypeOK
<1>1. ASSUME NEW c \in Clients, NEW e, buckets[c] # None, buckets' = [buckets EXCEPT ![c] = e]
      PROVE  Cardinality(Held(buckets')) <= MaxPerShard
  BY <1>0, <1>1, OverwriteBounded
<1>2. ASSUME NEW q \in Queries, AllowNew(q) PROVE Cardinality(Held(buckets')) <= MaxPerShard
  <2>1. query[q].pc \in Steps
    BY <1>2 DEF AllowNew, At, Steps
  <2>2. query[q].client \in DOMAIN buckets
    BY <1>0, <2>1, QueryFacts
  <2>3. PICK now \in Now(q) :
          Store(buckets, LastSeen, now, query[q].client,
                [tokens |-> Burst - 1, lastSeen |-> now, violations |-> 0, firstViol |-> 0,
                 blockedUntil |-> 0], buckets')
    BY <1>2 DEF AllowNew
  <2> QED BY <1>0, <2>2, <2>3, StoreBounded
<1>3. ASSUME NEW q \in Queries, AllowBlocked(q) \/ AllowBucket(q)
      PROVE  Cardinality(Held(buckets')) <= MaxPerShard
  <2>1. query[q].pc \in Steps /\ buckets[query[q].client] # None
    BY <1>3 DEF AllowBlocked, AllowBucket, At, Steps
  <2>2. query[q].client \in Clients
    BY <1>0, <2>1, QueryFacts
  <2>3. PICK e : buckets' = [buckets EXCEPT ![query[q].client] = e]
    <3>1. CASE AllowBlocked(q)
      BY <3>1 DEF AllowBlocked
    <3>2. CASE AllowBucket(q)
      BY <3>2 DEF AllowBucket
    <3> QED BY <1>3, <3>1, <3>2
  <2> QED BY <1>1, <2>1, <2>2, <2>3
<1>4. ASSUME NEW q \in Queries, query[q].pc \in Steps, NEW d \in Nat, NEW now \in Now(q),
             ForceBlock(query[q].client, d, now)
      PROVE  Cardinality(Held(buckets')) <= MaxPerShard
  BY <1>0, <1>4, QueryFacts, ForceBlockFacts
<1>5. ASSUME NEW q \in Queries, Mirror(q) PROVE Cardinality(Held(buckets')) <= MaxPerShard
  <2>1. query[q].pc \in Steps /\ RepeatBlock(query[q].trusted) \in Nat
    BY <1>5, RepeatBlockType DEF Mirror, At, Steps, PastNX
  <2> QED BY <1>4, <1>5, <2>1 DEF Mirror
<1>6. ASSUME NEW q \in Queries, Trap(q) PROVE Cardinality(Held(buckets')) <= MaxPerShard
  <2>1. query[q].pc \in Steps /\ HoneypotUDPBlock \in Nat
    BY <1>6, BlocksAssumption DEF Trap, At, Steps, PastNX
  <2> QED BY <1>4, <1>6, <2>1 DEF Trap
<1>7. ASSUME NEW c \in Clients, Unblock(c) PROVE Cardinality(Held(buckets')) <= MaxPerShard
  BY <1>1, <1>7 DEF Unblock
<1>8. CASE UNCHANGED buckets
  BY <1>8 DEF Held
<1>9. ASSUME NEW q \in Queries, Step(q) PROVE Cardinality(Held(buckets')) <= MaxPerShard
  <2>1. \/ AllowNew(q) \/ AllowBlocked(q) \/ AllowBucket(q) \/ Mirror(q) \/ Trap(q)
        \/ UNCHANGED buckets
    BY <1>9 DEF Step, Arrive, AllowNX, AllowRepeat, NoteQuery, ForceRepeat, Banned, Proceed, AnswerNX,
                AnswerOther
  <2> QED BY <1>2, <1>3, <1>5, <1>6, <1>8, <2>1
<1> QED BY <1>7, <1>8, <1>9 DEF Next, Tick, vars

\* No step takes the NXDOMAIN counts over their cap.
LEMMA NXBounded ==
  ASSUME IInv, [Next]_vars, Cardinality(Held(nx)) <= MaxPerShard
  PROVE  Cardinality(Held(nx')) <= MaxPerShard
<1>1. CASE UNCHANGED nx
  BY <1>1 DEF Held
<1>2. ASSUME NEW q \in Queries, AnswerNX(q) PROVE Cardinality(Held(nx')) <= MaxPerShard
  <2>0. TypeOK /\ nx = [x \in DOMAIN nx |-> nx[x]] /\ DOMAIN nx = Prefixes /\ IsFiniteSet(Prefixes)
    BY KeysAssumption DEF IInv, TypeOK
  <2>1. query[q].pc \in Steps
    BY <1>2 DEF AnswerNX, At, Steps, PastNX
  <2>2. PrefixOf[query[q].client] \in DOMAIN nx
    BY <2>0, <2>1, QueryFacts, KeysAssumption
  <2>3. PICK now \in Now(q) :
          Store(nx, NXSeen, now, PrefixOf[query[q].client], TripNX(CountNX(PrefixOf[query[q].client], now), now), nx')
    BY <1>2 DEF AnswerNX
  <2> QED BY <2>0, <2>2, <2>3, StoreBounded
<1>3. ASSUME NEW q \in Queries, Step(q) PROVE AnswerNX(q) \/ UNCHANGED nx
  BY <1>3 DEF Step, Arrive, AllowNew, AllowBlocked, AllowBucket, AllowNX, AllowRepeat, NoteQuery,
              ForceRepeat, Mirror, Banned, Trap, Proceed, AnswerOther
<1> QED BY <1>1, <1>2, <1>3 DEF Next, Tick, Unblock, vars

\* No step takes the repeat counts over their cap.
LEMMA RQBounded ==
  ASSUME IInv, [Next]_vars, Cardinality(Held(rq)) <= MaxPerShard
  PROVE  Cardinality(Held(rq')) <= MaxPerShard
<1>0. TypeOK /\ rq = [x \in DOMAIN rq |-> rq[x]] /\ DOMAIN rq = Clients /\ IsFiniteSet(Clients)
  BY KeysAssumption DEF IInv, TypeOK
<1>1. CASE UNCHANGED rq
  BY <1>1 DEF Held
<1>2. ASSUME NEW q \in Queries, ForceRepeat(q) PROVE Cardinality(Held(rq')) <= MaxPerShard
  <2>1. query[q].pc \in Steps
    BY <1>2 DEF ForceRepeat, At, Steps, PastNX
  <2>2. query[q].client \in DOMAIN rq
    BY <1>0, <2>1, QueryFacts
  <2>3. PICK now, e : Store(rq, RQSeen, now, query[q].client, e, rq')
    BY <1>2 DEF ForceRepeat
  <2> QED BY <1>0, <2>2, <2>3, StoreBounded
<1>3. ASSUME NEW q \in Queries, NEW n \in Names, NEW trusted \in BOOLEAN, NoteQuery(q, n, trusted)
      PROVE  Cardinality(Held(rq')) <= MaxPerShard
  <2>1. query[q].pc \in Steps
    BY <1>3 DEF NoteQuery, At, Steps, PastNX
  <2>2. query[q].client \in DOMAIN rq
    BY <1>0, <2>1, QueryFacts
  <2>3. PICK now, e : \/ Store(rq, RQSeen, now, query[q].client, e, rq')
                      \/ rq[query[q].client] # None /\ rq' = [rq EXCEPT ![query[q].client] = e]
    BY <1>3 DEF NoteQuery, Broken
  <2> QED BY <1>0, <2>2, <2>3, StoreBounded, OverwriteBounded
<1>4. ASSUME NEW q \in Queries, Step(q)
      PROVE  \/ ForceRepeat(q) \/ UNCHANGED rq
             \/ \E n \in Names, trusted \in BOOLEAN : NoteQuery(q, n, trusted)
  BY <1>4 DEF Step, Arrive, AllowNew, AllowBlocked, AllowBucket, AllowNX, AllowRepeat, Mirror, Banned,
              Trap, Proceed, AnswerNX, AnswerOther
<1>5. ASSUME NEW q \in Queries, Step(q) PROVE Cardinality(Held(rq')) <= MaxPerShard
  BY <1>1, <1>2, <1>3, <1>4, <1>5
<1> QED BY <1>1, <1>5 DEF Next, Tick, Unblock, vars

\* No sequence of clients, spoofed or real, makes a guard's map outgrow its cap.
THEOREM Bounded == Spec => []MapsBounded
<1>1. Init => MapsBounded
  <2>1. ASSUME Init PROVE Held(buckets) = {} /\ Held(nx) = {} /\ Held(rq) = {}
    BY <2>1 DEF Init, Held
  <2> QED BY <2>1, FS_EmptySet, LimitsAssumption DEF MapsBounded
<1>2. IInv /\ MapsBounded /\ [Next]_vars => MapsBounded'
  BY BucketsBounded, NXBounded, RQBounded DEF MapsBounded
<1> QED BY <1>1, <1>2, Invariance, PTL DEF Spec

-----------------------------------------------------------------------------
(* A block stays until its time *)

\* What BlockKept allows one step to do.
Stays ==
  \A c \in Clients : Blocked(c) =>
    \/ buckets'[c] = None
    \/ buckets'[c].blockedUntil = buckets[c].blockedUntil
    \/ Unblock(c)
    \/ Forcing(c)

\* A call that read the clock before it got the lock read a time that the
\* block still covers.
LEMMA AllowStays ==
  ASSUME IInv, NEW q \in Queries, AllowNew(q) \/ AllowBlocked(q) \/ AllowBucket(q)
  PROVE  Stays
<1> DEFINE c == query[q].client
<1>1. TypeOK /\ query[q].pc \in Steps
  BY DEF IInv, AllowNew, AllowBlocked, AllowBucket, At, Steps
<1>2. c \in Clients /\ \A now \in Now(q) : now \in Nat \ {0} /\ now <= clock
  BY <1>1, QueryFacts
<1>3. CASE AllowNew(q)
  <2>1. buckets[c] = None
    BY <1>3 DEF AllowNew
  <2>2. PICK now, e : Store(buckets, LastSeen, now, c, e, buckets')
    BY <1>3 DEF AllowNew
  <2>3. buckets = [x \in DOMAIN buckets |-> buckets[x]] /\ DOMAIN buckets = Clients
    BY <1>1 DEF TypeOK
  <2>4. c \in DOMAIN buckets
    BY <1>2, <2>3
  <2> HIDE DEF c
  <2>5. \A x \in DOMAIN buckets : x # c => buckets'[x] = buckets[x] \/ buckets'[x] = None
    BY <2>2, <2>3, <2>4, StoreFacts
  <2> QED BY <2>1, <2>3, <2>5 DEF Stays, Blocked
<1>4. CASE AllowBlocked(q)
  <2>1. PICK now \in Now(q) : buckets' = [buckets EXCEPT ![c] = [buckets[c] EXCEPT !.lastSeen = now]]
    BY <1>4 DEF AllowBlocked
  <2>2. buckets[c] \in Bucket
    BY <1>1, <1>2, <1>4 DEF AllowBlocked, TypeOK
  <2>3. \A x \in Clients : x # c => buckets'[x] = buckets[x]
    BY <2>1, <1>1 DEF TypeOK
  <2>4. buckets'[c] = [buckets[c] EXCEPT !.lastSeen = now]
    BY <1>1, <1>2, <2>1 DEF TypeOK
  <2>5. buckets'[c].blockedUntil = buckets[c].blockedUntil
    BY <2>2, <2>4 DEF Bucket
  <2> QED BY <2>3, <2>5 DEF Stays
<1>5. CASE AllowBucket(q)
  <2>1. PICK now \in Now(q) :
          /\ buckets[c].blockedUntil = 0 \/ ~InForce(buckets[c].blockedUntil, now)
          /\ \E e : buckets' = [buckets EXCEPT ![c] = e]
    BY <1>5 DEF AllowBucket
  <2>2. buckets[c] \in Bucket /\ clock \in Nat
    BY <1>1, <1>2, <1>5 DEF AllowBucket, TypeOK
  <2>3. buckets[c].blockedUntil \in Nat
    BY <2>2 DEF Bucket
  <2>4. ~(clock < buckets[c].blockedUntil)
    BY <1>2, <2>1, <2>2, <2>3 DEF InForce
  <2>5. \A x \in Clients : x # c => buckets'[x] = buckets[x]
    BY <2>1, <1>1 DEF TypeOK
  <2> QED BY <2>4, <2>5 DEF Stays, Blocked
<1> QED BY <1>3, <1>4, <1>5

\* ForceBlock replaces the block of the query's own client only.
LEMMA ForceStays ==
  ASSUME IInv, NEW q \in Queries, Mirror(q) \/ Trap(q)
  PROVE  Stays
<1> DEFINE c == query[q].client
<1>1. TypeOK /\ query[q].pc \in Steps /\ query[q].pc \in {"mirror", "trap"}
  BY DEF IInv, Mirror, Trap, At, Steps, PastNX
<1>2. c \in Clients /\ query[q] \in Query /\ \A now \in Now(q) : now \in Nat \ {0}
  BY <1>1, QueryFacts
<1>3. CASE UNCHANGED buckets
  BY <1>3 DEF Stays
<1>4. ASSUME NEW d \in Nat, NEW now \in Now(q), ForceBlock(c, d, now) PROVE Stays
  <2>1. \A x \in Clients : x # c => buckets'[x] = buckets[x] \/ buckets'[x] = None
    BY <1>1, <1>2, <1>4, ForceBlockFacts
  <2>2. query'[q] # query[q]
    <3>1. CASE Mirror(q)
      <4>1. query'[q].pc = "trap" /\ query[q].pc = "mirror"
        BY <1>1, <1>2, <3>1 DEF Mirror, Goto, At, TypeOK, Query
      <4> QED BY <4>1
    <3>2. CASE Trap(q)
      <4>1. query'[q].pc = "idle" /\ query[q].pc = "trap"
        BY <1>1, <3>2 DEF Trap, Leave, Idle, At, TypeOK
      <4> QED BY <4>1
    <3> QED BY <3>1, <3>2
  <2>3. Forcing(c)
    BY <1>1, <2>2 DEF Forcing
  <2> QED BY <2>1, <2>3 DEF Stays
<1>5. RepeatBlock(query[q].trusted) \in Nat /\ HoneypotUDPBlock \in Nat
  BY RepeatBlockType, BlocksAssumption
<1> QED BY <1>3, <1>4, <1>5 DEF Mirror, Trap

\* Every step keeps a block that is still running.
LEMMA NextStays ==
  ASSUME IInv, [Next]_vars
  PROVE  [Stays]_vars
<1>1. ASSUME UNCHANGED buckets PROVE Stays
  BY <1>1 DEF Stays
<1>2. ASSUME NEW c \in Clients, Unblock(c) PROVE Stays
  <2>1. \A x \in Clients : x # c => buckets'[x] = buckets[x]
    BY <1>2 DEF Unblock, IInv, TypeOK
  <2> QED BY <1>2, <2>1 DEF Stays
<1>3. ASSUME NEW q \in Queries, Step(q) PROVE Stays
  <2>1. \/ AllowNew(q) \/ AllowBlocked(q) \/ AllowBucket(q) \/ Mirror(q) \/ Trap(q)
        \/ UNCHANGED buckets
    BY <1>3 DEF Step, Arrive, AllowNX, AllowRepeat, NoteQuery, ForceRepeat, Banned, Proceed, AnswerNX,
                AnswerOther
  <2> QED BY <1>1, <2>1, AllowStays, ForceStays
<1> QED BY <1>1, <1>2, <1>3 DEF Next, Tick, vars

\* No query, however old its reading of the clock, ends a limiter's block
\* before its time.
THEOREM BlocksStay == Spec => BlockKept
<1>1. IInv /\ [Next]_vars => [Stays]_vars
  BY NextStays
<1>2. Spec => [][Stays]_vars
  BY <1>1, Invariance, PTL DEF Spec
<1> QED BY <1>2 DEF BlockKept, Stays

-----------------------------------------------------------------------------
(* The flood guard contains the flood *)

\* The queries past the guard are among the goroutines.
LEMMA PastFinite ==
  ASSUME NEW x
  PROVE  /\ IsFiniteSet(Past(x)) /\ Cardinality(Past(x)) \in Nat
         /\ Cardinality(Past(x)) <= Cardinality(Queries) /\ Cardinality(Queries) \in Nat
BY KeysAssumption, FS_Subset, FS_CardinalityType DEF Past

\* A prefix whose entry did not change, or went, and with no more queries past
\* the guard than before.
LEMMA Contained ==
  ASSUME IInv, FloodContained, NEW x \in Prefixes, clock' \in Nat, clock' >= clock,
         nx'[x] = nx[x] \/ nx'[x] = None, Past(x)' \subseteq Past(x),
         nx'[x] # None, clock' <= nx'[x].blockedUntil
  PROVE  nx'[x].count + Cardinality(Past(x)') <= Cardinality(Queries)
<1>1. nx'[x] = nx[x] /\ nx[x] \in NXEntry /\ clock \in Nat
  BY DEF IInv, TypeOK
<1>2. nx[x].blockedUntil \in Nat /\ nx[x].count \in Nat
  BY <1>1 DEF NXEntry
<1>3. nx[x].count + Cardinality(Past(x)) <= Cardinality(Queries)
  BY <1>1, <1>2 DEF FloodContained
<1>4. Cardinality(Past(x)') <= Cardinality(Past(x)) /\ Cardinality(Past(x)') \in Nat
  BY PastFinite, FS_Subset, FS_CardinalityType
<1> QED BY <1>1, <1>2, <1>3, <1>4, PastFinite

\* Only NXGuard.Allow lets a query past the guard.
LEMMA PastShrinks ==
  ASSUME IInv, NEW q \in Queries, Step(q), ~AllowNX(q), NEW x
  PROVE  Past(x)' \subseteq Past(x)
<1>1. TypeOK
  BY DEF IInv
<1>2. \A p \in Queries : p # q => query'[p] = query[p]
  BY <1>1 DEF Step, Arrive, AllowNew, AllowBlocked, AllowBucket, AllowNX, AllowRepeat, NoteQuery,
              ForceRepeat, Mirror, Banned, Trap, Proceed, AnswerNX, AnswerOther, Goto, Leave, TypeOK
<1>3. query'[q].pc \in PastNX => query[q].pc \in PastNX /\ query'[q].client = query[q].client
  <2>1. CASE Leave(q)
    BY <1>1, <2>1 DEF Leave, Idle, TypeOK, PastNX
  <2>2. ASSUME NEW step, query[q].pc \in Steps, Goto(q, step)
        PROVE  query'[q].pc = step /\ query'[q].client = query[q].client
    <3>1. query[q] \in Query
      BY <1>1, <2>2, QueryFacts
    <3> QED BY <1>1, <2>2, <3>1 DEF Goto, Query, TypeOK
  <2>3. CASE \E c \in Clients : Arrive(q, c)
    BY <1>1, <2>3 DEF Arrive, TypeOK, PastNX
  <2>4. ASSUME NEW n \in Names, NEW trusted \in BOOLEAN, NoteQuery(q, n, trusted)
        PROVE  query[q].pc \in PastNX /\ query'[q].client = query[q].client
    BY <1>1, <2>4 DEF NoteQuery, At, PastNX, TypeOK
  <2>5. CASE Proceed(q)
    BY <1>1, <2>5 DEF Proceed, At, PastNX, TypeOK
  <2>6. CASE AllowNew(q) \/ AllowBlocked(q) \/ AllowBucket(q)
    <3>1. query[q].pc \in Steps /\ (Leave(q) \/ Goto(q, "nx"))
      BY <2>6 DEF AllowNew, AllowBlocked, AllowBucket, At, Steps
    <3> QED BY <2>1, <2>2, <3>1 DEF PastNX
  <2>7. CASE AllowRepeat(q) \/ ForceRepeat(q) \/ Mirror(q)
    <3>1. query[q].pc \in PastNX /\ query[q].pc \in Steps
            /\ (Leave(q) \/ Goto(q, "note") \/ Goto(q, "mirror") \/ Goto(q, "trap"))
      BY <2>7 DEF AllowRepeat, ForceRepeat, Mirror, At, Steps, PastNX
    <3> QED BY <2>1, <2>2, <3>1
  <2> QED BY <2>1, <2>3, <2>4, <2>5, <2>6, <2>7 DEF Step, Banned, Trap, AnswerNX, AnswerOther
<1> QED BY <1>2, <1>3 DEF Past

\* An NXDOMAIN counted while the block runs takes its query out of the ones
\* past the guard.
LEMMA AnswerContained ==
  ASSUME IInv, FloodContained, NEW q \in Queries, AnswerNX(q)
  PROVE  FloodContained'
<1>1. TypeOK /\ query[q].pc \in Steps /\ query[q].pc \in PastNX /\ clock \in Nat \ {0} /\ clock' = clock
  BY DEF IInv, AnswerNX, At, Steps, PastNX, TypeOK
<1>2. PICK p \in Prefixes : p = PrefixOf[query[q].client]
  BY <1>1, QueryFacts, KeysAssumption
<1>3. PICK now \in Now(q) : Store(nx, NXSeen, now, p, TripNX(CountNX(p, now), now), nx')
  BY <1>2 DEF AnswerNX
<1>4. now \in Nat
  BY <1>1, QueryFacts
<1>5. PICK f \in NXEntry : f = CountNX(p, now)
  BY <1>1, <1>2, <1>4, CountFacts
<1>6. PICK e \in NXEntry : e = TripNX(f, now)
  BY <1>1, <1>2, <1>4, <1>5, CountFacts
<1>7. nx'[p] = e /\ \A x \in Prefixes : x # p => nx'[x] = nx[x] \/ nx'[x] = None
  BY <1>1, <1>2, <1>3, <1>5, <1>6, StoreNX, SMTT(30)
<1>8. \A x : Past(x)' \subseteq Past(x)
  BY PastShrinks DEF Step, AnswerNX, AllowNX, At
<1> SUFFICES ASSUME NEW x \in Prefixes, nx'[x] # None, clock' <= nx'[x].blockedUntil
             PROVE  nx'[x].count + Cardinality(Past(x)') <= Cardinality(Queries)
  BY DEF FloodContained
<1>9. CASE x # p
  BY <1>1, <1>7, <1>8, <1>9, Contained
<1>10. CASE x = p
  <2>1. q \in Past(p) /\ q \notin Past(p)'
    BY <1>1, <1>2 DEF Past, AnswerNX, Leave, Idle, TypeOK, PastNX
  <2>2. Past(p)' \subseteq Past(p) \ {q}
    BY <1>8, <2>1
  <2>3. Cardinality(Past(p)') <= Cardinality(Past(p)) - 1 /\ Cardinality(Past(p)') \in Nat
    <3>1. IsFiniteSet(Past(p) \ {q}) /\ Cardinality(Past(p) \ {q}) = Cardinality(Past(p)) - 1
      BY <2>1, PastFinite, FS_RemoveElement
    <3> QED BY <2>2, <3>1, FS_Subset, FS_CardinalityType
  <2>4. /\ Cardinality(Past(p)) \in Nat /\ Cardinality(Past(p)) <= Cardinality(Queries)
        /\ Cardinality(Queries) \in Nat
    BY PastFinite
  <2>5. e.blockedUntil # 0
    BY <1>1, <1>7, <1>10
  <2>6. CASE e = f
    <3>1. f.blockedUntil # 0
      BY <2>5, <2>6
    <3>2. nx[p] # None /\ f = [nx[p] EXCEPT !.count = nx[p].count + 1]
      BY <1>5, <3>1 DEF CountNX
    <3>3. nx[p] \in NXEntry
      BY <1>1, <1>2, <3>2 DEF TypeOK
    <3>4. f.count = nx[p].count + 1 /\ f.blockedUntil = nx[p].blockedUntil /\ nx[p].count \in Nat
      BY <3>2, <3>3 DEF NXEntry
    <3>5. nx[p].count + Cardinality(Past(p)) <= Cardinality(Queries)
      BY <1>1, <1>2, <1>7, <1>10, <2>6, <3>2, <3>4 DEF FloodContained
    <3> QED BY <1>7, <1>10, <2>3, <2>4, <2>6, <3>4, <3>5
  <2>7. CASE e # f
    <3>1. e = [count |-> 0, firstSeen |-> now, blockedUntil |-> now + NXBlockFor]
      BY <1>6, <2>7 DEF TripNX
    <3>2. e.count = 0
      BY <3>1
    <3> QED BY <1>7, <1>10, <2>3, <2>4, <3>2
  <2> QED BY <2>6, <2>7
<1> QED BY <1>9, <1>10

\* A query passes the guard only when its prefix has no running block.
LEMMA AllowContained ==
  ASSUME IInv, FloodContained, NEW q \in Queries, AllowNX(q)
  PROVE  FloodContained'
<1>1. TypeOK /\ query[q].pc \in Steps /\ clock \in Nat \ {0} /\ UNCHANGED <<clock, nx>>
  BY DEF IInv, AllowNX, At, Steps, TypeOK
<1>2. PICK p \in Prefixes : p = PrefixOf[query[q].client]
  BY <1>1, QueryFacts, KeysAssumption
<1>3. query[q] \in Query /\ \A now \in Now(q) : now \in Nat /\ now <= clock
  BY <1>1, QueryFacts
<1>4. \A x : x # p => Past(x)' \subseteq Past(x)
  <2>1. \A o \in Queries : o # q => query'[o] = query[o]
    BY <1>1 DEF AllowNX, Goto, Leave, TypeOK
  <2>2. query'[q].pc \in PastNX => query'[q].client = query[q].client
    <3>1. CASE Leave(q)
      BY <1>1, <3>1 DEF Leave, Idle, TypeOK, PastNX
    <3>2. CASE Goto(q, "repeat")
      BY <1>1, <1>3, <3>2 DEF Goto, Query, TypeOK
    <3> QED BY <3>1, <3>2 DEF AllowNX
  <2> QED BY <1>2, <2>1, <2>2 DEF Past
<1> SUFFICES ASSUME NEW x \in Prefixes, nx'[x] # None, clock' <= nx'[x].blockedUntil
             PROVE  nx'[x].count + Cardinality(Past(x)') <= Cardinality(Queries)
  BY DEF FloodContained
<1>5. CASE Past(x)' \subseteq Past(x)
  BY <1>1, <1>5, Contained
<1>6. CASE x = p /\ ~(Past(x)' \subseteq Past(x))
  <2>1. ~Leave(q)
    BY <1>1, <1>6 DEF Leave, Idle, Past, PastNX, TypeOK
  <2>2. nx[p] # None /\ clock <= nx[p].blockedUntil
    BY <1>1, <1>6
  <2>3. PICK now \in Now(q) : nx[p].blockedUntil = 0 \/ now > nx[p].blockedUntil
    BY <1>2, <2>1, <2>2 DEF AllowNX
  <2>4. nx[p] \in NXEntry
    BY <1>1, <1>3, <2>2 DEF TypeOK
  <2>5. nx[p].blockedUntil \in Nat
    BY <2>4 DEF NXEntry
  <2> QED BY <1>1, <1>3, <2>2, <2>3, <2>5
<1> QED BY <1>4, <1>5, <1>6

\* While a prefix is blocked, nothing of it reaches the resolver but what was
\* on its way there when the block fell.
THEOREM Containment == Spec => []FloodContained
<1>1. Init => FloodContained
  BY DEF Init, FloodContained
<1>2. IInv /\ FloodContained /\ [Next]_vars => FloodContained'
  <2> SUFFICES ASSUME IInv, FloodContained, [Next]_vars PROVE FloodContained'
    OBVIOUS
  <2>0. clock \in Nat
    BY DEF IInv, TypeOK
  <2>1. ASSUME clock' \in Nat, clock' >= clock, UNCHANGED nx, \A x : Past(x)' \subseteq Past(x)
        PROVE  FloodContained'
    <3> SUFFICES ASSUME NEW x \in Prefixes, nx'[x] # None, clock' <= nx'[x].blockedUntil
                 PROVE  nx'[x].count + Cardinality(Past(x)') <= Cardinality(Queries)
      BY DEF FloodContained
    <3> QED BY <2>1, Contained
  <2>2. CASE UNCHANGED query /\ UNCHANGED nx /\ clock' \in Nat /\ clock' >= clock
    BY <2>1, <2>2 DEF Past
  <2>3. ASSUME NEW q \in Queries, Step(q) PROVE FloodContained'
    <3>1. CASE AnswerNX(q)
      BY <3>1, AnswerContained
    <3>2. CASE AllowNX(q)
      BY <3>2, AllowContained
    <3>3. CASE ~AnswerNX(q) /\ ~AllowNX(q)
      <4>1. UNCHANGED <<clock, nx>>
        BY <2>3, <3>3 DEF Step, Arrive, AllowNew, AllowBlocked, AllowBucket, AllowRepeat, NoteQuery,
                          ForceRepeat, Mirror, Banned, Trap, Proceed, AnswerOther
      <4>2. \A x : Past(x)' \subseteq Past(x)
        BY <2>3, <3>3, PastShrinks
      <4> QED BY <2>0, <2>1, <4>1, <4>2
    <3> QED BY <3>1, <3>2, <3>3
  <2>4. ASSUME NEW c \in Clients, Unblock(c) PROVE FloodContained'
    BY <2>0, <2>2, <2>4 DEF Unblock
  <2>5. CASE Tick
    BY <2>0, <2>2, <2>5 DEF Tick
  <2>6. CASE UNCHANGED vars
    BY <2>0, <2>2, <2>6 DEF vars
  <2> QED BY <2>3, <2>4, <2>5, <2>6 DEF Next
<1> QED BY <1>1, <1>2, Invariance, PTL DEF Spec

\* The limiters as a whole, for any rates and any number of clients: typed,
\* admission within the budget, and no map past its bound.
THEOREM LimitsStand == Spec => []LimitsHold
<1>1. TypeOK /\ AdmissionBounded /\ MapsBounded => LimitsHold
  BY DEF LimitsHold
<1> QED BY <1>1, TypeCorrect, Admission, Bounded, PTL

-----------------------------------------------------------------------------
(* Logins. AuthSound is not inductive: EntryOK keeps an entry's lock       *)
(* within its last failure's reach, which is what eviction and expiry go   *)
(* by; Together says that a snapshot, and so a cookie, pairs a password    *)
(* with its own secret; LockStands says whose entry still carries a        *)
(* lockout that is owed.                                                   *)

GuardRec == [on : BOOLEAN, failures : Nat, first : Nat, lockedUntil : Nat, seen : Nat]
Login == [pc : {"idle", "lock", "check"}, client : DAClients \cup {"none"}, pw : 0..(DAChanges + 1),
          users : 0..(DAChanges + 1), secret : 0..(DAChanges + 1), free : BOOLEAN, from : Nat]

DATypes ==
  /\ daNow \in 0..DATime
  /\ daGuard \in [DAClients -> GuardRec]
  /\ daAccount \in [pw : 1..(DAChanges + 1), secret : 1..(DAChanges + 1)]
  /\ daCookies \subseteq [secret : 1..(DAChanges + 1), pw : 1..(DAChanges + 1)]
  /\ daReq \in [DARequests -> Login]
  /\ daHist \in [lock : [DAClients -> Nat], raced : [DAClients -> BOOLEAN], stale : BOOLEAN]

(* An entry of the past, locked exactly from its last failure on.          *)
EntryOK(e, now) ==
  e.on => /\ e.first <= now /\ e.seen <= now /\ e.lockedUntil <= e.seen + DALockout
          /\ e.lockedUntil > 0 <=> e.failures >= DAMaxFailures

(* One snapshot: an account and a secret that belong together.             *)
Together ==
  /\ daAccount.pw = daAccount.secret /\ \A k \in daCookies : k.pw = k.secret
  /\ \A r \in DARequests : daReq[r].pc # "idle" =>
       /\ daReq[r].client \in DAClients /\ daReq[r].users = daReq[r].secret /\ daReq[r].users # 0
       /\ daReq[r].pc = "check" => daReq[r].free /\ daReq[r].from <= daNow
  /\ ~daHist.stale

LockStands ==
  \A c \in DAClients : daNow < daHist.lock[c] /\ ~daHist.raced[c] =>
    daGuard[c].on /\ daGuard[c].lockedUntil >= daHist.lock[c]

DAInv == DATypes /\ (\A c \in DAClients : EntryOK(daGuard[c], daNow)) /\ Together /\ LockStands

\* A client nobody has failed from is not locked.
LEMMA NoGuardIs == NoGuard \in GuardRec /\ ~NoGuard.on /\ NoGuard.lockedUntil = 0 /\ NoGuard.failures = 0
BY DEF NoGuard, GuardRec

\* A thread without a login is idle.
LEMMA NoLoginIs == NoLogin \in Login /\ NoLogin.pc = "idle"
BY DAAssumption DEF NoLogin, Login

\* The invariant holds in the initial states.
LEMMA DAInitial == DAInit => DAInv
<1>. SUFFICES ASSUME DAInit PROVE DAInv
  OBVIOUS
<1>1. DATypes
  BY NoGuardIs, NoLoginIs, DAAssumption DEF DAInit, DATypes
<1>. QED  BY <1>1, NoGuardIs, NoLoginIs DEF DAInit, DAInv, EntryOK, Together, LockStands

\* Time passes: locks end, nothing else changes.
LEMMA DAPasses == DAInv /\ DATick => DAInv'
<1>. SUFFICES ASSUME DAInv, DATick PROVE DAInv'
  OBVIOUS
<1>1. daNow \in Nat /\ daNow' = daNow + 1 /\ daNow' \in 0..DATime
  BY DAAssumption DEF DAInv, DATypes, DATick
<1>2. UNCHANGED <<daGuard, daAccount, daCookies, daReq, daHist>>
  BY DEF DATick
<1>3. DATypes'
  BY <1>1, <1>2 DEF DAInv, DATypes
<1>4. \A c \in DAClients : EntryOK(daGuard'[c], daNow')
  BY <1>1, <1>2 DEF DAInv, DATypes, EntryOK, GuardRec
<1>5. Together'
  BY <1>1, <1>2 DEF DAInv, DATypes, Together, Login
<1>6. LockStands'
  BY <1>1, <1>2 DEF DAInv, DATypes, LockStands
<1>. QED  BY <1>3, <1>4, <1>5, <1>6 DEF DAInv

\* The account changes: a new password comes with a new secret.
LEMMA DAChanged == DAInv /\ AccountChanges => DAInv'
<1>. SUFFICES ASSUME DAInv, AccountChanges PROVE DAInv'
  OBVIOUS
<1>1. daAccount' \in [pw : 1..(DAChanges + 1), secret : 1..(DAChanges + 1)] /\ daAccount'.pw = daAccount'.secret
  BY DAAssumption DEF DAInv, DATypes, Together, AccountChanges
<1>. QED  BY <1>1 DEF DAInv, DATypes, Together, LockStands, AccountChanges

\* A request with a session cookie is checked against both.
LEMMA DACookie == ASSUME DAInv, NEW k \in daCookies, CookieRequest(k) PROVE DAInv'
<1>1. k.pw = daAccount.pw
  BY DEF DAInv, DATypes, Together, CookieRequest
<1>2. daHist' = daHist
  BY <1>1 DEF DAInv, DATypes, Together, CookieRequest
<1>. QED  BY <1>2 DEF DAInv, DATypes, Together, LockStands, CookieRequest

(* A request goes on; nobody's lockout and no cookie is touched.           *)
LEMMA RequestGoesOn ==
  ASSUME DAInv, NEW r \in DARequests, NEW q \in Login, daReq' = [daReq EXCEPT ![r] = q],
         q.pc # "idle" => /\ q.client \in DAClients /\ q.users = q.secret /\ q.users # 0
                          /\ q.pc = "check" => q.free /\ q.from <= daNow,
         UNCHANGED <<daNow, daGuard, daAccount, daCookies, daHist>>
  PROVE  DAInv'
<1>1. DATypes'
  BY DEF DAInv, DATypes
<1>2. Together'
  BY DEF DAInv, DATypes, Together
<1>. QED  BY <1>1, <1>2 DEF DAInv, LockStands, DATypes

\* A login takes its snapshot of the account.
LEMMA DABegins ==
  ASSUME DAInv, NEW r \in DARequests, NEW c \in DAClients, NEW pw \in {0, daAccount.pw}, LoginBegins(r, c, pw)
  PROVE  DAInv'
<1>. DEFINE q == [pc |-> "lock", client |-> c, pw |-> pw, users |-> daAccount.pw,
                  secret |-> daAccount.secret, free |-> FALSE, from |-> 0]
<1>1. /\ q \in Login /\ q.pc = "lock" /\ q.client = c /\ q.users = q.secret /\ q.users # 0
  BY DAAssumption DEF DAInv, DATypes, Together, Login
<1>2. daReq' = [daReq EXCEPT ![r] = q] /\ UNCHANGED <<daNow, daGuard, daAccount, daCookies, daHist>>
  BY DEF LoginBegins
<1>. HIDE DEF q
<1>. QED  BY <1>1, <1>2, RequestGoesOn

\* A login asks whether its client is locked.
LEMMA DALocked == ASSUME DAInv, NEW r \in DARequests, LoginLocked(r) PROVE DAInv'
<1>. DEFINE o == daReq[r]
<1>1. o \in Login /\ o.pc = "lock" /\ o.client \in DAClients /\ o.users = o.secret /\ o.users # 0
  BY DEF DAInv, DATypes, Together, LoginLocked
<1>2. UNCHANGED <<daNow, daGuard, daAccount, daCookies, daHist>>
  BY DEF LoginLocked
<1>3. CASE Locked(o.client)
  <2>1. daReq' = [daReq EXCEPT ![r] = NoLogin]
    BY <1>3 DEF LoginLocked
  <2>. QED  BY <1>2, <2>1, NoLoginIs, RequestGoesOn
<1>4. CASE ~Locked(o.client)
  <2>1. daReq' = [daReq EXCEPT ![r] = Passed(o)]
    BY <1>4 DEF LoginLocked
  <2>2. Passed(o) = [o EXCEPT !.pc = "check", !.free = TRUE, !.from = daNow]
    BY <1>4 DEF Passed
  <2>3. daNow \in Nat
    BY DAAssumption DEF DAInv, DATypes
  <2>. DEFINE o1 == [o EXCEPT !.pc = "check"]
              o2 == [o1 EXCEPT !.free = TRUE]
  <2>4. o1 \in Login /\ o1.pc = "check" /\ o1.client = o.client /\ o1.users = o.users /\ o1.secret = o.secret
    BY <1>1 DEF Login
  <2>5. o2 \in Login /\ o2.free /\ o2.pc = o1.pc /\ o2.client = o1.client /\ o2.users = o1.users /\ o2.secret = o1.secret
    <3>. HIDE DEF o1
    <3>. QED  BY <2>4 DEF Login
  <2>6. Passed(o) = [o2 EXCEPT !.from = daNow]
    BY <1>1, <2>2 DEF Login
  <2>. HIDE DEF o2
  <2>7. /\ Passed(o) \in Login /\ Passed(o).free /\ Passed(o).from = daNow /\ Passed(o).pc = o2.pc
        /\ Passed(o).client = o2.client /\ Passed(o).users = o2.users /\ Passed(o).secret = o2.secret
    BY <2>3, <2>5, <2>6 DEF Login
  <2>. DEFINE q == Passed(o)
  <2>8. /\ q \in Login /\ q.client \in DAClients /\ q.users = q.secret /\ q.users # 0
        /\ q.free /\ q.from <= daNow
    BY <1>1, <2>3, <2>4, <2>5, <2>7
  <2>9. daReq' = [daReq EXCEPT ![r] = q]
    BY <2>1
  <2>. HIDE DEF q
  <2>. QED  BY <1>2, <2>8, <2>9, RequestGoesOn
<1>. QED  BY <1>3, <1>4

(* Eviction makes room only by forgetting what changes nothing.            *)
LEMMA RoomIs ==
  ASSUME DAInv, NEW t \in Nat, t <= daNow
  PROVE  /\ GuardRoom(daGuard, t) \in [DAClients -> GuardRec]
         /\ \A c \in DAClients : EntryOK(GuardRoom(daGuard, t)[c], daNow)
         /\ \A c \in DAClients : daNow < daHist.lock[c] /\ ~daHist.raced[c] =>
              GuardRoom(daGuard, t)[c] = daGuard[c]
<1>. DEFINE g == GuardRoom(daGuard, t)
<1>1. daGuard \in [DAClients -> GuardRec] /\ daNow \in Nat /\ daHist.lock \in [DAClients -> Nat]
  BY DAAssumption DEF DAInv, DATypes
<1>2. DALockout \in Nat /\ DAGuardIdle \in Nat /\ DAGuardIdle >= DALockout
  BY DAAssumption
<1>3. g \in [DAClients -> GuardRec]
      /\ \A c \in DAClients : g[c] = daGuard[c] \/ (g[c] = NoGuard /\ daGuard[c].on /\ t - daGuard[c].seen > DAGuardIdle)
  BY <1>1, NoGuardIs DEF GuardRoom
<1>4. \A c \in DAClients : EntryOK(g[c], daNow)
  BY <1>3, NoGuardIs DEF DAInv, EntryOK
<1>5. ASSUME NEW c \in DAClients, daNow < daHist.lock[c], ~daHist.raced[c] PROVE g[c] = daGuard[c]
  <2>1. daGuard[c].on /\ daGuard[c].lockedUntil >= daHist.lock[c]
    BY <1>5 DEF DAInv, LockStands
  <2>2. daGuard[c].lockedUntil <= daGuard[c].seen + DALockout
    BY <2>1 DEF DAInv, EntryOK
  <2>3. daGuard[c].lockedUntil \in Nat /\ daGuard[c].seen \in Nat /\ daHist.lock[c] \in Nat
    BY <1>1 DEF GuardRec
  <2>4. ~(t - daGuard[c].seen > DAGuardIdle)
    BY <1>1, <1>2, <1>5, <2>1, <2>2, <2>3
  <2>. QED  BY <1>3, <2>4
<1>. HIDE DEF g
<1>6. g = GuardRoom(daGuard, t)
  BY DEF g
<1>. QED  BY <1>3, <1>4, <1>5, <1>6

(* What a failure leaves of the client's entry: one failure more, seen at  *)
(* t, and locked from t on exactly when the failures reached the maximum.  *)
LEMMA FailureIs ==
  ASSUME DAInv, NEW c \in DAClients, NEW t \in Nat, t <= daNow
  PROVE  \E e \in GuardRec :
           /\ RecordFailure(c, t) = [GuardRoom(daGuard, t) EXCEPT ![c] = e]
           /\ e.on /\ EntryOK(e, daNow)
           /\ LockAt(e.failures) => e.lockedUntil = t + DALockout
<1>. DEFINE g == GuardRoom(daGuard, t)
            d == IF ~g[c].on \/ t - g[c].first > DAWindow
                 THEN [NoGuard EXCEPT !.on = TRUE, !.first = t] ELSE g[c]
            n == d.failures + 1
            l == IF LockAt(n) THEN t + DALockout ELSE d.lockedUntil
            e == [d EXCEPT !.failures = n, !.seen = t, !.lockedUntil = l]
<1>1. g \in [DAClients -> GuardRec] /\ EntryOK(g[c], daNow) /\ daNow \in Nat
  BY RoomIs, DAAssumption DEF DAInv, DATypes
<1>2. DALockout \in Nat \ {0} /\ DAMaxFailures \in Nat \ {0}
  BY DAAssumption
<1>3. RecordFailure(c, t) = [g EXCEPT ![c] = e]
  <2>1. RecordFailure(c, t) = [g EXCEPT ![c] = [d EXCEPT !.failures = n, !.seen = t,
                                                 !.lockedUntil = IF LockAt(n) THEN t + DALockout ELSE @]]
    BY DEF RecordFailure
  <2>2. [d EXCEPT !.failures = n, !.seen = t, !.lockedUntil = IF LockAt(n) THEN t + DALockout ELSE @] = e
    OBVIOUS
  <2>. QED  BY <2>1, <2>2
<1>. HIDE DEF g
<1>4. d \in GuardRec /\ d.on /\ d.first <= daNow /\ (d.lockedUntil > 0 <=> d.failures >= DAMaxFailures)
  <2>1. CASE ~g[c].on \/ t - g[c].first > DAWindow
    <3>1. d = [[NoGuard EXCEPT !.on = TRUE] EXCEPT !.first = t]
      BY <2>1 DEF NoGuard
    <3>2. [NoGuard EXCEPT !.on = TRUE] \in GuardRec /\ [NoGuard EXCEPT !.on = TRUE].on
          /\ [NoGuard EXCEPT !.on = TRUE].failures = 0 /\ [NoGuard EXCEPT !.on = TRUE].lockedUntil = 0
      BY NoGuardIs DEF GuardRec, NoGuard
    <3>. DEFINE h == [NoGuard EXCEPT !.on = TRUE]
    <3>3. h \in GuardRec /\ h.on /\ h.failures = 0 /\ h.lockedUntil = 0 /\ d = [h EXCEPT !.first = t]
      BY <3>1, <3>2
    <3>. HIDE DEF h, d
    <3>. QED  BY <1>2, <3>3 DEF GuardRec
  <2>2. CASE g[c].on /\ ~(t - g[c].first > DAWindow)
    BY <1>1, <2>2 DEF EntryOK
  <2>. QED  BY <2>1, <2>2, <1>1 DEF GuardRec
<1>. HIDE DEF d
<1>5. n \in Nat /\ n = d.failures + 1
  BY <1>4 DEF GuardRec
<1>. HIDE DEF n
<1>6. l \in Nat /\ (l > 0 <=> n >= DAMaxFailures) /\ (LockAt(n) => l = t + DALockout)
  BY <1>2, <1>4, <1>5 DEF GuardRec, LockAt
<1>7. ~LockAt(n) => l = 0
  BY <1>2, <1>5, <1>6 DEF LockAt
<1>. HIDE DEF l
<1>8. e \in GuardRec /\ e.on = d.on /\ e.first = d.first /\ e.failures = n /\ e.seen = t /\ e.lockedUntil = l
  BY <1>4, <1>5, <1>6 DEF GuardRec
<1>. HIDE DEF e
<1>9. e.lockedUntil <= e.seen + DALockout
  BY <1>2, <1>6, <1>7, <1>8
<1>10. EntryOK(e, daNow)
  BY <1>4, <1>6, <1>8, <1>9 DEF EntryOK
<1>. QED  BY <1>3, <1>4, <1>6, <1>8, <1>10 DEF g

(* What a request that ends leaves behind: its own slot idle.              *)
LEMMA RequestEnds ==
  ASSUME DAInv, NEW r \in DARequests
  PROVE  /\ [daReq EXCEPT ![r] = NoLogin] \in [DARequests -> Login]
         /\ \A s \in DARequests : [daReq EXCEPT ![r] = NoLogin][s] = daReq[s] \/ [daReq EXCEPT ![r] = NoLogin][s].pc = "idle"
BY NoLoginIs DEF DAInv, DATypes

(* An attempt in flight is remembered as racing a lockout exactly when one *)
(* began after its Locked check.                                           *)
LEMMA OutcomeIs ==
  ASSUME DAInv, NEW r \in DARequests, daReq[r].pc = "check"
  PROVE  /\ Outcome(daReq[r]) \in [lock : [DAClients -> Nat], raced : [DAClients -> BOOLEAN], stale : BOOLEAN]
         /\ Outcome(daReq[r]).lock = daHist.lock /\ ~Outcome(daReq[r]).stale
         /\ \A c \in DAClients : ~Outcome(daReq[r]).raced[c] =>
              /\ ~daHist.raced[c]
              /\ c = daReq[r].client => ~(daNow < daHist.lock[c])
<1>. DEFINE q == daReq[r]
            x == [daHist.raced EXCEPT ![q.client] = TRUE]
<1>1. q.client \in DAClients /\ q.free
  BY DEF DAInv, DATypes, Together
<1>2. daHist \in [lock : [DAClients -> Nat], raced : [DAClients -> BOOLEAN], stale : BOOLEAN] /\ ~daHist.stale
  BY DEF DAInv, DATypes, Together
<1>3. Outcome(q) = IF Raced(q) THEN [daHist EXCEPT !.raced = x] ELSE daHist
  BY <1>2 DEF Outcome
<1>4. x \in [DAClients -> BOOLEAN] /\ x[q.client] /\ \A c \in DAClients : ~x[c] => ~daHist.raced[c] /\ c # q.client
  BY <1>1, <1>2
<1>5. Raced(q) <=> daNow < daHist.lock[q.client]
  BY <1>1 DEF Raced
<1>. HIDE DEF q, x
<1>6. CASE Raced(q)
  BY <1>2, <1>3, <1>4, <1>6 DEF q
<1>7. CASE ~Raced(q)
  BY <1>2, <1>3, <1>5, <1>7 DEF q
<1>. QED  BY <1>6, <1>7

\* A correct password: a cookie of the snapshot, and RecordSuccess.
LEMMA DASucceeds == ASSUME DAInv, NEW r \in DARequests, LoginSucceeds(r) PROVE DAInv'
<1>. DEFINE q == daReq[r]
<1>1. q \in Login /\ q.pc = "check" /\ q.pw = q.users /\ q.client \in DAClients /\ q.users = q.secret /\ q.users # 0
  BY DEF DAInv, DATypes, Together, LoginSucceeds
<1>2. daGuard' = [daGuard EXCEPT ![q.client] = NoGuard] /\ daHist' = Outcome(daReq[r])
      /\ daReq' = [daReq EXCEPT ![r] = NoLogin] /\ UNCHANGED <<daNow, daAccount>>
      /\ daCookies' = daCookies \cup {[secret |-> q.secret, pw |-> q.pw]}
  BY DEF LoginSucceeds, RecordSuccess, CookieSigned
<1>3. daReq' \in [DARequests -> Login] /\ \A s \in DARequests : daReq'[s] = daReq[s] \/ daReq'[s].pc = "idle"
  BY <1>2, RequestEnds
<1>4. /\ daHist' \in [lock : [DAClients -> Nat], raced : [DAClients -> BOOLEAN], stale : BOOLEAN]
      /\ daHist'.lock = daHist.lock /\ ~daHist'.stale
      /\ \A c \in DAClients : ~daHist'.raced[c] => ~daHist.raced[c] /\ (c = q.client => ~(daNow < daHist.lock[c]))
  BY <1>1, <1>2, OutcomeIs
<1>5. [secret |-> q.secret, pw |-> q.pw] \in [secret : 1..(DAChanges + 1), pw : 1..(DAChanges + 1)]
  BY <1>1, DAAssumption DEF Login
<1>6. DATypes'
  BY <1>2, <1>3, <1>4, <1>5, NoGuardIs DEF DAInv, DATypes
<1>7. \A c \in DAClients : EntryOK(daGuard'[c], daNow')
  BY <1>1, <1>2, NoGuardIs DEF DAInv, DATypes, EntryOK
<1>8. \A k \in daCookies' : k.pw = k.secret
  BY <1>1, <1>2 DEF DAInv, Together
<1>9. Together'
  BY <1>2, <1>3, <1>4, <1>8 DEF DAInv, Together
<1>10. LockStands'
  BY <1>1, <1>2, <1>4 DEF DAInv, DATypes, LockStands
<1>. QED  BY <1>6, <1>7, <1>9, <1>10 DEF DAInv

\* A wrong password: RecordFailure, with the clock the attempt read.
LEMMA DAFails == ASSUME DAInv, NEW r \in DARequests, NEW t \in 0..daNow, LoginFails(r, t) PROVE DAInv'
<1>. DEFINE q == daReq[r]
            g == GuardRoom(daGuard, t)
<1>1. q \in Login /\ q.pc = "check" /\ q.client \in DAClients /\ t \in Nat /\ t <= daNow /\ daNow \in Nat
  BY DAAssumption DEF DAInv, DATypes, Together, LoginFails
<1>2. daGuard' = RecordFailure(q.client, t) /\ daReq' = [daReq EXCEPT ![r] = NoLogin]
      /\ UNCHANGED <<daNow, daAccount, daCookies>>
  BY DEF LoginFails
<1>3. PICK e \in GuardRec : /\ daGuard' = [g EXCEPT ![q.client] = e] /\ e.on /\ EntryOK(e, daNow)
                            /\ LockAt(e.failures) => e.lockedUntil = t + DALockout
  BY <1>1, <1>2, FailureIs
<1>4. /\ g \in [DAClients -> GuardRec] /\ \A c \in DAClients : EntryOK(g[c], daNow)
      /\ \A c \in DAClients : daNow < daHist.lock[c] /\ ~daHist.raced[c] => g[c] = daGuard[c]
  BY <1>1, RoomIs
<1>. HIDE DEF g
<1>5. daGuard' \in [DAClients -> GuardRec] /\ daGuard'[q.client] = e
      /\ \A c \in DAClients : c # q.client => daGuard'[c] = g[c]
  BY <1>1, <1>3, <1>4
<1>6. daReq' \in [DARequests -> Login] /\ \A s \in DARequests : daReq'[s] = daReq[s] \/ daReq'[s].pc = "idle"
  BY <1>2, RequestEnds
<1>7. \A c \in DAClients : EntryOK(daGuard'[c], daNow')
  BY <1>1, <1>2, <1>3, <1>4, <1>5
<1>8. daHist \in [lock : [DAClients -> Nat], raced : [DAClients -> BOOLEAN], stale : BOOLEAN] /\ ~daHist.stale
  BY DEF DAInv, DATypes, Together
<1>9. daHist' = IF LockAt(e.failures) /\ e.lockedUntil >= daHist.lock[q.client]
                THEN [daHist EXCEPT !.lock[q.client] = e.lockedUntil, !.raced[q.client] = FALSE]
                ELSE Outcome(q)
  BY <1>5 DEF LoginFails
<1>10. /\ daHist' \in [lock : [DAClients -> Nat], raced : [DAClients -> BOOLEAN], stale : BOOLEAN] /\ ~daHist'.stale
       /\ \A c \in DAClients \ {q.client} : daHist'.lock[c] = daHist.lock[c] /\ (~daHist'.raced[c] => ~daHist.raced[c])
       /\ daNow < daHist'.lock[q.client] /\ ~daHist'.raced[q.client] => daHist'.lock[q.client] = e.lockedUntil
  <2>1. CASE LockAt(e.failures) /\ e.lockedUntil >= daHist.lock[q.client]
    <3>. DEFINE y == [daHist.lock EXCEPT ![q.client] = e.lockedUntil]
                x == [daHist.raced EXCEPT ![q.client] = FALSE]
    <3>1. daHist' = [daHist EXCEPT !.lock = y, !.raced = x]
      BY <1>8, <1>9, <2>1
    <3>2. y \in [DAClients -> Nat] /\ y[q.client] = e.lockedUntil /\ \A c \in DAClients \ {q.client} : y[c] = daHist.lock[c]
      BY <1>1, <1>3, <1>8 DEF GuardRec
    <3>3. x \in [DAClients -> BOOLEAN] /\ \A c \in DAClients \ {q.client} : x[c] = daHist.raced[c]
      BY <1>1, <1>8
    <3>. HIDE DEF x, y
    <3>. QED  BY <1>8, <3>1, <3>2, <3>3
  <2>2. CASE ~(LockAt(e.failures) /\ e.lockedUntil >= daHist.lock[q.client])
    <3>1. daHist' = Outcome(daReq[r])
      BY <1>9, <2>2
    <3>. QED  BY <1>1, <3>1, OutcomeIs
  <2>. QED  BY <2>1, <2>2
<1>11. DATypes'
  BY <1>2, <1>5, <1>6, <1>10 DEF DAInv, DATypes
<1>12. Together'
  BY <1>2, <1>6, <1>10 DEF DAInv, Together
<1>13. LockStands'
  <2>1. ASSUME NEW c \in DAClients, daNow < daHist'.lock[c], ~daHist'.raced[c]
        PROVE  daGuard'[c].on /\ daGuard'[c].lockedUntil >= daHist'.lock[c]
    <3>1. CASE c = q.client
      BY <1>3, <1>5, <1>10, <2>1, <3>1 DEF GuardRec
    <3>2. CASE c # q.client
      BY <1>4, <1>5, <1>10, <2>1, <3>2 DEF DAInv, LockStands
    <3>. QED  BY <3>1, <3>2
  <2>. QED  BY <1>2, <2>1 DEF LockStands
<1>. QED  BY <1>7, <1>11, <1>12, <1>13 DEF DAInv

\* Every step keeps the invariant.
LEMMA DAStep == DAInv /\ [DANext]_DAVars => DAInv'
<1>. SUFFICES ASSUME DAInv, [DANext]_DAVars PROVE DAInv'
  OBVIOUS
<1>1. CASE DATick
  BY <1>1, DAPasses
<1>2. CASE AccountChanges
  BY <1>2, DAChanged
<1>3. CASE \E k \in daCookies : CookieRequest(k)
  BY <1>3, DACookie
<1>4. ASSUME NEW r \in DARequests,
             \/ \E c \in DAClients, pw \in {0, daAccount.pw} : LoginBegins(r, c, pw)
             \/ LoginLocked(r) \/ LoginSucceeds(r) \/ \E t \in 0..daNow : LoginFails(r, t)
      PROVE  DAInv'
  BY <1>4, DABegins, DALocked, DASucceeds, DAFails
<1>5. CASE UNCHANGED DAVars
  BY <1>5 DEF DAVars, DAInv, DATypes, Together, LockStands, EntryOK
<1>. QED  BY <1>1, <1>2, <1>3, <1>4, <1>5 DEF DANext

\* The invariant gives what the component promises.
LEMMA DAHolds == DAInv => AuthSound
<1>. SUFFICES ASSUME DAInv PROVE AuthSound
  OBVIOUS
<1>1. DATypeOK
  <2>1. ASSUME NEW c \in DAClients, daGuard[c].on
        PROVE  /\ {daGuard[c].first, daGuard[c].seen} \subseteq 0..daNow
               /\ daGuard[c].lockedUntil \in 0..(daNow + DALockout)
               /\ daGuard[c].lockedUntil > 0 <=> daGuard[c].failures >= DAMaxFailures
    <3>. DEFINE e == daGuard[c]
    <3>1. e \in GuardRec /\ EntryOK(e, daNow) /\ e.on /\ daNow \in Nat /\ DALockout \in Nat
      BY <2>1, DAAssumption DEF DAInv, DATypes
    <3>. HIDE DEF e
    <3>2. {e.first, e.seen} \subseteq 0..daNow /\ e.lockedUntil \in 0..(daNow + DALockout)
          /\ (e.lockedUntil > 0 <=> e.failures >= DAMaxFailures)
      BY <3>1 DEF EntryOK, GuardRec
    <3>. QED  BY <3>2 DEF e
  <2>. QED  BY <2>1 DEF DATypeOK, DAInv, DATypes
<1>2. LockoutKept
  BY DAAssumption DEF LockoutKept, DAInv, DATypes, LockStands, Locked, GuardRec
<1>. QED  BY <1>1, <1>2 DEF AuthSound, OldSessionsEnd, DAInv, Together

\* For any number of clients, attempts and account changes, and any limits: a
\* lockout runs its course unless an attempt had passed the check before, and
\* a password change ends every session (authorize, RecordFailure,
\* RecordSuccess).
THEOREM AuthHolds == DASpec => []AuthSound
<1>1. DASpec => []DAInv
  BY DAInitial, DAStep, PTL DEF DASpec
<1>. QED  BY <1>1, DAHolds, PTL

-----------------------------------------------------------------------------
(* The banner. BannerSound speaks of the moments when nothing is under     *)
(* way. What carries it there: Promised says that what was acknowledged    *)
(* can be read off file and config, Settled how far one call has come,     *)
(* Rebuilding how far a rebuild has.                                       *)

OpRec == [pc : {"idle", "persist", "save", "fw"}, ip : IBIPs \cup {"none"},
          kind : {"none", "block", "unblock", "quick"}, snap : SUBSET IBIPs]
BannerRec == [auto : SUBSET IBIPs, conf : SUBSET IBIPs, asn : {{}, IBASN}]
BuildRec == [pc : {"idle", "due", "publish", "list", "apply"}, banner : BannerRec, list : SUBSET IBIPs]
ConfRec == [ips : SUBSET IBIPs, saved : SUBSET IBIPs, asn : {{}, IBASN}]
HistRec == [ops : Nat, clean : BOOLEAN, owed : SUBSET IBIPs, lifted : SUBSET IBIPs,
            behind : SUBSET IBIPs, undropped : SUBSET IBIPs]

(* A banner as NewBanner, SetASNs and Block leave it.                      *)
Proper(b) == b.auto \cap (b.conf \cup IBAllowed \cup b.asn) = {}

IBTypes ==
  /\ ibCur \in BannerRec /\ Proper(ibCur)
  /\ ibFile \subseteq IBIPs /\ ibDrop \subseteq IBIPs
  /\ ibConf \in ConfRec /\ ibConf.saved \subseteq ibConf.ips
  /\ ibOp \in [IBThreads -> OpRec]
  /\ \A t \in IBThreads : ibOp[t] /= NoOp =>
       /\ ibOp[t].pc /= "idle" /\ ibOp[t].ip \in IBIPs /\ ibOp[t].kind /= "none"
       /\ ibOp[t].pc = "save" => ibOp[t].kind = "quick"
       /\ ibOp[t].pc = "fw" => ibOp[t].kind /= "quick"
  /\ ibBuild \in BuildRec
  /\ ibBuild.pc = "idle" => ibBuild = NoBuild
  /\ Proper(ibBuild.banner)
  /\ ibHist \in HistRec

Exempt == IBAllowed \cup ibConf.asn
(* The runtime entries that a rebuild would load now.                      *)
Kept == Pruned(ibFile \ ibConf.ips, ibConf.asn)
Rebuilt == [auto |-> Kept, conf |-> ibConf.ips, asn |-> ibConf.asn]
(* The same but for what a failed write left behind.                       *)
Alike(a, b) == a \ ibHist.behind = b \ ibHist.behind

(* What was promised can be read off the file and the config.              *)
Promised ==
  /\ ibHist.owed \subseteq Exempt \cup ibFile \cup ibConf.saved
  /\ ibHist.owed \cap ibConf.ips \subseteq ibConf.saved
  /\ ibHist.lifted \cap (ibConf.ips \cup ibDrop) = {}
  /\ ibHist.lifted \cap ibFile \subseteq Exempt

(* The banner against the config and the promises.                         *)
Follows ==
  /\ ibCur.asn = ibConf.asn /\ ibCur.conf \subseteq ibConf.ips
  /\ ibHist.owed \cap ibHist.behind = {}
  /\ ibHist.lifted \cap (ibCur.auto \cup ibCur.conf) = {}

(* Nothing is under way: the banner is the one that a rebuild would make,  *)
(* but for what a failed write left behind.                                *)
AtRest ==
  /\ ibConf.ips \subseteq ibCur.conf \cup ibHist.behind
  /\ Alike(ibCur.auto, Kept)
  /\ ibDrop \subseteq ibCur.auto \cup ibCur.conf \cup ibHist.undropped
  /\ ibCur.auto \subseteq ibDrop \cup ibHist.undropped

(* One call is under way: the same but for its address.                    *)
Blocking(o) ==
  /\ o.ip \in ibCur.auto /\ o.ip \notin ibHist.lifted
  /\ ibConf.ips \subseteq ibCur.conf \cup ibHist.behind
  /\ ibDrop \subseteq ibCur.auto \cup ibCur.conf \cup ibHist.undropped
  /\ ibCur.auto \subseteq ibDrop \cup ibHist.undropped \cup {o.ip}
  /\ o.pc = "persist" => o.snap = ibCur.auto /\ Alike(ibCur.auto, Kept \cup {o.ip})
  /\ o.pc = "fw" => Alike(ibCur.auto, Kept)
Unblocking(o) ==
  /\ o.ip \notin ibCur.auto /\ o.ip \notin ibHist.owed
  /\ ibConf.ips \subseteq ibCur.conf \cup ibHist.behind
  /\ ibDrop \subseteq ibCur.auto \cup ibCur.conf \cup ibHist.undropped \cup {o.ip}
  /\ ibCur.auto \subseteq ibDrop \cup ibHist.undropped
  /\ o.pc = "persist" => o.snap = ibCur.auto /\ Alike(ibCur.auto, Kept \ {o.ip})
  /\ o.pc = "fw" => Alike(ibCur.auto, Kept)
Quickly(o) ==
  /\ o.ip \notin ibCur.auto \cup ibHist.owed \cup ibHist.lifted /\ o.ip \in ibConf.ips
  /\ ibConf.ips \subseteq ibCur.conf \cup ibHist.behind \cup {o.ip}
  /\ ibDrop \subseteq ibCur.auto \cup ibCur.conf \cup ibHist.undropped \cup {o.ip}
  /\ ibCur.auto \subseteq ibDrop \cup ibHist.undropped
  /\ o.pc = "persist" => o.snap = ibCur.auto
  /\ Alike(ibCur.auto, Kept)

(* Nothing is being rebuilt: at most one call is under way.                *)
Settled ==
  /\ Follows
  /\ \A t, o \in IBThreads : ibOp[t] /= NoOp /\ ibOp[o] /= NoOp => t = o
  /\ (\A t \in IBThreads : ibOp[t] = NoOp) => AtRest
  /\ \A t \in IBThreads :
       /\ ibOp[t].kind = "block" => Blocking(ibOp[t])
       /\ ibOp[t].kind = "unblock" => Unblocking(ibOp[t])
       /\ ibOp[t].kind = "quick" => Quickly(ibOp[t])

(* A rebuild runs alone.                                                   *)
Rebuilding ==
  /\ \A t \in IBThreads : ibOp[t] = NoOp
  /\ ibBuild.pc = "publish" => ibBuild.banner = Rebuilt
  /\ ibBuild.pc \in {"list", "apply"} => ibCur = Rebuilt /\ ibHist.behind = {}
  /\ ibBuild.pc = "apply" => ibBuild.list = Raw(ibCur)

CleanState ==
  ibHist.clean => /\ Promised
                  /\ ibBuild = NoBuild => Settled
                  /\ ibBuild /= NoBuild => Rebuilding

IBInv == IBTypes /\ CleanState

\* What a thread without a call and an empty banner are.
LEMMA Records ==
  /\ NoOp \in OpRec /\ NoOp.pc = "idle" /\ NoOp.kind = "none"
  /\ NoBanner \in BannerRec /\ Proper(NoBanner)
  /\ NoBuild \in BuildRec /\ NoBuild.pc = "idle" /\ NoBuild.banner = NoBanner /\ NoBuild.list = {}
<1>1. NoBanner \in BannerRec /\ Proper(NoBanner)
  BY IBAssumption DEF NoBanner, BannerRec, Proper
<1>. QED  BY <1>1 DEF NoOp, OpRec, NoBuild, BuildRec

\* What a rebuild that was asked for is.
LEMMA DueBuild ==
  LET b == [NoBuild EXCEPT !.pc = "due"] IN
  b \in BuildRec /\ b.pc = "due" /\ b /= NoBuild /\ Proper(b.banner)
BY Records DEF NoBuild, BuildRec

\* The invariant holds in the initial states.
LEMMA IBInitial == IBInit => IBInv
<1>. SUFFICES ASSUME IBInit PROVE IBInv
  OBVIOUS
<1>1. IBTypes
  <2>1. ibHist \in HistRec /\ ibConf \in ConfRec /\ ibConf.saved \subseteq ibConf.ips
    BY IBAssumption DEF IBInit, HistRec, ConfRec
  <2>. QED  BY <2>1, Records DEF IBInit, IBTypes
<1>2. Promised /\ Follows /\ AtRest
  BY DEF IBInit, Promised, Follows, AtRest, Alike, Kept, Pruned, NoBanner
<1>3. Settled
  BY <1>2, Records DEF IBInit, Settled
<1>. QED  BY <1>1, <1>2, <1>3 DEF IBInv, CleanState, IBInit

\* A call begun while another is under way is noted.
LEMMA BegunIs ==
  ASSUME IBInv
  PROVE  /\ Begun(ibHist) \in HistRec
         /\ Begun(ibHist).clean => ibHist.clean /\ Alone
         /\ Begun(ibHist).owed = ibHist.owed /\ Begun(ibHist).lifted = ibHist.lifted
         /\ Begun(ibHist).behind = ibHist.behind /\ Begun(ibHist).undropped = ibHist.undropped
<1>. DEFINE b == ibHist.clean /\ Alone
            h == [ibHist EXCEPT !.ops = @ + 1]
<1>1. b \in BOOLEAN
  BY DEF Alone, IBInv, IBTypes, HistRec
<1>2. /\ h \in HistRec /\ h.owed = ibHist.owed /\ h.lifted = ibHist.lifted
      /\ h.behind = ibHist.behind /\ h.undropped = ibHist.undropped
  BY DEF IBInv, IBTypes, HistRec
<1>3. Begun(ibHist) = [h EXCEPT !.clean = b]
  BY DEF Begun
<1>. HIDE DEF b, h
<1>4. /\ Begun(ibHist) \in HistRec /\ Begun(ibHist).clean = b
      /\ Begun(ibHist).owed = ibHist.owed /\ Begun(ibHist).lifted = ibHist.lifted
      /\ Begun(ibHist).behind = ibHist.behind /\ Begun(ibHist).undropped = ibHist.undropped
  BY <1>1, <1>2, <1>3 DEF HistRec
<1>. QED  BY <1>4 DEF b

\* With nothing under way, banner, file, config and packet filter agree.
LEMMA Alones == ASSUME IBInv, Alone, ibHist.clean
  PROVE  /\ ibBuild = NoBuild /\ \A t \in IBThreads : ibOp[t] = NoOp
         /\ Promised /\ Follows /\ AtRest
BY DEF Alone, IBInv, CleanState, Settled

\* A state in which nothing is under way is settled.
LEMMA NoCallSettles ==
  ASSUME Promised', Follows', AtRest', ibBuild' = NoBuild, \A t \in IBThreads : ibOp'[t] = NoOp
  PROVE  CleanState'
BY Records DEF CleanState, Settled

\* A state with one call is settled when that call is.
LEMMA OneCallSettles ==
  ASSUME Promised', Follows', ibBuild' = NoBuild, NEW t \in IBThreads, ibOp'[t] /= NoOp,
         \A x \in IBThreads \ {t} : ibOp'[x] = NoOp,
         ibOp'[t].kind = "block" => Blocking(ibOp[t])',
         ibOp'[t].kind = "unblock" => Unblocking(ibOp[t])',
         ibOp'[t].kind = "quick" => Quickly(ibOp[t])'
  PROVE  CleanState'
<1>1. \A x \in IBThreads : x /= t => ibOp'[x].kind = "none"
  BY Records
<1>2. \A x \in IBThreads :
        /\ ibOp'[x].kind = "block" => Blocking(ibOp[x])'
        /\ ibOp'[x].kind = "unblock" => Unblocking(ibOp[x])'
        /\ ibOp'[x].kind = "quick" => Quickly(ibOp[x])'
  BY <1>1
<1>. QED  BY <1>2 DEF CleanState, Settled

\* A state in which a rebuild is due is one.
LEMMA Dues ==
  ASSUME Promised', ibBuild' = [NoBuild EXCEPT !.pc = "due"], \A t \in IBThreads : ibOp'[t] = NoOp
  PROVE  CleanState'
BY DueBuild DEF CleanState, Rebuilding

\* Block takes the client into the banner.
LEMMA IBBlocks == ASSUME IBInv, NEW t \in IBThreads, NEW ip \in IBIPs, BlockBegins(t, ip) PROVE IBInv'
<1>. DEFINE o == [pc |-> "persist", ip |-> ip, kind |-> "block", snap |-> BlockSnapshot(ip)]
            auto == ibCur.auto \cup {ip}
<1>1. /\ o \in OpRec /\ o.pc = "persist" /\ o.ip = ip /\ o.kind = "block" /\ o.snap = auto
      /\ ibOp' = [ibOp EXCEPT ![t] = o] /\ ibOp[t] = NoOp
      /\ o /= NoOp
  BY Records DEF BlockBegins, BlockSnapshot, OpRec, IBInv, IBTypes, BannerRec, NoOp
<1>2. /\ ibCur'.auto = auto /\ ibCur'.conf = ibCur.conf /\ ibCur'.asn = ibCur.asn /\ ibCur' \in BannerRec
      /\ ip \notin IBAllowed \cup ibCur.asn \cup ibCur.conf \cup ibCur.auto
  BY DEF BlockBegins, IBInv, IBTypes, BannerRec, Never, Raw
<1>3. /\ ibHist' \in HistRec
      /\ ibHist'.clean => ibHist.clean /\ Alone
      /\ ibHist'.owed = ibHist.owed /\ ibHist'.lifted = ibHist.lifted \ {ip}
      /\ ibHist'.behind = ibHist.behind /\ ibHist'.undropped = ibHist.undropped
  <2>. DEFINE h == Begun(ibHist)
  <2>1. ibHist' = [h EXCEPT !.lifted = h.lifted \ {ip}]
    BY DEF BlockBegins
  <2>2. /\ h \in HistRec
        /\ h.clean => ibHist.clean /\ Alone
        /\ h.owed = ibHist.owed /\ h.lifted = ibHist.lifted
        /\ h.behind = ibHist.behind /\ h.undropped = ibHist.undropped
    BY BegunIs
  <2>. HIDE DEF h
  <2>. QED  BY <2>1, <2>2 DEF HistRec
<1>4. UNCHANGED <<ibFile, ibDrop, ibConf, ibBuild>>
  BY DEF BlockBegins
<1>. HIDE DEF o
<1>5. ibOp'[t] = o /\ \A x \in IBThreads : x /= t => ibOp'[x] = ibOp[x]
  BY <1>1 DEF IBInv, IBTypes
<1>6. IBTypes'
  BY <1>1, <1>2, <1>3, <1>4 DEF IBInv, IBTypes, Proper
<1>7. ASSUME ibHist'.clean PROVE CleanState'
  <2>1. ibBuild = NoBuild /\ (\A x \in IBThreads : ibOp[x] = NoOp) /\ Promised /\ Follows /\ AtRest
    BY <1>3, <1>7, Alones
  <2>2. Promised'
    BY <1>3, <1>4, <2>1 DEF Promised, Exempt
  <2>3. Follows'
    BY <1>2, <1>3, <1>4, <2>1 DEF Follows
  <2>4. Kept' = Kept
    BY <1>4 DEF Kept
  <2>5. Blocking(ibOp[t])'
    BY <1>1, <1>2, <1>3, <1>4, <1>5, <2>1, <2>4 DEF Blocking, AtRest, Alike
  <2>. QED  BY <1>1, <1>4, <1>5, <2>1, <2>2, <2>3, <2>5, OneCallSettles
<1>. QED  BY <1>6, <1>7 DEF IBInv, CleanState

\* Unblock takes the client out of the banner.
LEMMA IBUnblocks == ASSUME IBInv, NEW t \in IBThreads, NEW ip \in IBIPs, UnblockBegins(t, ip) PROVE IBInv'
<1>. DEFINE auto == ibCur.auto \ {ip}
            o == IF ip \in ibCur.auto
                 THEN [pc |-> "persist", ip |-> ip, kind |-> "unblock", snap |-> UnblockSnapshot(ip)]
                 ELSE [pc |-> "fw", ip |-> ip, kind |-> "unblock", snap |-> {}]
<1>1. /\ o \in OpRec /\ o.ip = ip /\ o.kind = "unblock" /\ o /= NoOp
      /\ o.pc = IF ip \in ibCur.auto THEN "persist" ELSE "fw"
      /\ ip \in ibCur.auto => o.snap = auto
      /\ ibOp' = [ibOp EXCEPT ![t] = o] /\ ibOp[t] = NoOp
  BY Records DEF UnblockBegins, UnblockSnapshot, OpRec, IBInv, IBTypes, BannerRec, NoOp
<1>2. /\ ibCur'.auto = auto /\ ibCur'.conf = ibCur.conf /\ ibCur'.asn = ibCur.asn /\ ibCur' \in BannerRec
  BY DEF UnblockBegins, IBInv, IBTypes, BannerRec
<1>3. /\ ibHist' \in HistRec
      /\ ibHist'.clean => ibHist.clean /\ Alone
      /\ ibHist'.owed = ibHist.owed \ {ip} /\ ibHist'.lifted = ibHist.lifted
      /\ ibHist'.behind = ibHist.behind /\ ibHist'.undropped = ibHist.undropped
  <2>. DEFINE h == Begun(ibHist)
  <2>1. ibHist' = [h EXCEPT !.owed = h.owed \ {ip}]
    BY DEF UnblockBegins
  <2>2. /\ h \in HistRec
        /\ h.clean => ibHist.clean /\ Alone
        /\ h.owed = ibHist.owed /\ h.lifted = ibHist.lifted
        /\ h.behind = ibHist.behind /\ h.undropped = ibHist.undropped
    BY BegunIs
  <2>. HIDE DEF h
  <2>. QED  BY <2>1, <2>2 DEF HistRec
<1>4. UNCHANGED <<ibFile, ibDrop, ibConf, ibBuild>>
  BY DEF UnblockBegins
<1>. HIDE DEF o
<1>5. ibOp'[t] = o /\ \A x \in IBThreads : x /= t => ibOp'[x] = ibOp[x]
  BY <1>1 DEF IBInv, IBTypes
<1>6. IBTypes'
  BY <1>1, <1>2, <1>3, <1>4 DEF IBInv, IBTypes, Proper
<1>7. ASSUME ibHist'.clean PROVE CleanState'
  <2>1. ibBuild = NoBuild /\ (\A x \in IBThreads : ibOp[x] = NoOp) /\ Promised /\ Follows /\ AtRest
    BY <1>3, <1>7, Alones
  <2>2. Promised'
    BY <1>3, <1>4, <2>1 DEF Promised, Exempt
  <2>3. Follows'
    BY <1>2, <1>3, <1>4, <2>1 DEF Follows
  <2>4. Kept' = Kept
    BY <1>4 DEF Kept
  <2>5. Unblocking(ibOp[t])'
    BY <1>1, <1>2, <1>3, <1>4, <1>5, <2>1, <2>4 DEF Unblocking, AtRest, Alike
  <2>. QED  BY <1>1, <1>4, <1>5, <2>1, <2>2, <2>3, <2>5, OneCallSettles
<1>. QED  BY <1>6, <1>7 DEF IBInv, CleanState

\* geoBlockIP takes the client into the config and out of the banner.
LEMMA IBQuick == ASSUME IBInv, NEW t \in IBThreads, NEW ip \in IBIPs, QuickBlock(t, ip) PROVE IBInv'
<1>. DEFINE auto == ibCur.auto \ {ip}
            o == [pc |-> IF ip \in ibCur.auto THEN "persist" ELSE "save",
                  ip |-> ip, kind |-> "quick", snap |-> ibCur.auto \ {ip}]
<1>1. /\ o \in OpRec /\ o.ip = ip /\ o.kind = "quick" /\ o /= NoOp /\ o.pc \in {"persist", "save"} /\ o.snap = auto
      /\ ibOp[t] = NoOp /\ ibOp' = [ibOp EXCEPT ![t] = o]
  BY Records DEF QuickBlock, OpRec, IBInv, IBTypes, BannerRec, NoOp
<1>2. /\ ibCur'.auto = auto /\ ibCur'.conf = ibCur.conf /\ ibCur'.asn = ibCur.asn /\ ibCur' \in BannerRec
  BY DEF QuickBlock, IBInv, IBTypes, BannerRec
<1>3. /\ ibHist' \in HistRec
      /\ ibHist'.clean => ibHist.clean /\ Alone
      /\ ibHist'.owed = ibHist.owed \ {ip} /\ ibHist'.lifted = ibHist.lifted \ {ip}
      /\ ibHist'.behind = ibHist.behind /\ ibHist'.undropped = ibHist.undropped
  <2>. DEFINE h == Begun(ibHist)
  <2>1. ibHist' = [h EXCEPT !.owed = h.owed \ {ip}, !.lifted = h.lifted \ {ip}]
    BY DEF QuickBlock
  <2>2. /\ h \in HistRec
        /\ h.clean => ibHist.clean /\ Alone
        /\ h.owed = ibHist.owed /\ h.lifted = ibHist.lifted
        /\ h.behind = ibHist.behind /\ h.undropped = ibHist.undropped
    BY BegunIs
  <2>. HIDE DEF h
  <2>. QED  BY <2>1, <2>2 DEF HistRec
<1>4. UNCHANGED <<ibFile, ibDrop, ibBuild>>
  BY DEF QuickBlock
<1>5. /\ ibConf'.ips = ibConf.ips \cup {ip} /\ ibConf'.saved = ibConf.saved /\ ibConf'.asn = ibConf.asn
      /\ ibConf' \in ConfRec
  BY DEF QuickBlock, IBInv, IBTypes, ConfRec
<1>. HIDE DEF o
<1>6. ibOp'[t] = o /\ \A x \in IBThreads : x /= t => ibOp'[x] = ibOp[x]
  BY <1>1 DEF IBInv, IBTypes
<1>7. IBTypes'
  BY <1>1, <1>2, <1>3, <1>4, <1>5 DEF IBInv, IBTypes, Proper
<1>8. ASSUME ibHist'.clean PROVE CleanState'
  <2>1. ibBuild = NoBuild /\ (\A x \in IBThreads : ibOp[x] = NoOp) /\ Promised /\ Follows /\ AtRest
    BY <1>3, <1>8, Alones
  <2>2. Promised'
    BY <1>3, <1>4, <1>5, <2>1 DEF Promised, Exempt
  <2>3. Follows'
    BY <1>2, <1>3, <1>4, <1>5, <2>1 DEF Follows
  <2>4. Kept' = Kept \ {ip}
    BY <1>4, <1>5 DEF Kept, Pruned
  <2>5. Quickly(ibOp[t])'
    BY <1>1, <1>2, <1>3, <1>4, <1>5, <1>6, <2>1, <2>4 DEF Quickly, AtRest, Alike
  <2>. QED  BY <1>1, <1>4, <1>6, <2>1, <2>2, <2>3, <2>5, OneCallSettles
<1>. QED  BY <1>7, <1>8 DEF IBInv, CleanState

\* A call that is past its beginning is the only one, with no rebuild.
LEMMA CallAlone ==
  ASSUME IBInv, ibHist.clean, NEW t \in IBThreads, ibOp[t] /= NoOp
  PROVE  /\ ibBuild = NoBuild /\ Promised /\ Follows /\ \A x \in IBThreads : x /= t => ibOp[x] = NoOp
         /\ ibOp[t].kind \in {"block", "unblock", "quick"}
         /\ ibOp[t].kind = "block" => Blocking(ibOp[t])
         /\ ibOp[t].kind = "unblock" => Unblocking(ibOp[t])
         /\ ibOp[t].kind = "quick" => Quickly(ibOp[t])
<1>1. ibBuild = NoBuild /\ Settled /\ Promised
  BY DEF IBInv, CleanState, Rebuilding
<1>2. ibOp[t].kind \in {"block", "unblock", "quick"}
  BY DEF IBInv, IBTypes, OpRec
<1>. QED  BY <1>1, <1>2 DEF Settled

\* What a write leaves in the file and in the history.
LEMMA Written ==
  ASSUME IBInv, NEW t \in IBThreads, NEW ok \in BOOLEAN, NEW file \in (SUBSET ibOp[t].snap) \cup {ibFile},
         Persists(t, file, ok)
  PROVE  LET o == ibOp[t] IN
         /\ o \in OpRec /\ o.pc = "persist" /\ o /= NoOp /\ o.ip \in IBIPs /\ o.kind /= "none"
         /\ (ibFile' \subseteq o.snap \/ ibFile' = ibFile) /\ (ok => ibFile' = o.snap)
         /\ UNCHANGED <<ibCur, ibDrop, ibConf, ibBuild>>
         /\ ibHist' \in HistRec /\ ibHist'.clean = ibHist.clean /\ ibHist'.lifted = ibHist.lifted
         /\ ibHist'.behind = IF ok THEN ibHist.behind
                             ELSE ibHist.behind \cup (o.snap \ ibFile') \cup (IF o.kind = "quick" THEN {} ELSE {o.ip})
         /\ ibHist'.undropped = IF ok \/ o.kind = "quick" THEN ibHist.undropped ELSE ibHist.undropped \cup {o.ip}
         /\ ibHist'.owed = (IF ok /\ o.kind = "block" THEN ibHist.owed \cup {o.ip} ELSE ibHist.owed) \ ibHist'.behind
<1>. DEFINE o == ibOp[t]
            behind == IF ok THEN ibHist.behind
                      ELSE ibHist.behind \cup (o.snap \ file) \cup (IF o.kind = "quick" THEN {} ELSE {o.ip})
            undropped == IF ok \/ o.kind = "quick" THEN ibHist.undropped ELSE ibHist.undropped \cup {o.ip}
            owed == (IF ok /\ o.kind = "block" THEN ibHist.owed \cup {o.ip} ELSE ibHist.owed) \ behind
<1>1. o \in OpRec /\ o.pc = "persist" /\ o /= NoOp /\ o.ip \in IBIPs /\ o.kind /= "none" /\ o.snap \subseteq IBIPs
  BY Records DEF Persists, IBInv, IBTypes, OpRec
<1>2. /\ ibFile' = file /\ (ok => file = o.snap) /\ UNCHANGED <<ibCur, ibDrop, ibConf, ibBuild>>
      /\ ibHist' = [ibHist EXCEPT !.behind = behind, !.undropped = undropped, !.owed = owed]
  BY DEF Persists
<1>3. behind \in SUBSET IBIPs /\ undropped \in SUBSET IBIPs /\ owed \in SUBSET IBIPs
  BY <1>1 DEF IBInv, IBTypes, HistRec
<1>. HIDE DEF behind, undropped, owed
<1>4. /\ ibHist' \in HistRec /\ ibHist'.clean = ibHist.clean /\ ibHist'.lifted = ibHist.lifted
      /\ ibHist'.behind = behind /\ ibHist'.undropped = undropped /\ ibHist'.owed = owed
  BY <1>2, <1>3 DEF IBInv, IBTypes, HistRec
<1>5. ibFile' \subseteq o.snap \/ ibFile' = ibFile
  BY <1>2
<1>6. ibHist'.owed = (IF ok /\ o.kind = "block" THEN ibHist.owed \cup {o.ip} ELSE ibHist.owed) \ ibHist'.behind
  BY <1>4 DEF owed
<1>7. ibHist'.behind = IF ok THEN ibHist.behind
                       ELSE ibHist.behind \cup (o.snap \ ibFile') \cup (IF o.kind = "quick" THEN {} ELSE {o.ip})
  BY <1>2, <1>4 DEF behind
<1>8. ibHist'.undropped = IF ok \/ o.kind = "quick" THEN ibHist.undropped ELSE ibHist.undropped \cup {o.ip}
  BY <1>4 DEF undropped
<1>9. ok => ibFile' = o.snap
  BY <1>2
<1>. QED  BY <1>1, <1>2, <1>4, <1>5, <1>6, <1>7, <1>8, <1>9

\* The call writes the file, which may fail.
LEMMA IBPersists ==
  ASSUME IBInv, NEW t \in IBThreads, NEW ok \in BOOLEAN, NEW file \in (SUBSET ibOp[t].snap) \cup {ibFile},
         Persists(t, file, ok)
  PROVE  IBInv'
<1>. DEFINE o == ibOp[t]
            q == IF o.kind = "quick" THEN [o EXCEPT !.pc = "save"] ELSE IF ok THEN [o EXCEPT !.pc = "fw"] ELSE NoOp
<1>1. /\ o \in OpRec /\ o.pc = "persist" /\ o /= NoOp /\ o.ip \in IBIPs /\ o.kind /= "none"
      /\ (ibFile' \subseteq o.snap \/ ibFile' = ibFile) /\ (ok => ibFile' = o.snap)
      /\ UNCHANGED <<ibCur, ibDrop, ibConf, ibBuild>>
      /\ ibHist' \in HistRec /\ ibHist'.clean = ibHist.clean /\ ibHist'.lifted = ibHist.lifted
      /\ ibHist'.behind = IF ok THEN ibHist.behind
                          ELSE ibHist.behind \cup (o.snap \ ibFile') \cup (IF o.kind = "quick" THEN {} ELSE {o.ip})
      /\ ibHist'.undropped = IF ok \/ o.kind = "quick" THEN ibHist.undropped ELSE ibHist.undropped \cup {o.ip}
      /\ ibHist'.owed = (IF ok /\ o.kind = "block" THEN ibHist.owed \cup {o.ip} ELSE ibHist.owed) \ ibHist'.behind
  BY Written
<1>2. /\ q \in OpRec
      /\ o.kind = "quick" => q /= NoOp /\ q.pc = "save" /\ q.ip = o.ip /\ q.kind = "quick"
      /\ ok /\ o.kind /= "quick" => q /= NoOp /\ q.pc = "fw" /\ q.ip = o.ip /\ q.kind = o.kind
      /\ ~ok /\ o.kind /= "quick" => q = NoOp
  BY <1>1, Records DEF OpRec
<1>3. ibOp' = [ibOp EXCEPT ![t] = q] /\ ibOp'[t] = q /\ \A x \in IBThreads : x /= t => ibOp'[x] = ibOp[x]
  BY <1>1 DEF Persists, IBInv, IBTypes
<1>. HIDE DEF q
<1>4. IBTypes'
  <2>1. ibFile' \subseteq IBIPs
    BY <1>1 DEF OpRec, IBInv, IBTypes
  <2>2. \A x \in IBThreads : ibOp'[x] /= NoOp =>
          /\ ibOp'[x].pc /= "idle" /\ ibOp'[x].ip \in IBIPs /\ ibOp'[x].kind /= "none"
          /\ ibOp'[x].pc = "save" => ibOp'[x].kind = "quick"
          /\ ibOp'[x].pc = "fw" => ibOp'[x].kind /= "quick"
    BY <1>1, <1>2, <1>3 DEF IBInv, IBTypes
  <2>3. ibOp' \in [IBThreads -> OpRec]
    BY <1>2, <1>3 DEF IBInv, IBTypes
  <2>. QED  BY <1>1, <2>1, <2>2, <2>3 DEF IBInv, IBTypes
<1>5. ASSUME ibHist'.clean PROVE CleanState'
  <2>1. /\ ibBuild' = NoBuild /\ Promised /\ Follows /\ (\A x \in IBThreads : x /= t => ibOp'[x] = NoOp)
        /\ o.kind \in {"block", "unblock", "quick"}
        /\ o.kind = "block" => Blocking(o)
        /\ o.kind = "unblock" => Unblocking(o)
        /\ o.kind = "quick" => Quickly(o)
    BY <1>1, <1>3, <1>5, CallAlone
  <2>2. /\ ibCur.auto \cap Exempt = {} /\ Exempt' = Exempt /\ ibCur.auto \cap ibCur.conf = {}
    BY <1>1, <2>1 DEF Follows, IBInv, IBTypes, Proper, Exempt
  <2>3. Kept = (ibFile \ ibConf.ips) \ Exempt /\ Kept' = (ibFile' \ ibConf.ips) \ Exempt
    BY <1>1 DEF Kept, Pruned, Exempt
  <2>4. Follows'
    BY <1>1, <2>1 DEF Follows, Blocking
  <2>5. CASE o.kind = "block"
    <3>1. Blocking(o) /\ o.snap = ibCur.auto /\ Alike(ibCur.auto, Kept \cup {o.ip})
      BY <1>1, <2>1, <2>5 DEF Blocking
    <3>2. Promised'
      BY <1>1, <2>1, <2>2, <2>3, <2>5, <3>1 DEF Promised, Blocking, Alike, Follows
    <3>3. Alike(ibCur.auto, Kept)'
      BY <1>1, <2>2, <2>3, <2>5, <3>1 DEF Alike, Blocking
    <3>4. CASE ok
      <4>1. ibOp'[t] /= NoOp /\ ibOp'[t].kind = "block" /\ ibOp'[t].ip = o.ip /\ ibOp'[t].pc = "fw"
        BY <1>2, <1>3, <2>5, <3>4
      <4>2. Blocking(ibOp[t])'
        BY <1>1, <3>1, <3>3, <3>4, <4>1 DEF Blocking
      <4>. QED  BY <2>1, <2>4, <3>2, <4>1, <4>2, OneCallSettles
    <3>5. CASE ~ok
      <4>1. \A x \in IBThreads : ibOp'[x] = NoOp
        BY <1>2, <1>3, <2>1, <2>5, <3>5
      <4>2. AtRest'
        BY <1>1, <2>5, <3>1, <3>3, <3>5 DEF Blocking, AtRest
      <4>. QED  BY <2>1, <2>4, <3>2, <4>1, <4>2, NoCallSettles
    <3>. QED  BY <3>4, <3>5
  <2>6. CASE o.kind = "unblock"
    <3>1. Unblocking(o) /\ o.snap = ibCur.auto /\ Alike(ibCur.auto, Kept \ {o.ip})
      BY <1>1, <2>1, <2>6 DEF Unblocking
    <3>2. Promised'
      BY <1>1, <2>1, <2>2, <2>3, <2>6, <3>1 DEF Promised, Unblocking, Alike, Follows
    <3>3. Alike(ibCur.auto, Kept)'
      BY <1>1, <2>2, <2>3, <2>6, <3>1 DEF Alike, Unblocking
    <3>4. CASE ok
      <4>1. ibOp'[t] /= NoOp /\ ibOp'[t].kind = "unblock" /\ ibOp'[t].ip = o.ip /\ ibOp'[t].pc = "fw"
        BY <1>2, <1>3, <2>6, <3>4
      <4>2. Unblocking(ibOp[t])'
        BY <1>1, <2>6, <3>1, <3>3, <3>4, <4>1 DEF Unblocking
      <4>. QED  BY <2>1, <2>4, <3>2, <4>1, <4>2, OneCallSettles
    <3>5. CASE ~ok
      <4>1. \A x \in IBThreads : ibOp'[x] = NoOp
        BY <1>2, <1>3, <2>1, <2>6, <3>5
      <4>2. AtRest'
        BY <1>1, <2>6, <3>1, <3>3, <3>5 DEF Unblocking, AtRest
      <4>. QED  BY <2>1, <2>4, <3>2, <4>1, <4>2, NoCallSettles
    <3>. QED  BY <3>4, <3>5
  <2>7. CASE o.kind = "quick"
    <3>1. Quickly(o) /\ o.snap = ibCur.auto /\ Alike(ibCur.auto, Kept)
      BY <1>1, <2>1, <2>7 DEF Quickly
    <3>2. Promised'
      BY <1>1, <2>1, <2>2, <2>3, <2>7, <3>1 DEF Promised, Quickly, Alike, Follows
    <3>3. Alike(ibCur.auto, Kept)'
      BY <1>1, <2>2, <2>3, <2>7, <3>1 DEF Alike, Quickly
    <3>4. ibOp'[t] /= NoOp /\ ibOp'[t].kind = "quick" /\ ibOp'[t].ip = o.ip /\ ibOp'[t].pc = "save"
      BY <1>2, <1>3, <2>7
    <3>5. Quickly(ibOp[t])'
      BY <1>1, <2>7, <3>1, <3>3, <3>4 DEF Quickly
    <3>. QED  BY <2>1, <2>4, <3>2, <3>4, <3>5, OneCallSettles
  <2>. QED  BY <2>1, <2>5, <2>6, <2>7
<1>. QED  BY <1>4, <1>5 DEF IBInv, CleanState

\* The call tells the packet filter, which may fail.
LEMMA IBFollows == ASSUME IBInv, NEW t \in IBThreads, NEW ok \in BOOLEAN, FirewallFollows(t, ok) PROVE IBInv'
<1>. DEFINE o == ibOp[t]
            lifted == IF o.kind = "unblock" /\ ok /\ o.ip \notin ibConf.ips \cup ibHist.behind
                      THEN ibHist.lifted \cup {o.ip} ELSE ibHist.lifted
            undropped == IF ok THEN ibHist.undropped ELSE ibHist.undropped \cup {o.ip}
<1>1. o \in OpRec /\ o.pc = "fw" /\ o /= NoOp /\ o.ip \in IBIPs /\ o.kind \in {"block", "unblock"}
  BY Records DEF FirewallFollows, IBInv, IBTypes, OpRec
<1>2. ibOp' = [ibOp EXCEPT ![t] = NoOp] /\ ibOp'[t] = NoOp /\ \A x \in IBThreads : x /= t => ibOp'[x] = ibOp[x]
  BY DEF FirewallFollows, IBInv, IBTypes
<1>3. /\ ibDrop' = IF ~ok THEN ibDrop ELSE IF o.kind = "block" THEN ibDrop \cup {o.ip} ELSE ibDrop \ {o.ip}
      /\ UNCHANGED <<ibCur, ibFile, ibConf, ibBuild>>
  BY DEF FirewallFollows
<1>4. /\ ibHist' \in HistRec /\ ibHist'.clean = ibHist.clean /\ ibHist'.owed = ibHist.owed
      /\ ibHist'.behind = ibHist.behind /\ ibHist'.lifted = lifted /\ ibHist'.undropped = undropped
  <2>1. lifted \in SUBSET IBIPs /\ undropped \in SUBSET IBIPs
    BY <1>1 DEF IBInv, IBTypes, HistRec
  <2>2. ibHist' = [ibHist EXCEPT !.undropped = undropped, !.lifted = lifted]
    BY DEF FirewallFollows
  <2>. HIDE DEF lifted, undropped
  <2>. QED  BY <2>1, <2>2 DEF IBInv, IBTypes, HistRec
<1>5. IBTypes'
  BY <1>1, <1>2, <1>3, <1>4, Records DEF IBInv, IBTypes
<1>6. ASSUME ibHist'.clean PROVE CleanState'
  <2>1. /\ ibBuild' = NoBuild /\ Promised /\ Follows /\ (\A x \in IBThreads : ibOp'[x] = NoOp)
        /\ o.kind = "block" => Blocking(o)
        /\ o.kind = "unblock" => Unblocking(o)
    BY <1>1, <1>2, <1>3, <1>4, <1>6, CallAlone
  <2>2. Kept' = Kept /\ Exempt' = Exempt /\ Kept = (ibFile \ ibConf.ips) \ Exempt
    BY <1>3 DEF Kept, Pruned, Exempt
  <2>3. CASE o.kind = "block"
    <3>1. Promised'
      BY <1>3, <1>4, <2>1, <2>2, <2>3 DEF Promised, Blocking
    <3>2. Follows' /\ AtRest'
      BY <1>1, <1>3, <1>4, <2>1, <2>2, <2>3 DEF Follows, AtRest, Blocking, Alike
    <3>. QED  BY <2>1, <3>1, <3>2, NoCallSettles
  <2>4. CASE o.kind = "unblock"
    <3>1. Unblocking(o) /\ Alike(ibCur.auto, Kept)
      BY <1>1, <2>1, <2>4 DEF Unblocking
    <3>2. lifted \subseteq ibHist.lifted \cup ({o.ip} \ (ibConf.ips \cup ibHist.behind)) /\ (o.ip \in lifted \ ibHist.lifted => ok)
      OBVIOUS
    <3>. HIDE DEF lifted
    <3>3. Promised'
      BY <1>3, <1>4, <2>1, <2>2, <2>4, <3>1, <3>2 DEF Promised, Unblocking, Alike
    <3>4. Follows'
      BY <1>3, <1>4, <2>1, <3>1, <3>2 DEF Follows, Unblocking
    <3>5. AtRest'
      BY <1>3, <1>4, <2>2, <2>4, <3>1 DEF AtRest, Unblocking, Alike
    <3>. QED  BY <2>1, <3>3, <3>4, <3>5, NoCallSettles
  <2>. QED  BY <1>1, <2>3, <2>4
<1>. QED  BY <1>5, <1>6 DEF IBInv, CleanState

\* The config is saved, which may fail, and a rebuild asked for.
LEMMA IBSaves == ASSUME IBInv, NEW t \in IBThreads, NEW ok \in BOOLEAN, QuickSaves(t, ok) PROVE IBInv'
<1>. DEFINE o == ibOp[t]
<1>1. o \in OpRec /\ o.pc = "save" /\ o /= NoOp /\ o.ip \in IBIPs /\ o.kind = "quick"
  BY Records DEF QuickSaves, IBInv, IBTypes
<1>2. ibOp' = [ibOp EXCEPT ![t] = NoOp] /\ ibOp'[t] = NoOp /\ \A x \in IBThreads : x /= t => ibOp'[x] = ibOp[x]
  BY DEF QuickSaves, IBInv, IBTypes
<1>3. UNCHANGED <<ibCur, ibFile, ibDrop>>
  BY DEF QuickSaves
<1>4. CASE ok
  <2>1. /\ ibBuild' = [NoBuild EXCEPT !.pc = "due"]
        /\ ibConf' = [ibConf EXCEPT !.saved = ibConf.ips] /\ ibHist' = [ibHist EXCEPT !.owed = @ \cup {o.ip}]
    BY <1>4 DEF QuickSaves
  <2>2. /\ ibConf'.ips = ibConf.ips /\ ibConf'.saved = ibConf.ips /\ ibConf'.asn = ibConf.asn /\ ibConf' \in ConfRec
    BY <2>1 DEF IBInv, IBTypes, ConfRec
  <2>3. /\ ibHist' \in HistRec /\ ibHist'.clean = ibHist.clean /\ ibHist'.lifted = ibHist.lifted
        /\ ibHist'.owed = ibHist.owed \cup {o.ip}
    BY <1>1, <2>1 DEF IBInv, IBTypes, HistRec
  <2>4. IBTypes'
    BY <1>2, <1>3, <2>1, <2>2, <2>3, Records, DueBuild DEF IBInv, IBTypes
  <2>5. ASSUME ibHist'.clean PROVE CleanState'
    <3>1. Promised /\ (\A x \in IBThreads : ibOp'[x] = NoOp) /\ Quickly(o)
      BY <1>1, <1>2, <2>3, <2>5, CallAlone
    <3>2. Promised'
      BY <1>3, <2>2, <2>3, <3>1 DEF Promised, Exempt, Quickly, IBInv, IBTypes
    <3>. QED  BY <2>1, <3>1, <3>2, Dues
  <2>. QED  BY <2>4, <2>5 DEF IBInv, CleanState
<1>5. CASE ~ok
  <2>1. /\ UNCHANGED <<ibConf, ibBuild>>
        /\ ibHist' = [ibHist EXCEPT !.behind = @ \cup {o.ip}, !.undropped = @ \cup {o.ip}]
    BY <1>5 DEF QuickSaves
  <2>2. /\ ibHist' \in HistRec /\ ibHist'.clean = ibHist.clean /\ ibHist'.lifted = ibHist.lifted
        /\ ibHist'.owed = ibHist.owed
        /\ ibHist'.behind = ibHist.behind \cup {o.ip} /\ ibHist'.undropped = ibHist.undropped \cup {o.ip}
    BY <1>1, <2>1 DEF IBInv, IBTypes, HistRec
  <2>3. IBTypes'
    BY <1>2, <1>3, <2>1, <2>2, Records DEF IBInv, IBTypes
  <2>4. ASSUME ibHist'.clean PROVE CleanState'
    <3>1. ibBuild' = NoBuild /\ Promised /\ Follows /\ (\A x \in IBThreads : ibOp'[x] = NoOp) /\ Quickly(o)
      BY <1>1, <1>2, <2>1, <2>2, <2>4, CallAlone
    <3>2. Kept' = Kept
      BY <1>3, <2>1 DEF Kept
    <3>3. Promised'
      BY <1>3, <2>1, <2>2, <3>1 DEF Promised, Exempt
    <3>4. Follows'
      BY <1>3, <2>1, <2>2, <3>1 DEF Follows, Quickly
    <3>5. AtRest'
      BY <1>3, <2>1, <2>2, <3>1, <3>2 DEF AtRest, Quickly, Alike
    <3>. QED  BY <3>1, <3>3, <3>4, <3>5, NoCallSettles
  <2>. QED  BY <2>3, <2>4 DEF IBInv, CleanState
<1>. QED  BY <1>4, <1>5

\* A rebuild is asked for.
LEMMA IBAsked == IBInv /\ RebuildAsked => IBInv'
<1>. SUFFICES ASSUME IBInv, RebuildAsked PROVE IBInv'
  OBVIOUS
<1>1. /\ ibBuild' = [NoBuild EXCEPT !.pc = "due"] /\ ibHist' = Begun(ibHist)
      /\ UNCHANGED <<ibCur, ibFile, ibDrop, ibConf, ibOp>>
  BY DEF RebuildAsked
<1>2. IBTypes'
  BY <1>1, DueBuild, BegunIs DEF IBInv, IBTypes
<1>3. ASSUME ibHist'.clean PROVE CleanState'
  <2>1. (\A x \in IBThreads : ibOp'[x] = NoOp) /\ Promised
    BY <1>1, <1>3, BegunIs, Alones
  <2>2. Promised'
    BY <1>1, <2>1, BegunIs DEF Promised, Exempt
  <2>. QED  BY <1>1, <2>1, <2>2, Dues
<1>. QED  BY <1>2, <1>3 DEF IBInv, CleanState

\* The operator allow-lists the ASN, and a rebuild is due.
LEMMA IBAllows == IBInv /\ AllowASN => IBInv'
<1>. SUFFICES ASSUME IBInv, AllowASN PROVE IBInv'
  OBVIOUS
<1>1. /\ ibBuild' = [NoBuild EXCEPT !.pc = "due"] /\ ibHist' = Begun(ibHist)
      /\ UNCHANGED <<ibCur, ibFile, ibDrop, ibOp>>
  BY DEF AllowASN
<1>2. /\ ibConf' \in ConfRec /\ ibConf'.ips = ibConf.ips /\ ibConf'.saved = ibConf.ips
      /\ ibConf.asn \subseteq ibConf'.asn
  BY DEF AllowASN, IBInv, IBTypes, ConfRec
<1>3. IBTypes'
  BY <1>1, <1>2, DueBuild, BegunIs DEF IBInv, IBTypes
<1>4. ASSUME ibHist'.clean PROVE CleanState'
  <2>1. (\A x \in IBThreads : ibOp'[x] = NoOp) /\ Promised
    BY <1>1, <1>4, BegunIs, Alones
  <2>2. ibHist'.owed = ibHist.owed /\ ibHist'.lifted = ibHist.lifted /\ Exempt \subseteq Exempt'
    BY <1>1, <1>2, BegunIs DEF Exempt
  <2>3. Promised'
    BY <1>1, <1>2, <2>1, <2>2 DEF Promised, IBInv, IBTypes
  <2>. QED  BY <1>1, <2>1, <2>3, Dues
<1>. QED  BY <1>3, <1>4 DEF IBInv, CleanState

\* A restart: a write under way may be cut, and the banner is empty until the
\* boot's rebuild.
LEMMA IBBoots == ASSUME IBInv, NEW file \in CutFiles, Restarts(file) PROVE IBInv'
<1>. DEFINE owed == IF ibHist.clean THEN ibHist.owed \ (ibFile \ file) ELSE ibHist.owed \cap (file \cup ibConf.saved)
            lifted == IF ibHist.clean THEN ibHist.lifted ELSE ibHist.lifted \ (file \cup ibConf.saved \cup ibDrop)
<1>1. /\ ibFile' = file /\ ibDrop' = ibDrop /\ ibCur' = NoBanner /\ ibBuild' = [NoBuild EXCEPT !.pc = "due"]
      /\ ibConf' = [ibConf EXCEPT !.ips = ibConf.saved] /\ ibOp' = [t \in IBThreads |-> NoOp]
  BY DEF Restarts
<1>2. file = ibFile \/ \E t \in IBThreads : ibOp[t].pc = "persist" /\ file \subseteq ibOp[t].snap
  BY DEF CutFiles
<1>3. file \subseteq IBIPs
  BY <1>2 DEF IBInv, IBTypes, OpRec
<1>4. ibConf'.ips = ibConf.saved /\ ibConf'.saved = ibConf.saved /\ ibConf'.asn = ibConf.asn /\ ibConf' \in ConfRec
  BY <1>1 DEF IBInv, IBTypes, ConfRec
<1>5. ibHist' \in HistRec /\ ibHist'.owed = owed /\ ibHist'.lifted = lifted
  <2>. DEFINE g == [ibHist EXCEPT !.ops = @ + 1]
              h == [g EXCEPT !.clean = TRUE, !.behind = {}]
  <2>0. g \in HistRec
    BY DEF IBInv, IBTypes, HistRec
  <2>1. h \in HistRec
    BY <2>0 DEF HistRec
  <2>2. ibHist.owed \subseteq IBIPs /\ ibHist.lifted \subseteq IBIPs
    BY DEF IBInv, IBTypes, HistRec
  <2>3. ibHist' = [h EXCEPT !.owed = owed, !.lifted = lifted]
    BY DEF Restarts
  <2>4. owed \in SUBSET IBIPs /\ lifted \in SUBSET IBIPs
    BY <2>2
  <2>. HIDE DEF h, owed, lifted
  <2>. QED  BY <2>1, <2>3, <2>4 DEF HistRec
<1>6. IBTypes'
  BY <1>1, <1>3, <1>4, <1>5, DueBuild, Records DEF IBInv, IBTypes
<1>7. Exempt' = Exempt
  BY <1>4 DEF Exempt
<1>8. Promised'
  <2>1. CASE ibHist.clean
    <3>1. Promised
      BY <2>1 DEF IBInv, CleanState
    <3>2. ibHist.lifted \cap file \subseteq Exempt
      <4>1. CASE file = ibFile
        BY <3>1, <4>1 DEF Promised
      <4>2. ASSUME NEW t \in IBThreads, ibOp[t].pc = "persist", file \subseteq ibOp[t].snap PROVE ibHist.lifted \cap file = {}
        <5>1. ibOp[t] /= NoOp
          BY <4>2, Records
        <5>2. ibOp[t].snap = ibCur.auto /\ Follows
          BY <2>1, <4>2, <5>1, CallAlone DEF Blocking, Unblocking, Quickly
        <5>. QED  BY <4>2, <5>2 DEF Follows
      <4>. QED  BY <1>2, <4>1, <4>2
    <3>. QED  BY <1>1, <1>4, <1>5, <1>7, <2>1, <3>1, <3>2 DEF Promised, IBInv, IBTypes
  <2>2. CASE ~ibHist.clean
    BY <1>1, <1>4, <1>5, <1>7, <2>2 DEF Promised
  <2>. QED  BY <2>1, <2>2
<1>. QED  BY <1>1, <1>6, <1>8, Dues DEF IBInv

\* What a rebuild makes of file and config.
LEMMA RebuiltIs ==
  ASSUME IBInv
  PROVE  /\ Rebuilt \in BannerRec /\ Proper(Rebuilt)
         /\ Rebuilt.auto = Kept /\ Rebuilt.conf = ibConf.ips /\ Rebuilt.asn = ibConf.asn
BY DEF IBInv, IBTypes, Rebuilt, BannerRec, ConfRec, Proper, Kept, Pruned

\* A rebuild loads the file.
LEMMA IBLoads == IBInv /\ RebuildLoads => IBInv'
<1>. SUFFICES ASSUME IBInv, RebuildLoads PROVE IBInv'
  OBVIOUS
<1>1. ibBuild' = [ibBuild EXCEPT !.pc = "publish", !.banner = Rebuilt]
  BY DEF RebuildLoads, Rebuilt, Kept
<1>2. ibBuild' \in BuildRec /\ ibBuild'.pc = "publish" /\ ibBuild'.banner = Rebuilt
  BY <1>1, RebuiltIs DEF IBInv, IBTypes, BuildRec
<1>3. ibBuild.pc = "due" /\ ibBuild /= NoBuild /\ UNCHANGED <<ibCur, ibFile, ibDrop, ibConf, ibOp, ibHist>>
  BY Records DEF RebuildLoads
<1>4. IBTypes'
  BY <1>2, <1>3, RebuiltIs DEF IBInv, IBTypes
<1>5. ASSUME ibHist.clean PROVE Promised' /\ ibBuild' /= NoBuild /\ Rebuilding'
  <2>1. Promised /\ Rebuilding
    BY <1>3, <1>5 DEF IBInv, CleanState
  <2>2. Promised'
    BY <1>3, <2>1 DEF Promised, Exempt
  <2>3. Rebuilt' = Rebuilt
    BY <1>3 DEF Rebuilt, Kept
  <2>4. Rebuilding'
    BY <1>2, <1>3, <2>1, <2>3 DEF Rebuilding
  <2>. QED  BY <1>2, <2>2, <2>4, Records
<1>. QED  BY <1>3, <1>5, <1>4 DEF IBInv, CleanState

\* A rebuild replaces the banner.
LEMMA IBPublishes == IBInv /\ RebuildPublishes => IBInv'
<1>. SUFFICES ASSUME IBInv, RebuildPublishes PROVE IBInv'
  OBVIOUS
<1>1. /\ ibBuild' \in BuildRec /\ ibBuild'.pc = "list" /\ ibBuild'.banner = ibBuild.banner /\ ibCur' = ibBuild.banner
      /\ ibCur' \in BannerRec
  BY DEF RebuildPublishes, IBInv, IBTypes, BuildRec
<1>2. /\ ibBuild.pc = "publish" /\ ibBuild /= NoBuild /\ UNCHANGED <<ibFile, ibDrop, ibConf, ibOp>>
      /\ ibHist' = [ibHist EXCEPT !.behind = {}]
  BY Records DEF RebuildPublishes
<1>3. /\ ibHist' \in HistRec /\ ibHist'.clean = ibHist.clean /\ ibHist'.behind = {}
      /\ ibHist'.owed = ibHist.owed /\ ibHist'.lifted = ibHist.lifted
  BY <1>2 DEF IBInv, IBTypes, HistRec
<1>4. IBTypes'
  BY <1>1, <1>2, <1>3 DEF IBInv, IBTypes
<1>5. ASSUME ibHist.clean PROVE Promised' /\ ibBuild' /= NoBuild /\ Rebuilding'
  <2>1. Promised /\ Rebuilding
    BY <1>2, <1>5 DEF IBInv, CleanState
  <2>2. Promised'
    BY <1>2, <1>3, <2>1 DEF Promised, Exempt
  <2>3. Rebuilt' = Rebuilt
    BY <1>2 DEF Rebuilt, Kept
  <2>4. Rebuilding'
    BY <1>1, <1>2, <1>3, <2>1, <2>3 DEF Rebuilding
  <2>. QED  BY <1>1, <2>2, <2>4, Records
<1>. QED  BY <1>3, <1>4, <1>5 DEF IBInv, CleanState

\* A rebuild lists what the packet filter is to drop.
LEMMA IBLists == IBInv /\ RebuildLists => IBInv'
<1>. SUFFICES ASSUME IBInv, RebuildLists PROVE IBInv'
  OBVIOUS
<1>0. Raw(ibCur) \in SUBSET IBIPs
  BY DEF IBInv, IBTypes, BannerRec, Raw
<1>1. /\ ibBuild' \in BuildRec /\ ibBuild'.pc = "apply" /\ ibBuild'.banner = ibBuild.banner
      /\ ibBuild'.list = Raw(ibCur)
  BY <1>0 DEF RebuildLists, IBInv, IBTypes, BuildRec
<1>2. ibBuild.pc = "list" /\ ibBuild /= NoBuild /\ UNCHANGED <<ibCur, ibFile, ibDrop, ibConf, ibOp, ibHist>>
  BY Records DEF RebuildLists
<1>3. IBTypes'
  BY <1>1, <1>2 DEF IBInv, IBTypes
<1>4. ASSUME ibHist.clean PROVE Promised' /\ ibBuild' /= NoBuild /\ Rebuilding'
  <2>1. Promised /\ Rebuilding
    BY <1>2, <1>4 DEF IBInv, CleanState
  <2>2. Promised'
    BY <1>2, <2>1 DEF Promised, Exempt
  <2>3. Rebuilt' = Rebuilt /\ Raw(ibCur)' = Raw(ibCur)
    BY <1>2 DEF Rebuilt, Kept, Raw
  <2>4. Rebuilding'
    BY <1>1, <1>2, <2>1, <2>3 DEF Rebuilding
  <2>. QED  BY <1>1, <2>2, <2>4, Records
<1>. QED  BY <1>2, <1>3, <1>4 DEF IBInv, CleanState

\* A rebuild tells the packet filter, which may fail.
LEMMA IBApplies == ASSUME IBInv, NEW ok \in BOOLEAN, RebuildApplies(ok) PROVE IBInv'
<1>1. /\ ibBuild.pc = "apply" /\ ibBuild /= NoBuild /\ ibBuild' = NoBuild
      /\ ibDrop' = IF ok THEN ibBuild.list ELSE ibDrop
      /\ UNCHANGED <<ibCur, ibFile, ibConf, ibOp>>
  BY Records DEF RebuildApplies, AppliedSet
<1>2. /\ ibHist' \in HistRec /\ ibHist'.clean = ibHist.clean /\ ibHist'.behind = ibHist.behind
      /\ ibHist'.owed = ibHist.owed /\ ibHist'.lifted = ibHist.lifted
      /\ ibHist'.undropped = IF ok THEN {} ELSE IBIPs
  <2>. DEFINE d == IF ok THEN {} ELSE IBIPs
  <2>1. d \in SUBSET IBIPs /\ ibHist' = [ibHist EXCEPT !.undropped = d]
    BY DEF RebuildApplies
  <2>. HIDE DEF d
  <2>2. /\ ibHist' \in HistRec /\ ibHist'.clean = ibHist.clean /\ ibHist'.behind = ibHist.behind
        /\ ibHist'.owed = ibHist.owed /\ ibHist'.lifted = ibHist.lifted /\ ibHist'.undropped = d
    BY <2>1 DEF IBInv, IBTypes, HistRec
  <2>. QED  BY <2>2 DEF d
<1>3. ibDrop' \subseteq IBIPs
  BY <1>1 DEF IBInv, IBTypes, BuildRec
<1>4. IBTypes'
  BY <1>1, <1>2, <1>3, Records DEF IBInv, IBTypes
<1>5. ASSUME ibHist'.clean PROVE CleanState'
  <2>1. Promised /\ Rebuilding
    BY <1>1, <1>2, <1>5 DEF IBInv, CleanState
  <2>2. \A t \in IBThreads : ibOp'[t] = NoOp
    BY <1>1, <2>1 DEF Rebuilding
  <2>3. /\ ibBuild.list = ibCur.auto \cup ibCur.conf /\ ibHist.behind = {}
        /\ ibCur.auto = Kept /\ ibCur.conf = ibConf.ips /\ ibCur.asn = ibConf.asn /\ Kept' = Kept /\ Exempt' = Exempt
    BY <1>1, <2>1, RebuiltIs DEF Rebuilding, Raw, Kept, Exempt
  <2>4. ibHist.lifted \cap (ibCur.auto \cup ibCur.conf) = {}
    BY <2>1, <2>3 DEF Promised, Kept, Pruned, Exempt
  <2>5. Promised' /\ Follows'
    BY <1>1, <1>2, <2>1, <2>3, <2>4 DEF Promised, Follows
  <2>6. ibCur \in BannerRec /\ ibDrop \subseteq IBIPs
    BY DEF IBInv, IBTypes
  <2>7. AtRest'
    BY <1>1, <1>2, <2>3, <2>6 DEF AtRest, Alike, BannerRec
  <2>. QED  BY <1>1, <2>2, <2>5, <2>7, NoCallSettles
<1>. QED  BY <1>4, <1>5 DEF IBInv, CleanState

\* Every step keeps the invariant.
LEMMA IBStep == IBInv /\ [IBNext]_IBVars => IBInv'
<1>. SUFFICES ASSUME IBInv, [IBNext]_IBVars PROVE IBInv'
  OBVIOUS
<1>1. CASE UNCHANGED IBVars
  <2>1. UNCHANGED <<ibCur, ibFile, ibDrop, ibConf, ibOp, ibBuild, ibHist>>
    BY <1>1 DEF IBVars
  <2>2. IBTypes' /\ Promised' = Promised /\ Follows' = Follows /\ AtRest' = AtRest /\ Rebuilding' = Rebuilding
    BY <2>1 DEF IBInv, IBTypes, Promised, Exempt, Follows, AtRest, Alike, Kept, Rebuilding, Rebuilt, Raw
  <2>3. \A t \in IBThreads :
          /\ Blocking(ibOp[t])' = Blocking(ibOp[t]) /\ Unblocking(ibOp[t])' = Unblocking(ibOp[t])
          /\ Quickly(ibOp[t])' = Quickly(ibOp[t])
    BY <2>1 DEF Blocking, Unblocking, Quickly, Alike, Kept
  <2>. QED  BY <2>1, <2>2, <2>3 DEF IBInv, CleanState, Settled
<1>2. CASE RebuildAsked \/ AllowASN \/ RebuildLoads \/ RebuildPublishes \/ RebuildLists
  BY <1>2, IBAsked, IBAllows, IBLoads, IBPublishes, IBLists
<1>3. ASSUME NEW ok \in BOOLEAN, RebuildApplies(ok) PROVE IBInv'
  BY <1>3, IBApplies
<1>4. ASSUME NEW file \in CutFiles, Restarts(file) PROVE IBInv'
  BY <1>4, IBBoots
<1>5. ASSUME NEW t \in IBThreads, NEW ip \in IBIPs, BlockBegins(t, ip) \/ UnblockBegins(t, ip) \/ QuickBlock(t, ip)
      PROVE  IBInv'
  BY <1>5, IBBlocks, IBUnblocks, IBQuick
<1>6. ASSUME NEW t \in IBThreads, NEW ok \in BOOLEAN, FirewallFollows(t, ok) \/ QuickSaves(t, ok) PROVE IBInv'
  BY <1>6, IBFollows, IBSaves
<1>7. ASSUME NEW t \in IBThreads, NEW ok \in BOOLEAN, NEW file \in (SUBSET ibOp[t].snap) \cup {ibFile}, Persists(t, file, ok)
      PROVE  IBInv'
  BY <1>7, IBPersists
<1>. QED  BY <1>1, <1>2, <1>3, <1>4, <1>5, <1>6, <1>7 DEF IBNext

\* The invariant gives what the component promises.
LEMMA BannerNow == IBInv => BannerSound
<1>. SUFFICES ASSUME IBInv PROVE BannerSound
  OBVIOUS
<1>1. IBTypeOK
  BY DEF IBInv, IBTypes, IBTypeOK, BannerRec, ConfRec, Proper, Never, Raw
<1>2. ASSUME ibHist.clean, Alone
      PROVE  /\ \A ip \in ibHist.owed : Never(ibCur, ip) \/ (BannerBlocks(ibCur, ip) /\ ip \in ibFile \cup ibConf.saved)
             /\ \A ip \in ibHist.lifted : ip \notin Raw(ibCur) \cup ibDrop /\ (ip \in ibFile => Never(ibCur, ip))
             /\ ibDrop \subseteq Raw(ibCur) \cup ibHist.undropped /\ ibCur.auto \subseteq ibDrop \cup ibHist.undropped
  <2>1. Promised /\ Follows /\ AtRest
    BY <1>2, Alones
  <2>2. \A ip : Never(ibCur, ip) <=> ip \in Exempt
    BY <2>1 DEF Never, Exempt, Follows
  <2>3. \A ip \in ibHist.owed : ip \in Exempt \/ (ip \in Raw(ibCur) /\ ip \in ibFile \cup ibConf.saved)
    BY <2>1 DEF Promised, Follows, AtRest, Alike, Kept, Pruned, Exempt, Raw, IBInv, IBTypes
  <2>4. \A ip \in ibHist.lifted : ip \notin Raw(ibCur) \cup ibDrop /\ (ip \in ibFile => ip \in Exempt)
    BY <2>1 DEF Promised, Follows, Raw
  <2>. QED  BY <2>1, <2>2, <2>3, <2>4 DEF BannerBlocks, AtRest, Raw
<1>. QED  BY <1>1, <1>2 DEF BannerSound, BlocksSurvive, UnblockIsComplete, DropIsList

\* For any clients, and any number of blocks, unblocks and rebuilds that follow
\* each other, with writes and firewall commands that fail and crashes that cut
\* a write: acknowledged blocks survive, an unblock is complete, and the packet
\* filter agrees with the banner but where it was not told (Block, Unblock,
\* geoBlockIP, buildGeo). Calls that met are outside of it until the next start.
THEOREM BannerHolds == IBSpec => []BannerSound
<1>1. IBInit => IBInv
  BY IBInitial
<1>2. IBInv /\ [IBNext]_IBVars => IBInv'
  BY IBStep
<1>3. IBInv => BannerSound
  BY BannerNow
<1>. QED  BY <1>1, <1>2, <1>3, PTL DEF IBSpec

-----------------------------------------------------------------------------
(* The configuration. AllMade says that every secret and password in use   *)
(* was issued before the next one, NoneRevoked that neither memory, file   *)
(* nor a request that is not stale holds a withdrawn one, and GeoUnderWay  *)
(* that the last geo build is that of the configuration in memory.         *)

(* A configuration before upstream.Parse has seen it.                      *)
Wanted == [server : Versions, ups : Versions \cup {BadUps}, policy : Versions, geo : Versions, rest : Versions,
           legacy : Versions, users : [CPAccounts -> Stamps], secret : Stamps]
Pend == [cfg : Wanted, auth : Stamps, at : {"apply", "auth"}, stale : BOOLEAN]
Parts == [server : Versions, ups : Versions, policy : Versions, banner : Versions, geo : Versions]
Job == [id : Nat, geo : Versions, at : {"banner", "geo"}]
Hist == [dead : SUBSET Stamps, gone : [CPAccounts -> SUBSET Stamps], back : SUBSET Stamps, stale : BOOLEAN, told : BOOLEAN,
         crossed : BOOLEAN, saved : BOOLEAN, writes : 0..CPPuts, events : Nat, jobs : Nat]

CPTypes ==
  /\ cpCfg \in Configs
  /\ cpDisk = TornConfig \/ cpDisk \in Configs
  /\ cpBackup \in Configs
  /\ cpRun \in Parts
  /\ cpReq \in [CPAdmins -> {NoRequest} \cup Pend]
  /\ cpJobs \subseteq Job
  /\ cpUp \in {"up", "down", "dead"}
  /\ cpHist \in Hist
  /\ cpFresh = 3 + 2 * cpHist.writes

(* Nothing is accepted that was withdrawn.                                 *)
Valid(c) ==
  /\ c.secret \in cpHist.dead => c.secret \in cpHist.back
  /\ \A a \in CPAccounts : c.users[a] \in cpHist.gone[a] => c.users[a] = Absent

Made(c) == c.secret < cpFresh /\ \A a \in CPAccounts : c.users[a] < cpFresh
AllMade ==
  /\ Made(cpCfg) /\ Made(cpBackup) /\ (cpDisk # TornConfig => Made(cpDisk))
  /\ \A r \in CPAdmins : cpReq[r] # NoRequest => Made(cpReq[r].cfg) /\ cpReq[r].auth < cpFresh
  /\ \A s \in cpHist.dead : s < cpFresh
  /\ \A a \in CPAccounts : \A s \in cpHist.gone[a] : s < cpFresh

NoneRevoked ==
  ~cpHist.stale =>
    /\ Valid(cpCfg) /\ (cpDisk # TornConfig => Valid(cpDisk))
    /\ \A r \in CPAdmins : cpReq[r] # NoRequest /\ cpReq[r].at = "apply" /\ ~cpReq[r].stale => Valid(cpReq[r].cfg)

GeoUnderWay ==
  /\ cpUp # "up" => cpJobs = {}
  /\ cpUp = "up" /\ cpHist.saved /\ ~cpHist.crossed =>
       \/ cpJobs = {} /\ cpRun.geo = cpCfg.geo /\ cpRun.banner = cpCfg.geo
       \/ \E j \in cpJobs : cpJobs = {j} /\ j.geo = cpCfg.geo /\ (j.at = "geo" => cpRun.banner = cpCfg.geo)

CPInv ==
  /\ CPTypes /\ AllMade /\ NoneRevoked
  /\ SecretOnDisk /\ LiveMatchesConfig /\ OperatorTold /\ GeoUnderWay

SameHist(g, h) ==
  /\ g \in Hist /\ g.dead = h.dead /\ g.gone = h.gone /\ g.back = h.back /\ g.writes = h.writes
  /\ g.stale = h.stale /\ g.told = h.told

\* The bounds are numbers, and a stamp is below the last one.
LEMMA Consts == CPPuts \in Nat /\ CPEvents \in Nat /\ Stamps = 0..(3 * CPPuts + 3)
BY CPAssumption DEF Stamps

\* What the configuration the program first boots with holds.
LEMMA FirstIs == FirstConfig \in Configs /\ FirstConfig.secret = 2 /\ (\A a \in CPAccounts : FirstConfig.users[a] = 1)
                 /\ FirstConfig.ups = 0 /\ FirstConfig.policy = 0 /\ FirstConfig.geo = 0 /\ FirstConfig.server = 0
BY Consts DEF FirstConfig, Configs, Versions

\* The parts that run after a boot are those of the configuration.
LEMMA RunningIs ==
  ASSUME NEW c \in Configs
  PROVE  /\ Running(c, 0) \in Parts /\ Running(c, 0).server = c.server /\ Running(c, 0).ups = c.ups
         /\ Running(c, 0).policy = c.policy /\ Running(c, 0).geo = 0 /\ Running(c, 0).banner = 0
BY DEF Running, Parts, Configs, Versions

(* The history's counters say nothing of the rest of it.                   *)
LEMMA CountersApart ==
  ASSUME NEW h \in Hist, NEW n \in Nat
  PROVE  /\ SameHist([h EXCEPT !.jobs = n], h) /\ [h EXCEPT !.jobs = n].saved = h.saved /\ [h EXCEPT !.jobs = n].crossed = h.crossed
         /\ SameHist([h EXCEPT !.events = n], h) /\ [h EXCEPT !.events = n].saved = h.saved
         /\ [h EXCEPT !.events = n].crossed = h.crossed
<1>1. [h EXCEPT !.jobs = n] \in Hist /\ [h EXCEPT !.events = n] \in Hist
  BY DEF Hist
<1>2. SameHist([h EXCEPT !.jobs = n], h) /\ [h EXCEPT !.jobs = n].saved = h.saved /\ [h EXCEPT !.jobs = n].crossed = h.crossed
  BY <1>1 DEF Hist, SameHist
<1>3. SameHist([h EXCEPT !.events = n], h) /\ [h EXCEPT !.events = n].saved = h.saved /\ [h EXCEPT !.events = n].crossed = h.crossed
  BY <1>1 DEF Hist, SameHist
<1>. QED  BY <1>2, <1>3

\* The invariant holds in the initial states.
LEMMA CPInitial == CPInit => CPInv
<1>. SUFFICES ASSUME CPInit PROVE CPInv
  OBVIOUS
<1>1. /\ cpCfg = FirstConfig /\ cpDisk = FirstConfig /\ cpBackup = FirstConfig /\ cpRun = Running(FirstConfig, 0)
      /\ cpReq = [r \in CPAdmins |-> NoRequest] /\ cpJobs = {} /\ cpUp = "up" /\ cpFresh = 3
  BY DEF CPInit
<1>2. /\ cpHist \in Hist /\ cpHist.dead = {} /\ (\A a \in CPAccounts : cpHist.gone[a] = {}) /\ cpHist.writes = 0
  BY Consts DEF CPInit, Hist
<1>3. CPTypes
  BY <1>1, <1>2, FirstIs, RunningIs DEF CPTypes
<1>4. AllMade
  BY <1>1, <1>2, FirstIs DEF AllMade, Made
<1>5. NoneRevoked
  BY <1>1, <1>2 DEF NoneRevoked, Valid
<1>6. SecretOnDisk /\ LiveMatchesConfig /\ OperatorTold /\ GeoUnderWay
  BY <1>1, FirstIs, RunningIs DEF SecretOnDisk, LiveMatchesConfig, OperatorTold, GeoUnderWay
<1>. QED  BY <1>3, <1>4, <1>5, <1>6 DEF CPInv

(* Resolving: what was read before the lock, with stamps never used yet.   *)
LEMMA ResolvedIs ==
  ASSUME CPInv, NEW p \in Payloads, cpHist.writes < CPPuts, UsersResolve(cpCfg.users, p)
  PROVE  \E c \in Wanted :
           /\ c = ConfigOf(p, Users(cpCfg.users, p), Rotated(cpCfg.users, Users(cpCfg.users, p), cpCfg.secret))
           /\ c.secret \in {cpCfg.secret, cpFresh + 1}
           /\ \A a \in CPAccounts : c.users[a] \in {cpCfg.users[a], cpFresh, Absent}
<1>. DEFINE u == Users(cpCfg.users, p)
            s == Rotated(cpCfg.users, u, cpCfg.secret)
            c == ConfigOf(p, u, s)
<1>1. cpFresh \in Stamps /\ cpFresh + 1 \in Stamps /\ Absent \in Stamps
  BY Consts DEF CPInv, CPTypes, Hist, Absent
<1>2. cpCfg.users \in [CPAccounts -> Stamps] /\ cpCfg.secret \in Stamps
  BY DEF CPInv, CPTypes, Configs
<1>3. ASSUME NEW a \in CPAccounts PROVE u[a] \in Stamps /\ u[a] \in {cpCfg.users[a], cpFresh, Absent}
  <2>1. p.users[a] \in {"keep", "set", "gone"}
    BY DEF Payloads
  <2>2. CASE p.users[a] = "keep"
    BY <1>2, <2>2 DEF Users
  <2>3. CASE p.users[a] = "set"
    BY <1>1, <2>3 DEF Users
  <2>4. CASE p.users[a] = "gone"
    BY <1>1, <2>4 DEF Users
  <2>. QED  BY <2>1, <2>2, <2>3, <2>4
<1>4. u \in [CPAccounts -> Stamps]
  BY <1>3 DEF Users
<1>5. s \in {cpCfg.secret, cpFresh + 1} /\ s \in Stamps
  BY <1>1, <1>2 DEF Rotated
<1>. HIDE DEF u, s
<1>6. c \in Wanted /\ c.secret = s /\ c.users = u
  BY <1>4, <1>5 DEF ConfigOf, Wanted, Payloads, Versions
<1>. HIDE DEF c
<1>. QED  BY <1>3, <1>5, <1>6 DEF c, u, s

\* What resolving a request's payload leaves: a configuration of its own, made
\* of secrets and passwords that exist, and noted as stale if another apply
\* finished in between.
LEMMA Resolves ==
  ASSUME CPInv, NEW r \in CPAdmins, NEW p \in Payloads, NEW auth \in Stamps, auth < cpFresh, MayWrite(r), Resolve(r, p, auth)
  PROVE  CPInv'
<1>1. cpUp = "up" /\ cpReq[r] = NoRequest /\ cpHist.writes < CPPuts /\ UsersResolve(cpCfg.users, p)
      /\ cpFresh' = cpFresh + 2 /\ UNCHANGED <<cpCfg, cpDisk, cpBackup, cpRun, cpJobs, cpUp>>
  BY DEF Resolve, MayWrite
<1>2. PICK c \in Wanted :
           /\ c = ConfigOf(p, Users(cpCfg.users, p), Rotated(cpCfg.users, Users(cpCfg.users, p), cpCfg.secret))
           /\ c.secret \in {cpCfg.secret, cpFresh + 1}
           /\ \A a \in CPAccounts : c.users[a] \in {cpCfg.users[a], cpFresh, Absent}
  BY <1>1, ResolvedIs
<1>. DEFINE q == [cfg |-> c, auth |-> auth, at |-> "apply", stale |-> FALSE]
<1>3. cpReq' = [cpReq EXCEPT ![r] = q]
  BY <1>2 DEF Resolve
<1>4. q \in Pend /\ q.cfg = c /\ q.auth = auth
  BY DEF Pend
<1>. HIDE DEF q
<1>5. cpHist \in Hist /\ cpHist.writes \in 0..CPPuts /\ CPPuts \in Nat /\ cpFresh = 3 + 2 * cpHist.writes
  BY Consts DEF CPInv, CPTypes, Hist
<1>6. /\ cpHist' \in Hist /\ cpHist'.writes = cpHist.writes + 1 /\ cpHist'.dead = cpHist.dead /\ cpHist'.gone = cpHist.gone
      /\ cpHist'.back = cpHist.back /\ cpHist'.stale = cpHist.stale /\ cpHist'.told = cpHist.told
      /\ cpHist'.crossed = cpHist.crossed /\ cpHist'.saved = cpHist.saved
  <2>. DEFINE w == cpHist.writes + 1
  <2>1. w \in 0..CPPuts /\ cpHist' = [cpHist EXCEPT !.writes = w]
    BY <1>1, <1>5 DEF Resolve
  <2>. HIDE DEF w
  <2>2. cpHist' \in Hist /\ cpHist'.writes = w
    BY <1>5, <2>1 DEF Hist
  <2>3. /\ cpHist'.dead = cpHist.dead /\ cpHist'.gone = cpHist.gone
        /\ cpHist'.back = cpHist.back /\ cpHist'.stale = cpHist.stale /\ cpHist'.told = cpHist.told
        /\ cpHist'.crossed = cpHist.crossed /\ cpHist'.saved = cpHist.saved
    BY <1>5, <2>1 DEF Hist
  <2>. QED  BY <2>2, <2>3 DEF w
<1>7. /\ cpReq' \in [CPAdmins -> {NoRequest} \cup Pend] /\ cpReq'[r] = q
      /\ \A o \in CPAdmins : o # r => cpReq'[o] = cpReq[o]
  BY <1>3, <1>4 DEF CPInv, CPTypes
<1>8. CPTypes'
  BY <1>1, <1>5, <1>6, <1>7 DEF CPInv, CPTypes
<1>9. cpFresh \in Nat /\ Made(cpCfg) /\ Made(cpBackup) /\ (cpDisk # TornConfig => Made(cpDisk))
  BY <1>5 DEF CPInv, AllMade
<1>10. \A t \in Stamps : t \in Nat /\ (t < cpFresh => t < cpFresh')
  BY <1>1, <1>9, Consts
<1>11. Made(c)'
  <2>1. c.secret < cpFresh'
    BY <1>1, <1>2, <1>9, <1>10 DEF Made, Wanted
  <2>2. ASSUME NEW a \in CPAccounts PROVE c.users[a] < cpFresh'
    BY <1>1, <1>2, <1>9, <1>10 DEF Made, Wanted, Absent
  <2>. QED  BY <2>1, <2>2 DEF Made
<1>12. AllMade'
  <2>1. Made(cpCfg)' /\ Made(cpBackup)' /\ (cpDisk # TornConfig => Made(cpDisk))'
    BY <1>1, <1>9, <1>10 DEF Made, CPInv, CPTypes, Configs
  <2>2. ASSUME NEW o \in CPAdmins, cpReq'[o] # NoRequest PROVE Made(cpReq[o].cfg)' /\ cpReq'[o].auth < cpFresh'
    <3>1. CASE o = r
      BY <1>4, <1>7, <1>10, <1>11, <3>1
    <3>2. CASE o # r
      <4>1. cpReq'[o] = cpReq[o] /\ cpReq[o] \in Pend /\ Made(cpReq[o].cfg) /\ cpReq[o].auth < cpFresh
        BY <1>7, <2>2, <3>2 DEF CPInv, CPTypes, AllMade
      <4>. QED  BY <1>10, <4>1 DEF Made, Pend, Wanted
    <3>. QED  BY <3>1, <3>2
  <2>3. \A t \in cpHist'.dead : t < cpFresh'
    BY <1>5, <1>6, <1>10 DEF CPInv, AllMade, Hist
  <2>4. \A a \in CPAccounts : \A t \in cpHist'.gone[a] : t < cpFresh'
    BY <1>5, <1>6, <1>10 DEF CPInv, AllMade, Hist
  <2>. QED  BY <2>1, <2>2, <2>3, <2>4 DEF AllMade
<1>13. ASSUME ~cpHist'.stale PROVE Valid(c)'
  <2>1. Valid(cpCfg)
    BY <1>6, <1>13 DEF CPInv, NoneRevoked
  <2>2. cpFresh \notin cpHist.dead /\ cpFresh + 1 \notin cpHist.dead
    BY <1>9 DEF CPInv, AllMade
  <2>3. \A a \in CPAccounts : cpFresh \notin cpHist.gone[a]
    BY <1>9 DEF CPInv, AllMade
  <2>. QED  BY <1>2, <1>6, <2>1, <2>2, <2>3 DEF Valid
<1>14. NoneRevoked'
  BY <1>1, <1>4, <1>6, <1>7, <1>13 DEF CPInv, NoneRevoked, Valid
<1>15. (SecretOnDisk /\ LiveMatchesConfig /\ OperatorTold /\ GeoUnderWay)'
  BY <1>1, <1>6 DEF CPInv, SecretOnDisk, LiveMatchesConfig, OperatorTold, GeoUnderWay
<1>. QED  BY <1>8, <1>12, <1>14, <1>15 DEF CPInv

\* A PUT of the configuration is resolved against the one in memory.
LEMMA Puts == ASSUME CPInv, NEW r \in CPAdmins, PutRequest(r) PROVE CPInv'
<1>1. PICK p \in Payloads : MayWrite(r) /\ Resolve(r, p, 0)
  BY DEF PutRequest
<1>2. 0 \in Stamps /\ 0 < cpFresh
  BY Consts DEF CPInv, CPTypes, Hist
<1>. QED  BY <1>1, <1>2, Resolves

\* A restore of an archive is resolved, secret and legacy password included.
LEMMA Restores == ASSUME CPInv, NEW r \in CPAdmins, RestoreRequest(r) PROVE CPInv'
<1>. DEFINE auth == IF cpBackup.legacy = 0 THEN 0 ELSE cpBackup.secret
<1>1. MayWrite(r) /\ Resolve(r, PayloadOf(cpBackup), auth)
  BY DEF RestoreRequest
<1>2. auth \in Stamps /\ auth < cpFresh
  BY Consts DEF CPInv, CPTypes, Hist, AllMade, Made, Configs
<1>3. PayloadOf(cpBackup) \in Payloads
  BY DEF CPInv, CPTypes, Configs, PayloadOf, PayloadUsers, Payloads
<1>. HIDE DEF auth
<1>. QED  BY <1>1, <1>2, <1>3, Resolves

(* The backup holds the file.                                              *)
LEMMA BacksUp == CPInv /\ Backup => CPInv'
<1>. SUFFICES ASSUME CPInv, Backup PROVE CPInv'
  OBVIOUS
<1>1. cpDisk # TornConfig /\ cpBackup' = cpDisk /\ UNCHANGED <<cpCfg, cpDisk, cpRun, cpReq, cpJobs, cpUp, cpFresh, cpHist>>
  BY DEF Backup
<1>2. CPTypes' /\ AllMade'
  BY <1>1 DEF CPInv, CPTypes, AllMade, Made
<1>3. (NoneRevoked /\ SecretOnDisk /\ LiveMatchesConfig /\ OperatorTold /\ GeoUnderWay)'
  BY <1>1 DEF CPInv, NoneRevoked, Valid, SecretOnDisk, LiveMatchesConfig, OperatorTold, GeoUnderWay
<1>. QED  BY <1>2, <1>3 DEF CPInv

\* A configuration upstream.Parse refuses ends its request.
LEMMA Refuses == ASSUME CPInv, NEW r \in CPAdmins, ApplyRefused(r) PROVE CPInv'
<1>1. cpReq' = [cpReq EXCEPT ![r] = NoRequest]
      /\ UNCHANGED <<cpCfg, cpDisk, cpBackup, cpRun, cpJobs, cpUp, cpFresh, cpHist>>
  BY DEF ApplyRefused
<1>2. cpReq' \in [CPAdmins -> {NoRequest} \cup Pend] /\ \A o \in CPAdmins : cpReq'[o] # NoRequest => cpReq'[o] = cpReq[o]
  BY <1>1 DEF CPInv, CPTypes
<1>3. CPTypes' /\ AllMade'
  BY <1>1, <1>2 DEF CPInv, CPTypes, AllMade, Made
<1>4. (NoneRevoked /\ SecretOnDisk /\ LiveMatchesConfig /\ OperatorTold /\ GeoUnderWay)'
  BY <1>1, <1>2 DEF CPInv, NoneRevoked, Valid, SecretOnDisk, LiveMatchesConfig, OperatorTold, GeoUnderWay
<1>. QED  BY <1>3, <1>4 DEF CPInv

(* What a write leaves of the requests in hand: its own next step, the     *)
(* others as they were but overtaken.                                      *)
LEMMA NowIs ==
  ASSUME CPInv, NEW r \in CPAdmins, NEW q \in {NoRequest} \cup Pend
  PROVE  /\ RequestNow(r, q) \in [CPAdmins -> {NoRequest} \cup Pend]
         /\ RequestNow(r, q)[r] = q
         /\ \A o \in CPAdmins : o # r /\ RequestNow(r, q)[o] # NoRequest =>
              /\ cpReq[o] # NoRequest /\ RequestNow(r, q)[o].cfg = cpReq[o].cfg /\ RequestNow(r, q)[o].auth = cpReq[o].auth
              /\ RequestNow(r, q)[o].stale
<1>1. cpReq \in [CPAdmins -> {NoRequest} \cup Pend]
  BY DEF CPInv, CPTypes
<1>2. ASSUME NEW o \in CPAdmins, o # r, cpReq[o] # NoRequest
      PROVE  /\ RequestNow(r, q)[o] \in Pend /\ RequestNow(r, q)[o].cfg = cpReq[o].cfg
             /\ RequestNow(r, q)[o].auth = cpReq[o].auth /\ RequestNow(r, q)[o].stale
  <2>1. cpReq[o] \in Pend
    BY <1>1, <1>2
  <2>2. RequestNow(r, q)[o] = [cpReq[o] EXCEPT !.stale = TRUE]
    BY <1>2 DEF RequestNow
  <2>. QED  BY <2>1, <2>2 DEF Pend
<1>3. \A o \in CPAdmins : o # r /\ cpReq[o] = NoRequest => RequestNow(r, q)[o] = NoRequest
  BY DEF RequestNow
<1>4. RequestNow(r, q)[r] = q
  BY DEF RequestNow
<1>5. \A o \in CPAdmins : RequestNow(r, q)[o] \in {NoRequest} \cup Pend
  BY <1>2, <1>3, <1>4
<1>6. RequestNow(r, q) = [o \in CPAdmins |-> RequestNow(r, q)[o]]
  BY DEF RequestNow
<1>7. RequestNow(r, q) \in [CPAdmins -> {NoRequest} \cup Pend]
  BY <1>5, <1>6
<1>. QED  BY <1>2, <1>3, <1>4, <1>7

\* What a request that waits to be applied holds.
LEMMA PendingIs ==
  ASSUME CPInv, NEW r \in CPAdmins, NEW at, Pending(r, at)
  PROVE  cpReq[r] \in Pend /\ cpReq[r] # NoRequest /\ cpReq[r].at = at /\ Made(cpReq[r].cfg) /\ cpReq[r].auth < cpFresh
BY DEF Pending, CPInv, CPTypes, AllMade

\* A configuration whose upstreams parse is one that can be in effect.
LEMMA ParsesIs == ASSUME NEW c \in Wanted, Parses(c) PROVE c \in Configs
BY DEF Parses, Wanted, Configs, Versions, BadUps

\* The hot sections are the applied configuration's, the others stay.
LEMMA AppliedIs ==
  ASSUME CPInv, NEW c \in Configs
  PROVE  /\ Applied(c) \in Parts /\ Applied(c).ups = c.ups /\ Applied(c).policy = c.policy
         /\ Applied(c).server = cpRun.server /\ Applied(c).geo = cpRun.geo /\ Applied(c).banner = cpRun.banner
<1>1. cpRun \in Parts /\ c.ups \in Versions /\ c.policy \in Versions
  BY DEF CPInv, CPTypes, Configs
<1>. QED  BY <1>1 DEF Applied, Parts

\* applyPayload starts one geo build, for the configuration it applied.
LEMMA SpawnedIs ==
  ASSUME CPInv, NEW g \in Versions
  PROVE  \E j \in Job : Spawned(g) = cpJobs \cup {j} /\ j.geo = g /\ j.at = "banner"
<1>. DEFINE j == [id |-> cpHist.jobs + 1, geo |-> g, at |-> "banner"]
<1>1. cpHist.jobs + 1 \in Nat
  BY DEF CPInv, CPTypes, Hist
<1>2. j \in Job /\ j.geo = g /\ j.at = "banner"
  BY <1>1 DEF Job
<1>3. Spawned(g) = cpJobs \cup {j}
  BY DEF Spawned
<1>. HIDE DEF j
<1>. QED  BY <1>2, <1>3

(* What the file and memory both hold now withdraws the rest.              *)
LEMMA GoneIs ==
  ASSUME CPInv, NEW new \in Configs, Made(new)
  PROVE  /\ SecretsGone(cpCfg, new) \in SUBSET Stamps /\ PasswordsGone(cpCfg, new) \in [CPAccounts -> SUBSET Stamps]
         /\ \A s \in SecretsGone(cpCfg, new) : s < cpFresh /\ (s = new.secret => s \in cpHist.dead)
         /\ \A a \in CPAccounts : \A s \in PasswordsGone(cpCfg, new)[a] : s < cpFresh /\ (s = new.users[a] => s \in cpHist.gone[a])
<1>1. cpHist \in Hist /\ cpCfg \in Configs /\ Made(cpCfg)
  BY DEF CPInv, CPTypes, AllMade
<1>2. /\ SecretsGone(cpCfg, new) \in SUBSET Stamps
      /\ \A s \in SecretsGone(cpCfg, new) : s < cpFresh /\ (s = new.secret => s \in cpHist.dead)
  BY <1>1 DEF SecretsGone, CPInv, AllMade, Made, Hist, Configs
<1>3. /\ PasswordsGone(cpCfg, new) \in [CPAccounts -> SUBSET Stamps]
      /\ \A a \in CPAccounts : \A s \in PasswordsGone(cpCfg, new)[a] : s < cpFresh /\ (s = new.users[a] => s \in cpHist.gone[a])
  BY <1>1 DEF PasswordsGone, CPInv, AllMade, Made, Hist, Configs
<1>. QED  BY <1>2, <1>3

(* The write that is saved.                                                *)
LEMMA Saves == ASSUME CPInv, NEW r \in CPAdmins, ApplySaved(r) PROVE CPInv'
<1>. DEFINE o == cpReq[r]
            new == o.cfg
            q == IF o.auth = 0 THEN NoRequest ELSE [o EXCEPT !.at = "auth"]
            D == SecretsGone(cpCfg, new)
            G == PasswordsGone(cpCfg, new)
            S == cpHist.stale \/ o.stale
            T == RestartListed(new) \/ (cpHist.told /\ cpCfg.server /= cpRun.server)
            X == cpJobs /= {}
<1>1. o \in Pend /\ Made(new) /\ o.auth < cpFresh /\ o # NoRequest /\ o.at = "apply"
  BY PendingIs DEF ApplySaved
<1>2. new \in Configs
  BY <1>1, ParsesIs DEF ApplySaved, Pend
<1>3. cpUp = "up" /\ cpCfg' = new /\ cpDisk' = new /\ cpRun' = Applied(new) /\ cpJobs' = Spawned(new.geo)
      /\ cpReq' = RequestNow(r, q) /\ UNCHANGED <<cpBackup, cpUp, cpFresh>>
  BY DEF ApplySaved
<1>4. cpHist' = [cpHist EXCEPT !.dead = D, !.gone = G, !.stale = S, !.told = T, !.crossed = X, !.saved = TRUE, !.jobs = @ + 1]
  BY DEF ApplySaved
<1>5. q \in {NoRequest} \cup Pend /\ (q # NoRequest => q.cfg = new /\ q.auth = o.auth /\ q.at = "auth")
  BY <1>1 DEF Pend
<1>6. D \in SUBSET Stamps /\ G \in [CPAccounts -> SUBSET Stamps] /\ S \in BOOLEAN /\ T \in BOOLEAN /\ X \in BOOLEAN
  BY <1>1, <1>2, GoneIs DEF Pend, RestartListed, CPInv, CPTypes, Hist
<1>7. /\ \A s \in D : s < cpFresh /\ (s = new.secret => s \in cpHist.dead)
      /\ \A a \in CPAccounts : \A s \in G[a] : s < cpFresh /\ (s = new.users[a] => s \in cpHist.gone[a])
  BY <1>1, <1>2, GoneIs
<1>8. S <=> cpHist.stale \/ o.stale
  OBVIOUS
<1>9. T <=> (cpCfg.server # new.server \/ (cpHist.told /\ cpCfg.server # cpRun.server))
  BY DEF RestartListed
<1>10. X <=> cpJobs # {}
  OBVIOUS
<1>. HIDE DEF q, D, G, S, T, X
<1>11. cpHist \in Hist
  BY DEF CPInv, CPTypes
<1>. DEFINE h0 == [cpHist EXCEPT !.jobs = cpHist.jobs + 1]
            hd == [h0 EXCEPT !.dead = D]
            h == [hd EXCEPT !.gone = G]
            h1 == [h EXCEPT !.stale = S]
            h2 == [h1 EXCEPT !.told = T]
            h3 == [h2 EXCEPT !.crossed = X]
<1>29. h0 \in Hist /\ h0.back = cpHist.back /\ h0.writes = cpHist.writes
  <2>1. cpHist.jobs + 1 \in Nat
    BY <1>11 DEF Hist
  <2>. QED  BY <1>11, <2>1, CountersApart DEF SameHist
<1>25. cpHist' = [h3 EXCEPT !.saved = TRUE]
  BY <1>4, <1>11 DEF Hist
<1>. HIDE DEF h0
<1>30. hd \in Hist /\ hd.back = cpHist.back /\ hd.writes = cpHist.writes /\ hd.dead = D
  BY <1>6, <1>29 DEF Hist
<1>. HIDE DEF hd
<1>24. h \in Hist /\ h.dead = D /\ h.gone = G /\ h.back = cpHist.back /\ h.writes = cpHist.writes
  BY <1>6, <1>30 DEF Hist
<1>. HIDE DEF h
<1>26. h1 \in Hist /\ h1.dead = D /\ h1.gone = G /\ h1.back = cpHist.back /\ h1.writes = cpHist.writes /\ h1.stale = S
  BY <1>6, <1>24 DEF Hist
<1>. HIDE DEF h1
<1>27. h2 \in Hist /\ h2.dead = D /\ h2.gone = G /\ h2.back = cpHist.back /\ h2.writes = cpHist.writes /\ h2.stale = S /\ h2.told = T
  BY <1>6, <1>26 DEF Hist
<1>. HIDE DEF h2
<1>28. h3 \in Hist /\ h3.dead = D /\ h3.gone = G /\ h3.back = cpHist.back /\ h3.writes = cpHist.writes /\ h3.stale = S /\ h3.told = T
       /\ h3.crossed = X
  BY <1>6, <1>27 DEF Hist
<1>. HIDE DEF h3
<1>12. /\ cpHist' \in Hist /\ cpHist'.dead = D /\ cpHist'.gone = G /\ cpHist'.back = cpHist.back
       /\ cpHist'.writes = cpHist.writes
  BY <1>25, <1>28 DEF Hist
<1>13. cpHist'.stale = S /\ cpHist'.told = T /\ cpHist'.crossed = X /\ cpHist'.saved = TRUE
  BY <1>25, <1>28 DEF Hist
<1>14. /\ cpReq' \in [CPAdmins -> {NoRequest} \cup Pend] /\ cpReq'[r] = q
       /\ \A x \in CPAdmins : x # r /\ cpReq'[x] # NoRequest =>
            cpReq[x] # NoRequest /\ cpReq'[x].cfg = cpReq[x].cfg /\ cpReq'[x].auth = cpReq[x].auth /\ cpReq'[x].stale
  BY <1>3, <1>5, NowIs
<1>15. new.geo \in Versions
  BY <1>2 DEF Configs
<1>16. PICK j \in Job : cpJobs' = cpJobs \cup {j} /\ j.geo = new.geo /\ j.at = "banner"
  BY <1>3, <1>15, SpawnedIs
<1>17. cpRun' \in Parts /\ cpRun'.ups = new.ups /\ cpRun'.policy = new.policy /\ cpRun'.server = cpRun.server
  BY <1>2, <1>3, AppliedIs
<1>. HIDE DEF o, new
<1>18. CPTypes'
  BY <1>2, <1>3, <1>12, <1>14, <1>16, <1>17 DEF CPInv, CPTypes
<1>19. AllMade'
  <2>1. Made(cpCfg)' /\ Made(cpBackup)' /\ (cpDisk # TornConfig => Made(cpDisk))'
    BY <1>1, <1>3 DEF Made, CPInv, AllMade
  <2>2. ASSUME NEW x \in CPAdmins, cpReq'[x] # NoRequest PROVE Made(cpReq[x].cfg)' /\ cpReq'[x].auth < cpFresh'
    BY <1>1, <1>3, <1>5, <1>14, <2>2 DEF CPInv, AllMade, Made
  <2>. QED  BY <1>3, <1>7, <1>12, <2>1, <2>2 DEF AllMade
<1>20. NoneRevoked'
  <2>. SUFFICES ASSUME ~cpHist'.stale PROVE NoneRevoked'
    BY DEF NoneRevoked
  <2>1. ~cpHist.stale /\ ~o.stale
    BY <1>8, <1>13
  <2>2. Valid(new)
    BY <1>1, <2>1 DEF CPInv, NoneRevoked, o, new
  <2>3. Valid(cpCfg)' /\ Valid(cpDisk)'
    BY <1>3, <1>7, <1>12, <2>2 DEF Valid
  <2>4. \A x \in CPAdmins : cpReq'[x] # NoRequest /\ cpReq'[x].at = "apply" => cpReq'[x].stale
    BY <1>5, <1>14
  <2>. QED  BY <2>3, <2>4 DEF NoneRevoked
<1>21. (SecretOnDisk /\ LiveMatchesConfig)'
  BY <1>3, <1>17 DEF SecretOnDisk, LiveMatchesConfig
<1>22. OperatorTold'
  BY <1>3, <1>9, <1>13, <1>17 DEF CPInv, OperatorTold
<1>23. GeoUnderWay'
  BY <1>3, <1>10, <1>13, <1>16 DEF CPInv, GeoUnderWay
<1>. QED  BY <1>18, <1>19, <1>20, <1>21, <1>22, <1>23 DEF CPInv

(* The write whose save fails.                                             *)
LEMMA LeavesUnsaved == ASSUME CPInv, NEW r \in CPAdmins, ApplyUnsaved(r) PROVE CPInv'
<1>. DEFINE o == cpReq[r]
            new == o.cfg
            kept == [new EXCEPT !.secret = cpCfg.secret]
            S == cpHist.stale \/ o.stale
<1>1. o \in Pend /\ Made(new) /\ o.auth < cpFresh /\ o # NoRequest /\ o.at = "apply"
  BY PendingIs DEF ApplyUnsaved
<1>2. new \in Configs
  BY <1>1, ParsesIs DEF ApplyUnsaved, Pend
<1>3. cpUp = "up" /\ cpCfg' = kept /\ cpDisk' \in {cpDisk, TornConfig} /\ cpRun' = Applied(new)
      /\ cpReq' = RequestNow(r, NoRequest) /\ UNCHANGED <<cpBackup, cpJobs, cpUp, cpFresh>>
  BY DEF ApplyUnsaved, SecretAfterFailure
<1>4. cpHist' = [cpHist EXCEPT !.stale = S, !.told = TRUE, !.saved = FALSE]
  BY DEF ApplyUnsaved
<1>5. cpCfg \in Configs /\ Made(cpCfg) /\ cpHist \in Hist
  BY DEF CPInv, CPTypes, AllMade
<1>6. /\ kept \in Configs /\ kept.secret = cpCfg.secret /\ kept.users = new.users /\ kept.ups = new.ups
      /\ kept.policy = new.policy
  BY <1>2, <1>5 DEF Configs
<1>7. S \in BOOLEAN /\ (S <=> cpHist.stale \/ o.stale)
  BY <1>1, <1>5 DEF Pend, Hist
<1>. HIDE DEF S, kept
<1>8. /\ cpHist' \in Hist /\ cpHist'.dead = cpHist.dead /\ cpHist'.gone = cpHist.gone /\ cpHist'.back = cpHist.back
      /\ cpHist'.writes = cpHist.writes
  BY <1>4, <1>5, <1>7 DEF Hist
<1>9. cpHist'.stale = S /\ cpHist'.told /\ ~cpHist'.saved
  BY <1>4, <1>5, <1>7 DEF Hist
<1>10. /\ cpReq' \in [CPAdmins -> {NoRequest} \cup Pend] /\ cpReq'[r] = NoRequest
       /\ \A x \in CPAdmins : x # r /\ cpReq'[x] # NoRequest =>
            cpReq[x] # NoRequest /\ cpReq'[x].cfg = cpReq[x].cfg /\ cpReq'[x].auth = cpReq[x].auth /\ cpReq'[x].stale
  BY <1>3, NowIs
<1>11. cpRun' \in Parts /\ cpRun'.ups = new.ups /\ cpRun'.policy = new.policy /\ cpRun'.server = cpRun.server
  BY <1>2, <1>3, AppliedIs
<1>12. Made(kept)
  BY <1>1, <1>5, <1>6 DEF Made
<1>. HIDE DEF o, new
<1>13. CPTypes'
  BY <1>3, <1>6, <1>8, <1>10, <1>11 DEF CPInv, CPTypes
<1>14. AllMade'
  <2>1. Made(cpCfg)' /\ Made(cpBackup)' /\ (cpDisk # TornConfig => Made(cpDisk))'
    BY <1>3, <1>12 DEF Made, CPInv, AllMade
  <2>2. ASSUME NEW x \in CPAdmins, cpReq'[x] # NoRequest PROVE Made(cpReq[x].cfg)' /\ cpReq'[x].auth < cpFresh'
    BY <1>3, <1>10, <2>2 DEF CPInv, AllMade, Made
  <2>3. (\A t \in cpHist'.dead : t < cpFresh') /\ \A a \in CPAccounts : \A t \in cpHist'.gone[a] : t < cpFresh'
    BY <1>3, <1>8 DEF CPInv, AllMade
  <2>. QED  BY <2>1, <2>2, <2>3 DEF AllMade
<1>15. NoneRevoked'
  <2>. SUFFICES ASSUME ~cpHist'.stale PROVE NoneRevoked'
    BY DEF NoneRevoked
  <2>1. ~cpHist.stale /\ ~o.stale
    BY <1>7, <1>9
  <2>2. Valid(new) /\ Valid(cpCfg) /\ (cpDisk # TornConfig => Valid(cpDisk))
    BY <1>1, <2>1 DEF CPInv, NoneRevoked, o, new
  <2>3. Valid(kept)
    BY <1>6, <2>2 DEF Valid
  <2>4. Valid(cpCfg)' /\ (cpDisk # TornConfig => Valid(cpDisk))'
    BY <1>3, <1>8, <2>2, <2>3 DEF Valid
  <2>. QED  BY <1>10, <2>4 DEF NoneRevoked
<1>16. (SecretOnDisk /\ LiveMatchesConfig /\ OperatorTold)'
  BY <1>3, <1>6, <1>8, <1>9, <1>11 DEF CPInv, SecretOnDisk, LiveMatchesConfig, OperatorTold
<1>17. GeoUnderWay'
  BY <1>3, <1>9 DEF CPInv, GeoUnderWay
<1>. QED  BY <1>13, <1>14, <1>15, <1>16, <1>17 DEF CPInv

(* The archive's login comes back, with the secret it was made under.      *)
LEMMA RestoresAuth == ASSUME CPInv, NEW r \in CPAdmins, RestoreAuth(r) PROVE CPInv'
<1>. DEFINE auth == cpReq[r].auth
            old == [cpCfg EXCEPT !.legacy = 1]
            new == [old EXCEPT !.secret = auth]
            D == IF cpDisk' = new THEN SecretsGone(cpCfg, new) ELSE cpHist.dead
            B == cpHist.back \cup {auth}
<1>1. auth \in Stamps /\ auth < cpFresh
  BY PendingIs DEF RestoreAuth, Pend
<1>2. cpUp = "up" /\ cpReq' = RequestNow(r, NoRequest) /\ UNCHANGED <<cpBackup, cpRun, cpJobs, cpUp, cpFresh>>
  BY DEF RestoreAuth
<1>3. cpCfg \in Configs /\ Made(cpCfg) /\ cpHist \in Hist
  BY DEF CPInv, CPTypes, AllMade
<1>4. /\ cpReq' \in [CPAdmins -> {NoRequest} \cup Pend] /\ cpReq'[r] = NoRequest
      /\ \A x \in CPAdmins : x # r /\ cpReq'[x] # NoRequest =>
            cpReq[x] # NoRequest /\ cpReq'[x].cfg = cpReq[x].cfg /\ cpReq'[x].auth = cpReq[x].auth /\ cpReq'[x].stale
  BY <1>2, NowIs
<1>5. CASE cpCfg.legacy = 1
  <2>1. UNCHANGED <<cpCfg, cpDisk, cpHist>>
    BY <1>5 DEF RestoreAuth
  <2>2. CPTypes' /\ AllMade'
    BY <1>2, <1>4, <2>1 DEF CPInv, CPTypes, AllMade, Made
  <2>3. (NoneRevoked /\ SecretOnDisk /\ LiveMatchesConfig /\ OperatorTold /\ GeoUnderWay)'
    BY <1>2, <1>4, <2>1 DEF CPInv, NoneRevoked, Valid, SecretOnDisk, LiveMatchesConfig, OperatorTold, GeoUnderWay
  <2>. QED  BY <2>2, <2>3 DEF CPInv
<1>6. CASE cpCfg.legacy # 1
  <2>15. [cpCfg EXCEPT !.legacy = 1, !.secret = auth] = new
    BY <1>3 DEF Configs
  <2>1. cpCfg' = new /\ cpDisk' \in {new, cpDisk, TornConfig}
        /\ cpHist' = [cpHist EXCEPT !.back = cpHist.back \cup {new.secret}, !.dead = D]
    BY <1>6, <2>15 DEF RestoreAuth
  <2>16. /\ old \in Configs /\ old.users = cpCfg.users /\ old.ups = cpCfg.ups /\ old.policy = cpCfg.policy
         /\ old.geo = cpCfg.geo /\ old.server = cpCfg.server
    <3>1. 1 \in Versions
      BY DEF Versions
    <3>. QED  BY <1>3, <3>1 DEF Configs
  <2>. HIDE DEF old
  <2>2. /\ new \in Configs /\ new.secret = auth /\ new.users = cpCfg.users /\ new.ups = cpCfg.ups /\ new.policy = cpCfg.policy
        /\ new.geo = cpCfg.geo /\ new.server = cpCfg.server
    BY <1>1, <2>16 DEF Configs
  <2>3. Made(new)
    BY <1>1, <1>3, <2>2 DEF Made
  <2>4. D \in SUBSET Stamps /\ \A s \in D : s < cpFresh
    BY <1>3, <2>2, <2>3, GoneIs DEF CPInv, AllMade, Hist
  <2>5. cpDisk' # new => D = cpHist.dead
    OBVIOUS
  <2>6. cpHist' = [cpHist EXCEPT !.back = B, !.dead = D] /\ B \in SUBSET Stamps /\ auth \in B /\ cpHist.back \subseteq B
    BY <1>1, <1>3, <2>1, <2>2 DEF Hist
  <2>7. D \subseteq cpHist.dead \cup {cpCfg.secret}
    BY DEF SecretsGone
  <2>. HIDE DEF D, B, new
  <2>8. /\ cpHist' \in Hist /\ cpHist'.dead = D /\ cpHist'.back = B
        /\ cpHist'.writes = cpHist.writes /\ cpHist'.gone = cpHist.gone
    BY <1>3, <2>4, <2>6 DEF Hist
  <2>9. /\ cpHist'.stale = cpHist.stale /\ cpHist'.told = cpHist.told
        /\ cpHist'.crossed = cpHist.crossed /\ cpHist'.saved = cpHist.saved
    BY <1>3, <2>6 DEF Hist
  <2>10. CPTypes'
    BY <1>2, <1>4, <2>1, <2>2, <2>8 DEF CPInv, CPTypes
  <2>11. AllMade'
    <3>1. Made(cpCfg)' /\ Made(cpBackup)' /\ (cpDisk # TornConfig => Made(cpDisk))'
      BY <1>2, <2>1, <2>3 DEF Made, CPInv, AllMade
    <3>2. ASSUME NEW x \in CPAdmins, cpReq'[x] # NoRequest PROVE Made(cpReq[x].cfg)' /\ cpReq'[x].auth < cpFresh'
      BY <1>2, <1>4, <3>2 DEF CPInv, AllMade, Made
    <3>3. (\A t \in cpHist'.dead : t < cpFresh') /\ \A a \in CPAccounts : \A t \in cpHist'.gone[a] : t < cpFresh'
      BY <1>2, <2>4, <2>8 DEF CPInv, AllMade
    <3>. QED  BY <3>1, <3>2, <3>3 DEF AllMade
  <2>12. NoneRevoked'
    <3>. SUFFICES ASSUME ~cpHist'.stale PROVE NoneRevoked'
      BY DEF NoneRevoked
    <3>1. Valid(cpCfg) /\ (cpDisk # TornConfig => Valid(cpDisk))
      BY <2>9 DEF CPInv, NoneRevoked
    <3>2. Valid(cpCfg)'
      BY <2>1, <2>2, <2>6, <2>8, <3>1 DEF Valid
    <3>3. CASE cpDisk' = new
      BY <1>4, <2>1, <3>2, <3>3 DEF NoneRevoked
    <3>4. CASE cpDisk' = cpDisk /\ cpDisk' # new
      <4>1. cpDisk # TornConfig => Valid(cpDisk)'
        BY <2>5, <2>6, <2>8, <3>1, <3>4 DEF Valid
      <4>. QED  BY <1>4, <3>2, <3>4, <4>1 DEF NoneRevoked
    <3>5. CASE cpDisk' = TornConfig
      BY <1>4, <3>2, <3>5 DEF NoneRevoked
    <3>. QED  BY <2>1, <3>3, <3>4, <3>5
  <2>13. (SecretOnDisk /\ LiveMatchesConfig /\ OperatorTold)'
    BY <1>2, <2>1, <2>2, <2>6, <2>8, <2>9 DEF CPInv, SecretOnDisk, LiveMatchesConfig, OperatorTold
  <2>14. GeoUnderWay'
    BY <1>2, <2>1, <2>2, <2>9 DEF CPInv, GeoUnderWay
  <2>. QED  BY <2>10, <2>11, <2>12, <2>13, <2>14 DEF CPInv
<1>. QED  BY <1>5, <1>6

(* The invariant of a step that leaves configuration, file, requests and   *)
(* what is withdrawn alone: types and the parts about what runs.           *)
LEMMA RunOnly ==
  ASSUME CPInv, UNCHANGED <<cpCfg, cpDisk, cpBackup, cpReq, cpUp, cpFresh>>, cpUp = "up",
         cpRun' \in Parts, cpJobs' \subseteq Job, cpHist' \in Hist, cpHist'.writes = cpHist.writes,
         cpHist'.dead = cpHist.dead, cpHist'.gone = cpHist.gone, cpHist'.back = cpHist.back, cpHist'.stale = cpHist.stale,
         cpRun'.ups = cpCfg.ups, cpRun'.policy = cpCfg.policy,
         cpRun'.server = cpCfg.server \/ cpHist'.told \/ (cpRun'.server = cpRun.server /\ cpHist'.told = cpHist.told),
         GeoUnderWay'
  PROVE  CPInv'
<1>1. CPTypes' /\ AllMade'
  BY DEF CPInv, CPTypes, AllMade, Made
<1>2. (NoneRevoked /\ SecretOnDisk /\ LiveMatchesConfig /\ OperatorTold)'
  BY DEF CPInv, NoneRevoked, Valid, SecretOnDisk, LiveMatchesConfig, OperatorTold
<1>. QED  BY <1>1, <1>2 DEF CPInv

\* A geo build installs its banner.
LEMMA BansRange == ASSUME CPInv, NEW j \in cpJobs, BuildGeoBanner(j) PROVE CPInv'
<1>. DEFINE k == [j EXCEPT !.at = "geo"]
<1>1. cpUp = "up" /\ j \in Job /\ j.geo \in Versions /\ cpRun \in Parts /\ cpHist \in Hist
  BY DEF CPInv, CPTypes, Job, BuildGeoBanner
<1>2. k \in Job /\ k.geo = j.geo /\ k.at = "geo"
  BY <1>1 DEF Job
<1>3. cpRun' = [cpRun EXCEPT !.banner = j.geo] /\ cpJobs' = (cpJobs \ {j}) \cup {k}
      /\ UNCHANGED <<cpCfg, cpDisk, cpBackup, cpReq, cpUp, cpFresh, cpHist>>
  BY DEF BuildGeoBanner
<1>4. cpRun' \in Parts /\ cpRun'.ups = cpRun.ups /\ cpRun'.policy = cpRun.policy /\ cpRun'.server = cpRun.server /\ cpRun'.banner = j.geo
  BY <1>1, <1>3 DEF Parts
<1>. HIDE DEF k
<1>5. cpJobs' \subseteq Job
  BY <1>2, <1>3 DEF CPInv, CPTypes
<1>6. GeoUnderWay'
  <2>1. cpUp' = "up" /\ cpHist'.saved /\ ~cpHist'.crossed => cpJobs' = {k} /\ k.geo = cpCfg.geo
    BY <1>1, <1>2, <1>3 DEF CPInv, GeoUnderWay
  <2>. QED  BY <1>1, <1>2, <1>3, <1>4, <2>1 DEF GeoUnderWay
<1>. QED  BY <1>1, <1>3, <1>4, <1>5, <1>6, RunOnly DEF CPInv, LiveMatchesConfig

\* A geo build installs its blocker and ends.
LEMMA BuildsBlocker == ASSUME CPInv, NEW j \in cpJobs, BuildGeoBlocker(j) PROVE CPInv'
<1>1. cpUp = "up" /\ j.at = "geo" /\ j \in Job /\ j.geo \in Versions /\ cpRun \in Parts /\ cpHist \in Hist
  BY DEF CPInv, CPTypes, Job, BuildGeoBlocker
<1>2. cpRun' = [cpRun EXCEPT !.geo = j.geo] /\ cpJobs' = cpJobs \ {j}
      /\ UNCHANGED <<cpCfg, cpDisk, cpBackup, cpReq, cpUp, cpFresh, cpHist>>
  BY DEF BuildGeoBlocker
<1>3. cpRun' \in Parts /\ cpRun'.ups = cpRun.ups /\ cpRun'.policy = cpRun.policy /\ cpRun'.server = cpRun.server
      /\ cpRun'.geo = j.geo /\ cpRun'.banner = cpRun.banner
  BY <1>1, <1>2 DEF Parts
<1>4. cpJobs' \subseteq Job
  BY <1>2 DEF CPInv, CPTypes
<1>5. GeoUnderWay'
  BY <1>1, <1>2, <1>3 DEF CPInv, GeoUnderWay
<1>. QED  BY <1>1, <1>2, <1>3, <1>4, <1>5, RunOnly DEF CPInv, LiveMatchesConfig

(* A rebuild from the configuration in memory is spawned.                  *)
LEMMA SpawnsFrom ==
  ASSUME CPInv, cpUp = "up", cpJobs' = Spawned(cpCfg.geo), UNCHANGED <<cpCfg, cpUp>>, cpHist'.crossed = (cpJobs /= {})
  PROVE  GeoUnderWay' /\ cpJobs' \subseteq Job
<1>1. cpCfg.geo \in Versions
  BY DEF CPInv, CPTypes, Configs
<1>2. PICK j \in Job : cpJobs' = cpJobs \cup {j} /\ j.geo = cpCfg.geo /\ j.at = "banner"
  BY <1>1, SpawnedIs
<1>. QED  BY <1>2 DEF CPInv, CPTypes, GeoUnderWay

(* What a spawn notes: one event and one job more.                         *)
LEMMA EventIs ==
  ASSUME CPInv, cpHist' = [cpHist EXCEPT !.events = @ + 1, !.jobs = @ + 1, !.saved = TRUE, !.crossed = cpJobs /= {}]
  PROVE  /\ cpHist' \in Hist /\ cpHist'.dead = cpHist.dead /\ cpHist'.gone = cpHist.gone /\ cpHist'.back = cpHist.back
         /\ cpHist'.writes = cpHist.writes /\ cpHist'.stale = cpHist.stale /\ cpHist'.told = cpHist.told
         /\ cpHist'.crossed = (cpJobs /= {})
<1>. DEFINE X == cpJobs /= {}
            h0 == [cpHist EXCEPT !.events = cpHist.events + 1]
            h == [h0 EXCEPT !.jobs = h0.jobs + 1]
            h1 == [h EXCEPT !.saved = TRUE]
<1>1. cpHist \in Hist /\ X \in BOOLEAN
  BY DEF CPInv, CPTypes
<1>2. /\ h \in Hist /\ h.dead = cpHist.dead /\ h.gone = cpHist.gone /\ h.back = cpHist.back
      /\ h.writes = cpHist.writes /\ h.stale = cpHist.stale /\ h.told = cpHist.told
  <2>1. cpHist.events + 1 \in Nat
    BY <1>1 DEF Hist
  <2>2. SameHist(h0, cpHist)
    BY <1>1, <2>1, CountersApart
  <2>3. h0 \in Hist /\ h0.jobs + 1 \in Nat
    BY <2>2 DEF SameHist, Hist
  <2>. HIDE DEF h0
  <2>4. SameHist(h, h0)
    BY <2>3, CountersApart
  <2>. QED  BY <2>2, <2>4 DEF SameHist
<1>3. cpHist' = [h1 EXCEPT !.crossed = X]
  BY <1>1 DEF Hist
<1>. HIDE DEF h
<1>4. /\ h1 \in Hist /\ h1.dead = cpHist.dead /\ h1.gone = cpHist.gone /\ h1.back = cpHist.back
      /\ h1.writes = cpHist.writes /\ h1.stale = cpHist.stale /\ h1.told = cpHist.told
  BY <1>2 DEF Hist
<1>. HIDE DEF h1, X
<1>5. /\ cpHist' \in Hist /\ cpHist'.dead = cpHist.dead /\ cpHist'.gone = cpHist.gone /\ cpHist'.back = cpHist.back
      /\ cpHist'.writes = cpHist.writes /\ cpHist'.stale = cpHist.stale /\ cpHist'.told = cpHist.told
      /\ cpHist'.crossed = X
  BY <1>1, <1>3, <1>4 DEF Hist
<1>. QED  BY <1>5 DEF X

\* The periodic refresh starts a geo build of its own.
LEMMA Refreshes == CPInv /\ AutoRefresh => CPInv'
<1>. SUFFICES ASSUME CPInv, AutoRefresh PROVE CPInv'
  OBVIOUS
<1>1. cpUp = "up" /\ cpJobs' = Spawned(cpCfg.geo) /\ UNCHANGED <<cpCfg, cpDisk, cpBackup, cpRun, cpReq, cpUp, cpFresh>>
      /\ cpHist' = [cpHist EXCEPT !.events = @ + 1, !.jobs = @ + 1, !.saved = TRUE, !.crossed = cpJobs /= {}]
  BY DEF AutoRefresh
<1>2. cpRun \in Parts
  BY DEF CPInv, CPTypes
<1>. QED  BY <1>1, <1>2, EventIs, SpawnsFrom, RunOnly DEF CPInv, LiveMatchesConfig

\* A reload reads the file and puts it into effect.
LEMMA Reloads == CPInv /\ ReloadOK => CPInv'
<1>. SUFFICES ASSUME CPInv, ReloadOK PROVE CPInv'
  OBVIOUS
<1>1. cpUp = "up" /\ cpJobs' = Spawned(cpCfg.geo) /\ UNCHANGED <<cpCfg, cpDisk, cpBackup, cpReq, cpUp, cpFresh>>
      /\ cpHist' = [cpHist EXCEPT !.events = @ + 1, !.jobs = @ + 1, !.saved = TRUE, !.crossed = cpJobs /= {}]
  BY DEF ReloadOK
<1>2. cpCfg \in Configs /\ cpCfg.server \in Versions
  BY DEF CPInv, CPTypes, Configs
<1>. DEFINE a == Applied(cpCfg)
<1>3. a \in Parts /\ a.ups = cpCfg.ups /\ a.policy = cpCfg.policy
  BY <1>2, AppliedIs
<1>4. cpRun' = [a EXCEPT !.server = cpCfg.server]
  BY DEF ReloadOK
<1>. HIDE DEF a
<1>5. cpRun' \in Parts /\ cpRun'.ups = cpCfg.ups /\ cpRun'.policy = cpCfg.policy /\ cpRun'.server = cpCfg.server
  BY <1>2, <1>3, <1>4 DEF Parts
<1>. QED  BY <1>1, <1>5, EventIs, SpawnsFrom, RunOnly

\* A reload of a file that does not parse only tells the operator.
LEMMA FailsToReload == CPInv /\ ReloadFails => CPInv'
<1>. SUFFICES ASSUME CPInv, ReloadFails PROVE CPInv'
  OBVIOUS
<1>1. cpUp = "up" /\ UNCHANGED <<cpCfg, cpDisk, cpBackup, cpRun, cpReq, cpJobs, cpUp, cpFresh>>
      /\ cpHist' = [cpHist EXCEPT !.events = @ + 1, !.told = TRUE]
  BY DEF ReloadFails
<1>2. cpHist \in Hist /\ cpRun \in Parts /\ cpJobs \subseteq Job
  BY DEF CPInv, CPTypes
<1>3. /\ cpHist' \in Hist /\ cpHist'.dead = cpHist.dead /\ cpHist'.gone = cpHist.gone /\ cpHist'.back = cpHist.back
      /\ cpHist'.writes = cpHist.writes /\ cpHist'.stale = cpHist.stale /\ cpHist'.told /\ cpHist'.saved = cpHist.saved
      /\ cpHist'.crossed = cpHist.crossed
  <2>. DEFINE h == [cpHist EXCEPT !.events = cpHist.events + 1]
  <2>1. cpHist.events + 1 \in Nat
    BY <1>2 DEF Hist
  <2>2. SameHist(h, cpHist) /\ h.saved = cpHist.saved /\ h.crossed = cpHist.crossed
    BY <1>2, <2>1, CountersApart
  <2>3. cpHist' = [h EXCEPT !.told = TRUE]
    BY <1>1, <1>2 DEF Hist
  <2>. HIDE DEF h
  <2>. QED  BY <2>2, <2>3 DEF SameHist, Hist
<1>4. GeoUnderWay'
  BY <1>1, <1>3 DEF CPInv, GeoUnderWay
<1>. QED  BY <1>1, <1>2, <1>3, <1>4, RunOnly DEF CPInv, LiveMatchesConfig

\* A crash, which loses what was in memory and every request.
LEMMA Crashes == CPInv /\ Crash => CPInv'
<1>. SUFFICES ASSUME CPInv, Crash PROVE CPInv'
  OBVIOUS
<1>1. cpDisk' \in {cpDisk, TornConfig} /\ cpUp' = "down" /\ cpReq' = [r \in CPAdmins |-> NoRequest] /\ cpJobs' = {}
      /\ cpHist' = [cpHist EXCEPT !.events = @ + 1] /\ UNCHANGED <<cpCfg, cpBackup, cpRun, cpFresh>>
  BY DEF Crash
<1>2. cpHist \in Hist
  BY DEF CPInv, CPTypes
<1>3. /\ cpHist' \in Hist /\ cpHist'.dead = cpHist.dead /\ cpHist'.gone = cpHist.gone /\ cpHist'.back = cpHist.back
      /\ cpHist'.writes = cpHist.writes /\ cpHist'.stale = cpHist.stale
  BY <1>1, <1>2 DEF Hist
<1>4. CPTypes' /\ AllMade'
  BY <1>1, <1>3 DEF CPInv, CPTypes, AllMade, Made
<1>5. (NoneRevoked /\ SecretOnDisk /\ LiveMatchesConfig /\ OperatorTold /\ GeoUnderWay)'
  BY <1>1, <1>3 DEF CPInv, NoneRevoked, Valid, SecretOnDisk, LiveMatchesConfig, OperatorTold, GeoUnderWay
<1>. QED  BY <1>4, <1>5 DEF CPInv

\* A boot from the file, if it is whole.
LEMMA Boots == CPInv /\ Boot => CPInv'
<1>. SUFFICES ASSUME CPInv, Boot PROVE CPInv'
  OBVIOUS
<1>1. cpUp = "down" /\ cpJobs = {} /\ UNCHANGED <<cpDisk, cpBackup, cpReq, cpFresh>>
  BY DEF CPInv, GeoUnderWay, Boot
<1>2. CASE cpDisk = TornConfig
  <2>1. cpUp' = "dead" /\ UNCHANGED <<cpCfg, cpRun, cpJobs, cpHist>>
    BY <1>2 DEF Boot
  <2>2. CPTypes' /\ AllMade'
    BY <1>1, <2>1 DEF CPInv, CPTypes, AllMade, Made
  <2>3. (NoneRevoked /\ SecretOnDisk /\ LiveMatchesConfig /\ OperatorTold /\ GeoUnderWay)'
    BY <1>1, <2>1 DEF CPInv, NoneRevoked, Valid, SecretOnDisk, LiveMatchesConfig, OperatorTold, GeoUnderWay
  <2>. QED  BY <2>2, <2>3 DEF CPInv
<1>3. CASE cpDisk # TornConfig
  <2>1. cpUp' = "up" /\ cpCfg' = cpDisk /\ cpRun' = Running(cpDisk, 0) /\ cpJobs' = Spawned(cpDisk.geo)
        /\ cpHist' = [cpHist EXCEPT !.saved = TRUE, !.crossed = FALSE, !.jobs = @ + 1]
    BY <1>3 DEF Boot
  <2>2. cpHist \in Hist /\ cpDisk \in Configs /\ cpDisk.geo \in Versions
    BY <1>3 DEF CPInv, CPTypes, Configs
  <2>3. /\ cpHist' \in Hist /\ cpHist'.dead = cpHist.dead /\ cpHist'.gone = cpHist.gone /\ cpHist'.back = cpHist.back
        /\ cpHist'.writes = cpHist.writes /\ cpHist'.stale = cpHist.stale
    <3>. DEFINE h == [cpHist EXCEPT !.jobs = cpHist.jobs + 1]
                h1 == [h EXCEPT !.saved = TRUE]
    <3>1. cpHist.jobs + 1 \in Nat
      BY <2>2 DEF Hist
    <3>2. SameHist(h, cpHist)
      BY <2>2, <3>1, CountersApart
    <3>3. cpHist' = [h1 EXCEPT !.crossed = FALSE]
      BY <2>1, <2>2 DEF Hist
    <3>. HIDE DEF h
    <3>4. SameHist(h1, h)
      BY <3>2 DEF SameHist, Hist
    <3>. HIDE DEF h1
    <3>. QED  BY <3>2, <3>3, <3>4 DEF SameHist, Hist
  <2>4. PICK j \in Job : cpJobs' = cpJobs \cup {j} /\ j.geo = cpDisk.geo /\ j.at = "banner"
    BY <2>1, <2>2, SpawnedIs
  <2>5. cpRun' \in Parts /\ cpRun'.ups = cpDisk.ups /\ cpRun'.policy = cpDisk.policy /\ cpRun'.server = cpDisk.server
    BY <2>1, <2>2, RunningIs
  <2>6. CPTypes' /\ AllMade'
    BY <1>1, <1>3, <2>1, <2>2, <2>3, <2>4, <2>5 DEF CPInv, CPTypes, AllMade, Made
  <2>7. NoneRevoked'
    BY <1>1, <1>3, <2>1, <2>3 DEF CPInv, NoneRevoked, Valid
  <2>8. (SecretOnDisk /\ LiveMatchesConfig /\ OperatorTold)'
    BY <1>1, <2>1, <2>5 DEF SecretOnDisk, LiveMatchesConfig, OperatorTold
  <2>9. GeoUnderWay'
    BY <1>1, <2>1, <2>4 DEF GeoUnderWay
  <2>. QED  BY <2>6, <2>7, <2>8, <2>9 DEF CPInv
<1>. QED  BY <1>2, <1>3

\* Every step keeps the invariant.
LEMMA CPStep == CPInv /\ [CPNext]_CPVars => CPInv'
<1>. SUFFICES ASSUME CPInv, [CPNext]_CPVars PROVE CPInv'
  OBVIOUS
<1>1. ASSUME NEW r \in CPAdmins,
             PutRequest(r) \/ RestoreRequest(r) \/ ApplyRefused(r) \/ ApplySaved(r) \/ ApplyUnsaved(r) \/ RestoreAuth(r)
      PROVE  CPInv'
  BY <1>1, Puts, Restores, Refuses, Saves, LeavesUnsaved, RestoresAuth
<1>2. ASSUME NEW j \in cpJobs, BuildGeoBanner(j) \/ BuildGeoBlocker(j) PROVE CPInv'
  BY <1>2, BansRange, BuildsBlocker
<1>3. CASE Backup \/ AutoRefresh \/ ReloadOK \/ ReloadFails \/ Crash \/ Boot
  BY <1>3, BacksUp, Refreshes, Reloads, FailsToReload, Crashes, Boots
<1>4. CASE UNCHANGED CPVars
  <2>1. UNCHANGED <<cpCfg, cpDisk, cpBackup, cpRun, cpReq, cpJobs, cpUp, cpFresh, cpHist>>
    BY <1>4 DEF CPVars
  <2>2. CPTypes' /\ AllMade'
    BY <2>1 DEF CPInv, CPTypes, AllMade, Made
  <2>3. (NoneRevoked /\ SecretOnDisk /\ LiveMatchesConfig /\ OperatorTold /\ GeoUnderWay)'
    BY <2>1 DEF CPInv, NoneRevoked, Valid, SecretOnDisk, LiveMatchesConfig, OperatorTold, GeoUnderWay
  <2>. QED  BY <2>2, <2>3 DEF CPInv
<1>. QED  BY <1>1, <1>2, <1>3, <1>4 DEF CPNext

\* The invariant gives what the component promises.
LEMMA CPHolds == CPInv => ControlSound /\ RevokedStayRevoked
<1>. SUFFICES ASSUME CPInv PROVE ControlSound /\ RevokedStayRevoked
  OBVIOUS
<1>1. CPTypeOK
  <2>1. \A r \in CPAdmins : cpReq[r] # NoRequest => DOMAIN cpReq[r] = {"cfg", "auth", "at", "stale"}
    BY DEF CPInv, CPTypes, Pend
  <2>. QED  BY <2>1 DEF CPInv, CPTypes, CPTypeOK, Parts, Job
<1>2. GeoFollowsConfig
  BY DEF CPInv, GeoUnderWay, GeoFollowsConfig
<1>3. RevokedStayRevoked
  BY DEF CPInv, NoneRevoked, Valid, RevokedStayRevoked
<1>. QED  BY <1>1, <1>2, <1>3 DEF ControlSound, CPInv

\* For any number of administrators, accounts, writes and reloads: the session
\* secret is on disk, the hot sections in effect are the configured ones, the
\* operator was told of the others, and geo blocking ends up with the last
\* configuration (applyPayload, restoreConfig, reload, buildGeo).
THEOREM ControlHolds == CPSpec => []ControlSound
<1>1. CPSpec => []CPInv
  BY CPInitial, CPStep, PTL DEF CPSpec
<1>. QED  BY <1>1, CPHolds, PTL

\* In every such history a withdrawn secret or password is never accepted
\* again, unless a request was resolved before another's apply.
THEOREM WithdrawnForGood == CPSpec => []RevokedStayRevoked
<1>1. CPSpec => []CPInv
  BY CPInitial, CPStep, PTL DEF CPSpec
<1>. QED  BY <1>1, CPHolds, PTL

-----------------------------------------------------------------------------
(* The rules. RulesCurrent needs to know what the engine holds while it is *)
(* clean: nothing but the enabled lists' rules, and all of those that no   *)
(* reload has yet to load (Clean); that the working sets hold the manual   *)
(* entries as they are (Manual); and that the last Compile published them  *)
(* (Compiling, Rests). What Compile's whitelist removes is decided the     *)
(* same way whenever it is compiled (Has, Fits).                           *)

FLRules == [form : {"tree", "exact", "regex"}, name : QNames]
FLEntries == [url : URLs, on : BOOLEAN, gen : 0..FLEdits, content : 0..Torn]
FLSets == [block : SUBSET FLRules, allow : SUBSET FLRules, ips : BOOLEAN, black : SUBSET FLRules, white : SUBSET FLRules,
           blackRx : SUBSET FLRules, whiteRx : SUBSET FLRules]
FLNexts == [pc : {"next"}, todo : SUBSET FLLists, tick : BOOLEAN, bad : BOOLEAN, good : BOOLEAN]
FLFetching == [pc : {"fetch", "persist"}, todo : SUBSET FLLists, tick : BOOLEAN, bad : BOOLEAN, good : BOOLEAN,
               l : FLLists, gen : 0..FLEdits, got : URLs]
FLReloads == [pc : {"reset", "clear", "enter", "load"}, todo : SUBSET FLLists]
FLSteps == {Resting, [pc |-> "snap"], [pc |-> "compile"], [pc |-> "publish"]} \cup FLNexts \cup FLFetching \cup FLReloads

FLKinds ==
  /\ flConf \in [FLLists -> [st : {"gone", "off", "on"}, url : URLs]]
  /\ flFile \in [FLLists -> 0..Torn]
  /\ DOMAIN flStore = FLLists /\ flStore = [l \in FLLists |-> flStore[l]]
  /\ \A l \in FLLists :
       IF flConf[l].st = "gone" THEN flStore[l] = NoEntry
       ELSE flStore[l] \in FLEntries /\ (flStore[l].on <=> flConf[l].st = "on")
  /\ flManual \in ManualLists
  /\ flWork \in FLSets
  /\ flGate \in BOOLEAN /\ flClean \in BOOLEAN
  /\ flProc \in [FLProcs -> FLSteps]
  /\ flCount \in [edits : 0..FLEdits, fetches : Nat]

Enabled == {l \in FLLists : flConf[l].st = "on"}
BlockOf(S) == UNION {RulesOf(flStore[l].content).block : l \in S}
AllowOf(S) == UNION {RulesOf(flStore[l].content).allow : l \in S}

(* A block the whitelist removes in Compile.                               *)
Strips(e, r) == e.name = r.name /\ r.form # "regex" /\ (e.form = "tree" \/ r.form = "exact")

(* The working sets hold the lists' rules, up to what the whitelist does.  *)
Fits(w, A, B, W) == /\ A \subseteq w.allow /\ w.allow \subseteq A \cup W
                    /\ w.block \subseteq B
                    /\ \A r \in B \ w.block : \E e \in W : Strips(e, r)
Ready == Fits(flWork, AllowOf(Enabled), BlockOf(Enabled), flManual.white)

(* ... those of one list's content c.                                      *)
Has(w, c, W) == /\ RulesOf(c).allow \subseteq w.allow
                /\ \A r \in RulesOf(c).block \ w.block : \E e \in W : Strips(e, r)

(* Lists a reload that has reset the engine has yet to load.               *)
ToLoad == {l \in FLLists : \E p \in FLProcs : flProc[p].pc \in {"clear", "enter", "load"} /\ l \in flProc[p].todo}

Manual == flWork.black = flManual.black /\ flWork.white = flManual.white /\ flWork.blackRx = {} /\ flWork.whiteRx = {}
Gated == /\ flGate = flWork.ips /\ flPub.ips \in BOOLEAN
         /\ flPub.ips => flWork.ips \/ \E p \in FLProcs : flProc[p].pc = "clear"
OneLoads == \A p, q \in FLProcs : flProc[p].pc = "load" /\ flProc[q].pc = "load" => p = q
Clean == flClean =>
  /\ flWork.allow \subseteq AllowOf(Enabled) \cup flManual.white
  /\ flWork.block \subseteq BlockOf(Enabled)
  /\ \A l \in Enabled \ ToLoad : Has(flWork, flStore[l].content, flManual.white)
Compiling == (\E p \in FLProcs : flProc[p].pc = "publish") => flManual.white \subseteq flWork.allow
Rests == (\A p \in FLProcs : ~Unpublished(p)) => flPub = Published(flWork) /\ flManual.white \subseteq flWork.allow

FLInv == FLKinds /\ Manual /\ Gated /\ OneLoads /\ Clean /\ Compiling /\ Rests

\* What a process remembers at each of its steps.
LEMMA FormOf ==
  ASSUME NEW r \in FLSteps
  PROVE  /\ r.pc \in {"idle", "snap", "next", "fetch", "persist", "reset", "clear", "enter", "load", "compile", "publish"}
         /\ r.pc = "next" => r \in FLNexts
         /\ r.pc \in {"fetch", "persist"} => r \in FLFetching
         /\ r.pc \in {"reset", "clear", "enter", "load"} => r \in FLReloads
         /\ r = Resting => r.pc = "idle"
<1>1. CASE r = Resting
  BY <1>1 DEF Resting
<1>2. CASE r \in {[pc |-> "snap"], [pc |-> "compile"], [pc |-> "publish"]}
  BY <1>2 DEF Resting
<1>3. CASE r \in FLNexts
  BY <1>3 DEF FLNexts, Resting
<1>4. CASE r \in FLFetching
  BY <1>4 DEF FLFetching, Resting
<1>5. CASE r \in FLReloads
  BY <1>5 DEF FLReloads, Resting
<1>. QED  BY <1>1, <1>2, <1>3, <1>4, <1>5 DEF FLSteps

\* A list's entry is not the absence of one.
LEMMA EntryThere == ASSUME NEW e \in FLEntries PROVE e # NoEntry
<1>. SUFFICES ASSUME e = NoEntry PROVE FALSE
  OBVIOUS
<1>1. DOMAIN e = {"url", "on", "gen", "content"}
  BY DEF FLEntries
<1>2. DOMAIN NoEntry = {"none"}
  BY DEF NoEntry
<1>3. "url" \in DOMAIN e /\ "url" \notin DOMAIN NoEntry
  BY <1>1, <1>2
<1>. QED  BY <1>3

\* What a list's content parses to.
LEMMA RuleKinds ==
  /\ \A c : /\ RulesOf(c) \in [block : SUBSET FLRules, allow : SUBSET FLRules, ips : BOOLEAN]
            /\ RulesOf(c).block \subseteq FLRules /\ RulesOf(c).allow \subseteq FLRules /\ RulesOf(c).ips \in BOOLEAN
  /\ \A r \in FLRules : r.form \in {"tree", "exact", "regex"} /\ r.name \in QNames
<1>1. ASSUME NEW c PROVE RulesOf(c) \in [block : SUBSET FLRules, allow : SUBSET FLRules, ips : BOOLEAN]
  <2>1. /\ Rule("tree", "top") \in FLRules /\ Rule("regex", "sub") \in FLRules /\ Rule("exact", "top") \in FLRules
        /\ Rule("exact", "sub") \in FLRules
    BY DEF Rule, FLRules, QNames
  <2>. QED  BY <2>1 DEF RulesOf, ContentOf
<1>2. \A r \in FLRules : r.form \in {"tree", "exact", "regex"} /\ r.name \in QNames
  BY DEF FLRules
<1>. QED  BY <1>1, <1>2

(* Without /pattern/ entries the manual lists hold plain rules.            *)
LEMMA PlainManual ==
  ASSUME ~FLRegexEntry, NEW m \in ManualLists
  PROVE  /\ Plain(m.black) = m.black /\ Plain(m.white) = m.white /\ Patterns(m.black) = {} /\ Patterns(m.white) = {}
         /\ m.black \subseteq FLRules /\ m.white \subseteq FLRules
<1>1. m.black \subseteq ManualRules /\ m.white \subseteq ManualRules
  BY DEF ManualLists
<1>2. \A r \in ManualRules : r \in FLRules /\ r.form # "regex"
  BY DEF ManualRules, FLRules, Rule, QNames
<1>. QED  BY <1>1, <1>2 DEF Plain, Patterns

\* Reset empties the working sets but not the manual entries.
LEMMA ResetIs ==
  ASSUME NEW w \in FLSets
  PROVE  LET x == ResetWork(w)
         IN /\ x \in FLSets /\ x.block = {} /\ x.allow = {} /\ x.ips = FALSE /\ x.blackRx = {} /\ x.whiteRx = {}
            /\ x.black = w.black /\ x.white = w.white
<1>. DEFINE a == [w EXCEPT !.block = {}]
            b == [a EXCEPT !.allow = {}]
            c == [b EXCEPT !.ips = FALSE]
            d == [c EXCEPT !.blackRx = {}]
            e == [d EXCEPT !.whiteRx = {}]
<1>1. a \in FLSets /\ a.block = {} /\ a.black = w.black /\ a.white = w.white
  BY DEF FLSets
<1>. HIDE DEF a
<1>2. b \in FLSets /\ b.block = {} /\ b.allow = {} /\ b.black = w.black /\ b.white = w.white
  BY <1>1 DEF FLSets
<1>. HIDE DEF b
<1>3. c \in FLSets /\ c.block = {} /\ c.allow = {} /\ c.ips = FALSE /\ c.black = w.black /\ c.white = w.white
  BY <1>2 DEF FLSets
<1>. HIDE DEF c
<1>4. d \in FLSets /\ d.block = {} /\ d.allow = {} /\ d.ips = FALSE /\ d.blackRx = {} /\ d.black = w.black /\ d.white = w.white
  BY <1>3 DEF FLSets
<1>. HIDE DEF d
<1>5. /\ e \in FLSets /\ e.block = {} /\ e.allow = {} /\ e.ips = FALSE /\ e.blackRx = {} /\ e.whiteRx = {}
      /\ e.black = w.black /\ e.white = w.white
  BY <1>4 DEF FLSets
<1>6. ResetWork(w) = e
  BY DEF ResetWork, a, b, c, d
<1>. QED  BY <1>5, <1>6

\* What SetManual makes of the working sets.
LEMMA ManualIs ==
  ASSUME ~FLRegexEntry, NEW w \in FLSets, NEW m \in ManualLists
  PROVE  LET x == ManualWork(w, m)
         IN /\ x \in FLSets /\ x.black = m.black /\ x.white = m.white /\ x.blackRx = {} /\ x.whiteRx = {}
            /\ x.block = w.block /\ x.allow = w.allow /\ x.ips = w.ips
<1>0. /\ Plain(m.black) = m.black /\ Plain(m.white) = m.white /\ Patterns(m.black) = {} /\ Patterns(m.white) = {}
      /\ m.black \subseteq FLRules /\ m.white \subseteq FLRules
  BY PlainManual
<1>. DEFINE a == [w EXCEPT !.black = m.black]
            b == [a EXCEPT !.white = m.white]
            c == [b EXCEPT !.blackRx = {}]
            d == [c EXCEPT !.whiteRx = {}]
<1>1. a \in FLSets /\ a.black = m.black /\ a.block = w.block /\ a.allow = w.allow /\ a.ips = w.ips
  BY <1>0 DEF FLSets
<1>. HIDE DEF a
<1>2. b \in FLSets /\ b.black = m.black /\ b.white = m.white /\ b.block = w.block /\ b.allow = w.allow /\ b.ips = w.ips
  BY <1>0, <1>1 DEF FLSets
<1>. HIDE DEF b
<1>3. /\ c \in FLSets /\ c.black = m.black /\ c.white = m.white /\ c.blackRx = {} /\ c.block = w.block /\ c.allow = w.allow
      /\ c.ips = w.ips
  BY <1>2 DEF FLSets
<1>. HIDE DEF c
<1>4. /\ d \in FLSets /\ d.black = m.black /\ d.white = m.white /\ d.blackRx = {} /\ d.whiteRx = {} /\ d.block = w.block
      /\ d.allow = w.allow /\ d.ips = w.ips
  BY <1>3 DEF FLSets
<1>5. ManualWork(w, m) = d
  BY <1>0 DEF ManualWork, a, b, c
<1>. QED  BY <1>4, <1>5

\* What loading one list adds to the working sets.
LEMMA LoadIs ==
  ASSUME NEW w \in FLSets, NEW k
  PROVE  LET x == LoadWork(w, k)
         IN /\ x \in FLSets /\ x.block = w.block \cup RulesOf(k).block /\ x.allow = w.allow \cup RulesOf(k).allow
            /\ (w.ips => x.ips) /\ x.black = w.black /\ x.white = w.white /\ x.blackRx = w.blackRx /\ x.whiteRx = w.whiteRx
<1>0. PICK r : r = RulesOf(k) /\ r.block \subseteq FLRules /\ r.allow \subseteq FLRules /\ r.ips \in BOOLEAN
  BY RuleKinds
<1>. DEFINE a == [w EXCEPT !.block = w.block \cup r.block]
            b == [a EXCEPT !.allow = a.allow \cup r.allow]
            c == [b EXCEPT !.ips = b.ips \/ r.ips]
<1>1. /\ a \in FLSets /\ a.block = w.block \cup r.block /\ a.allow = w.allow /\ a.ips = w.ips
      /\ a.black = w.black /\ a.white = w.white /\ a.blackRx = w.blackRx /\ a.whiteRx = w.whiteRx
  BY <1>0 DEF FLSets
<1>. HIDE DEF a
<1>2. /\ b \in FLSets /\ b.block = w.block \cup r.block /\ b.allow = w.allow \cup r.allow /\ b.ips = w.ips
      /\ b.black = w.black /\ b.white = w.white /\ b.blackRx = w.blackRx /\ b.whiteRx = w.whiteRx
  BY <1>0, <1>1 DEF FLSets
<1>. HIDE DEF b
<1>3. /\ c \in FLSets /\ c.block = w.block \cup r.block /\ c.allow = w.allow \cup r.allow /\ (w.ips => c.ips)
      /\ c.black = w.black /\ c.white = w.white /\ c.blackRx = w.blackRx /\ c.whiteRx = w.whiteRx
  BY <1>0, <1>2 DEF FLSets
<1>4. LoadWork(w, k) = c
  BY <1>0 DEF LoadWork, a, b
<1>. QED  BY <1>0, <1>3, <1>4

\* What Compile makes of the working sets.
LEMMA CompileIs ==
  ASSUME NEW w \in FLSets
  PROVE  LET x == CompileWork(w)
         IN /\ x \in FLSets /\ x.allow = w.allow \cup w.white /\ x.block = Stripped(w) /\ x.ips = w.ips
            /\ x.black = w.black /\ x.white = w.white /\ x.blackRx = w.blackRx /\ x.whiteRx = w.whiteRx
<1>0. PICK s : s = Stripped(w) /\ s \subseteq w.block
  BY DEF Stripped
<1>. DEFINE a == [w EXCEPT !.allow = w.allow \cup w.white]
            b == [a EXCEPT !.block = s]
<1>1. /\ a \in FLSets /\ a.allow = w.allow \cup w.white /\ a.block = w.block /\ a.ips = w.ips
      /\ a.black = w.black /\ a.white = w.white /\ a.blackRx = w.blackRx /\ a.whiteRx = w.whiteRx
  BY DEF FLSets
<1>. HIDE DEF a
<1>2. /\ b \in FLSets /\ b.allow = w.allow \cup w.white /\ b.block = s /\ b.ips = w.ips
      /\ b.black = w.black /\ b.white = w.white /\ b.blackRx = w.blackRx /\ b.whiteRx = w.whiteRx
  BY <1>0, <1>1 DEF FLSets
<1>3. CompileWork(w) = b
  BY <1>0 DEF CompileWork, a
<1>. QED  BY <1>0, <1>2, <1>3

(* What the rule sets a boot computes hold.                                *)
LEMMA LoadedIs ==
  ASSUME NEW w \in FLSets, NEW store, DOMAIN store = FLLists
  PROVE  LET x == Loaded(w, store)
             on == {l \in FLLists : store[l] # NoEntry /\ store[l].on}
         IN /\ x \in FLSets /\ x.block = UNION {RulesOf(store[l].content).block : l \in on}
            /\ x.allow = UNION {RulesOf(store[l].content).allow : l \in on}
            /\ x.black = w.black /\ x.white = w.white /\ x.blackRx = w.blackRx /\ x.whiteRx = w.whiteRx
<1>. DEFINE on == {l \in FLLists : store[l] # NoEntry /\ store[l].on}
            all == {RulesOf(store[l].content) : l \in on}
            u == UNION {c.block : c \in all}
            v == UNION {c.allow : c \in all}
            f == \E c \in all : c.ips
            a == [w EXCEPT !.block = u]
            b == [a EXCEPT !.allow = v]
            d == [b EXCEPT !.ips = f]
<1>1. Loaded(w, store) = d
  BY Zenon DEF Loaded
<1>2. u = UNION {RulesOf(store[l].content).block : l \in on} /\ v = UNION {RulesOf(store[l].content).allow : l \in on}
  OBVIOUS
<1>3. u \subseteq FLRules /\ v \subseteq FLRules /\ f \in BOOLEAN
  BY RuleKinds
<1>. HIDE DEF u, v, f, all, on
<1>4. /\ a \in FLSets /\ a.block = u
      /\ a.black = w.black /\ a.white = w.white /\ a.blackRx = w.blackRx /\ a.whiteRx = w.whiteRx
  BY <1>3 DEF FLSets
<1>. HIDE DEF a
<1>5. /\ b \in FLSets /\ b.block = u /\ b.allow = v
      /\ b.black = w.black /\ b.white = w.white /\ b.blackRx = w.blackRx /\ b.whiteRx = w.whiteRx
  BY <1>3, <1>4 DEF FLSets
<1>. HIDE DEF b
<1>6. /\ d \in FLSets /\ d.block = u /\ d.allow = v
      /\ d.black = w.black /\ d.white = w.white /\ d.blackRx = w.blackRx /\ d.whiteRx = w.whiteRx
  BY <1>3, <1>5 DEF FLSets
<1>. QED  BY <1>1, <1>2, <1>6 DEF on

\* One process goes on and the others stay.
LEMMA Proceeding ==
  ASSUME FLKinds, NEW p \in FLProcs, NEW r \in FLSteps, Proceeds(p, r)
  PROVE  flProc' \in [FLProcs -> FLSteps] /\ flProc'[p] = r /\ \A x \in FLProcs : x # p => flProc'[x] = flProc[x]
BY DEF FLKinds, Proceeds

\* The lists' rules, where the lists stay.
LEMMA Unmoved ==
  ASSUME UNCHANGED <<flConf, flStore>>
  PROVE  Enabled' = Enabled /\ AllowOf(Enabled)' = AllowOf(Enabled) /\ BlockOf(Enabled)' = BlockOf(Enabled)
BY DEF Enabled, AllowOf, BlockOf

\* A step that changes no rules and leaves no list unloaded.
LEMMA Framed ==
  ASSUME Clean, UNCHANGED <<flConf, flStore, flManual, flWork, flClean>>, ToLoad \subseteq ToLoad'
  PROVE  Clean'
<1>1. Enabled' = Enabled /\ AllowOf(Enabled)' = AllowOf(Enabled) /\ BlockOf(Enabled)' = BlockOf(Enabled)
  BY Unmoved
<1>2. ASSUME flClean, NEW l \in Enabled \ ToLoad' PROVE Has(flWork', flStore'[l].content, flManual'.white)
  BY <1>2 DEF Clean
<1>. QED  BY <1>1, <1>2 DEF Clean

(* A step of a process before it resets the engine, or after it has        *)
(* published.                                                              *)
LEMMA Beside ==
  ASSUME FLInv, NEW p \in FLProcs, NEW r \in FLSteps, Proceeds(p, r), ~Unpublished(p),
         r.pc \notin {"clear", "enter", "load", "compile", "publish"}
  PROVE  /\ flProc' \in [FLProcs -> FLSteps] /\ flProc'[p] = r /\ ToLoad' = ToLoad
         /\ \A x \in FLProcs : Unpublished(x)' <=> Unpublished(x)
         /\ \A x \in FLProcs : flProc'[x].pc \in {"clear", "load", "publish"} => flProc'[x].pc = flProc[x].pc
         /\ \A x \in FLProcs : flProc[x].pc = "clear" => flProc'[x].pc = "clear"
<1>1. flProc' \in [FLProcs -> FLSteps] /\ flProc'[p] = r /\ \A x \in FLProcs : x # p => flProc'[x] = flProc[x]
  BY Proceeding DEF FLInv
<1>2. flProc[p].pc \notin {"clear", "enter", "load", "compile", "publish"} /\ flProc'[p].pc \notin {"clear", "enter", "load", "compile", "publish"}
  BY <1>1 DEF Unpublished
<1>3. \A x \in FLProcs : Unpublished(x)' <=> Unpublished(x)
  BY <1>1, <1>2 DEF Unpublished
<1>4. ToLoad' = ToLoad
  BY <1>1, <1>2 DEF ToLoad
<1>. QED  BY <1>1, <1>2, <1>3, <1>4

(* Whatever a download does while nothing is reloaded by its goroutine.    *)
LEMMA Aside ==
  ASSUME FLInv, NEW p \in FLProcs, NEW r \in FLSteps, Proceeds(p, r), ~Unpublished(p),
         r.pc \notin {"clear", "enter", "load", "compile", "publish"},
         flFile' \in [FLLists -> 0..Torn], flCount' \in [edits : 0..FLEdits, fetches : Nat],
         UNCHANGED <<flConf, flStore, flManual, flWork, flPub, flGate, flClean>>
  PROVE  FLInv'
<1>1. /\ flProc' \in [FLProcs -> FLSteps] /\ flProc'[p] = r /\ ToLoad' = ToLoad
      /\ \A x \in FLProcs : Unpublished(x)' <=> Unpublished(x)
      /\ \A x \in FLProcs : flProc'[x].pc \in {"clear", "load", "publish"} => flProc'[x].pc = flProc[x].pc
      /\ \A x \in FLProcs : flProc[x].pc = "clear" => flProc'[x].pc = "clear"
  BY Beside
<1>2. FLKinds'
  BY <1>1 DEF FLInv, FLKinds
<1>3. Manual' /\ Gated' /\ OneLoads'
  BY <1>1 DEF FLInv, Manual, Gated, OneLoads
<1>4. Clean'
  BY <1>1, Unmoved, Framed DEF FLInv
<1>5. Compiling' /\ Rests'
  BY <1>1 DEF FLInv, Compiling, Rests
<1>. QED  BY <1>2, <1>3, <1>4, <1>5 DEF FLInv

(* A change of the lists or their content.                                 *)
LEMMA Disturbed ==
  ASSUME FLInv, NEW p \in FLProcs, NEW r \in FLSteps, Proceeds(p, r), ~Unpublished(p),
         r.pc \notin {"clear", "enter", "load", "compile", "publish"}, flClean' = FALSE,
         FLKinds', UNCHANGED <<flManual, flWork, flPub, flGate>>
  PROVE  FLInv'
<1>1. /\ \A x \in FLProcs : Unpublished(x)' <=> Unpublished(x)
      /\ \A x \in FLProcs : flProc'[x].pc \in {"clear", "load", "publish"} => flProc'[x].pc = flProc[x].pc
      /\ \A x \in FLProcs : flProc[x].pc = "clear" => flProc'[x].pc = "clear"
  BY Beside
<1>2. Manual' /\ Gated' /\ OneLoads'
  BY <1>1 DEF FLInv, Manual, Gated, OneLoads
<1>3. Clean' /\ Compiling' /\ Rests'
  BY <1>1 DEF FLInv, Clean, Compiling, Rests
<1>. QED  BY <1>2, <1>3 DEF FLInv

\* A list is added, switched, moved to another address or deleted.
LEMMA EditListKeeps ==
  ASSUME FLInv, NEW l \in FLLists, NEW spec \in [st : {"gone", "off", "on"}, url : URLs], EditList(l, spec)
  PROVE  FLInv'
<1>1. /\ flConf' = [flConf EXCEPT ![l] = spec] /\ flStore' = SpecsSet(flConf', flCount.edits + 1)
      /\ flCount.edits < FLEdits /\ flCount' = [flCount EXCEPT !.edits = flCount.edits + 1] /\ flClean' = FALSE
      /\ Proceeds(API, [pc |-> "snap"]) /\ UNCHANGED <<flFile, flManual, flWork, flPub, flGate>>
      /\ flProc[API] = Resting
  BY DEF EditList
<1>2. FLKinds /\ [pc |-> "snap"] \in FLSteps /\ API \in FLProcs /\ [pc |-> "snap"].pc = "snap"
  BY DEF FLInv, FLSteps, FLProcs
<1>3. flProc' \in [FLProcs -> FLSteps]
  BY <1>1, <1>2, Proceeding
<1>4. ~Unpublished(API)
  BY <1>1 DEF Unpublished, Resting
<1>5. flConf' \in [FLLists -> [st : {"gone", "off", "on"}, url : URLs]]
  BY <1>1, <1>2 DEF FLKinds
<1>6. /\ flCount' \in [edits : 0..FLEdits, fetches : Nat] /\ flCount.edits + 1 \in 0..FLEdits /\ flCount.edits \in 0..FLEdits
  BY <1>1, <1>2, FLAssumption DEF FLKinds
<1>7. DOMAIN flStore' = FLLists /\ flStore' = [x \in FLLists |-> flStore'[x]]
  BY <1>1 DEF SpecsSet
<1>8. ASSUME NEW x \in FLLists
      PROVE  IF flConf'[x].st = "gone" THEN flStore'[x] = NoEntry
             ELSE flStore'[x] \in FLEntries /\ (flStore'[x].on <=> flConf'[x].st = "on")
  <2>. DEFINE old == IF flStore[x] = NoEntry THEN [content |-> 0, gen |-> flCount.edits + 1] ELSE flStore[x]
              n == [url |-> flConf'[x].url, on |-> flConf'[x].st = "on", gen |-> old.gen,
                    content |-> IF old.content = 0 THEN flFile[x] ELSE old.content]
  <2>1. flStore'[x] = IF flConf'[x].st = "gone" THEN NoEntry ELSE n
    BY <1>1 DEF SpecsSet
  <2>2. old.gen \in 0..FLEdits /\ old.content \in 0..Torn
    <3>1. CASE flStore[x] = NoEntry
      BY <1>6, <3>1 DEF Torn
    <3>2. CASE flStore[x] # NoEntry
      BY <1>2, <3>2 DEF FLKinds, FLEntries
    <3>. QED  BY <3>1, <3>2
  <2>. HIDE DEF old
  <2>3. flFile[x] \in 0..Torn /\ flConf'[x].url \in URLs
    BY <1>2, <1>5 DEF FLKinds
  <2>4. n \in FLEntries /\ (n.on <=> flConf'[x].st = "on")
    BY <2>2, <2>3 DEF FLEntries
  <2>. QED  BY <2>1, <2>4
<1>9. FLKinds'
  BY <1>1, <1>2, <1>3, <1>5, <1>6, <1>7, <1>8 DEF FLKinds
<1>. QED  BY <1>1, <1>2, <1>4, <1>9, Disturbed

\* A refresh begins.
LEMMA RefreshBeginsKeeps ==
  ASSUME FLInv, NEW p \in FLRefreshers, NEW todo \in SUBSET FLLists, NEW tick \in BOOLEAN, RefreshBegins(p, todo, tick)
  PROVE  FLInv'
<1>. DEFINE r == [pc |-> "next", todo |-> todo, tick |-> tick, bad |-> FALSE, good |-> FALSE]
<1>1. /\ flProc[p] = Resting /\ Proceeds(p, r) /\ flCount.fetches < FLFetches
      /\ flCount' = [flCount EXCEPT !.fetches = flCount.fetches + 1]
      /\ UNCHANGED <<flConf, flStore, flFile, flManual, flWork, flPub, flGate, flClean>>
  BY DEF RefreshBegins
<1>2. r \in FLSteps /\ r.pc = "next" /\ p \in FLProcs /\ ~Unpublished(p)
  BY <1>1 DEF FLSteps, FLNexts, FLProcs, Unpublished, Resting
<1>3. flFile' \in [FLLists -> 0..Torn] /\ flCount' \in [edits : 0..FLEdits, fetches : Nat]
  BY <1>1 DEF FLInv, FLKinds
<1>. HIDE DEF r
<1>. QED  BY <1>1, <1>2, <1>3, Aside

\* What a refresher remembers between two lists.
LEMMA NextIs ==
  ASSUME FLKinds, NEW p \in FLProcs, flProc[p].pc \in {"fetch", "persist"}, NEW ok \in BOOLEAN
  PROVE  NextList(p, ok) \in FLSteps /\ NextList(p, ok).pc = "next"
<1>1. PICK o : o = flProc[p] /\ o \in FLFetching
  BY FormOf DEF FLKinds
<1>2. /\ NextList(p, ok) = [pc |-> "next", todo |-> o.todo, tick |-> o.tick, bad |-> o.bad \/ ~ok, good |-> o.good \/ ok]
      /\ o.todo \in SUBSET FLLists /\ o.tick \in BOOLEAN
  BY <1>1 DEF NextList, FLFetching
<1>3. (o.bad \/ ~ok) \in BOOLEAN /\ (o.good \/ ok) \in BOOLEAN
  OBVIOUS
<1>. QED  BY <1>2, <1>3 DEF FLSteps, FLNexts

\* FetchOne begins a list, and notes the address it downloads from.
LEMMA FetchBeginsKeeps == ASSUME FLInv, NEW p \in FLRefreshers, NEW l \in FLLists, FetchBegins(p, l) PROVE FLInv'
<1>1. /\ flProc[p].pc = "next" /\ p \in FLProcs
      /\ UNCHANGED <<flConf, flStore, flFile, flManual, flWork, flPub, flGate, flClean, flCount>>
  BY DEF FetchBegins, FLProcs
<1>2. PICK o : o = flProc[p] /\ o \in FLNexts
  BY <1>1, FormOf DEF FLInv, FLKinds
<1>3. ~Unpublished(p) /\ flFile' \in [FLLists -> 0..Torn] /\ flCount' \in [edits : 0..FLEdits, fetches : Nat]
  BY <1>1 DEF FLInv, FLKinds, Unpublished
<1>4. CASE flStore[l] = NoEntry
  <2>1. PICK r : r = [o EXCEPT !.todo = o.todo \ {l}, !.bad = TRUE]
    OBVIOUS
  <2>2. r \in FLNexts
    BY <1>2, <2>1 DEF FLNexts
  <2>3. r \in FLSteps /\ r.pc = "next"
    BY <2>2 DEF FLSteps, FLNexts
  <2>4. Proceeds(p, r)
    BY <1>2, <1>4, <2>1 DEF FetchBegins
  <2>. QED  BY <1>1, <1>3, <2>3, <2>4, Aside
<1>5. CASE flStore[l] # NoEntry
  <2>1. PICK r : r = [pc |-> "fetch", todo |-> flProc[p].todo \ {l}, tick |-> flProc[p].tick,
                      bad |-> flProc[p].bad, good |-> flProc[p].good,
                      l |-> l, gen |-> flStore[l].gen, got |-> flStore[l].url]
    OBVIOUS
  <2>2. flStore[l].gen \in 0..FLEdits /\ flStore[l].url \in URLs
    BY <1>5 DEF FLInv, FLKinds, FLEntries
  <2>3. r \in FLFetching /\ r.pc = "fetch"
    BY <1>2, <2>1, <2>2 DEF FLNexts, FLFetching
  <2>4. Proceeds(p, r)
    BY <1>5, <2>1 DEF FetchBegins
  <2>. QED  BY <1>1, <1>3, <2>3, <2>4, Aside DEF FLSteps
<1>. QED  BY <1>4, <1>5

\* A download fails and the refresh goes on.
LEMMA FetchFailsKeeps == ASSUME FLInv, NEW p \in FLRefreshers, FetchFails(p) PROVE FLInv'
<1>1. /\ flProc[p].pc = "fetch" /\ p \in FLProcs /\ Proceeds(p, NextList(p, FALSE))
      /\ UNCHANGED <<flConf, flStore, flFile, flManual, flWork, flPub, flGate, flClean, flCount>>
  BY DEF FetchFails, FLProcs
<1>2. PICK r : r = NextList(p, FALSE)
  OBVIOUS
<1>3. r \in FLSteps /\ r.pc = "next"
  BY <1>1, <1>2, NextIs DEF FLInv
<1>4. ~Unpublished(p) /\ flFile' \in [FLLists -> 0..Torn] /\ flCount' \in [edits : 0..FLEdits, fetches : Nat]
  BY <1>1 DEF FLInv, FLKinds, Unpublished
<1>. QED  BY <1>1, <1>2, <1>3, <1>4, Aside

\* FetchOne writes the list's file.
LEMMA PersistKeeps == ASSUME FLInv, NEW p \in FLRefreshers, PersistList(p) PROVE FLInv'
<1>1. /\ flProc[p].pc = "persist" /\ p \in FLProcs
      /\ UNCHANGED <<flConf, flStore, flManual, flWork, flPub, flGate, flClean, flCount>>
  BY DEF PersistList, FLProcs
<1>2. PICK c \in {flProc[p].got, Torn, flFile[flProc[p].l]} :
        /\ flFile' = [flFile EXCEPT ![flProc[p].l] = c]
        /\ \E ok \in {c = flProc[p].got, FALSE} : Proceeds(p, NextList(p, ok))
  BY DEF PersistList
<1>3. PICK ok \in BOOLEAN : Proceeds(p, NextList(p, ok))
  BY <1>2
<1>4. PICK o : o = flProc[p] /\ o \in FLFetching
  BY <1>1, FormOf DEF FLInv, FLKinds
<1>5. o.l \in FLLists /\ o.got \in 0..Torn /\ c \in 0..Torn
  <2>1. o.l \in FLLists /\ o.got \in URLs
    BY <1>4 DEF FLFetching
  <2>2. flFile[o.l] \in 0..Torn
    BY <2>1 DEF FLInv, FLKinds
  <2>. QED  BY <1>2, <1>4, <2>1, <2>2 DEF URLs, Torn
<1>6. ~Unpublished(p) /\ flFile' \in [FLLists -> 0..Torn] /\ flCount' \in [edits : 0..FLEdits, fetches : Nat]
  BY <1>1, <1>2, <1>4, <1>5 DEF FLInv, FLKinds, Unpublished
<1>7. PICK r : r = NextList(p, ok)
  OBVIOUS
<1>8. r \in FLSteps /\ r.pc = "next"
  BY <1>1, <1>7, NextIs DEF FLInv
<1>. QED  BY <1>1, <1>3, <1>6, <1>7, <1>8, Aside

\* A refresh ends, with or without anything new.
LEMMA RefreshEndsKeeps == ASSUME FLInv, NEW p \in FLRefreshers, RefreshEnds(p) PROVE FLInv'
<1>1. /\ flProc[p].pc = "next" /\ p \in FLProcs
      /\ UNCHANGED <<flConf, flStore, flFile, flManual, flWork, flPub, flGate, flClean, flCount>>
  BY DEF RefreshEnds, FLProcs
<1>2. PICK r \in {[pc |-> "snap"], Resting} : Proceeds(p, r)
  BY DEF RefreshEnds
<1>3. r \in FLSteps /\ r.pc \in {"snap", "idle"}
  BY <1>2 DEF FLSteps, Resting
<1>4. ~Unpublished(p) /\ flFile' \in [FLLists -> 0..Torn] /\ flCount' \in [edits : 0..FLEdits, fetches : Nat]
  BY <1>1 DEF FLInv, FLKinds, Unpublished
<1>. QED  BY <1>1, <1>2, <1>3, <1>4, Aside

\* FetchOne stores what it got in the entry it looked up, unless SetSpecs has
\* dropped that one.
LEMMA FetchStoresKeeps == ASSUME FLInv, NEW p \in FLRefreshers, FetchStores(p) PROVE FLInv'
<1>1. PICK o : o = flProc[p]
  OBVIOUS
<1>2. /\ o.pc = "fetch" /\ p \in FLProcs /\ flClean' = FALSE
      /\ flStore' = IF flStore[o.l] # NoEntry /\ flStore[o.l].gen = o.gen
                    THEN [flStore EXCEPT ![o.l].content = o.got] ELSE flStore
      /\ Proceeds(p, [o EXCEPT !.pc = "persist"])
      /\ UNCHANGED <<flConf, flFile, flManual, flWork, flPub, flGate, flCount>>
  BY <1>1 DEF FetchStores, FLProcs
<1>3. o \in FLFetching
  BY <1>1, <1>2, FormOf DEF FLInv, FLKinds
<1>4. PICK r : r = [o EXCEPT !.pc = "persist"]
  OBVIOUS
<1>5. r \in FLFetching /\ r.pc = "persist" /\ r \in FLSteps /\ o.l \in FLLists /\ o.got \in 0..Torn
  BY <1>3, <1>4 DEF FLFetching, FLSteps, URLs, Torn
<1>6. flProc' \in [FLProcs -> FLSteps]
  BY <1>2, <1>4, <1>5, Proceeding DEF FLInv
<1>7. DOMAIN flStore = FLLists /\ flStore = [x \in FLLists |-> flStore[x]]
  BY DEF FLInv, FLKinds
<1>8. DOMAIN flStore' = FLLists /\ flStore' = [x \in FLLists |-> flStore'[x]]
  BY <1>2, <1>7
<1>9. ASSUME NEW x \in FLLists
      PROVE  IF flConf'[x].st = "gone" THEN flStore'[x] = NoEntry
             ELSE flStore'[x] \in FLEntries /\ (flStore'[x].on <=> flConf'[x].st = "on")
  <2>1. PICK e : e = flStore[x] /\ IF flConf[x].st = "gone" THEN e = NoEntry
                                   ELSE e \in FLEntries /\ (e.on <=> flConf[x].st = "on")
    BY DEF FLInv, FLKinds
  <2>2. CASE x = o.l /\ flStore[o.l] # NoEntry /\ flStore[o.l].gen = o.gen
    <3>1. PICK n : n = [e EXCEPT !.content = o.got]
      OBVIOUS
    <3>2. flStore'[x] = n
      BY <1>2, <1>7, <2>1, <2>2, <3>1
    <3>3. e \in FLEntries /\ flConf[x].st # "gone"
      BY <2>1, <2>2
    <3>4. n \in FLEntries /\ n.on = e.on
      BY <1>5, <3>1, <3>3 DEF FLEntries
    <3>. QED  BY <1>2, <2>1, <3>2, <3>3, <3>4
  <2>3. CASE ~(x = o.l /\ flStore[o.l] # NoEntry /\ flStore[o.l].gen = o.gen)
    <3>1. flStore'[x] = e
      BY <1>2, <1>7, <2>1, <2>3
    <3>. QED  BY <1>2, <2>1, <3>1
  <2>. QED  BY <2>2, <2>3
<1>10. FLKinds'
  BY <1>2, <1>6, <1>8, <1>9 DEF FLInv, FLKinds
<1>11. ~Unpublished(p)
  BY <1>1, <1>2 DEF Unpublished
<1>. QED  BY <1>2, <1>4, <1>5, <1>10, <1>11, Disturbed

\* The lists a reload loads are those configured on.
LEMMA EnabledIs == ASSUME FLKinds PROVE {l \in FLLists : flStore[l] # NoEntry /\ flStore[l].on} = Enabled /\ EnabledNow = Enabled
<1>1. ASSUME NEW l \in FLLists PROVE (flStore[l] # NoEntry /\ flStore[l].on) <=> flConf[l].st = "on"
  BY EntryThere DEF FLKinds
<1>. QED  BY <1>1 DEF Enabled, EnabledNow

\* ReloadAll takes its snapshot of the lists.
LEMMA SnapKeeps == ASSUME FLInv, NEW p \in FLProcs, ReloadSnap(p) PROVE FLInv'
<1>1. PICK r : r = [pc |-> "reset", todo |-> EnabledNow]
  OBVIOUS
<1>2. /\ flProc[p].pc = "snap" /\ Proceeds(p, r) /\ ~Unpublished(p)
      /\ UNCHANGED <<flConf, flStore, flFile, flManual, flWork, flPub, flGate, flClean, flCount>>
  BY <1>1 DEF ReloadSnap, Unpublished
<1>3. r.pc = "reset" /\ r \in FLReloads /\ r \in FLSteps
  BY <1>1 DEF FLReloads, FLSteps, EnabledNow
<1>4. flFile' \in [FLLists -> 0..Torn] /\ flCount' \in [edits : 0..FLEdits, fetches : Nat]
  BY <1>2 DEF FLInv, FLKinds
<1>. QED  BY <1>2, <1>3, <1>4, Aside

\* ReloadAll resets the working sets.
LEMMA ResetKeeps == ASSUME FLInv, NEW p \in FLProcs, ReloadReset(p) PROVE FLInv'
<1>1. PICK o, r : o = flProc[p] /\ r = [o EXCEPT !.pc = "clear"]
  OBVIOUS
<1>2. /\ o.pc = "reset" /\ EngineFree /\ flWork' = ResetWork(flWork) /\ flGate' = FALSE /\ Proceeds(p, r)
      /\ flClean' = (o.todo = EnabledNow)
      /\ UNCHANGED <<flConf, flStore, flFile, flManual, flPub, flCount>>
  BY <1>1 DEF ReloadReset
<1>3. o \in FLReloads
  BY <1>1, <1>2, FormOf DEF FLInv, FLKinds
<1>4. r \in FLReloads /\ r \in FLSteps /\ r.pc = "clear" /\ r.todo = o.todo
  BY <1>1, <1>3 DEF FLReloads, FLSteps
<1>5. flProc' \in [FLProcs -> FLSteps] /\ flProc'[p] = r /\ \A x \in FLProcs : x # p => flProc'[x] = flProc[x]
  BY <1>2, <1>4, Proceeding DEF FLInv
<1>6. /\ flWork' \in FLSets /\ flWork'.block = {} /\ flWork'.allow = {} /\ flWork'.ips = FALSE
      /\ flWork'.blackRx = {} /\ flWork'.whiteRx = {} /\ flWork'.black = flWork.black /\ flWork'.white = flWork.white
  BY <1>2, ResetIs DEF FLInv, FLKinds
<1>7. FLKinds'
  BY <1>2, <1>5, <1>6 DEF FLInv, FLKinds
<1>8. Manual' /\ OneLoads'
  BY <1>2, <1>4, <1>5, <1>6 DEF FLInv, Manual, OneLoads
<1>9. Gated'
  BY <1>2, <1>4, <1>5, <1>6, ZenonT(60) DEF FLInv, Gated
<1>10. Clean'
  <2>. SUFFICES ASSUME flClean'
                PROVE  Enabled' \subseteq ToLoad'
    BY <1>6 DEF Clean
  <2>1. o.todo = Enabled /\ Enabled' = Enabled
    BY <1>2, EnabledIs, Unmoved DEF FLInv
  <2>2. o.todo \subseteq ToLoad'
    BY <1>3, <1>4, <1>5 DEF ToLoad, FLReloads
  <2>. QED  BY <2>1, <2>2
<1>11. Compiling'
  <2>1. \A x \in FLProcs : flProc'[x].pc # "publish"
    BY <1>2, <1>4, <1>5 DEF EngineFree
  <2>. QED  BY <2>1 DEF Compiling
<1>12. Rests'
  <2>1. Unpublished(p)'
    BY <1>4, <1>5 DEF Unpublished
  <2>. QED  BY <2>1 DEF Rests
<1>. QED  BY <1>7, <1>8, <1>9, <1>10, <1>11, <1>12 DEF FLInv

\* Reset withdraws the published rules.
LEMMA WithdrawsKeeps == ASSUME FLInv, NEW p \in FLProcs, ResetPublishes(p) PROVE FLInv'
<1>1. PICK o, r : o = flProc[p] /\ r = [o EXCEPT !.pc = "enter"]
  OBVIOUS
<1>2. /\ o.pc = "clear" /\ flPub' = NoRules /\ Proceeds(p, r)
      /\ UNCHANGED <<flConf, flStore, flFile, flManual, flWork, flGate, flClean, flCount>>
  BY <1>1 DEF ResetPublishes
<1>3. o \in FLReloads
  BY <1>1, <1>2, FormOf DEF FLInv, FLKinds
<1>4. r \in FLReloads /\ r \in FLSteps /\ r.pc = "enter" /\ r.todo = o.todo
  BY <1>1, <1>3 DEF FLReloads, FLSteps
<1>5. flProc' \in [FLProcs -> FLSteps] /\ flProc'[p] = r /\ \A x \in FLProcs : x # p => flProc'[x] = flProc[x]
  BY <1>2, <1>4, Proceeding DEF FLInv
<1>6. FLKinds' /\ Manual' /\ OneLoads' /\ flPub'.ips = FALSE
  BY <1>2, <1>4, <1>5 DEF FLInv, FLKinds, Manual, OneLoads, NoRules
<1>7. Gated'
  BY <1>2, <1>6 DEF FLInv, Gated
<1>8. Clean'
  <2>1. ToLoad \subseteq ToLoad'
    BY <1>1, <1>4, <1>5 DEF ToLoad
  <2>. QED  BY <1>2, <2>1, Framed DEF FLInv
<1>9. Compiling'
  BY <1>2, <1>4, <1>5 DEF FLInv, Compiling
<1>10. Rests'
  <2>1. Unpublished(p)'
    BY <1>4, <1>5 DEF Unpublished
  <2>. QED  BY <2>1 DEF Rests
<1>. QED  BY <1>6, <1>7, <1>8, <1>9, <1>10 DEF FLInv

\* ReloadAll begins its loading loop.
LEMMA EntersKeeps == ASSUME FLInv, NEW p \in FLProcs, ReloadEnters(p) PROVE FLInv'
<1>1. PICK o, r : o = flProc[p] /\ r = [o EXCEPT !.pc = "load"]
  OBVIOUS
<1>2. /\ o.pc = "enter" /\ MuFree /\ Proceeds(p, r)
      /\ UNCHANGED <<flConf, flStore, flFile, flManual, flWork, flPub, flGate, flClean, flCount>>
  BY <1>1 DEF ReloadEnters
<1>3. o \in FLReloads
  BY <1>1, <1>2, FormOf DEF FLInv, FLKinds
<1>4. r \in FLReloads /\ r \in FLSteps /\ r.pc = "load" /\ r.todo = o.todo
  BY <1>1, <1>3 DEF FLReloads, FLSteps
<1>5. flProc' \in [FLProcs -> FLSteps] /\ flProc'[p] = r /\ \A x \in FLProcs : x # p => flProc'[x] = flProc[x]
  BY <1>2, <1>4, Proceeding DEF FLInv
<1>6. FLKinds' /\ Manual' /\ OneLoads'
  BY <1>2, <1>4, <1>5 DEF FLInv, FLKinds, Manual, OneLoads, MuFree
<1>7. Gated'
  BY <1>1, <1>2, <1>4, <1>5 DEF FLInv, Gated
<1>8. Clean'
  <2>1. ToLoad \subseteq ToLoad'
    BY <1>1, <1>4, <1>5 DEF ToLoad
  <2>. QED  BY <1>2, <2>1, Framed DEF FLInv
<1>9. Compiling'
  BY <1>2, <1>4, <1>5 DEF FLInv, Compiling
<1>10. Rests'
  <2>1. Unpublished(p)'
    BY <1>4, <1>5 DEF Unpublished
  <2>. QED  BY <2>1 DEF Rests
<1>. QED  BY <1>6, <1>7, <1>8, <1>9, <1>10 DEF FLInv

\* ReloadAll loads one list of its snapshot.
LEMMA ListKeeps == ASSUME FLInv, NEW p \in FLProcs, NEW l \in FLLists, ReloadList(p, l) PROVE FLInv'
<1>1. PICK o, r : o = flProc[p] /\ r = [o EXCEPT !.todo = o.todo \ {l}]
  OBVIOUS
<1>2. /\ o.pc = "load" /\ l \in o.todo /\ EngineFree /\ Proceeds(p, r)
      /\ flWork' = IF flStore[l] = NoEntry THEN flWork ELSE LoadWork(flWork, flStore[l].content)
      /\ flGate' = flWork'.ips
      /\ flClean' = (flClean /\ (flStore[l] = NoEntry \/ flStore[l].on))
      /\ UNCHANGED <<flConf, flStore, flFile, flManual, flPub, flCount>>
  BY <1>1 DEF ReloadList
<1>3. o \in FLReloads
  BY <1>1, <1>2, FormOf DEF FLInv, FLKinds
<1>4. r \in FLReloads /\ r \in FLSteps /\ r.pc = "load" /\ r.todo = o.todo \ {l}
  BY <1>1, <1>2, <1>3 DEF FLReloads, FLSteps
<1>5. flProc' \in [FLProcs -> FLSteps] /\ flProc'[p] = r /\ \A x \in FLProcs : x # p => flProc'[x] = flProc[x]
  BY <1>2, <1>4, Proceeding DEF FLInv
<1>6. /\ flWork' \in FLSets /\ (flWork.ips => flWork'.ips)
      /\ flWork'.blackRx = flWork.blackRx /\ flWork'.whiteRx = flWork.whiteRx
      /\ flWork'.black = flWork.black /\ flWork'.white = flWork.white
      /\ flStore[l] = NoEntry => flWork' = flWork
      /\ flStore[l] # NoEntry => /\ flWork'.block = flWork.block \cup RulesOf(flStore[l].content).block
                                 /\ flWork'.allow = flWork.allow \cup RulesOf(flStore[l].content).allow
  <2>1. flWork \in FLSets
    BY DEF FLInv, FLKinds
  <2>2. CASE flStore[l] = NoEntry
    BY <1>2, <2>1, <2>2
  <2>3. CASE flStore[l] # NoEntry
    <3>1. PICK k : k = flStore[l].content
      OBVIOUS
    <3>2. flWork' = LoadWork(flWork, k)
      BY <1>2, <2>3, <3>1
    <3>. QED  BY <2>1, <2>3, <3>1, <3>2, LoadIs
  <2>. QED  BY <2>2, <2>3
<1>7. FLKinds'
  <2>1. flWork'.ips \in BOOLEAN
    BY <1>6 DEF FLSets
  <2>. QED  BY <1>2, <1>5, <1>6, <2>1 DEF FLInv, FLKinds
<1>8. Manual' /\ OneLoads'
  BY <1>1, <1>2, <1>4, <1>5, <1>6 DEF FLInv, Manual, OneLoads
<1>9. Gated'
  BY <1>1, <1>2, <1>4, <1>5, <1>6 DEF FLInv, Gated
<1>10. Clean'
  <2>. SUFFICES ASSUME flClean' PROVE Clean'
    BY DEF Clean
  <2>1. flClean /\ (flStore[l] = NoEntry \/ flStore[l].on)
    BY <1>2
  <2>2. PICK A, B, W, w, x : /\ A = AllowOf(Enabled) /\ B = BlockOf(Enabled) /\ W = flManual.white
                             /\ w = flWork /\ x = flWork'
    OBVIOUS
  <2>3. /\ w.allow \subseteq A \cup W /\ w.block \subseteq B
        /\ \A k \in Enabled \ ToLoad : Has(w, flStore[k].content, W)
    BY <2>1, <2>2 DEF FLInv, Clean
  <2>4. AllowOf(Enabled)' = A /\ BlockOf(Enabled)' = B /\ Enabled' = Enabled /\ flManual'.white = W /\ flStore' = flStore
    BY <1>2, <2>2, Unmoved
  <2>5. \A k \in ToLoad : k \in ToLoad' \/ k = l
    BY <1>1, <1>4, <1>5 DEF ToLoad
  <2>6. w.allow \subseteq x.allow /\ w.block \subseteq x.block
    BY <1>6, <2>2
  <2>7. ASSUME NEW k \in Enabled \ ToLoad, k # l PROVE Has(x, flStore[k].content, W)
    BY <2>3, <2>6, <2>7 DEF Has
  <2>8. CASE flStore[l] = NoEntry
    <3>1. l \notin Enabled
      BY <2>8, EntryThere DEF FLInv, FLKinds, Enabled
    <3>2. x = w
      BY <1>6, <2>2, <2>8
    <3>3. \A k \in Enabled \ ToLoad' : Has(x, flStore[k].content, W)
      BY <2>5, <2>7, <3>1
    <3>. QED  BY <2>2, <2>3, <2>4, <3>2, <3>3 DEF Clean
  <2>9. CASE flStore[l] # NoEntry
    <3>1. PICK c : c = RulesOf(flStore[l].content)
      OBVIOUS
    <3>2. x.allow = w.allow \cup c.allow /\ x.block = w.block \cup c.block
      BY <1>6, <2>2, <2>9, <3>1
    <3>3. l \in Enabled
      BY <2>1, <2>9 DEF FLInv, FLKinds, Enabled
    <3>4. c.allow \subseteq A /\ c.block \subseteq B
      BY <2>2, <3>1, <3>3 DEF AllowOf, BlockOf
    <3>5. Has(x, flStore[l].content, W)
      BY <3>1, <3>2 DEF Has
    <3>6. \A k \in Enabled \ ToLoad' : Has(x, flStore[k].content, W)
      BY <2>5, <2>7, <3>5
    <3>. QED  BY <2>2, <2>3, <2>4, <3>2, <3>4, <3>6 DEF Clean
  <2>. QED  BY <2>8, <2>9
<1>11. Compiling'
  <2>1. \A x \in FLProcs : flProc'[x].pc # "publish"
    BY <1>2, <1>4, <1>5 DEF EngineFree
  <2>. QED  BY <2>1 DEF Compiling
<1>12. Rests'
  <2>1. Unpublished(p)'
    BY <1>4, <1>5 DEF Unpublished
  <2>. QED  BY <2>1 DEF Rests
<1>. QED  BY <1>7, <1>8, <1>9, <1>10, <1>11, <1>12 DEF FLInv

\* ReloadAll has loaded them all.
LEMMA LeavesKeeps == ASSUME FLInv, NEW p \in FLProcs, ReloadLeaves(p) PROVE FLInv'
<1>1. PICK r : r = [pc |-> "compile"]
  OBVIOUS
<1>2. /\ flProc[p].pc = "load" /\ flProc[p].todo = {} /\ Proceeds(p, r)
      /\ UNCHANGED <<flConf, flStore, flFile, flManual, flWork, flPub, flGate, flClean, flCount>>
  BY <1>1 DEF ReloadLeaves
<1>3. r \in FLSteps /\ r.pc = "compile"
  BY <1>1 DEF FLSteps
<1>4. flProc' \in [FLProcs -> FLSteps] /\ flProc'[p] = r /\ \A x \in FLProcs : x # p => flProc'[x] = flProc[x]
  BY <1>2, <1>3, Proceeding DEF FLInv
<1>5. FLKinds' /\ Manual' /\ OneLoads'
  BY <1>2, <1>3, <1>4 DEF FLInv, FLKinds, Manual, OneLoads
<1>6. Gated'
  BY <1>2, <1>3, <1>4 DEF FLInv, Gated
<1>7. Clean'
  <2>1. ToLoad \subseteq ToLoad'
    BY <1>2, <1>4 DEF ToLoad
  <2>. QED  BY <1>2, <2>1, Framed DEF FLInv
<1>8. Compiling'
  BY <1>2, <1>3, <1>4 DEF FLInv, Compiling
<1>9. Rests'
  <2>1. Unpublished(p)'
    BY <1>3, <1>4 DEF Unpublished
  <2>. QED  BY <2>1 DEF Rests
<1>. QED  BY <1>5, <1>6, <1>7, <1>8, <1>9 DEF FLInv

(* Compile adds the whitelist to the exceptions and takes from the blocks  *)
(* only what it strips.                                                    *)
LEMMA CompileFits ==
  ASSUME NEW w \in FLSets, NEW A, NEW B, NEW W, w.white = W, Fits(w, A, B, W)
  PROVE  Fits(CompileWork(w), A, B, W) /\ W \subseteq CompileWork(w).allow
<1>1. PICK x : x = CompileWork(w) /\ x.allow = w.allow \cup W /\ x.block = Stripped(w)
  BY CompileIs
<1>2. ASSUME NEW r \in B \ x.block PROVE \E e \in W : Strips(e, r)
  <2>1. CASE r \notin w.block
    BY <2>1, <1>2 DEF Fits
  <2>2. CASE r \in w.block
    <3>1. PICK e \in w.white : e.name = r.name /\ r.form # "regex" /\ (e.form = "tree" \/ r.form = "exact")
      BY <1>1, <1>2, <2>2 DEF Stripped
    <3>. QED  BY <3>1 DEF Strips
  <2>. QED  BY <2>1, <2>2
<1>3. x.block \subseteq w.block
  BY <1>1 DEF Stripped
<1>. QED  BY <1>1, <1>2, <1>3 DEF Fits

\* Compile adds the manual entries to the working sets.
LEMMA CompileKeeps == ASSUME FLInv, NEW p \in FLProcs, Compile(p) PROVE FLInv'
<1>1. PICK r : r = [pc |-> "publish"]
  OBVIOUS
<1>2. /\ flProc[p].pc = "compile" /\ EngineFree /\ Proceeds(p, r)
      /\ flWork' = CompileWork(flWork) /\ flGate' = flWork'.ips
      /\ UNCHANGED <<flConf, flStore, flFile, flManual, flPub, flClean, flCount>>
  BY <1>1 DEF Compile
<1>3. r \in FLSteps /\ r.pc = "publish"
  BY <1>1 DEF FLSteps
<1>4. flProc' \in [FLProcs -> FLSteps] /\ flProc'[p] = r /\ \A x \in FLProcs : x # p => flProc'[x] = flProc[x]
  BY <1>2, <1>3, Proceeding DEF FLInv
<1>5. PICK w, x, W : /\ w = flWork /\ x = flWork' /\ W = flManual.white /\ w \in FLSets /\ w.white = W
  BY DEF FLInv, FLKinds, Manual
<1>6. /\ x \in FLSets /\ x.ips = w.ips /\ x.blackRx = w.blackRx /\ x.whiteRx = w.whiteRx /\ x.ips \in BOOLEAN
      /\ x.black = w.black /\ x.white = w.white /\ x.allow = w.allow \cup W /\ x.block = Stripped(w)
  <2>1. /\ x \in FLSets /\ x.ips = w.ips /\ x.blackRx = w.blackRx /\ x.whiteRx = w.whiteRx
        /\ x.black = w.black /\ x.white = w.white /\ x.allow = w.allow \cup w.white /\ x.block = Stripped(w)
    BY <1>2, <1>5, CompileIs
  <2>. QED  BY <1>5, <2>1 DEF FLSets
<1>7. FLKinds' /\ OneLoads'
  BY <1>2, <1>3, <1>4, <1>5, <1>6 DEF FLInv, FLKinds, OneLoads
<1>8. Manual'
  BY <1>2, <1>5, <1>6 DEF FLInv, Manual
<1>9. Gated'
  BY <1>2, <1>3, <1>4, <1>5, <1>6 DEF FLInv, Gated
<1>10. Clean'
  <2>. SUFFICES ASSUME flClean PROVE Clean'
    BY <1>2 DEF Clean
  <2>1. /\ w.allow \subseteq AllowOf(Enabled) \cup W /\ w.block \subseteq BlockOf(Enabled)
        /\ \A l \in Enabled \ ToLoad : Has(w, flStore[l].content, W)
    BY <1>5 DEF FLInv, Clean
  <2>2. Enabled' = Enabled /\ AllowOf(Enabled)' = AllowOf(Enabled) /\ BlockOf(Enabled)' = BlockOf(Enabled)
    BY <1>2, Unmoved
  <2>3. ToLoad \subseteq ToLoad'
    BY <1>2, <1>4 DEF ToLoad
  <2>4. x.allow \subseteq AllowOf(Enabled) \cup W /\ x.block \subseteq BlockOf(Enabled)
    BY <1>6, <2>1 DEF Stripped
  <2>5. ASSUME NEW l \in Enabled \ ToLoad' PROVE Has(x, flStore[l].content, W)
    <3>1. PICK c : c = RulesOf(flStore[l].content)
      OBVIOUS
    <3>2. c.allow \subseteq w.allow /\ \A r2 \in c.block \ w.block : \E e \in W : Strips(e, r2)
      BY <2>1, <2>3, <2>5, <3>1 DEF Has
    <3>3. ASSUME NEW b \in c.block \ x.block PROVE \E e \in W : Strips(e, b)
      <4>1. CASE b \notin w.block
        BY <3>2, <3>3, <4>1
      <4>2. CASE b \in w.block
        <5>1. PICK e \in w.white : e.name = b.name /\ b.form # "regex" /\ (e.form = "tree" \/ b.form = "exact")
          BY <1>6, <3>3, <4>2 DEF Stripped
        <5>. QED  BY <1>5, <5>1 DEF Strips
      <4>. QED  BY <4>1, <4>2
    <3>. QED  BY <1>6, <3>1, <3>2, <3>3 DEF Has
  <2>. QED  BY <1>2, <1>5, <2>2, <2>4, <2>5 DEF Clean
<1>11. Compiling'
  BY <1>2, <1>5, <1>6 DEF Compiling
<1>12. Rests'
  <2>1. Unpublished(p)'
    BY <1>3, <1>4 DEF Unpublished
  <2>. QED  BY <2>1 DEF Rests
<1>. QED  BY <1>7, <1>8, <1>9, <1>10, <1>11, <1>12 DEF FLInv

\* Compile publishes the working sets.
LEMMA PublishKeeps == ASSUME FLInv, NEW p \in FLProcs, CompilePublishes(p) PROVE FLInv'
<1>1. /\ flProc[p].pc = "publish" /\ Proceeds(p, Resting) /\ flPub' = Published(flWork)
      /\ UNCHANGED <<flConf, flStore, flFile, flManual, flWork, flGate, flClean, flCount>>
  BY DEF CompilePublishes
<1>2. Resting \in FLSteps /\ Resting.pc = "idle"
  BY DEF Resting, FLSteps
<1>3. flProc' \in [FLProcs -> FLSteps] /\ flProc'[p] = Resting /\ \A x \in FLProcs : x # p => flProc'[x] = flProc[x]
  BY <1>1, <1>2, Proceeding DEF FLInv
<1>4. FLKinds' /\ Manual' /\ OneLoads'
  BY <1>1, <1>2, <1>3 DEF FLInv, FLKinds, Manual, OneLoads
<1>5. Gated'
  <2>1. PICK w : w = flWork /\ w \in FLSets
    BY DEF FLInv, FLKinds
  <2>2. flPub'.ips = w.ips /\ w.ips \in BOOLEAN /\ flWork' = w
    BY <1>1, <2>1 DEF Published, FLSets
  <2>3. flGate' = w.ips
    BY <1>1, <2>1 DEF FLInv, Gated
  <2>. QED  BY <2>2, <2>3 DEF Gated
<1>6. Clean'
  <2>1. ToLoad \subseteq ToLoad'
    BY <1>1, <1>3 DEF ToLoad
  <2>. QED  BY <1>1, <2>1, Framed DEF FLInv
<1>7. flManual.white \subseteq flWork.allow
  BY <1>1 DEF FLInv, Compiling
<1>8. Compiling' /\ Rests'
  BY <1>1, <1>7 DEF Compiling, Rests
<1>. QED  BY <1>4, <1>5, <1>6, <1>8 DEF FLInv

\* A manual entry is added or removed, Compile is next.
LEMMA EditManualKeeps == ASSUME ~FLRegexEntry, FLInv, NEW m \in ManualLists, EditManual(m) PROVE FLInv'
<1>1. PICK r : r = [pc |-> "compile"]
  OBVIOUS
<1>2. /\ flProc[API] = Resting /\ EngineFree /\ flCount.edits < FLEdits /\ flManual' = m /\ flWork' = ManualWork(flWork, m)
      /\ flCount' = [flCount EXCEPT !.edits = flCount.edits + 1] /\ Proceeds(API, r)
      /\ flClean' = (flClean /\ flManual.white \subseteq m.white)
      /\ UNCHANGED <<flConf, flStore, flFile, flPub, flGate>> /\ API \in FLProcs
  BY <1>1 DEF EditManual, FLProcs
<1>3. r \in FLSteps /\ r.pc = "compile" /\ flProc[API].pc = "idle"
  BY <1>1, <1>2 DEF FLSteps, Resting
<1>4. flProc' \in [FLProcs -> FLSteps] /\ flProc'[API] = r /\ \A x \in FLProcs : x # API => flProc'[x] = flProc[x]
  BY <1>2, <1>3, Proceeding DEF FLInv
<1>5. /\ flWork' \in FLSets /\ flWork'.black = m.black /\ flWork'.white = m.white /\ flWork'.blackRx = {} /\ flWork'.whiteRx = {}
      /\ flWork'.block = flWork.block /\ flWork'.allow = flWork.allow /\ flWork'.ips = flWork.ips
  BY <1>2, ManualIs DEF FLInv, FLKinds
<1>6. FLKinds'
  <2>1. flCount' \in [edits : 0..FLEdits, fetches : Nat]
    BY <1>2, FLAssumption DEF FLInv, FLKinds
  <2>. QED  BY <1>2, <1>4, <1>5, <2>1 DEF FLInv, FLKinds
<1>7. Manual' /\ OneLoads'
  BY <1>2, <1>3, <1>4, <1>5 DEF FLInv, Manual, OneLoads
<1>8. Gated'
  BY <1>2, <1>3, <1>4, <1>5 DEF FLInv, Gated
<1>9. Clean'
  <2>. SUFFICES ASSUME flClean, flManual.white \subseteq m.white PROVE Clean'
    BY <1>2 DEF Clean
  <2>1. PICK w, x, A, B, W, V : /\ w = flWork /\ x = flWork' /\ A = AllowOf(Enabled) /\ B = BlockOf(Enabled)
                                /\ W = flManual.white /\ V = m.white
    OBVIOUS
  <2>2. /\ w.allow \subseteq A \cup W /\ w.block \subseteq B /\ W \subseteq V
        /\ \A l \in Enabled \ ToLoad : Has(w, flStore[l].content, W)
    BY <2>1 DEF FLInv, Clean
  <2>3. x.block = w.block /\ x.allow = w.allow
    BY <1>5, <2>1
  <2>4. AllowOf(Enabled)' = A /\ BlockOf(Enabled)' = B /\ Enabled' = Enabled /\ flManual'.white = V /\ flStore' = flStore
    BY <1>2, <2>1, Unmoved
  <2>5. ToLoad \subseteq ToLoad'
    BY <1>3, <1>4 DEF ToLoad
  <2>6. ASSUME NEW l \in Enabled \ ToLoad' PROVE Has(x, flStore[l].content, V)
    BY <2>2, <2>3, <2>5, <2>6 DEF Has
  <2>. QED  BY <2>1, <2>2, <2>3, <2>4, <2>6 DEF Clean
<1>10. Compiling'
  <2>1. \A x \in FLProcs : flProc'[x].pc # "publish"
    BY <1>2, <1>3, <1>4 DEF EngineFree
  <2>. QED  BY <2>1 DEF Compiling
<1>11. Rests'
  <2>1. Unpublished(API)'
    BY <1>3, <1>4 DEF Unpublished
  <2>. QED  BY <1>2, <2>1 DEF Rests
<1>. QED  BY <1>6, <1>7, <1>8, <1>9, <1>10, <1>11 DEF FLInv

(* The rule sets of a boot, before and after the manual entries are known. *)
LEMMA BootFits ==
  ASSUME NEW w \in FLSets, NEW store, DOMAIN store = FLLists, NEW B, NEW A,
         B = UNION {RulesOf(store[l].content).block : l \in {x \in FLLists : store[x] # NoEntry /\ store[x].on}},
         A = UNION {RulesOf(store[l].content).allow : l \in {x \in FLLists : store[x] # NoEntry /\ store[x].on}}
  PROVE  LET x == CompileWork(Loaded(w, store))
         IN /\ x \in FLSets /\ x.ips \in BOOLEAN /\ x.black = w.black /\ x.white = w.white
            /\ x.blackRx = w.blackRx /\ x.whiteRx = w.whiteRx
            /\ Fits(x, A, B, w.white) /\ w.white \subseteq x.allow
<1>1. PICK y : /\ y = Loaded(w, store) /\ y \in FLSets /\ y.block = B /\ y.allow = A
               /\ y.black = w.black /\ y.white = w.white /\ y.blackRx = w.blackRx /\ y.whiteRx = w.whiteRx
  BY LoadedIs
<1>2. Fits(y, A, B, w.white)
  BY <1>1 DEF Fits
<1>3. PICK x : /\ x = CompileWork(y) /\ x \in FLSets
               /\ x.black = y.black /\ x.white = y.white /\ x.blackRx = y.blackRx /\ x.whiteRx = y.whiteRx
  BY <1>1, CompileIs
<1>4. Fits(x, A, B, w.white) /\ w.white \subseteq x.allow
  BY <1>1, <1>2, <1>3, CompileFits
<1>5. x.ips \in BOOLEAN
  BY <1>3 DEF FLSets
<1>. QED  BY <1>1, <1>3, <1>4, <1>5

(* Everything at rest over rule sets a boot has computed.                  *)
Booted == /\ FLKinds /\ flPub = Published(flWork) /\ flGate = flWork.ips /\ \A p \in FLProcs : flProc[p] = Resting
          /\ \E w \in FLSets : /\ flWork = CompileWork(Loaded(w, flStore)) /\ w.black = flManual.black
                               /\ w.white = flManual.white /\ w.blackRx = {} /\ w.whiteRx = {}

\* What a boot leaves satisfies the invariant.
LEMMA BootedIs == Booted => FLInv
<1>. SUFFICES ASSUME Booted PROVE FLInv
  OBVIOUS
<1>0. /\ FLKinds /\ flPub = Published(flWork) /\ flGate = flWork.ips /\ \A p \in FLProcs : flProc[p] = Resting
  BY DEF Booted
<1>. PICK w \in FLSets : /\ flWork = CompileWork(Loaded(w, flStore)) /\ w.black = flManual.black
                        /\ w.white = flManual.white /\ w.blackRx = {} /\ w.whiteRx = {}
  BY DEF Booted
<1>1. PICK A, B, x : A = AllowOf(Enabled) /\ B = BlockOf(Enabled) /\ x = flWork
  OBVIOUS
<1>2. /\ B = UNION {RulesOf(flStore[l].content).block : l \in {y \in FLLists : flStore[y] # NoEntry /\ flStore[y].on}}
      /\ A = UNION {RulesOf(flStore[l].content).allow : l \in {y \in FLLists : flStore[y] # NoEntry /\ flStore[y].on}}
  BY <1>0, <1>1, EnabledIs DEF AllowOf, BlockOf
<1>3. DOMAIN flStore = FLLists
  BY <1>0 DEF FLKinds
<1>4. PICK z : /\ z = CompileWork(Loaded(w, flStore)) /\ z.ips \in BOOLEAN /\ z.black = w.black /\ z.white = w.white
               /\ z.blackRx = w.blackRx /\ z.whiteRx = w.whiteRx /\ Fits(z, A, B, w.white) /\ w.white \subseteq z.allow
  BY <1>2, <1>3, BootFits
<1>5. \A p \in FLProcs : ~Unpublished(p) /\ flProc[p].pc \notin {"load", "publish"}
  BY <1>0 DEF Unpublished, Resting
<1>6. Manual /\ Gated
  BY <1>0, <1>4 DEF Manual, Gated, Published
<1>7. Ready /\ flManual.white \subseteq flWork.allow
  BY <1>1, <1>4 DEF Ready
<1>8. Clean
  <2>1. PICK W : W = flManual.white
    OBVIOUS
  <2>2. /\ A \subseteq x.allow /\ x.allow \subseteq A \cup W /\ x.block \subseteq B
        /\ \A r \in B \ x.block : \E e \in W : Strips(e, r)
    BY <1>1, <1>7, <2>1 DEF Ready, Fits
  <2>3. ASSUME NEW l \in Enabled PROVE Has(x, flStore[l].content, W)
    <3>1. RulesOf(flStore[l].content).allow \subseteq A /\ RulesOf(flStore[l].content).block \subseteq B
      BY <1>1 DEF AllowOf, BlockOf
    <3>. QED  BY <2>2, <3>1 DEF Has
  <2>. QED  BY <1>1, <2>1, <2>2, <2>3 DEF Clean
<1>. QED  BY <1>0, <1>5, <1>6, <1>7, <1>8 DEF FLInv, OneLoads, Compiling, Rests

\* A crash, which loses all but files and configuration, and the boot after.
LEMMA CrashKeeps == ASSUME ~FLRegexEntry, FLInv, CrashAndBoot PROVE FLInv'
<1>1. /\ flCount.edits < FLEdits /\ flCount' = [flCount EXCEPT !.edits = flCount.edits + 1]
      /\ flStore' = [l \in FLLists |-> IF flConf[l].st = "gone" THEN NoEntry
                       ELSE [url |-> flConf[l].url, on |-> flConf[l].st = "on", gen |-> 0, content |-> flFile'[l]]]
      /\ flWork' = BootWork(flManual, flStore')
      /\ flPub' = Published(flWork') /\ flGate' = flWork'.ips
      /\ flProc' = [p \in FLProcs |-> Resting] /\ flClean' = TRUE /\ UNCHANGED <<flConf, flManual>>
      /\ \E torn \in SUBSET FLRefreshers : flFile' = [l \in FLLists |-> IF \E p \in torn : flProc[p].l = l THEN Torn ELSE flFile[l]]
  BY DEF CrashAndBoot
<1>2. flFile' \in [FLLists -> 0..Torn]
  BY <1>1 DEF FLInv, FLKinds, Torn
<1>3. ASSUME NEW x \in FLLists
      PROVE  IF flConf'[x].st = "gone" THEN flStore'[x] = NoEntry
             ELSE flStore'[x] \in FLEntries /\ (flStore'[x].on <=> flConf'[x].st = "on")
  <2>. DEFINE n == [url |-> flConf[x].url, on |-> flConf[x].st = "on", gen |-> 0, content |-> flFile'[x]]
  <2>1. flStore'[x] = IF flConf[x].st = "gone" THEN NoEntry ELSE n
    BY <1>1
  <2>2. flFile'[x] \in 0..Torn /\ flConf[x].url \in URLs /\ 0 \in 0..FLEdits
    BY <1>2, FLAssumption DEF FLInv, FLKinds
  <2>3. n \in FLEntries /\ (n.on <=> flConf[x].st = "on")
    BY <2>2 DEF FLEntries
  <2>. QED  BY <1>1, <2>1, <2>3
<1>4. PICK w : /\ w = ResetWork(ManualWork(flWork, flManual)) /\ w \in FLSets
               /\ w.black = flManual.black /\ w.white = flManual.white /\ w.blackRx = {} /\ w.whiteRx = {}
  <2>1. PICK m, v : m = flManual /\ v = flWork /\ m \in ManualLists /\ v \in FLSets
    BY DEF FLInv, FLKinds
  <2>2. PICK x : x = ManualWork(v, m) /\ x \in FLSets /\ x.black = m.black /\ x.white = m.white
    BY <2>1, ManualIs
  <2>3. PICK y : /\ y = ResetWork(x) /\ y \in FLSets /\ y.blackRx = {} /\ y.whiteRx = {}
                 /\ y.black = x.black /\ y.white = x.white
    BY <2>2, ResetIs
  <2>. QED  BY <2>1, <2>2, <2>3
<1>5. flWork' = CompileWork(Loaded(w, flStore'))
  BY <1>1, <1>4 DEF BootWork
<1>6. DOMAIN flStore' = FLLists /\ flStore' = [x \in FLLists |-> flStore'[x]]
  BY <1>1
<1>7. flWork' \in FLSets /\ flWork'.ips \in BOOLEAN
  BY <1>4, <1>5, <1>6, BootFits
<1>8. FLKinds'
  <2>1. flCount' \in [edits : 0..FLEdits, fetches : Nat]
    BY <1>1, FLAssumption DEF FLInv, FLKinds
  <2>2. flProc' \in [FLProcs -> FLSteps]
    BY <1>1 DEF FLSteps
  <2>. QED  BY <1>1, <1>2, <1>3, <1>6, <1>7, <2>1, <2>2 DEF FLInv, FLKinds
<1>9. \A p \in FLProcs : flProc'[p] = Resting
  BY <1>1
<1>10. flManual' = flManual
  BY <1>1
<1>11. Booted'
  BY <1>1, <1>4, <1>5, <1>8, <1>9, <1>10 DEF Booted
<1>12. Booted' => FLInv'
  BY BootedIs, PTL
<1>. QED  BY <1>11, <1>12

\* The invariant holds in the initial states.
LEMMA FLInitial == ~FLRegexEntry /\ FLInit => FLInv
<1>. SUFFICES ASSUME ~FLRegexEntry, FLInit PROVE FLInv
  OBVIOUS
<1>1. PICK w0 : w0 = [block |-> {}, allow |-> {}, ips |-> FALSE, black |-> {}, white |-> {}, blackRx |-> {}, whiteRx |-> {}]
  OBVIOUS
<1>2. w0 \in FLSets /\ w0.black = {} /\ w0.white = {} /\ w0.blackRx = {} /\ w0.whiteRx = {}
  BY <1>1 DEF FLSets
<1>3. /\ flConf \in [FLLists -> [st : {"on"}, url : {1}]] /\ flFile \in [FLLists -> {0, 1}]
      /\ flStore = [l \in FLLists |-> [url |-> 1, on |-> TRUE, gen |-> 0, content |-> flFile[l]]]
      /\ flManual = [black |-> {}, white |-> {}] /\ flWork = CompileWork(Loaded(w0, flStore))
      /\ flPub = Published(flWork) /\ flGate = flWork.ips /\ flProc = [p \in FLProcs |-> Resting]
      /\ flClean = TRUE /\ flCount = [edits |-> 0, fetches |-> 0]
  BY <1>1 DEF FLInit
<1>4. flConf \in [FLLists -> [st : {"gone", "off", "on"}, url : URLs]] /\ flFile \in [FLLists -> 0..Torn]
  BY <1>3 DEF URLs, Torn
<1>5. ASSUME NEW l \in FLLists
      PROVE  IF flConf[l].st = "gone" THEN flStore[l] = NoEntry
             ELSE flStore[l] \in FLEntries /\ (flStore[l].on <=> flConf[l].st = "on")
  <2>1. flStore[l] = [url |-> 1, on |-> TRUE, gen |-> 0, content |-> flFile[l]] /\ flConf[l].st = "on"
    BY <1>3
  <2>2. flFile[l] \in 0..Torn /\ 1 \in URLs /\ 0 \in 0..FLEdits
    BY <1>4, FLAssumption DEF URLs
  <2>. QED  BY <2>1, <2>2 DEF FLEntries
<1>6. flManual \in ManualLists /\ flManual.black = {} /\ flManual.white = {}
  BY <1>3, FS_EmptySet DEF ManualLists
<1>7. DOMAIN flStore = FLLists /\ flStore = [l \in FLLists |-> flStore[l]]
  BY <1>3
<1>8. flWork \in FLSets /\ flWork.ips \in BOOLEAN
  BY <1>2, <1>3, <1>7, BootFits
<1>9. flCount \in [edits : 0..FLEdits, fetches : Nat]
  BY <1>3, FLAssumption
<1>10. FLKinds
  BY <1>3, <1>4, <1>5, <1>6, <1>7, <1>8, <1>9 DEF FLKinds, FLSteps
<1>11. Booted
  BY <1>2, <1>3, <1>6, <1>10 DEF Booted
<1>. QED  BY <1>11, BootedIs

\* Every step keeps the invariant.
LEMMA FLStep == ~FLRegexEntry /\ FLInv /\ [FLNext]_FLVars => FLInv'
<1>. SUFFICES ASSUME ~FLRegexEntry, FLInv, [FLNext]_FLVars PROVE FLInv'
  OBVIOUS
<1>1. CASE \E l \in FLLists, st \in {"gone", "off", "on"}, u \in URLs : EditList(l, [st |-> st, url |-> IF st = "on" THEN u ELSE 1])
  <2>1. PICK l \in FLLists, st \in {"gone", "off", "on"}, u \in URLs : EditList(l, [st |-> st, url |-> IF st = "on" THEN u ELSE 1])
    BY <1>1
  <2>2. [st |-> st, url |-> IF st = "on" THEN u ELSE 1] \in [st : {"gone", "off", "on"}, url : URLs]
    BY DEF URLs
  <2>. QED  BY <2>1, <2>2, EditListKeeps
<1>2. CASE \E m \in ManualLists : EditManual(m)
  BY <1>2, EditManualKeeps
<1>3. CASE \E p \in FLRefreshers :
             \/ \E l \in FLLists : RefreshBegins(p, {l}, FALSE)
             \/ RefreshBegins(p, EnabledNow, TRUE)
  <2>1. EnabledNow = Enabled /\ Enabled \in SUBSET FLLists
    BY EnabledIs DEF FLInv, Enabled
  <2>2. PICK p \in FLRefreshers :
          \/ \E l \in FLLists : RefreshBegins(p, {l}, FALSE)
          \/ RefreshBegins(p, EnabledNow, TRUE)
    BY <1>3
  <2>3. \E s \in SUBSET FLLists, tick \in BOOLEAN : RefreshBegins(p, s, tick)
    BY <2>1, <2>2
  <2>. QED  BY <2>3, RefreshBeginsKeeps
<1>4. CASE \E p \in FLRefreshers : \E l \in FLLists : FetchBegins(p, l)
  BY <1>4, FetchBeginsKeeps
<1>5. CASE \E p \in FLRefreshers : FetchFails(p)
  BY <1>5, FetchFailsKeeps
<1>6. CASE \E p \in FLRefreshers : FetchStores(p)
  BY <1>6, FetchStoresKeeps
<1>7. CASE \E p \in FLRefreshers : PersistList(p)
  BY <1>7, PersistKeeps
<1>8. CASE \E p \in FLRefreshers : RefreshEnds(p)
  BY <1>8, RefreshEndsKeeps
<1>17. CASE \E p \in FLProcs : ResetPublishes(p)
  BY <1>17, WithdrawsKeeps
<1>18. CASE \E p \in FLProcs : CompilePublishes(p)
  BY <1>18, PublishKeeps
<1>9. CASE \E p \in FLProcs : ReloadSnap(p)
  BY <1>9, SnapKeeps
<1>10. CASE \E p \in FLProcs : ReloadReset(p)
  BY <1>10, ResetKeeps
<1>11. CASE \E p \in FLProcs : ReloadEnters(p)
  BY <1>11, EntersKeeps
<1>12. CASE \E p \in FLProcs : ReloadLeaves(p)
  BY <1>12, LeavesKeeps
<1>13. CASE \E p \in FLProcs : Compile(p)
  BY <1>13, CompileKeeps
<1>14. CASE \E p \in FLProcs : \E l \in FLLists : ReloadList(p, l)
  BY <1>14, ListKeeps
<1>15. CASE CrashAndBoot
  BY <1>15, CrashKeeps
<1>16. CASE UNCHANGED FLVars
  <2>1. /\ flConf' = flConf /\ flStore' = flStore /\ flFile' = flFile /\ flManual' = flManual /\ flWork' = flWork
        /\ flPub' = flPub /\ flGate' = flGate /\ flProc' = flProc /\ flClean' = flClean /\ flCount' = flCount
    BY <1>16 DEF FLVars
  <2>2. FLKinds' /\ Manual' /\ Gated' /\ OneLoads'
    BY <2>1 DEF FLInv, FLKinds, Manual, Gated, OneLoads
  <2>3. ToLoad' = ToLoad /\ \A p \in FLProcs : Unpublished(p)' <=> Unpublished(p)
    BY <2>1 DEF ToLoad, Unpublished
  <2>4. Clean'
    BY <2>1, <2>3, Framed DEF FLInv
  <2>5. Compiling' /\ Rests'
    BY <2>1, <2>3 DEF FLInv, Compiling, Rests
  <2>. QED  BY <2>2, <2>4, <2>5 DEF FLInv
<1>. QED  BY <1>1, <1>2, <1>3, <1>4, <1>5, <1>6, <1>7, <1>8, <1>9, <1>10, <1>11, <1>12, <1>13, <1>14, <1>15, <1>16, <1>17, <1>18 DEF FLNext

(* A name the whitelist does not hold is blocked by a list's rule whether  *)
(* or not Compile stripped some.                                           *)
LEMMA StripsMatch ==
  ASSUME NEW q \in QNames, NEW r \in FLRules, NEW e \in FLRules, Strips(e, r), Matches(r, q) PROVE Matches(e, q)
BY RuleKinds DEF Strips, Matches

\* When overlapping reloads have come to rest every query is decided as
\* configured.
LEMMA RulesAreCurrent == ~FLRegexEntry /\ FLInv => RulesCurrent
<1>. SUFFICES ASSUME ~FLRegexEntry, FLInv, RulesRest, NEW q \in QNames PROVE Decide(flPub, q) = Intended(q)
  BY DEF RulesCurrent
<1>1. FLKinds /\ Manual /\ Ready /\ flPub = Published(flWork) /\ flManual.white \subseteq flWork.allow
  <2>1. flPub = Published(flWork) /\ flManual.white \subseteq flWork.allow
    BY DEF FLInv, Rests, RulesRest
  <2>2. ToLoad = {}
    BY DEF RulesRest, Unpublished, ToLoad
  <2>3. /\ flWork.allow \subseteq AllowOf(Enabled) \cup flManual.white /\ flWork.block \subseteq BlockOf(Enabled)
        /\ \A l \in Enabled : Has(flWork, flStore[l].content, flManual.white)
    BY <2>2 DEF FLInv, Clean, RulesRest
  <2>4. AllowOf(Enabled) \subseteq flWork.allow
    BY <2>3 DEF Has, AllowOf
  <2>5. \A r \in BlockOf(Enabled) \ flWork.block : \E e \in flManual.white : Strips(e, r)
    BY <2>3 DEF Has, BlockOf
  <2>. QED  BY <2>1, <2>3, <2>4, <2>5 DEF FLInv, Ready, Fits
<1>2. PICK A, B, W, D : A = AllowOf(Enabled) /\ B = BlockOf(Enabled) /\ W = flManual.white /\ D = flManual.black
  OBVIOUS
<1>3. Plain(D) = D /\ Patterns(D) = {} /\ W \subseteq FLRules /\ D \subseteq FLRules
  BY <1>1, <1>2, PlainManual DEF FLKinds
<1>4. A \subseteq FLRules /\ B \subseteq FLRules
  BY <1>2, RuleKinds DEF AllowOf, BlockOf
<1>5. PICK w : w = flWork /\ w.allow = A \cup W /\ w.block \subseteq B /\ \A r \in B \ w.block : \E e \in W : Strips(e, r)
  BY <1>1, <1>2 DEF Ready, Fits
<1>6. flPub.ublock = D /\ flPub.allow = A \cup W /\ flPub.block = w.block
  BY <1>1, <1>2, <1>5 DEF Manual, Published
<1>7. Hit(flPub.allow, q) <=> Hit(W, q) \/ Hit(A, q)
  BY <1>6 DEF Hit
<1>8. ~Hit(W, q) => (Hit(flPub.block, q) <=> Hit(B, q))
  <2>. SUFFICES ASSUME ~Hit(W, q) PROVE Hit(w.block, q) <=> Hit(B, q)
    BY <1>6
  <2>1. ASSUME Hit(B, q) PROVE Hit(w.block, q)
    <3>1. PICK r \in B : Matches(r, q)
      BY <2>1 DEF Hit
    <3>2. CASE r \in w.block
      BY <3>1, <3>2 DEF Hit
    <3>3. CASE r \notin w.block
      <4>1. PICK e \in W : Strips(e, r)
        BY <1>5, <3>3
      <4>2. Matches(e, q)
        BY <1>3, <1>4, <3>1, <4>1, StripsMatch
      <4>. QED  BY <4>2 DEF Hit
    <3>. QED  BY <3>2, <3>3
  <2>2. Hit(w.block, q) => Hit(B, q)
    BY <1>5 DEF Hit
  <2>. QED  BY <2>1, <2>2
<1>9. /\ (\E c \in {RulesOf(flStore[l].content) : l \in Enabled} : Hit(c.allow, q)) <=> Hit(A, q)
      /\ (\E c \in {RulesOf(flStore[l].content) : l \in Enabled} : Hit(c.block, q)) <=> Hit(B, q)
  BY <1>2 DEF AllowOf, BlockOf, Hit
<1>10. Intended(q) = IF Hit(D, q) THEN "block" ELSE IF Hit(W, q) \/ Hit(A, q) THEN "allow"
                     ELSE IF Hit(D, q) \/ Hit(B, q) THEN "block" ELSE "allow"
  BY <1>2, <1>3, <1>9 DEF Intended, Enabled
<1>11. Decide(flPub, q) = IF Hit(D, q) THEN "block" ELSE IF Hit(flPub.allow, q) THEN "allow"
                          ELSE IF Hit(flPub.block, q) THEN "block" ELSE "allow"
  BY <1>6 DEF Decide
<1>. QED  BY <1>7, <1>8, <1>10, <1>11

\* A set of at most one.
LEMMA AtMostOne == ASSUME NEW S, \A x, y \in S : x = y PROVE IsFiniteSet(S) /\ Cardinality(S) <= 1
<1>1. CASE S = {}
  BY <1>1, FS_EmptySet
<1>2. CASE S # {}
  <2>1. PICK x : S = {x}
    BY <1>2
  <2>2. IsFiniteSet({x}) /\ Cardinality({x}) = 1
    BY FS_Singleton
  <2>. QED  BY <2>1, <2>2
<1>. QED  BY <1>1, <1>2

\* The invariant gives what the component promises.
LEMMA FLImplies == ~FLRegexEntry /\ FLInv => RulesSound
<1>. SUFFICES ASSUME ~FLRegexEntry, FLInv PROVE RulesSound
  OBVIOUS
<1>1. FLTypeOK
  <2>1. Cardinality({p \in FLProcs : flProc[p].pc = "load"}) <= 1
    BY AtMostOne DEF FLInv, OneLoads
  <2>2. \A l \in FLLists : flStore[l] # NoEntry =>
          flStore[l] \in [url : URLs, on : BOOLEAN, gen : 0..FLEdits, content : 0..Torn]
    BY DEF FLInv, FLKinds, FLEntries
  <2>. QED  BY <2>1, <2>2 DEF FLInv, FLKinds, FLTypeOK
<1>2. IPGateSound
  BY DEF FLInv, Gated, IPGateSound
<1>. QED  BY <1>1, <1>2, RulesAreCurrent DEF RulesSound

\* For any lists, contents and processes, as long as no manual entry is a
\* regular expression (with one, RulesCurrent is not true of the code):
\* whenever ReloadAlls and edits, overlapping as they may, have come to rest
\* every query is decided as the configuration says, unless a ReloadAll
\* loaded a list disabled since its snapshot, or a list changed and no
\* ReloadAll has run since; and the address gate hides a rule only between
\* Reset's two stores (ReloadAll, Compile, FetchOne).
THEOREM RulesHold == ~FLRegexEntry => (FLSpec => []RulesSound)
<1>. SUFFICES ASSUME ~FLRegexEntry PROVE FLSpec => []RulesSound
  OBVIOUS
<1>1. FLInit => FLInv
  BY FLInitial
<1>2. FLInv /\ [FLNext]_FLVars => FLInv'
  BY FLStep
<1>3. FLInv => RulesSound
  BY FLImplies
<1>. QED  BY <1>1, <1>2, <1>3, PTL DEF FLSpec
=============================================================================
