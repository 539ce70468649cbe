------------------------------- MODULE Guards -------------------------------
(***************************************************************************)
(* The abuse guards of the query path (internal/dnsserver): the per-client *)
(* token bucket with its auto-block (ratelimit.go), the NXDOMAIN flood     *)
(* guard per prefix (nxguard.go) and the repeat-query guard per client     *)
(* (repeatguard.go), in the order in which Handler.serve consults them.    *)
(* One shard of each map; all three guards are installed.                  *)
(*                                                                         *)
(* Every call takes one lock, so a query is cut between its calls.  Most   *)
(* calls read the clock before they take the lock: they work with any time *)
(* from the query's previous step (at) to the present.  A tick is the time *)
(* in which a bucket earns one token; time 0 is Go's zero time.            *)
(***************************************************************************)
EXTENDS Integers, FiniteSets

CONSTANTS
  Clients, Prefixes,
  PrefixOf,     \* clientPrefix
  Names,        \* query names
  Honeypots,    \* trap domains among them
  Queries,      \* goroutines inside serve
  MaxPerShard,  \* rlMaxPerShard, nxMaxPerShard, rqMaxPerShard
  IdleEvict,    \* rlIdleEvict, nxIdleEvict, rqIdleEvict
  Burst, AutoBlock, BlockAfter, BlockFor,
  NXThreshold, NXWindow, NXBlockFor,
  RQThreshold, RQWindow, RQBlockFor, RQUDPBlockFor,
  HoneypotUDPBlock,
  MaxTime,      \* bound: last tick of the clock
  None

ASSUME KeysAssumption ==
  /\ IsFiniteSet(Clients) /\ IsFiniteSet(Prefixes) /\ IsFiniteSet(Queries)
  /\ PrefixOf \in [Clients -> Prefixes]
  /\ Honeypots \subseteq Names
ASSUME LimitsAssumption ==
  /\ MaxPerShard \in Nat \ {0} /\ IdleEvict \in Nat /\ MaxTime \in Nat
  /\ Burst \in Nat \ {0} /\ AutoBlock \in BOOLEAN /\ BlockAfter \in Nat \ {0}
  /\ NXThreshold \in Nat \ {0} /\ NXWindow \in Nat \ {0}
  /\ RQThreshold \in Nat \ {0, 1} /\ RQWindow \in Nat \ {0}
ASSUME BlocksAssumption ==
  /\ BlockFor \in Nat \ {0} /\ NXBlockFor \in Nat \ {0} /\ RQBlockFor \in Nat \ {0}
  /\ RQUDPBlockFor \in Nat /\ HoneypotUDPBlock \in Nat

VARIABLES
  clock,
  buckets,  \* RateLimiter: client -> bucket
  nx,       \* NXGuard: prefix -> entry
  rq,       \* RepeatGuard: client -> streak
  query,    \* what each goroutine is doing
  allowance \* history: what a bucket that is filled when the client's is, earns a token
            \* every tick and is never full would hold

vars == <<clock, buckets, nx, rq, query, allowance>>

Tokens == {t \in Int : t <= Burst}
Bucket == [tokens: Tokens, lastSeen: Nat, violations: Nat, firstViol: Nat, blockedUntil: Nat]
NXEntry == [count: Nat, firstSeen: Nat, blockedUntil: Nat]
RQEntry == [qname: Names \cup {None}, count: Nat, firstSeen: Nat, blockedUntil: Nat]
ASSUME NoneAssumption ==
  None \notin Bucket /\ None \notin NXEntry /\ None \notin RQEntry /\ None \notin Names

Idle == [pc |-> "idle"]
PastNX == {"repeat", "note", "force", "mirror", "trap", "resolve"}
\* A query.  Its name and whether its source is trusted (a stream transport,
\* or trust_udp) are filled in where serve first looks at them.
Query == [pc: {"limit", "nx"} \cup PastNX,
          client: Clients, qname: Names \cup {None}, trusted: BOOLEAN, at: Nat \ {0}]

\* Buckets, NX and repeat entries and the queries in hand are well formed
\* (RateLimiter, NXGuard, RepeatGuard).
TypeOK ==
  /\ clock \in Nat \ {0}
  /\ buckets \in [Clients -> Bucket \cup {None}]
  /\ nx \in [Prefixes -> NXEntry \cup {None}]
  /\ rq \in [Clients -> RQEntry \cup {None}]
  /\ query \in [Queries -> Query \cup {Idle}]
  /\ allowance \in [Clients -> Int]

Init ==
  /\ clock = 1
  /\ buckets = [c \in Clients |-> None]
  /\ nx = [x \in Prefixes |-> None]
  /\ rq = [c \in Clients |-> None]
  /\ query = [q \in Queries |-> Idle]
  /\ allowance = [c \in Clients |-> 0]

Held(m) == {k \in DOMAIN m : m[k] # None}

At(q, step) == query[q].pc = step
Goto(q, step) == query' = [query EXCEPT ![q] = [query[q] EXCEPT !.pc = step, !.at = clock]]
Leave(q) == query' = [query EXCEPT ![q] = Idle]

\* The times a call of q may have read on its way to the lock.
Now(q) == query[q].at..clock

-----------------------------------------------------------------------------
(* evictLocked, evictNXLocked, evictRQLocked *)

Room(kept) == Cardinality(kept) < MaxPerShard

\* kept survives the eviction that makes room for a new key: everything if
\* there is room; else the idle entries go, then the oldest until there is.
Evict(m, seen, now, kept) ==
  LET fresh == {k \in Held(m) : now - seen[k] <= IdleEvict}
  IN  \/ Room(Held(m)) /\ kept = Held(m)
      \/ ~Room(Held(m)) /\ Room(fresh) /\ kept = fresh
      \/ /\ ~Room(Held(m)) /\ ~Room(fresh)
         /\ kept \subseteq fresh
         /\ Room(kept)
         /\ \A k \in fresh \ kept :
              /\ ~Room(kept \cup {k})
              /\ \A l \in kept : seen[k] <= seen[l]

\* m' is m with e stored under k; a new key makes room first.
Store(m, seen, now, k, e, result) ==
  IF m[k] # None
    THEN result = [m EXCEPT ![k] = e]
    ELSE \E kept \in SUBSET Held(m) :
           /\ Evict(m, seen, now, kept)
           /\ result = [x \in DOMAIN m |-> IF x = k THEN e ELSE IF x \in kept THEN m[x] ELSE None]

LastSeen == [c \in Clients |-> IF buckets[c] = None THEN 0 ELSE buckets[c].lastSeen]
NXSeen == [x \in Prefixes |-> IF nx[x] = None THEN 0 ELSE nx[x].firstSeen]
RQSeen == [c \in Clients |-> IF rq[c] = None THEN 0 ELSE rq[c].firstSeen]

-----------------------------------------------------------------------------
(* RateLimiter *)

Least(a, b) == IF a <= b THEN a ELSE b

\* The bucket as Allow finds it once no block is in force: an ended block
\* leaves a clean slate.
Slate(b) == IF b.blockedUntil = 0 THEN b
              ELSE [b EXCEPT !.tokens = Burst, !.violations = 0, !.firstViol = 0, !.blockedUntil = 0]

\* Mutant: the time of the refill is not noted.
RefillUndated(b, now) == [Slate(b) EXCEPT !.tokens = Least(Burst, Slate(b).tokens + (now - b.lastSeen))]

Refill(b, now) == [Slate(b) EXCEPT !.tokens = Least(Burst, Slate(b).tokens + (now - b.lastSeen)),
                                   !.lastSeen = now]

\* recordViolationLocked.
Violation(b, now) ==
  LET anew == b.firstViol = 0 \/ now - b.firstViol > BlockFor
      n == IF anew THEN 1 ELSE b.violations + 1
  IN  IF ~AutoBlock THEN b
      ELSE IF n >= BlockAfter
        THEN [b EXCEPT !.blockedUntil = now + BlockFor, !.violations = 0, !.firstViol = 0]
        ELSE [b EXCEPT !.violations = n, !.firstViol = IF anew THEN now ELSE b.firstViol]

\* History: the allowance of a bucket that was filled at time now.
Full(now) == Burst + (clock - now)

\* RateLimiter.Allow meets a client for the first time.
AllowNew(q) ==
  LET c == query[q].client
  IN  /\ At(q, "limit")
      /\ buckets[c] = None
      /\ \E now \in Now(q) :
           /\ Store(buckets, LastSeen, now, c,
                    [tokens |-> Burst - 1, lastSeen |-> now, violations |-> 0, firstViol |-> 0,
                     blockedUntil |-> 0], buckets')
           /\ allowance' = [allowance EXCEPT ![c] = Full(now) - 1]
      /\ Goto(q, "nx")
      /\ UNCHANGED <<clock, nx, rq>>

\* Mutant: a block is over one tick early.
InForceShort(until, now) == now + 1 < until

\* A block of the limiter is in force.
InForce(until, now) == now < until

\* Allow refuses a blocked client, whatever its tokens.
AllowBlocked(q) ==
  LET c == query[q].client
  IN  /\ At(q, "limit")
      /\ buckets[c] # None
      /\ \E now \in Now(q) :
           /\ buckets[c].blockedUntil # 0 /\ InForce(buckets[c].blockedUntil, now)
           /\ buckets' = [buckets EXCEPT ![c] = [buckets[c] EXCEPT !.lastSeen = now]]
      /\ Leave(q)
      /\ UNCHANGED <<clock, nx, rq, allowance>>

\* Allow refills the bucket and takes a token, or notes a violation.
AllowBucket(q) ==
  LET c == query[q].client
      b == buckets[c]
  IN  /\ At(q, "limit")
      /\ buckets[c] # None
      /\ \E now \in Now(q) :
           /\ b.blockedUntil = 0 \/ ~InForce(b.blockedUntil, now)
           /\ LET r == Refill(b, now)
                  a == IF b.blockedUntil = 0 THEN allowance[c] ELSE Full(now)
              IN  \/ /\ r.tokens < 1
                     /\ buckets' = [buckets EXCEPT ![c] = Violation(r, now)]
                     /\ Leave(q)
                     /\ allowance' = [allowance EXCEPT ![c] = a]
                  \/ /\ r.tokens >= 1
                     /\ buckets' = [buckets EXCEPT ![c] = [r EXCEPT !.tokens = r.tokens - 1]]
                     /\ allowance' = [allowance EXCEPT ![c] = a - 1]
                     /\ Goto(q, "nx")
      /\ UNCHANGED <<clock, nx, rq>>

\* RateLimiter.ForceBlock(client, d).
ForceBlock(c, d, now) ==
  LET b == IF buckets[c] # None THEN buckets[c]
             ELSE [tokens |-> 0, lastSeen |-> now, violations |-> 0, firstViol |-> 0, blockedUntil |-> 0]
  IN  Store(buckets, LastSeen, now, c,
            [b EXCEPT !.blockedUntil = now + d, !.violations = 0, !.firstViol = 0, !.lastSeen = now],
            buckets')

\* The dashboard lifts a client's block (UnblockClient, RateLimiter.Unblock).
Unblock(c) ==
  /\ buckets[c] # None
  /\ buckets' = [buckets EXCEPT ![c] = [tokens |-> Burst, lastSeen |-> clock, violations |-> 0,
                                        firstViol |-> 0, blockedUntil |-> 0]]
  /\ allowance' = [allowance EXCEPT ![c] = Full(clock)]
  /\ UNCHANGED <<clock, nx, rq, query>>

-----------------------------------------------------------------------------
(* NXGuard *)

\* Mutant: the end of the block counts as after it.
AllowNXEarly(q) ==
  LET e == nx[PrefixOf[query[q].client]]
  IN  /\ At(q, "nx")
      /\ \/ e = None /\ Goto(q, "repeat")
         \/ /\ e # None
            /\ \E now \in Now(q) : IF e.blockedUntil = 0 \/ now >= e.blockedUntil
                                     THEN Goto(q, "repeat") ELSE Leave(q)
      /\ UNCHANGED <<clock, buckets, nx, rq, allowance>>

\* NXGuard.Allow, read-only.
AllowNX(q) ==
  LET e == nx[PrefixOf[query[q].client]]
  IN  /\ At(q, "nx")
      /\ \/ e = None /\ Goto(q, "repeat")
         \/ /\ e # None
            /\ \E now \in Now(q) : IF e.blockedUntil = 0 \/ now > e.blockedUntil
                                     THEN Goto(q, "repeat") ELSE Leave(q)
      /\ UNCHANGED <<clock, buckets, nx, rq, allowance>>

\* NoteNX counts into the entry; a window that has passed starts anew, and
\* takes the block with it.
CountNX(x, now) ==
  IF nx[x] = None \/ now - nx[x].firstSeen > NXWindow
    THEN [count |-> 1, firstSeen |-> now, blockedUntil |-> 0]
    ELSE [nx[x] EXCEPT !.count = nx[x].count + 1]

\* The threshold is reached: the prefix is blocked and the count starts anew.
TripNX(e, now) ==
  IF e.count >= NXThreshold /\ e.blockedUntil = 0
    THEN [count |-> 0, firstSeen |-> now, blockedUntil |-> now + NXBlockFor] ELSE e

\* The answer is NXDOMAIN, from upstream or from the cache.
AnswerNX(q) ==
  LET x == PrefixOf[query[q].client]
  IN  /\ At(q, "resolve")
      /\ \E now \in Now(q) : Store(nx, NXSeen, now, x, TripNX(CountNX(x, now), now), nx')
      /\ Leave(q)
      /\ UNCHANGED <<clock, buckets, rq, allowance>>

\* Any other end of the query.
AnswerOther(q) ==
  /\ At(q, "resolve")
  /\ Leave(q)
  /\ UNCHANGED <<clock, buckets, nx, rq, allowance>>

-----------------------------------------------------------------------------
(* RepeatGuard *)

\* RepeatGuard.Allow, read-only; it reads the clock under the lock.
AllowRepeat(q) ==
  LET e == rq[query[q].client]
  IN  /\ At(q, "repeat")
      /\ IF e = None \/ e.blockedUntil = 0 \/ clock > e.blockedUntil THEN Goto(q, "note") ELSE Leave(q)
      /\ UNCHANGED <<clock, buckets, nx, rq, allowance>>

\* Where the streak is broken: another name, or the window has passed.
Broken(e, n, now) == e # None => e.qname # n \/ now - e.firstSeen > RQWindow

\* The block that a tripped streak earns: full for a verified source, bounded
\* for plain UDP, and none when that bound is 0.
RepeatBlock(trusted) == IF trusted THEN RQBlockFor ELSE RQUDPBlockFor

\* NoteQuery: a broken streak starts anew and clears the block.
NoteQuery(q, n, trusted) ==
  LET c == query[q].client
      e == rq[c]
      To(step) == query' = [query EXCEPT ![q] = [pc |-> step, client |-> c, qname |-> n,
                                                   trusted |-> trusted, at |-> clock]]
  IN  /\ At(q, "note")
      /\ \E now \in Now(q) :
           \/ /\ Broken(e, n, now)
              /\ Store(rq, RQSeen, now, c, [qname |-> n, count |-> 1, firstSeen |-> now, blockedUntil |-> 0], rq')
              /\ To("trap")
           \/ /\ ~Broken(e, n, now)
              /\ rq' = [rq EXCEPT ![c] = [e EXCEPT !.count = e.count + 1]]
              /\ To(IF e.count + 1 >= RQThreshold /\ RepeatBlock(trusted) > 0 THEN "force" ELSE "trap")
      /\ UNCHANGED <<clock, buckets, nx, allowance>>

\* RepeatGuard.ForceBlock.
ForceRepeat(q) ==
  /\ At(q, "force")
  /\ \E now \in Now(q) :
       Store(rq, RQSeen, now, query[q].client,
             [qname |-> None, count |-> 0, firstSeen |-> now, blockedUntil |-> now + RepeatBlock(query[q].trusted)], rq')
  /\ Goto(q, "mirror")
  /\ UNCHANGED <<clock, buckets, nx, allowance>>

\* The same block in the rate limiter.
Mirror(q) ==
  /\ At(q, "mirror")
  /\ \E now \in Now(q) : ForceBlock(query[q].client, RepeatBlock(query[q].trusted), now)
  /\ Goto(q, "trap")
  /\ UNCHANGED <<clock, nx, rq, allowance>>

-----------------------------------------------------------------------------
(* serve *)

Arrive(q, c) ==
  /\ query[q] = Idle
  /\ query' = [query EXCEPT ![q] = [pc |-> "limit", client |-> c, qname |-> None, trusted |-> FALSE,
                                    at |-> clock]]
  /\ UNCHANGED <<clock, buckets, nx, rq, allowance>>

\* A trap domain is never answered; a plain-UDP source earns a bounded block.
Trap(q) ==
  /\ At(q, "trap")
  /\ query[q].qname \in Honeypots
  /\ IF ~query[q].trusted /\ HoneypotUDPBlock > 0
       THEN \E now \in Now(q) : ForceBlock(query[q].client, HoneypotUDPBlock, now)
       ELSE UNCHANGED buckets
  /\ Leave(q)
  /\ UNCHANGED <<clock, nx, rq, allowance>>

\* A client of a blocked country, network or address is refused, whatever it
\* asks for.
Banned(q) ==
  /\ At(q, "trap")
  /\ Leave(q)
  /\ UNCHANGED <<clock, buckets, nx, rq, allowance>>

\* No trap: the query goes on to the cache and the resolver.
Proceed(q) ==
  /\ At(q, "trap")
  /\ query[q].qname \notin Honeypots
  /\ query' = [query EXCEPT ![q] = [pc |-> "resolve", client |-> query[q].client, qname |-> None,
                                    trusted |-> FALSE, at |-> clock]]
  /\ UNCHANGED <<clock, buckets, nx, rq, allowance>>

Tick ==
  /\ clock < MaxTime
  /\ clock' = clock + 1
  /\ allowance' = [c \in Clients |-> allowance[c] + 1]
  /\ UNCHANGED <<buckets, nx, rq, query>>

Step(q) ==
  \/ \E c \in Clients : Arrive(q, c)
  \/ AllowNew(q)
  \/ AllowBlocked(q)
  \/ AllowBucket(q)
  \/ AllowNX(q)
  \/ AllowRepeat(q)
  \/ \E n \in Names, trusted \in BOOLEAN : NoteQuery(q, n, trusted)
  \/ ForceRepeat(q)
  \/ Mirror(q)
  \/ Banned(q)
  \/ Trap(q)
  \/ Proceed(q)
  \/ AnswerNX(q)
  \/ AnswerOther(q)

Next == Tick \/ (\E c \in Clients : Unblock(c)) \/ (\E q \in Queries : Step(q))

Spec == Init /\ [][Next]_vars

-----------------------------------------------------------------------------
(* Properties *)

\* Since its bucket was last filled, the limiter has let through no more of a
\* client's queries than the burst and the tokens earned since, although
\* calls reach the lock in another order than they read the clock and so move
\* lastSeen back and forth (Allow, ForceBlock, Unblock, eviction).
AdmissionBounded == \A c \in Clients : allowance[c] >= 0

\* None of the three maps outgrows its cap (evictLocked and its copies).
MapsBounded ==
  /\ Cardinality(Held(buckets)) <= MaxPerShard
  /\ Cardinality(Held(nx)) <= MaxPerShard
  /\ Cardinality(Held(rq)) <= MaxPerShard

Blocked(c) == buckets[c] # None /\ clock < buckets[c].blockedUntil

\* A query of the client is where serve calls ForceBlock.
Forcing(c) ==
  \E q \in Queries : query[q].pc \in {"mirror", "trap"} /\ query[q].client = c /\ query'[q] # query[q]

\* A block of the limiter that has not run out ends only by the dashboard's
\* Unblock or by eviction, or is replaced by a newer ForceBlock: no query of
\* the client, old or new, clears it (Allow; the repeat-query block relies on
\* this, since NoteQuery of a query in flight clears the guard's own).
BlockKept ==
  [][\A c \in Clients : Blocked(c) =>
       \/ buckets'[c] = None
       \/ buckets'[c].blockedUntil = buckets[c].blockedUntil
       \/ Unblock(c)
       \/ Forcing(c)]_vars

\* Queries of prefix x that have passed NXGuard.Allow.
Past(x) == {q \in Queries : query[q].pc \in PastNX /\ PrefixOf[query[q].client] = x}

\* While a prefix is blocked, every NXDOMAIN counted against it belongs to a
\* query that had passed the guard when the block fell: nothing new of the
\* prefix reaches the resolver (NXGuard.Allow, NoteNX).
FloodContained ==
  \A x \in Prefixes : nx[x] # None /\ clock <= nx[x].blockedUntil =>
    nx[x].count + Cardinality(Past(x)) <= Cardinality(Queries)

(* The guards' limits: no client is admitted more than its tokens allow,   *)
(* and no map outgrows its cap, whatever clocks cross (Allow, evict).      *)
LimitsHold ==
  /\ TypeOK
  /\ AdmissionBounded
  /\ MapsBounded
=============================================================================
