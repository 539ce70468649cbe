--------------------------- MODULE ResponseCache ---------------------------
(***************************************************************************)
(* The two-layer response cache (internal/cache/cache.go): Lookup, Get,    *)
(* Set, SetNegative and FlushAll over an in-process L1 and a shared L2     *)
(* (Dragonfly).  A question has a positive and a negative entry.           *)
(*                                                                         *)
(* The L1 is the map that L1Shard models in detail: here an entry may be   *)
(* evicted at any moment.  The L2 keeps a value until its expiry; a write  *)
(* reaches it through the write-behind queue that L2Writer models, here a  *)
(* set of pending writes that land in any order and at any time, or fail:  *)
(* a full queue, a slow flush (writeFlushTimeout is 2s) or a slow network  *)
(* may hold one up.  A Lookup may take any time too.                       *)
(*                                                                         *)
(* An entry is identified by the number of the Set that made it, and       *)
(* remembers as `due' the time at which the lifetime it was stored with    *)
(* ends, counted from the Set, and as `late' how long its L2 write was     *)
(* under way: no code looks at these, the properties do.                   *)
(***************************************************************************)
EXTENDS Naturals

CONSTANTS
  Questions,  \* questions (keyHash)
  Procs,      \* goroutines calling the cache
  TTLs,       \* TTLs of answers; 0 is a record that must not be cached
  CfgTTL,     \* Cache.ttl
  CfgNegTTL,  \* Cache.negativeTTL
  StaleTTL,   \* l1Cache.staleTTL
  MaxTime,    \* bound: last tick of the clock
  MaxSets,    \* bound: entries ever stored
  None        \* no entry

ASSUME TTLAssumption ==
  /\ TTLs \subseteq Nat
  /\ CfgTTL \in Nat \ {0}
  /\ CfgNegTTL \in Nat \ {0}
  /\ StaleTTL \in Nat
ASSUME QuestionsAssumption == Questions # {}
ASSUME BoundsAssumption == MaxTime \in Nat /\ MaxSets \in Nat

VARIABLES
  clock,  \* time.Now()
  nextId, \* number of the next entry stored
  l1,     \* l1Cache: entries by key
  l2,     \* Dragonfly: entries by key
  queued, \* L2 writes between enqueueL2 and Dragonfly
  call    \* what each goroutine is doing

vars == <<clock, nextId, l1, l2, queued, call>>

Kinds == {"pos", "neg"}
Keys == Questions \X Kinds

L1Entry == [id: Nat, due: Nat, late: Nat, expires: Nat, staleUntil: Nat]
L2Entry == [id: Nat, due: Nat, late: Nat, until: Nat]
Write == [key: Keys, id: Nat, at: Nat, due: Nat, ttl: Nat]

ASSUME NoneAssumption == None \notin L1Entry /\ None \notin L2Entry

Steps == {"probePos", "probeNeg", "mget", "warmPos", "delPos", "warmNeg",
          "getL1", "getL2", "warmGet", "enqueue", "flushL2"}

\* A call in flight: its step and key, the clock it read, the L2 entry it
\* fetched and the write it has to enqueue.
InCall == [pc: Steps, key: Keys, at: Nat, got: L2Entry \cup {None},
         id: Nat, due: Nat, ttl: Nat]
Idle == [pc |-> "idle"]

\* Both layers and the calls in hand are well formed (Cache.Lookup, Set,
\* Flush).
TypeOK ==
  /\ clock \in Nat
  /\ nextId \in Nat
  /\ l1 \in [Keys -> L1Entry \cup {None}]
  /\ l2 \in [Keys -> L2Entry \cup {None}]
  /\ queued \in SUBSET Write
  /\ call \in [Procs -> InCall \cup {Idle}]

Init ==
  /\ clock = 0
  /\ nextId = 0
  /\ l1 = [k \in Keys |-> None]
  /\ l2 = [k \in Keys |-> None]
  /\ queued = {}
  /\ call = [p \in Procs |-> Idle]

FreshL1(k, now) == l1[k] # None /\ now < l1[k].expires

\* L1 entry e stored with lifetime ttl counted from now.
L1Set(k, id, due, late, ttl, now) ==
  l1' = [l1 EXCEPT ![k] = [id |-> id, due |-> due, late |-> late, expires |-> now + ttl,
                           staleUntil |-> now + ttl + StaleTTL]]

L1Del(k) == l1' = [l1 EXCEPT ![k] = None]

Start(p, step, k) ==
  /\ call[p] = Idle
  /\ call' = [call EXCEPT ![p] = [pc |-> step, key |-> k, at |-> clock, got |-> None,
                                  id |-> 0, due |-> 0, ttl |-> 0]]

\* The call goes on at step, about key k, with the L2 entry g and the TTL t.
Advance(p, step, k, g, t) ==
  call' = [call EXCEPT ![p] = [@ EXCEPT !.pc = step, !.key = k, !.got = g, !.ttl = t]]

Return(p) == call' = [call EXCEPT ![p] = Idle]

-----------------------------------------------------------------------------
(* The environment: time, Redis expiry, L1 eviction. *)

\* Redis drops a key when its TTL has run out.
Tick ==
  /\ clock < MaxTime
  /\ clock' = clock + 1
  /\ l2' = [k \in Keys |-> IF l2[k] # None /\ l2[k].until <= clock + 1 THEN None ELSE l2[k]]
  /\ UNCHANGED <<nextId, l1, queued, call>>

Evict(k) ==
  /\ l1[k] # None
  /\ L1Del(k)
  /\ UNCHANGED <<clock, nextId, l2, queued, call>>

-----------------------------------------------------------------------------
(* Lookup *)

LookupCall(p, q) ==
  /\ Start(p, "probePos", <<q, "pos">>)
  /\ UNCHANGED <<clock, nextId, l1, l2, queued>>

\* An L1 probe: a fresh entry ends the call, a dead one is deleted lazily.
Probe(p, step) ==
  LET k == call[p].key IN
  /\ \/ /\ FreshL1(k, call[p].at)
        /\ Return(p)
     \/ /\ ~FreshL1(k, call[p].at)
        /\ Advance(p, step, <<k[1], "neg">>, None, 0)
  /\ l1' = IF l1[k] # None /\ call[p].at >= l1[k].staleUntil
             THEN [l1 EXCEPT ![k] = None]
             ELSE l1
  /\ UNCHANGED <<clock, nextId, l2, queued>>

ProbePos(p) == call[p].pc = "probePos" /\ Probe(p, "probeNeg")
ProbeNeg(p) == call[p].pc = "probeNeg" /\ Probe(p, "mget")

\* One MGET for both keys.  An error, a timeout or two missing keys end the
\* call with the stale entry, if any; the positive value is preferred.
MGet(p) ==
  LET q == call[p].key[1] IN
  /\ call[p].pc = "mget"
  /\ \/ Return(p)
     \/ /\ l2[<<q, "pos">>] # None
        /\ Advance(p, "warmPos", <<q, "pos">>, l2[<<q, "pos">>], CfgTTL)
     \/ /\ l2[<<q, "pos">>] = None
        /\ l2[<<q, "neg">>] # None
        /\ Advance(p, "delPos", <<q, "neg">>, l2[<<q, "neg">>], CfgNegTTL)
  /\ UNCHANGED <<clock, nextId, l1, l2, queued>>

\* Mutant: the lifetime is counted from the end of the round trip.
WarmLate(p) ==
  /\ L1Set(call[p].key, call[p].got.id, call[p].got.due, call[p].got.late, call[p].ttl, clock)
  /\ Return(p)
  /\ UNCHANGED <<clock, nextId, l2, queued>>

\* The entry fetched from L2 is stored in L1; its lifetime is counted from
\* the clock read at the start of the call.
Warm(p) ==
  /\ L1Set(call[p].key, call[p].got.id, call[p].got.due, call[p].got.late, call[p].ttl, call[p].at)
  /\ Return(p)
  /\ UNCHANGED <<clock, nextId, l2, queued>>

\* Lookup gives an L2 hit the configured lifetime.
WarmPos(p) == call[p].pc = "warmPos" /\ Warm(p)
WarmNeg(p) == call[p].pc = "warmNeg" /\ Warm(p)

\* A negative from L2 first removes the positive entry from L1.
DelPos(p) ==
  /\ call[p].pc = "delPos"
  /\ L1Del(<<call[p].key[1], "pos">>)
  /\ Advance(p, "warmNeg", call[p].key, call[p].got, call[p].ttl)
  /\ UNCHANGED <<clock, nextId, l2, queued>>

-----------------------------------------------------------------------------
(* Get and GetNegative *)

GetCall(p, k) ==
  /\ Start(p, "getL1", k)
  /\ UNCHANGED <<clock, nextId, l1, l2, queued>>

GetL1(p) ==
  LET k == call[p].key IN
  /\ call[p].pc = "getL1"
  /\ \/ FreshL1(k, call[p].at) /\ Return(p)
     \/ ~FreshL1(k, call[p].at) /\ Advance(p, "getL2", k, None, 0)
  /\ l1' = IF l1[k] # None /\ call[p].at >= l1[k].staleUntil
             THEN [l1 EXCEPT ![k] = None]
             ELSE l1
  /\ UNCHANGED <<clock, nextId, l2, queued>>

\* l2Get: GET and PTTL in one round trip; the remaining lifetime is what the
\* L1 entry will get.  An error, a missing key or a TTL that cannot be
\* trusted leaves the L1 alone.
GetL2(p) ==
  LET e == l2[call[p].key] IN
  /\ call[p].pc = "getL2"
  /\ \/ Return(p)
     \/ /\ e # None
        /\ Advance(p, "warmGet", call[p].key, e, e.until - clock)
  /\ UNCHANGED <<clock, nextId, l1, l2, queued>>

WarmGet(p) == call[p].pc = "warmGet" /\ Warm(p)

-----------------------------------------------------------------------------
(* Set and SetNegative *)

\* The lifetime an answer is stored with: a positive one is capped by
\* cache.ttl, a negative one without a TTL of its own gets negativeTTL.
Lifetime(kind, ttl) ==
  IF kind = "pos"
    THEN IF ttl > CfgTTL THEN CfgTTL ELSE ttl
    ELSE IF ttl = 0 THEN CfgNegTTL ELSE ttl

\* The entry goes to L1 at once, then to the L2 queue.
Store(p, k, ttl) ==
  LET life == Lifetime(k[2], ttl) IN
  /\ call[p] = Idle
  /\ nextId < MaxSets
  /\ life > 0
  /\ L1Set(k, nextId, clock + life, 0, life, clock)
  /\ call' = [call EXCEPT ![p] = [pc |-> "enqueue", key |-> k, at |-> clock, got |-> None,
                                  id |-> nextId, due |-> clock + life, ttl |-> life]]
  /\ nextId' = nextId + 1
  /\ UNCHANGED <<clock, l2, queued>>

Enqueue(p) ==
  /\ call[p].pc = "enqueue"
  /\ queued' = queued \cup {[key |-> call[p].key, id |-> call[p].id, at |-> call[p].at,
                             due |-> call[p].due, ttl |-> call[p].ttl]}
  /\ Return(p)
  /\ UNCHANGED <<clock, nextId, l1, l2>>

\* Dragonfly executes the SET: the key expires ttl later, however long the
\* write was under way.
Land(w) ==
  /\ queued' = queued \ {w}
  /\ l2' = [l2 EXCEPT ![w.key] = [id |-> w.id, due |-> w.due, late |-> clock - w.at, until |-> clock + w.ttl]]
  /\ UNCHANGED <<clock, nextId, l1, call>>

\* The SET or its pipeline fails.
Drop(w) ==
  /\ queued' = queued \ {w}
  /\ UNCHANGED <<clock, nextId, l1, l2, call>>

-----------------------------------------------------------------------------
(* FlushAll: the L1 first, then SCAN and DEL of every key in L2. *)

FlushL1(p) ==
  /\ Start(p, "flushL2", CHOOSE k \in Keys : TRUE)
  /\ l1' = [x \in Keys |-> None]
  /\ UNCHANGED <<clock, nextId, l2, queued>>

FlushL2(p) ==
  /\ call[p].pc = "flushL2"
  /\ l2' = [k \in Keys |-> None]
  /\ Return(p)
  /\ UNCHANGED <<clock, nextId, l1, queued>>

-----------------------------------------------------------------------------

Step(p) ==
  \/ \E q \in Questions : LookupCall(p, q)
  \/ ProbePos(p)
  \/ ProbeNeg(p)
  \/ MGet(p)
  \/ WarmPos(p)
  \/ DelPos(p)
  \/ WarmNeg(p)
  \/ \E k \in Keys : GetCall(p, k)
  \/ GetL1(p)
  \/ GetL2(p)
  \/ WarmGet(p)
  \/ \E k \in Keys, ttl \in TTLs : Store(p, k, ttl)
  \/ Enqueue(p)
  \/ FlushL1(p)
  \/ FlushL2(p)

Next ==
  \/ Tick
  \/ \E k \in Keys : Evict(k)
  \/ \E p \in Procs : Step(p)
  \/ \E w \in queued : Land(w) \/ Drop(w)

Spec == Init /\ [][Next]_vars

-----------------------------------------------------------------------------
(* Properties *)

CfgLife(k) == IF k[2] = "pos" THEN CfgTTL ELSE CfgNegTTL

\* An entry is never answered as fresh longer past the end of its own
\* lifetime than its L2 write was under way, plus one configured lifetime
\* (Lookup, Get, Set): copying it between the layers any number of times,
\* also while other writes of the key are still queued, does not add up.
OverstayBounded ==
  \A k \in Keys : l1[k] # None =>
    /\ l1[k].expires <= l1[k].due + l1[k].late + CfgLife(k)
    /\ l1[k].staleUntil <= l1[k].due + l1[k].late + CfgLife(k) + StaleTTL

(* Lifetimes across both layers: copying an entry between them adds at     *)
(* most one configured lifetime to the time its write was held up (Lookup, *)
(* Get, Set).                                                              *)
LifetimesSound ==
  /\ TypeOK
  /\ OverstayBounded
=============================================================================
