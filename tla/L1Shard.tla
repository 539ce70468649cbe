------------------------------ MODULE L1Shard ------------------------------
(***************************************************************************)
(* One shard of the in-process response cache (internal/cache/l1.go): a    *)
(* map from keys to entries, an insertion-order queue, and the CLOCK       *)
(* (second chance) eviction that keeps the map within the shard's cap.     *)
(*                                                                         *)
(* Goroutines share the shard.  The map and the queue are guarded by an    *)
(* RWMutex: a read section is one step that needs no writer inside, a      *)
(* write section is either one step or a run of steps under `lock'.  What  *)
(* get does after RUnlock (set the referenced bit, look at the expiry,     *)
(* ask for the lazy delete) happens outside the lock, on the entry it      *)
(* holds a pointer to: an entry has an identity, so that a bit stored into *)
(* an entry that has left the map is lost, as it is in the code.           *)
(***************************************************************************)
EXTENDS Naturals, Sequences, FiniteSets

CONSTANTS
  L1Keys,    \* l1Key: question hash and positive/negative variant
  L1Procs,   \* goroutines calling get, set, del and flush
  Cap,       \* per-shard entry cap (l1Cache.cap), 0 = unlimited
  TTLs,      \* TTLs a caller may ask for
  StaleTTL,  \* serve-stale window (l1Cache.staleTTL)
  MaxTime,   \* bound: last tick of the clock
  MaxSets,   \* bound: number of entries ever allocated
  NoProc,    \* the lock is free
  Absent     \* the map holds no entry for the key

ASSUME KeysAssumption == IsFiniteSet(L1Keys)
ASSUME CapAssumption == Cap \in Nat
ASSUME TimeAssumption ==
  /\ StaleTTL \in Nat
  /\ MaxTime \in Nat
  /\ MaxSets \in Nat
  /\ TTLs \subseteq Nat
ASSUME NamesAssumption == NoProc \notin L1Procs

VARIABLES
  clock,  \* time.Now()
  m,      \* l1Shard.m
  queue,  \* l1Shard.queue
  scan,   \* slots compact has yet to look at
  lock,   \* holder of l1Shard.mu, write side
  nextId, \* entries allocated so far
  call    \* what each goroutine is doing

L1Vars == <<clock, m, queue, scan, lock, nextId, call>>

Entry == [id: Nat, expires: Nat, staleUntil: Nat, referenced: BOOLEAN]

ASSUME AbsentAssumption == Absent \notin Entry

\* A call in flight: its step, its key, the time the caller read, the TTL
\* asked for by a set, and the entry a get holds a pointer to.  Only the
\* immutable fields of that copy are looked at.
Busy == [pc: {"get", "found", "del", "set", "evict", "compact"},
         key: L1Keys, at: Nat, ttl: Nat, e: Entry \cup {Absent}]

L1Idle == [pc |-> "idle"]

Live == {k \in L1Keys : m[k] # Absent}

\* Entries, eviction queue and calls in hand are well formed (l1Shard).
L1TypeOK ==
  /\ clock \in Nat
  /\ m \in [L1Keys -> Entry \cup {Absent}]
  /\ queue \in Seq(L1Keys)
  /\ scan \in Seq(L1Keys)
  /\ lock \in L1Procs \cup {NoProc}
  /\ nextId \in Nat
  /\ call \in [L1Procs -> Busy \cup {L1Idle}]

L1Init ==
  /\ clock = 0
  /\ m = [k \in L1Keys |-> Absent]
  /\ queue = <<>>
  /\ scan = <<>>
  /\ lock = NoProc
  /\ nextId = 0
  /\ call = [p \in L1Procs |-> L1Idle]

L1Tick ==
  /\ clock < MaxTime
  /\ clock' = clock + 1
  /\ UNCHANGED <<m, queue, scan, lock, nextId, call>>

L1Return(p) == call' = [call EXCEPT ![p] = L1Idle]

-----------------------------------------------------------------------------
(* get *)

\* The caller reads the clock once and passes it down (Lookup, Get, Fresh).
GetCall(p, k) ==
  /\ call[p] = L1Idle
  /\ call' = [call EXCEPT ![p] = [pc |-> "get", key |-> k, at |-> clock,
                                  ttl |-> 0, e |-> Absent]]
  /\ UNCHANGED <<clock, m, queue, scan, lock, nextId>>

\* RLock, one map lookup, RUnlock.
GetLookup(p) ==
  /\ call[p].pc = "get"
  /\ lock = NoProc
  /\ \/ /\ m[call[p].key] = Absent
        /\ L1Return(p)
     \/ /\ m[call[p].key] # Absent
        /\ call' = [call EXCEPT ![p].pc = "found",
                                ![p].e = [m[call[p].key] EXCEPT !.referenced = FALSE]]
  /\ UNCHANGED <<clock, m, queue, scan, lock, nextId>>

\* referenced.Store(true) on the entry found, with no lock held; then the
\* entry's expiry decides between a hit (fresh or stale) and a lazy delete.
GetMark(p) ==
  LET k == call[p].key
      e == call[p].e
  IN /\ call[p].pc = "found"
     /\ m' = IF m[k] # Absent /\ m[k].id = e.id
               THEN [m EXCEPT ![k].referenced = TRUE]
               ELSE m
     /\ \/ /\ call[p].at < e.expires \/ call[p].at < e.staleUntil
           /\ L1Return(p)
        \/ /\ call[p].at >= e.expires /\ call[p].at >= e.staleUntil
           /\ call' = [call EXCEPT ![p].pc = "del"]
     /\ UNCHANGED <<clock, queue, scan, lock, nextId>>

\* The lazy delete: del takes the lock again and removes whatever the key
\* maps to by then.  The queue slot stays behind.
GetDel(p) ==
  /\ call[p].pc = "del"
  /\ lock = NoProc
  /\ m' = [m EXCEPT ![call[p].key] = Absent]
  /\ L1Return(p)
  /\ UNCHANGED <<clock, queue, scan, lock, nextId>>

-----------------------------------------------------------------------------
(* set *)

\* A TTL that is not positive stores nothing.
SetCall(p, k, ttl) ==
  /\ call[p] = L1Idle
  /\ ttl > 0
  /\ nextId < MaxSets
  /\ call' = [call EXCEPT ![p] = [pc |-> "set", key |-> k, at |-> clock,
                                  ttl |-> ttl, e |-> Absent]]
  /\ UNCHANGED <<clock, m, queue, scan, lock, nextId>>

NewEntry(p) ==
  [id |-> nextId, expires |-> call[p].at + call[p].ttl,
   staleUntil |-> call[p].at + call[p].ttl + StaleTTL, referenced |-> FALSE]

\* A key that is in the map keeps its queue position; an unlimited shard
\* keeps no queue.
SetInPlace(p) ==
  /\ call[p].pc = "set"
  /\ lock = NoProc
  /\ Cap = 0 \/ m[call[p].key] # Absent
  /\ m' = [m EXCEPT ![call[p].key] = NewEntry(p)]
  /\ nextId' = nextId + 1
  /\ L1Return(p)
  /\ UNCHANGED <<clock, queue, scan, lock>>

\* A new key takes a slot at the back of the queue and, still under the
\* lock, starts the eviction loop.
SetInsert(p) ==
  /\ call[p].pc = "set"
  /\ lock = NoProc
  /\ Cap > 0
  /\ m[call[p].key] = Absent
  /\ m' = [m EXCEPT ![call[p].key] = NewEntry(p)]
  /\ queue' = Append(queue, call[p].key)
  /\ nextId' = nextId + 1
  /\ lock' = p
  /\ call' = [call EXCEPT ![p].pc = "evict"]
  /\ UNCHANGED <<clock, scan>>

OverCap == Cardinality(Live) > Cap

\* The head slot belongs to a key no longer in the map.
DropDead(k) ==
  /\ m[k] = Absent
  /\ queue' = Tail(queue)
  /\ m' = m

\* Mutants: the spared key is not queued again; it stays where it is, bit and all.
SpareUnqueued(k) ==
  /\ m[k] # Absent
  /\ m[k].referenced
  /\ m' = [m EXCEPT ![k].referenced = FALSE]
  /\ queue' = Tail(queue)

SpareStuck(k) ==
  /\ m[k] # Absent
  /\ m[k].referenced
  /\ m' = m
  /\ queue' = queue

\* The second chance: a referenced entry loses its bit and goes to the back.
Spare(k) ==
  /\ m[k] # Absent
  /\ m[k].referenced
  /\ m' = [m EXCEPT ![k].referenced = FALSE]
  /\ queue' = Append(Tail(queue), k)

Discard(k) ==
  /\ m[k] # Absent
  /\ ~m[k].referenced
  /\ m' = [m EXCEPT ![k] = Absent]
  /\ queue' = Tail(queue)

\* One iteration of evictToCap.
EvictStep(p) ==
  /\ call[p].pc = "evict"
  /\ OverCap
  /\ queue # <<>>
  /\ DropDead(Head(queue)) \/ Spare(Head(queue)) \/ Discard(Head(queue))
  /\ UNCHANGED <<clock, scan, lock, nextId, call>>

LoopOver(p) ==
  /\ call[p].pc = "evict"
  /\ ~OverCap \/ queue = <<>>

\* The loop ends with a queue short enough: set returns.
SetDone(p) ==
  /\ LoopOver(p)
  /\ Len(queue) <= 2 * Cap
  /\ lock' = NoProc
  /\ L1Return(p)
  /\ UNCHANGED <<clock, m, queue, scan, nextId>>

\* An overlong queue is rebuilt: compact walks the old slots and appends to
\* the new queue those whose key is in the map.
CompactStart(p) ==
  /\ LoopOver(p)
  /\ Len(queue) > 2 * Cap
  /\ scan' = queue
  /\ queue' = <<>>
  /\ call' = [call EXCEPT ![p].pc = "compact"]
  /\ UNCHANGED <<clock, m, lock, nextId>>

CompactStep(p) ==
  /\ call[p].pc = "compact"
  /\ scan # <<>>
  /\ queue' = IF m[Head(scan)] # Absent THEN Append(queue, Head(scan)) ELSE queue
  /\ scan' = Tail(scan)
  /\ UNCHANGED <<clock, m, lock, nextId, call>>

CompactDone(p) ==
  /\ call[p].pc = "compact"
  /\ scan = <<>>
  /\ lock' = NoProc
  /\ L1Return(p)
  /\ UNCHANGED <<clock, m, queue, scan, nextId>>

-----------------------------------------------------------------------------
(* del (a fresh negative from L2 supersedes the positive entry) and flush *)

Del(p, k) ==
  /\ call[p] = L1Idle
  /\ lock = NoProc
  /\ m' = [m EXCEPT ![k] = Absent]
  /\ UNCHANGED <<clock, queue, scan, lock, nextId, call>>

Flush(p) ==
  /\ call[p] = L1Idle
  /\ lock = NoProc
  /\ m' = [k \in L1Keys |-> Absent]
  /\ queue' = <<>>
  /\ UNCHANGED <<clock, scan, lock, nextId, call>>

-----------------------------------------------------------------------------

Evict(p) ==
  \/ EvictStep(p)
  \/ SetDone(p)
  \/ CompactStart(p)
  \/ CompactStep(p)
  \/ CompactDone(p)

L1Step(p) ==
  \/ \E k \in L1Keys : GetCall(p, k)
  \/ GetLookup(p)
  \/ GetMark(p)
  \/ GetDel(p)
  \/ \E k \in L1Keys, ttl \in TTLs : SetCall(p, k, ttl)
  \/ SetInPlace(p)
  \/ SetInsert(p)
  \/ Evict(p)
  \/ \E k \in L1Keys : Del(p, k)
  \/ Flush(p)

L1Next == L1Tick \/ \E p \in L1Procs : L1Step(p)

L1Spec == L1Init /\ [][L1Next]_L1Vars

\* The goroutine that holds the shard lock runs its loop on: nothing in the
\* loop blocks.
L1FairSpec == L1Spec /\ \A p \in L1Procs : WF_L1Vars(Evict(p))

-----------------------------------------------------------------------------
(* Properties *)

\* Outside the write section a limited shard holds at most Cap entries
\* (newL1, evictToCap): sets, lazy deletes, flushes and late referenced bits
\* in any order never leave it above the cap.
CapacityBound ==
  Cap > 0 /\ lock = NoProc => Cardinality(Live) <= Cap

HasSlot(k, s) == \E i \in DOMAIN s : s[i] = k

\* Every key in the map of a limited shard has a slot in the eviction queue,
\* so the eviction loop can always find it (set, evictToCap, compact).  A
\* live key without a slot would be unevictable for ever.
LiveKeysQueued ==
  Cap > 0 => \A k \in Live : HasSlot(k, queue) \/ HasSlot(k, scan)

\* evictToCap terminates although concurrent gets that found their entry
\* before the lock was taken may still set referenced bits during the loop.
EvictionTerminates == \A p \in L1Procs : (lock = p) ~> (lock # p)

(* The shard as a whole: well formed, never over its cap while the lock is *)
(* free, and no live key out of the eviction loop's reach (set,            *)
(* evictToCap, compact).                                                   *)
ShardSound ==
  /\ L1TypeOK
  /\ CapacityBound
  /\ LiveKeysQueued
=============================================================================
