--------------------------- MODULE L1ShardProofs ---------------------------
(***************************************************************************)
(* Theorems about L1Shard, for every cap, every finite set of keys and any *)
(* number of goroutines.                                                   *)
(*                                                                         *)
(* CapacityBound is not inductive: that the eviction loop can bring the    *)
(* map down to the cap rests on LiveKeysQueued (a loop that runs out of    *)
(* queue has run out of live keys), and LiveKeysQueued rests on the lock   *)
(* belonging to the one goroutine inside the write section.                *)
(***************************************************************************)
EXTENDS L1Shard, FiniteSetTheorems, TLAPS

\* The write lock is held by exactly the goroutine inside set's write
\* section (evictToCap or compact).
LockOwner ==
  \A p \in L1Procs : call[p].pc \in {"evict", "compact"} <=> lock = p

\* compact's unread part is empty unless compact runs, and a compacting
\* goroutine has finished evicting.
Compacting ==
  /\ \A p \in L1Procs : lock = p /\ call[p].pc # "compact" => scan = <<>>
  /\ lock = NoProc => scan = <<>>
  /\ \A p \in L1Procs : call[p].pc = "compact" => Cardinality(Live) <= Cap

\* The inductive strengthening of CapacityBound.
IInv ==
  /\ L1TypeOK
  /\ LockOwner
  /\ Compacting
  /\ LiveKeysQueued
  /\ CapacityBound

-----------------------------------------------------------------------------
(* Lemmas *)

\* The live keys are finitely many, and a map that loses keys does not grow.
LEMMA LiveFinite ==
  ASSUME L1TypeOK
  PROVE  IsFiniteSet(Live) /\ Cardinality(Live) \in Nat
BY KeysAssumption, FS_Subset, FS_CardinalityType DEF Live

\* Fewer live keys are not more of them.
LEMMA LiveShrinks ==
  ASSUME L1TypeOK, Live' \subseteq Live
  PROVE  Cardinality(Live') \in Nat /\ Cardinality(Live') <= Cardinality(Live)
<1>1. Live \subseteq L1Keys /\ Live' \subseteq L1Keys
  BY DEF Live
<1>2. IsFiniteSet(Live)
  BY LiveFinite
<1>3. IsFiniteSet(Live') /\ Cardinality(Live') <= Cardinality(Live)
  BY <1>2, FS_Subset
<1> QED
  BY <1>3, FS_CardinalityType

\* A goroutine in a call has a well-formed call record.
LEMMA BusyCall ==
  ASSUME L1TypeOK, NEW p \in L1Procs, call[p].pc # "idle"
  PROVE  call[p] \in Busy
BY DEF L1TypeOK, L1Idle

\* Which keys have a slot after Append and after Tail.
LEMMA AppendSlot ==
  ASSUME NEW s \in Seq(L1Keys), NEW x \in L1Keys, NEW k, HasSlot(k, s) \/ k = x
  PROVE  HasSlot(k, Append(s, x))
<1>1. CASE HasSlot(k, s)
  BY <1>1 DEF HasSlot
<1>2. CASE k = x
  <2>1. Len(s) + 1 \in DOMAIN Append(s, x) /\ Append(s, x)[Len(s) + 1] = x
    OBVIOUS
  <2> QED
    BY <1>2, <2>1 DEF HasSlot
<1> QED
  BY <1>1, <1>2

\* A key that is not at the head is queued behind it.
LEMMA TailSlot ==
  ASSUME NEW s \in Seq(L1Keys), s # <<>>, NEW k, HasSlot(k, s), k # Head(s)
  PROVE  HasSlot(k, Tail(s))
<1>1. PICK i \in DOMAIN s : s[i] = k
  BY DEF HasSlot
<1>2. i \in Nat /\ i # 1 /\ i - 1 \in DOMAIN Tail(s) /\ Tail(s)[i - 1] = s[i]
  BY <1>1
<1> QED
  BY <1>1, <1>2 DEF HasSlot

\* An empty queue holds no key.
LEMMA EmptySlot == \A k : ~HasSlot(k, <<>>)
BY DEF HasSlot

\* Every step keeps the type invariant.
LEMMA TypeStep ==
  ASSUME L1TypeOK, [L1Next]_L1Vars
  PROVE  L1TypeOK'
<1> USE DEF L1TypeOK
<1>1. CASE UNCHANGED L1Vars
  BY <1>1 DEF L1Vars
<1>2. CASE L1Tick
  BY <1>2 DEF L1Tick
<1>3. ASSUME NEW p \in L1Procs, L1Step(p)
      PROVE  L1TypeOK'
  <2>1. ASSUME NEW k \in L1Keys, GetCall(p, k)
        PROVE  L1TypeOK'
    BY <2>1 DEF GetCall, Busy
  <2>2. CASE GetLookup(p)
    <3>1. call[p] \in Busy
      BY <2>2, BusyCall DEF GetLookup
    <3>2. CASE m[call[p].key] = Absent
      BY <2>2, <3>2 DEF GetLookup, L1Return
    <3>3. CASE m[call[p].key] # Absent
      <4>1. m[call[p].key] \in Entry
        BY <3>1, <3>3 DEF Busy
      <4>2. [m[call[p].key] EXCEPT !.referenced = FALSE] \in Entry
        BY <4>1 DEF Entry
      <4>3. \A e \in Entry : [call[p] EXCEPT !.pc = "found", !.e = e] \in Busy
        BY <3>1 DEF Busy
      <4> QED
        BY <2>2, <3>1, <3>3, <4>2, <4>3, ZenonT(60) DEF GetLookup
    <3> QED
      BY <3>2, <3>3
  <2>3. CASE GetMark(p)
    <3>1. call[p] \in Busy
      BY <2>3, BusyCall DEF GetMark
    <3>2. \A k \in L1Keys : m[k] # Absent => [m[k] EXCEPT !.referenced = TRUE] \in Entry
      BY DEF Entry
    <3>3. m' \in [L1Keys -> Entry \cup {Absent}]
      BY <2>3, <3>1, <3>2 DEF GetMark, Busy
    <3>4. [call[p] EXCEPT !.pc = "del"] \in Busy
      BY <3>1 DEF Busy
    <3>5. call' \in [L1Procs -> Busy \cup {L1Idle}]
      BY <2>3, <3>4 DEF GetMark, L1Return
    <3> QED
      BY <2>3, <3>3, <3>5 DEF GetMark
  <2>4. CASE GetDel(p)
    BY <2>4 DEF GetDel, L1Return
  <2>5. ASSUME NEW k \in L1Keys, NEW ttl \in TTLs, SetCall(p, k, ttl)
        PROVE  L1TypeOK'
    BY <2>5, TimeAssumption DEF SetCall, Busy
  <2>6. CASE call[p].pc = "set"
    <3>1. call[p] \in Busy
      BY <2>6, BusyCall
    <3>2. NewEntry(p) \in Entry
      BY <3>1, TimeAssumption DEF NewEntry, Entry, Busy
    <3>3. [call[p] EXCEPT !.pc = "evict"] \in Busy /\ call[p].key \in L1Keys
      BY <3>1 DEF Busy
    <3>4. CASE SetInPlace(p)
      BY <3>2, <3>3, <3>4 DEF SetInPlace, L1Return
    <3>5. CASE SetInsert(p)
      BY <3>2, <3>3, <3>5 DEF SetInsert
    <3> QED
      BY <1>3, <2>1, <2>2, <2>3, <2>4, <2>5, <2>6, <3>4, <3>5
      DEF L1Step, Evict, EvictStep, SetDone, CompactStart, CompactStep, CompactDone,
          LoopOver, Del, Flush, L1Idle
  <2>7. CASE EvictStep(p)
    <3>1. queue # <<>> /\ Head(queue) \in L1Keys /\ Tail(queue) \in Seq(L1Keys)
      BY <2>7 DEF EvictStep
    <3>2. \A k \in L1Keys : m[k] # Absent => [m[k] EXCEPT !.referenced = FALSE] \in Entry
      BY DEF Entry
    <3>3. queue' \in {Tail(queue), Append(Tail(queue), Head(queue))}
      BY <2>7 DEF EvictStep, DropDead, Spare, Discard
    <3>3x. \A s \in Seq(L1Keys), k \in L1Keys : Append(s, k) \in Seq(L1Keys)
      OBVIOUS
    <3>3y. Append(Tail(queue), Head(queue)) \in Seq(L1Keys)
      BY <3>1, <3>3x
    <3>3a. queue' \in Seq(L1Keys)
      BY <3>1, <3>3, <3>3y
    <3>4. m' \in [L1Keys -> Entry \cup {Absent}]
      BY <2>7, <3>1, <3>2 DEF EvictStep, DropDead, Spare, Discard
    <3> QED
      BY <2>7, <3>3a, <3>4 DEF EvictStep
  <2>8. CASE SetDone(p)
    BY <2>8 DEF SetDone, L1Return
  <2>9. CASE CompactStart(p)
    <3>1. [call[p] EXCEPT !.pc = "compact"] \in Busy
      BY <2>9, BusyCall DEF CompactStart, LoopOver, Busy
    <3> QED
      BY <2>9, <3>1 DEF CompactStart
  <2>10. CASE CompactStep(p)
    BY <2>10 DEF CompactStep
  <2>11. CASE CompactDone(p)
    BY <2>11 DEF CompactDone, L1Return
  <2>12. ASSUME NEW k \in L1Keys, Del(p, k)
         PROVE  L1TypeOK'
    BY <2>12 DEF Del
  <2>13. CASE Flush(p)
    BY <2>13 DEF Flush
  <2> QED
    BY <1>3, <2>1, <2>2, <2>3, <2>4, <2>5, <2>6, <2>7, <2>8, <2>9, <2>10, <2>11,
       <2>12, <2>13 DEF L1Step, Evict, SetInPlace, SetInsert
<1> QED
  BY <1>1, <1>2, <1>3 DEF L1Next

\* The shard's state is always well formed, whatever goroutines do to it.
THEOREM TypeCorrect == L1Spec => []L1TypeOK
<1>1. L1Init => L1TypeOK
  BY DEF L1Init, L1TypeOK
<1> QED
  BY <1>1, TypeStep, PTL DEF L1Spec

-----------------------------------------------------------------------------
(* The inductive invariant *)

\* A goroutine inside the write section is never joined by another one.
LEMMA LockStep ==
  ASSUME L1TypeOK, LockOwner, [L1Next]_L1Vars
  PROVE  LockOwner'
<1> USE DEF L1TypeOK, LockOwner
<1>1. CASE UNCHANGED L1Vars
  BY <1>1 DEF L1Vars
<1>2. CASE L1Tick
  BY <1>2 DEF L1Tick
<1>3. ASSUME NEW p \in L1Procs, L1Step(p)
      PROVE  LockOwner'
  <2>1. \A q \in L1Procs : q # p => call'[q] = call[q]
    BY <1>3 DEF L1Step, GetCall, GetLookup, GetMark, GetDel, SetCall, SetInPlace,
       SetInsert, Evict, EvictStep, SetDone, CompactStart, CompactStep,
       CompactDone, Del, Flush, L1Return
  <2>2. call[p] = L1Idle => call[p].pc = "idle"
    BY DEF L1Idle
  <2>3. CASE lock' = lock /\ (call[p].pc \in {"evict", "compact"} <=> call'[p].pc \in {"evict", "compact"})
    BY <2>1, <2>3
  <2>4. CASE SetInsert(p)
    BY <2>1, <2>4, NamesAssumption, BusyCall DEF SetInsert, Busy
  <2>5. CASE SetDone(p) \/ CompactDone(p)
    BY <2>1, <2>5, NamesAssumption DEF SetDone, LoopOver, CompactDone, L1Return, L1Idle
  <2>6. CASE CompactStart(p)
    BY <2>3, <2>6, BusyCall DEF CompactStart, LoopOver, Busy
  <2>7. CASE GetLookup(p) \/ GetMark(p)
    BY <2>3, <2>7, BusyCall DEF GetLookup, GetMark, L1Return, L1Idle, Busy
  <2>8. CASE GetDel(p) \/ SetInPlace(p)
    BY <2>3, <2>8 DEF GetDel, SetInPlace, L1Return, L1Idle
  <2>9. CASE EvictStep(p) \/ CompactStep(p) \/ Flush(p) \/ \E k \in L1Keys : Del(p, k)
    BY <2>3, <2>9 DEF EvictStep, CompactStep, Flush, Del
  <2>10. CASE \E k \in L1Keys : GetCall(p, k)
    BY <2>2, <2>3, <2>10 DEF GetCall
  <2>11. CASE \E k \in L1Keys, ttl \in TTLs : SetCall(p, k, ttl)
    BY <2>2, <2>3, <2>11 DEF SetCall
  <2> QED
    BY <1>3, <2>4, <2>5, <2>6, <2>7, <2>8, <2>9, <2>10, <2>11 DEF L1Step, Evict
<1> QED
  BY <1>1, <1>2, <1>3 DEF L1Next

\* Setting the referenced bit neither adds nor removes an entry.
LEMMA MarkLive ==
  ASSUME L1TypeOK, NEW p \in L1Procs, GetMark(p)
  PROVE  Live' = Live
<1> USE DEF L1TypeOK
<1>1. call[p].key \in L1Keys
  BY BusyCall DEF GetMark, Busy
<1>2. CASE m' = m
  BY <1>2 DEF Live
<1>3. CASE m' = [m EXCEPT ![call[p].key].referenced = TRUE] /\ m[call[p].key] # Absent
  <2>1. [m[call[p].key] EXCEPT !.referenced = TRUE] \in Entry
    BY <1>1, <1>3 DEF Entry
  <2>2. \A k \in L1Keys : m'[k] = Absent <=> m[k] = Absent
    BY <1>1, <1>3, <2>1, AbsentAssumption
  <2> QED
    BY <2>2 DEF Live
<1> QED
  BY <1>2, <1>3 DEF GetMark

\* Except for a set that inserts, no step makes a key live.
LEMMA LiveStep ==
  ASSUME L1TypeOK, NEW p \in L1Procs, L1Step(p), ~SetInsert(p), Cap > 0
  PROVE  Live' \subseteq Live
<1> USE DEF L1TypeOK, Live
<1>1. CASE GetMark(p)
  BY <1>1, MarkLive
<1>2. CASE EvictStep(p)
  <2>1. Head(queue) \in L1Keys
    BY <1>2 DEF EvictStep
  <2> QED
    BY <1>2, <2>1 DEF EvictStep, DropDead, Spare, Discard
<1>3. CASE SetInPlace(p)
  BY <1>3, CapAssumption DEF SetInPlace
<1>4. CASE GetDel(p) \/ Flush(p) \/ \E k \in L1Keys : Del(p, k)
  BY <1>4 DEF GetDel, Flush, Del
<1>5. CASE m' = m
  BY <1>5
<1> QED
  BY <1>1, <1>2, <1>3, <1>4, <1>5
  DEF L1Step, Evict, GetCall, GetLookup, SetCall, SetDone, CompactStart, CompactStep,
      CompactDone

\* No step takes the last slot of a key that stays live.
LEMMA QueueStep ==
  ASSUME L1TypeOK, LockOwner, Compacting, LiveKeysQueued, [L1Next]_L1Vars, Cap > 0,
         NEW k \in Live'
  PROVE  HasSlot(k, queue') \/ HasSlot(k, scan')
<1> USE DEF L1TypeOK
<1>0. k \in L1Keys
  BY DEF Live
<1>1. CASE k \in Live
  <2>1. HasSlot(k, queue) \/ HasSlot(k, scan)
    BY <1>1 DEF LiveKeysQueued
  <2>2. CASE UNCHANGED <<queue, scan>>
    BY <2>1, <2>2
  <2>3. ASSUME NEW p \in L1Procs, L1Step(p), ~UNCHANGED <<queue, scan>>
        PROVE  HasSlot(k, queue') \/ HasSlot(k, scan')
    <3>1. CASE SetInsert(p)
      <4>1. call[p].key \in L1Keys
        BY <3>1, BusyCall DEF SetInsert, Busy
      <4> QED
        BY <2>1, <3>1, <4>1, AppendSlot DEF SetInsert
    <3>2. CASE EvictStep(p)
      <4>1. /\ queue \in Seq(L1Keys) /\ queue # <<>>
            /\ Head(queue) \in L1Keys /\ Tail(queue) \in Seq(L1Keys)
            /\ scan' = scan
        BY <3>2 DEF EvictStep
      <4>2. CASE k # Head(queue)
        <5>1. HasSlot(k, Tail(queue)) \/ HasSlot(k, scan)
          BY <2>1, <4>1, <4>2, TailSlot
        <5>2. queue' \in {Tail(queue), Append(Tail(queue), Head(queue))}
          BY <3>2 DEF EvictStep, DropDead, Spare, Discard
        <5> QED
          BY <4>1, <5>1, <5>2, AppendSlot
      <4>3. CASE k = Head(queue)
        <5>1. m'[k] # Absent /\ m[k] # Absent
          BY <1>1 DEF Live
        <5>2. Spare(k)
          BY <3>2, <4>3, <5>1 DEF EvictStep, DropDead, Discard
        <5> QED
          BY <4>1, <4>3, <5>2, AppendSlot DEF Spare
      <4> QED
        BY <4>2, <4>3
    <3>3. CASE CompactStart(p)
      <4>1. scan = <<>>
        BY <3>3 DEF CompactStart, LoopOver, LockOwner, Compacting
      <4> QED
        BY <2>1, <3>3, <4>1, EmptySlot DEF CompactStart
    <3>4. CASE CompactStep(p)
      <4>1. /\ scan # <<>> /\ Head(scan) \in L1Keys /\ Tail(scan) \in Seq(L1Keys)
            /\ scan' = Tail(scan)
            /\ queue' = IF m[Head(scan)] # Absent THEN Append(queue, Head(scan)) ELSE queue
        BY <3>4 DEF CompactStep
      <4>2. CASE HasSlot(k, queue) \/ k = Head(scan)
        BY <1>1, <4>1, <4>2, AppendSlot DEF Live
      <4>3. CASE HasSlot(k, scan) /\ k # Head(scan)
        BY <4>1, <4>3, TailSlot
      <4> QED
        BY <2>1, <4>2, <4>3
    <3>5. CASE Flush(p)
      BY <3>5 DEF Flush, Live
    <3> QED
      BY <2>3, <3>1, <3>2, <3>3, <3>4, <3>5
      DEF L1Step, Evict, GetCall, GetLookup, GetMark, GetDel, SetCall, SetInPlace,
          SetDone, CompactDone, Del
  <2> QED
    BY <2>2, <2>3 DEF L1Next, L1Tick, L1Vars
<1>2. CASE k \notin Live
  <2>1. PICK p \in L1Procs : SetInsert(p)
    BY <1>2, LiveStep DEF L1Next, L1Tick, L1Vars, Live
  <2>2. call[p].key \in L1Keys
    BY <2>1, BusyCall DEF SetInsert, Busy
  <2>3. k = call[p].key
    BY <1>0, <1>2, <2>1 DEF SetInsert, Live
  <2> QED
    BY <2>1, <2>2, <2>3, AppendSlot DEF SetInsert
<1> QED
  BY <1>1, <1>2

\* compact starts from a map within the cap, and what it has yet to read is
\* gone when it returns.
LEMMA CompactingStep ==
  ASSUME L1TypeOK, LockOwner, Compacting, [L1Next]_L1Vars
  PROVE  Compacting'
<1> USE DEF L1TypeOK, LockOwner, Compacting
<1>1. CASE UNCHANGED L1Vars
  BY <1>1 DEF L1Vars, Live
<1>2. CASE L1Tick
  BY <1>2 DEF L1Tick, Live
<1>3. ASSUME NEW p \in L1Procs, L1Step(p)
      PROVE  Compacting'
  <2> DEFINE Scanned(q) == lock' = q /\ call'[q].pc # "compact" => scan' = <<>>
             Small(q) == call'[q].pc = "compact" => Cardinality(Live') <= Cap
  <2>1. \A q \in L1Procs : q # p => call'[q] = call[q]
    BY <1>3 DEF L1Step, GetCall, GetLookup, GetMark, GetDel, SetCall, SetInPlace,
       SetInsert, Evict, EvictStep, SetDone, CompactStart, CompactStep,
       CompactDone, Del, Flush, L1Return
  <2>2. LockOwner'
    BY <1>3, LockStep DEF L1Next
  <2>3. CASE CompactStart(p)
    <3>1. ~OverCap
      BY <2>3, CapAssumption DEF CompactStart, LoopOver
    <3>2. Cardinality(Live') <= Cap
      BY <2>3, <3>1, LiveFinite, CapAssumption DEF CompactStart, OverCap, Live
    <3>3. lock = p /\ lock' = p /\ call'[p].pc = "compact"
      BY <2>3, BusyCall DEF CompactStart, LoopOver, Busy
    <3> QED
      BY <2>1, <2>2, <3>2, <3>3, NamesAssumption
  <2>4. CASE CompactStep(p)
    BY <2>4, NamesAssumption DEF CompactStep, Live
  <2>5. CASE CompactDone(p)
    <3>1. lock = p /\ lock' = NoProc /\ scan' = <<>>
      BY <2>5 DEF CompactDone
    <3> QED
      BY <2>2, <3>1, NamesAssumption
  <2>6. CASE ~CompactStart(p) /\ ~CompactStep(p) /\ ~CompactDone(p)
    <3>1. scan' = scan
      BY <1>3, <2>6 DEF L1Step, GetCall, GetLookup, GetMark, GetDel, SetCall,
         SetInPlace, SetInsert, Evict, EvictStep, SetDone, Del, Flush
    <3>2. call'[p].pc # "compact"
      <4>1. CASE \E k \in L1Keys : GetCall(p, k)
        BY <4>1 DEF GetCall
      <4>2. CASE \E k \in L1Keys, ttl \in TTLs : SetCall(p, k, ttl)
        BY <4>2 DEF SetCall
      <4>3. CASE GetLookup(p) \/ GetMark(p) \/ SetInsert(p)
        BY <4>3, BusyCall DEF GetLookup, GetMark, SetInsert, L1Return, L1Idle, Busy
      <4>4. CASE GetDel(p) \/ SetInPlace(p) \/ SetDone(p)
        BY <4>4 DEF GetDel, SetInPlace, SetDone, L1Return, L1Idle
      <4>5. CASE EvictStep(p)
        BY <4>5 DEF EvictStep
      <4>6. CASE Flush(p) \/ \E k \in L1Keys : Del(p, k)
        BY <4>6 DEF Flush, Del, L1Idle
      <4> QED
        BY <1>3, <2>6, <4>1, <4>2, <4>3, <4>4, <4>5, <4>6 DEF L1Step, Evict
    <3>3. CASE lock = NoProc
      BY <2>1, <3>1, <3>2, <3>3, NamesAssumption
    <3>4. CASE lock = p
      <4>1. EvictStep(p) \/ SetDone(p)
        BY <1>3, <2>6, <3>4, NamesAssumption
        DEF L1Step, Evict, GetCall, GetLookup, GetMark, GetDel, SetCall, SetInPlace,
            SetInsert, Del, Flush, L1Idle
      <4>2. scan = <<>>
        BY <3>4, <4>1 DEF EvictStep, SetDone, LoopOver
      <4>3. \A q \in L1Procs : call[q].pc # "compact"
        BY <3>4, <4>1 DEF EvictStep, SetDone, LoopOver
      <4> QED
        BY <2>1, <3>1, <3>2, <4>2, <4>3
    <3>5. CASE lock # NoProc /\ lock # p
      <4>1. Live' = Live /\ lock' = lock
        <5>1. CASE GetMark(p)
          BY <5>1, MarkLive DEF GetMark
        <5> QED
          BY <1>3, <2>6, <3>5, <5>1
          DEF L1Step, Evict, GetCall, GetLookup, GetDel, SetCall, SetInPlace,
              SetInsert, EvictStep, SetDone, LoopOver, Del, Flush, Live
      <4> QED
        BY <2>1, <3>1, <3>2, <3>5, <4>1
    <3> QED
      BY <3>3, <3>4, <3>5
  <2> QED
    BY <2>3, <2>4, <2>5, <2>6
<1> QED
  BY <1>1, <1>2, <1>3 DEF L1Next

\* The lock is released only on a map within the cap, and a free lock only
\* lets steps through that add no key.
LEMMA CapacityStep ==
  ASSUME IInv, [L1Next]_L1Vars
  PROVE  CapacityBound'
<1> USE DEF IInv, L1TypeOK
<1>0. SUFFICES ASSUME Cap > 0, lock' = NoProc
               PROVE  Cardinality(Live') <= Cap
  BY DEF CapacityBound
<1>1. CASE UNCHANGED <<m, lock>>
  BY <1>0, <1>1 DEF CapacityBound, Live
<1>2. ASSUME NEW p \in L1Procs, L1Step(p), ~UNCHANGED <<m, lock>>
      PROVE  Cardinality(Live') <= Cap
  <2>1. ~SetInsert(p)
    BY <1>0, NamesAssumption DEF SetInsert
  <2>2. Live' \subseteq Live
    BY <1>0, <1>2, <2>1, LiveStep
  <2>3. Cardinality(Live') \in Nat /\ Cardinality(Live') <= Cardinality(Live)
    BY <2>2, LiveShrinks
  <2>4. CASE lock = NoProc
    BY <1>0, <2>3, <2>4, LiveFinite, CapAssumption DEF CapacityBound
  <2>5. CASE SetDone(p)
    <3>1. CASE ~OverCap
      BY <2>3, <3>1, LiveFinite, CapAssumption DEF OverCap
    <3>2. CASE queue = <<>>
      <4>1. scan = <<>>
        BY <2>5 DEF SetDone, LoopOver, LockOwner, Compacting
      <4>2. Live = {}
        BY <1>0, <3>2, <4>1, EmptySlot DEF LiveKeysQueued
      <4> QED
        BY <2>3, <4>2, FS_EmptySet, CapAssumption
    <3> QED
      BY <2>5, <3>1, <3>2 DEF SetDone, LoopOver
  <2>6. CASE CompactDone(p)
    BY <2>3, <2>6, LiveFinite, CapAssumption DEF CompactDone, Compacting
  <2> QED
    BY <1>0, <1>2, <2>1, <2>4, <2>5, <2>6
    DEF L1Step, Evict, GetCall, GetLookup, GetMark, GetDel, SetCall, SetInPlace,
        EvictStep, CompactStart, CompactStep, Del, Flush
<1> QED
  BY <1>1, <1>2 DEF L1Next, L1Tick, L1Vars

\* IInv is an invariant of the shard.
THEOREM Inductive == L1Spec => []IInv
<1>1. L1Init => IInv
  <2> SUFFICES ASSUME L1Init PROVE IInv
    OBVIOUS
  <2>1. L1TypeOK /\ LockOwner
    BY NamesAssumption DEF L1Init, L1TypeOK, LockOwner, L1Idle
  <2>2. Live = {}
    BY DEF L1Init, Live
  <2> QED
    BY <2>1, <2>2, FS_EmptySet, CapAssumption
    DEF L1Init, IInv, Compacting, LiveKeysQueued, CapacityBound, L1Idle
<1>2. IInv /\ [L1Next]_L1Vars => IInv'
  <2> SUFFICES ASSUME IInv, [L1Next]_L1Vars PROVE IInv'
    OBVIOUS
  <2>1. L1TypeOK' /\ LockOwner' /\ Compacting'
    BY TypeStep, LockStep, CompactingStep DEF IInv
  <2>2. LiveKeysQueued'
    BY QueueStep DEF IInv, LiveKeysQueued
  <2> QED
    BY <2>1, <2>2, CapacityStep DEF IInv
<1> QED
  BY <1>1, <1>2, PTL DEF L1Spec

\* Whatever order gets, sets, deletes and flushes come in, a limited shard is
\* within its cap whenever its lock is free (l1Cache.set, evictToCap).
THEOREM CapacityHolds == L1Spec => []CapacityBound
<1>1. IInv => CapacityBound
  BY DEF IInv
<1> QED
  BY <1>1, Inductive, PTL

\* No live key is ever without a queue slot, in the queue or in what compact
\* has yet to read: the eviction loop can reach every entry.
THEOREM EveryLiveKeyQueued == L1Spec => []LiveKeysQueued
<1>1. IInv => LiveKeysQueued
  BY DEF IInv
<1> QED
  BY <1>1, Inductive, PTL

\* The shard as a whole, for any cap, keys and goroutines: well formed, at
\* most Cap entries whenever the lock is free, every live key evictable.
THEOREM ShardHolds == L1Spec => []ShardSound
<1>1. L1TypeOK /\ CapacityBound /\ LiveKeysQueued => ShardSound
  BY DEF ShardSound
<1> QED
  BY <1>1, TypeCorrect, CapacityHolds, EveryLiveKeyQueued, PTL
=============================================================================
