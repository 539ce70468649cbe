------------------------ MODULE ResponseCacheProofs ------------------------
(***************************************************************************)
(* Theorems about ResponseCache, for every configuration of lifetimes and  *)
(* any number of questions and goroutines.                                 *)
(*                                                                         *)
(* OverstayBounded is not inductive: what a Lookup stores into L1 was read *)
(* from L2 some time ago.  The strengthening says that, at the clock       *)
(* reading the call started with, a fetched entry was not past its due     *)
(* time by more than its write was under way (Fetched), which rests on L2  *)
(* keeping no entry longer than that (L2Live), which rests on a write      *)
(* carrying the whole lifetime its Set gave it, however late it lands      *)
(* (Landing).                                                              *)
(***************************************************************************)
EXTENDS ResponseCache, TLAPS

\* A write on its way to L2 carries the lifetime that was counted from its Set.
Landing ==
  /\ \A w \in queued : w.ttl > 0 /\ w.at + w.ttl = w.due /\ w.at <= clock
  /\ \A p \in Procs : call[p].pc = "enqueue" =>
       call[p].ttl > 0 /\ call[p].at + call[p].ttl = call[p].due

\* L2 holds only entries whose TTL has not run out, none of them past due by
\* more than its write was late.
L2Live == \A k \in Keys : l2[k] # None => clock < l2[k].until /\ l2[k].until <= l2[k].due + l2[k].late

\* A call that has fetched an entry from L2.
Fetched ==
  \A p \in Procs : call[p] # Idle =>
    /\ call[p].at <= clock
    /\ call[p].pc \in {"warmPos", "delPos", "warmNeg"} =>
         /\ call[p].got # None
         /\ call[p].at < call[p].got.due + call[p].got.late
         /\ call[p].ttl = CfgLife(call[p].key)
    /\ call[p].pc = "warmGet" =>
         call[p].got # None /\ call[p].at + call[p].ttl <= call[p].got.due + call[p].got.late

\* The inductive invariant.
IInv ==
  /\ TypeOK
  /\ Landing
  /\ L2Live
  /\ Fetched
  /\ OverstayBounded

-----------------------------------------------------------------------------

\* What a call under way remembers.
LEMMA BusyCall ==
  ASSUME TypeOK, NEW p \in Procs, call[p].pc # "idle"
  PROVE  call[p] \in InCall /\ call[p] # Idle
BY DEF TypeOK, Idle

\* A key is a question and a kind of answer.
LEMMA KeyParts ==
  ASSUME NEW k \in Keys
  PROVE  /\ k[1] \in Questions /\ k[2] \in Kinds
         /\ <<k[1], "pos">> \in Keys /\ <<k[1], "neg">> \in Keys
         /\ k = <<k[1], k[2]>>
BY DEF Keys, Kinds

\* What L1Set does to the map, its type and the bound on every entry.
LEMMA L1SetEffect ==
  ASSUME TypeOK, OverstayBounded, NEW k \in Keys, NEW id \in Nat, NEW due \in Nat, NEW late \in Nat,
         NEW ttl \in Nat, NEW now \in Nat, L1Set(k, id, due, late, ttl, now),
         now + ttl <= due + late + CfgLife(k)
  PROVE  l1' \in [Keys -> L1Entry \cup {None}] /\ OverstayBounded'
<1> DEFINE e == [id |-> id, due |-> due, late |-> late, expires |-> now + ttl,
                 staleUntil |-> now + ttl + StaleTTL]
<1>1. e \in L1Entry
  BY TTLAssumption DEF L1Entry
<1>2. l1' = [l1 EXCEPT ![k] = e]
  BY DEF L1Set
<1>3. l1' \in [Keys -> L1Entry \cup {None}]
  BY <1>1, <1>2 DEF TypeOK
<1>4. CfgLife(k) \in Nat
  BY TTLAssumption DEF CfgLife
<1>5. ASSUME NEW x \in Keys, l1'[x] # None
      PROVE  /\ l1'[x].expires <= l1'[x].due + l1'[x].late + CfgLife(x)
             /\ l1'[x].staleUntil <= l1'[x].due + l1'[x].late + CfgLife(x) + StaleTTL
  <2>1. CASE x = k
    <3>1. l1'[x] = e
      BY <1>2, <2>1 DEF TypeOK
    <3> QED
      BY <1>4, <2>1, <3>1, TTLAssumption
  <2>2. CASE x # k
    <3>1. l1'[x] = l1[x]
      BY <1>2, <2>2 DEF TypeOK
    <3> QED
      BY <1>5, <3>1 DEF OverstayBounded
  <2> QED
    BY <2>1, <2>2
<1> QED
  BY <1>3, <1>5 DEF OverstayBounded, CfgLife

\* Removing entries from L1 keeps its type and the bound.
LEMMA L1DelEffect ==
  ASSUME TypeOK, OverstayBounded, l1' \in [Keys -> L1Entry \cup {None}],
         \A k \in Keys : l1'[k] \in {l1[k], None}
  PROVE  OverstayBounded'
BY DEF OverstayBounded, CfgLife


\* Advance keeps calls well formed.
LEMMA AdvanceType ==
  ASSUME TypeOK, NEW p \in Procs, call[p].pc # "idle", NEW step \in Steps, NEW k \in Keys,
         NEW g \in L2Entry \cup {None}, NEW t \in Nat, Advance(p, step, k, g, t)
  PROVE  /\ call' \in [Procs -> InCall \cup {Idle}]
         /\ \A q \in Procs : q # p => call'[q] = call[q]
         /\ call'[p].pc = step /\ call'[p].key = k /\ call'[p].got = g /\ call'[p].ttl = t
         /\ call'[p].at = call[p].at
<1> DEFINE r == [call[p] EXCEPT !.pc = step, !.key = k, !.got = g, !.ttl = t]
<1>1. call[p] \in InCall
  BY BusyCall
<1>2. /\ r \in InCall /\ r.pc = step /\ r.key = k /\ r.got = g /\ r.ttl = t
      /\ r.at = call[p].at
  BY <1>1 DEF InCall
<1>3. call' = [call EXCEPT ![p] = r]
  BY DEF Advance
<1> QED
  BY <1>2, <1>3 DEF TypeOK

\* A probe only ever removes an entry from L1.
LEMMA LazyDelete ==
  ASSUME TypeOK, OverstayBounded, NEW k \in Keys, NEW c,
         l1' = IF c THEN [l1 EXCEPT ![k] = None] ELSE l1
  PROVE  l1' \in [Keys -> L1Entry \cup {None}] /\ OverstayBounded'
<1>1. l1' \in [Keys -> L1Entry \cup {None}] /\ \A x \in Keys : l1'[x] \in {l1[x], None}
  BY DEF TypeOK
<1> QED
  BY <1>1, L1DelEffect

\* The facts IInv has about one call.
CallOK(c) ==
  c # Idle =>
    /\ c.at <= clock
    /\ c.pc \in {"warmPos", "delPos", "warmNeg"} =>
         c.got # None /\ c.at < c.got.due + c.got.late /\ c.ttl = CfgLife(c.key)
    /\ c.pc = "warmGet" => c.got # None /\ c.at + c.ttl <= c.got.due + c.got.late
    /\ c.pc = "enqueue" => c.ttl > 0 /\ c.at + c.ttl = c.due

\* Every call remembers what its step needs.
LEMMA CallsOK ==
  ASSUME IInv
  PROVE  \A p \in Procs : CallOK(call[p])
BY DEF IInv, Landing, Fetched, CallOK

\* A step of p that leaves the clock, the queue and the L2 alone.
LEMMA OneCall ==
  ASSUME IInv, NEW p \in Procs, UNCHANGED <<clock, nextId, l2, queued>>,
         call' \in [Procs -> InCall \cup {Idle}], \A q \in Procs : q # p => call'[q] = call[q],
         CallOK(call'[p]), l1' \in [Keys -> L1Entry \cup {None}], OverstayBounded'
  PROVE  IInv'
<1>1. TypeOK'
  BY DEF IInv, TypeOK
<1>2. ASSUME NEW q \in Procs PROVE CallOK(call'[q]) /\ (call'[q] = Idle => call'[q].pc = "idle")
  BY CallsOK DEF Idle
<1>3. Fetched' /\ Landing'
  <2>1. \A w \in queued' : w.ttl > 0 /\ w.at + w.ttl = w.due /\ w.at <= clock'
    BY DEF IInv, Landing
  <2>2. clock' = clock
    OBVIOUS
  <2> HIDE DEF Idle
  <2>3. Fetched'
    BY <1>2, <2>2 DEF CallOK, Fetched, CfgLife
  <2>4. \A q \in Procs : call'[q].pc = "enqueue" => call'[q].ttl > 0 /\ call'[q].at + call'[q].ttl = call'[q].due
    BY <1>2, <2>2 DEF CallOK
  <2> QED
    BY <2>1, <2>3, <2>4 DEF Landing
<1>4. L2Live'
  BY DEF IInv, L2Live
<1> QED
  BY <1>1, <1>3, <1>4 DEF IInv

\* Returning, and starting a call.
LEMMA ReturnType ==
  ASSUME TypeOK, NEW p \in Procs, Return(p)
  PROVE  /\ call' \in [Procs -> InCall \cup {Idle}]
         /\ \A q \in Procs : q # p => call'[q] = call[q]
         /\ call'[p] = Idle
BY DEF TypeOK, Return

\* A call begins and keeps the types.
LEMMA StartType ==
  ASSUME TypeOK, NEW p \in Procs, NEW step \in Steps, NEW k \in Keys, Start(p, step, k),
         step \notin {"warmPos", "delPos", "warmNeg", "warmGet", "enqueue"}
  PROVE  /\ call' \in [Procs -> InCall \cup {Idle}]
         /\ \A q \in Procs : q # p => call'[q] = call[q]
         /\ CallOK(call'[p])
<1> DEFINE r == [pc |-> step, key |-> k, at |-> clock, got |-> None,
                 id |-> 0, due |-> 0, ttl |-> 0]
<1>1. r \in InCall /\ r.pc = step /\ r.at = clock
  BY DEF InCall, TypeOK
<1>2. call' = [call EXCEPT ![p] = r]
  BY DEF Start
<1>3. call'[p] = r
  BY <1>2 DEF TypeOK
<1>4. clock \in Nat
  BY DEF TypeOK
<1> QED
  BY <1>1, <1>2, <1>3, <1>4 DEF TypeOK, CallOK

-----------------------------------------------------------------------------
(* One lemma per action. *)

\* A call begins and keeps the invariant.
LEMMA StartStep ==
  ASSUME IInv, NEW p \in Procs, NEW step \in {"probePos", "getL1", "flushL2"}, NEW k \in Keys,
         Start(p, step, k), UNCHANGED <<clock, nextId, l2, queued>>,
         l1' \in [Keys -> L1Entry \cup {None}], \A x \in Keys : l1'[x] \in {l1[x], None}
  PROVE  IInv'
<1>1. OverstayBounded'
  BY L1DelEffect DEF IInv
<1>2. step \in Steps /\ step \notin {"warmPos", "delPos", "warmNeg", "warmGet", "enqueue"}
  BY DEF Steps
<1>3. /\ call' \in [Procs -> InCall \cup {Idle}]
      /\ \A q \in Procs : q # p => call'[q] = call[q]
      /\ CallOK(call'[p])
  BY <1>2, StartType DEF IInv
<1> QED
  BY <1>1, <1>3, OneCall

\* A lookup probes L1 or L2 and may drop what it found due.
LEMMA ProbeStep ==
  ASSUME IInv, NEW p \in Procs, NEW step \in {"probeNeg", "mget", "getL2"}, NEW k \in Keys, NEW x \in Keys,
         NEW c, call[p].pc # "idle",
         Return(p) \/ Advance(p, step, k, None, 0),
         l1' = IF c THEN [l1 EXCEPT ![x] = None] ELSE l1,
         UNCHANGED <<clock, nextId, l2, queued>>
  PROVE  IInv'
<1>1. l1' \in [Keys -> L1Entry \cup {None}] /\ OverstayBounded'
  BY LazyDelete DEF IInv
<1>2. CASE Return(p)
  BY <1>1, <1>2, ReturnType, OneCall DEF IInv, CallOK
<1>3. CASE Advance(p, step, k, None, 0)
  <2>1. step \in Steps
    BY DEF Steps
  <2>2. /\ call' \in [Procs -> InCall \cup {Idle}]
        /\ \A q \in Procs : q # p => call'[q] = call[q]
        /\ call'[p].pc = step /\ call'[p].at = call[p].at
    BY <1>3, <2>1, AdvanceType DEF IInv
  <2>3. call[p].at <= clock
    BY BusyCall DEF IInv, Fetched
  <2>4. CallOK(call'[p])
    BY <2>2, <2>3 DEF CallOK
  <2> QED
    BY <1>1, <2>2, <2>4, OneCall
<1> QED
  BY <1>2, <1>3

\* An L2 entry read by a call, at the clock the call started with.
LEMMA ReadL2 ==
  ASSUME IInv, NEW p \in Procs, call[p].pc # "idle", NEW k \in Keys, l2[k] # None
  PROVE  /\ l2[k] \in L2Entry
         /\ call[p].at \in Nat /\ call[p].at <= clock
         /\ clock < l2[k].until /\ l2[k].until <= l2[k].due + l2[k].late
BY BusyCall DEF IInv, TypeOK, L2Live, Fetched, InCall

\* The call goes on with an L2 entry it read.
LEMMA FetchStep ==
  ASSUME IInv, NEW p \in Procs, call[p].pc # "idle", NEW k \in Keys, l2[k] # None,
         NEW step \in {"warmPos", "delPos", "warmGet"}, NEW t \in Nat,
         Advance(p, step, k, l2[k], t),
         IF step = "warmGet" THEN t = l2[k].until - clock ELSE t = CfgLife(k),
         UNCHANGED <<clock, nextId, l1, l2, queued>>
  PROVE  IInv'
<1>1. /\ l2[k] \in L2Entry
      /\ call[p].at \in Nat /\ call[p].at <= clock
      /\ clock < l2[k].until /\ l2[k].until <= l2[k].due + l2[k].late
  BY ReadL2
<1>2. step \in Steps /\ l2[k] \in L2Entry \cup {None}
  BY <1>1 DEF Steps
<1>3. /\ call' \in [Procs -> InCall \cup {Idle}]
      /\ \A q \in Procs : q # p => call'[q] = call[q]
      /\ call'[p].pc = step /\ call'[p].key = k /\ call'[p].got = l2[k] /\ call'[p].ttl = t
      /\ call'[p].at = call[p].at
  BY <1>2, AdvanceType DEF IInv
<1>4. clock \in Nat /\ l2[k].until \in Nat /\ l2[k].due \in Nat /\ l2[k].late \in Nat
  BY <1>1 DEF IInv, TypeOK, L2Entry
<1>5. CASE step = "warmGet"
  <2>1. call[p].at + t <= l2[k].due + l2[k].late
    BY <1>1, <1>4, <1>5
  <2>2. CallOK(call'[p])
    BY <1>1, <1>3, <1>5, <2>1 DEF CallOK
  <2> QED
    BY <1>3, <2>2, OneCall DEF IInv, TypeOK, OverstayBounded
<1>6. CASE step # "warmGet"
  <2>1. call[p].at < l2[k].due + l2[k].late
    BY <1>1, <1>4
  <2>2. CallOK(call'[p])
    BY <1>1, <1>3, <1>6, <2>1 DEF CallOK
  <2> QED
    BY <1>3, <2>2, OneCall DEF IInv, TypeOK, OverstayBounded
<1> QED
  BY <1>5, <1>6

\* The fetched entry is stored in L1.
LEMMA WarmStep ==
  ASSUME IInv, NEW p \in Procs, call[p].pc \in {"warmPos", "warmNeg", "warmGet"}, Warm(p)
  PROVE  IInv'
<1>1. call[p] \in InCall /\ call[p] # Idle
  BY BusyCall DEF IInv
<1> DEFINE k == call[p].key
           g == call[p].got
<1>2. g # None /\ k \in Keys /\ call[p].ttl \in Nat /\ call[p].at \in Nat
  BY <1>1 DEF IInv, Fetched, InCall
<1>3. g \in L2Entry
  BY <1>1, <1>2 DEF InCall
<1>4. g.id \in Nat /\ g.due \in Nat /\ g.late \in Nat /\ CfgLife(k) \in Nat
  BY <1>3, TTLAssumption DEF L2Entry, CfgLife
<1>5. call[p].at + call[p].ttl <= g.due + g.late + CfgLife(k)
  <2>1. CASE call[p].pc = "warmGet"
    BY <1>1, <1>2, <1>4, <2>1 DEF IInv, Fetched
  <2>2. CASE call[p].pc \in {"warmPos", "warmNeg"}
    BY <1>1, <1>2, <1>4, <2>2 DEF IInv, Fetched
  <2> QED
    BY <2>1, <2>2
<1>6. l1' \in [Keys -> L1Entry \cup {None}] /\ OverstayBounded'
  BY <1>2, <1>4, <1>5, L1SetEffect DEF IInv, Warm
<1> QED
  BY <1>6, ReturnType, OneCall DEF IInv, Warm, CallOK

\* A negative answer takes the positive one out of L1.
LEMMA DelPosStep ==
  ASSUME IInv, NEW p \in Procs, DelPos(p)
  PROVE  IInv'
<1>1. call[p] \in InCall /\ call[p] # Idle /\ call[p].pc # "idle"
  BY BusyCall DEF IInv, DelPos
<1>2. /\ call[p].got \in L2Entry \cup {None} /\ call[p].key \in Keys
      /\ call[p].ttl \in Nat /\ "warmNeg" \in Steps
  BY <1>1 DEF InCall, Steps
<1>3. Advance(p, "warmNeg", call[p].key, call[p].got, call[p].ttl)
  BY DEF DelPos
<1>4. /\ call' \in [Procs -> InCall \cup {Idle}]
      /\ \A q \in Procs : q # p => call'[q] = call[q]
      /\ call'[p].pc = "warmNeg" /\ call'[p].key = call[p].key /\ call'[p].got = call[p].got
      /\ call'[p].ttl = call[p].ttl /\ call'[p].at = call[p].at
  BY <1>1, <1>2, <1>3, AdvanceType DEF IInv
<1>5. CallOK(call'[p])
  BY <1>1, <1>4 DEF DelPos, CallOK, IInv, Fetched
<1>6. l1' \in [Keys -> L1Entry \cup {None}] /\ \A x \in Keys : l1'[x] \in {l1[x], None}
  BY DEF DelPos, L1Del, IInv, TypeOK
<1>7. OverstayBounded'
  BY <1>6, L1DelEffect DEF IInv
<1> QED
  BY <1>4, <1>5, <1>6, <1>7, OneCall DEF DelPos

\* Time passes.
LEMMA TickStep ==
  ASSUME IInv, Tick
  PROVE  IInv'
<1>1. clock \in Nat /\ clock' = clock + 1 /\ UNCHANGED <<nextId, l1, queued, call>>
  BY DEF IInv, TypeOK, Tick
<1>2. \A k \in Keys : l2'[k] \in {l2[k], None} /\ (l2'[k] # None => clock + 1 < l2[k].until)
  <2>1. ASSUME NEW k \in Keys, l2[k] # None PROVE l2[k].until \in Nat
    BY <2>1 DEF IInv, TypeOK, L2Entry
  <2> QED
    BY <1>1, <2>1 DEF Tick
<1>3. TypeOK'
  <2>1. l2' \in [Keys -> L2Entry \cup {None}]
    BY DEF Tick, IInv, TypeOK
  <2> QED
    BY <1>1, <2>1 DEF IInv, TypeOK
<1>4. Landing'
  <2>1. ASSUME NEW w \in queued PROVE w.at <= clock + 1
    <3>1. w.at \in Nat /\ w.at <= clock
      BY DEF IInv, TypeOK, Landing, Write
    <3> QED
      BY <1>1, <3>1
  <2> QED
    BY <1>1, <2>1 DEF IInv, Landing
<1>5. L2Live'
  BY <1>1, <1>2 DEF IInv, L2Live
<1>6. Fetched'
  <2>1. ASSUME NEW p \in Procs, call[p] # Idle PROVE call[p].at <= clock + 1
    <3>1. call[p].at \in Nat
      BY <2>1 DEF IInv, TypeOK, InCall
    <3> QED
      BY <1>1, <2>1, <3>1 DEF IInv, Fetched
  <2> QED
    BY <1>1, <2>1 DEF IInv, Fetched, CfgLife
<1>7. OverstayBounded'
  BY <1>1 DEF IInv, OverstayBounded, CfgLife
<1> QED
  BY <1>3, <1>4, <1>5, <1>6, <1>7 DEF IInv

\* L1 evicts an entry.
LEMMA EvictStep ==
  ASSUME IInv, NEW k \in Keys, Evict(k)
  PROVE  IInv'
<1>1. UNCHANGED <<clock, nextId, l2, queued, call>>
  BY DEF Evict
<1>2. l1' \in [Keys -> L1Entry \cup {None}] /\ \A x \in Keys : l1'[x] \in {l1[x], None}
  BY DEF Evict, L1Del, IInv, TypeOK
<1>3. OverstayBounded'
  BY <1>2, L1DelEffect DEF IInv
<1>4. TypeOK'
  BY <1>1, <1>2 DEF IInv, TypeOK
<1>5. Landing' /\ L2Live' /\ Fetched'
  BY <1>1 DEF IInv, Landing, L2Live, Fetched, CfgLife
<1> QED
  BY <1>3, <1>4, <1>5 DEF IInv

\* A new answer is stored with a lifetime that ends exactly when it is due.
LEMMA StoreStep ==
  ASSUME IInv, NEW p \in Procs, NEW k \in Keys, NEW ttl \in TTLs, Store(p, k, ttl)
  PROVE  IInv'
<1> DEFINE life == Lifetime(k[2], ttl)
           r == [pc |-> "enqueue", key |-> k, at |-> clock, got |-> None,
                 id |-> nextId, due |-> clock + life, ttl |-> life]
<1>1. life \in Nat /\ clock \in Nat /\ nextId \in Nat /\ CfgLife(k) \in Nat /\ 0 \in Nat
  BY TTLAssumption DEF Lifetime, IInv, TypeOK, CfgLife
<1>2. r \in InCall
  BY <1>1 DEF InCall, Steps
<1>3. call' = [call EXCEPT ![p] = r]
  BY DEF Store
<1>4. /\ call' \in [Procs -> InCall \cup {Idle}] /\ call'[p] = r
      /\ \A q \in Procs : q # p => call'[q] = call[q]
  BY <1>2, <1>3 DEF IInv, TypeOK
<1>5. l1' \in [Keys -> L1Entry \cup {None}] /\ OverstayBounded'
  <2>1. L1Set(k, nextId, clock + life, 0, life, clock)
    BY DEF Store
  <2>2. clock + life \in Nat /\ clock + life <= clock + life + 0 + CfgLife(k)
    BY <1>1
  <2> HIDE DEF life
  <2> QED
    BY <1>1, <2>1, <2>2, L1SetEffect DEF IInv
<1>6. UNCHANGED <<clock, l2, queued>> /\ nextId' = nextId + 1
  BY DEF Store
<1>7. TypeOK'
  <2>1. nextId' \in Nat
    BY <1>1, <1>6
  <2> QED
    BY <1>4, <1>5, <1>6, <2>1 DEF IInv, TypeOK
<1>8. r.pc = "enqueue" /\ r.ttl > 0 /\ r.at + r.ttl = r.due /\ r.at <= clock /\ r # Idle
  BY <1>1 DEF Idle, Store
<1> HIDE DEF r, life
<1>9. Landing'
  BY <1>4, <1>6, <1>8 DEF IInv, Landing
<1>10. Fetched'
  BY <1>4, <1>6, <1>8 DEF IInv, Fetched, CfgLife
<1>11. L2Live'
  BY <1>6 DEF IInv, L2Live
<1> QED
  BY <1>5, <1>7, <1>9, <1>10, <1>11 DEF IInv

\* A write is queued for L2.
LEMMA EnqueueStep ==
  ASSUME IInv, NEW p \in Procs, Enqueue(p)
  PROVE  IInv'
<1> DEFINE w == [key |-> call[p].key, id |-> call[p].id, at |-> call[p].at,
                 due |-> call[p].due, ttl |-> call[p].ttl]
<1>1. call[p] \in InCall
  BY BusyCall DEF IInv, Enqueue
<1>2. w \in Write
  BY <1>1 DEF InCall, Write
<1>3. queued' = queued \cup {w} /\ UNCHANGED <<clock, nextId, l1, l2>> /\ Return(p)
  BY DEF Enqueue
<1>4. /\ call' \in [Procs -> InCall \cup {Idle}] /\ call'[p] = Idle
      /\ \A q \in Procs : q # p => call'[q] = call[q]
  BY <1>3, ReturnType DEF IInv
<1>5. TypeOK'
  BY <1>2, <1>3, <1>4 DEF IInv, TypeOK
<1>6. w.ttl > 0 /\ w.at + w.ttl = w.due /\ w.at <= clock
  BY BusyCall DEF IInv, Landing, Fetched, Enqueue
<1>7. Landing'
  <2>1. \A v \in queued' : v.ttl > 0 /\ v.at + v.ttl = v.due /\ v.at <= clock'
    BY <1>3, <1>6 DEF IInv, Landing
  <2>2. call'[p].pc # "enqueue"
    BY <1>4 DEF Idle
  <2> QED
    BY <1>3, <1>4, <2>1, <2>2 DEF IInv, Landing
<1>8. Fetched'
  BY <1>3, <1>4 DEF IInv, Fetched, CfgLife
<1>9. L2Live' /\ OverstayBounded'
  BY <1>3 DEF IInv, L2Live, OverstayBounded, CfgLife
<1> QED
  BY <1>5, <1>7, <1>8, <1>9 DEF IInv

\* The write lands (Land) or is lost (Drop).
LEMMA LandStep ==
  ASSUME IInv, NEW w \in queued, Land(w) \/ Drop(w)
  PROVE  IInv'
<1>1. queued' = queued \ {w} /\ UNCHANGED <<clock, nextId, l1, call>>
  BY DEF Land, Drop
<1>2. w \in Write /\ clock \in Nat /\ w.at + w.ttl = w.due /\ w.at <= clock
  BY DEF IInv, TypeOK, Landing
<1>3. w.key \in Keys /\ w.id \in Nat /\ w.due \in Nat /\ w.ttl \in Nat /\ w.at \in Nat
  BY <1>2 DEF Write
<1> DEFINE e == [id |-> w.id, due |-> w.due, late |-> clock - w.at, until |-> clock + w.ttl]
<1>4. l2' \in [Keys -> L2Entry \cup {None}]
  <2>1. e \in L2Entry
    BY <1>2, <1>3 DEF L2Entry
  <2> QED
    BY <1>3, <2>1 DEF Land, Drop, IInv, TypeOK
<1>5. TypeOK'
  BY <1>1, <1>4 DEF IInv, TypeOK
<1>6. Landing' /\ Fetched' /\ OverstayBounded'
  BY <1>1 DEF IInv, Landing, Fetched, OverstayBounded, CfgLife
<1>7. w.ttl > 0
  BY DEF IInv, Landing
<1>8. L2Live'
  <2>1. CASE Drop(w)
    BY <1>1, <2>1 DEF IInv, L2Live, Drop
  <2>2. CASE Land(w)
    <3>1. l2' = [l2 EXCEPT ![w.key] = e]
      BY <2>2 DEF Land
    <3>2. clock < e.until /\ e.until <= e.due + e.late
      BY <1>2, <1>3, <1>7
    <3> QED
      BY <1>1, <1>3, <3>1, <3>2 DEF IInv, L2Live, TypeOK
  <2> QED
    BY <2>1, <2>2
<1> QED
  BY <1>5, <1>6, <1>8 DEF IInv

\* L2 is flushed.
LEMMA FlushL2Step ==
  ASSUME IInv, NEW p \in Procs, FlushL2(p)
  PROVE  IInv'
<1>1. UNCHANGED <<clock, nextId, l1, queued>> /\ Return(p) /\ l2' = [k \in Keys |-> None]
  BY DEF FlushL2
<1>2. /\ call' \in [Procs -> InCall \cup {Idle}] /\ call'[p] = Idle
      /\ \A q \in Procs : q # p => call'[q] = call[q]
  BY <1>1, ReturnType DEF IInv
<1>3. call[p] \in InCall
  BY BusyCall DEF IInv, FlushL2
<1>5. l2' \in [Keys -> L2Entry \cup {None}]
  BY <1>1
<1>6. TypeOK'
  BY <1>1, <1>2, <1>5 DEF IInv, TypeOK
<1>7. L2Live'
  BY <1>1 DEF L2Live
<1>8. Fetched' /\ OverstayBounded'
  BY <1>1, <1>2 DEF IInv, Fetched, OverstayBounded, CfgLife
<1>9. Landing'
  <2>1. call'[p].pc # "enqueue"
    BY <1>2 DEF Idle
  <2> QED
    BY <1>1, <1>2, <2>1 DEF IInv, Landing
<1> QED
  BY <1>6, <1>7, <1>8, <1>9 DEF IInv

-----------------------------------------------------------------------------

\* The invariant holds in the initial states.
LEMMA InitIInv ==
  ASSUME Init
  PROVE  IInv
BY DEF Init, IInv, TypeOK, Landing, L2Live, Fetched, OverstayBounded, Idle

\* Every step keeps the invariant.
LEMMA StepIInv ==
  ASSUME IInv, NEW p \in Procs, Step(p)
  PROVE  IInv'
<1>1. ASSUME NEW q \in Questions, LookupCall(p, q) PROVE IInv'
  <2>1. <<q, "pos">> \in Keys
    BY DEF Keys, Kinds
  <2>2. l1' \in [Keys -> L1Entry \cup {None}] /\ \A x \in Keys : l1'[x] \in {l1[x], None}
    BY <1>1 DEF LookupCall, IInv, TypeOK
  <2> QED
    BY <1>1, <2>1, <2>2, StartStep DEF LookupCall
<1>2. ASSUME NEW step \in {"probeNeg", "mget"}, call[p].pc # "idle", Probe(p, step) PROVE IInv'
  <2>1. call[p].key \in Keys
    BY <1>2, BusyCall DEF IInv, InCall
  <2>2. <<call[p].key[1], "neg">> \in Keys
    BY <2>1, KeyParts
  <2> QED
    BY <1>2, <2>1, <2>2, ProbeStep DEF Probe
<1>3. CASE ProbePos(p) \/ ProbeNeg(p)
  BY <1>2, <1>3 DEF ProbePos, ProbeNeg
<1>4. CASE MGet(p)
  <2> DEFINE q == call[p].key[1]
  <2>1. call[p].pc # "idle" /\ UNCHANGED <<clock, nextId, l1, l2, queued>>
    BY <1>4 DEF MGet
  <2>2. call[p].key \in Keys
    BY <2>1, BusyCall DEF IInv, InCall
  <2>3. <<q, "pos">> \in Keys /\ <<q, "neg">> \in Keys
    BY <2>2, KeyParts
  <2>4. CASE Return(p)
    BY <2>1, <2>4, ReturnType, OneCall DEF IInv, TypeOK, CallOK, OverstayBounded
  <2>5. CASE l2[<<q, "pos">>] # None /\ Advance(p, "warmPos", <<q, "pos">>, l2[<<q, "pos">>], CfgTTL)
    <3>1. CfgTTL \in Nat /\ CfgTTL = CfgLife(<<q, "pos">>)
      BY TTLAssumption DEF CfgLife
    <3> QED
      BY <2>1, <2>3, <2>5, <3>1, FetchStep
  <2>6. CASE l2[<<q, "neg">>] # None /\ Advance(p, "delPos", <<q, "neg">>, l2[<<q, "neg">>], CfgNegTTL)
    <3>1. CfgNegTTL \in Nat /\ CfgNegTTL = CfgLife(<<q, "neg">>)
      BY TTLAssumption DEF CfgLife
    <3> QED
      BY <2>1, <2>3, <2>6, <3>1, FetchStep
  <2> QED
    BY <1>4, <2>4, <2>5, <2>6 DEF MGet
<1>5. CASE WarmPos(p) \/ WarmNeg(p) \/ WarmGet(p)
  BY <1>5, WarmStep DEF WarmPos, WarmNeg, WarmGet
<1>6. CASE DelPos(p)
  BY <1>6, DelPosStep
<1>7. ASSUME NEW k \in Keys, GetCall(p, k) PROVE IInv'
  <2>1. l1' \in [Keys -> L1Entry \cup {None}] /\ \A x \in Keys : l1'[x] \in {l1[x], None}
    BY <1>7 DEF GetCall, IInv, TypeOK
  <2> QED
    BY <1>7, <2>1, StartStep DEF GetCall
<1>8. CASE GetL1(p)
  <2>1. call[p].pc # "idle"
    BY <1>8 DEF GetL1
  <2>2. call[p].key \in Keys
    BY <2>1, BusyCall DEF IInv, InCall
  <2> QED
    BY <1>8, <2>1, <2>2, ProbeStep DEF GetL1
<1>9. CASE GetL2(p)
  <2> DEFINE k == call[p].key
  <2>1. call[p].pc # "idle" /\ UNCHANGED <<clock, nextId, l1, l2, queued>>
    BY <1>9 DEF GetL2
  <2>2. k \in Keys
    BY <2>1, BusyCall DEF IInv, InCall
  <2>3. CASE Return(p)
    BY <2>1, <2>3, ReturnType, OneCall DEF IInv, TypeOK, CallOK, OverstayBounded
  <2>4. CASE l2[k] # None /\ Advance(p, "warmGet", k, l2[k], l2[k].until - clock)
    <3>1. l2[k] \in L2Entry /\ clock < l2[k].until /\ clock \in Nat
      BY <2>1, <2>2, <2>4, ReadL2 DEF IInv, TypeOK
    <3>2. l2[k].until - clock \in Nat
      BY <3>1 DEF L2Entry
    <3> QED
      BY <2>1, <2>2, <2>4, <3>2, FetchStep
  <2> QED
    BY <1>9, <2>3, <2>4 DEF GetL2
<1>10. ASSUME NEW k \in Keys, NEW ttl \in TTLs, Store(p, k, ttl) PROVE IInv'
  BY <1>10, StoreStep
<1>11. CASE Enqueue(p)
  BY <1>11, EnqueueStep
<1>12. CASE FlushL1(p)
  <2>1. \E k \in Keys : TRUE
    <3>1. PICK q : q \in Questions
      BY QuestionsAssumption
    <3>2. <<q, "pos">> \in Keys
      BY <3>1 DEF Keys, Kinds
    <3> QED
      BY <3>2
  <2>2. (CHOOSE k \in Keys : TRUE) \in Keys
    BY <2>1
  <2>3. l1' \in [Keys -> L1Entry \cup {None}] /\ \A x \in Keys : l1'[x] \in {l1[x], None}
    BY <1>12 DEF FlushL1
  <2> QED
    BY <1>12, <2>2, <2>3, StartStep DEF FlushL1
<1>13. CASE FlushL2(p)
  BY <1>13, FlushL2Step
<1> QED
  BY <1>1, <1>3, <1>4, <1>5, <1>6, <1>7, <1>8, <1>9, <1>10, <1>11, <1>12, <1>13 DEF Step

\* Every step of the cache, of Dragonfly and of time preserves the invariant.
LEMMA NextIInv ==
  ASSUME IInv, [Next]_vars
  PROVE  IInv'
<1>1. CASE UNCHANGED vars
  BY <1>1 DEF vars, IInv, TypeOK, Landing, L2Live, Fetched, OverstayBounded, CfgLife
<1>2. CASE Tick
  BY <1>2, TickStep
<1>3. CASE \E k \in Keys : Evict(k)
  BY <1>3, EvictStep
<1>4. CASE \E p \in Procs : Step(p)
  BY <1>4, StepIInv
<1>5. CASE \E w \in queued : Land(w) \/ Drop(w)
  BY <1>5, LandStep
<1> QED
  BY <1>1, <1>2, <1>3, <1>4, <1>5 DEF Next

\* The inductive invariant holds of every behaviour of the cache.
THEOREM Inductive == Spec => []IInv
BY InitIInv, NextIInv, PTL DEF Spec

\* The cache's state is well formed: in particular no lifetime handed to the
\* L1 by l2Get is ever negative.
THEOREM TypeCorrect == Spec => []TypeOK
<1>1. IInv => TypeOK
  BY DEF IInv
<1> QED
  BY <1>1, Inductive, PTL

\* However often an answer is copied from L2 to L1 by Lookup, Get and
\* GetNegative, and however long its L2 write waits in the queue, the L1 never
\* calls it fresh for longer beyond the lifetime it was stored with than that
\* write took and one configured lifetime.
THEOREM OverstayHolds == Spec => []OverstayBounded
<1>1. IInv => OverstayBounded
  BY DEF IInv
<1> QED
  BY <1>1, Inductive, PTL

\* The two layers' lifetimes as a whole: no lifetime is handed on negative,
\* and an answer outlives its own by at most the bound.
THEOREM LifetimesHold == Spec => []LifetimesSound
<1>1. TypeOK /\ OverstayBounded => LifetimesSound
  BY DEF LifetimesSound
<1> QED
  BY <1>1, TypeCorrect, OverstayHolds, PTL
=============================================================================
