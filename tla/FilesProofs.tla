---------------------------- MODULE FilesProofs ----------------------------
(***************************************************************************)
(* Theorems about what outlives the process in a file: the lease table     *)
(* (DHCPLeases) and the configuration (ConfigRules).                       *)
(*                                                                         *)
(* Those about leases: the ones about addresses while the configuration is *)
(* not re-applied, the ones about names however often it is.               *)
(*                                                                         *)
(* LeaseIndexed is inductive with the types, for any number of packets     *)
(* handled at once: the maps change only under the write lock or by        *)
(* inUseLocked, and each change keeps both halves of a lease together.     *)
(*                                                                         *)
(* NoSharedAddress and DeclinedWithheld need packets handled one at a time *)
(* and reservations outside the range. What a client believes is backed by *)
(* the index (HeldIndexed); an offered or declined address is leased to    *)
(* nobody else (HoldsClear); and what a handler found out before it gave   *)
(* the lock up is still true when it commits (CallsClear).                 *)
(***************************************************************************)
EXTENDS DHCPLeases, ConfigRules, SequenceTheorems, TLAPS

IInv == TypeOK /\ LeaseIndexed

\* The types of the table's maps.
TableOK ==
  /\ leases \in [Clients -> Lease \cup {None}]
  /\ byIP \in [Addrs -> Indexed \cup {None}]
  /\ ptr \in [Addrs -> Clients \cup {None}]
  /\ dirty \in BOOLEAN

\* RebuildHosts fixes the type of the names.
LEMMA NamesTyped ==
  ASSUME NEW cfg, RebuildHosts(cfg)
  PROVE  ptr' \in [Addrs -> Clients \cup {None}]
BY DEF RebuildHosts

\* inUseLocked on some addresses: only lapsed leases go, both halves.
LEMMA LookAtEffect ==
  ASSUME TypeOK, LeaseIndexed, NEW S \in SUBSET Addrs, NEW c \in Clients, LookAt(S, c)
  PROVE  /\ TableOK' /\ LeaseIndexed'
         /\ \A a \in Addrs : byIP'[a] = IF a \in S /\ Lapsed(a, c) THEN None ELSE byIP[a]
<1> DEFINE gone == {a \in S : Lapsed(a, c)}
<1>1. CASE gone = {}
  BY <1>1 DEF LookAt, TypeOK, TableOK, LeaseIndexed, table
<1>2. CASE gone # {}
  <2>1. /\ leases' = [k \in Clients |-> IF \E a \in gone : byIP[a].key = k THEN None ELSE leases[k]]
        /\ byIP' = [a \in Addrs |-> IF a \in gone THEN None ELSE byIP[a]]
        /\ RebuildHosts(static) /\ dirty' = TRUE
    BY <1>2 DEF LookAt
  <2>2. TableOK' BY <2>1, NamesTyped DEF TableOK, TypeOK
  <2>3. ASSUME NEW k \in Clients, leases'[k] # None
        PROVE  byIP'[leases'[k].ip] = [key |-> k, left |-> leases'[k].left,
                                       static |-> leases'[k].static]
    <3>1. leases'[k] = leases[k] /\ ~\E a \in gone : byIP[a].key = k BY <2>1, <2>3
    <3>2. leases[k] \in Lease BY <2>3, <3>1 DEF TypeOK
    <3>3. byIP[leases[k].ip] = [key |-> k, left |-> leases[k].left, static |-> leases[k].static]
      BY <2>3, <3>1 DEF LeaseIndexed
    <3>4. leases[k].ip \notin gone BY <3>1, <3>3
    <3>5. leases[k].ip \in Addrs BY <3>2 DEF Lease
    <3> QED BY <2>1, <3>1, <3>3, <3>4, <3>5
  <2>4. LeaseIndexed' BY <2>3 DEF LeaseIndexed
  <2> QED BY <2>1, <2>2, <2>4
<1> QED BY <1>1, <1>2

\* commitLocked: one address gets a lease, and its former holder loses its.
LEMMA CommitEffect ==
  ASSUME TypeOK, LeaseIndexed, NEW c \in Clients, NEW a \in Addrs, NEW fixed \in BOOLEAN,
         CommitLease(c, a, fixed)
  PROVE  /\ TableOK' /\ LeaseIndexed'
         /\ reserved' = [reserved EXCEPT ![a] = None]
         /\ \E l \in Indexed :
              /\ l.key = c /\ l.static = fixed
              /\ ~fixed => l.left = LeaseTime
              /\ byIP' = [byIP EXCEPT ![a] = l]
<1> DEFINE left == IF fixed THEN 0 ELSE LeaseTime
           l == [key |-> c, left |-> left, static |-> fixed]
<1>1. /\ reserved' = [reserved EXCEPT ![a] = None]
      /\ leases' = [k \in Clients |->
           IF k = c THEN [ip |-> a, left |-> left, static |-> fixed]
           ELSE IF byIP[a] # None /\ byIP[a].key = k THEN None ELSE leases[k]]
      /\ byIP' = [byIP EXCEPT ![a] = l]
      /\ RebuildHosts(static) /\ dirty' = TRUE
  BY DEF CommitLease
<1>2. left \in 0..LeaseTime BY TimesAssumption
<1> HIDE DEF left
<1>3. l \in Indexed /\ [ip |-> a, left |-> left, static |-> fixed] \in Lease
  BY <1>2 DEF Indexed, Lease
<1>4. TableOK' BY <1>1, <1>3, NamesTyped DEF TableOK, TypeOK
<1>5. ASSUME NEW k \in Clients, leases'[k] # None
      PROVE  byIP'[leases'[k].ip] = [key |-> k, left |-> leases'[k].left,
                                     static |-> leases'[k].static]
  <2>1. CASE k = c
    <3>1. leases'[k] = [ip |-> a, left |-> left, static |-> fixed] BY <1>1, <2>1
    <3>2. byIP'[a] = l BY <1>1 DEF TypeOK
    <3> QED BY <2>1, <3>1, <3>2
  <2>2. CASE k # c
    <3>1. leases'[k] = leases[k] /\ ~(byIP[a] # None /\ byIP[a].key = k) BY <1>1, <1>5, <2>2
    <3>2. leases[k] \in Lease BY <1>5, <3>1 DEF TypeOK
    <3>3. byIP[leases[k].ip] = [key |-> k, left |-> leases[k].left, static |-> leases[k].static]
      BY <1>5, <3>1 DEF LeaseIndexed
    <3>4. leases[k].ip \in Addrs BY <3>2 DEF Lease
    <3>5. [key |-> k, left |-> leases[k].left, static |-> leases[k].static] \in Indexed
      BY <3>2 DEF Lease, Indexed
    <3>6. leases[k].ip # a BY <3>1, <3>3, <3>5, NoneAssumption
    <3> QED BY <1>1, <3>1, <3>3, <3>4, <3>6 DEF TypeOK
  <2> QED BY <2>1, <2>2
<1>6. LeaseIndexed' BY <1>5 DEF LeaseIndexed
<1>7. l.key = c /\ l.static = fixed /\ (~fixed => l.left = LeaseTime) BY DEF left
<1> QED BY <1>1, <1>3, <1>4, <1>6, <1>7

\* renewLocked: the same lease lasts longer, in both maps.
LEMMA RenewEffect ==
  ASSUME TypeOK, LeaseIndexed, NEW c \in Clients, leases[c] # None, Renew(c)
  PROVE  /\ TableOK' /\ LeaseIndexed'
         /\ reserved' = reserved \/ reserved' = [reserved EXCEPT ![leases[c].ip] = None]
         /\ \A a \in Addrs :
              \/ byIP'[a] = byIP[a]
              \/ /\ byIP[a] \in Indexed /\ byIP'[a] \in Indexed
                 /\ byIP'[a].key = byIP[a].key /\ byIP'[a].static = byIP[a].static
                 /\ byIP'[a].left = LeaseTime
<1> DEFINE b == leases[c].ip
           l == [byIP[b] EXCEPT !.left = LeaseTime]
<1>0. /\ leases[c] \in Lease /\ b \in Addrs
      /\ byIP[b] = [key |-> c, left |-> leases[c].left, static |-> leases[c].static]
      /\ byIP[b] \in Indexed
  <2>1. leases[c] \in Lease BY DEF TypeOK
  <2>2. byIP[b] = [key |-> c, left |-> leases[c].left, static |-> leases[c].static]
    BY DEF LeaseIndexed
  <2> QED BY <2>1, <2>2 DEF Lease, Indexed
<1>1. CASE leases[c].static
  BY <1>1 DEF Renew, TypeOK, TableOK, LeaseIndexed, table
<1>2. CASE ~leases[c].static
  <2>1. /\ leases' = [leases EXCEPT ![c].left = LeaseTime]
        /\ reserved' = [reserved EXCEPT ![b] = None]
        /\ RebuildHosts(static) /\ dirty' = TRUE
        /\ byIP' = [byIP EXCEPT ![b] = IF byIP[b] # None /\ byIP[b].key = c THEN l ELSE byIP[b]]
    BY <1>2 DEF Renew
  <2>0. byIP[b] # None /\ byIP[b].key = c BY <1>0, NoneAssumption
  <2>2. byIP' = [byIP EXCEPT ![b] = l] BY <2>0, <2>1
  <2>3. /\ l \in Indexed /\ l.key = c /\ l.static = byIP[b].static /\ l.left = LeaseTime
        /\ l = [key |-> c, left |-> LeaseTime, static |-> leases[c].static]
    BY <1>0, TimesAssumption DEF Indexed
  <2>4. /\ leases' = [leases EXCEPT ![c] = [leases[c] EXCEPT !.left = LeaseTime]]
        /\ [leases[c] EXCEPT !.left = LeaseTime] \in Lease
    <3>1. LeaseTime \in 0..LeaseTime BY TimesAssumption
    <3>2. [leases[c] EXCEPT !.left = LeaseTime] \in Lease BY <1>0, <3>1 DEF Lease
    <3> QED BY <2>1, <3>2
  <2>5. TableOK'
    <3>1. leases' \in [Clients -> Lease \cup {None}] BY <2>4 DEF TypeOK
    <3>2. byIP' \in [Addrs -> Indexed \cup {None}] BY <2>2, <2>3 DEF TypeOK
    <3>3. ptr' \in [Addrs -> Clients \cup {None}] BY <2>1, NamesTyped
    <3> QED BY <2>1, <3>1, <3>2, <3>3 DEF TableOK
  <2>6. ASSUME NEW k \in Clients, leases'[k] # None
        PROVE  byIP'[leases'[k].ip] = [key |-> k, left |-> leases'[k].left,
                                       static |-> leases'[k].static]
    <3>1. CASE k = c
      <4>1. /\ leases'[k].ip = b /\ leases'[k].left = LeaseTime
            /\ leases'[k].static = leases[c].static
        BY <1>0, <2>4, <3>1 DEF TypeOK, Lease
      <4>2. byIP'[b] = l BY <1>0, <2>2 DEF TypeOK
      <4> QED BY <2>3, <3>1, <4>1, <4>2
    <3>2. CASE k # c
      <4>1. leases'[k] = leases[k] BY <2>4, <3>2 DEF TypeOK
      <4>2. byIP[leases[k].ip] = [key |-> k, left |-> leases[k].left, static |-> leases[k].static]
        BY <2>6, <4>1 DEF LeaseIndexed
      <4>3. leases[k].ip \in Addrs BY <2>6, <4>1 DEF TypeOK, Lease
      <4>4. leases[k].ip # b BY <1>0, <3>2, <4>2
      <4> QED BY <2>2, <4>1, <4>2, <4>3, <4>4 DEF TypeOK
    <3> QED BY <3>1, <3>2
  <2>7. LeaseIndexed' BY <2>6 DEF LeaseIndexed
  <2>8. \A a \in Addrs : a # b => byIP'[a] = byIP[a] BY <2>2 DEF TypeOK
  <2>9. byIP'[b] = l BY <1>0, <2>2 DEF TypeOK
  <2> QED BY <1>0, <2>1, <2>3, <2>5, <2>7, <2>8, <2>9
<1> QED BY <1>1, <1>2

\* An offer keeps the holds well formed.
LEMMA OfferTyped ==
  ASSUME TypeOK, NEW c \in Clients, NEW a \in Addrs, Offer(c, a)
  PROVE  reserved' \in [Addrs -> Hold \cup {None}]
<1>1. [key |-> c, left |-> OfferedHold] \in Hold BY TimesAssumption DEF Hold
<1> QED BY <1>1 DEF Offer, TypeOK

\* The cursor's next address is in the range.
LEMMA Wraps == ASSUME NEW i \in Nat, cursor \in Pool PROVE At(i) \in Pool
BY PoolAssumption DEF At, Pool

\* allocV4 / allocV6: what it can change, and what it returns.
LEMMA AllocEffect ==
  ASSUME IInv, NEW c \in Clients, NEW req \in Addrs \cup {None},
         NEW out \in Addrs \cup {None}, Alloc(c, req, out)
  PROVE  /\ TableOK' /\ LeaseIndexed'
         /\ reserved' \in [Addrs -> Hold \cup {None}] /\ cursor' \in Pool
<1> USE DEF IInv
<1>0. static \in [Clients -> Addrs \cup {None}] BY StaticsAssumption DEF TypeOK
<1>1. CASE AllocStatic(c, out)
  <2>1. out \in Addrs /\ CommitLease(c, out, TRUE) BY <1>0, <1>1 DEF AllocStatic
  <2> QED BY <1>1, <2>1, CommitEffect DEF AllocStatic, TypeOK
<1>2. CASE AllocOwn(c, out)
  BY <1>2, RenewEffect DEF AllocOwn, TypeOK
<1>3. CASE AllocAgain(c, out)
  BY <1>3 DEF AllocAgain, TypeOK, TableOK, LeaseIndexed, table
<1>4. CASE AllocRequested(c, req, out)
  <2>1. req \in Addrs BY <1>4 DEF AllocRequested, Addrs
  <2>2. LookAt({req}, c) /\ Offer(c, req) /\ cursor' = cursor BY <1>4 DEF AllocRequested
  <2>3. TableOK' /\ LeaseIndexed' BY <2>1, <2>2, LookAtEffect
  <2> QED BY <2>1, <2>2, <2>3, OfferTyped DEF TypeOK
<1>5. CASE AllocNext(c, req, out)
  <2> DEFINE seen(n) == {At(i) : i \in 0..n} \cup ({req} \cap Pool)
  <2>1. \A n \in Nat : seen(n) \in SUBSET Addrs BY Wraps DEF TypeOK, Addrs
  <2>2. CASE \E n \in 0..(PoolSize - 1) :
               out = At(n) /\ LookAt(seen(n), c) /\ Offer(c, out) /\ cursor' = At(n + 1)
    <3>1. PICK n \in 0..(PoolSize - 1) :
            out = At(n) /\ LookAt(seen(n), c) /\ Offer(c, out) /\ cursor' = At(n + 1)
      BY <2>2
    <3>2. n \in Nat /\ n + 1 \in Nat BY PoolAssumption
    <3>3. out \in Addrs /\ cursor' \in Pool BY <3>1, <3>2, Wraps DEF TypeOK, Addrs
    <3>4. seen(n) \in SUBSET Addrs BY <2>1, <3>2
    <3> HIDE DEF seen
    <3>5. TableOK' /\ LeaseIndexed' BY <3>1, <3>4, LookAtEffect
    <3> QED BY <3>1, <3>3, <3>5, OfferTyped
  <2>3. CASE LookAt(seen(PoolSize - 1), c) /\ UNCHANGED <<reserved, cursor>>
    <3>1. seen(PoolSize - 1) \in SUBSET Addrs BY <2>1, PoolAssumption
    <3> HIDE DEF seen
    <3>2. TableOK' /\ LeaseIndexed' BY <2>3, <3>1, LookAtEffect
    <3> QED BY <2>3, <3>2 DEF TypeOK
  <2> QED BY <1>5, <2>2, <2>3 DEF AllocNext
<1> QED BY <1>1, <1>2, <1>3, <1>4, <1>5 DEF Alloc

-----------------------------------------------------------------------------

\* The invariant holds in the initial states.
LEMMA InitInv == Init => IInv
<1> SUFFICES ASSUME Init PROVE IInv OBVIOUS
<1>1. cursor \in Pool BY PoolAssumption DEF Init, Pool
<1>2. TypeOK BY <1>1 DEF Init, TypeOK
<1>3. LeaseIndexed BY DEF Init, LeaseIndexed
<1> QED BY <1>2, <1>3 DEF IInv

\* Time passes for both halves of a lease alike.
LEMMA TickInv == IInv /\ Tick => IInv'
<1> SUFFICES ASSUME IInv, Tick PROVE IInv' OBVIOUS
<1> USE DEF IInv
<1>1. \A l \in Lease : Dec(l) \in Lease /\ Dec(l).ip = l.ip BY TimesAssumption DEF Dec, Lease
<1>2. \A l \in Indexed : Dec(l) \in Indexed BY TimesAssumption DEF Dec, Indexed
<1>3. \A h \in Hold : h.left # 1 => Dec(h) \in Hold BY DEF Dec, Hold
<1>4. \A h \in [ip: Addrs, left: 1..LeaseTime] :
        h.left # 1 => Dec(h) \in [ip: Addrs, left: 1..LeaseTime]
  BY TimesAssumption DEF Dec
<1>5. leases' \in [Clients -> Lease \cup {None}] BY <1>1 DEF Tick, Wane, TypeOK
<1>6. byIP' \in [Addrs -> Indexed \cup {None}] BY <1>2 DEF Tick, Wane, TypeOK
<1>7. disk' \in [Clients -> Lease \cup {None}] BY <1>1 DEF Tick, Wane, TypeOK
<1>8. reserved' \in [Addrs -> Hold \cup {None}] BY <1>3 DEF Tick, Fade, TypeOK
<1>9. held' \in [Clients -> [ip: Addrs, left: 1..LeaseTime] \cup {None}]
  BY <1>4 DEF Tick, Fade, TypeOK
<1>10. TypeOK' BY <1>5, <1>6, <1>7, <1>8, <1>9 DEF Tick, TypeOK
<1>11. ASSUME NEW c \in Clients, leases'[c] # None
       PROVE  byIP'[leases'[c].ip] = [key |-> c, left |-> leases'[c].left,
                                      static |-> leases'[c].static]
  <2>1. leases[c] # None /\ leases'[c] = Dec(leases[c]) BY <1>11 DEF Tick, Wane
  <2>2. leases[c] \in Lease BY <2>1 DEF TypeOK
  <2> DEFINE b == leases[c].ip
  <2>3. byIP[b] = [key |-> c, left |-> leases[c].left, static |-> leases[c].static]
    BY <2>1 DEF LeaseIndexed
  <2>4. b \in Addrs /\ byIP[b] \in Indexed BY <2>2, <2>3 DEF Lease, Indexed
  <2>5. byIP'[b] = Dec(byIP[b]) BY <2>4, NoneAssumption DEF Tick, Wane
  <2>6. Dec(byIP[b]) = [key |-> c, left |-> Dec(leases[c]).left, static |-> Dec(leases[c]).static]
    BY <2>2, <2>3 DEF Dec, Lease
  <2>7. leases'[c].ip = b BY <1>1, <2>1, <2>2
  <2> QED BY <2>1, <2>5, <2>6, <2>7
<1>12. LeaseIndexed' BY <1>11 DEF LeaseIndexed
<1> QED BY <1>10, <1>12

\* A packet's record keeps its type.
LEMMA CallTyped ==
  ASSUME TypeOK, NEW p \in Procs, NEW r \in Call \cup {Idle}, call' = [call EXCEPT ![p] = r]
  PROVE  call' \in [Procs -> Call \cup {Idle}]
BY DEF TypeOK

\* What a packet handler remembers between its two sections.
LEMMA InFlight ==
  ASSUME TypeOK, NEW p \in Procs, call[p].pc # "idle"
  PROVE  call[p] \in Call /\ call[p].key \in Clients /\ call[p].ip \in Addrs
         /\ call[p].static \in BOOLEAN
<1>1. call[p] \in Call BY DEF TypeOK, Idle
<1> QED BY <1>1 DEF Call

\* A requested address is checked under the read lock.
LEMMA CheckInv == ASSUME IInv, NEW p \in Procs, Check(p) PROVE IInv'
<1> USE DEF IInv
<1> DEFINE c == call[p].key
           a == call[p].ip
           r == IF a \in Pool /\ ~Taken(a, c) THEN [call[p] EXCEPT !.pc = "static"] ELSE Idle
<1>1. call[p] \in Call /\ c \in Clients /\ a \in Addrs BY InFlight DEF Check
<1>2. call' = [call EXCEPT ![p] = r] BY DEF Check
<1>3. r \in Call \cup {Idle} BY <1>1 DEF Call
<1>4. call' \in [Procs -> Call \cup {Idle}] BY <1>2, <1>3, CallTyped
<1>5. TableOK' /\ LeaseIndexed'
  <2>1. CASE a \in Pool
    <3>1. LookAt({a}, c) /\ {a} \in SUBSET Addrs BY <1>1, <2>1 DEF Check
    <3> QED BY <1>1, <3>1, LookAtEffect
  <2>2. CASE a \notin Pool
    BY <2>2 DEF Check, TypeOK, TableOK, LeaseIndexed, table
  <2> QED BY <2>1, <2>2
<1> QED BY <1>4, <1>5 DEF Check, TypeOK, TableOK

\* A packet's lease is committed and acknowledged.
LEMMA CommitInv == ASSUME IInv, NEW p \in Procs, Commit(p) PROVE IInv'
<1> USE DEF IInv
<1>1. /\ call[p].key \in Clients /\ call[p].ip \in Addrs /\ call[p].static \in BOOLEAN
  BY InFlight DEF Commit
<1>2. /\ TableOK' /\ LeaseIndexed' /\ reserved' = [reserved EXCEPT ![call[p].ip] = None]
  BY <1>1, CommitEffect DEF Commit
<1>3. call' \in [Procs -> Call \cup {Idle}] BY CallTyped DEF Commit
<1>4. held' \in [Clients -> [ip: Addrs, left: 1..LeaseTime] \cup {None}]
  <2>1. LeaseTime \in 1..LeaseTime BY TimesAssumption
  <2>2. [ip |-> call[p].ip, left |-> LeaseTime] \in [ip: Addrs, left: 1..LeaseTime]
    BY <1>1, <2>1
  <2> QED BY <2>2 DEF Commit, Grant, TypeOK
<1>5. reserved' \in [Addrs -> Hold \cup {None}] BY <1>2 DEF TypeOK
<1> QED BY <1>2, <1>3, <1>4, <1>5 DEF Commit, TypeOK, TableOK

\* A release gives the lease up.
LEMMA ReleaseInv == ASSUME IInv, NEW c \in Clients, NEW a \in Addrs, Release(c, a) PROVE IInv'
<1> USE DEF IInv
<1>1. TableOK' /\ LeaseIndexed'
  <2>1. CASE leases[c] # None /\ leases[c].ip = a
    <3>1. /\ leases' = [leases EXCEPT ![c] = None] /\ byIP' = [byIP EXCEPT ![a] = None]
          /\ RebuildHosts(static) /\ dirty' = TRUE
      BY <2>1 DEF Release, ReleaseLease
    <3>2. TableOK' BY <3>1, NamesTyped DEF TableOK, TypeOK
    <3>3. ASSUME NEW k \in Clients, leases'[k] # None
          PROVE  byIP'[leases'[k].ip] = [key |-> k, left |-> leases'[k].left,
                                         static |-> leases'[k].static]
      <4>1. k # c /\ leases'[k] = leases[k] BY <3>1, <3>3 DEF TypeOK
      <4>2. byIP[leases[k].ip] = [key |-> k, left |-> leases[k].left, static |-> leases[k].static]
        BY <3>3, <4>1 DEF LeaseIndexed
      <4>3. byIP[a] = [key |-> c, left |-> leases[c].left, static |-> leases[c].static]
        BY <2>1 DEF LeaseIndexed
      <4>4. leases[k].ip # a BY <4>1, <4>2, <4>3
      <4>5. leases[k].ip \in Addrs BY <3>3, <4>1 DEF TypeOK, Lease
      <4> QED BY <3>1, <4>1, <4>2, <4>4, <4>5 DEF TypeOK
    <3> QED BY <3>2, <3>3 DEF LeaseIndexed
  <2>2. CASE ~(leases[c] # None /\ leases[c].ip = a)
    BY <2>2 DEF Release, ReleaseLease, table, TypeOK, TableOK, LeaseIndexed
  <2> QED BY <2>1, <2>2
<1>2. held' \in [Clients -> [ip: Addrs, left: 1..LeaseTime] \cup {None}]
  BY DEF Release, TypeOK
<1> QED BY <1>1, <1>2 DEF Release, TypeOK, TableOK

\* A decline gives the lease up and holds the address back.
LEMMA DeclineInv == ASSUME IInv, NEW c \in Clients, Decline(c) PROVE IInv'
<1> USE DEF IInv
<1> DEFINE a == held[c].ip
<1>0. a \in Addrs BY DEF Decline, TypeOK
<1>1. /\ leases' = [k \in Clients |-> IF byIP[a] # None /\ byIP[a].key = k
                                          THEN None ELSE leases[k]]
      /\ byIP' = [byIP EXCEPT ![a] = None]
      /\ reserved' = [reserved EXCEPT ![a] = [key |-> None, left |-> DeclinedHold]]
      /\ RebuildHosts(static) /\ dirty' = TRUE
  BY DEF Decline
<1>2. TableOK' BY <1>1, NamesTyped DEF TableOK, TypeOK
<1>3. ASSUME NEW k \in Clients, leases'[k] # None
      PROVE  byIP'[leases'[k].ip] = [key |-> k, left |-> leases'[k].left,
                                     static |-> leases'[k].static]
  <2>1. leases'[k] = leases[k] /\ ~(byIP[a] # None /\ byIP[a].key = k) BY <1>1, <1>3
  <2>2. byIP[leases[k].ip] = [key |-> k, left |-> leases[k].left, static |-> leases[k].static]
    BY <1>3, <2>1 DEF LeaseIndexed
  <2>3. leases[k] \in Lease BY <1>3, <2>1 DEF TypeOK
  <2>4. leases[k].ip \in Addrs /\ byIP[leases[k].ip] \in Indexed BY <2>2, <2>3 DEF Lease, Indexed
  <2>5. leases[k].ip # a BY <2>1, <2>2, <2>4, NoneAssumption
  <2> QED BY <1>1, <2>1, <2>2, <2>4, <2>5 DEF TypeOK
<1>4. LeaseIndexed' BY <1>3 DEF LeaseIndexed
<1>5. [key |-> None, left |-> DeclinedHold] \in Hold BY TimesAssumption DEF Hold
<1>6. reserved' \in [Addrs -> Hold \cup {None}] BY <1>1, <1>5 DEF TypeOK
<1>7. held' \in [Clients -> [ip: Addrs, left: 1..LeaseTime] \cup {None}] BY DEF Decline, TypeOK
<1> QED BY <1>2, <1>4, <1>6, <1>7 DEF Decline, TypeOK, TableOK

\* Every step keeps the invariant.
LEMMA StepInv == ~Reload /\ IInv /\ [Next]_vars => IInv'
<1> SUFFICES ASSUME ~Reload, IInv, [Next]_vars PROVE IInv' OBVIOUS
<1> USE DEF IInv
<1>1. CASE UNCHANGED vars BY <1>1 DEF vars, TypeOK, LeaseIndexed
<1>2. CASE Tick BY <1>2, TickInv
<1>3. CASE Persist \/ SetConfig \/ Restart BY <1>3 DEF Persist, SetConfig, Restart
<1>4. ASSUME NEW p \in Procs, Packet(p) PROVE IInv'
  <2>1. CASE Check(p) BY <2>1, CheckInv
  <2>2. CASE ReadStatic(p)
    <3> DEFINE r == [call[p] EXCEPT !.pc = "commit", !.static = static[call[p].key] = call[p].ip]
    <3>1. call' = [call EXCEPT ![p] = r] BY <2>2 DEF ReadStatic
    <3>2. call[p] \in Call BY <2>2, InFlight DEF ReadStatic
    <3>3. r \in Call BY <3>2 DEF Call
    <3>4. call' \in [Procs -> Call \cup {Idle}] BY <3>1, <3>3, CallTyped
    <3> QED BY <2>2, <3>4 DEF ReadStatic, TypeOK, LeaseIndexed, table
  <2>3. CASE Commit(p) BY <2>3, CommitInv
  <2> QED BY <1>4, <2>1, <2>2, <2>3 DEF Packet
<1>5. ASSUME NEW c \in Clients, Decline(c) PROVE IInv' BY <1>5, DeclineInv
<1>6. ASSUME NEW c \in Clients, NEW a \in Addrs, Release(c, a) PROVE IInv' BY <1>6, ReleaseInv
<1>7. ASSUME NEW c \in Clients, NEW a \in Addrs, NEW p \in Procs, Request(p, c, a) PROVE IInv'
  <2> DEFINE r == [pc |-> "check", key |-> c, ip |-> a, static |-> FALSE]
  <2>1. r \in Call BY DEF Call
  <2>2. call' = [call EXCEPT ![p] = r] BY <1>7 DEF Request
  <2>3. call' \in [Procs -> Call \cup {Idle}] BY <2>1, <2>2, CallTyped
  <2> QED BY <1>7, <2>3 DEF Request, TypeOK, LeaseIndexed, table
<1>8. ASSUME NEW c \in Clients, NEW a \in Addrs \cup {None}, Discover(c, a) PROVE IInv'
  <2>1. PICK out \in Addrs \cup {None} : Alloc(c, a, out) BY <1>8 DEF Discover
  <2>2. TableOK' /\ LeaseIndexed' /\ reserved' \in [Addrs -> Hold \cup {None}] /\ cursor' \in Pool
    BY <2>1, AllocEffect
  <2> QED BY <1>8, <2>2 DEF Discover, TypeOK, TableOK
<1>9. ASSUME NEW c \in Clients, NEW a \in Addrs \cup {None}, NEW p \in Procs, NEW rapid \in BOOLEAN,
             Solicit(p, c, a, rapid)
      PROVE  IInv'
  <2>1. PICK out \in Addrs \cup {None} :
          /\ Alloc(c, a, out)
          /\ call' = IF rapid /\ out # None
                       THEN [call EXCEPT ![p] = [pc |-> "rapid", key |-> c, ip |-> out,
                                                 static |-> static[c] # None]]
                       ELSE call
    BY <1>9 DEF Solicit
  <2>2. TableOK' /\ LeaseIndexed' /\ reserved' \in [Addrs -> Hold \cup {None}] /\ cursor' \in Pool
    BY <2>1, AllocEffect
  <2>3. call' \in [Procs -> Call \cup {Idle}]
    <3>1. CASE rapid /\ out # None
      <4>1. [pc |-> "rapid", key |-> c, ip |-> out, static |-> static[c] # None] \in Call
        BY <3>1 DEF Call
      <4> QED BY <2>1, <3>1, <4>1, CallTyped
    <3>2. CASE ~(rapid /\ out # None) BY <2>1, <3>2 DEF TypeOK
    <3> QED BY <3>1, <3>2
  <2> QED BY <1>9, <2>2, <2>3 DEF Solicit, TypeOK, TableOK
<1> QED BY <1>1, <1>2, <1>3, <1>4, <1>5, <1>6, <1>7, <1>8, <1>9 DEF Next, RequestV4

\* While the configuration is not re-applied, the two maps agree and every
\* variable has its type, for any number of packets handled at once.
THEOREM Inductive == ~Reload => (Spec => []IInv)
<1> SUFFICES ASSUME ~Reload PROVE Spec => []IInv OBVIOUS
<1>1. IInv /\ [Next]_vars => IInv' BY StepInv
<1> QED BY <1>1, InitInv, PTL DEF Spec

\* No interleaving of packet handlers takes the two halves of a lease apart.
THEOREM LeaseIndexedHolds == ~Reload => (Spec => []LeaseIndexed)
<1> SUFFICES ASSUME ~Reload PROVE Spec => []LeaseIndexed OBVIOUS
<1>1. IInv => LeaseIndexed BY DEF IInv
<1>2. Spec => []IInv BY Inductive
<1> QED BY <1>1, <1>2, PTL

-----------------------------------------------------------------------------
(* Packets handled one at a time *)

Sequential == \A p, q \in Procs : p = q

\* No two clients share a reservation, and none is inside the range.
StaticsApart ==
  \A st \in Statics, c, d \in Clients : st[c] # None => st[c] \notin Pool /\ (st[d] = st[c] => c = d)

\* What a client believes is on the server's books, for at least as long.
HeldIndexed ==
  \A c \in Clients : held[c] # None =>
    /\ byIP[held[c].ip] # None /\ byIP[held[c].ip].key = c
    /\ byIP[held[c].ip].static \/ held[c].left <= byIP[held[c].ip].left

\* An address on offer or declined is leased to nobody else.
HoldsClear ==
  \A a \in Addrs : reserved[a] # None =>
    /\ ~Foreign(a, reserved[a].key)
    /\ reserved[a].key # None => a \in Pool

\* Outside the range there are only reservations.
OutsideOwned == \A a \in Addrs : byIP[a] # None /\ a \notin Pool => static[byIP[a].key] = a

\* The address a client may be given: nobody else's, not held for another.
Clear(c, a) ==
  /\ ~Foreign(a, c)
  /\ reserved[a] # None => reserved[a].key = c
  /\ a \in Pool \/ static[c] = a

CallsClear ==
  \A p \in Procs : call[p].pc \in {"static", "commit", "rapid"} => Clear(call[p].key, call[p].ip)

\* The invariant of the table alone.
TInv == IInv /\ HeldIndexed /\ HoldsClear /\ OutsideOwned

SInv == TInv /\ CallsClear

\* A declined pool address stays withheld in this step.
Withheld ==
  \A a \in Pool : reserved[a] # None /\ reserved[a].key = None =>
    \/ reserved'[a] # None /\ reserved'[a].key = None
    \/ reserved[a].left = 1 /\ reserved'[a] = None

\* Dropping lapsed leases disturbs nobody.
LEMMA LookSafe ==
  ASSUME TInv, NEW S \in SUBSET Addrs, NEW c \in Clients, LookAt(S, c), UNCHANGED <<held, static>>
  PROVE  /\ HeldIndexed' /\ OutsideOwned'
         /\ \A a \in Addrs, k \in Clients \cup {None} : ~Foreign(a, k) => ~Foreign(a, k)'
         /\ \A a \in S : ~(Foreign(a, c) /\ Live(byIP[a])) => ~Foreign(a, c)'
<1> USE DEF TInv, IInv
<1>1. \A a \in Addrs : byIP'[a] = IF a \in S /\ Lapsed(a, c) THEN None ELSE byIP[a]
  BY LookAtEffect
<1>2. HeldIndexed'
  <2> SUFFICES ASSUME NEW d \in Clients, held[d] # None
               PROVE  byIP'[held[d].ip] = byIP[held[d].ip]
    BY DEF HeldIndexed
  <2>1. held[d] \in [ip: Addrs, left: 1..LeaseTime] BY DEF TypeOK
  <2>2. byIP[held[d].ip] \in Indexed BY <2>1 DEF HeldIndexed, TypeOK
  <2>3. Live(byIP[held[d].ip]) BY <2>1, <2>2 DEF HeldIndexed, Live, Indexed
  <2> QED BY <1>1, <2>1, <2>3 DEF Lapsed
<1>3. OutsideOwned' BY <1>1 DEF OutsideOwned
<1>4. \A a \in Addrs, k \in Clients \cup {None} : ~Foreign(a, k) => ~Foreign(a, k)'
  BY <1>1 DEF Foreign
<1>5. \A a \in S : ~(Foreign(a, c) /\ Live(byIP[a])) => ~Foreign(a, c)'
  BY <1>1 DEF Foreign, Lapsed
<1> QED BY <1>2, <1>3, <1>4, <1>5

\* Committing an address that is clear for the client disturbs nobody else.
LEMMA CommitSafe ==
  ASSUME TInv, NEW c \in Clients, NEW a \in Addrs, NEW fixed \in BOOLEAN, ~Foreign(a, c),
         a \in Pool \/ static[c] = a, CommitLease(c, a, fixed), UNCHANGED static,
         UNCHANGED held \/ Grant(c, a)
  PROVE  HeldIndexed' /\ HoldsClear' /\ OutsideOwned' /\ ~Foreign(a, c)' /\ reserved'[a] = None
<1> USE DEF TInv, IInv
<1>1. PICK l \in Indexed :
        /\ l.key = c /\ l.static = fixed
        /\ ~fixed => l.left = LeaseTime
        /\ byIP' = [byIP EXCEPT ![a] = l]
  BY CommitEffect
<1>2. reserved' = [reserved EXCEPT ![a] = None] BY CommitEffect
<1>3. byIP'[a] = l /\ \A b \in Addrs : b # a => byIP'[b] = byIP[b] BY <1>1 DEF TypeOK
<1>4. reserved'[a] = None /\ \A b \in Addrs : b # a => reserved'[b] = reserved[b]
  BY <1>2 DEF TypeOK
<1>5. HeldIndexed'
  <2> SUFFICES ASSUME NEW d \in Clients, held'[d] # None
               PROVE  /\ byIP'[held'[d].ip] # None /\ byIP'[held'[d].ip].key = d
                      /\ byIP'[held'[d].ip].static \/ held'[d].left <= byIP'[held'[d].ip].left
    BY DEF HeldIndexed
  <2>1. CASE held'[d] = held[d]
    <3>1. held[d] \in [ip: Addrs, left: 1..LeaseTime] BY <2>1 DEF TypeOK
    <3>2. CASE held[d].ip = a
      <4>1. d = c BY <2>1, <3>2 DEF HeldIndexed, Foreign
      <4>2. fixed \/ held[d].left <= l.left BY <1>1, <3>1, TimesAssumption
      <4> QED BY <1>1, <1>3, <2>1, <3>2, <4>1, <4>2, NoneAssumption
    <3>3. CASE held[d].ip # a BY <1>3, <2>1, <3>1, <3>3 DEF HeldIndexed
    <3> QED BY <3>2, <3>3
  <2>2. CASE d = c /\ held'[d] = [ip |-> a, left |-> LeaseTime]
    <3>1. fixed \/ LeaseTime <= l.left BY <1>1, TimesAssumption
    <3> QED BY <1>1, <1>3, <2>2, <3>1, NoneAssumption
  <2>3. held'[d] = held[d] \/ (d = c /\ held'[d] = [ip |-> a, left |-> LeaseTime])
    BY DEF Grant, TypeOK
  <2> QED BY <2>1, <2>2, <2>3
<1>6. HoldsClear' BY <1>3, <1>4 DEF HoldsClear, Foreign
<1>7. OutsideOwned' BY <1>1, <1>3 DEF OutsideOwned
<1> QED BY <1>1, <1>3, <1>4, <1>5, <1>6, <1>7 DEF Foreign

\* Looking at addresses and offering a free one of them.
LEMMA OfferSafe ==
  ASSUME TInv, NEW S \in SUBSET Addrs, NEW c \in Clients, NEW x \in S, x \in Pool, ~Taken(x, c),
         LookAt(S, c), Offer(c, x), UNCHANGED <<held, static>>
  PROVE  HeldIndexed' /\ HoldsClear' /\ OutsideOwned' /\ Clear(c, x)' /\ Withheld
<1> USE DEF TInv, IInv
<1>1. /\ HeldIndexed' /\ OutsideOwned'
      /\ \A a \in Addrs, k \in Clients \cup {None} : ~Foreign(a, k) => ~Foreign(a, k)'
      /\ \A a \in S : ~(Foreign(a, c) /\ Live(byIP[a])) => ~Foreign(a, c)'
  BY LookSafe
<1>2. ~Foreign(x, c)' BY <1>1 DEF Taken
<1>3. /\ reserved'[x] = [key |-> c, left |-> OfferedHold]
      /\ \A b \in Addrs : b # x => reserved'[b] = reserved[b]
  BY DEF Offer, TypeOK
<1>4. HoldsClear'
  <2> SUFFICES ASSUME NEW b \in Addrs, reserved'[b] # None
               PROVE  ~Foreign(b, reserved[b].key)' /\ (reserved'[b].key # None => b \in Pool)
    BY DEF HoldsClear
  <2>1. CASE b = x BY <1>2, <1>3, <2>1 DEF Foreign
  <2>2. CASE b # x
    <3>1. reserved'[b] = reserved[b] BY <1>3, <2>2
    <3>2. reserved[b].key \in Clients \cup {None} BY <3>1 DEF TypeOK, Hold
    <3>3. ~Foreign(b, reserved[b].key) /\ (reserved[b].key # None => b \in Pool)
      BY <3>1 DEF HoldsClear
    <3>4. \A k \in Clients \cup {None} : ~Foreign(b, k) => ~Foreign(b, k)' BY <1>1
    <3> QED BY <3>1, <3>2, <3>3, <3>4 DEF Foreign
  <2> QED BY <2>1, <2>2
<1>5. Clear(c, x)' BY <1>2, <1>3 DEF Clear
<1>6. Withheld
  <2>1. ~(reserved[x] # None /\ reserved[x].key = None) BY PoolAssumption DEF Taken
  <2> QED BY <1>3, <2>1 DEF Withheld, Addrs
<1> QED BY <1>1, <1>4, <1>5, <1>6

\* A reservation is clear for its client.
LEMMA StaticClear ==
  ASSUME TInv, StaticsApart, NEW c \in Clients, static[c] # None
  PROVE  static[c] \in Addrs /\ static[c] \notin Pool /\ ~Foreign(static[c], c)
<1> USE DEF TInv, IInv
<1>1. static \in Statics /\ static \in [Clients -> Addrs \cup {None}]
  BY StaticsAssumption DEF TypeOK
<1>2. static[c] \in Addrs /\ static[c] \notin Pool BY <1>1 DEF StaticsApart
<1>3. ~Foreign(static[c], c)
  <2> SUFFICES ASSUME byIP[static[c]] # None PROVE byIP[static[c]].key = c BY DEF Foreign
  <2>1. byIP[static[c]].key \in Clients BY <1>2 DEF TypeOK, Indexed
  <2>2. static[byIP[static[c]].key] = static[c] BY <1>2 DEF OutsideOwned
  <2> QED BY <1>1, <2>1, <2>2 DEF StaticsApart
<1> QED BY <1>2, <1>3

\* allocV4 / allocV6 keeps what the clients believe, withholds what is
\* declined and returns an address that is clear for the client.
LEMMA AllocSafe ==
  ASSUME TInv, StaticsApart, NEW c \in Clients, NEW req \in Addrs \cup {None},
         NEW out \in Addrs \cup {None}, Alloc(c, req, out), UNCHANGED <<held, static>>
  PROVE  /\ HeldIndexed' /\ HoldsClear' /\ OutsideOwned' /\ Withheld
         /\ out # None => Clear(c, out)'
<1> USE DEF TInv, IInv
<1>1. CASE AllocStatic(c, out)
  <2>1. static[c] # None /\ out = static[c] /\ CommitLease(c, out, TRUE) BY <1>1 DEF AllocStatic
  <2>2. out \in Addrs /\ out \notin Pool /\ ~Foreign(out, c) BY <2>1, StaticClear
  <2>3. HeldIndexed' /\ HoldsClear' /\ OutsideOwned' /\ ~Foreign(out, c)' /\ reserved'[out] = None
    BY <2>1, <2>2, CommitSafe
  <2>4. Withheld
    <3>1. reserved' = [reserved EXCEPT ![out] = None] BY <2>1, <2>2, CommitEffect
    <3>2. \A a \in Pool : reserved'[a] = reserved[a] BY <2>2, <3>1 DEF TypeOK, Addrs
    <3> QED BY <3>2 DEF Withheld
  <2> QED BY <2>1, <2>3, <2>4 DEF Clear
<1>2. CASE AllocOwn(c, out)
  <2>1. leases[c] # None /\ out = leases[c].ip /\ Renew(c) BY <1>2 DEF AllocOwn
  <2>2. leases[c] \in Lease /\ out \in Addrs BY <2>1 DEF TypeOK, Lease
  <2>3. byIP[out] = [key |-> c, left |-> leases[c].left, static |-> leases[c].static]
    BY <2>1 DEF LeaseIndexed
  <2>4. byIP[out] \in Indexed /\ byIP[out] # None /\ byIP[out].key = c
    BY <2>2, <2>3, NoneAssumption DEF Lease, Indexed
  <2>5. reserved[out] # None => reserved[out].key = c
    BY <2>2, <2>4 DEF HoldsClear, Foreign
  <2>6. reserved' = reserved \/ reserved' = [reserved EXCEPT ![out] = None]
    BY <2>1, RenewEffect
  <2>7. \A a \in Addrs :
          \/ byIP'[a] = byIP[a]
          \/ /\ byIP[a] \in Indexed /\ byIP'[a] \in Indexed
             /\ byIP'[a].key = byIP[a].key /\ byIP'[a].static = byIP[a].static
             /\ byIP'[a].left = LeaseTime
    BY <2>1, RenewEffect
  <2>8. \A a \in Addrs :
          /\ byIP'[a] = None <=> byIP[a] = None
          /\ byIP[a] # None => byIP'[a].key = byIP[a].key
    BY <2>7, NoneAssumption
  <2>9. \A a \in Addrs : reserved'[a] = reserved[a] \/ (a = out /\ reserved'[a] = None)
    BY <2>6 DEF TypeOK
  <2>10. HeldIndexed'
    <3> SUFFICES ASSUME NEW d \in Clients, held[d] # None
                 PROVE  /\ byIP'[held[d].ip] # None /\ byIP'[held[d].ip].key = d
                        /\ byIP'[held[d].ip].static \/ held[d].left <= byIP'[held[d].ip].left
      BY DEF HeldIndexed
    <3>1. held[d] \in [ip: Addrs, left: 1..LeaseTime] BY DEF TypeOK
    <3>2. /\ byIP[held[d].ip] # None /\ byIP[held[d].ip].key = d
          /\ byIP[held[d].ip].static \/ held[d].left <= byIP[held[d].ip].left
      BY DEF HeldIndexed
    <3>3. held[d].ip \in Addrs /\ held[d].left <= LeaseTime BY <3>1, TimesAssumption
    <3> QED BY <2>7, <2>8, <3>2, <3>3
  <2>11. HoldsClear' BY <2>8, <2>9 DEF HoldsClear, Foreign
  <2>12. OutsideOwned' BY <2>8 DEF OutsideOwned
  <2>13. Withheld
    <3>1. c # None BY PoolAssumption
    <3> QED BY <2>5, <2>9, <3>1 DEF Withheld, Addrs
  <2>14. Clear(c, out)'
    <3>1. ~Foreign(out, c)' BY <2>2, <2>4, <2>8 DEF Foreign
    <3>2. out \in Pool \/ static[c] = out BY <2>2, <2>4 DEF OutsideOwned
    <3> QED BY <2>2, <2>5, <2>9, <3>1, <3>2 DEF Clear
  <2> QED BY <2>10, <2>11, <2>12, <2>13, <2>14
<1>3. CASE AllocAgain(c, out)
  <2>1. out \in Addrs /\ reserved[out] # None /\ reserved[out].key = c
    BY <1>3 DEF AllocAgain, Offered
  <2>2. c # None BY PoolAssumption
  <2>3. Clear(c, out) BY <2>1, <2>2 DEF HoldsClear, Clear
  <2>4. UNCHANGED <<byIP, reserved>> BY <1>3 DEF AllocAgain, table
  <2> QED BY <2>3, <2>4 DEF Clear, HeldIndexed, HoldsClear, OutsideOwned, Withheld, Foreign
<1>4. CASE AllocRequested(c, req, out)
  <2>1. req \in Pool /\ req \in Addrs /\ ~Taken(req, c) /\ out = req /\ LookAt({req}, c) /\ Offer(c, req)
    BY <1>4 DEF AllocRequested, Addrs
  <2> QED BY <2>1, OfferSafe
<1>5. CASE AllocNext(c, req, out)
  <2> DEFINE seen(n) == {At(i) : i \in 0..n} \cup ({req} \cap Pool)
  <2>1. \A n \in Nat : seen(n) \in SUBSET Addrs BY Wraps DEF TypeOK, Addrs
  <2>2. CASE \E n \in 0..(PoolSize - 1) :
               ~Taken(At(n), c) /\ out = At(n) /\ LookAt(seen(n), c) /\ Offer(c, out)
    <3>1. PICK n \in 0..(PoolSize - 1) :
            ~Taken(At(n), c) /\ out = At(n) /\ LookAt(seen(n), c) /\ Offer(c, out)
      BY <2>2
    <3>2. n \in Nat BY PoolAssumption
    <3>3. out \in Pool BY <3>1, <3>2, Wraps DEF TypeOK
    <3>4. seen(n) \in SUBSET Addrs BY <2>1, <3>2
    <3>5. out \in seen(n) BY <3>1, <3>2
    <3> HIDE DEF seen
    <3> QED BY <3>1, <3>3, <3>4, <3>5, OfferSafe
  <2>3. CASE out = None /\ LookAt(seen(PoolSize - 1), c) /\ UNCHANGED <<reserved, cursor>>
    <3>1. seen(PoolSize - 1) \in SUBSET Addrs BY <2>1, PoolAssumption
    <3> HIDE DEF seen
    <3>2. /\ HeldIndexed' /\ OutsideOwned'
          /\ \A a \in Addrs, k \in Clients \cup {None} : ~Foreign(a, k) => ~Foreign(a, k)'
      BY <2>3, <3>1, LookSafe
    <3>3. HoldsClear'
      <4> SUFFICES ASSUME NEW b \in Addrs, reserved[b] # None
                   PROVE  ~Foreign(b, reserved[b].key)' /\ (reserved[b].key # None => b \in Pool)
        BY <2>3 DEF HoldsClear, Foreign
      <4>1. reserved[b].key \in Clients \cup {None} BY DEF TypeOK, Hold
      <4>2. ~Foreign(b, reserved[b].key) /\ (reserved[b].key # None => b \in Pool) BY DEF HoldsClear
      <4>3. \A k \in Clients \cup {None} : ~Foreign(b, k) => ~Foreign(b, k)' BY <3>2
      <4> QED BY <2>3, <4>1, <4>2, <4>3 DEF Foreign
    <3> QED BY <2>3, <3>2, <3>3 DEF Withheld
  <2> QED BY <1>5, <2>2, <2>3 DEF AllocNext
<1> QED BY <1>1, <1>2, <1>3, <1>4, <1>5 DEF Alloc

\* Time passes for a client's belief as it does for the books.
LEMMA TickSafe == ASSUME SInv, Tick PROVE TInv' /\ CallsClear' /\ Withheld
<1> USE DEF SInv, TInv, IInv
<1>0. IInv' BY TickInv
<1>1. \A a \in Addrs :
        /\ byIP[a] = None => byIP'[a] = None
        /\ byIP[a] # None => byIP[a] \in Indexed /\ byIP'[a] = Dec(byIP[a]) /\ byIP'[a] \in Indexed
  <2>1. \A l \in Indexed : Dec(l) \in Indexed BY TimesAssumption DEF Dec, Indexed
  <2> QED BY <2>1 DEF Tick, Wane, TypeOK
<1>2. \A l \in Indexed :
        /\ Dec(l).key = l.key /\ Dec(l).static = l.static
        /\ Dec(l).left = IF l.left = 0 THEN 0 ELSE l.left - 1
  BY DEF Dec, Indexed
<1>3. \A a \in Addrs : byIP[a] # None =>
        /\ byIP'[a] # None /\ byIP'[a].key = byIP[a].key /\ byIP'[a].static = byIP[a].static
        /\ byIP'[a].left = IF byIP[a].left = 0 THEN 0 ELSE byIP[a].left - 1
  BY <1>1, <1>2, NoneAssumption
<1>4. \A a \in Addrs, k \in Clients \cup {None} : ~Foreign(a, k) => ~Foreign(a, k)'
  BY <1>1, <1>3 DEF Foreign
<1>5. \A a \in Addrs : reserved'[a] # None =>
        reserved[a] # None /\ reserved[a].left # 1 /\ reserved'[a].key = reserved[a].key
  <2>1. \A h \in Hold : Dec(h).key = h.key BY DEF Dec, Hold
  <2> QED BY <2>1 DEF Tick, Fade, TypeOK
<1>6. HeldIndexed'
  <2> SUFFICES ASSUME NEW d \in Clients, held'[d] # None
               PROVE  /\ byIP'[held'[d].ip] # None /\ byIP'[held'[d].ip].key = d
                      /\ byIP'[held'[d].ip].static \/ held'[d].left <= byIP'[held'[d].ip].left
    BY DEF HeldIndexed
  <2>1. held[d] # None /\ held[d].left # 1 /\ held'[d] = Dec(held[d]) BY DEF Tick, Fade
  <2>2. held[d] \in [ip: Addrs, left: 1..LeaseTime] BY <2>1 DEF TypeOK
  <2>3. held'[d].ip = held[d].ip /\ held'[d].left = held[d].left - 1
    BY <2>1, <2>2 DEF Dec
  <2>4. /\ byIP[held[d].ip] # None /\ byIP[held[d].ip].key = d
        /\ byIP[held[d].ip].static \/ held[d].left <= byIP[held[d].ip].left
    BY <2>1 DEF HeldIndexed
  <2>5. byIP[held[d].ip].left \in Nat /\ held[d].left \in Nat \ {0}
    BY <1>1, <2>2, <2>4 DEF Indexed
  <2> QED BY <1>3, <2>2, <2>3, <2>4, <2>5
<1>7. HoldsClear'
  <2> SUFFICES ASSUME NEW b \in Addrs, reserved'[b] # None
               PROVE  ~Foreign(b, reserved[b].key)' /\ (reserved'[b].key # None => b \in Pool)
    BY DEF HoldsClear
  <2>1. reserved[b] # None /\ reserved'[b].key = reserved[b].key BY <1>5
  <2>2. reserved[b].key \in Clients \cup {None} BY <2>1 DEF TypeOK, Hold
  <2>3. ~Foreign(b, reserved[b].key) /\ (reserved[b].key # None => b \in Pool)
    BY <2>1 DEF HoldsClear
  <2> QED BY <1>4, <2>1, <2>2, <2>3 DEF Foreign
<1>8. OutsideOwned' BY <1>1, <1>3 DEF OutsideOwned, Tick
<1>9. CallsClear'
  <2> SUFFICES ASSUME NEW p \in Procs, call[p].pc \in {"static", "commit", "rapid"}
               PROVE  Clear(call[p].key, call[p].ip)'
    BY DEF CallsClear, Tick
  <2>1. Clear(call[p].key, call[p].ip) BY DEF CallsClear
  <2>2. call[p].key \in Clients /\ call[p].ip \in Addrs BY InFlight
  <2>3. ~Foreign(call[p].ip, call[p].key)' BY <1>4, <2>1, <2>2 DEF Clear, Foreign, Tick
  <2> QED BY <1>5, <2>1, <2>2, <2>3 DEF Clear, Tick
<1>10. Withheld
  <2>1. \A h \in Hold : h.left # 1 => Dec(h) \in Hold /\ Dec(h).key = h.key BY DEF Dec, Hold
  <2>2. \A a \in Addrs : reserved[a] # None => reserved[a] \in Hold BY DEF TypeOK
  <2>3. \A a \in Addrs : reserved[a] # None /\ reserved[a].left # 1 =>
                          reserved'[a] \in Hold /\ reserved'[a].key = reserved[a].key
    BY <2>1, <2>2 DEF Tick, Fade
  <2>4. \A a \in Addrs : reserved[a] # None /\ reserved[a].left = 1 => reserved'[a] = None
    BY DEF Tick, Fade
  <2> QED BY <2>3, <2>4, NoneAssumption DEF Withheld, Addrs
<1> QED BY <1>0, <1>6, <1>7, <1>8, <1>9, <1>10

\* The stronger invariant holds in the initial states.
LEMMA InitSafe == Init => SInv
<1> SUFFICES ASSUME Init PROVE SInv OBVIOUS
<1>1. IInv BY InitInv
<1>2. HeldIndexed BY DEF Init, HeldIndexed
<1>3. HoldsClear /\ OutsideOwned BY DEF Init, HoldsClear, OutsideOwned
<1>4. CallsClear BY DEF Init, CallsClear, Idle
<1> QED BY <1>1, <1>2, <1>3, <1>4 DEF SInv, TInv

\* With one packet at a time a free slot means that none is in flight.
LEMMA AllIdle ==
  ASSUME Sequential, TypeOK, Free # {} PROVE \A p \in Procs : call[p] = Idle
BY DEF Sequential, Free

\* Every step keeps it, and what is withheld stays so.
LEMMA StepSafe ==
  ASSUME ~Reload, Sequential, StaticsApart, SInv, [Next]_vars
  PROVE  SInv' /\ [Withheld]_vars
<1> USE DEF SInv, TInv
<1>0. IInv' BY StepInv
<1>a. TypeOK /\ LeaseIndexed BY DEF IInv
<1>1. CASE UNCHANGED vars
  <2>1. HeldIndexed' /\ HoldsClear' /\ OutsideOwned'
    BY <1>1 DEF vars, HeldIndexed, HoldsClear, OutsideOwned, Foreign
  <2>2. CallsClear' BY <1>1 DEF vars, CallsClear, Clear, Foreign
  <2> QED BY <1>0, <1>1, <2>1, <2>2
<1>2. CASE Tick BY <1>2, TickSafe
<1>3. CASE Persist \/ SetConfig \/ Restart BY <1>3 DEF Persist, SetConfig, Restart
<1>4. ASSUME NEW p \in Procs, Packet(p) PROVE SInv' /\ Withheld
  <2> DEFINE c == call[p].key
             a == call[p].ip
  <2>0. call[p].pc # "idle" BY <1>4 DEF Packet, Check, ReadStatic, Commit
  <2>1. c \in Clients /\ a \in Addrs /\ call[p].static \in BOOLEAN /\ call[p] \in Call
    BY <1>a, <2>0, InFlight
  <2>2. \A q \in Procs : q = p BY DEF Sequential
  <2>3. CASE Check(p)
    <3>1. UNCHANGED <<held, static, reserved>> BY <2>3 DEF Check
    <3>2. CASE a \in Pool
      <4>1. LookAt({a}, c) /\ {a} \in SUBSET Addrs BY <2>1, <2>3, <3>2 DEF Check
      <4>x. PICK k \in Clients, e \in Addrs : k = c /\ e = a BY <2>1
      <4>y. LookAt({e}, k) /\ {e} \in SUBSET Addrs BY <4>1, <4>x
      <4>z. /\ HeldIndexed' /\ OutsideOwned'
            /\ \A b \in Addrs, m \in Clients \cup {None} : ~Foreign(b, m) => ~Foreign(b, m)'
            /\ \A b \in {e} : ~(Foreign(b, k) /\ Live(byIP[b])) => ~Foreign(b, k)'
        BY <3>1, <4>y, LookSafe
      <4>2. /\ HeldIndexed' /\ OutsideOwned'
            /\ \A b \in Addrs, m \in Clients \cup {None} : ~Foreign(b, m) => ~Foreign(b, m)'
            /\ ~(Foreign(e, k) /\ Live(byIP[e])) => ~Foreign(e, k)'
        BY <4>z
      <4>3. HoldsClear'
        <5> SUFFICES ASSUME NEW b \in Addrs, reserved[b] # None
                     PROVE  ~Foreign(b, reserved[b].key)' /\ (reserved[b].key # None => b \in Pool)
          BY <3>1 DEF HoldsClear, Foreign
        <5>1. reserved[b].key \in Clients \cup {None} BY <1>a DEF TypeOK, Hold
        <5>2. ~Foreign(b, reserved[b].key) /\ (reserved[b].key # None => b \in Pool) BY DEF HoldsClear
        <5> QED BY <3>1, <4>2, <5>1, <5>2 DEF Foreign
      <4>4. CallsClear'
        <5> SUFFICES ASSUME call'[p].pc \in {"static", "commit", "rapid"}
                     PROVE  Clear(call[p].key, call[p].ip)'
          BY <2>2 DEF CallsClear
        <5>1. ~Taken(a, c) /\ call'[p] = [call[p] EXCEPT !.pc = "static"]
          BY <1>a, <2>1, <2>3 DEF Check, TypeOK, Idle
        <5>2. call'[p].key = c /\ call'[p].ip = a BY <2>1, <5>1 DEF Call
        <5>3. ~Foreign(e, k)' /\ (reserved[e] # None => reserved[e].key = k)
          BY <4>2, <4>x, <5>1 DEF Taken
        <5>4. call'[p].key = k /\ call'[p].ip = e /\ e \in Pool BY <3>2, <4>x, <5>2
        <5> QED BY <3>1, <5>3, <5>4 DEF Clear, Foreign
      <4> QED BY <1>0, <3>1, <4>2, <4>3, <4>4 DEF Withheld
    <3>3. CASE a \notin Pool
      <4>1. UNCHANGED byIP /\ call'[p] = Idle BY <1>a, <2>1, <2>3, <3>3 DEF Check, TypeOK, table
      <4>2. CallsClear' BY <2>2, <4>1 DEF CallsClear, Idle
      <4>3. HeldIndexed' /\ HoldsClear' /\ OutsideOwned'
        BY <3>1, <4>1 DEF HeldIndexed, HoldsClear, OutsideOwned, Foreign
      <4> QED BY <1>0, <3>1, <4>2, <4>3 DEF Withheld
    <3> QED BY <3>2, <3>3
  <2>4. CASE ReadStatic(p)
    <3>1. UNCHANGED <<held, static, reserved, byIP>> BY <2>4 DEF ReadStatic, table
    <3>2. Clear(c, a) BY <2>4 DEF ReadStatic, CallsClear
    <3>3. call'[p].key = c /\ call'[p].ip = a
      BY <1>a, <2>1, <2>4 DEF ReadStatic, TypeOK, Call
    <3>4. CallsClear' BY <2>2, <3>1, <3>2, <3>3 DEF CallsClear, Clear, Foreign
    <3>5. HeldIndexed' /\ HoldsClear' /\ OutsideOwned'
      BY <3>1 DEF HeldIndexed, HoldsClear, OutsideOwned, Foreign
    <3> QED BY <1>0, <3>1, <3>4, <3>5 DEF Withheld
  <2>5. CASE Commit(p)
    <3>1. Clear(c, a) BY <2>5 DEF Commit, CallsClear
    <3>2. CommitLease(c, a, call[p].static) /\ UNCHANGED static /\ Grant(c, a) BY <2>5 DEF Commit
    <3>3. HeldIndexed' /\ HoldsClear' /\ OutsideOwned'
      BY <2>1, <3>1, <3>2, CommitSafe DEF Clear
    <3>4. call'[p] = Idle BY <1>a, <2>5 DEF Commit, TypeOK
    <3>5. CallsClear' BY <2>2, <3>4 DEF CallsClear, Idle
    <3>6. Withheld
      <4>1. reserved' = [reserved EXCEPT ![a] = None] BY <1>a, <2>1, <3>2, CommitEffect
      <4>2. \A b \in Addrs : b # a => reserved'[b] = reserved[b] BY <1>a, <4>1 DEF TypeOK
      <4>3. c # None BY <2>1, PoolAssumption
      <4> QED BY <3>1, <4>2, <4>3 DEF Withheld, Clear, Addrs
    <3> QED BY <1>0, <3>3, <3>5, <3>6
  <2> QED BY <1>4, <2>3, <2>4, <2>5 DEF Packet
<1>5. ASSUME Free # {}, UNCHANGED call PROVE CallsClear'
  BY <1>5, <1>a, AllIdle DEF CallsClear, Idle
<1>6. ASSUME NEW c \in Clients, Decline(c) PROVE SInv' /\ Withheld
  <2> DEFINE a == held[c].ip
  <2>0. held[c] \in [ip: Addrs, left: 1..LeaseTime] BY <1>6, <1>a DEF Decline, TypeOK
  <2>1. a \in Addrs /\ byIP[a].key = c BY <1>6, <2>0 DEF Decline, HeldIndexed
  <2>2. /\ byIP' = [byIP EXCEPT ![a] = None] /\ UNCHANGED <<static, call>>
        /\ reserved' = [reserved EXCEPT ![a] = [key |-> None, left |-> DeclinedHold]]
        /\ held' = [held EXCEPT ![c] = None] /\ Free # {}
    BY <1>6 DEF Decline
  <2>3. byIP'[a] = None /\ \A b \in Addrs : b # a => byIP'[b] = byIP[b] BY <1>a, <2>1, <2>2 DEF TypeOK
  <2>4. /\ reserved'[a] = [key |-> None, left |-> DeclinedHold]
        /\ \A b \in Addrs : b # a => reserved'[b] = reserved[b]
    BY <1>a, <2>1, <2>2 DEF TypeOK
  <2>5. HeldIndexed'
    <3> SUFFICES ASSUME NEW d \in Clients, held'[d] # None
                 PROVE  held'[d] = held[d] /\ byIP'[held[d].ip] = byIP[held[d].ip]
      BY DEF HeldIndexed
    <3>1. d # c /\ held'[d] = held[d] BY <1>a, <2>2 DEF TypeOK
    <3>2. held[d].ip # a BY <2>1, <3>1 DEF HeldIndexed
    <3>3. held[d].ip \in Addrs BY <1>a, <3>1 DEF TypeOK
    <3> QED BY <2>3, <3>1, <3>2, <3>3
  <2>6. HoldsClear' BY <2>3, <2>4 DEF HoldsClear, Foreign
  <2>7. OutsideOwned' BY <2>2, <2>3 DEF OutsideOwned
  <2>8. CallsClear' BY <1>5, <2>2
  <2>9. Withheld
    <3>1. [key |-> None, left |-> DeclinedHold] \in Hold BY TimesAssumption DEF Hold
    <3> QED BY <2>4, <3>1, NoneAssumption DEF Withheld, Addrs
  <2> QED BY <1>0, <2>5, <2>6, <2>7, <2>8, <2>9
<1>7. ASSUME NEW c \in Clients, NEW a \in Addrs, Release(c, a) PROVE SInv' /\ Withheld
  <2>1. /\ UNCHANGED <<static, call, reserved>> /\ Free # {} /\ ReleaseLease(c, a)
        /\ held' = IF held[c] # None /\ held[c].ip = a THEN [held EXCEPT ![c] = None] ELSE held
    BY <1>7 DEF Release
  <2>2. \/ byIP' = byIP
        \/ byIP' = [byIP EXCEPT ![a] = None] /\ leases[c] # None /\ leases[c].ip = a
    BY <2>1 DEF ReleaseLease, table
  <2>3. \A b \in Addrs : byIP'[b] = byIP[b] \/ (b = a /\ byIP'[b] = None /\ byIP[a].key = c)
    <3>1. leases[c] # None /\ leases[c].ip = a => byIP[a].key = c
      <4> SUFFICES ASSUME leases[c] # None, leases[c].ip = a PROVE byIP[a].key = c OBVIOUS
      <4>1. byIP[a] = [key |-> c, left |-> leases[c].left, static |-> leases[c].static]
        BY <1>a DEF LeaseIndexed
      <4> QED BY <4>1
    <3> QED BY <1>a, <2>2, <3>1 DEF TypeOK
  <2>4. HeldIndexed'
    <3> SUFFICES ASSUME NEW d \in Clients, held'[d] # None
                 PROVE  held'[d] = held[d] /\ byIP'[held[d].ip] = byIP[held[d].ip]
      BY DEF HeldIndexed
    <3>1. held'[d] = held[d] /\ ~(d = c /\ held[d].ip = a) BY <1>a, <2>1 DEF TypeOK
    <3>2. held[d].ip \in Addrs /\ byIP[held[d].ip].key = d BY <1>a, <3>1 DEF TypeOK, HeldIndexed
    <3> QED BY <2>3, <3>1, <3>2
  <2>5. HoldsClear' BY <2>1, <2>3 DEF HoldsClear, Foreign
  <2>6. OutsideOwned' BY <2>1, <2>3 DEF OutsideOwned
  <2>7. CallsClear' BY <1>5, <2>1
  <2> QED BY <1>0, <2>1, <2>4, <2>5, <2>6, <2>7 DEF Withheld
<1>8. ASSUME NEW c \in Clients, NEW a \in Addrs, NEW p \in Procs, Request(p, c, a)
      PROVE  SInv' /\ Withheld
  <2>1. UNCHANGED <<static, byIP, reserved, held>> BY <1>8 DEF Request, table
  <2>2. call'[p].pc = "check" BY <1>8, <1>a DEF Request, TypeOK
  <2>3. CallsClear' BY <2>2 DEF Sequential, CallsClear
  <2>4. HeldIndexed' /\ HoldsClear' /\ OutsideOwned'
    BY <2>1 DEF HeldIndexed, HoldsClear, OutsideOwned, Foreign
  <2> QED BY <1>0, <2>1, <2>3, <2>4 DEF Withheld
<1>9. ASSUME NEW c \in Clients, NEW a \in Addrs \cup {None}, Discover(c, a) PROVE SInv' /\ Withheld
  <2>1. PICK out \in Addrs \cup {None} : Alloc(c, a, out) BY <1>9 DEF Discover
  <2>2. HeldIndexed' /\ HoldsClear' /\ OutsideOwned' /\ Withheld
    BY <1>9, <2>1, AllocSafe DEF Discover
  <2>3. CallsClear' BY <1>5, <1>9 DEF Discover
  <2> QED BY <1>0, <2>2, <2>3
<1>10. ASSUME NEW c \in Clients, NEW a \in Addrs \cup {None}, NEW p \in Procs, NEW rapid \in BOOLEAN,
              Solicit(p, c, a, rapid)
       PROVE  SInv' /\ Withheld
  <2>1. PICK out \in Addrs \cup {None} :
          /\ Alloc(c, a, out)
          /\ call' = IF rapid /\ out # None
                       THEN [call EXCEPT ![p] = [pc |-> "rapid", key |-> c, ip |-> out,
                                                 static |-> static[c] # None]]
                       ELSE call
    BY <1>10 DEF Solicit
  <2>2. /\ HeldIndexed' /\ HoldsClear' /\ OutsideOwned' /\ Withheld
        /\ out # None => Clear(c, out)'
    BY <1>10, <2>1, AllocSafe DEF Solicit
  <2>3. CallsClear'
    <3>1. CASE rapid /\ out # None
      <4>1. call'[p].key = c /\ call'[p].ip = out BY <1>a, <2>1, <3>1 DEF TypeOK
      <4> QED BY <2>2, <3>1, <4>1 DEF Sequential, CallsClear, Clear, Foreign
    <3>2. CASE ~(rapid /\ out # None)
      <4>1. UNCHANGED call /\ Free # {} BY <1>10, <2>1, <3>2 DEF Solicit
      <4> QED BY <1>5, <4>1
    <3> QED BY <3>1, <3>2
  <2> QED BY <1>0, <2>2, <2>3
<1> QED
  BY <1>1, <1>2, <1>3, <1>4, <1>6, <1>7, <1>8, <1>9, <1>10 DEF Next, RequestV4

\* With packets handled one at a time and reservations outside the range, no
\* two clients ever hold one address, whatever the clients send and however
\* leases, offers and holds expire.
THEOREM NoSharedAddressHolds ==
  ASSUME ~Reload, Sequential, StaticsApart
  PROVE  Spec => []NoSharedAddress
<1>1. SInv /\ [Next]_vars => SInv' BY StepSafe
<1>2. SInv => NoSharedAddress BY DEF SInv, TInv, HeldIndexed, NoSharedAddress
<1> QED BY <1>1, <1>2, InitSafe, PTL DEF Spec

\* In the same setting a declined address is withheld for its whole hold.
THEOREM DeclinedWithheldHolds ==
  ASSUME ~Reload, Sequential, StaticsApart
  PROVE  Spec => DeclinedWithheld
<1>1. SInv /\ [Next]_vars => SInv' BY StepSafe
<1>2. SInv /\ [Next]_vars => [Withheld]_vars BY StepSafe
<1>3. Spec => [][Withheld]_vars BY <1>1, <1>2, InitSafe, PTL DEF Spec
<1> QED BY <1>3 DEF DeclinedWithheld, Withheld

\* Both maps of the lease table stay in step, for any number of clients,
\* addresses and packet handlers at once.
THEOREM LeaseTableHolds == ~Reload => (Spec => []LeaseTableSound)
<1> SUFFICES ASSUME ~Reload PROVE Spec => []LeaseTableSound OBVIOUS
<1>1. IInv => LeaseTableSound BY DEF IInv, LeaseTableSound
<1>2. Spec => []IInv BY Inductive
<1> QED BY <1>1, <1>2, PTL

-----------------------------------------------------------------------------
(* Names. PtrFollowsTable is inductive with the types, re-applied          *)
(* configurations included.                                                *)

\* What the names depend on is well formed, re-applied configuration or not.
NameTypes ==
  /\ static \in Statics
  /\ leases \in [Clients -> Lease \cup {None}]
  /\ disk \in [Clients -> Lease \cup {None}]
  /\ call \in [Procs -> Call \cup {Idle}]
NamesOK == ptr \in [Addrs -> Clients \cup {None}] /\ PtrFollowsTable
NInv == NameTypes /\ NamesOK

\* rebuildHostsLocked names the leased and the reserved addresses.
LEMMA NamesFollow ==
  ASSUME leases' \in [Clients -> Lease \cup {None}], RebuildHosts(static'), static' \in Statics
  PROVE  NamesOK'
<1>. DEFINE Leased(a) == {c \in Clients : leases'[c] # None /\ leases'[c].ip = a}
            Reserved(a) == {c \in Clients : static'[c] = a}
<1>1. ASSUME NEW a \in Addrs
      PROVE  \/ ptr'[a] \in Leased(a)
             \/ Leased(a) = {} /\ ptr'[a] \in Reserved(a)
             \/ Leased(a) = {} /\ Reserved(a) = {} /\ ptr'[a] = None
  BY DEF RebuildHosts
<1>2. ASSUME NEW a \in Addrs
      PROVE  /\ ptr'[a] = None <=> \A c \in Clients : (leases'[c] = None \/ leases'[c].ip # a) /\ static'[c] # a
             /\ ptr'[a] # None => \/ leases'[ptr'[a]] # None /\ leases'[ptr'[a]].ip = a
                                  \/ static'[ptr'[a]] = a
  <2>1. CASE ptr'[a] \in Leased(a)
    BY <2>1, PoolAssumption
  <2>2. CASE Leased(a) = {} /\ ptr'[a] \in Reserved(a)
    BY <2>2, PoolAssumption
  <2>3. CASE Leased(a) = {} /\ Reserved(a) = {} /\ ptr'[a] = None
    BY <2>3
  <2>. QED  BY <1>1, <2>1, <2>2, <2>3
<1>3. ptr' \in [Addrs -> Clients \cup {None}]
  BY DEF RebuildHosts
<1>. QED  BY <1>2, <1>3 DEF NamesOK, PtrFollowsTable

\* Nothing the names depend on changes.
LEMMA NamesStay == ASSUME NamesOK, UNCHANGED <<leases, static, ptr>> PROVE NamesOK'
BY DEF NamesOK, PtrFollowsTable

\* What a packet handler remembers between its two sections.
LEMMA CallKept ==
  ASSUME NameTypes, NEW p \in Procs
  PROVE  /\ call[p] # Idle => call[p] \in Call /\ call[p].key \in Clients /\ call[p].ip \in Addrs /\ call[p].static \in BOOLEAN
         /\ call[p].pc # "idle" => call[p] # Idle
         /\ \A r \in Call \cup {Idle} : [call EXCEPT ![p] = r] \in [Procs -> Call \cup {Idle}]
BY DEF NameTypes, Call, Idle

\* inUseLocked drops expired leases and names nothing new.
LEMMA LookNames ==
  ASSUME NInv, NEW S, NEW c \in Clients, LookAt(S, c), static' = static
  PROVE  leases' \in [Clients -> Lease \cup {None}] /\ NamesOK'
<1>. DEFINE gone == {a \in S : Lapsed(a, c)}
<1>1. CASE gone = {}
  <2>1. leases' = leases /\ ptr' = ptr
    BY <1>1 DEF LookAt, table
  <2>. QED  BY <2>1, NamesStay DEF NInv, NameTypes
<1>2. CASE gone # {}
  <2>1. /\ leases' = [k \in Clients |-> IF \E a \in gone : byIP[a].key = k THEN None ELSE leases[k]]
        /\ RebuildHosts(static)
    BY <1>2 DEF LookAt
  <2>2. leases' \in [Clients -> Lease \cup {None}]
    BY <2>1 DEF NInv, NameTypes
  <2>. QED  BY <2>1, <2>2, NamesFollow DEF NInv, NameTypes
<1>. QED  BY <1>1, <1>2

\* commitLocked names the leased address and no other.
LEMMA CommitNames ==
  ASSUME NInv, NEW c \in Clients, NEW a \in Addrs, NEW fixed \in BOOLEAN, CommitLease(c, a, fixed), static' = static
  PROVE  leases' \in [Clients -> Lease \cup {None}] /\ NamesOK'
<1>. DEFINE left == IF fixed THEN 0 ELSE LeaseTime
<1>1. /\ leases' = [k \in Clients |->
           IF k = c THEN [ip |-> a, left |-> left, static |-> fixed]
           ELSE IF byIP[a] # None /\ byIP[a].key = k THEN None ELSE leases[k]]
      /\ RebuildHosts(static)
  BY DEF CommitLease
<1>2. left \in 0..LeaseTime
  BY TimesAssumption
<1>3. leases' \in [Clients -> Lease \cup {None}]
  BY <1>1, <1>2 DEF Lease, NInv, NameTypes
<1>. QED  BY <1>1, <1>3, NamesFollow DEF NInv, NameTypes

\* allocate frees expired leases and names nothing new.
LEMMA AllocNames ==
  ASSUME NInv, NEW c \in Clients, NEW requested \in Addrs \cup {None}, NEW out, Alloc(c, requested, out), static' = static
  PROVE  leases' \in [Clients -> Lease \cup {None}] /\ NamesOK'
<1>1. CASE AllocStatic(c, out)
  <2>1. static[c] \in Addrs
    BY <1>1, StaticsAssumption DEF AllocStatic, NInv, NameTypes
  <2>. QED  BY <1>1, <2>1, CommitNames DEF AllocStatic
<1>2. CASE AllocOwn(c, out)
  <2>1. leases[c] \in Lease
    BY <1>2 DEF AllocOwn, NInv, NameTypes
  <2>2. CASE leases[c].static
    <3>1. leases' = leases /\ ptr' = ptr
      BY <1>2, <2>2 DEF AllocOwn, Renew, table
    <3>. QED  BY <3>1, NamesStay DEF NInv, NameTypes
  <2>3. CASE ~leases[c].static
    <3>1. leases' = [leases EXCEPT ![c].left = LeaseTime] /\ RebuildHosts(static)
      BY <1>2, <2>3 DEF AllocOwn, Renew
    <3>2. leases' \in [Clients -> Lease \cup {None}]
      BY <2>1, <3>1, TimesAssumption DEF Lease, NInv, NameTypes
    <3>. QED  BY <3>1, <3>2, NamesFollow DEF NInv, NameTypes
  <2>. QED  BY <2>2, <2>3
<1>3. CASE AllocAgain(c, out)
  <2>1. leases' = leases /\ ptr' = ptr
    BY <1>3 DEF AllocAgain, table
  <2>. QED  BY <2>1, NamesStay DEF NInv, NameTypes
<1>4. CASE AllocRequested(c, requested, out)
  <2>1. LookAt({requested}, c)
    BY <1>4 DEF AllocRequested
  <2>. QED  BY <2>1, LookNames
<1>5. CASE AllocNext(c, requested, out)
  <2>. DEFINE seen(n) == {At(i) : i \in 0..n} \cup ({requested} \cap Pool)
  <2>2. PICK n \in 0..(PoolSize - 1) : LookAt(seen(n), c)
    <3>1. PoolSize - 1 \in 0..(PoolSize - 1)
      BY PoolAssumption
    <3>. QED  BY <1>5, <3>1 DEF AllocNext
  <2>. QED  BY <2>2, LookNames
<1>. QED  BY <1>1, <1>2, <1>3, <1>4, <1>5 DEF Alloc

\* load takes the leases of the file that fit.
LEMMA LoadNames ==
  ASSUME NInv, NEW base \in [Clients -> Lease \cup {None}], NEW index, Load(base, index), disk' = disk
  PROVE  leases' \in [Clients -> Lease \cup {None}]
BY DEF Load, NInv, NameTypes

\* A packet's section under the lock keeps names and table together.
LEMMA PacketNames == ASSUME NInv, NEW p \in Procs, Packet(p) PROVE NInv'
<1>1. CASE Check(p)
  <2>. DEFINE c == call[p].key
              a == call[p].ip
              r == IF a \in Pool /\ ~Taken(a, c) THEN [call[p] EXCEPT !.pc = "static"] ELSE Idle
  <2>1. call[p] \in Call /\ c \in Clients /\ a \in Addrs
    BY <1>1, CallKept DEF Check, NInv
  <2>2. r \in Call \cup {Idle} /\ call' = [call EXCEPT ![p] = r] /\ static' = static /\ disk' = disk
    BY <1>1, <2>1 DEF Check, Call
  <2>3. call' \in [Procs -> Call \cup {Idle}]
    BY <2>2, CallKept DEF NInv
  <2>4. leases' \in [Clients -> Lease \cup {None}] /\ NamesOK'
    <3>1. CASE a \in Pool
      <4>1. LookAt({a}, c)
        BY <1>1, <3>1 DEF Check
      <4>. QED  BY <2>1, <2>2, <4>1, LookNames
    <3>2. CASE a \notin Pool
      <4>1. leases' = leases /\ ptr' = ptr
        BY <1>1, <3>2 DEF Check, table
      <4>. QED  BY <2>2, <4>1, NamesStay DEF NInv, NameTypes
    <3>. QED  BY <3>1, <3>2
  <2>. QED  BY <2>2, <2>3, <2>4 DEF NInv, NameTypes
<1>2. CASE ReadStatic(p)
  <2>1. call[p] \in Call
    BY <1>2, CallKept DEF ReadStatic, NInv
  <2>2. PICK b \in BOOLEAN : b = (static[call[p].key] = call[p].ip)
    OBVIOUS
  <2>3. PICK q : q = [call[p] EXCEPT !.pc = "commit"]
    OBVIOUS
  <2>4. q \in Call
    BY <2>1, <2>3 DEF Call
  <2>5. PICK r : r = [q EXCEPT !.static = b]
    OBVIOUS
  <2>6. r \in Call
    BY <2>4, <2>5 DEF Call
  <2>7. call' = [call EXCEPT ![p] = r]
    BY <1>2, <2>2, <2>3, <2>5 DEF ReadStatic, NInv, NameTypes
  <2>8. call' \in [Procs -> Call \cup {Idle}]
    BY <2>6, <2>7, CallKept DEF NInv
  <2>9. static' = static /\ disk' = disk /\ leases' = leases /\ ptr' = ptr
    BY <1>2 DEF ReadStatic, table
  <2>. QED  BY <2>8, <2>9, NamesStay DEF NInv, NameTypes
<1>3. CASE Commit(p)
  <2>1. call[p].key \in Clients /\ call[p].ip \in Addrs /\ call[p].static \in BOOLEAN
    BY <1>3, CallKept DEF Commit, NInv
  <2>2. leases' \in [Clients -> Lease \cup {None}] /\ NamesOK'
    BY <1>3, <2>1, CommitNames DEF Commit
  <2>3. call' \in [Procs -> Call \cup {Idle}]
    BY <1>3, CallKept DEF Commit, NInv
  <2>. QED  BY <1>3, <2>2, <2>3 DEF Commit, NInv, NameTypes
<1>. QED  BY <1>1, <1>2, <1>3 DEF Packet

\* Every step keeps the invariant, re-applied configurations included.
LEMMA NamesStep == NInv /\ [Next]_vars => NInv'
<1>. SUFFICES ASSUME NInv, [Next]_vars PROVE NInv'
  OBVIOUS
<1>1. CASE Tick
  <2>1. \A l \in Lease : Dec(l) \in Lease /\ Dec(l).ip = l.ip
    BY TimesAssumption DEF Dec, Lease
  <2>2. leases' \in [Clients -> Lease \cup {None}] /\ disk' \in [Clients -> Lease \cup {None}]
    BY <1>1, <2>1 DEF Tick, Wane, NInv, NameTypes
  <2>3. \A c \in Clients : (leases'[c] = None <=> leases[c] = None) /\ (leases[c] # None => leases'[c].ip = leases[c].ip)
    BY <1>1, <2>1, NoneAssumption DEF Tick, Wane, NInv, NameTypes
  <2>4. static' = static /\ ptr' = ptr /\ call' = call
    BY <1>1 DEF Tick
  <2>5. NamesOK'
    <3>. SUFFICES ASSUME NEW a \in Addrs
                  PROVE  /\ ptr'[a] = None <=> \A c \in Clients : (leases'[c] = None \/ leases'[c].ip # a) /\ static'[c] # a
                         /\ ptr'[a] # None => \/ leases'[ptr'[a]] # None /\ leases'[ptr'[a]].ip = a
                                              \/ static'[ptr'[a]] = a
      BY <2>4 DEF NInv, NamesOK, PtrFollowsTable
    <3>1. /\ ptr[a] = None <=> \A c \in Clients : (leases[c] = None \/ leases[c].ip # a) /\ static[c] # a
          /\ ptr[a] # None => \/ leases[ptr[a]] # None /\ leases[ptr[a]].ip = a
                              \/ static[ptr[a]] = a
      BY DEF NInv, NamesOK, PtrFollowsTable
    <3>2. ptr[a] # None => ptr[a] \in Clients
      BY DEF NInv, NamesOK
    <3>. QED  BY <2>3, <2>4, <3>1, <3>2
  <2>. QED  BY <2>2, <2>4, <2>5 DEF NInv, NameTypes
<1>2. CASE Persist
  BY <1>2, NamesStay DEF Persist, NInv, NameTypes
<1>3. CASE SetConfig
  <2>1. static' \in Statics /\ Load(leases, byIP) /\ RebuildHosts(static') /\ disk' = disk /\ call' = call
    BY <1>3 DEF SetConfig
  <2>2. leases' \in [Clients -> Lease \cup {None}]
    BY <2>1, LoadNames DEF NInv, NameTypes
  <2>. QED  BY <2>1, <2>2, NamesFollow DEF NInv, NameTypes
<1>4. CASE Restart
  <2>. DEFINE base == [c \in Clients |-> None]
  <2>1. /\ Load(base, [a \in Addrs |-> None]) /\ RebuildHosts(static) /\ static' = static /\ disk' = disk
        /\ call' = [p \in Procs |-> Idle]
    BY <1>4 DEF Restart
  <2>2. base \in [Clients -> Lease \cup {None}]
    OBVIOUS
  <2>3. leases' \in [Clients -> Lease \cup {None}]
    BY <2>1, <2>2, LoadNames
  <2>. QED  BY <2>1, <2>3, NamesFollow DEF NInv, NameTypes
<1>5. ASSUME NEW p \in Procs, Packet(p) PROVE NInv'
  BY <1>5, PacketNames
<1>6. ASSUME NEW c \in Clients, Decline(c) PROVE NInv'
  <2>1. /\ RebuildHosts(static) /\ static' = static /\ disk' = disk /\ call' = call
        /\ \A k \in Clients : leases'[k] = None \/ leases'[k] = leases[k]
        /\ leases' = [k \in Clients |-> leases'[k]]
    BY <1>6 DEF Decline
  <2>2. leases' \in [Clients -> Lease \cup {None}]
    BY <2>1 DEF NInv, NameTypes
  <2>. QED  BY <2>1, <2>2, NamesFollow DEF NInv, NameTypes
<1>7. ASSUME NEW c \in Clients, NEW a \in Addrs, Release(c, a) PROVE NInv'
  <2>0. static' = static /\ disk' = disk /\ call' = call /\ ReleaseLease(c, a)
    BY <1>7 DEF Release
  <2>1. CASE leases[c] # None /\ leases[c].ip = a
    <3>1. leases' = [leases EXCEPT ![c] = None] /\ RebuildHosts(static)
      BY <2>0, <2>1 DEF ReleaseLease
    <3>2. leases' \in [Clients -> Lease \cup {None}]
      BY <3>1 DEF NInv, NameTypes
    <3>. QED  BY <2>0, <3>1, <3>2, NamesFollow DEF NInv, NameTypes
  <2>2. CASE ~(leases[c] # None /\ leases[c].ip = a)
    <3>1. leases' = leases /\ ptr' = ptr
      BY <2>0, <2>2 DEF ReleaseLease, table
    <3>. QED  BY <2>0, <3>1, NamesStay DEF NInv, NameTypes
  <2>. QED  BY <2>1, <2>2
<1>8. ASSUME NEW p \in Procs, NEW c \in Clients, NEW a \in Addrs, Request(p, c, a) PROVE NInv'
  <2>1. PICK r : r = [pc |-> "check", key |-> c, ip |-> a, static |-> FALSE]
    OBVIOUS
  <2>2. r \in Call
    BY <2>1 DEF Call
  <2>3. call' = [call EXCEPT ![p] = r] /\ static' = static /\ disk' = disk /\ leases' = leases /\ ptr' = ptr
    BY <1>8, <2>1 DEF Request, table
  <2>4. call' \in [Procs -> Call \cup {Idle}]
    BY <2>2, <2>3, CallKept DEF NInv
  <2>. QED  BY <2>3, <2>4, NamesStay DEF NInv, NameTypes
<1>9. ASSUME NEW c \in Clients, NEW a \in Addrs \cup {None}, Discover(c, a) PROVE NInv'
  <2>1. static' = static /\ disk' = disk /\ call' = call /\ \E out \in Addrs \cup {None} : Alloc(c, a, out)
    BY <1>9 DEF Discover
  <2>2. leases' \in [Clients -> Lease \cup {None}] /\ NamesOK'
    BY <2>1, AllocNames
  <2>. QED  BY <2>1, <2>2 DEF NInv, NameTypes
<1>10. ASSUME NEW p \in Procs, NEW c \in Clients, NEW a \in Addrs \cup {None}, NEW rapid \in BOOLEAN, Solicit(p, c, a, rapid)
       PROVE  NInv'
  <2>1. PICK out \in Addrs \cup {None} :
          /\ Alloc(c, a, out)
          /\ call' = IF rapid /\ out # None
                     THEN [call EXCEPT ![p] = [pc |-> "rapid", key |-> c, ip |-> out, static |-> static[c] # None]]
                     ELSE call
    BY <1>10 DEF Solicit
  <2>2. static' = static /\ disk' = disk
    BY <1>10 DEF Solicit
  <2>3. leases' \in [Clients -> Lease \cup {None}] /\ NamesOK'
    BY <2>1, <2>2, AllocNames
  <2>4. PICK b \in BOOLEAN : b = (static[c] # None)
    OBVIOUS
  <2>5. out # None => [pc |-> "rapid", key |-> c, ip |-> out, static |-> b] \in Call
    BY DEF Call
  <2>6. call' \in [Procs -> Call \cup {Idle}]
    BY <2>1, <2>4, <2>5, CallKept DEF NInv, NameTypes
  <2>. QED  BY <2>2, <2>3, <2>6 DEF NInv, NameTypes
<1>11. CASE UNCHANGED vars
  BY <1>11, NamesStay DEF vars, table, NInv, NameTypes
<1>12. ASSUME NEW p \in Procs, NEW c \in Clients, NEW a \in Addrs, NEW sid \in BOOLEAN, RequestV4(p, c, a, sid) PROVE NInv'
  BY <1>8, <1>12 DEF RequestV4
<1>. QED  BY <1>1, <1>2, <1>3, <1>4, <1>5, <1>6, <1>7, <1>8, <1>9, <1>10, <1>11, <1>12 DEF Next

\* The invariant holds in the initial states.
LEMMA NamesInitial == Init => NInv
<1>. SUFFICES ASSUME Init PROVE NInv
  OBVIOUS
<1>1. NameTypes
  BY DEF Init, NameTypes
<1>2. NamesOK
  BY PoolAssumption DEF Init, NamesOK, PtrFollowsTable
<1>. QED  BY <1>1, <1>2 DEF NInv

\* Reverse names follow the table in every state, for any number of packet
\* handlers at once and however often the configuration is re-applied
\* (rebuildHostsLocked, which every change of the table runs under the lock).
THEOREM PtrFollowsTableHolds == Spec => []PtrFollowsTable
<1>1. NInv => PtrFollowsTable
  BY DEF NInv, NamesOK
<1>. QED  BY <1>1, NamesInitial, NamesStep, PTL DEF Spec
-----------------------------------------------------------------------------
(* The configuration file's life                                           *)
(*                                                                         *)
(* RestartIsIdentity is not inductive: it speaks of a running process, and *)
(* says nothing of what the next Load makes of the file. Restartable says  *)
(* that a saved file is what runs, and that what runs is Steady: Load      *)
(* would migrate nothing, add no secret, and validate would rewrite        *)
(* nothing. Normalising one section is idempotent on what validate accepts *)
(* but for doubled dots, which is what the lemmas on the sections say.     *)

\* Documents as they may stand in memory or on disk: those someone may submit, and
\* what defaults, normalisation, migration, hashing and a new secret make of them.
StoredDomains == [name : {"empty", "HOST", "host", "ho_st"}, dots : 0..2]
StoredRoutes == [sec : {"routes"}, mode : {"empty", "race", "random"}, domain : StoredDomains, ups : {<<>>, <<"u">>, <<"u", "empty">>}]
StoredGeo == [sec : {"geo"}, country : {"RU", "_ru", "RUS"}, asn : ASNs \cup {"empty"}, honeypot : StoredDomains,
              url : {"empty", "https", "ftp"}, every : {-1, 0}]
StoredListen == [sec : {"listen"}, classic : BOOLEAN, doh3 : QUICAddrs, doq : QUICAddrs,
                 hops : {-1, 0, 1}, proxy : {"none", "bad"}, timeout : 0..1, conns : {-1, 0}]
StoredPorts == [sec : {"ports"}, doh : {0, 1, 2}, web : {0, 1, 80}, tls : BOOLEAN,
                redirect : BOOLEAN, rport : {0, 1, 80}, path : BOOLEAN]
StoredACME == [sec : {"acme"}, on : BOOLEAN, email : BOOLEAN, domains : BOOLEAN, port : {0, 80, 81},
               before : {-1, 0, 30}, provider : {"empty", "cloudflare", "route53", "other"},
               token : BOOLEAN, wait : {0, 60}]
StoredVPN == [sec : {"vpn"}, on : BOOLEAN, profiles : {<<>>, <<"p">>, <<"p", "p">>, <<"p", "q">>},
              provider : {"nordvpn", "pia", "other"}, creds : BOOLEAN,
              route : {"empty", "p", "q"}, domain : StoredDomains]
StoredUsers == [id : Nat, name : {"empty", "root", "guest"}, role : {"admin", "viewer", "owner"}, pw : Creds \ {"empty"}]
StoredWeb == [sec : {"web"}, login : {"empty", "root"}, pw : Creds, users : Seq(StoredUsers),
              token : {"plain", "hash"}, secret : Nat]
Unnormalised == LimitDocs \cup DHCPDocs \cup NumberDocs
PlainDefaults == [sec : {"routes", "geo", "limits", "vpn", "dhcp", "numbers"}, default : {TRUE}]
Stored == StoredRoutes \cup StoredGeo \cup StoredListen \cup StoredPorts \cup StoredACME \cup StoredVPN
          \cup StoredWeb \cup Unnormalised \cup PlainDefaults

\* Once validate has accepted and rewritten a document, it accepts the result and leaves it alone, and
\* Load neither migrates it nor gives it a secret.
Steady(d) ==
  /\ ~Migrates(d) /\ ~NeedsSecret(d)
  /\ ~DoubleDots(d) => Accepts(d) /\ Normalised(d) = d

CRTypes ==
  /\ crAsk \in CRDocs /\ crAsked \in BOOLEAN /\ crSaved \in BOOLEAN /\ crWriter \in {"hand", "program"} /\ crRO \in BOOLEAN
  /\ crLive \in Stored \cup {Down} /\ crDisk \in Stored \cup {NoFile}
  /\ crLive # Down => crLive.sec = crAsk.sec /\ crDisk # NoFile
  /\ crDisk # NoFile => crDisk.sec = crAsk.sec
  /\ \E k \in 0..CRBoots : crFresh = 2 + 2 * k

Restartable == crSaved /\ crLive # Down => crDisk = crLive /\ Steady(crLive)

CRInv == CRTypes /\ Restartable /\ NoPlaintextWritten

\* Removing a trailing dot twice is removing it once, when one removal left none.
LEMMA DomainAgain ==
  ASSUME NEW D \in StoredDomains
  PROVE  /\ NormalizeDomain(D) \in StoredDomains
         /\ NormalizeDomain(D).dots = 0 => NormalizeDomain(NormalizeDomain(D)) = NormalizeDomain(D)
<1>1. PICK n \in {"empty", "HOST", "host", "ho_st"}, k \in 0..2 : D = [name |-> n, dots |-> k]
  BY DEF StoredDomains
<1>2. CASE n = "ho_st"
  <2>1. NormalizeDomain(D) = InvalidDomain
    BY <1>1, <1>2 DEF NormalizeDomain, InvalidDomain
  <2>2. NormalizeDomain(InvalidDomain) = InvalidDomain
    BY DEF NormalizeDomain, InvalidDomain
  <2>3. InvalidDomain \in StoredDomains
    <3>1. "empty" \in {"empty", "HOST", "host", "ho_st"} /\ 0 \in 0..2
      OBVIOUS
    <3> QED
      BY <3>1, Zenon DEF InvalidDomain, StoredDomains
  <2> QED
    BY <2>1, <2>2, <2>3, Zenon
<1>3. CASE n # "ho_st"
  <2> DEFINE m == IF n = "HOST" THEN "host" ELSE n
             j == IF k = 0 THEN 0 ELSE k - 1
  <2>0. m \in {"empty", "HOST", "host", "ho_st"} /\ j \in 0..2 /\ m # "ho_st" /\ m # "HOST"
    BY <1>1, <1>3
  <2>1. NormalizeDomain(D) = [name |-> m, dots |-> j]
    <3>1. D.name = n /\ D.dots = k
      BY <1>1
    <3> QED
      BY <3>1, <2>0 DEF NormalizeDomain
  <2> HIDE DEF m, j
  <2>2. ASSUME j = 0 PROVE NormalizeDomain([name |-> m, dots |-> j]) = [name |-> m, dots |-> j]
    BY <2>0, <2>2 DEF NormalizeDomain
  <2>3. [name |-> m, dots |-> j] \in StoredDomains /\ [name |-> m, dots |-> j].dots = j
    BY <2>0 DEF StoredDomains
  <2> QED
    BY <2>1, <2>2, <2>3, Zenon
<1> QED
  BY <1>2, <1>3

\* What validate makes of a document of its section: normalising it stays in the section, and
\* an accepted document without a trailing dot left is accepted again and stays as it is.
Settles(d, S) ==
  /\ Normalised(d) \in S /\ Normalised(d).sec = d.sec
  /\ Accepts(d) /\ ~DoubleDots(Normalised(d)) => Accepts(Normalised(d)) /\ Normalised(Normalised(d)) = Normalised(d)

\* Conditional routing: the mode's default and the normalised domain.
LEMMA RoutesSettle ==
  ASSUME NEW d \in StoredRoutes
  PROVE  Settles(d, StoredRoutes)
<1>1. PICK md \in {"empty", "race", "random"}, D \in StoredDomains, us \in {<<>>, <<"u">>, <<"u", "empty">>} :
        d = [sec |-> "routes", mode |-> md, domain |-> D, ups |-> us]
  BY DEF StoredRoutes
<1> DEFINE m == IF md = "empty" THEN "race" ELSE md
           E == NormalizeDomain(D)
           e == [sec |-> "routes", mode |-> m, domain |-> E, ups |-> us]
<1>2. m \in {"empty", "race", "random"} /\ m # "empty" /\ E \in StoredDomains /\ (E.dots = 0 => NormalizeDomain(E) = E) /\ (md \in {"empty", "race", "sequential"} => m \in {"empty", "race", "sequential"})
  BY DomainAgain
<1>3. Normalised(d) = e
  BY <1>1 DEF Normalised
<1>4. Accepts(d) => m \in {"empty", "race", "sequential"} /\ E # InvalidDomain /\ us = <<"u">>
  BY <1>1, <1>2 DEF Accepts, RoutesOK, ValidDomain
<1> HIDE DEF m, E
<1>5. e \in StoredRoutes /\ e.sec = d.sec
  BY <1>1, <1>2 DEF StoredRoutes
<1>6. ASSUME ~DoubleDots(e) PROVE E.dots = 0
  <2>1. "domain" \in DOMAIN e /\ e.domain = E
    OBVIOUS
  <2>2. E.dots \in 0..2
    BY <1>2 DEF StoredDomains
  <2>3. ~(E.dots > 0)
    BY <1>6, <2>1, Zenon DEF DoubleDots
  <2> QED
    BY <2>2, <2>3
<1>7. ASSUME E.dots = 0, Accepts(d) PROVE Accepts(e) /\ Normalised(e) = e
  <2>1. NormalizeDomain(E) = E
    BY <1>2, <1>7
  <2>2. Normalised(e) = e
    BY <2>1, <1>2 DEF Normalised
  <2>3. Accepts(e)
    BY <2>1, <1>4, <1>7 DEF Accepts, RoutesOK, ValidDomain
  <2> QED
    BY <2>2, <2>3
<1> QED
  BY <1>3, <1>5, <1>6, <1>7 DEF Settles

\* Geo blocking: the country in capitals, the canonical ASN, the normalised honeypot domain.
LEMMA GeoSettles ==
  ASSUME NEW d \in StoredGeo
  PROVE  Settles(d, StoredGeo)
<1>1. PICK c \in {"RU", "_ru", "RUS"}, a \in ASNs \cup {"empty"}, D \in StoredDomains, u \in {"empty", "https", "ftp"}, ev \in {-1, 0} :
        d = [sec |-> "geo", country |-> c, asn |-> a, honeypot |-> D, url |-> u, every |-> ev]
  BY DEF StoredGeo
<1> DEFINE b == IF c = "_ru" THEN "RU" ELSE c
           s == ParseASN(a)
           E == NormalizeDomain(D)
           e == [sec |-> "geo", country |-> b, asn |-> s, honeypot |-> E, url |-> u, every |-> ev]
<1>2. /\ b \in {"RU", "_ru", "RUS"} /\ b # "_ru" /\ (c # "RUS" => b # "RUS")
      /\ s \in ASNs \cup {"empty"} /\ (s # "empty" => ParseASN(s) = s)
      /\ E \in StoredDomains /\ (E.dots = 0 => NormalizeDomain(E) = E)
  BY DomainAgain DEF ParseASN, ASNs
<1>3. Normalised(d) = e
  BY <1>1 DEF Normalised, NormalGeo
<1>4. Accepts(d) => c # "RUS" /\ s # "empty" /\ E # InvalidDomain /\ u # "ftp" /\ ev >= 0
  BY <1>1 DEF Accepts, GeoOK, ValidDomain
<1> HIDE DEF b, s, E
<1>5. e \in StoredGeo /\ e.sec = d.sec
  BY <1>1, <1>2 DEF StoredGeo
<1>6. ASSUME ~DoubleDots(e) PROVE E.dots = 0
  <2>1. "honeypot" \in DOMAIN e /\ e.honeypot = E
    OBVIOUS
  <2>2. E.dots \in 0..2
    BY <1>2 DEF StoredDomains
  <2>3. ~(E.dots > 0)
    BY <1>6, <2>1, Zenon DEF DoubleDots
  <2> QED
    BY <2>2, <2>3
<1>7. ASSUME E.dots = 0, Accepts(d) PROVE Accepts(e) /\ Normalised(e) = e
  <2>1. NormalizeDomain(E) = E /\ ParseASN(s) = s
    BY <1>2, <1>4, <1>7
  <2>2. Normalised(e) = e
    BY <2>1, <1>2 DEF Normalised, NormalGeo
  <2>3. Accepts(e)
    BY <2>1, <1>2, <1>4, <1>7 DEF Accepts, GeoOK, ValidDomain
  <2> QED
    BY <2>2, <2>3
<1> QED
  BY <1>3, <1>5, <1>6, <1>7 DEF Settles

\* Listeners: only the number of trusted proxy hops gets a default.
LEMMA ListenSettles ==
  ASSUME NEW d \in StoredListen
  PROVE  Settles(d, StoredListen)
<1>1. PICK cl \in BOOLEAN, h3 \in QUICAddrs, dq \in QUICAddrs, hp \in {-1, 0, 1}, px \in {"none", "bad"}, tm \in 0..1, cn \in {-1, 0} :
        d = [sec |-> "listen", classic |-> cl, doh3 |-> h3, doq |-> dq, hops |-> hp, proxy |-> px, timeout |-> tm, conns |-> cn]
  BY DEF StoredListen
<1> DEFINE h == IF hp = 0 THEN 1 ELSE hp
           e == [sec |-> "listen", classic |-> cl, doh3 |-> h3, doq |-> dq, hops |-> h, proxy |-> px, timeout |-> tm, conns |-> cn]
<1>2. h \in {-1, 0, 1} /\ h # 0 /\ (hp >= 0 => h >= 0)
  OBVIOUS
<1>3. Normalised(d) = e
  BY <1>1 DEF Normalised
<1> HIDE DEF h
<1>5. e \in StoredListen /\ e.sec = d.sec
  BY <1>1, <1>2 DEF StoredListen
<1>6. Normalised(e) = e
  BY <1>2 DEF Normalised
<1>7. Accepts(d) => Accepts(e)
  <2>1. Accepts(d) = ListenOK(d) /\ Accepts(e) = ListenOK(e)
    BY <1>1 DEF Accepts
  <2>2. ListenOK(d) => ListenOK(e)
    BY <1>1, <1>2 DEF ListenOK
  <2> QED
    BY <2>1, <2>2
<1> QED
  BY <1>3, <1>5, <1>6, <1>7 DEF Settles

\* DoH and the dashboard: the redirect's default port.
LEMMA PortsSettle ==
  ASSUME NEW d \in StoredPorts
  PROVE  Settles(d, StoredPorts)
<1>1. PICK dh \in {0, 1, 2}, wb \in {0, 1, 80}, tl \in BOOLEAN, rd \in BOOLEAN, rp \in {0, 1, 80}, pt \in BOOLEAN :
        d = [sec |-> "ports", doh |-> dh, web |-> wb, tls |-> tl, redirect |-> rd, rport |-> rp, path |-> pt]
  BY DEF StoredPorts
<1> DEFINE r == IF rd /\ rp = 0 THEN 80 ELSE rp
           e == [sec |-> "ports", doh |-> dh, web |-> wb, tls |-> tl, redirect |-> rd, rport |-> r, path |-> pt]
<1>2. r \in {0, 1, 80} /\ ~(rd /\ r = 0)
  OBVIOUS
<1>3. NormalPorts(d) = e
  BY <1>1 DEF NormalPorts
<1>4. Normalised(d) = NormalPorts(d)
  BY <1>1 DEF Normalised
<1> HIDE DEF r
<1>5. e \in StoredPorts /\ e.sec = d.sec
  BY <1>1, <1>2 DEF StoredPorts
<1>6. NormalPorts(e) = e /\ Normalised(e) = e
  BY <1>2 DEF Normalised, NormalPorts
<1>7. Accepts(d) => Accepts(e)
  <2>1. Accepts(d) = PortsOK(d) /\ Accepts(e) = PortsOK(e)
    BY <1>1 DEF Accepts
  <2>2. PortsOK(d) => PortsOK(e)
    BY <1>1, <1>3, <1>6 DEF PortsOK
  <2> QED
    BY <2>1, <2>2
<1> QED
  BY <1>3, <1>4, <1>5, <1>6, <1>7 DEF Settles

\* ACME: the challenge port, the renewal window and the propagation wait, when it is on.
LEMMA ACMESettles ==
  ASSUME NEW d \in StoredACME
  PROVE  Settles(d, StoredACME)
<1>1. PICK on \in BOOLEAN, em \in BOOLEAN, dm \in BOOLEAN, pt \in {0, 80, 81}, bf \in {-1, 0, 30},
           pv \in {"empty", "cloudflare", "route53", "other"}, tk \in BOOLEAN, wt \in {0, 60} :
        d = [sec |-> "acme", on |-> on, email |-> em, domains |-> dm, port |-> pt, before |-> bf, provider |-> pv, token |-> tk, wait |-> wt]
  BY DEF StoredACME
<1>2. CASE ~on
  <2>1. Normalised(d) = d
    BY <1>1, <1>2 DEF Normalised, NormalACME
  <2> QED
    BY <2>1 DEF Settles
<1>3. CASE on
  <2> DEFINE p == IF pt = 0 THEN 80 ELSE pt
             b == IF bf <= 0 THEN 30 ELSE bf
             w == IF wt = 0 THEN 60 ELSE wt
             e == [sec |-> "acme", on |-> on, email |-> em, domains |-> dm, port |-> p, before |-> b, provider |-> pv, token |-> tk, wait |-> w]
  <2>1. p \in {0, 80, 81} /\ p # 0 /\ b \in {-1, 0, 30} /\ ~(b <= 0) /\ w \in {0, 60} /\ w # 0
    OBVIOUS
  <2>2. Normalised(d) = e
    BY <1>1, <1>3 DEF Normalised, NormalACME
  <2> HIDE DEF p, b, w
  <2>3. e \in StoredACME /\ e.sec = d.sec
    BY <1>1, <2>1 DEF StoredACME
  <2>4. Normalised(e) = e
    BY <1>3, <2>1 DEF Normalised, NormalACME
  <2>5. Accepts(d) => Accepts(e)
    BY <1>1 DEF Accepts, ACMEOK
  <2> QED
    BY <2>2, <2>3, <2>4, <2>5 DEF Settles
<1> QED
  BY <1>2, <1>3

\* VPN: the routed domain, when a profile is routed.
LEMMA VPNSettles ==
  ASSUME NEW d \in StoredVPN
  PROVE  Settles(d, StoredVPN)
<1>1. PICK on \in BOOLEAN, ps \in {<<>>, <<"p">>, <<"p", "p">>, <<"p", "q">>}, pv \in {"nordvpn", "pia", "other"}, cr \in BOOLEAN,
           rt \in {"empty", "p", "q"}, D \in StoredDomains :
        d = [sec |-> "vpn", on |-> on, profiles |-> ps, provider |-> pv, creds |-> cr, route |-> rt, domain |-> D]
  BY DEF StoredVPN
<1>2. CASE rt = "empty"
  <2>1. Normalised(d) = d
    BY <1>1, <1>2 DEF Normalised
  <2> QED
    BY <2>1 DEF Settles
<1>3. CASE rt # "empty"
  <2> DEFINE E == NormalizeDomain(D)
             e == [sec |-> "vpn", on |-> on, profiles |-> ps, provider |-> pv, creds |-> cr, route |-> rt, domain |-> E]
  <2>1. E \in StoredDomains /\ (E.dots = 0 => NormalizeDomain(E) = E)
    BY DomainAgain
  <2>2. Normalised(d) = e
    BY <1>1, <1>3 DEF Normalised
  <2>3. Accepts(d) => E # InvalidDomain
    BY <1>1, <1>3 DEF Accepts, VPNOK, VPNSkipped, ValidDomain
  <2> HIDE DEF E
  <2>4. e \in StoredVPN /\ e.sec = d.sec
    BY <1>1, <2>1 DEF StoredVPN
  <2>5. ASSUME ~DoubleDots(e) PROVE E.dots = 0
    <3>1. "domain" \in DOMAIN e /\ e.domain = E
      OBVIOUS
    <3>2. E.dots \in 0..2
      BY <2>1 DEF StoredDomains
    <3>3. ~(E.dots > 0)
      BY <2>5, <3>1, Zenon DEF DoubleDots
    <3> QED
      BY <3>2, <3>3
  <2>6. ASSUME E.dots = 0, Accepts(d) PROVE Accepts(e) /\ Normalised(e) = e
    <3>1. NormalizeDomain(E) = E /\ E # InvalidDomain
      BY <2>1, <2>3, <2>6
    <3>2. Normalised(e) = e
      BY <3>1 DEF Normalised
    <3>3. Accepts(e)
      BY <1>1, <1>3, <2>6, <3>1 DEF Accepts, VPNOK, VPNSkipped, ValidDomain
    <3> QED
      BY <3>2, <3>3
  <2> QED
    BY <2>2, <2>4, <2>5, <2>6 DEF Settles
<1> QED
  BY <1>2, <1>3

\* The sections validate rewrites nothing in, and the defaults, stay as they are.
LEMMA UnchangedSettle ==
  ASSUME NEW d \in StoredWeb \cup Unnormalised \cup PlainDefaults
  PROVE  Normalised(d) = d /\ Settles(d, Stored)
<1>1. d \in Stored
  BY DEF Stored
<1>2. CASE d \in StoredWeb
  BY <1>2, <1>1 DEF Normalised, Settles, StoredWeb
<1>3. CASE d \in LimitDocs
  BY <1>3, <1>1 DEF Normalised, Settles, LimitDocs
<1>4. CASE d \in DHCPDocs
  BY <1>4, <1>1 DEF Normalised, Settles, DHCPDocs
<1>5. CASE d \in NumberDocs
  BY <1>5, <1>1 DEF Normalised, Settles, NumberDocs
<1>6. CASE d \in PlainDefaults
  <2>1. "default" \in DOMAIN d
    BY <1>6 DEF PlainDefaults
  <2> QED
    BY <2>1, <1>1 DEF Normalised, Settles
<1> QED
  BY <1>2, <1>3, <1>4, <1>5, <1>6 DEF Unnormalised

\* validate on any document: the result is a document of the same section, and settled.
LEMMA AllSettle ==
  ASSUME NEW d \in Stored
  PROVE  Settles(d, Stored)
<1>1. ASSUME NEW S, S \subseteq Stored, Settles(d, S) PROVE Settles(d, Stored)
  BY <1>1 DEF Settles
<1>2. CASE d \in StoredRoutes
  BY <1>1, <1>2, RoutesSettle DEF Stored
<1>3. CASE d \in StoredGeo
  BY <1>1, <1>3, GeoSettles DEF Stored
<1>4. CASE d \in StoredListen
  BY <1>1, <1>4, ListenSettles DEF Stored
<1>5. CASE d \in StoredPorts
  BY <1>1, <1>5, PortsSettle DEF Stored
<1>6. CASE d \in StoredACME
  BY <1>1, <1>6, ACMESettles DEF Stored
<1>7. CASE d \in StoredVPN
  BY <1>1, <1>7, VPNSettles DEF Stored
<1>8. CASE d \in StoredWeb \cup Unnormalised \cup PlainDefaults
  BY <1>8, UnchangedSettle
<1> QED
  BY <1>2, <1>3, <1>4, <1>5, <1>6, <1>7, <1>8 DEF Stored

-----------------------------------------------------------------------------
\* Nothing Save would still have to hash.
Clean(d) == PasswordsOf(d) \cap {"plain", "long"} = {} /\ d.token = "hash"

\* The fields of an account, a stored one.
LEMMA UserFields ==
  ASSUME NEW u \in StoredUsers
  PROVE  /\ u.id \in Nat /\ u.name \in {"empty", "root", "guest"} /\ u.role \in {"admin", "viewer", "owner"} /\ u.pw \in Creds \ {"empty"}
         /\ [u EXCEPT !.pw = HashOf(@)] \in StoredUsers
         /\ [u EXCEPT !.pw = HashOf(@)] = [id |-> u.id, name |-> u.name, role |-> u.role, pw |-> HashOf(u.pw)]
BY DEF StoredUsers, HashOf, Creds

\* Hashing changes passwords only.
LEMMA HashingUsers ==
  ASSUME NEW us \in Seq(StoredUsers)
  PROVE  /\ HashedUsers(us) \in Seq(StoredUsers) /\ DOMAIN HashedUsers(us) = DOMAIN us
         /\ \A i \in DOMAIN us : /\ HashedUsers(us)[i].id = us[i].id /\ HashedUsers(us)[i].name = us[i].name
                                 /\ HashedUsers(us)[i].role = us[i].role
         /\ (\A i \in DOMAIN us : us[i].pw # "long") => \A i \in DOMAIN us : HashedUsers(us)[i].pw = "hash"
<1> DEFINE vs == HashedUsers(us)
<1>1. DOMAIN us = 1..Len(us) /\ Len(us) \in Nat /\ \A i \in DOMAIN us : us[i] \in StoredUsers
  OBVIOUS
<1>2. DOMAIN vs = DOMAIN us
  BY DEF HashedUsers
<1>3. ASSUME NEW i \in DOMAIN us
      PROVE  vs[i] \in StoredUsers /\ vs[i].id = us[i].id /\ vs[i].name = us[i].name /\ vs[i].role = us[i].role
  <2>1. vs[i] = us[i] \/ vs[i] = [us[i] EXCEPT !.pw = HashOf(@)]
    BY DEF HashedUsers
  <2>2. us[i] \in StoredUsers
    BY <1>1
  <2> DEFINE w == [us[i] EXCEPT !.pw = HashOf(@)]
  <2>3. w \in StoredUsers /\ w = [id |-> us[i].id, name |-> us[i].name, role |-> us[i].role, pw |-> HashOf(us[i].pw)]
    BY <2>2, UserFields
  <2>4. w.id = us[i].id /\ w.name = us[i].name /\ w.role = us[i].role
    BY <2>3
  <2> HIDE DEF vs, w
  <2>5. CASE vs[i] = us[i]
    BY <2>5, <2>2
  <2>6. CASE vs[i] = w
    BY <2>6, <2>3, <2>4
  <2> QED
    BY <2>1, <2>5, <2>6 DEF w
<1>4. ASSUME \A i \in DOMAIN us : us[i].pw # "long", NEW i \in DOMAIN us PROVE vs[i].pw = "hash"
  <2>1. us[i] \in StoredUsers /\ \A j \in 1..i : j \in DOMAIN us
    BY <1>1
  <2>2. ~ \E j \in 1..i : us[j].pw = "long"
    BY <2>1, <1>4
  <2>3. vs[i] = [us[i] EXCEPT !.pw = HashOf(@)]
    BY <2>2 DEF HashedUsers
  <2>4. vs[i].pw = HashOf(us[i].pw)
    <3> HIDE DEF vs
    <3> QED
      BY <2>1, <2>3, UserFields
  <2>5. us[i].pw \in Creds \ {"empty"} /\ us[i].pw # "long"
    BY <2>1, <1>4, UserFields
  <2> QED
    BY <2>4, <2>5 DEF HashOf, Creds
<1> HIDE DEF vs
<1>5. vs \in Seq(StoredUsers)
  <2>1. vs \in [1..Len(us) -> StoredUsers]
    <3>1. vs = [i \in DOMAIN us |-> vs[i]]
      BY DEF vs, HashedUsers
    <3> QED
      BY <3>1, <1>1, <1>3
  <2> QED
    BY <2>1, <1>1
<1> QED
  BY <1>2, <1>3, <1>4, <1>5 DEF vs

\* validate's rules on the accounts do not read passwords.
LEMMA HashingKeepsUsersOK ==
  ASSUME NEW us \in Seq(StoredUsers)
  PROVE  (UsersOK(us) => UsersOK(HashedUsers(us))) /\ (us = <<>> <=> HashedUsers(us) = <<>>)
<1> DEFINE vs == HashedUsers(us)
<1>1. /\ DOMAIN vs = DOMAIN us /\ vs \in Seq(StoredUsers)
      /\ \A i \in DOMAIN us : vs[i].id = us[i].id /\ vs[i].name = us[i].name /\ vs[i].role = us[i].role
  BY HashingUsers
<1> HIDE DEF vs
<1>2. us = <<>> <=> vs = <<>>
  <2>1. us = <<>> <=> DOMAIN us = {}
    OBVIOUS
  <2>2. vs = <<>> <=> DOMAIN vs = {}
    BY <1>1
  <2> QED
    BY <2>1, <2>2, <1>1
<1>3. UsersOK(us) => UsersOK(vs)
  BY <1>1, <1>2 DEF UsersOK
<1> QED
  BY <1>2, <1>3 DEF vs

\* Save's hashing on a web section: the accounts stay acceptable, the login keeps being set or not,
\* and unless bcrypt refused a password nothing plaintext is left.
LEMMA HashingWeb ==
  ASSUME NEW d \in StoredWeb
  PROVE  /\ Hashed(d) \in StoredWeb /\ Hashed(d).login = d.login /\ Hashed(d).secret = d.secret
         /\ (Hashed(d).pw = "empty" <=> d.pw = "empty") /\ (Hashed(d).users = <<>> <=> d.users = <<>>)
         /\ WebOK(d) => WebOK(Hashed(d))
         /\ "long" \notin PasswordsOf(d) => Clean(Hashed(d))
<1>1. PICK lg \in {"empty", "root"}, pw \in Creds, us \in Seq(StoredUsers), tk \in {"plain", "hash"}, sc \in Nat :
        d = [sec |-> "web", login |-> lg, pw |-> pw, users |-> us, token |-> tk, secret |-> sc]
  BY DEF StoredWeb
<1>2. CASE pw = "long"
  <2>1. Hashed(d) = d
    BY <1>1, <1>2 DEF Hashed
  <2>2. "long" \in PasswordsOf(d)
    BY <1>1, <1>2 DEF PasswordsOf
  <2> QED
    BY <2>1, <2>2
<1>3. CASE pw # "long"
  <2> DEFINE vs == HashedUsers(us)
             p == HashOf(pw)
             e == [sec |-> "web", login |-> lg, pw |-> p, users |-> vs, token |-> "hash", secret |-> sc]
  <2>1. Hashed(d) = e
    <3>1. d.sec = "web" /\ d.pw = pw /\ d.users = us
      BY <1>1
    <3>2. Hashed(d) = [d EXCEPT !.pw = p, !.token = "hash", !.users = vs]
      BY <3>1, <1>3 DEF Hashed
    <3> HIDE DEF p, vs
    <3> QED
      BY <1>1, <3>2
  <2>2. p \in Creds /\ (p = "empty" <=> pw = "empty") /\ p # "plain" /\ p # "long"
    BY <1>3 DEF HashOf, Creds
  <2>3. vs \in Seq(StoredUsers) /\ (us = <<>> <=> vs = <<>>) /\ (UsersOK(us) => UsersOK(vs)) /\ DOMAIN vs = DOMAIN us
    BY HashingUsers, HashingKeepsUsersOK
  <2>4. (\A i \in DOMAIN us : us[i].pw # "long") => \A i \in DOMAIN us : vs[i].pw = "hash"
    BY HashingUsers
  <2> HIDE DEF vs, p
  <2>5. e \in StoredWeb
    BY <2>2, <2>3 DEF StoredWeb
  <2>6. WebOK(d) => WebOK(e)
    BY <1>1, <2>3 DEF WebOK
  <2>7. ASSUME "long" \notin PasswordsOf(d) PROVE Clean(e)
    <3>1. \A i \in DOMAIN us : us[i].pw # "long"
      BY <1>1, <2>7 DEF PasswordsOf
    <3>2. PasswordsOf(e) = {p} \cup {vs[i].pw : i \in DOMAIN vs}
      BY DEF PasswordsOf
    <3>3. PasswordsOf(e) \cap {"plain", "long"} = {}
      BY <3>1, <3>2, <2>2, <2>3, <2>4
    <3> QED
      BY <3>3 DEF Clean
  <2> QED
    BY <1>1, <2>1, <2>2, <2>3, <2>5, <2>6, <2>7
<1> QED
  BY <1>2, <1>3

\* The legacy login's account.
LEMMA MigratingWeb ==
  ASSUME NEW d \in StoredWeb, Migrates(d), crFresh \in Nat
  PROVE  Migrated(d) \in StoredWeb /\ Migrated(d).users # <<>>
<1>1. PICK lg \in {"empty", "root"}, pw \in Creds, us \in Seq(StoredUsers), tk \in {"plain", "hash"}, sc \in Nat :
        d = [sec |-> "web", login |-> lg, pw |-> pw, users |-> us, token |-> tk, secret |-> sc]
  BY DEF StoredWeb
<1> DEFINE u == UserOf(crFresh, lg, "admin", pw)
<1>2. lg # "empty" /\ pw # "empty"
  BY <1>1 DEF Migrates
<1>3. u \in StoredUsers
  BY <1>2 DEF UserOf, StoredUsers
<1>4. Migrated(d) = [sec |-> "web", login |-> lg, pw |-> pw, users |-> <<u>>, token |-> tk, secret |-> sc]
  BY <1>1 DEF Migrated
<1> HIDE DEF u
<1>5. <<u>> \in Seq(StoredUsers) /\ <<u>> # <<>>
  BY <1>3
<1> QED
  BY <1>4, <1>5 DEF StoredWeb

\* A new session secret touches nothing else.
LEMMA SecretWeb ==
  ASSUME NEW d \in StoredWeb, crFresh \in Nat
  PROVE  /\ WithSecret(d) \in StoredWeb /\ WithSecret(d).secret # 0 /\ WithSecret(d).login = d.login /\ WithSecret(d).pw = d.pw
         /\ WithSecret(d).users = d.users /\ PasswordsOf(WithSecret(d)) = PasswordsOf(d) /\ (WebOK(d) => WebOK(WithSecret(d)))
<1>1. PICK lg \in {"empty", "root"}, pw \in Creds, us \in Seq(StoredUsers), tk \in {"plain", "hash"}, sc \in Nat :
        d = [sec |-> "web", login |-> lg, pw |-> pw, users |-> us, token |-> tk, secret |-> sc]
  BY DEF StoredWeb
<1> DEFINE s == crFresh + 1
<1>2. s \in Nat /\ s # 0
  OBVIOUS
<1>3. WithSecret(d) = [sec |-> "web", login |-> lg, pw |-> pw, users |-> us, token |-> tk, secret |-> s]
  BY <1>1 DEF WithSecret
<1> HIDE DEF s
<1>4. WithSecret(d) \in StoredWeb
  BY <1>2, <1>3 DEF StoredWeb
<1> QED
  BY <1>1, <1>2, <1>3, <1>4 DEF PasswordsOf, WebOK

\* The web section's documents, told from the other sections'.
LEMMA WebStored ==
  ASSUME NEW d \in Stored
  PROVE  d.sec = "web" <=> d \in StoredWeb
<1>1. CASE d \in StoredRoutes \cup StoredGeo \cup StoredListen \cup StoredPorts
  BY <1>1 DEF StoredRoutes, StoredGeo, StoredListen, StoredPorts, StoredWeb
<1>2. CASE d \in StoredACME \cup StoredVPN \cup PlainDefaults
  BY <1>2 DEF StoredACME, StoredVPN, PlainDefaults, StoredWeb
<1>3. CASE d \in Unnormalised
  BY <1>3 DEF Unnormalised, LimitDocs, DHCPDocs, NumberDocs, StoredWeb
<1>4. CASE d \in StoredWeb
  BY <1>4 DEF StoredWeb
<1> QED
  BY <1>1, <1>2, <1>3, <1>4 DEF Stored

\* Load on any stored document but a web section: validate alone.
LEMMA LoadingOther ==
  ASSUME NEW d \in Stored, d.sec # "web"
  PROVE  /\ Stage1(d) = d /\ Stage2(d) = Normalised(d) /\ Stage3(d) = Normalised(d) /\ LoadedFile(d) = d /\ ~LoadWrites(d)
         /\ Stage3(d) \in Stored /\ Stage3(d).sec = d.sec
         /\ Accepts(Stage1(d)) => Steady(Stage3(d))
<1>1. Stage1(d) = d /\ ~Migrates(d)
  BY DEF Stage1, Migrates
<1>2. Stage2(d) = Normalised(d)
  BY <1>1, Zenon DEF Stage2
<1>3. Normalised(d) \in Stored /\ Normalised(d).sec = d.sec
      /\ (Accepts(d) /\ ~DoubleDots(Normalised(d)) => Accepts(Normalised(d)) /\ Normalised(Normalised(d)) = Normalised(d))
  BY AllSettle, Zenon DEF Settles
<1> DEFINE e == Normalised(d)
<1>4. e \in Stored /\ e.sec # "web" /\ (Accepts(d) /\ ~DoubleDots(e) => Accepts(e) /\ Normalised(e) = e) /\ Stage2(d) = e /\ e.sec = d.sec
  BY <1>2, <1>3
<1> HIDE DEF e
<1>5. ~NeedsSecret(Stage2(d)) /\ ~NeedsSecret(e) /\ ~Migrates(e)
  BY <1>4 DEF NeedsSecret, Migrates
<1>6. Stage3(d) = e
  BY <1>4, <1>5, Zenon DEF Stage3
<1>7. LoadedFile(d) = d /\ ~LoadWrites(d)
  BY <1>1, <1>5, Zenon DEF LoadedFile, LoadWrites
<1>8. Accepts(Stage1(d)) => Steady(e)
  <2>1. Accepts(Stage1(d)) => Accepts(d)
    BY <1>1, Zenon
  <2> QED
    BY <2>1, <1>4, <1>5, Zenon DEF Steady
<1> QED
  BY <1>1, <1>4, <1>6, <1>7, <1>8, Zenon DEF e

\* Load on a web section: the migrated account, the hashes and the new secret; what it writes is clean.
LEMMA LoadingWeb ==
  ASSUME NEW d \in StoredWeb, crFresh \in Nat
  PROVE  /\ Stage1(d) \in StoredWeb /\ Stage2(d) = Stage1(d) /\ Stage3(d) \in StoredWeb
         /\ Accepts(Stage1(d)) => Steady(Stage3(d))
         /\ Migrates(d) /\ SaveWrites(Migrated(d)) => Clean(Stage1(d))
         /\ NeedsSecret(Stage2(d)) /\ SaveWrites(Stage2(d)) => Clean(Stage3(d))
<1> DEFINE a == Stage1(d)
           b == Stage3(d)
<1>1. a \in StoredWeb /\ ~Migrates(a) /\ (Migrates(d) /\ SaveWrites(Migrated(d)) => Clean(a))
  <2>1. CASE ~Migrates(d)
    <3>1. a = d
      BY <2>1, Zenon DEF Stage1
    <3> QED
      BY <2>1, <3>1, Zenon
  <2>2. CASE Migrates(d)
    <3> DEFINE m == Migrated(d)
    <3>1. m \in StoredWeb /\ m.users # <<>>
      BY <2>2, MigratingWeb
    <3> HIDE DEF m
    <3>2. Hashed(m) \in StoredWeb /\ Hashed(m).users # <<>> /\ ("long" \notin PasswordsOf(m) => Clean(Hashed(m)))
      BY <3>1, HashingWeb
    <3>3. a = Hashed(m)
      BY <2>2, Zenon DEF Stage1, m
    <3>4. ~Migrates(Hashed(m))
      BY <3>2, Zenon DEF Migrates
    <3>5. SaveWrites(m) => "long" \notin PasswordsOf(m)
      BY Zenon DEF SaveWrites
    <3> QED
      BY <3>2, <3>3, <3>4, <3>5, Zenon DEF m
  <2> QED
    BY <2>1, <2>2
<1>2. Stage2(d) = a
  BY <1>1, UnchangedSettle, Zenon DEF Stage2
<1> HIDE DEF a
<1>3. b = IF NeedsSecret(a) THEN Hashed(WithSecret(a)) ELSE a
  BY <1>2, Zenon DEF Stage3
<1> HIDE DEF b
<1>4. a.sec = "web" /\ a \in Stored
  BY <1>1 DEF StoredWeb, Stored
<1>5. Accepts(a) <=> WebOK(a)
  BY <1>1 DEF Accepts, StoredWeb
<1>6. /\ b \in StoredWeb /\ ~Migrates(b) /\ ~NeedsSecret(b) /\ (WebOK(a) => WebOK(b))
      /\ NeedsSecret(a) /\ SaveWrites(a) => Clean(b)
  <2>1. CASE ~NeedsSecret(a)
    <3>1. b = a
      BY <2>1, <1>3, Zenon
    <3> QED
      BY <2>1, <3>1, <1>1, Zenon
  <2>2. CASE NeedsSecret(a)
    <3> DEFINE s == WithSecret(a)
    <3>1. s \in StoredWeb /\ s.secret # 0 /\ s.login = a.login /\ s.pw = a.pw /\ s.users = a.users
          /\ PasswordsOf(s) = PasswordsOf(a) /\ (WebOK(a) => WebOK(s))
      BY <1>1, SecretWeb
    <3> HIDE DEF s
    <3>2. b = Hashed(s)
      BY <2>2, <1>3, Zenon DEF s
    <3>3. /\ Hashed(s) \in StoredWeb /\ Hashed(s).login = s.login /\ Hashed(s).secret = s.secret
          /\ (Hashed(s).pw = "empty" <=> s.pw = "empty") /\ (Hashed(s).users = <<>> <=> s.users = <<>>)
          /\ (WebOK(s) => WebOK(Hashed(s))) /\ ("long" \notin PasswordsOf(s) => Clean(Hashed(s)))
      BY <3>1, HashingWeb
    <3>4. ~(a.users = <<>> /\ a.login # "empty" /\ a.pw # "empty")
      BY <1>1, <1>4, Zenon DEF Migrates
    <3>5. ~Migrates(Hashed(s))
      BY <3>1, <3>3, <3>4, Zenon DEF Migrates
    <3>6. ~NeedsSecret(Hashed(s))
      BY <3>1, <3>3, Zenon DEF NeedsSecret
    <3>7. SaveWrites(a) => "long" \notin PasswordsOf(s)
      BY <3>1, Zenon DEF SaveWrites
    <3> QED
      BY <3>1, <3>2, <3>3, <3>5, <3>6, <3>7, Zenon
  <2> QED
    BY <2>1, <2>2
<1>7. Normalised(b) = b /\ (Accepts(b) <=> WebOK(b))
  <2>1. Accepts(b) <=> WebOK(b)
    BY <1>6 DEF Accepts, StoredWeb
  <2> QED
    BY <2>1, <1>6, UnchangedSettle
<1>8. Accepts(a) => Steady(b)
  BY <1>5, <1>6, <1>7, Zenon DEF Steady
<1> QED
  BY <1>1, <1>2, <1>6, <1>8, Zenon DEF a, b

\* What someone may submit is a document.
LEMMA DocsStored == CRDocs \subseteq Stored
<1>1. Domains \subseteq StoredDomains
  BY DEF Domains, StoredDomains
<1>2. RouteDocs \subseteq StoredRoutes
  BY <1>1 DEF RouteDocs, StoredRoutes
<1>3. GeoDocs \subseteq StoredGeo
  BY <1>1 DEF GeoDocs, StoredGeo
<1>4. ListenDocs \subseteq StoredListen
  BY DEF ListenDocs, StoredListen
<1>5. PortDocs \subseteq StoredPorts /\ ACMEDocs \subseteq StoredACME
  BY DEF PortDocs, StoredPorts, ACMEDocs, StoredACME
<1>6. VPNDocs \subseteq StoredVPN
  BY <1>1 DEF VPNDocs, StoredVPN
<1>7. WebDocs \subseteq StoredWeb
  <2>1. FirstUsers \subseteq StoredUsers /\ MoreUsers \subseteq StoredUsers
    BY DEF FirstUsers, MoreUsers, StoredUsers, UserOf, Creds
  <2>2. UserLists \subseteq Seq(StoredUsers)
    <3>1. ASSUME NEW us \in UserLists PROVE us = <<>> \/ (\E u \in StoredUsers : us = <<u>>) \/ (\E u, v \in StoredUsers : us = <<u, v>>)
      BY <2>1 DEF UserLists
    <3>2. <<>> \in Seq(StoredUsers)
      OBVIOUS
    <3>3. ASSUME NEW u \in StoredUsers PROVE <<u>> \in Seq(StoredUsers)
      OBVIOUS
    <3>4. ASSUME NEW u \in StoredUsers, NEW v \in StoredUsers PROVE <<u, v>> \in Seq(StoredUsers)
      OBVIOUS
    <3> QED
      BY <3>1, <3>2, <3>3, <3>4, Zenon
  <2>3. {0, 1} \subseteq Nat
    OBVIOUS
  <2> QED
    BY <2>2, <2>3 DEF WebDocs, StoredWeb
<1> QED
  BY <1>2, <1>3, <1>4, <1>5, <1>6, <1>7 DEF CRDocs, Stored, Unnormalised

\* The sections.
Sections == {"routes", "geo", "listen", "ports", "limits", "acme", "vpn", "dhcp", "numbers", "web"}

\* Every document names its section; the absent ones name none.
LEMMA StoredSections ==
  ASSUME NEW d \in Stored
  PROVE  d.sec \in Sections /\ d # Down /\ d # NoFile
<1>1. d.sec \in Sections
  <2>1. CASE d \in StoredRoutes \cup StoredGeo \cup StoredListen \cup StoredPorts
    BY <2>1 DEF StoredRoutes, StoredGeo, StoredListen, StoredPorts, Sections
  <2>2. CASE d \in StoredACME \cup StoredVPN \cup PlainDefaults \cup StoredWeb
    BY <2>2 DEF StoredACME, StoredVPN, PlainDefaults, StoredWeb, Sections
  <2>3. CASE d \in Unnormalised
    BY <2>3 DEF Unnormalised, LimitDocs, DHCPDocs, NumberDocs, Sections
  <2> QED
    BY <2>1, <2>2, <2>3 DEF Stored
<1>2. Down.sec = "down" /\ NoFile.sec = "none"
  BY DEF Down, NoFile
<1> QED
  BY <1>1, <1>2 DEF Sections

\* The defaults are documents of their section; hashed, they hold nothing plaintext.
LEMMA DefaultsStored ==
  ASSUME NEW s \in Sections
  PROVE  /\ DefaultDoc(s) \in Stored /\ DefaultDoc(s).sec = s
         /\ Hashed(DefaultDoc(s)) \in Stored /\ Hashed(DefaultDoc(s)).sec = s
         /\ s = "web" => Clean(Hashed(DefaultDoc(s)))
<1>1. CASE s = "web"
  <2> DEFINE d == [sec |-> "web", login |-> "root", pw |-> "empty", users |-> <<>>, token |-> "hash", secret |-> 0]
  <2>1. DefaultDoc(s) = d
    BY <1>1 DEF DefaultDoc
  <2>2. d \in StoredWeb
    BY DEF StoredWeb, Creds
  <2>3. "long" \notin PasswordsOf(d)
    BY DEF PasswordsOf
  <2> HIDE DEF d
  <2>4. Hashed(d) \in StoredWeb /\ Clean(Hashed(d))
    BY <2>2, <2>3, HashingWeb
  <2>5. d.sec = "web" /\ Hashed(d).sec = "web" /\ d \in Stored /\ Hashed(d) \in Stored
    BY <2>2, <2>4 DEF StoredWeb, Stored
  <2> QED
    BY <1>1, <2>1, <2>4, <2>5, Zenon
<1>2. CASE s # "web"
  <2>1. DefaultDoc(s) \in Stored /\ DefaultDoc(s).sec = s
    <3>1. CASE s = "ports"
      BY <3>1 DEF DefaultDoc, Stored, StoredPorts
    <3>2. CASE s = "listen"
      BY <3>2 DEF DefaultDoc, Stored, StoredListen, QUICAddrs, NoAddr, Addr
    <3>3. CASE s = "acme"
      BY <3>3 DEF DefaultDoc, Stored, StoredACME
    <3>4. CASE s \in {"routes", "geo", "limits", "vpn", "dhcp", "numbers"}
      BY <3>4 DEF DefaultDoc, Stored, PlainDefaults
    <3> QED
      BY <1>2, <3>1, <3>2, <3>3, <3>4 DEF Sections
  <2>2. Hashed(DefaultDoc(s)) = DefaultDoc(s)
    BY <1>2, <2>1, Zenon DEF Hashed
  <2> QED
    BY <1>2, <2>1, <2>2, Zenon
<1> QED
  BY <1>1, <1>2

\* The first state.
LEMMA InitRules == ASSUME CRInit PROVE CRInv
<1>1. crAsk \in Stored
  BY DocsStored DEF CRInit
<1>2. crAsk.sec \in Sections
  BY <1>1, StoredSections
<1>3. crDisk = NoFile \/ (crDisk \in Stored /\ crDisk.sec = crAsk.sec)
  BY <1>2, DefaultsStored DEF CRInit
<1>4. crSaved = FALSE /\ crWriter = "program" /\ crLive = Down /\ crFresh = 2
  BY DEF CRInit
<1>5. CRTypes
  <2>1. \E k \in 0..CRBoots : crFresh = 2 + 2 * k
    <3>1. 0 \in 0..CRBoots /\ crFresh = 2 + 2 * 0
      BY <1>4, CRAssumption
    <3> QED
      BY <3>1
  <2> QED
    BY <1>3, <1>4, <2>1 DEF CRTypes, CRInit
<1>6. NoPlaintextWritten
  <2>1. CASE crDisk = NoFile
    BY <2>1 DEF NoPlaintextWritten, NoFile
  <2>2. CASE crDisk # NoFile
    <3>1. crDisk = DefaultDoc(crAsk.sec)
      BY <2>2 DEF CRInit
    <3>2. CASE crAsk.sec = "web"
      <4>1. crDisk = [sec |-> "web", login |-> "root", pw |-> "empty", users |-> <<>>, token |-> "hash", secret |-> 0]
        BY <3>1, <3>2 DEF DefaultDoc
      <4> QED
        BY <4>1 DEF NoPlaintextWritten, PasswordsOf
    <3>3. CASE crAsk.sec # "web"
      BY <1>3, <2>2, <3>3 DEF NoPlaintextWritten
    <3> QED
      BY <3>2, <3>3
  <2> QED
    BY <2>1, <2>2
<1> QED
  BY <1>4, <1>5, <1>6 DEF CRInv, Restartable

\* A load counted: the next identifiers are fresh ones.
LEMMA LoadCounted == ASSUME CRTypes, CountsLoad PROVE (\E k \in 0..CRBoots : crFresh = 2 + 2 * k)' /\ crFresh \in Nat
<1>1. PICK k \in 0..CRBoots : crFresh = 2 + 2 * k
  BY DEF CRTypes
<1>2. k + 1 \in 0..CRBoots /\ crFresh' = 2 + 2 * (k + 1) /\ crFresh \in Nat
  BY <1>1, CRAssumption DEF CountsLoad
<1> QED
  BY <1>2

\* Load without a file: the saved defaults, hashed, and not vouched for.
LEMMA BootFirstRules == ASSUME CRInv, BootFirst PROVE CRInv'
<1> DEFINE e == Hashed(DefaultDoc(crAsk.sec))
<1>1. crAsk.sec \in Sections /\ crAsk \in CRDocs
  BY DocsStored, StoredSections DEF CRInv, CRTypes
<1>2. e \in Stored /\ e.sec = crAsk.sec /\ (crAsk.sec = "web" => Clean(e)) /\ e # NoFile
  BY <1>1, DefaultsStored, StoredSections
<1>3. /\ crLive' = e /\ crDisk' = e /\ crWriter' = "program" /\ crSaved' = FALSE
      /\ crAsk' = crAsk /\ crAsked' = crAsked /\ crRO' = crRO
  BY DEF BootFirst
<1>4. (\E k \in 0..CRBoots : crFresh = 2 + 2 * k)'
  BY LoadCounted DEF CRInv, BootFirst
<1> HIDE DEF e
<1>5. CRTypes'
  BY <1>1, <1>2, <1>3, <1>4 DEF CRInv, CRTypes
<1>6. NoPlaintextWritten'
  BY <1>2, <1>3 DEF NoPlaintextWritten, Clean
<1> QED
  BY <1>3, <1>5, <1>6 DEF CRInv, Restartable

\* What Load leaves in the file and in memory, for any stored document.
LEMMA FileLoading ==
  ASSUME NEW d \in Stored, crFresh \in Nat
  PROVE  /\ Stage3(d) \in Stored /\ Stage3(d).sec = d.sec /\ LoadedFile(d) \in Stored /\ LoadedFile(d).sec = d.sec
         /\ Accepts(Stage1(d)) => Steady(Stage3(d))
         /\ LoadWrites(d) /\ d.sec = "web" => Clean(LoadedFile(d))
         /\ ~LoadWrites(d) => LoadedFile(d) = d
<1>1. CASE d.sec # "web"
  BY <1>1, LoadingOther
<1>2. CASE d.sec = "web"
  <2>1. d \in StoredWeb /\ \A e \in StoredWeb : e \in Stored /\ e.sec = "web"
    BY <1>2, WebStored DEF Stored, StoredWeb
  <2>2. /\ Stage1(d) \in StoredWeb /\ Stage3(d) \in StoredWeb
        /\ (Accepts(Stage1(d)) => Steady(Stage3(d)))
        /\ (Migrates(d) /\ SaveWrites(Migrated(d)) => Clean(Stage1(d)))
        /\ (NeedsSecret(Stage2(d)) /\ SaveWrites(Stage2(d)) => Clean(Stage3(d)))
    BY <2>1, LoadingWeb
  <2>3. \/ LoadedFile(d) = Stage3(d) /\ Accepts(Stage1(d)) /\ NeedsSecret(Stage2(d)) /\ SaveWrites(Stage2(d))
        \/ LoadedFile(d) = Stage1(d) /\ Migrates(d) /\ SaveWrites(Migrated(d))
        \/ LoadedFile(d) = d /\ ~LoadWrites(d)
    BY Zenon DEF LoadedFile, LoadWrites
  <2>4. ~LoadWrites(d) => LoadedFile(d) = d
    BY Zenon DEF LoadedFile, LoadWrites
  <2>5. LoadedFile(d) \in StoredWeb
    BY <2>1, <2>2, <2>3, Zenon
  <2>6. LoadWrites(d) => Clean(LoadedFile(d))
    BY <2>2, <2>3, Zenon
  <2> QED
    BY <1>2, <2>1, <2>2, <2>4, <2>5, <2>6, Zenon
<1> QED
  BY <1>1, <1>2

\* Load of a file: what runs is what is saved, unless the session secret or the migration could not be written.
LEMMA LoadFileRules == ASSUME CRInv, LoadFile PROVE CRInv'
<1> DEFINE d == crDisk
           e == Stage3(crDisk)
           f == LoadedFile(crDisk)
<1>1. d \in Stored /\ d.sec = crAsk.sec /\ crFresh \in Nat /\ crLive = Down
  <2>1. crFresh \in Nat
    BY LoadCounted DEF CRInv, LoadFile
  <2> QED
    BY <2>1 DEF CRInv, CRTypes, LoadFile
<1>2. /\ e \in Stored /\ e.sec = d.sec /\ f \in Stored /\ f.sec = d.sec /\ (Accepts(Stage1(d)) => Steady(e))
      /\ (LoadWrites(d) /\ d.sec = "web" => Clean(f)) /\ (~LoadWrites(d) => f = d)
  BY <1>1, FileLoading
<1>3. /\ crDisk' = f /\ crWriter' = (IF LoadWrites(d) THEN "program" ELSE crWriter)
      /\ crAsk' = crAsk /\ crAsked' = crAsked /\ crRO' = crRO
      /\ \/ Accepts(Stage1(d)) /\ crLive' = e /\ crSaved' = (f = e)
         \/ crLive' = Down /\ crSaved' = FALSE
  BY <1>1 DEF LoadFile
<1>4. (\E k \in 0..CRBoots : crFresh = 2 + 2 * k)'
  BY LoadCounted DEF CRInv, LoadFile
<1> DEFINE W == LoadWrites(d)
           A == Accepts(Stage1(d))
<1>5. /\ crDisk' = f /\ crWriter' = (IF W THEN "program" ELSE crWriter)
      /\ (A /\ crLive' = e /\ crSaved' = (f = e)) \/ (crLive' = Down /\ crSaved' = FALSE)
      /\ (A => Steady(e)) /\ (W /\ d.sec = "web" => Clean(f)) /\ (~W => f = d)
  BY <1>2, <1>3
<1>6. f # NoFile /\ f # Down /\ e # NoFile /\ e # Down
  BY <1>2, StoredSections
<1> HIDE DEF W, A, e, f
<1>7. CRTypes'
  <2>1. crSaved' \in BOOLEAN
    BY <1>5
  <2>2. crLive' \in Stored \cup {Down} /\ (crLive' # Down => crLive'.sec = crAsk.sec)
    BY <1>1, <1>2, <1>5
  <2>3. crWriter' \in {"hand", "program"}
    BY <1>5 DEF CRInv, CRTypes
  <2> QED
    BY <1>1, <1>2, <1>3, <1>4, <1>6, <2>1, <2>2, <2>3 DEF CRInv, CRTypes
<1>8. Restartable'
  <2>1. ASSUME crSaved', crLive' # Down PROVE crDisk' = crLive' /\ Steady(crLive')
    BY <1>5, <2>1
  <2> QED
    BY <2>1 DEF Restartable
<1>9. NoPlaintextWritten'
  <2>1. CASE W
    BY <2>1, <1>1, <1>2, <1>5 DEF NoPlaintextWritten, Clean
  <2>2. CASE ~W
    BY <2>2, <1>5 DEF CRInv, NoPlaintextWritten
  <2> QED
    BY <2>1, <2>2
<1> QED
  BY <1>7, <1>8, <1>9 DEF CRInv

\* PUT /api/config: the accepted section, normalised, runs; it is saved or it is not.
LEMMA PutRules == ASSUME CRInv, PutAccepted PROVE CRInv'
<1> DEFINE e == Normalised(crAsk)
<1>1. crAsk \in Stored /\ crAsk \in CRDocs /\ crAsk.sec # "web" /\ Accepts(crAsk) /\ crLive # Down
  BY DocsStored DEF CRInv, CRTypes, PutAccepted
<1>2. e \in Stored /\ e.sec = crAsk.sec /\ (Accepts(crAsk) /\ ~DoubleDots(e) => Accepts(e) /\ Normalised(e) = e)
  BY <1>1, AllSettle DEF Settles
<1>3. /\ crAsked' = TRUE /\ crLive' = e /\ crAsk' = crAsk /\ crRO' = crRO /\ crFresh' = crFresh
      /\ \/ crDisk' = e /\ crWriter' = "program" /\ crSaved' = TRUE
         \/ crDisk' = crDisk /\ crWriter' = crWriter /\ crSaved' = FALSE
  BY DEF PutAccepted
<1>4. e # NoFile /\ e # Down
  BY <1>2, StoredSections
<1> HIDE DEF e
<1>5. Steady(e)
  BY <1>1, <1>2 DEF Steady, Migrates, NeedsSecret
<1>6. CRTypes'
  BY <1>1, <1>2, <1>3, <1>4 DEF CRInv, CRTypes
<1>7. Restartable'
  BY <1>3, <1>5 DEF Restartable
<1>8. NoPlaintextWritten'
  BY <1>1, <1>2, <1>3 DEF CRInv, NoPlaintextWritten
<1> QED
  BY <1>6, <1>7, <1>8 DEF CRInv

\* An edit by hand: whatever the file says then, nobody has saved it.
LEMMA EditRules == ASSUME CRInv, EditFile PROVE CRInv'
<1>1. crAsk \in Stored /\ crAsk \in CRDocs /\ crAsk # NoFile
  BY DocsStored, StoredSections DEF CRInv, CRTypes
<1>2. /\ crAsked' = TRUE /\ crDisk' = crAsk /\ crWriter' = "hand" /\ crSaved' = FALSE
      /\ crAsk' = crAsk /\ crLive' = crLive /\ crRO' = crRO /\ crFresh' = crFresh
  BY DEF EditFile
<1>3. CRTypes'
  BY <1>1, <1>2 DEF CRInv, CRTypes
<1> QED
  BY <1>2, <1>3 DEF CRInv, Restartable, NoPlaintextWritten

\* The process ends.
LEMMA StopRules == ASSUME CRInv, Stops PROVE CRInv'
<1>1. crLive' = Down /\ UNCHANGED <<crAsk, crAsked, crDisk, crWriter, crSaved, crRO, crFresh>>
  BY DEF Stops
<1>2. CRTypes'
  BY <1>1 DEF CRInv, CRTypes
<1> QED
  BY <1>1, <1>2 DEF CRInv, Restartable, NoPlaintextWritten

\* A saved and running configuration is read back as it is.
LEMMA RulesSafe == ASSUME CRInv PROVE ConfigSound
<1>1. CRTypeOK
  <2>1. crFresh \in 2..(2 + 2 * CRBoots)
    BY CRAssumption DEF CRInv, CRTypes
  <2>2. Down.sec = "down" /\ NoFile.sec = "none"
    BY DEF Down, NoFile
  <2> QED
    BY <2>1, <2>2 DEF CRInv, CRTypes, CRTypeOK
<1>2. RestartIsIdentity
  <2> SUFFICES ASSUME crSaved, crLive # Down, ~DoubleDots(crLive) PROVE Accepts(Stage1(crDisk)) /\ Stage3(crDisk) = crLive
    BY DEF RestartIsIdentity
  <2>1. crDisk = crLive /\ Steady(crLive)
    BY DEF CRInv, Restartable
  <2> DEFINE d == crLive
  <2>2. ~Migrates(d) /\ ~NeedsSecret(d) /\ Accepts(d) /\ Normalised(d) = d
    BY <2>1 DEF Steady
  <2>3. Stage1(d) = d
    BY <2>2, Zenon DEF Stage1
  <2>4. Stage2(d) = d
    BY <2>2, <2>3, Zenon DEF Stage2
  <2>5. Stage3(d) = d
    BY <2>2, <2>4, Zenon DEF Stage3
  <2> QED
    BY <2>1, <2>2, <2>3, <2>5, Zenon
<1> QED
  BY <1>1, <1>2 DEF CRInv, ConfigSound

\* The configuration file (validate, Save, Load), for every number of boots: once the process has saved what it
\* runs with, a restart accepts that file and yields the same configuration, and nothing the program writes holds
\* a plaintext credential.
THEOREM ConfigHolds == CRSpec => []ConfigSound
<1>1. CRInit => CRInv
  BY InitRules
<1>2. CRInv /\ [CRNext]_CRVars => CRInv'
  <2> SUFFICES ASSUME CRInv, [CRNext]_CRVars PROVE CRInv'
    OBVIOUS
  <2>1. CASE BootFirst
    BY <2>1, BootFirstRules
  <2>2. CASE LoadFile
    BY <2>2, LoadFileRules
  <2>3. CASE PutAccepted
    BY <2>3, PutRules
  <2>4. CASE EditFile
    BY <2>4, EditRules
  <2>5. CASE Stops
    BY <2>5, StopRules
  <2>6. CASE UNCHANGED CRVars
    BY <2>6 DEF CRVars, CRInv, CRTypes, Restartable, NoPlaintextWritten
  <2> QED
    BY <2>1, <2>2, <2>3, <2>4, <2>5, <2>6 DEF CRNext
<1>3. CRInv => ConfigSound
  BY RulesSafe
<1> QED
  BY <1>1, <1>2, <1>3, PTL DEF CRSpec
=============================================================================
