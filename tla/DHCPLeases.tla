----------------------------- MODULE DHCPLeases -----------------------------
(***************************************************************************)
(* The lease table of the DHCP server (internal/dhcp): the pool allocator  *)
(* (pool.go), the packet handlers (handler_v4.go, handler_v6.go) and what  *)
(* persistence and a configuration change do to the table (dhcp.go).       *)
(*                                                                         *)
(* One address family per instance.  The library runs every packet on a    *)
(* goroutine of its own, at most one per member of Procs here; a handler   *)
(* is cut where it gives the lock up.  Times are remaining ticks: a lease  *)
(* whose left is 0 has expired.  held is what the clients believe: the     *)
(* address of the last acknowledgement that reached them.                  *)
(***************************************************************************)
EXTENDS Naturals

CONSTANTS
  Clients,      \* lease keys: v4 MACs or v6 DUIDs
  PoolSize,     \* addresses of the dynamic range; offset i is poolAt(start, i)
  Outside,      \* addresses of the subnet outside the dynamic range
  Statics,      \* configurations: maps from clients to their reservation
  Procs,        \* packets handled at once
  V6,           \* DHCPv6 (rapid commit) or DHCPv4 (server identifier)
  Reload,       \* whether the configuration is re-applied and the process restarts
  LeaseTime, OfferedHold, DeclinedHold,
  None

Pool == 0..(PoolSize - 1)
Addrs == Pool \cup Outside

ASSUME PoolAssumption == PoolSize \in Nat \ {0} /\ None \notin Clients \cup Addrs
ASSUME OutsideAssumption == Outside \cap Pool = {}
ASSUME StaticsAssumption == Statics \subseteq [Clients -> Addrs \cup {None}] /\ Statics # {}
ASSUME TimesAssumption ==
  LeaseTime \in Nat \ {0} /\ OfferedHold \in Nat \ {0} /\ DeclinedHold \in Nat \ {0}
ASSUME FlagsAssumption == V6 \in BOOLEAN /\ Reload \in BOOLEAN

VARIABLES
  static,    \* cfg.Static
  leases,    \* client -> its lease
  byIP,      \* address -> the lease on it; the same object as in leases
  reserved,  \* address -> offer (key) or declined hold (key None)
  cursor,    \* cursor4 / cursor6
  ptr,       \* the reverse index: address -> the client it names
  disk,      \* leases.json
  dirty,
  call,      \* packets whose handler has given the lock up
  held       \* what each client believes it has leased

table == <<leases, byIP, ptr, dirty>>
vars == <<static, leases, byIP, reserved, cursor, ptr, disk, dirty, call, held>>

Lease == [ip: Addrs, left: 0..LeaseTime, static: BOOLEAN]
Indexed == [key: Clients, left: 0..LeaseTime, static: BOOLEAN]
Hold == [key: Clients \cup {None}, left: Nat \ {0}]
ASSUME NoneAssumption == None \notin Indexed /\ None \notin Hold /\ None \notin Lease
Idle == [pc |-> "idle"]
Call == [pc: {"check", "static", "commit", "rapid"}, key: Clients, ip: Addrs, static: BOOLEAN]

\* The two lease maps, the reverse names and the calls in hand are well
\* formed (Server).
TypeOK ==
  /\ static \in Statics
  /\ leases \in [Clients -> Lease \cup {None}]
  /\ byIP \in [Addrs -> Indexed \cup {None}]
  /\ reserved \in [Addrs -> Hold \cup {None}]
  /\ cursor \in Pool
  /\ ptr \in [Addrs -> Clients \cup {None}]
  /\ disk \in [Clients -> Lease \cup {None}]
  /\ dirty \in BOOLEAN
  /\ call \in [Procs -> Call \cup {Idle}]
  /\ held \in [Clients -> [ip: Addrs, left: 1..LeaseTime] \cup {None}]

-----------------------------------------------------------------------------
(* The table *)

\* Mutant: a lease counts as expired one tick early.
LiveEarly(l) == l.static \/ l.left > 1

Live(l) == l.static \/ l.left > 0

\* The address is leased to a client other than c.
Foreign(a, c) == byIP[a] # None /\ byIP[a].key # c

\* inUseLocked: the address is somebody else's, by a live lease or a hold.
Taken(a, c) ==
  \/ Foreign(a, c) /\ Live(byIP[a])
  \/ reserved[a] # None /\ reserved[a].key # c

\* inUseLocked drops an expired lease that it comes across.
Lapsed(a, c) == Foreign(a, c) /\ ~Live(byIP[a])

\* rebuildHostsLocked: leases override reservations; where two leases claim
\* an address, the map's iteration order decides.
RebuildHosts(cfg) ==
  LET Leased(a) == {c \in Clients : leases'[c] # None /\ leases'[c].ip = a}
      Reserved(a) == {c \in Clients : cfg[c] = a}
  IN  ptr' \in [Addrs -> Clients \cup {None}] /\ \A a \in Addrs :
        \/ ptr'[a] \in Leased(a)
        \/ Leased(a) = {} /\ ptr'[a] \in Reserved(a)
        \/ Leased(a) = {} /\ Reserved(a) = {} /\ ptr'[a] = None

\* Mutant: only the index gives a lapsed address up.
LookAtIndexOnly(S, c) ==
  LET gone == {a \in S : Lapsed(a, c)}
  IN  IF gone = {}
        THEN UNCHANGED table
        ELSE /\ byIP' = [a \in Addrs |-> IF a \in gone THEN None ELSE byIP[a]]
             /\ UNCHANGED leases
             /\ RebuildHosts(static)
             /\ dirty' = TRUE

\* inUseLocked on every address of S, on behalf of c.
LookAt(S, c) ==
  LET gone == {a \in S : Lapsed(a, c)}
  IN  IF gone = {}
        THEN UNCHANGED table
        ELSE /\ leases' = [k \in Clients |-> IF \E a \in gone : byIP[a].key = k
                                               THEN None ELSE leases[k]]
             /\ byIP' = [a \in Addrs |-> IF a \in gone THEN None ELSE byIP[a]]
             /\ RebuildHosts(static)
             /\ dirty' = TRUE

\* commitLocked: the lease owns the address; whoever had it loses its lease.
CommitLease(c, a, fixed) ==
  LET left == IF fixed THEN 0 ELSE LeaseTime
  IN  /\ reserved' = [reserved EXCEPT ![a] = None]
      /\ leases' = [k \in Clients |->
           IF k = c THEN [ip |-> a, left |-> left, static |-> fixed]
           ELSE IF byIP[a] # None /\ byIP[a].key = k THEN None ELSE leases[k]]
      /\ byIP' = [byIP EXCEPT ![a] = [key |-> c, left |-> left, static |-> fixed]]
      /\ RebuildHosts(static)
      /\ dirty' = TRUE

\* renewLocked on c's own lease, seen through both maps.
Renew(c) ==
  LET a == leases[c].ip
  IN  IF leases[c].static
        THEN UNCHANGED <<table, reserved>>
        ELSE /\ leases' = [leases EXCEPT ![c].left = LeaseTime]
             /\ byIP' = [byIP EXCEPT ![a] = IF @ # None /\ @.key = c
                                              THEN [@ EXCEPT !.left = LeaseTime] ELSE @]
             /\ reserved' = [reserved EXCEPT ![a] = None]
             /\ RebuildHosts(static)
             /\ dirty' = TRUE

Offer(c, a) == reserved' = [reserved EXCEPT ![a] = [key |-> c, left |-> OfferedHold]]

\* The i-th address of the round-robin scan of nextFree4 / nextFree6.
At(i) == (cursor + i) % PoolSize

-----------------------------------------------------------------------------
(* allocV4 / allocV6: out is the address found, None when there is none *)

AllocStatic(c, out) ==
  /\ static[c] # None
  /\ out = static[c]
  /\ CommitLease(c, out, TRUE)
  /\ UNCHANGED cursor

AllocOwn(c, out) ==
  /\ static[c] = None
  /\ leases[c] # None
  /\ out = leases[c].ip
  /\ Renew(c)
  /\ UNCHANGED cursor

Offered(c) == {a \in Addrs : reserved[a] # None /\ reserved[a].key = c}

AllocAgain(c, out) ==
  /\ static[c] = None /\ leases[c] = None
  /\ out \in Offered(c)
  /\ UNCHANGED <<table, reserved, cursor>>

\* requested is in the pool and free.
AllocRequested(c, requested, out) ==
  /\ static[c] = None /\ leases[c] = None /\ Offered(c) = {}
  /\ requested \in Pool /\ ~Taken(requested, c)
  /\ out = requested
  /\ LookAt({requested}, c)
  /\ Offer(c, requested)
  /\ UNCHANGED cursor

\* The first free address from the cursor on, having looked at all before it.
AllocNext(c, requested, out) ==
  /\ static[c] = None /\ leases[c] = None /\ Offered(c) = {}
  /\ requested \in Pool => Taken(requested, c)
  /\ LET seen(n) == {At(i) : i \in 0..n} \cup ({requested} \cap Pool)
     IN  \/ \E n \in 0..(PoolSize - 1) :
              /\ ~Taken(At(n), c)
              /\ \A i \in 0..(PoolSize - 1) : i < n => Taken(At(i), c)
              /\ out = At(n)
              /\ LookAt(seen(n), c)
              /\ Offer(c, out)
              /\ cursor' = At(n + 1)
         \/ /\ \A i \in 0..(PoolSize - 1) : Taken(At(i), c)
            /\ out = None
            /\ LookAt(seen(PoolSize - 1), c)
            /\ UNCHANGED <<reserved, cursor>>

Alloc(c, requested, out) ==
  \/ AllocStatic(c, out)
  \/ AllocOwn(c, out)
  \/ AllocAgain(c, out)
  \/ AllocRequested(c, requested, out)
  \/ AllocNext(c, requested, out)

-----------------------------------------------------------------------------
(* The packets *)

Free == {p \in Procs : call[p] = Idle}

\* A reply that grants the address reaches the client, or is lost.
Grant(c, a) ==
  \/ held' = [held EXCEPT ![c] = [ip |-> a, left |-> LeaseTime]]
  \/ UNCHANGED held

\* DISCOVER (v4).
Discover(c, requested) ==
  /\ ~V6
  /\ Free # {}
  /\ \E out \in Addrs \cup {None} : Alloc(c, requested, out)
  /\ UNCHANGED <<static, disk, call, held>>

\* SOLICIT (v6).  A rapid one commits after giving the lock up.
Solicit(p, c, requested, rapid) ==
  /\ V6
  /\ p \in Free
  /\ \E out \in Addrs \cup {None} :
       /\ Alloc(c, requested, out)
       /\ call' = IF rapid /\ out # None
                    THEN [call EXCEPT ![p] = [pc |-> "rapid", key |-> c, ip |-> out,
                                              static |-> static[c] # None]]
                    ELSE call
  /\ UNCHANGED <<static, disk, held>>

\* REQUEST, RENEW, REBIND (v6).
Request(p, c, a) ==
  /\ p \in Free
  /\ call' = [call EXCEPT ![p] = [pc |-> "check", key |-> c, ip |-> a, static |-> FALSE]]
  /\ UNCHANGED <<static, table, reserved, cursor, disk, held>>

\* REQUEST (v4).  Without a server identifier it is refused at once for an
\* address outside the pool or leased to another client.
RequestV4(p, c, a, sid) ==
  /\ ~V6
  /\ ~sid => a \in Pool /\ ~Foreign(a, c)
  /\ Request(p, c, a)

\* Mutant: an address held for another client's offer, or declined, passes.
CheckLeaseOnly(p) ==
  LET c == call[p].key  a == call[p].ip
  IN  /\ call[p].pc = "check"
      /\ call' = [call EXCEPT ![p] = IF a \in Pool /\ ~(Foreign(a, c) /\ Live(byIP[a]))
                                       THEN [@ EXCEPT !.pc = "static"] ELSE Idle]
      /\ IF a \in Pool THEN LookAt({a}, c) ELSE UNCHANGED table
      /\ UNCHANGED <<static, reserved, cursor, disk, held>>

\* addrInPool and inUse, under the read lock; a NAK ends the packet.
Check(p) ==
  LET c == call[p].key  a == call[p].ip
  IN  /\ call[p].pc = "check"
      /\ call' = [call EXCEPT ![p] = IF a \in Pool /\ ~Taken(a, c)
                                       THEN [@ EXCEPT !.pc = "static"] ELSE Idle]
      /\ IF a \in Pool THEN LookAt({a}, c) ELSE UNCHANGED table
      /\ UNCHANGED <<static, reserved, cursor, disk, held>>

\* staticFor, under the read lock.
ReadStatic(p) ==
  /\ call[p].pc = "static"
  /\ call' = [call EXCEPT ![p] = [@ EXCEPT !.pc = "commit",
                                           !.static = static[call[p].key] = call[p].ip]]
  /\ UNCHANGED <<static, table, reserved, cursor, disk, held>>

\* commit, and the acknowledgement.
Commit(p) ==
  /\ call[p].pc \in {"commit", "rapid"}
  /\ CommitLease(call[p].key, call[p].ip, call[p].static)
  /\ Grant(call[p].key, call[p].ip)
  /\ call' = [call EXCEPT ![p] = Idle]
  /\ UNCHANGED <<static, cursor, disk>>

\* Mutant: the names are not rebuilt.
ReleaseLeaseNamed(c, a) ==
  IF leases[c] # None /\ leases[c].ip = a
    THEN /\ leases' = [leases EXCEPT ![c] = None]
         /\ byIP' = [byIP EXCEPT ![a] = None]
         /\ dirty' = TRUE
         /\ UNCHANGED ptr
    ELSE UNCHANGED table

\* releaseLease.
ReleaseLease(c, a) ==
  IF leases[c] # None /\ leases[c].ip = a
    THEN /\ leases' = [leases EXCEPT ![c] = None]
         /\ byIP' = [byIP EXCEPT ![a] = None]
         /\ RebuildHosts(static)
         /\ dirty' = TRUE
    ELSE UNCHANGED table

\* RELEASE: the client has stopped using the address.
Release(c, a) ==
  /\ Free # {}
  /\ ReleaseLease(c, a)
  /\ held' = IF held[c] # None /\ held[c].ip = a THEN [held EXCEPT ![c] = None] ELSE held
  /\ UNCHANGED <<static, reserved, cursor, disk, call>>

\* DECLINE: the client has seen another host use the address it was given.
Decline(c) ==
  /\ Free # {}
  /\ held[c] # None
  /\ LET a == held[c].ip
     IN  /\ leases' = [k \in Clients |-> IF byIP[a] # None /\ byIP[a].key = k
                                           THEN None ELSE leases[k]]
         /\ byIP' = [byIP EXCEPT ![a] = None]
         /\ reserved' = [reserved EXCEPT ![a] = [key |-> None, left |-> DeclinedHold]]
  /\ RebuildHosts(static)
  /\ dirty' = TRUE
  /\ held' = [held EXCEPT ![c] = None]
  /\ UNCHANGED <<static, cursor, disk, call>>

-----------------------------------------------------------------------------
(* Time, persistence, configuration *)

Dec(l) == [l EXCEPT !.left = IF @ = 0 THEN 0 ELSE @ - 1]
Wane(m, S) == [x \in S |-> IF m[x] = None THEN None ELSE Dec(m[x])]
Fade(m, S) == [x \in S |-> IF m[x] = None \/ m[x].left = 1 THEN None ELSE Dec(m[x])]

Tick ==
  /\ leases' = Wane(leases, Clients)
  /\ byIP' = Wane(byIP, Addrs)
  /\ disk' = Wane(disk, Clients)
  /\ reserved' = Fade(reserved, Addrs)
  /\ held' = Fade(held, Clients)
  /\ UNCHANGED <<static, cursor, ptr, dirty, call>>

\* persistNow, seen from the table: the file holds the leases of one moment.
Persist ==
  /\ Reload
  /\ dirty
  /\ disk' = leases
  /\ dirty' = FALSE
  /\ UNCHANGED <<static, leases, byIP, reserved, cursor, ptr, call, held>>

\* loadLocked into the maps as they are; later entries of the file override
\* the index of earlier ones.
Load(base, index) ==
  LET ok == {c \in Clients : disk[c] # None /\
               IF disk[c].static THEN static'[c] = disk[c].ip ELSE disk[c].left > 0}
      on(a) == {c \in ok : disk[c].ip = a}
  IN  /\ leases' = [c \in Clients |-> IF c \in ok THEN disk[c] ELSE base[c]]
      /\ byIP' \in [Addrs -> Indexed \cup {None}]
      /\ \A a \in Addrs :
           \/ \E c \in on(a) : byIP'[a] = [key |-> c, left |-> disk[c].left,
                                           static |-> disk[c].static]
           \/ on(a) = {} /\ byIP'[a] = index[a]

\* SetConfig: a live change of the configuration re-reads the file.
SetConfig ==
  /\ Reload
  /\ static' \in Statics
  /\ Load(leases, byIP)
  /\ RebuildHosts(static')
  /\ UNCHANGED <<reserved, cursor, disk, dirty, call, held>>

\* The process ends and starts again: New, then SetConfig.
Restart ==
  /\ Reload
  /\ UNCHANGED static
  /\ Load([c \in Clients |-> None], [a \in Addrs |-> None])
  /\ reserved' = [a \in Addrs |-> None]
  /\ cursor' = 0
  /\ dirty' = FALSE
  /\ call' = [p \in Procs |-> Idle]
  /\ RebuildHosts(static)
  /\ UNCHANGED <<disk, held>>

-----------------------------------------------------------------------------

Init ==
  /\ static \in Statics
  /\ leases = [c \in Clients |-> None]
  /\ byIP = [a \in Addrs |-> None]
  /\ reserved = [a \in Addrs |-> None]
  /\ cursor = 0
  /\ ptr \in [Addrs -> Clients \cup {None}]
  /\ \A a \in Addrs : ptr[a] = None <=> \A c \in Clients : static[c] # a
  /\ \A a \in Addrs : ptr[a] # None => static[ptr[a]] = a
  /\ disk = leases
  /\ dirty = FALSE
  /\ call = [p \in Procs |-> Idle]
  /\ held = [c \in Clients |-> None]

Packet(p) == Check(p) \/ ReadStatic(p) \/ Commit(p)

Next ==
  \/ Tick
  \/ Persist
  \/ SetConfig
  \/ Restart
  \/ \E p \in Procs : Packet(p)
  \/ \E c \in Clients :
       \/ Decline(c)
       \/ \E a \in Addrs : Release(c, a)
       \/ \E p \in Procs, a \in Addrs, sid \in BOOLEAN : RequestV4(p, c, a, sid)
       \/ \E p \in Procs, a \in Addrs : V6 /\ Request(p, c, a)
       \/ \E a \in Addrs \cup {None} : Discover(c, a)
       \/ \E p \in Procs, a \in Addrs \cup {None}, rapid \in BOOLEAN : Solicit(p, c, a, rapid)

Spec == Init /\ [][Next]_vars

-----------------------------------------------------------------------------
(* Properties *)

\* No two clients believe that they have leased the same address.
NoSharedAddress ==
  \A c, d \in Clients : c # d /\ held[c] # None /\ held[d] # None => held[c].ip # held[d].ip

\* The two maps agree: a client's lease is the one indexed under its address.
\* It is what keeps two leases off one address and lets releaseLease,
\* declineLease and the reclaiming of expired leases find both halves.
LeaseIndexed ==
  \A c \in Clients : leases[c] # None =>
    byIP[leases[c].ip] = [key |-> c, left |-> leases[c].left, static |-> leases[c].static]

\* The reverse index names exactly the leased and the reserved addresses.
PtrFollowsTable ==
  \A a \in Addrs :
    /\ ptr[a] = None <=> \A c \in Clients : (leases[c] = None \/ leases[c].ip # a) /\ static[c] # a
    /\ ptr[a] # None => \/ leases[ptr[a]] # None /\ leases[ptr[a]].ip = a
                        \/ static[ptr[a]] = a

\* A declined address of the pool is withheld from everyone until the hold
\* has run out (declineLease).
DeclinedWithheld ==
  [][\A a \in Pool : reserved[a] # None /\ reserved[a].key = None =>
       \/ reserved'[a] # None /\ reserved'[a].key = None
       \/ reserved[a].left = 1 /\ reserved'[a] = None]_vars

(* The lease table as a whole: well formed, and the two maps agree on      *)
(* every lease (commitLocked, reclaim).                                    *)
LeaseTableSound ==
  /\ TypeOK
  /\ LeaseIndexed
=============================================================================
