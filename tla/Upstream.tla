------------------------------ MODULE Upstream ------------------------------
(***************************************************************************)
(* One upstream forwarder (internal/upstream): the circuit breaker, the    *)
(* pool of warm connections behind UDP, TCP and DoT, the shared QUIC       *)
(* connection of DoQ, the retries of each transport, and Close.            *)
(*                                                                         *)
(* Concurrent queries are cut at every atomic of the breaker, at every     *)
(* pool operation and where quicMu is given up.  A connection is also its  *)
(* socket.  The upstream is well or not: while it is well, a dial succeeds *)
(* and so does an exchange on a live connection; while it is not, anything *)
(* may happen.  A client's query may be cancelled wherever the code hands  *)
(* its context on (a dial, DoH, DoQ); a health probe is not cancelled and  *)
(* does not ask the breaker.                                               *)
(***************************************************************************)
EXTENDS Naturals, Sequences

CONSTANTS
  Transports,  \* "udp", "tcp" (TCP and DoT), "doh", "doq", "recursive"
  Queries,     \* goroutines inside Query
  Probes,      \* those that run the health check's probes
  Conns,       \* connections, each with its socket; a bound on how many there are at once
  PoolSize,    \* upstreamPoolSize
  MaxIdle,     \* poolMaxIdle
  OpenFails,   \* circuitOpenFails
  MinCooldown, MaxCooldown,  \* circuitCooldown -/+ circuitCooldownJitter
  None

ASSUME TransportsAssumption == Transports \subseteq {"udp", "tcp", "doh", "doq", "recursive"}
ASSUME ProbesAssumption == Probes \subseteq Queries
ASSUME SizesAssumption ==
  /\ PoolSize \in Nat /\ MaxIdle \in Nat /\ OpenFails \in Nat \ {0}
  /\ MinCooldown \in Nat \ {0} /\ MaxCooldown \in Nat /\ MinCooldown <= MaxCooldown
ASSUME ConnsAssumption == Conns \subseteq Nat /\ None \notin Conns

VARIABLES
  transport,
  well,      \* the server answers
  fails,     \* Upstream.fails, counted up to OpenFails
  cooldown,  \* time left until cooldownUntil, 0 once it has passed or when there is none
  pool,      \* connPool or udpPool: connections and their idle time
  quic,      \* quicConn and quicPc
  open,      \* sockets not closed
  live,      \* connections the peer still serves
  query,     \* what each goroutine is doing
  closer     \* Close: "no", "drain", "quic", "closed"

breaker == <<fails, cooldown>>
sockets == <<pool, quic, open, live>>
vars == <<transport, well, breaker, sockets, query, closer>>

Steps == {"idle", "get", "pooled", "dial", "fresh", "put", "close", "mark", "cool",
          "request", "quic", "stream", "drop"}

\* A query: its step, the leg of queryClassic it is on, the connection in its
\* hands, the result to mark and the step after marking, and
\* whether it has used up its retry.
Query == [pc: Steps, leg: {"udp", "tcp"}, conn: Conns \cup {None},
          res: {"ok", "fail"}, next: {"idle", "put", "close", "dial", "drop"},
          retried: BOOLEAN]

Idle == [pc |-> "idle", leg |-> "tcp", conn |-> None, res |-> "ok", next |-> "idle",
         retried |-> FALSE]

ConnsOf(p) == {p[i].conn : i \in DOMAIN p}
Pooled == ConnsOf(pool)

\* Pool, circuit, connection and query state are well formed (Upstream,
\* connPool).
TypeOK ==
  /\ transport \in Transports
  /\ well \in BOOLEAN
  /\ fails \in 0..OpenFails
  /\ cooldown \in 0..MaxCooldown
  /\ pool \in Seq([conn: Conns, idle: 0..(MaxIdle + 1)]) /\ Len(pool) <= PoolSize
  /\ quic \in Conns \cup {None}
  /\ open \subseteq Conns
  /\ live \subseteq Conns
  /\ query \in [Queries -> Query]
  /\ closer \in {"no", "drain", "quic", "closed"}

Init ==
  /\ transport \in Transports
  /\ well = TRUE
  /\ fails = 0
  /\ cooldown = 0
  /\ pool = <<>>
  /\ quic = None
  /\ open = {}
  /\ live = {}
  /\ query = [x \in Queries |-> Idle]
  /\ closer = "no"

-----------------------------------------------------------------------------
(* The breaker *)

\* Mutant: an elapsed cooldown does not count.
AvailableNever == fails < OpenFails

Available == fails < OpenFails \/ cooldown = 0

\* x moves to step s, as changed by the functions that follow.
At(x, s) == query[x].pc = s
Goto(x, s) == query' = [query EXCEPT ![x].pc = s]

\* The query ends and lets go of what it held.
End(x) == query' = [query EXCEPT ![x] = Idle]

\* markResult(r), then step s.
Mark(x, r, s) ==
  query' = [query EXCEPT ![x] = [query[x] EXCEPT !.pc = "mark", !.res = r, !.next = s]]

Continue(x) ==
  IF query[x].next = "idle"
    THEN End(x)
    ELSE query' = [query EXCEPT ![x] = [query[x] EXCEPT !.pc = query[x].next, !.res = "ok",
                                                 !.next = "idle"]]

\* The first atomic of markResult: fails.  A cancelled query, which is not
\* counted, takes neither step.
MarkFails(x) ==
  /\ At(x, "mark")
  /\ \/ query[x].res = "ok" /\ fails' = 0 /\ Goto(x, "cool")
     \/ /\ query[x].res = "fail"
        /\ fails' = IF fails < OpenFails THEN fails + 1 ELSE OpenFails
        /\ IF fails' = OpenFails THEN Goto(x, "cool") ELSE Continue(x)
  /\ UNCHANGED <<transport, well, cooldown, sockets, closer>>

\* The second: cooldownUntil.
MarkCooldown(x) ==
  /\ At(x, "cool")
  /\ \/ query[x].res = "ok" /\ cooldown' = 0
     \/ query[x].res = "fail" /\ cooldown' \in MinCooldown..MaxCooldown
  /\ Continue(x)
  /\ UNCHANGED <<transport, well, fails, sockets, closer>>

-----------------------------------------------------------------------------
(* Query: queryUpstreams' single-upstream path asks the breaker first *)

First == [t \in Transports |->
            IF t = "doq" THEN "quic" ELSE IF t \in {"doh", "recursive"} THEN "request" ELSE "get"]

Start(x) ==
  /\ At(x, "idle")
  /\ x \in Probes \/ Available
  /\ query' = [query EXCEPT ![x] = [Idle EXCEPT !.pc = First[transport],
                                                 !.leg = IF transport = "udp" THEN "udp" ELSE "tcp"]]
  /\ UNCHANGED <<transport, well, breaker, sockets, closer>>

CloseConn(c) == open' = open \ {c} /\ live' = live \ {c}

\* A connection that nothing refers to.
Unused == Conns \ (Pooled \cup {quic} \cup {query[x].conn : x \in Queries})
NewConn(c) == c \in Unused /\ \A d \in Unused : c <= d

\* getConn / udpGetConn: an entry idle for too long is closed and the next
\* one tried; an empty pool means a dial.
Get(x) ==
  /\ At(x, "get")
  /\ \/ /\ pool = <<>>
        /\ Goto(x, "dial")
        /\ UNCHANGED <<pool, open, live>>
     \/ /\ pool # <<>>
        /\ pool' = Tail(pool)
        /\ IF Head(pool).idle > MaxIdle
             THEN CloseConn(Head(pool).conn) /\ UNCHANGED query
             ELSE /\ query' = [query EXCEPT ![x] = [query[x] EXCEPT !.pc = "pooled",
                                                             !.conn = Head(pool).conn]]
                  /\ UNCHANGED <<open, live>>
  /\ UNCHANGED <<transport, well, breaker, quic, closer>>

\* Outcomes of an exchange on connection c.
Works(c) == c \in live \/ ~well
Breaks(c) == c \notin live \/ ~well

\* After a good exchange: TCP marks and then pools, UDP the other way round.
Success(x) == IF query[x].leg = "udp" THEN Goto(x, "put") ELSE Mark(x, "ok", "put")

PooledOk(x) ==
  /\ At(x, "pooled")
  /\ Works(query[x].conn)
  /\ Success(x)
  /\ UNCHANGED <<transport, well, breaker, sockets, closer>>

\* A warm connection fails: it is closed and the query dials.  Only TCP and
\* DoT mark the failure.
PooledFails(x) ==
  /\ At(x, "pooled")
  /\ Breaks(query[x].conn)
  /\ CloseConn(query[x].conn)
  /\ query' = [query EXCEPT ![x] = [query[x] EXCEPT !.conn = None, !.res = "fail", !.next = "dial",
                                             !.pc = IF query[x].leg = "udp" THEN "dial" ELSE "mark"]]
  /\ UNCHANGED <<transport, well, breaker, pool, quic, closer>>

\* queryClassic gives UDP up and retries over TCP, which has no pool here.
ToTCP(x) == query' = [query EXCEPT ![x] = [query[x] EXCEPT !.pc = "dial", !.leg = "tcp", !.conn = None]]

DialOk(x) ==
  /\ At(x, "dial")
  /\ \E c \in Conns :
       /\ NewConn(c)
       /\ open' = open \cup {c}
       /\ live' = live \cup {c}
       /\ query' = [query EXCEPT ![x] = [query[x] EXCEPT !.pc = "fresh", !.conn = c]]
  /\ UNCHANGED <<transport, well, breaker, pool, quic, closer>>

DialFails(x) ==
  /\ At(x, "dial")
  /\ \/ ~well /\ (IF query[x].leg = "udp" THEN ToTCP(x) ELSE Mark(x, "fail", "idle"))
     \/ x \notin Probes /\ (IF query[x].leg = "udp" THEN ToTCP(x) ELSE End(x))
  /\ UNCHANGED <<transport, well, breaker, sockets, closer>>

FreshOk(x) ==
  /\ At(x, "fresh")
  /\ Works(query[x].conn)
  /\ Success(x)
  /\ UNCHANGED <<transport, well, breaker, sockets, closer>>

\* TCP marks the failure and then closes; UDP closes and goes on to TCP.
FreshFails(x) ==
  /\ At(x, "fresh")
  /\ Breaks(query[x].conn)
  /\ \/ query[x].leg = "udp" /\ ToTCP(x) /\ CloseConn(query[x].conn)
     \/ query[x].leg = "tcp" /\ Mark(x, "fail", "close") /\ UNCHANGED <<open, live>>
  /\ UNCHANGED <<transport, well, breaker, pool, quic, closer>>

\* Mutant: a connection that failed goes back to the pool.
ShutPooled(x) ==
  /\ At(x, "close")
  /\ CloseConn(query[x].conn)
  /\ pool' = IF Len(pool) < PoolSize THEN Append(pool, [conn |-> query[x].conn, idle |-> 0]) ELSE pool
  /\ End(x)
  /\ UNCHANGED <<transport, well, breaker, quic, closer>>

Shut(x) ==
  /\ At(x, "close")
  /\ CloseConn(query[x].conn)
  /\ End(x)
  /\ UNCHANGED <<transport, well, breaker, pool, quic, closer>>

\* putConn / udpPutConn: a full pool, or none for this leg, closes instead.
PoolOrClose(x) ==
  IF query[x].leg = transport /\ Len(pool) < PoolSize
    THEN pool' = Append(pool, [conn |-> query[x].conn, idle |-> 0]) /\ UNCHANGED <<open, live>>
    ELSE UNCHANGED pool /\ CloseConn(query[x].conn)

\* A truncated UDP answer is asked for again over TCP.
Put(x) ==
  /\ At(x, "put")
  /\ PoolOrClose(x)
  /\ \/ query[x].leg = "tcp" /\ End(x)
     \/ query[x].leg = "udp" /\ ToTCP(x)
     \/ /\ query[x].leg = "udp"
        /\ query' = [query EXCEPT ![x] = [query[x] EXCEPT !.pc = "mark", !.conn = None, !.res = "ok",
                                                   !.next = "idle"]]
  /\ UNCHANGED <<transport, well, breaker, quic, closer>>

-----------------------------------------------------------------------------
(* queryDoH, with one retry, uncounted, of a request that died on a stale   *)
(* keep-alive connection; a recursive resolver answers or fails likewise    *)

Request(x) ==
  /\ At(x, "request")
  /\ \/ Mark(x, "ok", "idle")
     \/ ~well /\ Mark(x, "fail", "idle")
     \/ x \notin Probes /\ End(x)
     \/ transport = "doh" /\ ~query[x].retried /\ query' = [query EXCEPT ![x].retried = TRUE]
  /\ UNCHANGED <<transport, well, breaker, sockets, closer>>

-----------------------------------------------------------------------------
(* queryDoQClient *)

\* getQUICConn, under quicMu: the connection there is, if it is alive.
QuicReuse(x) ==
  /\ At(x, "quic")
  /\ quic # None /\ quic \in live
  /\ query' = [query EXCEPT ![x] = [query[x] EXCEPT !.pc = "stream", !.conn = quic]]
  /\ UNCHANGED <<transport, well, breaker, sockets, closer>>

\* Otherwise a dial, whose connection replaces the one there was.
QuicDial(x) ==
  /\ At(x, "quic")
  /\ quic = None \/ quic \notin live
  /\ \/ \E c \in Conns :
          /\ NewConn(c)
          /\ open' = open \cup {c}
          /\ live' = live \cup {c}
          /\ quic' = c
          /\ query' = [query EXCEPT ![x] = [query[x] EXCEPT !.pc = "stream", !.conn = c]]
     \/ ~well /\ Mark(x, "fail", "idle") /\ UNCHANGED <<open, live, quic>>
     \/ x \notin Probes /\ End(x) /\ UNCHANGED <<open, live, quic>>
  /\ UNCHANGED <<transport, well, breaker, pool, closer>>

\* doQStream; a first failure, and a cancelled query, drop the connection; a
\* second failure is marked too.
Stream(x) ==
  LET c == query[x].conn IN
  /\ At(x, "stream")
  /\ \/ Works(c) /\ Mark(x, "ok", "idle")
     \/ /\ x \notin Probes \/ (Breaks(c) /\ ~query[x].retried)
        /\ Goto(x, "drop")
     \/ Breaks(c) /\ query[x].retried /\ Mark(x, "fail", "drop")
  /\ UNCHANGED <<transport, well, breaker, sockets, closer>>

\* dropQUICConn: the connection dies, for everyone on it; its socket is
\* closed if it is still the upstream's connection.
QuicDrop(x) ==
  LET c == query[x].conn IN
  /\ At(x, "drop")
  /\ live' = live \ {c}
  /\ IF quic = c THEN quic' = None /\ open' = open \ {c} ELSE UNCHANGED <<quic, open>>
  /\ IF query[x].retried
       THEN End(x)
       ELSE query' = [query EXCEPT ![x] = [query[x] EXCEPT !.pc = "quic", !.conn = None, !.retried = TRUE]]
  /\ UNCHANGED <<transport, well, breaker, pool, closer>>

-----------------------------------------------------------------------------
(* Close, the environment *)

\* Only DoQ has a QUIC connection, and only the others a pool.
CloseStart ==
  /\ closer = "no"
  /\ closer' = IF transport = "doq" THEN "quic" ELSE "drain"
  /\ UNCHANGED <<transport, well, breaker, sockets, query>>

CloseDrain ==
  /\ closer = "drain"
  /\ \/ /\ pool # <<>>
        /\ pool' = Tail(pool)
        /\ CloseConn(Head(pool).conn)
        /\ UNCHANGED closer
     \/ pool = <<>> /\ closer' = "closed" /\ UNCHANGED <<pool, open, live>>
  /\ UNCHANGED <<transport, well, breaker, quic, query>>

CloseQuic ==
  /\ closer = "quic"
  /\ closer' = "closed"
  /\ quic' = None
  /\ CloseConn(quic)
  /\ UNCHANGED <<transport, well, breaker, pool, query>>

Tick ==
  /\ cooldown' = IF cooldown = 0 THEN 0 ELSE cooldown - 1
  /\ pool' = [i \in DOMAIN pool |->
                [pool[i] EXCEPT !.idle = IF pool[i].idle > MaxIdle THEN MaxIdle + 1 ELSE pool[i].idle + 1]]
  /\ UNCHANGED <<transport, well, fails, quic, open, live, query, closer>>

Flip == well' = ~well /\ UNCHANGED <<transport, breaker, sockets, query, closer>>

\* The peer, or a NAT, forgets a connection: an idle one at any time, the
\* QUIC connection only when the upstream is not well.
Forget(c) ==
  /\ c \in live
  /\ c \in Pooled \/ (c = quic /\ ~well)
  /\ live' = live \ {c}
  /\ UNCHANGED <<transport, well, breaker, pool, quic, open, query, closer>>

-----------------------------------------------------------------------------

Step(x) ==
  \/ Get(x) \/ PooledOk(x) \/ PooledFails(x) \/ DialOk(x) \/ DialFails(x) \/ FreshOk(x)
  \/ FreshFails(x) \/ Shut(x) \/ Put(x) \/ Request(x) \/ QuicReuse(x) \/ QuicDial(x) \/ Stream(x)
  \/ QuicDrop(x) \/ MarkFails(x) \/ MarkCooldown(x)

Next ==
  \/ Tick \/ Flip
  \/ \E c \in Conns : Forget(c)
  \/ CloseStart \/ CloseDrain \/ CloseQuic
  \/ \E x \in Queries : Start(x) \/ Step(x)

Spec == Init /\ [][Next]_vars

\* Time passes, and a query that is under way goes on: every exchange has a
\* deadline.
FairSpec == Spec /\ WF_vars(Tick) /\ \A x \in Queries : WF_vars(Step(x))

-----------------------------------------------------------------------------
(* Properties *)

InHand == {x \in Queries : transport # "doq" /\ query[x].conn # None}

\* A pooled connection carries one exchange at a time, so a reply cannot be
\* taken for another query's (upstream.go:148-154): no connection is in two
\* hands, in a hand and in the pool, twice in the pool, or used once closed.
ConnExclusive ==
  /\ \A x, y \in InHand : x # y => query[x].conn # query[y].conn
  /\ \A x \in InHand : query[x].conn \in open \ Pooled
  /\ \A i, j \in DOMAIN pool : i # j => pool[i].conn # pool[j].conn
  /\ Pooled \subseteq open

\* No socket of a pooled transport is forgotten: each open one is in the pool
\* or in a query's hands, on every path through the retries.
SocketsAccounted ==
  transport # "doq" => open = Pooled \cup {query[x].conn : x \in InHand}

\* A late drop of a connection that was replaced leaves the replacement and
\* its socket alone (dropQUICConn).
CurrentQuicOpen == quic # None => quic \in open

\* An upstream that has recovered does not stay dark: once it is well for
\* good, its circuit lets queries through again and again.
CircuitRearms == (<>[]well) => []<>Available

(* The connections as a whole: one user each, no socket forgotten, and the *)
(* current QUIC connection never closed by a late drop (getConn, putConn,  *)
(* drop, Close).                                                           *)
ConnsSound ==
  /\ TypeOK
  /\ ConnExclusive
  /\ SocketsAccounted
  /\ CurrentQuicOpen
=============================================================================
