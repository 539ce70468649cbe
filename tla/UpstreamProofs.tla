--------------------------- MODULE UpstreamProofs ---------------------------
(***************************************************************************)
(* Theorems about Upstream, for any number of queries, probes and          *)
(* connections and any pool size, breaker threshold and cooldown.          *)
(* The properties of the sockets are not inductive: Fits ties a connection *)
(* in a query's hands to the query's step, and Kinds keeps the pool and    *)
(* the QUIC connection to the transports that have one.                    *)
(***************************************************************************)
EXTENDS Upstream, TLAPS

\* The steps at which a query of a pooled transport has a connection.
Holds(q) ==
  \/ q.pc \in {"pooled", "fresh", "put", "close"}
  \/ q.pc \in {"mark", "cool"} /\ q.next \in {"put", "close"}

\* What a query's step says of its connection, for transport t.
Fits(t, q) ==
  /\ t = "doq" => /\ q.pc \in {"idle", "quic", "stream", "drop", "mark", "cool"}
                  /\ q.next \in {"idle", "drop"}
  /\ t # "doq" => /\ q.pc \notin {"quic", "stream", "drop"}
                  /\ q.pc \in {"mark", "cool"} => q.next # "drop"
                  /\ q.conn # None <=> Holds(q)

Kinds ==
  /\ transport = "doq" => pool = <<>>
  /\ transport # "doq" => quic = None

Queried == query \in [Queries -> Query] /\ \A x \in Queries : Fits(transport, query[x])

Sockets ==
  /\ Kinds
  /\ ConnExclusive
  /\ SocketsAccounted
  /\ CurrentQuicOpen

\* The inductive invariant.
IInv ==
  /\ TypeOK
  /\ Queried
  /\ Sockets

Entry == [conn: Conns, idle: 0..(MaxIdle + 1)]
PoolType == Seq(Entry)

-----------------------------------------------------------------------------
(* The pool as a sequence *)

\* Taking the head of a pool without duplicates takes its connection.
LEMMA TakeHead ==
  ASSUME pool \in PoolType, pool # <<>>,
         \A i, j \in DOMAIN pool : i # j => pool[i].conn # pool[j].conn
  PROVE  /\ Tail(pool) \in PoolType
         /\ Len(Tail(pool)) = Len(pool) - 1
         /\ Head(pool).conn \in Conns
         /\ Head(pool).conn \in ConnsOf(pool)
         /\ ConnsOf(Tail(pool)) = ConnsOf(pool) \ {Head(pool).conn}
         /\ \A i, j \in DOMAIN Tail(pool) : i # j => Tail(pool)[i].conn # Tail(pool)[j].conn
<1>1. Tail(pool) \in PoolType /\ Len(Tail(pool)) = Len(pool) - 1 /\ Len(pool) \in Nat \ {0}
  BY DEF PoolType
<1>2. \A i \in 1 .. (Len(pool) - 1) : Tail(pool)[i] = pool[i + 1]
  BY DEF PoolType
<1>3. Head(pool) = pool[1] /\ pool[1] \in Entry
  BY DEF PoolType
<1>4. DOMAIN pool = 1 .. Len(pool) /\ DOMAIN Tail(pool) = 1 .. (Len(pool) - 1)
  <2>1. DOMAIN pool = 1 .. Len(pool)
    BY DEF PoolType
  <2>2. DOMAIN Tail(pool) = 1 .. Len(Tail(pool))
    BY <1>1 DEF PoolType
  <2> QED
    BY <2>1, <2>2, <1>1
<1>5. \A i \in DOMAIN pool : i = 1 \/ (i - 1 \in DOMAIN Tail(pool) /\ Tail(pool)[i - 1] = pool[i])
  BY <1>1, <1>2, <1>4
<1>6. \A i \in DOMAIN Tail(pool) : i + 1 \in DOMAIN pool /\ i + 1 # 1 /\ Tail(pool)[i] = pool[i + 1]
  BY <1>1, <1>2, <1>4
<1>7. ConnsOf(Tail(pool)) = ConnsOf(pool) \ {Head(pool).conn}
  <2>1. 1 \in DOMAIN pool
    BY <1>1, <1>4
  <2>2. ASSUME NEW c \in ConnsOf(Tail(pool)) PROVE c \in ConnsOf(pool) \ {Head(pool).conn}
    <3>1. PICK i \in DOMAIN Tail(pool) : c = Tail(pool)[i].conn
      BY <2>2 DEF ConnsOf
    <3>2. PICK k \in DOMAIN pool : k # 1 /\ c = pool[k].conn
      BY <3>1, <1>6
    <3> QED
      BY <2>1, <3>2, <1>3 DEF ConnsOf
  <2>3. ASSUME NEW c \in ConnsOf(pool), c # Head(pool).conn PROVE c \in ConnsOf(Tail(pool))
    BY <2>3, <1>3, <1>5 DEF ConnsOf
  <2> QED
    BY <2>2, <2>3
<1>8. \A i, j \in DOMAIN Tail(pool) : i # j => Tail(pool)[i].conn # Tail(pool)[j].conn
  <2> SUFFICES ASSUME NEW i \in DOMAIN Tail(pool), NEW j \in DOMAIN Tail(pool), i # j
               PROVE  Tail(pool)[i].conn # Tail(pool)[j].conn
    OBVIOUS
  <2>1. i + 1 # j + 1
    BY <1>1, <1>4
  <2> QED
    BY <2>1, <1>6
<1>9. Head(pool).conn \in Conns /\ Head(pool).conn \in ConnsOf(pool)
  BY <1>1, <1>3, <1>4 DEF ConnsOf, Entry
<1> QED
  BY <1>1, <1>7, <1>8, <1>9

\* Adding a connection that is not in the pool.
LEMMA PutLast ==
  ASSUME pool \in PoolType, NEW c \in Conns, c \notin ConnsOf(pool), MaxIdle \in Nat,
         \A i, j \in DOMAIN pool : i # j => pool[i].conn # pool[j].conn,
         NEW p, p = Append(pool, [conn |-> c, idle |-> 0])
  PROVE  /\ p \in PoolType
         /\ Len(p) = Len(pool) + 1
         /\ ConnsOf(p) = ConnsOf(pool) \cup {c}
         /\ \A i, j \in DOMAIN p : i # j => p[i].conn # p[j].conn
<1> DEFINE e == [conn |-> c, idle |-> 0]
<1>1. e \in Entry /\ e.conn = c
  BY DEF Entry
<1> HIDE DEF e
<1>2. p = Append(pool, e)
  BY DEF e
<1>3. p \in PoolType /\ Len(p) = Len(pool) + 1 /\ Len(pool) \in Nat
  BY <1>1, <1>2 DEF PoolType
<1>4. DOMAIN pool = 1 .. Len(pool) /\ DOMAIN p = 1 .. (Len(pool) + 1)
  BY <1>3 DEF PoolType
<1>5. \A i \in DOMAIN pool : p[i] = pool[i]
  BY <1>1, <1>2, <1>4 DEF PoolType
<1>6. p[Len(pool) + 1] = e
  BY <1>1, <1>2 DEF PoolType
<1>7. \A i \in DOMAIN p : i \in DOMAIN pool \/ i = Len(pool) + 1
  BY <1>3, <1>4
<1>8. DOMAIN pool \subseteq DOMAIN p /\ Len(pool) + 1 \in DOMAIN p
  BY <1>3, <1>4
<1>9. \A i \in DOMAIN pool : pool[i].conn # c
  BY DEF ConnsOf
<1>10. ConnsOf(p) = ConnsOf(pool) \cup {c}
  BY <1>1, <1>5, <1>6, <1>7, <1>8 DEF ConnsOf
<1>11. \A i, j \in DOMAIN p : i # j => p[i].conn # p[j].conn
  BY <1>1, <1>5, <1>6, <1>7, <1>9
<1> QED
  BY <1>3, <1>10, <1>11

-----------------------------------------------------------------------------
(* What a step does to the connections *)

\* A step of one query that leaves it well formed.
LEMMA OneQuery ==
  ASSUME IInv, NEW x \in Queries, NEW q \in Query, Fits(transport, q),
         transport' = transport, query' = [query EXCEPT ![x] = q]
  PROVE  Queried'
BY DEF IInv, Queried

\* The query keeps what it has in hand.
LEMMA Keeps ==
  ASSUME IInv, NEW x \in Queries, NEW q \in Query, q.conn = query[x].conn,
         UNCHANGED <<transport, pool, quic, open>>, query' = [query EXCEPT ![x] = q]
  PROVE  Sockets'
<1>1. \A y \in Queries : query'[y].conn = query[y].conn
  BY DEF IInv, Queried
<1>2. InHand' = InHand
  BY <1>1 DEF InHand
<1>3. Pooled' = Pooled
  BY DEF Pooled, ConnsOf
<1>4. \A y \in InHand : y \in Queries
  BY DEF InHand
<1>5. {query[y].conn : y \in InHand}' = {query[y].conn : y \in InHand}
  BY <1>1, <1>2, <1>4
<1>6. ConnExclusive'
  BY <1>1, <1>2, <1>3, <1>4 DEF IInv, Sockets, ConnExclusive
<1>7. SocketsAccounted'
  BY <1>3, <1>5 DEF IInv, Sockets, SocketsAccounted
<1> QED
  BY <1>6, <1>7 DEF IInv, Sockets, Kinds, CurrentQuicOpen

\* Steps of a pooled transport: x comes to have nothing in hand, or has a
\* connection c; the others keep what they have.
LEMMA Loses ==
  ASSUME IInv, transport # "doq", NEW x \in Queries, NEW q \in Query, q.conn = None,
         transport' = transport, query' = [query EXCEPT ![x] = q]
  PROVE  /\ InHand' = InHand \ {x}
         /\ \A y \in InHand \ {x} : query'[y].conn = query[y].conn
<1>1. query'[x] = q /\ \A y \in Queries \ {x} : query'[y] = query[y]
  BY DEF IInv, Queried
<1> QED
  BY <1>1 DEF InHand

\* A query that gets a connection is one more that has one in hand.
LEMMA Gains ==
  ASSUME IInv, transport # "doq", NEW x \in Queries, NEW q \in Query, q.conn # None,
         transport' = transport, query' = [query EXCEPT ![x] = q]
  PROVE  /\ InHand' = InHand \cup {x}
         /\ query'[x].conn = q.conn
         /\ \A y \in InHand \ {x} : query'[y].conn = query[y].conn
<1>1. query'[x] = q /\ \A y \in Queries \ {x} : query'[y] = query[y]
  BY DEF IInv, Queried
<1> QED
  BY <1>1 DEF InHand

\* x closes the connection it has.
LEMMA Closes ==
  ASSUME IInv, transport # "doq", NEW x \in Queries, NEW q \in Query,
         query[x].conn # None, q.conn = None,
         UNCHANGED <<transport, pool, quic>>, open' = open \ {query[x].conn},
         query' = [query EXCEPT ![x] = q]
  PROVE  Sockets'
<1>1. Pooled' = Pooled
  BY DEF Pooled, ConnsOf
<1>9. /\ InHand' = InHand \ {x} /\ x \in InHand /\ transport' # "doq"
      /\ \A y \in InHand \ {x} : query'[y].conn = query[y].conn
  BY Loses DEF InHand
<1>2. ConnExclusive'
  BY <1>1, <1>9 DEF IInv, Sockets, ConnExclusive
<1>3. SocketsAccounted'
  BY <1>1, <1>9 DEF IInv, Sockets, SocketsAccounted, ConnExclusive
<1> QED
  BY <1>2, <1>3 DEF IInv, Sockets, Kinds, CurrentQuicOpen

\* x gets a new connection.
LEMMA Opens ==
  ASSUME IInv, transport # "doq", NEW x \in Queries, NEW q \in Query,
         query[x].conn = None, NEW c \in Unused, q.conn = c,
         UNCHANGED <<transport, pool, quic>>, open' = open \cup {c},
         query' = [query EXCEPT ![x] = q]
  PROVE  Sockets'
<1>1. Pooled' = Pooled
  BY DEF Pooled, ConnsOf
<1>2. c # None /\ c \notin Pooled /\ \A y \in InHand : query[y].conn # c
  BY ConnsAssumption DEF Unused, InHand
<1>9. /\ InHand' = InHand \cup {x} /\ x \notin InHand /\ transport' # "doq"
      /\ query'[x].conn = q.conn
      /\ \A y \in InHand : query'[y].conn = query[y].conn
  <2>1. q.conn # None
    BY <1>2
  <2> QED
    BY <2>1, Gains DEF InHand
<1>3. ConnExclusive'
  BY <1>1, <1>2, <1>9 DEF IInv, Sockets, ConnExclusive
<1>4. SocketsAccounted'
  BY <1>1, <1>2, <1>9 DEF IInv, Sockets, SocketsAccounted
<1> QED
  BY <1>3, <1>4 DEF IInv, Sockets, Kinds, CurrentQuicOpen

\* x takes the head of the pool.
LEMMA Takes ==
  ASSUME IInv, transport # "doq", NEW x \in Queries, NEW q \in Query,
         query[x].conn = None, pool # <<>>, q.conn = Head(pool).conn, pool' = Tail(pool),
         UNCHANGED <<transport, quic, open>>, query' = [query EXCEPT ![x] = q]
  PROVE  Sockets'
<1>1. pool \in PoolType /\ \A i, j \in DOMAIN pool : i # j => pool[i].conn # pool[j].conn
  BY DEF IInv, TypeOK, PoolType, Entry, Sockets, ConnExclusive
<1>2. /\ q.conn \in Pooled /\ q.conn \in Conns
      /\ Pooled' = Pooled \ {q.conn}
      /\ \A i, j \in DOMAIN pool' : i # j => pool'[i].conn # pool'[j].conn
  BY <1>1, TakeHead DEF Pooled, ConnsOf
<1>3. q.conn # None
  BY <1>2, ConnsAssumption
<1>9. /\ InHand' = InHand \cup {x} /\ x \notin InHand /\ transport' # "doq"
      /\ query'[x].conn = q.conn
      /\ \A y \in InHand : query'[y].conn = query[y].conn
  <2>1. q.conn # None
    BY <1>3
  <2> QED
    BY <2>1, Gains DEF InHand
<1>4. ConnExclusive'
  BY <1>2, <1>3, <1>9 DEF IInv, Sockets, ConnExclusive
<1>5. SocketsAccounted'
  BY <1>2, <1>3, <1>9 DEF IInv, Sockets, SocketsAccounted
<1> QED
  BY <1>4, <1>5 DEF IInv, Sockets, Kinds, CurrentQuicOpen

\* The head of the pool is closed.
LEMMA Drains ==
  ASSUME IInv, pool # <<>>, pool' = Tail(pool), open' = open \ {Head(pool).conn},
         UNCHANGED <<transport, quic, query>>
  PROVE  Sockets'
<1>1. pool \in PoolType /\ \A i, j \in DOMAIN pool : i # j => pool[i].conn # pool[j].conn
  BY DEF IInv, TypeOK, PoolType, Entry, Sockets, ConnExclusive
<1>2. /\ Head(pool).conn \in Pooled
      /\ Pooled' = Pooled \ {Head(pool).conn}
      /\ \A i, j \in DOMAIN pool' : i # j => pool'[i].conn # pool'[j].conn
  BY <1>1, TakeHead DEF Pooled, ConnsOf
<1>3. InHand' = InHand /\ transport # "doq"
  BY DEF InHand, IInv, Sockets, Kinds
<1>4. ConnExclusive'
  BY <1>2, <1>3 DEF IInv, Sockets, ConnExclusive
<1>5. SocketsAccounted'
  BY <1>2, <1>3 DEF IInv, Sockets, SocketsAccounted, ConnExclusive
<1> QED
  BY <1>3, <1>4, <1>5 DEF IInv, Sockets, Kinds, CurrentQuicOpen

\* x pools the connection it has.
LEMMA Pools ==
  ASSUME IInv, transport # "doq", NEW x \in Queries, NEW q \in Query,
         query[x].conn # None, q.conn = None,
         pool' = Append(pool, [conn |-> query[x].conn, idle |-> 0]),
         UNCHANGED <<transport, quic, open>>, query' = [query EXCEPT ![x] = q]
  PROVE  Sockets'
<1>1. pool \in PoolType /\ \A i, j \in DOMAIN pool : i # j => pool[i].conn # pool[j].conn
  BY DEF IInv, TypeOK, PoolType, Entry, Sockets, ConnExclusive
<1>2. query[x].conn \in Conns /\ x \in InHand
  BY DEF IInv, Queried, Query, InHand
<1>3. query[x].conn \notin Pooled
  BY <1>2 DEF IInv, Sockets, ConnExclusive
<1>4. /\ Pooled' = Pooled \cup {query[x].conn}
      /\ \A i, j \in DOMAIN pool' : i # j => pool'[i].conn # pool'[j].conn
  <2>1. \A p : p = Append(pool, [conn |-> query[x].conn, idle |-> 0]) =>
          /\ ConnsOf(p) = ConnsOf(pool) \cup {query[x].conn}
          /\ \A i, j \in DOMAIN p : i # j => p[i].conn # p[j].conn
    BY <1>1, <1>2, <1>3, PutLast, SizesAssumption DEF Pooled
  <2> QED
    BY <2>1 DEF Pooled, ConnsOf
<1>9. /\ InHand' = InHand \ {x} /\ x \in InHand /\ transport' # "doq"
      /\ \A y \in InHand \ {x} : query'[y].conn = query[y].conn
  BY Loses DEF InHand
<1>5. ConnExclusive'
  BY <1>2, <1>4, <1>9 DEF IInv, Sockets, ConnExclusive
<1>6. SocketsAccounted'
  BY <1>2, <1>4, <1>9 DEF IInv, Sockets, SocketsAccounted
<1> QED
  BY <1>5, <1>6 DEF IInv, Sockets, Kinds, CurrentQuicOpen

\* A DoQ upstream has no pool and no connection in one query's hands.
LEMMA Quics ==
  ASSUME IInv, transport = "doq", UNCHANGED <<transport, pool>>, quic' # None => quic' \in open'
  PROVE  Sockets'
<1>1. InHand' = {} /\ pool' = <<>> /\ Pooled' = {}
  BY DEF InHand, IInv, Sockets, Kinds, Pooled, ConnsOf
<1> QED
  BY <1>1 DEF IInv, Sockets, Kinds, ConnExclusive, SocketsAccounted, CurrentQuicOpen

-----------------------------------------------------------------------------
(* The breaker *)

\* The types that a step of the breaker or of the clock can disturb.
Rest ==
  /\ transport \in Transports
  /\ well \in BOOLEAN
  /\ fails \in 0..OpenFails
  /\ cooldown \in 0..MaxCooldown
  /\ pool \in PoolType /\ Len(pool) <= PoolSize
  /\ quic \in Conns \cup {None}
  /\ open \subseteq Conns
  /\ live \subseteq Conns
  /\ closer \in {"no", "drain", "quic", "closed"}

\* The types of the queries apart from all the others.
LEMMA TypeOfRest == TypeOK <=> Rest /\ query \in [Queries -> Query]
BY DEF TypeOK, Rest, PoolType, Entry

\* Where the query goes after markResult.
LEMMA ContinueOK ==
  ASSUME IInv, NEW x \in Queries, query[x].pc \in {"mark", "cool"}, Continue(x),
         UNCHANGED <<transport, sockets>>
  PROVE  Queried' /\ Sockets'
<1> DEFINE q == query[x]
           c == [q EXCEPT !.pc = q.next, !.res = "ok", !.next = "idle"]
<1>1. q \in Query /\ Fits(transport, q)
  BY DEF IInv, Queried
<1>2. CASE q.next = "idle"
  <2>1. query' = [query EXCEPT ![x] = Idle]
    BY <1>2 DEF Continue, End
  <2>2. Idle \in Query /\ Fits(transport, Idle) /\ Idle.conn = None
    BY DEF Idle, Query, Fits, Holds, Steps
  <2>3. Queried'
    BY <2>1, <2>2, OneQuery
  <2>4. CASE transport # "doq"
    <3>1. q.conn = None
      BY <1>1, <1>2, <2>4 DEF Fits, Holds
    <3> QED
      BY <2>1, <2>2, <2>3, <3>1, Keeps DEF sockets
  <2>5. CASE transport = "doq"
    BY <2>3, <2>5, Quics DEF sockets, IInv, Sockets, CurrentQuicOpen
  <2> QED
    BY <2>4, <2>5
<1>3. CASE q.next # "idle"
  <2>1. query' = [query EXCEPT ![x] = c]
    BY <1>3 DEF Continue
  <2>2. c \in Query /\ Fits(transport, c) /\ c.conn = q.conn
    BY <1>1, <1>3 DEF Query, Fits, Holds, Steps
  <2>3. Queried'
    BY <2>1, <2>2, OneQuery
  <2> QED
    BY <2>1, <2>2, <2>3, Keeps DEF sockets
<1> QED
  BY <1>2, <1>3

\* A step that only moves a query on.
LEMMA Moves ==
  ASSUME IInv, NEW x \in Queries, NEW q \in Query, Fits(transport, q),
         q.conn = query[x].conn, query' = [query EXCEPT ![x] = q], UNCHANGED <<transport, sockets>>
  PROVE  Queried' /\ Sockets'
BY OneQuery, Keeps DEF sockets

\* A step that ends a query with nothing in hand.
LEMMA Ends ==
  ASSUME IInv, NEW x \in Queries, End(x), UNCHANGED <<transport, sockets>>,
         transport = "doq" \/ query[x].conn = None
  PROVE  Queried' /\ Sockets'
<1>1. query' = [query EXCEPT ![x] = Idle]
  BY DEF End
<1>2. Idle \in Query /\ Fits(transport, Idle) /\ Idle.conn = None
  BY DEF Idle, Query, Fits, Holds, Steps
<1>3. CASE transport = "doq"
  BY <1>1, <1>2, <1>3, OneQuery, Quics DEF sockets, IInv, Sockets, CurrentQuicOpen
<1>4. CASE query[x].conn = None
  BY <1>1, <1>2, <1>4, Moves
<1> QED
  BY <1>3, <1>4

\* markResult keeps what is in hand.
LEMMA Marks ==
  ASSUME IInv, NEW x \in Queries, NEW r \in {"ok", "fail"},
         NEW n \in {"idle", "put", "close", "dial", "drop"}, Mark(x, r, n),
         transport = "doq" => n \in {"idle", "drop"},
         transport # "doq" => n # "drop" /\ (query[x].conn # None <=> n \in {"put", "close"}),
         UNCHANGED <<transport, sockets>>
  PROVE  Queried' /\ Sockets'
<1> DEFINE q == [query[x] EXCEPT !.pc = "mark", !.res = r, !.next = n]
<1>1. query[x] \in Query
  BY DEF IInv, Queried
<1>2. q \in Query /\ q.conn = query[x].conn /\ Fits(transport, q)
  BY <1>1 DEF Query, Steps, Fits, Holds
<1>3. query' = [query EXCEPT ![x] = q]
  BY DEF Mark
<1> QED
  BY <1>2, <1>3, Moves

\* markResult counts a failure, or resets the count.
LEMMA MarkFailsOK ==
  ASSUME IInv, NEW x \in Queries, MarkFails(x)
  PROVE  IInv'
<1> DEFINE q == [query[x] EXCEPT !.pc = "cool"]
<1>1. query[x] \in Query /\ Fits(transport, query[x]) /\ query[x].pc = "mark"
  BY DEF IInv, Queried, MarkFails, At
<1>2. UNCHANGED <<transport, sockets>> /\ UNCHANGED <<well, cooldown, closer>>
  BY DEF MarkFails
<1>3. ASSUME Goto(x, "cool") PROVE Queried' /\ Sockets'
  <2>1. query' = [query EXCEPT ![x] = q]
    BY <1>3 DEF Goto, IInv, Queried
  <2>2. q \in Query /\ q.conn = query[x].conn /\ Fits(transport, q)
    BY <1>1 DEF Query, Steps, Fits, Holds
  <2> QED
    BY <1>2, <2>1, <2>2, Moves
<1>4. ASSUME Continue(x) PROVE Queried' /\ Sockets'
  BY <1>1, <1>2, <1>4, ContinueOK
<1>5. Queried' /\ Sockets'
  BY <1>3, <1>4 DEF MarkFails
<1>6. fails' \in 0..OpenFails
  BY SizesAssumption DEF MarkFails, IInv, TypeOK
<1>7. Rest'
  BY <1>2, <1>6, TypeOfRest DEF IInv, Rest, sockets
<1> QED
  BY <1>5, <1>7, TypeOfRest DEF IInv, Queried, TypeOK, Rest, PoolType, Entry

\* markResult starts a cooldown, or ends it.
LEMMA MarkCooldownOK ==
  ASSUME IInv, NEW x \in Queries, MarkCooldown(x)
  PROVE  IInv'
<1>1. query[x].pc = "cool" /\ Continue(x) /\ UNCHANGED <<transport, sockets>>
      /\ UNCHANGED <<well, fails, closer>>
  BY DEF MarkCooldown, At
<1>2. Queried' /\ Sockets'
  BY <1>1, ContinueOK
<1>3. cooldown' \in 0..MaxCooldown
  BY SizesAssumption DEF MarkCooldown
<1>4. Rest'
  BY <1>1, <1>3, TypeOfRest DEF IInv, Rest, sockets
<1> QED
  BY <1>2, <1>4 DEF IInv, Queried, TypeOK, Rest, PoolType, Entry

-----------------------------------------------------------------------------
(* Queries *)

\* A query starts.
LEMMA StartOK ==
  ASSUME IInv, NEW x \in Queries, Start(x)
  PROVE  Queried' /\ Sockets'
<1> DEFINE q == [Idle EXCEPT !.pc = First[transport],
                             !.leg = IF transport = "udp" THEN "udp" ELSE "tcp"]
<1>1. query[x] \in Query /\ Fits(transport, query[x]) /\ query[x].pc = "idle"
  BY DEF IInv, Queried, Start, At
<1>2. UNCHANGED <<transport, sockets>> /\ query' = [query EXCEPT ![x] = q]
  BY DEF Start
<1>3. transport \in Transports
  BY DEF IInv, TypeOK
<1>4. First[transport] \in {"quic", "request", "get"} /\ (First[transport] = "quic" <=> transport = "doq")
  BY <1>3, TransportsAssumption DEF First
<1>5. PICK s, l : s = First[transport] /\ l = IF transport = "udp" THEN "udp" ELSE "tcp"
  OBVIOUS
<1>6. q \in Query /\ Fits(transport, q) /\ q.conn = None
  <2>1. l \in {"udp", "tcp"}
    BY <1>5
  <2>2. s \in {"quic", "request", "get"} /\ (s = "quic" <=> transport = "doq")
    BY <1>4, <1>5
  <2>3. q = [Idle EXCEPT !.pc = s, !.leg = l]
    BY <1>5
  <2> HIDE DEF q
  <2> QED
    BY <2>1, <2>2, <2>3 DEF Idle, Query, Steps, Fits, Holds
<1>7. CASE transport = "doq"
  BY <1>2, <1>6, <1>7, OneQuery, Quics DEF sockets, IInv, Sockets, CurrentQuicOpen
<1>8. CASE transport # "doq"
  <2>1. query[x].conn = None
    BY <1>1, <1>8 DEF Fits, Holds
  <2> QED
    BY <1>2, <1>6, <2>1, Moves
<1> QED
  BY <1>7, <1>8

\* A query asks the pool for an idle connection.
LEMMA GetOK ==
  ASSUME IInv, NEW x \in Queries, Get(x)
  PROVE  Queried' /\ Sockets'
<1>1. /\ query[x] \in Query /\ Fits(transport, query[x]) /\ query[x].pc = "get"
      /\ UNCHANGED <<transport, quic>>
  BY DEF IInv, Queried, Get, At
<1>2. transport # "doq" /\ query[x].conn = None
  BY <1>1 DEF Fits, Holds
<1>3. CASE pool = <<>>
  <2> DEFINE q == [query[x] EXCEPT !.pc = "dial"]
  <2>1. query' = [query EXCEPT ![x] = q] /\ UNCHANGED <<transport, sockets>>
    BY <1>1, <1>3 DEF Get, Goto, sockets, IInv, Queried
  <2>2. q \in Query /\ q.conn = query[x].conn /\ Fits(transport, q)
    BY <1>1, <1>2 DEF Query, Steps, Fits, Holds
  <2> QED
    BY <2>1, <2>2, Moves
<1>4. CASE pool # <<>> /\ Head(pool).idle > MaxIdle
  <2>1. pool' = Tail(pool) /\ open' = open \ {Head(pool).conn} /\ UNCHANGED <<transport, quic, query>>
    BY <1>1, <1>4 DEF Get, CloseConn
  <2>2. Queried'
    BY <2>1 DEF IInv, Queried
  <2> QED
    BY <1>4, <2>1, <2>2, Drains
<1>5. CASE pool # <<>> /\ ~(Head(pool).idle > MaxIdle)
  <2> DEFINE q == [query[x] EXCEPT !.pc = "pooled", !.conn = Head(pool).conn]
  <2>1. pool' = Tail(pool) /\ UNCHANGED <<transport, quic, open>> /\ query' = [query EXCEPT ![x] = q]
    BY <1>1, <1>5 DEF Get
  <2>2. pool \in PoolType /\ \A i, j \in DOMAIN pool : i # j => pool[i].conn # pool[j].conn
    BY DEF IInv, TypeOK, PoolType, Entry, Sockets, ConnExclusive
  <2>3. Head(pool).conn \in Conns
    BY <1>5, <2>2, TakeHead
  <2>4. q \in Query /\ q.conn = Head(pool).conn /\ Fits(transport, q)
    BY <1>1, <1>2, <2>3, ConnsAssumption DEF Query, Steps, Fits, Holds
  <2> QED
    BY <1>2, <1>5, <2>1, <2>4, OneQuery, Takes
<1> QED
  BY <1>3, <1>4, <1>5

\* An exchange that succeeded keeps its connection until it is put back.
LEMMA SuccessOK ==
  ASSUME IInv, NEW x \in Queries, query[x].pc \in {"pooled", "fresh"}, Success(x),
         UNCHANGED <<transport, sockets>>
  PROVE  Queried' /\ Sockets'
<1> DEFINE q == [query[x] EXCEPT !.pc = "put"]
<1>1. query[x] \in Query /\ Fits(transport, query[x])
  BY DEF IInv, Queried
<1>2. transport # "doq" /\ query[x].conn # None
  BY <1>1 DEF Fits, Holds
<1>3. CASE query[x].leg = "udp"
  <2>1. query' = [query EXCEPT ![x] = q]
    BY <1>3 DEF Success, Goto, IInv, Queried
  <2>2. q \in Query /\ q.conn = query[x].conn /\ Fits(transport, q)
    BY <1>1, <1>2 DEF Query, Steps, Fits, Holds
  <2> QED
    BY <2>1, <2>2, Moves
<1>4. CASE query[x].leg # "udp"
  BY <1>2, <1>4, Marks DEF Success
<1> QED
  BY <1>3, <1>4

\* The pooled connection fails and a fresh one is dialled.
LEMMA PooledFailsOK ==
  ASSUME IInv, NEW x \in Queries, PooledFails(x)
  PROVE  Queried' /\ Sockets'
<1> DEFINE q == [query[x] EXCEPT !.conn = None, !.res = "fail", !.next = "dial",
                                 !.pc = IF query[x].leg = "udp" THEN "dial" ELSE "mark"]
<1>1. /\ query[x] \in Query /\ Fits(transport, query[x]) /\ query[x].pc = "pooled"
      /\ UNCHANGED <<transport, pool, quic>>
      /\ open' = open \ {query[x].conn} /\ query' = [query EXCEPT ![x] = q]
  BY DEF IInv, Queried, PooledFails, At, CloseConn
<1>2. transport # "doq" /\ query[x].conn # None
  BY <1>1 DEF Fits, Holds
<1>3. q \in Query /\ q.conn = None /\ Fits(transport, q)
  BY <1>1, <1>2 DEF Query, Steps, Fits, Holds
<1> QED
  BY <1>1, <1>2, <1>3, OneQuery, Closes

\* The dial succeeds.
LEMMA DialOkOK ==
  ASSUME IInv, NEW x \in Queries, DialOk(x)
  PROVE  Queried' /\ Sockets'
<1>1. /\ query[x] \in Query /\ Fits(transport, query[x]) /\ query[x].pc = "dial"
      /\ UNCHANGED <<transport, pool, quic>>
  BY DEF IInv, Queried, DialOk, At
<1>2. transport # "doq" /\ query[x].conn = None
  BY <1>1 DEF Fits, Holds
<1>3. PICK c \in Unused :
        /\ open' = open \cup {c}
        /\ query' = [query EXCEPT ![x] = [query[x] EXCEPT !.pc = "fresh", !.conn = c]]
  BY DEF DialOk, NewConn
<1> DEFINE q == [query[x] EXCEPT !.pc = "fresh", !.conn = c]
<1>4. c \in Conns /\ c # None
  BY ConnsAssumption DEF Unused
<1>5. q \in Query /\ q.conn = c /\ Fits(transport, q)
  BY <1>1, <1>2, <1>4 DEF Query, Steps, Fits, Holds
<1> QED
  BY <1>1, <1>2, <1>3, <1>5, OneQuery, Opens

\* From UDP to TCP with nothing in hand.
LEMMA ToTCPOK ==
  ASSUME IInv, NEW x \in Queries, transport # "doq", ToTCP(x), transport' = transport
  PROVE  /\ Queried'
         /\ \E q \in Query : q.conn = None /\ query' = [query EXCEPT ![x] = q]
<1> DEFINE q == [query[x] EXCEPT !.pc = "dial", !.leg = "tcp", !.conn = None]
<1>1. query[x] \in Query
  BY DEF IInv, Queried
<1>2. q \in Query /\ q.conn = None /\ Fits(transport, q)
  BY <1>1 DEF Query, Steps, Fits, Holds
<1>3. query' = [query EXCEPT ![x] = q]
  BY DEF ToTCP
<1> QED
  BY <1>2, <1>3, OneQuery

\* The dial fails.
LEMMA DialFailsOK ==
  ASSUME IInv, NEW x \in Queries, DialFails(x)
  PROVE  Queried' /\ Sockets'
<1>1. /\ query[x] \in Query /\ Fits(transport, query[x]) /\ query[x].pc = "dial"
      /\ UNCHANGED <<transport, sockets>>
  BY DEF IInv, Queried, DialFails, At
<1>2. transport # "doq" /\ query[x].conn = None
  BY <1>1 DEF Fits, Holds
<1>3. CASE ToTCP(x)
  <2>1. PICK q \in Query : q.conn = None /\ query' = [query EXCEPT ![x] = q]
    BY <1>1, <1>2, <1>3, ToTCPOK
  <2> QED
    BY <1>1, <1>2, <1>3, <2>1, ToTCPOK, Keeps DEF sockets
<1>4. CASE Mark(x, "fail", "idle")
  BY <1>1, <1>2, <1>4, Marks
<1>5. CASE End(x)
  BY <1>1, <1>2, <1>5, Ends
<1> QED
  BY <1>3, <1>4, <1>5 DEF DialFails

\* The fresh connection fails.
LEMMA FreshFailsOK ==
  ASSUME IInv, NEW x \in Queries, FreshFails(x)
  PROVE  Queried' /\ Sockets'
<1>1. /\ query[x] \in Query /\ Fits(transport, query[x]) /\ query[x].pc = "fresh"
      /\ UNCHANGED <<transport, pool, quic>>
  BY DEF IInv, Queried, FreshFails, At
<1>2. transport # "doq" /\ query[x].conn # None
  BY <1>1 DEF Fits, Holds
<1>3. CASE ToTCP(x) /\ CloseConn(query[x].conn)
  <2>1. PICK q \in Query : q.conn = None /\ query' = [query EXCEPT ![x] = q]
    BY <1>1, <1>2, <1>3, ToTCPOK
  <2> QED
    BY <1>1, <1>2, <1>3, <2>1, ToTCPOK, Closes DEF CloseConn
<1>4. CASE Mark(x, "fail", "close") /\ UNCHANGED <<open, live>>
  <2>1. UNCHANGED <<transport, sockets>>
    BY <1>1, <1>4 DEF sockets
  <2> QED
    BY <1>2, <1>4, <2>1, Marks
<1> QED
  BY <1>3, <1>4 DEF FreshFails

\* A failed query closes its connection.
LEMMA ShutOK ==
  ASSUME IInv, NEW x \in Queries, Shut(x)
  PROVE  Queried' /\ Sockets'
<1>1. /\ query[x] \in Query /\ Fits(transport, query[x]) /\ query[x].pc = "close"
      /\ UNCHANGED <<transport, pool, quic>>
      /\ open' = open \ {query[x].conn} /\ query' = [query EXCEPT ![x] = Idle]
  BY DEF IInv, Queried, Shut, At, CloseConn, End
<1>2. transport # "doq" /\ query[x].conn # None
  BY <1>1 DEF Fits, Holds
<1>3. Idle \in Query /\ Fits(transport, Idle) /\ Idle.conn = None
  BY DEF Idle, Query, Fits, Holds, Steps
<1> QED
  BY <1>1, <1>2, <1>3, OneQuery, Closes

\* A query puts its connection back into the pool, or closes it.
LEMMA PutOK ==
  ASSUME IInv, NEW x \in Queries, Put(x)
  PROVE  Queried' /\ Sockets'
<1>1. /\ query[x] \in Query /\ Fits(transport, query[x]) /\ query[x].pc = "put"
      /\ UNCHANGED <<transport, quic>> /\ PoolOrClose(x)
  BY DEF IInv, Queried, Put, At
<1>2. transport # "doq" /\ query[x].conn # None
  BY <1>1 DEF Fits, Holds
<1>3. Queried' /\ \E q \in Query : q.conn = None /\ query' = [query EXCEPT ![x] = q]
  <2>1. CASE End(x)
    <3>1. query' = [query EXCEPT ![x] = Idle]
      BY <2>1 DEF End
    <3>2. Idle \in Query /\ Fits(transport, Idle) /\ Idle.conn = None
      BY DEF Idle, Query, Fits, Holds, Steps
    <3> QED
      BY <1>1, <3>1, <3>2, OneQuery
  <2>2. CASE ToTCP(x)
    BY <1>1, <1>2, <2>2, ToTCPOK
  <2> DEFINE q == [query[x] EXCEPT !.pc = "mark", !.conn = None, !.res = "ok", !.next = "idle"]
  <2>3. CASE query' = [query EXCEPT ![x] = q]
    <3>1. q \in Query /\ Fits(transport, q) /\ q.conn = None
      BY <1>1, <1>2 DEF Query, Fits, Holds, Steps
    <3> QED
      BY <1>1, <2>3, <3>1, OneQuery
  <2> QED
    BY <2>1, <2>2, <2>3 DEF Put
<1>4. PICK q \in Query : q.conn = None /\ query' = [query EXCEPT ![x] = q]
  BY <1>3
<1>5. CASE pool' = Append(pool, [conn |-> query[x].conn, idle |-> 0]) /\ UNCHANGED <<open, live>>
  BY <1>1, <1>2, <1>3, <1>4, <1>5, Pools
<1>6. CASE UNCHANGED pool /\ CloseConn(query[x].conn)
  BY <1>1, <1>2, <1>3, <1>4, <1>6, Closes DEF CloseConn
<1> QED
  BY <1>1, <1>5, <1>6 DEF PoolOrClose

\* A request over HTTP ends, or is tried once more.
LEMMA RequestOK ==
  ASSUME IInv, NEW x \in Queries, Request(x)
  PROVE  Queried' /\ Sockets'
<1> DEFINE q == [query[x] EXCEPT !.retried = TRUE]
<1>1. /\ query[x] \in Query /\ Fits(transport, query[x]) /\ query[x].pc = "request"
      /\ UNCHANGED <<transport, sockets>>
  BY DEF IInv, Queried, Request, At
<1>2. transport # "doq" /\ query[x].conn = None
  BY <1>1 DEF Fits, Holds
<1>3. CASE Mark(x, "ok", "idle") \/ Mark(x, "fail", "idle")
  BY <1>1, <1>2, <1>3, Marks
<1>4. CASE End(x)
  BY <1>1, <1>2, <1>4, Ends
<1>5. CASE query' = [query EXCEPT ![x].retried = TRUE]
  <2>1. q \in Query /\ q.conn = query[x].conn /\ Fits(transport, q)
    BY <1>1 DEF Query, Steps, Fits, Holds
  <2>2. query' = [query EXCEPT ![x] = q]
    BY <1>5 DEF IInv, Queried
  <2> QED
    BY <1>1, <2>1, <2>2, Moves
<1> QED
  BY <1>3, <1>4, <1>5 DEF Request

\* A step of a DoQ query: it stays well formed whatever connection it has.
LEMMA QuicQuery ==
  ASSUME IInv, transport = "doq", NEW x \in Queries, NEW q \in Query,
         q.pc \in {"idle", "quic", "stream", "drop", "mark", "cool"}, q.next \in {"idle", "drop"},
         UNCHANGED <<transport, pool>>, query' = [query EXCEPT ![x] = q],
         quic' # None => quic' \in open'
  PROVE  Queried' /\ Sockets'
<1>1. Fits(transport, q)
  BY DEF Fits
<1> QED
  BY <1>1, OneQuery, Quics

\* A query takes the current QUIC connection.
LEMMA QuicReuseOK ==
  ASSUME IInv, NEW x \in Queries, QuicReuse(x)
  PROVE  Queried' /\ Sockets'
<1> DEFINE q == [query[x] EXCEPT !.pc = "stream", !.conn = quic]
<1>1. /\ query[x] \in Query /\ Fits(transport, query[x]) /\ query[x].pc = "quic"
      /\ UNCHANGED <<transport, pool, quic, open>> /\ query' = [query EXCEPT ![x] = q]
      /\ quic \in Conns \cup {None} /\ (quic # None => quic \in open)
  BY DEF IInv, Queried, QuicReuse, At, sockets, TypeOK, Sockets, CurrentQuicOpen
<1>2. transport = "doq" /\ query[x].next \in {"idle", "drop"}
  BY <1>1 DEF Fits
<1>3. q \in Query /\ q.pc = "stream" /\ q.next = query[x].next
  BY <1>1 DEF Query, Steps
<1> QED
  BY <1>1, <1>2, <1>3, QuicQuery

\* A query dials a QUIC connection and makes it the current one.
LEMMA QuicDialOK ==
  ASSUME IInv, NEW x \in Queries, QuicDial(x)
  PROVE  Queried' /\ Sockets'
<1>1. /\ query[x] \in Query /\ Fits(transport, query[x]) /\ query[x].pc = "quic"
      /\ UNCHANGED <<transport, pool>> /\ (quic # None => quic \in open)
  BY DEF IInv, Queried, QuicDial, At, Sockets, CurrentQuicOpen
<1>2. transport = "doq" /\ query[x].next \in {"idle", "drop"}
  BY <1>1 DEF Fits
<1>3. ASSUME NEW c \in Conns, open' = open \cup {c}, quic' = c,
             query' = [query EXCEPT ![x] = [query[x] EXCEPT !.pc = "stream", !.conn = c]]
      PROVE  Queried' /\ Sockets'
  <2> DEFINE q == [query[x] EXCEPT !.pc = "stream", !.conn = c]
  <2>1. q \in Query /\ q.pc = "stream" /\ q.next = query[x].next
    BY <1>1 DEF Query, Steps
  <2> QED
    BY <1>1, <1>2, <1>3, <2>1, QuicQuery
<1>4. CASE Mark(x, "fail", "idle") /\ UNCHANGED <<open, live, quic>>
  <2>1. UNCHANGED <<transport, sockets>>
    BY <1>1, <1>4 DEF sockets
  <2> QED
    BY <1>2, <1>4, <2>1, Marks
<1>5. CASE End(x) /\ UNCHANGED <<open, live, quic>>
  <2>1. UNCHANGED <<transport, sockets>>
    BY <1>1, <1>5 DEF sockets
  <2> QED
    BY <1>2, <1>5, <2>1, Ends
<1> QED
  BY <1>3, <1>4, <1>5 DEF QuicDial

\* A stream on the QUIC connection ends.
LEMMA StreamOK ==
  ASSUME IInv, NEW x \in Queries, Stream(x)
  PROVE  Queried' /\ Sockets'
<1> DEFINE q == [query[x] EXCEPT !.pc = "drop"]
<1>1. /\ query[x] \in Query /\ Fits(transport, query[x]) /\ query[x].pc = "stream"
      /\ UNCHANGED <<transport, sockets>> /\ (quic # None => quic \in open)
  BY DEF IInv, Queried, Stream, At, Sockets, CurrentQuicOpen
<1>2. transport = "doq" /\ query[x].next \in {"idle", "drop"}
  BY <1>1 DEF Fits
<1>3. CASE Mark(x, "ok", "idle") \/ Mark(x, "fail", "drop")
  BY <1>1, <1>2, <1>3, Marks
<1>4. CASE Goto(x, "drop")
  <2>1. q \in Query /\ q.pc = "drop" /\ q.next = query[x].next
    BY <1>1 DEF Query, Steps
  <2>2. query' = [query EXCEPT ![x] = q]
    BY <1>4 DEF Goto, IInv, Queried
  <2> QED
    BY <1>1, <1>2, <2>1, <2>2, QuicQuery DEF sockets
<1> QED
  BY <1>3, <1>4 DEF Stream

\* A failed stream drops the QUIC connection it used.
LEMMA QuicDropOK ==
  ASSUME IInv, NEW x \in Queries, QuicDrop(x)
  PROVE  Queried' /\ Sockets'
<1>1. /\ query[x] \in Query /\ Fits(transport, query[x]) /\ query[x].pc = "drop"
      /\ UNCHANGED <<transport, pool>> /\ (quic # None => quic \in open)
  BY DEF IInv, Queried, QuicDrop, At, Sockets, CurrentQuicOpen
<1>2. transport = "doq" /\ query[x].next \in {"idle", "drop"}
  BY <1>1 DEF Fits
<1>3. quic' # None => quic' \in open'
  BY <1>1 DEF QuicDrop
<1>4. CASE End(x)
  <2>1. query' = [query EXCEPT ![x] = Idle]
    BY <1>4 DEF End
  <2>2. Idle \in Query /\ Idle.pc = "idle" /\ Idle.next = "idle"
    BY DEF Idle, Query, Steps
  <2> QED
    BY <1>1, <1>2, <1>3, <2>1, <2>2, QuicQuery
<1> DEFINE q == [query[x] EXCEPT !.pc = "quic", !.conn = None, !.retried = TRUE]
<1>5. CASE query' = [query EXCEPT ![x] = q]
  <2>1. q \in Query /\ q.pc = "quic" /\ q.next = query[x].next
    BY <1>1 DEF Query, Steps
  <2> QED
    BY <1>1, <1>2, <1>3, <1>5, <2>1, QuicQuery
<1> QED
  BY <1>4, <1>5 DEF QuicDrop

-----------------------------------------------------------------------------
(* Close and the environment *)

\* Close empties the pool.
LEMMA CloseDrainOK ==
  ASSUME IInv, CloseDrain
  PROVE  Queried' /\ Sockets'
<1>1. UNCHANGED <<transport, quic, query>>
  BY DEF CloseDrain
<1>2. Queried'
  BY <1>1 DEF IInv, Queried
<1>3. CASE pool # <<>> /\ pool' = Tail(pool) /\ CloseConn(Head(pool).conn)
  BY <1>1, <1>2, <1>3, Drains DEF CloseConn
<1>4. CASE UNCHANGED <<pool, open, live>>
  <2>1. InHand' = InHand /\ Pooled' = Pooled
    BY <1>1, <1>4 DEF InHand, Pooled, ConnsOf
  <2> QED
    BY <1>1, <1>2, <1>4, <2>1 DEF IInv, Sockets, Kinds, ConnExclusive, SocketsAccounted, CurrentQuicOpen
<1> QED
  BY <1>3, <1>4 DEF CloseDrain

\* Close shuts the QUIC connection.
LEMMA CloseQuicOK ==
  ASSUME IInv, CloseQuic
  PROVE  Queried' /\ Sockets'
<1>1. UNCHANGED <<transport, pool, query>> /\ quic' = None /\ open' = open \ {quic}
  BY DEF CloseQuic, CloseConn
<1>2. Queried'
  BY <1>1 DEF IInv, Queried
<1>3. CASE transport = "doq"
  BY <1>1, <1>2, <1>3, Quics
<1>4. CASE transport # "doq"
  <2>1. quic = None /\ open' = open
    BY <1>1, <1>4, ConnsAssumption DEF IInv, Sockets, Kinds, TypeOK
  <2>2. InHand' = InHand /\ Pooled' = Pooled
    BY <1>1 DEF InHand, Pooled, ConnsOf
  <2> QED
    BY <1>1, <1>2, <1>4, <2>1, <2>2 DEF IInv, Sockets, Kinds, ConnExclusive, SocketsAccounted, CurrentQuicOpen
<1> QED
  BY <1>3, <1>4

\* The clock only ages what is in the pool.
LEMMA TickOK ==
  ASSUME IInv, Tick
  PROVE  Queried' /\ Sockets' /\ Rest'
<1>1. UNCHANGED <<transport, well, fails, quic, open, live, query, closer>>
  BY DEF Tick
<1>2. pool \in PoolType /\ Len(pool) <= PoolSize
  BY DEF IInv, TypeOK, PoolType, Entry
<1>3. DOMAIN pool' = DOMAIN pool /\ DOMAIN pool = 1 .. Len(pool) /\ Len(pool) \in Nat
  BY <1>2 DEF Tick, PoolType
<1>4. \A i \in DOMAIN pool : pool[i] \in Entry
  BY <1>2 DEF PoolType
<1>5. \A i \in DOMAIN pool : pool'[i] \in Entry /\ pool'[i].conn = pool[i].conn
  <2> SUFFICES ASSUME NEW i \in DOMAIN pool
               PROVE  pool'[i] \in Entry /\ pool'[i].conn = pool[i].conn
    OBVIOUS
  <2>1. PICK n : n = IF pool[i].idle > MaxIdle THEN MaxIdle + 1 ELSE pool[i].idle + 1
    OBVIOUS
  <2>2. pool'[i] = [pool[i] EXCEPT !.idle = n]
    BY <2>1 DEF Tick
  <2>3. pool[i] \in Entry /\ n \in 0..(MaxIdle + 1)
    BY <1>4, <2>1, SizesAssumption DEF Entry
  <2> QED
    BY <2>2, <2>3 DEF Entry
<1>6. pool' \in PoolType /\ Len(pool') = Len(pool)
  <2>1. pool' = [i \in 1 .. Len(pool) |-> pool'[i]]
    BY <1>3 DEF Tick
  <2>2. pool' \in [1 .. Len(pool) -> Entry]
    BY <1>3, <1>5, <2>1
  <2> QED
    BY <1>3, <2>2 DEF PoolType
<1>7. Pooled' = Pooled /\ InHand' = InHand /\ (pool = <<>> => pool' = <<>>)
  <2>1. Pooled' = Pooled
    BY <1>3, <1>5 DEF Pooled, ConnsOf
  <2>2. pool = <<>> => pool' = <<>>
    BY <1>2, <1>6 DEF PoolType
  <2> QED
    BY <1>1, <2>1, <2>2 DEF InHand
<1>8. ConnExclusive'
  <2>1. \A i, j \in DOMAIN pool' : i # j => pool'[i].conn # pool'[j].conn
    BY <1>3, <1>5 DEF IInv, Sockets, ConnExclusive
  <2> QED
    BY <1>1, <1>7, <2>1 DEF IInv, Sockets, ConnExclusive
<1>9. SocketsAccounted' /\ CurrentQuicOpen' /\ Kinds'
  BY <1>1, <1>7 DEF IInv, Sockets, SocketsAccounted, CurrentQuicOpen, Kinds
<1>10. cooldown' \in 0..MaxCooldown
  BY SizesAssumption DEF Tick, IInv, TypeOK
<1>11. Rest'
  BY <1>1, <1>2, <1>6, <1>10 DEF IInv, TypeOK, Rest
<1> QED
  BY <1>1, <1>8, <1>9, <1>11 DEF Sockets, IInv, Queried

\* Nothing that the invariant speaks of changes.
LEMMA Idles ==
  ASSUME IInv, UNCHANGED <<transport, pool, quic, open, query>>
  PROVE  Queried' /\ Sockets'
<1>1. InHand' = InHand /\ Pooled' = Pooled
  BY DEF InHand, Pooled, ConnsOf
<1> QED
  BY <1>1 DEF IInv, Queried, Sockets, Kinds, ConnExclusive, SocketsAccounted, CurrentQuicOpen

-----------------------------------------------------------------------------
(* Types of the sockets *)

\* Every step that moves sockets keeps them within Conns, and the pool
\* within its size.
LEMMA SocketTypes ==
  ASSUME IInv, UNCHANGED <<transport, breaker>>, well' \in BOOLEAN,
         closer' \in {"no", "drain", "quic", "closed"},
         open' \subseteq Conns, live' \subseteq Conns, quic' \in Conns \cup {None},
         \/ UNCHANGED pool
         \/ pool # <<>> /\ pool' = Tail(pool)
         \/ \E c \in Conns : Len(pool) < PoolSize /\ pool' = Append(pool, [conn |-> c, idle |-> 0])
  PROVE  Rest'
<1>1. pool \in PoolType /\ Len(pool) <= PoolSize /\ PoolSize \in Nat
  BY SizesAssumption DEF IInv, TypeOK, PoolType, Entry
<1>2. pool' \in PoolType /\ Len(pool') <= PoolSize
  <2>1. CASE UNCHANGED pool
    BY <1>1, <2>1
  <2>2. CASE pool # <<>> /\ pool' = Tail(pool)
    <3>1. Tail(pool) \in PoolType /\ Len(Tail(pool)) = Len(pool) - 1 /\ Len(pool) \in Nat
      BY <1>1, <2>2 DEF PoolType
    <3>2. \A m, n, k \in Nat : m = n - 1 /\ n <= k => m <= k
      OBVIOUS
    <3>3. Len(Tail(pool)) \in Nat
      BY <3>1 DEF PoolType
    <3>4. Len(Tail(pool)) <= PoolSize
      BY <1>1, <3>1, <3>2, <3>3
    <3> QED
      BY <2>2, <3>1, <3>4, Zenon
  <2>3. ASSUME NEW c \in Conns, Len(pool) < PoolSize, pool' = Append(pool, [conn |-> c, idle |-> 0])
        PROVE  pool' \in PoolType /\ Len(pool') <= PoolSize
    <3>0. [conn |-> c, idle |-> 0] \in Entry
      BY SizesAssumption DEF Entry
    <3>1. PICK e \in Entry : pool' = Append(pool, e)
      BY <2>3, <3>0
    <3>2. pool' \in PoolType /\ Len(pool') = Len(pool) + 1 /\ Len(pool) \in Nat
      BY <1>1, <3>1 DEF PoolType
    <3> QED
      BY <1>1, <2>3, <3>2
  <2> QED
    BY <2>1, <2>2, <2>3
<1> QED
  BY <1>2 DEF IInv, TypeOK, Rest, breaker

-----------------------------------------------------------------------------
(* The theorems *)

\* The invariant holds in the initial states.
LEMMA InitOK == Init => IInv
<1> SUFFICES ASSUME Init PROVE IInv
  OBVIOUS
<1>1. Idle \in Query /\ \A t : Fits(t, Idle) /\ Idle.conn = None
  BY DEF Idle, Query, Steps, Fits, Holds
<1>2. query \in [Queries -> Query] /\ \A x \in Queries : query[x] = Idle
  BY <1>1 DEF Init
<1>3. Queried
  BY <1>1, <1>2 DEF Queried
<1>4. pool = <<>> /\ pool \in PoolType /\ Len(pool) = 0 /\ Pooled = {}
  BY DEF Init, PoolType, Pooled, ConnsOf
<1>5. Rest
  BY <1>4, SizesAssumption DEF Init, Rest
<1>6. TypeOK
  BY <1>2, <1>5, TypeOfRest
<1>7. InHand = {}
  BY <1>1, <1>2 DEF InHand
<1>8. Sockets
  BY <1>4, <1>7 DEF Init, Sockets, Kinds, ConnExclusive, SocketsAccounted, CurrentQuicOpen
<1> QED
  BY <1>3, <1>6, <1>8 DEF IInv

\* Each action, on the part of the invariant that is about the sockets.
LEMMA NextSockets ==
  ASSUME IInv, Next
  PROVE  Queried' /\ Sockets'
<1>1. CASE Tick
  BY <1>1, TickOK
<1>2. CASE Flip \/ CloseStart \/ \E c \in Conns : Forget(c)
  <2>1. UNCHANGED <<transport, pool, quic, open, query>>
    BY <1>2 DEF Flip, CloseStart, Forget, sockets
  <2> QED
    BY <2>1, Idles
<1>3. CASE CloseDrain
  BY <1>3, CloseDrainOK
<1>4. CASE CloseQuic
  BY <1>4, CloseQuicOK
<1>5. ASSUME NEW x \in Queries, PooledOk(x) \/ FreshOk(x) PROVE Queried' /\ Sockets'
  <2>1. query[x].pc \in {"pooled", "fresh"} /\ Success(x) /\ UNCHANGED <<transport, sockets>>
    BY <1>5 DEF PooledOk, FreshOk, At
  <2> QED
    BY <2>1, SuccessOK
<1>6. ASSUME NEW x \in Queries, Start(x) \/ Step(x) PROVE Queried' /\ Sockets'
  <2>1. CASE Start(x)
    BY <2>1, StartOK
  <2>2. CASE MarkFails(x) \/ MarkCooldown(x)
    BY <2>2, MarkFailsOK, MarkCooldownOK DEF IInv
  <2>3. CASE Get(x) \/ PooledFails(x) \/ DialOk(x) \/ DialFails(x)
    BY <2>3, GetOK, PooledFailsOK, DialOkOK, DialFailsOK
  <2>4. CASE FreshFails(x) \/ Shut(x) \/ Put(x) \/ Request(x)
    BY <2>4, FreshFailsOK, ShutOK, PutOK, RequestOK
  <2>5. CASE QuicReuse(x) \/ QuicDial(x) \/ Stream(x) \/ QuicDrop(x)
    BY <2>5, QuicReuseOK, QuicDialOK, StreamOK, QuicDropOK
  <2> QED
    BY <1>5, <1>6, <2>1, <2>2, <2>3, <2>4, <2>5 DEF Step
<1> QED
  BY <1>1, <1>2, <1>3, <1>4, <1>6 DEF Next

\* Each action, on the types.
LEMMA NextTypes ==
  ASSUME IInv, Next
  PROVE  Rest'
<1>1. /\ well \in BOOLEAN /\ closer \in {"no", "drain", "quic", "closed"}
      /\ open \subseteq Conns /\ live \subseteq Conns /\ quic \in Conns \cup {None}
  BY DEF IInv, TypeOK
<1>2. CASE Tick
  BY <1>2, TickOK
<1>3. CASE Flip \/ CloseStart \/ CloseQuic \/ \E c \in Conns : Forget(c)
  <2>1. /\ UNCHANGED <<transport, breaker, pool>> /\ well' \in BOOLEAN
        /\ closer' \in {"no", "drain", "quic", "closed"}
        /\ open' \subseteq Conns /\ live' \subseteq Conns /\ quic' \in Conns \cup {None}
    BY <1>1, <1>3 DEF Flip, CloseStart, CloseQuic, Forget, CloseConn, sockets
  <2> QED
    BY <2>1, SocketTypes
<1>4. CASE CloseDrain
  <2>1. /\ UNCHANGED <<transport, breaker>> /\ well' \in BOOLEAN
        /\ closer' \in {"no", "drain", "quic", "closed"}
        /\ open' \subseteq Conns /\ live' \subseteq Conns /\ quic' \in Conns \cup {None}
        /\ UNCHANGED pool \/ (pool # <<>> /\ pool' = Tail(pool))
    BY <1>1, <1>4 DEF CloseDrain, CloseConn
  <2> QED
    BY <2>1, SocketTypes
<1>5. ASSUME NEW x \in Queries, Start(x) \/ Step(x) PROVE Rest'
  <2>1. CASE MarkFails(x) \/ MarkCooldown(x)
    BY <2>1, MarkFailsOK, MarkCooldownOK, TypeOfRest DEF IInv, TypeOK, Rest, PoolType, Entry
  <2>2. CASE \/ Start(x) \/ PooledOk(x) \/ PooledFails(x) \/ DialFails(x) \/ FreshOk(x)
             \/ FreshFails(x) \/ Shut(x) \/ Request(x) \/ QuicReuse(x) \/ Stream(x)
    <3>1. /\ UNCHANGED <<transport, breaker, well, closer, quic, pool>>
          /\ open' \subseteq open /\ live' \subseteq live
      BY <2>2 DEF Start, PooledOk, PooledFails, DialFails, FreshOk, FreshFails, Shut, Request,
                  QuicReuse, Stream, CloseConn, sockets
    <3> QED
      BY <1>1, <3>1, SocketTypes
  <2>3. CASE Get(x)
    <3>1. /\ UNCHANGED <<transport, breaker, well, closer, quic>>
          /\ open' \subseteq open /\ live' \subseteq live
          /\ UNCHANGED pool \/ (pool # <<>> /\ pool' = Tail(pool))
      BY <2>3 DEF Get, CloseConn
    <3> QED
      BY <1>1, <3>1, SocketTypes
  <2>4. CASE Put(x)
    <3>1. query[x] \in Query /\ Fits(transport, query[x]) /\ query[x].pc = "put"
      BY <2>4 DEF IInv, Queried, Put, At
    <3>2. query[x].conn \in Conns
      BY <3>1 DEF Fits, Holds, Query
    <3>3. /\ UNCHANGED <<transport, breaker, well, closer, quic>>
          /\ open' \subseteq open /\ live' \subseteq live
          /\ \/ UNCHANGED pool
             \/ Len(pool) < PoolSize /\ pool' = Append(pool, [conn |-> query[x].conn, idle |-> 0])
      BY <2>4 DEF Put, PoolOrClose, CloseConn
    <3> QED
      BY <1>1, <3>2, <3>3, SocketTypes
  <2>5. CASE DialOk(x) \/ QuicDial(x) \/ QuicDrop(x)
    <3>1. /\ UNCHANGED <<transport, breaker, well, closer, pool>>
          /\ open' \subseteq Conns /\ live' \subseteq Conns /\ quic' \in Conns \cup {None}
      BY <1>1, <2>5 DEF DialOk, QuicDial, QuicDrop
    <3> QED
      BY <1>1, <3>1, SocketTypes
  <2> QED
    BY <1>5, <2>1, <2>2, <2>3, <2>4, <2>5 DEF Step
<1> QED
  BY <1>2, <1>3, <1>4, <1>5 DEF Next

\* Every step keeps the invariant.
LEMMA StepOK == IInv /\ [Next]_vars => IInv'
<1>1. ASSUME IInv, Next PROVE IInv'
  BY <1>1, NextSockets, NextTypes DEF IInv, Queried, TypeOK, Rest, PoolType, Entry
<1>2. ASSUME IInv, UNCHANGED vars PROVE IInv'
  <2>1. Queried' /\ Sockets'
    BY <1>2, Idles DEF vars, sockets
  <2>2. TypeOK'
    BY <1>2 DEF vars, sockets, breaker, IInv, TypeOK
  <2> QED
    BY <2>1, <2>2 DEF IInv
<1> QED
  BY <1>1, <1>2

\* The inductive invariant holds for any number of queries, sockets and
\* upstream failures: each connection has one holder, and the pool what it may.
THEOREM Invariance == Spec => []IInv
BY InitOK, StepOK, PTL DEF Spec

\* Every variable keeps its type: the pool never holds more than
\* upstreamPoolSize connections (putConn, udpPutConn) and the failure counter
\* and the cooldown stay within what the breaker gives them.
THEOREM TypeCorrect == Spec => []TypeOK
<1>1. IInv => TypeOK
  BY DEF IInv
<1> QED
  BY <1>1, Invariance, PTL

\* A pooled connection is in one place at a time, through every retry, drain
\* and late return (getConn, putConn, pooledExchange, queryClassic, Close).
THEOREM Exclusive == Spec => []ConnExclusive
<1>1. IInv => ConnExclusive
  BY DEF IInv, Sockets
<1> QED
  BY <1>1, Invariance, PTL

\* No path through the retries forgets a socket of a pooled transport.
THEOREM Accounted == Spec => []SocketsAccounted
<1>1. IInv => SocketsAccounted
  BY DEF IInv, Sockets
<1> QED
  BY <1>1, Invariance, PTL

\* The upstream's current QUIC connection always has its socket, however
\* late another query drops a connection it replaced (dropQUICConn).
THEOREM QuicOpen == Spec => []CurrentQuicOpen
<1>1. IInv => CurrentQuicOpen
  BY DEF IInv, Sockets
<1> QED
  BY <1>1, Invariance, PTL

\* The connections as a whole, for any number of queries and sockets: one
\* query per connection, every open socket accounted for, a live QUIC
\* connection in place.
THEOREM ConnsHold == Spec => []ConnsSound
<1>1. TypeOK /\ ConnExclusive /\ SocketsAccounted /\ CurrentQuicOpen => ConnsSound
  BY DEF ConnsSound
<1> QED
  BY <1>1, TypeCorrect, Exclusive, Accounted, QuicOpen, PTL
=============================================================================
