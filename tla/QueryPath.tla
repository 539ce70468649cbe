----------------------------- MODULE QueryPath -----------------------------
(***************************************************************************)
(* A question's way through the handler (internal/dnsserver/handler.go):   *)
(* serve, the coalescing of identical questions (resolveUpstreams), the    *)
(* serve-stale race (RFC 8767), finishResolve with its background cache    *)
(* write, and the cache's background refresh (maybePrefetch, Refresh).     *)
(*                                                                         *)
(* All queries ask the same question, whose positive and negative cache    *)
(* entries are fresh, stale or absent; an entry ages at any moment.  Each  *)
(* timer (deadline, staleGrace) fires at any moment.  A positive answer is *)
(* "pos" when the checks of finishResolve (DNSSEC, IP rules, CNAME chain)  *)
(* accept it and "bad" when they do not.                                   *)
(***************************************************************************)
EXTENDS Naturals, FiniteSets

CONSTANTS
  Queries,     \* client queries, each served once
  Slots,       \* cap(Handler.cacheWriteSlots)
  Refresher,   \* the prefetch goroutine as a caller of resolveUpstreams
  MayPanic,    \* whether an upstream query may panic
  None

ASSUME SlotsAssumption == Slots \in Nat
ASSUME QueriesAssumption == IsFiniteSet(Queries)
ASSUME CallersAssumption == Refresher \notin Queries /\ None \notin Queries \cup {Refresher}
ASSUME NoneAssumption == None \notin {"pos", "bad", "nx", "servfail", "err", "refused"}

VARIABLES
  pos,      \* positive entry of the question
  neg,      \* negative entry of the question
  query,    \* per query: where serve is and what it holds
  expired,  \* callers whose context is done
  flight,   \* singleflight call for the question, or None
  refresh,  \* the prefetch goroutine: its step and result
  writer,   \* per query: its background cache write, or None
  alive     \* the process has not crashed

vars == <<pos, neg, query, expired, flight, refresh, writer, alive>>

Callers == Queries \cup {Refresher}

Answers == {"pos", "bad"}
Negatives == {"nx", "servfail"}
Results == Answers \cup Negatives \cup {"err"}
Ages == {"absent", "fresh", "stale"}
Kinds == {"plain", "solo", "meta"}

\* A query: its step, whether it may be coalesced and cached, the stale entry
\* it captured, whether the stale answer went out already (skipWrite), the
\* result of its resolution, and the replies written to the client.
Query == [pc: {"new", "lookup", "resolve", "wait", "solo", "done"}, kind: Kinds,
          stale: Answers \cup Negatives \cup {None}, raced: BOOLEAN,
          out: Results \cup {None}, reply: Results \cup {"refused", None}, replies: 0..2]

\* Cached answers, flights, background writes and queries are well formed
\* (Handler.serve, resolve).
TypeOK ==
  /\ pos \in [age: Ages, what: Answers]
  /\ neg \in [age: Ages, what: Negatives]
  /\ query \in [Queries -> Query]
  /\ expired \subseteq Callers
  /\ flight \in [leader: Callers, callers: SUBSET Callers] \cup {None}
  /\ refresh \in [pc: {"idle", "resolve", "wait"}, out: Results \cup {None}]
  /\ writer \in [Queries -> Answers \cup Negatives \cup {None}]
  /\ alive \in BOOLEAN

Init ==
  /\ pos = [age |-> "absent", what |-> "pos"]
  /\ neg = [age |-> "absent", what |-> "nx"]
  /\ query = [x \in Queries |-> [pc |-> "new", kind |-> "plain", stale |-> None, raced |-> FALSE,
                                 out |-> None, reply |-> None, replies |-> 0]]
  /\ expired = {}
  /\ flight = None
  /\ refresh = [pc |-> "idle", out |-> None]
  /\ writer = [x \in Queries |-> None]
  /\ alive = TRUE

Busy == {x \in Queries : writer[x] # None}

Waiting(c) ==
  IF c = Refresher THEN refresh.pc = "wait" /\ refresh.out = None
                   ELSE query[c].pc = "wait" /\ query[c].out = None

\* The query moves to step; a reply r (if any) is written to the client.
Goto(x, step) == query' = [query EXCEPT ![x].pc = step]

Reply(x, r) ==
  query' = [query EXCEPT ![x] = [@ EXCEPT !.pc = "done", !.reply = r,
                                          !.replies = query[x].replies + 1]]

-----------------------------------------------------------------------------
(* The cache entries *)

Age(e, d) == d = (IF e.age = "fresh" THEN "stale" ELSE "absent")

AgePos ==
  /\ pos.age # "absent"
  /\ \E d \in Ages : Age(pos, d) /\ pos' = [pos EXCEPT !.age = d]
  /\ UNCHANGED <<neg, query, expired, flight, refresh, writer, alive>>

AgeNeg ==
  /\ neg.age # "absent"
  /\ \E d \in Ages : Age(neg, d) /\ neg' = [neg EXCEPT !.age = d]
  /\ UNCHANGED <<pos, query, expired, flight, refresh, writer, alive>>

\* Cache.Set or Cache.SetNegative.
Cache(what) ==
  IF what \in Answers
    THEN pos' = [age |-> "fresh", what |-> what] /\ UNCHANGED neg
    ELSE neg' = [age |-> "fresh", what |-> what] /\ UNCHANGED pos

-----------------------------------------------------------------------------
(* serve, up to the resolution *)

\* A refused query is dropped silently over UDP and answered otherwise; a
\* query answered locally (rewrite, DHCP host, block list) gets its reply.
Refuse(x) ==
  /\ query[x].pc = "new"
  /\ Goto(x, "done") \/ Reply(x, "refused")
  /\ UNCHANGED <<pos, neg, expired, flight, refresh, writer, alive>>

Accept(x) ==
  /\ query[x].pc = "new"
  /\ \E k \in Kinds :
       query' = [query EXCEPT ![x] = [@ EXCEPT !.pc = IF k = "meta" THEN "resolve" ELSE "lookup",
                                               !.kind = k]]
  /\ UNCHANGED <<pos, neg, expired, flight, refresh, writer, alive>>

\* maybePrefetch: a hit near the end of its life starts one refresh.
MaybePrefetch(on) ==
  \/ UNCHANGED <<refresh, expired>>
  \/ /\ on
     /\ refresh.pc = "idle"
     /\ refresh' = [pc |-> "resolve", out |-> None]
     /\ expired' = expired \ {Refresher}

\* A fresh entry is the answer, the positive one first; a SERVFAIL never
\* prefetches.
Hit(x) ==
  /\ query[x].pc = "lookup"
  /\ \/ /\ pos.age = "fresh"
        /\ Reply(x, pos.what)
        /\ MaybePrefetch(TRUE)
     \/ /\ pos.age # "fresh"
        /\ neg.age = "fresh"
        /\ Reply(x, neg.what)
        /\ MaybePrefetch(neg.what # "servfail")
  /\ UNCHANGED <<pos, neg, flight, writer, alive>>

\* Nothing fresh: a stale positive, else a stale negative, is kept as the
\* fallback.
Miss(x) ==
  /\ query[x].pc = "lookup"
  /\ pos.age # "fresh" /\ neg.age # "fresh"
  /\ query' = [query EXCEPT ![x] = [@ EXCEPT !.pc = "resolve",
                 !.stale = IF pos.age = "stale" THEN pos.what
                           ELSE IF neg.age = "stale" THEN neg.what ELSE None]]
  /\ UNCHANGED <<pos, neg, expired, flight, refresh, writer, alive>>

-----------------------------------------------------------------------------
(* resolveUpstreams *)

\* The caller starts a flight or joins the one in the air.
JoinFlight(c) ==
  flight' = IF flight = None THEN [leader |-> c, callers |-> {c}]
                             ELSE [flight EXCEPT !.callers = @ \cup {c}]

Resolve(x) ==
  /\ query[x].pc = "resolve"
  /\ \/ query[x].kind = "plain" /\ Goto(x, "wait") /\ JoinFlight(x)
     \/ query[x].kind # "plain" /\ Goto(x, "solo") /\ UNCHANGED flight
  /\ UNCHANGED <<pos, neg, expired, refresh, writer, alive>>

\* A context's deadline passes.
Deadline(c) ==
  /\ c \notin expired
  /\ Waiting(c) \/ (c # Refresher /\ query[c].pc = "solo")
  /\ expired' = expired \cup {c}
  /\ UNCHANGED <<pos, neg, query, flight, refresh, writer, alive>>

\* The flight ends: with an answer, or with an error, which the end of the
\* leader's context forces.  Every caller still waiting gets the result.
Land ==
  /\ flight # None
  /\ \E r \in IF flight.leader \in expired THEN {"err"} ELSE Results :
       /\ query' = [x \in Queries |-> IF x \in flight.callers /\ Waiting(x)
                                        THEN [query[x] EXCEPT !.out = r] ELSE query[x]]
       /\ refresh' = IF Refresher \in flight.callers /\ Waiting(Refresher)
                       THEN [refresh EXCEPT !.out = r] ELSE refresh
  /\ flight' = None
  /\ UNCHANGED <<pos, neg, expired, writer, alive>>

\* Mutant: a waiter relies on the leader alone.
BailLeader(x) ==
  /\ Waiting(x)
  /\ x \in expired
  /\ flight # None /\ flight.leader = x
  /\ query' = [query EXCEPT ![x].out = "err"]
  /\ UNCHANGED <<pos, neg, expired, flight, refresh, writer, alive>>

\* A caller whose own deadline has passed stops waiting for the leader.
Bail(x) ==
  /\ Waiting(x)
  /\ x \in expired
  /\ query' = [query EXCEPT ![x].out = "err"]
  /\ UNCHANGED <<pos, neg, expired, flight, refresh, writer, alive>>

\* A query that is not coalesced resolves on its own.
Solo(x) ==
  /\ query[x].pc = "solo"
  /\ \E r \in IF x \in expired THEN {"err"} ELSE Results :
       query' = [query EXCEPT ![x] = [@ EXCEPT !.pc = "wait", !.out = r]]
  /\ UNCHANGED <<pos, neg, expired, flight, refresh, writer, alive>>

\* An upstream query panics outside raceUpstreams' own recover: on the
\* goroutine of the flight or of serve's resolution, which recover nothing.
Panic ==
  /\ MayPanic
  /\ flight # None \/ \E x \in Queries : query[x].pc = "solo"
  /\ alive' = FALSE
  /\ UNCHANGED <<pos, neg, query, expired, flight, refresh, writer>>

-----------------------------------------------------------------------------
(* The serve-stale race and finishResolve *)

\* staleGrace passes before serve has taken the outcome of the resolution (which
\* may be there already: select takes either): the stale answer goes out and
\* the rest runs in the background, without writing.
StaleTimer(x) ==
  /\ query[x].pc \in {"wait", "solo"}
  /\ query[x].stale # None
  /\ ~query[x].raced
  /\ query' = [query EXCEPT ![x] = [@ EXCEPT !.raced = TRUE, !.reply = query[x].stale,
                                             !.replies = query[x].replies + 1]]
  /\ UNCHANGED <<pos, neg, expired, flight, refresh, writer, alive>>

\* finishResolve ends with reply r, written unless skipWrite.
Finish(x, r) == IF query[x].raced THEN Goto(x, "done") ELSE Reply(x, r)

\* The background write takes a slot, or is skipped when none is free.
Write(x, what) ==
  IF query[x].kind = "meta" \/ Cardinality(Busy) >= Slots
    THEN UNCHANGED writer
    ELSE writer' = [writer EXCEPT ![x] = what]

\* Mutant: an upstream's SERVFAIL is passed on although a stale entry exists.
FinishFailedPassed(x) ==
  /\ query[x].pc = "wait"
  /\ query[x].out \in {"err", "servfail"}
  /\ \/ /\ query[x].stale # None /\ query[x].out = "err"
        /\ Finish(x, query[x].stale)
        /\ UNCHANGED writer
     \/ /\ query[x].stale = None \/ query[x].out = "servfail"
        /\ Finish(x, "servfail")
        /\ Write(x, "servfail")
  /\ UNCHANGED <<pos, neg, expired, flight, refresh, alive>>

\* No usable answer: the stale entry if there is one, else SERVFAIL, which is
\* cached.
FinishFailed(x) ==
  /\ query[x].pc = "wait"
  /\ query[x].out \in {"err", "servfail"}
  /\ \/ /\ query[x].stale # None
        /\ Finish(x, query[x].stale)
        /\ UNCHANGED writer
     \/ /\ query[x].stale = None
        /\ Finish(x, "servfail")
        /\ Write(x, "servfail")
  /\ UNCHANGED <<pos, neg, expired, flight, refresh, alive>>

\* The answer fails DNSSEC, IP or CNAME checks and is replaced.
FinishRejected(x) ==
  /\ query[x].pc = "wait"
  /\ query[x].out = "bad"
  /\ Finish(x, "refused")
  /\ UNCHANGED <<pos, neg, expired, flight, refresh, writer, alive>>

FinishAnswered(x) ==
  /\ query[x].pc = "wait"
  /\ query[x].out \in {"pos", "nx"}
  /\ Finish(x, query[x].out)
  /\ Write(x, query[x].out)
  /\ UNCHANGED <<pos, neg, expired, flight, refresh, alive>>

\* The background write reaches the cache and gives its slot back.
WriteDone(x) ==
  /\ writer[x] # None
  /\ Cache(writer[x])
  /\ writer' = [writer EXCEPT ![x] = None]
  /\ UNCHANGED <<query, expired, flight, refresh, alive>>

-----------------------------------------------------------------------------
(* Refresh: resolveAndCache on the prefetch goroutine *)

RefreshResolve ==
  /\ refresh.pc = "resolve"
  /\ refresh' = [refresh EXCEPT !.pc = "wait"]
  /\ JoinFlight(Refresher)
  /\ UNCHANGED <<pos, neg, query, expired, writer, alive>>

RefreshBail ==
  /\ Waiting(Refresher)
  /\ Refresher \in expired
  /\ refresh' = [refresh EXCEPT !.out = "err"]
  /\ UNCHANGED <<pos, neg, query, expired, flight, writer, alive>>

\* Whatever came back is cached as it is; the prefetching marker is removed.
RefreshDone ==
  /\ refresh.pc = "wait"
  /\ refresh.out # None
  /\ IF refresh.out = "err" THEN UNCHANGED <<pos, neg>> ELSE Cache(refresh.out)
  /\ refresh' = [pc |-> "idle", out |-> None]
  /\ UNCHANGED <<query, expired, flight, writer, alive>>

-----------------------------------------------------------------------------

Serve(x) ==
  \/ Hit(x)
  \/ Miss(x)
  \/ Resolve(x)
  \/ Deadline(x)
  \/ Bail(x)
  \/ Solo(x)
  \/ FinishFailed(x)
  \/ FinishRejected(x)
  \/ FinishAnswered(x)
  \/ WriteDone(x)

Background ==
  \/ RefreshResolve
  \/ Deadline(Refresher)
  \/ RefreshBail
  \/ RefreshDone

\* Every query is served and nothing is left in the background.
Quiet ==
  /\ \A x \in Queries : query[x].pc = "done" /\ writer[x] = None
  /\ refresh.pc = "idle" /\ flight = None
  /\ pos.age = "absent" /\ neg.age = "absent"
  /\ UNCHANGED vars

Next ==
  \/ alive /\ \/ AgePos
              \/ AgeNeg
              \/ Land
              \/ Panic
              \/ Background
              \/ \E x \in Queries : Refuse(x) \/ Accept(x) \/ StaleTimer(x) \/ Serve(x)
  \/ Quiet
  \/ ~alive /\ UNCHANGED vars

Spec == Init /\ [][Next]_vars

\* Goroutines that can run do, and the contexts' deadlines pass; upstreams
\* owe nobody an answer (no fairness on Land).
Fairness ==
  /\ \A x \in Queries : WF_vars(alive /\ Serve(x))
  /\ WF_vars(alive /\ Background)

LiveSpec == Spec /\ Fairness

-----------------------------------------------------------------------------
(* Properties *)

\* A client is answered at most once, although the serve-stale race leaves
\* finishResolve running after the stale answer went out (skipWrite).
AtMostOneReply == \A x \in Queries : query[x].replies <= 1

\* A query that had a stale answer to fall back on never tells its client
\* that resolution failed (RFC 8767, finishResolve 1301-1347).
StaleBeatsFailure ==
  \A x \in Queries : query[x].stale \in Answers => query[x].reply # "servfail"

\* At most cap(cacheWriteSlots) background writes run at once.
WritesBounded == Cardinality(Busy) <= Slots

\* Every query that serve accepted is answered within its own deadline,
\* although the leader of its flight may be a slower refresh.
EveryoneAnswered ==
  \A x \in Queries : (query[x].pc = "lookup" ~> query[x].replies > 0 \/ ~alive)

\* A refresh ends and its prefetching marker goes, so a later hit can refresh
\* again.
RefreshEnds == (refresh.pc # "idle") ~> (refresh.pc = "idle" \/ ~alive)

(* What a client is told: one reply, no failure while a stale answer was   *)
(* in hand, with the background writes within their slots (serve,          *)
(* finishResolve).                                                         *)
RepliesSound ==
  /\ TypeOK
  /\ AtMostOneReply
  /\ StaleBeatsFailure
  /\ WritesBounded

(* Nothing waits for ever: every query is answered and every refresh ends  *)
(* and gives its marker back (serve, resolveAndCache).                     *)
QueriesEnd == EveryoneAnswered /\ RefreshEnds
=============================================================================
