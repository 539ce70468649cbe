----------------------------- MODULE QueryLogWalk -----------------------------
(***************************************************************************)
(* Reading the query log (querylog.go): the paged stream walk every reader *)
(* shares, while the writer appends and trims and the dashboard clears;    *)
(* Query's filter and page, the statistics walk behind its TTL cache, and  *)
(* topN over a map that Go iterates in any order.                          *)
(***************************************************************************)
EXTENDS Integers, Sequences, FiniteSets

CONSTANTS
  QWIds,       (* bound: stream IDs handed out                              *)
  QWDomain,    (* the domain of the entry with each ID, a number            *)
  QWBlocked,   (* the IDs whose entry was blocked                           *)
  QWPage,      (* queryPage, aggPage                                        *)
  QWScan,      (* maxQueryScan, maxStatsScan                                *)
  QWTop,       (* topN's n                                                  *)
  QWWalks,     (* bound: walks, clears                                      *)
  QWLimits,    (* the page sizes queries ask for                            *)
  QWOffsets,   (* and their offsets                                         *)
  QWSinces     (* the first IDs the statistics ask for                      *)

ASSUME QWAssumption ==
  /\ QWIds \in Nat /\ QWBlocked \subseteq 1..QWIds /\ QWDomain \in [1..QWIds -> Nat]
  /\ {QWPage, QWScan, QWTop} \subseteq Nat \ {0} /\ QWWalks \in Nat
  /\ QWLimits \subseteq Nat \ {0} /\ QWOffsets \subseteq Nat /\ QWSinces \subseteq Nat

VARIABLES
  qwStream,   (* the IDs in the stream                                      *)
  qwLast,     (* the last ID handed out                                     *)
  qwWalk,     (* the walk in progress or just finished                      *)
  qwCache,    (* statsCache                                                 *)
  qwClear,    (* a Clear between its caches and the stream                  *)
  qwHist      (* history: walks, IDs a Clear deleted, what the walk met     *)
QWVars == <<qwStream, qwLast, qwWalk, qwCache, qwClear, qwHist>>

NoWalk == [kind |-> "none", rev |-> FALSE, start |-> 0, since |-> 0, first |-> TRUE, seen |-> <<>>,
           limit |-> 0, offset |-> 0, blocked |-> FALSE, stop |-> "open", top |-> <<>>]
NoCache == [valid |-> FALSE, ids |-> {}, since |-> 0, crossed |-> FALSE]

QWInit ==
  /\ qwStream = {} /\ qwLast = 0 /\ qwWalk = NoWalk /\ qwCache = NoCache /\ qwClear = FALSE
  /\ qwHist = [walks |-> 0, cleared |-> {}, began |-> {}, removed |-> {}, added |-> {}, crossed |-> FALSE]

Walking == qwWalk.kind /= "none" /\ qwWalk.stop = "open"

Members(s) == {s[i] : i \in 1..Len(s)}

(* The members of a set in an order, a set of pairs: the one with n before *)
(* it comes next after n.                                                  *)
Ranked(S, before) ==
  [r \in 1..Cardinality(S) |-> CHOOSE x \in S : Cardinality({y \in S : <<y, x>> \in before}) = r - 1]

-----------------------------------------------------------------------------
(* The writer's side of the stream (writeBatch, Prune).                    *)
StreamAppends ==
  /\ qwLast < QWIds
  /\ qwLast' = qwLast + 1 /\ qwStream' = qwStream \cup {qwLast + 1}
  /\ qwHist' = [qwHist EXCEPT !.added = IF Walking THEN @ \cup {qwLast + 1} ELSE @]
  /\ UNCHANGED <<qwWalk, qwCache, qwClear>>
StreamTrims ==
  /\ \E oldest \in qwStream :
       /\ \A i \in qwStream : oldest <= i
       /\ qwStream' = qwStream \ {oldest}
       /\ qwHist' = [qwHist EXCEPT !.removed = IF Walking THEN @ \cup {oldest} ELSE @]
  /\ UNCHANGED <<qwLast, qwWalk, qwCache, qwClear>>

(* Clear: the caches first, then the stream.                               *)
ClearCaches ==
  /\ ~qwClear /\ qwHist.walks < QWWalks
  /\ qwClear' = TRUE /\ qwCache' = NoCache
  /\ qwHist' = [qwHist EXCEPT !.crossed = TRUE, !.walks = @ + 1]
  /\ UNCHANGED <<qwStream, qwLast, qwWalk>>
ClearStream ==
  /\ qwClear
  /\ qwStream' = {} /\ qwClear' = FALSE
  /\ qwHist' = [qwHist EXCEPT !.cleared = @ \cup qwStream,
                              !.removed = IF Walking THEN @ \cup qwStream ELSE @]
  /\ UNCHANGED <<qwLast, qwWalk, qwCache>>

-----------------------------------------------------------------------------
(* A reader starts: Query from "+" down, the statistics from since up.     *)
Begins(w) ==
  /\ ~Walking /\ qwHist.walks < QWWalks
  /\ qwWalk' = w
  /\ qwHist' = [qwHist EXCEPT !.walks = @ + 1, !.began = qwStream, !.removed = {}, !.added = {},
                              !.crossed = qwClear]
  /\ UNCHANGED <<qwStream, qwLast, qwCache, qwClear>>
QueryBegins(limit, offset, blocked) ==
  Begins([NoWalk EXCEPT !.kind = "query", !.rev = TRUE, !.start = QWIds + 1, !.limit = limit,
                        !.offset = offset, !.blocked = blocked])
StatsBegins(since) ==
  /\ ~(qwCache.valid /\ qwCache.since = since)
  /\ Begins([NoWalk EXCEPT !.kind = "stats", !.start = since, !.since = since])
(* aggCacheTTL has passed.                                                 *)
CacheExpires ==
  /\ qwCache.valid /\ qwCache' = NoCache
  /\ UNCHANGED <<qwStream, qwLast, qwWalk, qwClear, qwHist>>

(* XRANGE / XREVRANGE from start, page + 1 messages                        *)
WalkOrder(w) == {p \in (1..QWIds) \X (1..QWIds) : IF w.rev THEN p[1] > p[2] ELSE p[1] < p[2]}
Ahead(w) == {i \in qwStream : IF w.rev THEN i <= w.start ELSE i >= w.start}
Messages(w) ==
  LET all == Ranked(Ahead(w), WalkOrder(w))
  IN SubSeq(all, 1, IF Len(all) > QWPage + 1 THEN QWPage + 1 ELSE Len(all))

(* Mutant: the first message of every further page is taken for the        *)
(* boundary.                                                               *)
SkipBoundaryAlways(w, msgs) == IF ~w.first /\ msgs /= <<>> THEN 1 ELSE 0

(* The boundary message two pages share; it may have been trimmed since.   *)
SkipBoundary(w, msgs) == IF ~w.first /\ msgs /= <<>> /\ Head(msgs) = w.start THEN 1 ELSE 0

Fresh(w, msgs) == SubSeq(msgs, SkipBoundary(w, msgs) + 1, Len(msgs))

(* What the filter lets through of a walk's messages, in its order.        *)
Matching(w, s) == Ranked({i \in Members(s) : w.blocked => i \in QWBlocked}, WalkOrder(w))
Full(w, s) == w.kind = "query" /\ Len(Matching(w, s)) >= w.offset + w.limit

(* The yields of one page: until the page ends, the scan bound is reached, *)
(* or the caller has what it wants.                                        *)
Yielded(w, fresh) ==
  LET enough(n) == Len(w.seen) + n >= QWScan \/ Full(w, w.seen \o SubSeq(fresh, 1, n))
  IN SubSeq(fresh, 1, CHOOSE n \in 0..Len(fresh) :
                        /\ \A k \in 1..(n - 1) : ~enough(k)
                        /\ (n > 0 /\ enough(n)) \/ n = Len(fresh))

StopOf(w, msgs, fresh, yielded) ==
  IF fresh = <<>> THEN "end"
  ELSE IF Full(w, w.seen \o yielded) THEN "full"
  ELSE IF Len(w.seen \o yielded) >= QWScan THEN "cap"
  ELSE IF Len(msgs) <= QWPage THEN "end" ELSE "open"

-----------------------------------------------------------------------------
(* topN: one pass over the counts, in the order Go iterates the map, that  *)
(* keeps the n strongest in a heap; its root is the weakest.               *)
Counts(ids) == [d \in {QWDomain[i] : i \in ids} |-> Cardinality({i \in ids : QWDomain[i] = d})]
Outranks(c, d, e) == c[d] > c[e] \/ (c[d] = c[e] /\ d < e)
Stronger(c) == {p \in (DOMAIN c) \X (DOMAIN c) : Outranks(c, p[1], p[2])}

Displaces(c, d, root) == Outranks(c, d, root)
HeapRoot(c, kept) == CHOOSE d \in kept : \A e \in kept \ {d} : Outranks(c, e, d)
Keeps(c, kept, d) ==
  IF Cardinality(kept) < QWTop THEN kept \cup {d}
  ELSE IF Displaces(c, d, HeapRoot(c, kept)) THEN (kept \ {HeapRoot(c, kept)}) \cup {d}
  ELSE kept
KeptAfter(c, order) ==
  LET kept[n \in 0..Len(order)] == IF n = 0 THEN {} ELSE Keeps(c, kept[n - 1], order[n])
  IN kept[Len(order)]
TopN(c, order) == Ranked(KeptAfter(c, order), Stronger(c))
MapOrders(c) ==
  {f \in [1..Cardinality(DOMAIN c) -> DOMAIN c] : \A i, j \in 1..Cardinality(DOMAIN c) : i /= j => f[i] /= f[j]}

(* What Query returns of the matches it collected.                         *)
QueryResult(w) ==
  LET m == Matching(w, w.seen)
      end == IF Len(m) > w.offset + w.limit THEN w.offset + w.limit ELSE Len(m)
  IN IF Len(m) <= w.offset THEN <<>> ELSE SubSeq(m, w.offset + 1, end)

(* One page of the walk and what the caller makes of it; a finished        *)
(* statistics walk computes its result and caches it.                      *)
WalkPage ==
  /\ Walking
  /\ LET msgs == Messages(qwWalk)
         fresh == Fresh(qwWalk, msgs)
         yielded == Yielded(qwWalk, fresh)
         stop == StopOf(qwWalk, msgs, fresh, yielded)
         w == [qwWalk EXCEPT !.seen = @ \o yielded, !.first = FALSE, !.stop = stop,
                             !.start = IF stop = "open" THEN msgs[Len(msgs)] ELSE @]
         counts == Counts(Members(w.seen))
     IN IF stop = "open" \/ w.kind = "query"
        THEN qwWalk' = w /\ UNCHANGED qwCache
        ELSE /\ \E order \in MapOrders(counts) : qwWalk' = [w EXCEPT !.top = TopN(counts, order)]
             /\ qwCache' = [valid |-> TRUE, ids |-> Members(w.seen), since |-> w.since, crossed |-> qwHist.crossed]
  /\ UNCHANGED <<qwStream, qwLast, qwClear, qwHist>>
(* A Redis error ends the walk, and the caller returns it.                 *)
WalkFails ==
  /\ Walking
  /\ qwWalk' = [qwWalk EXCEPT !.stop = "error"]
  /\ UNCHANGED <<qwStream, qwLast, qwCache, qwClear, qwHist>>

QWNext ==
  \/ StreamAppends \/ StreamTrims \/ ClearCaches \/ ClearStream \/ CacheExpires
  \/ \E limit \in QWLimits, offset \in QWOffsets, b \in BOOLEAN : QueryBegins(limit, offset, b)
  \/ \E since \in QWSinces : StatsBegins(since)
  \/ WalkPage \/ WalkFails
QWSpec == QWInit /\ [][QWNext]_QWVars

-----------------------------------------------------------------------------
Finished(stops) == qwWalk.kind /= "none" /\ qwWalk.stop \in stops

(* The scan bound is strict, and everything a walk holds was in the stream *)
(* of IDs handed out.                                                      *)
QWTypeOK ==
  /\ qwStream \subseteq 1..qwLast /\ qwLast \in 0..QWIds
  /\ Len(qwWalk.seen) <= QWScan /\ Members(qwWalk.seen) \subseteq 1..qwLast
  /\ qwCache.ids \subseteq 1..qwLast

(* A walk shows no entry twice and in order, and a walk that ran to the    *)
(* end skips no entry that was in the stream throughout, whatever was      *)
(* appended, trimmed or deleted between its pages (the boundary included). *)
WalkExact ==
  LET s == qwWalk.seen IN
  /\ \A i, j \in 1..Len(s) : i < j => IF qwWalk.rev THEN s[i] > s[j] ELSE s[i] < s[j]
  /\ Finished({"end"}) =>
       \A id \in qwHist.began \ qwHist.removed :
         id >= qwWalk.since => id \in Members(s)

(* Query's page: with nothing added or removed meanwhile it is exactly the *)
(* offset..offset+limit slice of the filtered entries, newest first,       *)
(* unless the scan bound cut the walk.                                     *)
QueryPageExact ==
  (Finished({"end", "full"}) /\ qwWalk.kind = "query" /\ qwHist.removed = {} /\ qwHist.added = {}) =>
    LET all == {i \in qwHist.began : qwWalk.blocked => i \in QWBlocked}
        rank(i) == Cardinality({j \in all : j >= i})
        page == QueryResult(qwWalk)
    IN /\ Members(page) = {i \in all : rank(i) > qwWalk.offset /\ rank(i) <= qwWalk.offset + qwWalk.limit}
       /\ \A i, j \in 1..Len(page) : i < j => page[i] > page[j]

(* The top list does not depend on the map's iteration order: it is the n  *)
(* strongest, strongest first, ties in the domains' order.                 *)
TopIsStrongest ==
  (Finished({"end", "cap"}) /\ qwWalk.kind = "stats") =>
    LET c == Counts(Members(qwWalk.seen))
        rank(d) == Cardinality({e \in DOMAIN c : e = d \/ Outranks(c, e, d)})
    IN /\ Members(qwWalk.top) = {d \in DOMAIN c : rank(d) <= QWTop}
       /\ \A i \in 1..Len(qwWalk.top) : rank(qwWalk.top[i]) = i

(* The statistics cache serves nothing a Clear has deleted, except what a  *)
(* walk that was under way during the Clear stored after it.               *)
ClearedNotServed == qwCache.valid /\ ~qwCache.crossed => qwCache.ids \cap qwHist.cleared = {}

(* What readers of the log are shown: each entry once and in order, the    *)
(* right page, the strongest names, and nothing a Clear deleted (walk,     *)
(* Query, topN, aggCache).                                                 *)
WalkSound ==
  /\ QWTypeOK
  /\ WalkExact
  /\ QueryPageExact
  /\ TopIsStrongest
  /\ ClearedNotServed
=============================================================================
