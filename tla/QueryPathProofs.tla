-------------------------- MODULE QueryPathProofs ---------------------------
(***************************************************************************)
(* Theorems about QueryPath, for any finite set of queries and any number  *)
(* of cache-write slots, and about what a query runs through: the client's *)
(* identity (ClientIdentity), the forwarding strategies (Forward) and the  *)
(* recursive resolver (Recursive).                                         *)
(*                                                                         *)
(* AtMostOneReply and StaleBeatsFailure are not inductive: ToldClient ties *)
(* what a query has written to its step. Before the end only the serve-    *)
(* stale race may have written, and what it wrote is the stale entry       *)
(* captured at lookup.                                                     *)
(***************************************************************************)
EXTENDS QueryPath, ClientIdentity, Forward, Recursive,
        FiniteSetTheorems, SequenceTheorems, WellFoundedInduction, TLAPS

\* What a query has told its client, by its step.
ToldClient(q) ==
  /\ q.replies = IF q.reply = None THEN 0 ELSE 1
  /\ q.raced => q.reply = q.stale /\ q.stale # None
  /\ q.pc # "done" /\ ~q.raced => q.reply = None
  /\ q.pc \in {"new", "lookup"} => ~q.raced /\ q.stale = None
  /\ q.stale \in Answers => q.reply # "servfail"

\* The inductive invariant.
IInv ==
  /\ TypeOK
  /\ \A x \in Queries : ToldClient(query[x])
  /\ WritesBounded

-----------------------------------------------------------------------------

\* A step that replaces one query by another well-formed one.
LEMMA OneQuery ==
  ASSUME IInv, NEW x \in Queries, NEW q \in Query, ToldClient(q),
         query' = [query EXCEPT ![x] = q]
  PROVE  query' \in [Queries -> Query] /\ \A y \in Queries : ToldClient(query'[y])
BY DEF IInv, TypeOK

\* Reply, Goto and Finish leave a well-formed query, whatever the answer, as
\* long as nothing was written before and a failure is not told over a stale
\* answer.
LEMMA ReplyOK ==
  ASSUME IInv, NEW x \in Queries, NEW r \in Results \cup {"refused"},
         query[x].pc # "done", ~query[x].raced,
         r = "servfail" => query[x].stale \notin Answers,
         Reply(x, r)
  PROVE  query' \in [Queries -> Query] /\ \A y \in Queries : ToldClient(query'[y])
<1> DEFINE q == [query[x] EXCEPT !.pc = "done", !.reply = r, !.replies = query[x].replies + 1]
<1>1. query[x] \in Query /\ ToldClient(query[x]) BY DEF IInv, TypeOK
<1>2. query' = [query EXCEPT ![x] = q] BY DEF Reply
<1>3. r # None BY NoneAssumption DEF Results, Answers, Negatives
<1>4. query[x].reply = None /\ query[x].replies = 0 BY <1>1 DEF ToldClient
<1>5. q \in Query
  <2>1. query[x].replies + 1 \in 0..2 BY <1>4
  <2>2. r \in Results \cup {"refused", None} OBVIOUS
  <2> DEFINE n == query[x].replies + 1
  <2> HIDE DEF n
  <2>3. [query[x] EXCEPT !.pc = "done", !.reply = r, !.replies = n] \in Query
    BY <1>1, <2>1, <2>2 DEF Query, n
  <2> QED BY <2>3 DEF n
<1>6. /\ q.pc = "done" /\ q.reply = r /\ q.replies = 1
      /\ q.raced = query[x].raced /\ q.stale = query[x].stale
  BY <1>1, <1>4 DEF Query
<1>7. ToldClient(q) BY <1>3, <1>6 DEF ToldClient
<1> QED BY <1>2, <1>5, <1>7, OneQuery

\* A query that ends without a further reply has told its client once.
LEMMA DoneOK ==
  ASSUME IInv, NEW x \in Queries, Goto(x, "done")
  PROVE  query' \in [Queries -> Query] /\ \A y \in Queries : ToldClient(query'[y])
<1> DEFINE q == [query[x] EXCEPT !.pc = "done"]
<1>1. query[x] \in Query /\ ToldClient(query[x]) BY DEF IInv, TypeOK
<1>2. query' = [query EXCEPT ![x] = q] BY DEF Goto
<1>3. q \in Query BY <1>1 DEF Query
<1>4. ToldClient(q) BY <1>1 DEF ToldClient, Query
<1> QED BY <1>2, <1>3, <1>4, OneQuery

\* A query that ends with a result has told its client once.
LEMMA FinishOK ==
  ASSUME IInv, NEW x \in Queries, NEW r \in Results \cup {"refused"},
         query[x].pc = "wait",
         r = "servfail" => query[x].stale \notin Answers,
         Finish(x, r)
  PROVE  query' \in [Queries -> Query] /\ \A y \in Queries : ToldClient(query'[y])
<1>1. CASE query[x].raced BY <1>1, DoneOK DEF Finish
<1>2. CASE ~query[x].raced BY <1>2, ReplyOK DEF Finish
<1> QED BY <1>1, <1>2

\* Storing an answer keeps the two entries well formed.
LEMMA CacheOK ==
  ASSUME NEW what \in Answers \cup Negatives, TypeOK, Cache(what)
  PROVE  pos' \in [age: Ages, what: Answers] /\ neg' \in [age: Ages, what: Negatives]
<1>1. CASE what \in Answers BY <1>1 DEF Cache, TypeOK, Ages
<1>2. CASE what \notin Answers BY <1>2 DEF Cache, TypeOK, Ages
<1> QED BY <1>1, <1>2

\* A background write starts only when a slot is free.
LEMMA WriteOK ==
  ASSUME IInv, NEW x \in Queries, NEW what \in Answers \cup Negatives, Write(x, what)
  PROVE  writer' \in [Queries -> Answers \cup Negatives \cup {None}] /\ WritesBounded'
<1>1. CASE writer' = writer
  BY <1>1 DEF IInv, TypeOK, WritesBounded, Busy
<1>2. CASE writer' = [writer EXCEPT ![x] = what] /\ ~(Cardinality(Busy) >= Slots)
  <2>1. writer' \in [Queries -> Answers \cup Negatives \cup {None}]
    BY <1>2 DEF IInv, TypeOK
  <2>2. IsFiniteSet(Busy)
    BY QueriesAssumption, FS_Subset DEF Busy
  <2>3. Cardinality(Busy) \in Nat
    BY <2>2, FS_CardinalityType
  <2>4. Busy' \subseteq Busy \cup {x}
    BY <1>2 DEF IInv, TypeOK, Busy
  <2>5. IsFiniteSet(Busy \cup {x}) /\ Cardinality(Busy \cup {x}) <= Cardinality(Busy) + 1
    <3> DEFINE S == Busy
    <3>1. IsFiniteSet(S) /\ Cardinality(S) \in Nat BY <2>2, <2>3
    <3> HIDE DEF S
    <3>2. /\ IsFiniteSet(S \cup {x})
          /\ Cardinality(S \cup {x}) = IF x \in S THEN Cardinality(S) ELSE Cardinality(S) + 1
      BY <3>1, FS_AddElement, Zenon
    <3>3. Cardinality(S \cup {x}) <= Cardinality(S) + 1 BY <3>1, <3>2
    <3> QED BY <3>2, <3>3 DEF S
  <2>6. /\ Cardinality(Busy') \in Nat /\ Cardinality(Busy \cup {x}) \in Nat
        /\ Cardinality(Busy') <= Cardinality(Busy \cup {x})
    BY <2>4, <2>5, FS_Subset, FS_CardinalityType
  <2>7. Cardinality(Busy') <= Slots
    BY <1>2, <2>3, <2>5, <2>6, SlotsAssumption
  <2> QED BY <2>1, <2>7 DEF WritesBounded, Busy
<1> QED BY <1>1, <1>2 DEF Write

\* A write that ends gives its slot back.
LEMMA SlotBack ==
  ASSUME IInv, NEW x \in Queries, writer' = [writer EXCEPT ![x] = None]
  PROVE  writer' \in [Queries -> Answers \cup Negatives \cup {None}] /\ WritesBounded'
<1>1. IsFiniteSet(Busy) /\ Cardinality(Busy) \in Nat
  BY QueriesAssumption, FS_Subset, FS_CardinalityType DEF Busy
<1>2. Busy' \subseteq Busy BY DEF IInv, TypeOK, Busy
<1>3. Cardinality(Busy') <= Cardinality(Busy) /\ Cardinality(Busy') \in Nat
  BY <1>1, <1>2, FS_Subset, FS_CardinalityType
<1>4. Cardinality(Busy') <= Slots
  BY <1>1, <1>3, SlotsAssumption DEF IInv, WritesBounded
<1> QED BY <1>4 DEF IInv, TypeOK, WritesBounded, Busy

\* The flight after a caller joined it.
LEMMA JoinOK ==
  ASSUME TypeOK, NEW c \in Callers, JoinFlight(c)
  PROVE  flight' \in [leader: Callers, callers: SUBSET Callers] \cup {None}
<1>1. CASE flight = None BY <1>1 DEF JoinFlight, TypeOK
<1>2. CASE flight # None BY <1>2 DEF JoinFlight, TypeOK
<1> QED BY <1>1, <1>2

-----------------------------------------------------------------------------

\* The invariant holds in the initial states.
LEMMA InitInv == Init => IInv
<1> SUFFICES ASSUME Init PROVE IInv OBVIOUS
<1>1. TypeOK BY DEF Init, TypeOK, Ages, Answers, Negatives, Query, Kinds, Results
<1>2. \A x \in Queries : ToldClient(query[x])
  BY NoneAssumption DEF Init, ToldClient, Answers
<1>3. Busy = {} BY DEF Init, Busy
<1>4. WritesBounded BY <1>3, FS_EmptySet, SlotsAssumption DEF WritesBounded
<1> QED BY <1>1, <1>2, <1>4 DEF IInv

\* Every step keeps the invariant.
LEMMA StepInv == IInv /\ [Next]_vars => IInv'
<1> SUFFICES ASSUME IInv, [Next]_vars PROVE IInv' OBVIOUS
<1> USE DEF IInv
<1> DEFINE Told2 == query' \in [Queries -> Query] /\ \A y \in Queries : ToldClient(query'[y])
<1>1. CASE UNCHANGED vars
  BY <1>1 DEF vars, TypeOK, WritesBounded, Busy
<1>2. CASE AgePos
  <2>1. pos' \in [age: Ages, what: Answers] BY <1>2 DEF AgePos, TypeOK
  <2> QED BY <1>2, <2>1 DEF AgePos, TypeOK, WritesBounded, Busy
<1>3. CASE AgeNeg
  <2>1. neg' \in [age: Ages, what: Negatives] BY <1>3 DEF AgeNeg, TypeOK
  <2> QED BY <1>3, <2>1 DEF AgeNeg, TypeOK, WritesBounded, Busy
<1>4. CASE Land
  <2>1. PICK r \in Results :
          /\ query' = [x \in Queries |-> IF x \in flight.callers /\ Waiting(x)
                                           THEN [query[x] EXCEPT !.out = r] ELSE query[x]]
          /\ refresh' = IF Refresher \in flight.callers /\ Waiting(Refresher)
                           THEN [refresh EXCEPT !.out = r] ELSE refresh
    BY <1>4 DEF Land, Results
  <2>2. Told2
    <3> SUFFICES ASSUME NEW x \in Queries
                 PROVE  query'[x] \in Query /\ ToldClient(query'[x])
      BY <2>1
    <3> DEFINE q == [query[x] EXCEPT !.out = r]
    <3>1. query[x] \in Query /\ ToldClient(query[x]) BY DEF TypeOK
    <3>2. q \in Query BY <3>1 DEF Query
    <3>3. ToldClient(q) BY <3>1 DEF ToldClient, Query
    <3>4. query'[x] = q \/ query'[x] = query[x] BY <2>1
    <3> QED BY <3>1, <3>2, <3>3, <3>4
  <2>3. refresh' \in [pc: {"idle", "resolve", "wait"}, out: Results \cup {None}]
    BY <2>1 DEF TypeOK
  <2> QED BY <1>4, <2>2, <2>3 DEF Land, TypeOK, WritesBounded, Busy
<1>5. CASE Panic
  BY <1>5 DEF Panic, TypeOK, WritesBounded, Busy
<1>6. CASE RefreshResolve
  <2>1. flight' \in [leader: Callers, callers: SUBSET Callers] \cup {None}
    BY <1>6, JoinOK DEF RefreshResolve, Callers
  <2> QED BY <1>6, <2>1 DEF RefreshResolve, TypeOK, WritesBounded, Busy
<1>7. CASE \E c \in Callers : Deadline(c)
  BY <1>7 DEF Deadline, TypeOK, WritesBounded, Busy
<1>8. CASE RefreshBail
  BY <1>8 DEF RefreshBail, TypeOK, WritesBounded, Busy, Results
<1>9. CASE RefreshDone
  <2>1. pos' \in [age: Ages, what: Answers] /\ neg' \in [age: Ages, what: Negatives]
    <3>1. CASE refresh.out = "err" BY <1>9, <3>1 DEF RefreshDone, TypeOK
    <3>2. CASE refresh.out # "err"
      <4>1. refresh.out \in Answers \cup Negatives
        BY <1>9, <3>2 DEF RefreshDone, TypeOK, Results
      <4> QED BY <1>9, <3>2, <4>1, CacheOK DEF RefreshDone
    <3> QED BY <3>1, <3>2
  <2> QED BY <1>9, <2>1 DEF RefreshDone, TypeOK, WritesBounded, Busy
<1>10. ASSUME NEW x \in Queries, Refuse(x) PROVE IInv'
  <2>0. query[x] \in Query /\ ToldClient(query[x]) /\ query[x].pc = "new"
    BY <1>10 DEF Refuse, TypeOK
  <2>1. ~query[x].raced /\ query[x].pc # "done" BY <2>0 DEF ToldClient
  <2>2. Told2 BY <1>10, <2>1, DoneOK, ReplyOK DEF Refuse
  <2> QED BY <1>10, <2>2 DEF Refuse, TypeOK, WritesBounded, Busy
<1>11. ASSUME NEW x \in Queries, Accept(x) PROVE IInv'
  <2>0. query[x] \in Query /\ ToldClient(query[x]) /\ query[x].pc = "new"
    BY <1>11 DEF Accept, TypeOK
  <2>1. PICK k \in Kinds :
          query' = [query EXCEPT ![x] = [@ EXCEPT !.pc = IF k = "meta" THEN "resolve" ELSE "lookup",
                                                  !.kind = k]]
    BY <1>11 DEF Accept
  <2> DEFINE q == [query[x] EXCEPT !.pc = IF k = "meta" THEN "resolve" ELSE "lookup", !.kind = k]
  <2>2. q \in Query BY <2>0 DEF Query
  <2>3. ToldClient(q) BY <2>0 DEF ToldClient, Query
  <2>4. query' = [query EXCEPT ![x] = q] BY <2>1
  <2>5. Told2 BY <2>2, <2>3, <2>4, OneQuery
  <2> QED BY <1>11, <2>5 DEF Accept, TypeOK, WritesBounded, Busy
<1>12. ASSUME NEW x \in Queries, StaleTimer(x) PROVE IInv'
  <2>0. /\ query[x] \in Query /\ ToldClient(query[x]) /\ query[x].pc \in {"wait", "solo"}
        /\ query[x].stale # None /\ ~query[x].raced
    BY <1>12 DEF StaleTimer, TypeOK
  <2> DEFINE n == query[x].replies + 1
             q == [query[x] EXCEPT !.raced = TRUE, !.reply = query[x].stale, !.replies = n]
  <2>1. query' = [query EXCEPT ![x] = q] BY <1>12 DEF StaleTimer
  <2>2. n = 1 BY <2>0 DEF ToldClient
  <2> HIDE DEF n
  <2>3. q \in Query
    <3>1. n \in 0..2 BY <2>2
    <3>2. query[x].stale \in Results \cup {"refused", None} BY <2>0 DEF Query, Results
    <3> QED BY <2>0, <3>1, <3>2 DEF Query
  <2>4. ToldClient(q)
    <3>1. /\ q.pc = query[x].pc /\ q.reply = query[x].stale /\ q.replies = 1
          /\ q.raced /\ q.stale = query[x].stale
      BY <2>0, <2>2 DEF Query
    <3> QED BY <2>0, <3>1 DEF ToldClient, Answers
  <2>5. Told2 BY <2>1, <2>3, <2>4, OneQuery
  <2> QED BY <1>12, <2>5 DEF StaleTimer, TypeOK, WritesBounded, Busy
<1>13. ASSUME NEW x \in Queries, Hit(x) PROVE IInv'
  <2>0. query[x] \in Query /\ ToldClient(query[x]) /\ query[x].pc = "lookup"
    BY <1>13 DEF Hit, TypeOK
  <2>1. ~query[x].raced /\ query[x].pc # "done" /\ query[x].stale \notin Answers
    BY <2>0, NoneAssumption DEF ToldClient, Answers
  <2>2. pos.what \in Results /\ neg.what \in Results BY DEF TypeOK, Results
  <2>3. Told2 BY <1>13, <2>1, <2>2, ReplyOK DEF Hit
  <2>4. /\ refresh' \in [pc: {"idle", "resolve", "wait"}, out: Results \cup {None}]
        /\ expired' \subseteq Callers
    BY <1>13 DEF Hit, MaybePrefetch, TypeOK
  <2> QED BY <1>13, <2>3, <2>4 DEF Hit, TypeOK, WritesBounded, Busy
<1>14. ASSUME NEW x \in Queries, Miss(x) PROVE IInv'
  <2>0. query[x] \in Query /\ ToldClient(query[x]) /\ query[x].pc = "lookup"
    BY <1>14 DEF Miss, TypeOK
  <2> DEFINE s == IF pos.age = "stale" THEN pos.what
                  ELSE IF neg.age = "stale" THEN neg.what ELSE None
             q == [query[x] EXCEPT !.pc = "resolve", !.stale = s]
  <2>1. query' = [query EXCEPT ![x] = q] BY <1>14 DEF Miss
  <2>2. s \in Answers \cup Negatives \cup {None} BY DEF TypeOK
  <2> HIDE DEF s
  <2>3. q \in Query BY <2>0, <2>2 DEF Query
  <2>4. ToldClient(q)
    <3>1. /\ q.pc = "resolve" /\ q.reply = query[x].reply /\ q.replies = query[x].replies
          /\ q.raced = query[x].raced
      BY <2>0 DEF Query
    <3> QED BY <2>0, <3>1, NoneAssumption DEF ToldClient
  <2>5. Told2 BY <2>1, <2>3, <2>4, OneQuery
  <2> QED BY <1>14, <2>5 DEF Miss, TypeOK, WritesBounded, Busy
<1>15. ASSUME NEW x \in Queries, Resolve(x) PROVE IInv'
  <2>0. query[x] \in Query /\ ToldClient(query[x]) /\ query[x].pc = "resolve"
    BY <1>15 DEF Resolve, TypeOK
  <2>1. PICK step \in {"wait", "solo"} : query' = [query EXCEPT ![x].pc = step]
    BY <1>15 DEF Resolve, Goto
  <2> DEFINE q == [query[x] EXCEPT !.pc = step]
  <2>2. q \in Query /\ query' = [query EXCEPT ![x] = q] BY <2>0, <2>1 DEF Query
  <2>3. ToldClient(q) BY <2>0, <2>1 DEF ToldClient, Query
  <2>4. Told2 BY <2>2, <2>3, OneQuery
  <2>5. flight' \in [leader: Callers, callers: SUBSET Callers] \cup {None}
    BY <1>15, JoinOK DEF Resolve, Callers, TypeOK
  <2> QED BY <1>15, <2>4, <2>5 DEF Resolve, TypeOK, WritesBounded, Busy
<1>16. ASSUME NEW x \in Queries, Bail(x) PROVE IInv'
  <2>0. query[x] \in Query /\ ToldClient(query[x]) BY DEF TypeOK
  <2> DEFINE q == [query[x] EXCEPT !.out = "err"]
  <2>1. query' = [query EXCEPT ![x] = q] BY <1>16 DEF Bail
  <2>2. q \in Query BY <2>0 DEF Query, Results
  <2>3. ToldClient(q) BY <2>0 DEF ToldClient, Query
  <2>4. Told2 BY <2>1, <2>2, <2>3, OneQuery
  <2> QED BY <1>16, <2>4 DEF Bail, TypeOK, WritesBounded, Busy
<1>17. ASSUME NEW x \in Queries, Solo(x) PROVE IInv'
  <2>0. query[x] \in Query /\ ToldClient(query[x]) /\ query[x].pc = "solo"
    BY <1>17 DEF Solo, TypeOK
  <2>1. PICK r \in Results : query' = [query EXCEPT ![x] = [@ EXCEPT !.pc = "wait", !.out = r]]
    BY <1>17 DEF Solo, Results
  <2> DEFINE q == [query[x] EXCEPT !.pc = "wait", !.out = r]
  <2>2. q \in Query /\ query' = [query EXCEPT ![x] = q] BY <2>0, <2>1 DEF Query
  <2>3. ToldClient(q) BY <2>0 DEF ToldClient, Query
  <2>4. Told2 BY <2>2, <2>3, OneQuery
  <2> QED BY <1>17, <2>4 DEF Solo, TypeOK, WritesBounded, Busy
<1>18. ASSUME NEW x \in Queries, FinishFailed(x) PROVE IInv'
  <2>0. query[x] \in Query /\ ToldClient(query[x]) /\ query[x].pc = "wait"
    BY <1>18 DEF FinishFailed, TypeOK
  <2>1. CASE query[x].stale # None /\ Finish(x, query[x].stale) /\ UNCHANGED writer
    <3>1. query[x].stale \in Results BY <2>0, <2>1 DEF Query, Results
    <3>2. query[x].stale = "servfail" => query[x].stale \notin Answers BY DEF Answers
    <3>3. Told2 BY <2>0, <2>1, <3>1, <3>2, FinishOK
    <3> QED BY <1>18, <2>1, <3>3 DEF FinishFailed, TypeOK, WritesBounded, Busy
  <2>2. CASE query[x].stale = None /\ Finish(x, "servfail") /\ Write(x, "servfail")
    <3>1. query[x].stale \notin Answers BY <2>2, NoneAssumption DEF Answers
    <3>2. "servfail" \in Results /\ "servfail" \in Negatives BY DEF Results, Negatives
    <3>3. Told2 BY <2>0, <2>2, <3>1, <3>2, FinishOK
    <3>4. writer' \in [Queries -> Answers \cup Negatives \cup {None}] /\ WritesBounded'
      BY <2>2, <3>2, WriteOK
    <3> QED BY <1>18, <3>3, <3>4 DEF FinishFailed, TypeOK
  <2> QED BY <1>18, <2>1, <2>2 DEF FinishFailed
<1>19. ASSUME NEW x \in Queries, FinishRejected(x) PROVE IInv'
  <2>1. Told2 BY <1>19, FinishOK DEF FinishRejected
  <2> QED BY <1>19, <2>1 DEF FinishRejected, TypeOK, WritesBounded, Busy
<1>20. ASSUME NEW x \in Queries, FinishAnswered(x) PROVE IInv'
  <2>1. query[x].out \in Results /\ query[x].out # "servfail" /\ query[x].out \in Answers \cup Negatives
    BY <1>20 DEF FinishAnswered, Results, Answers, Negatives
  <2>2. Told2 BY <1>20, <2>1, FinishOK DEF FinishAnswered
  <2>3. writer' \in [Queries -> Answers \cup Negatives \cup {None}] /\ WritesBounded'
    BY <1>20, <2>1, WriteOK DEF FinishAnswered
  <2> QED BY <1>20, <2>2, <2>3 DEF FinishAnswered, TypeOK
<1>21. ASSUME NEW x \in Queries, WriteDone(x) PROVE IInv'
  <2>1. writer[x] \in Answers \cup Negatives BY <1>21 DEF WriteDone, TypeOK
  <2>2. pos' \in [age: Ages, what: Answers] /\ neg' \in [age: Ages, what: Negatives]
    BY <1>21, <2>1, CacheOK DEF WriteDone
  <2>3. writer' \in [Queries -> Answers \cup Negatives \cup {None}] /\ WritesBounded'
    BY <1>21, SlotBack DEF WriteDone
  <2> QED BY <1>21, <2>2, <2>3 DEF WriteDone, TypeOK
<1> QED
  BY <1>1, <1>2, <1>3, <1>4, <1>5, <1>6, <1>7, <1>8, <1>9, <1>10, <1>11, <1>12, <1>13, <1>14,
     <1>15, <1>16, <1>17, <1>18, <1>19, <1>20, <1>21
  DEF Next, Background, Serve, Quiet, Callers

-----------------------------------------------------------------------------

\* The invariant holds in every reachable state of the handler's query path.
THEOREM Inductive == Spec => []IInv
BY InitInv, StepInv, PTL DEF Spec

\* Every variable keeps its type, so a refresh never stores an error.
THEOREM TypeCorrect == Spec => []TypeOK
<1>1. IInv => TypeOK BY DEF IInv
<1> QED BY <1>1, Inductive, PTL

\* However many queries race their staleGrace timers against the resolution,
\* no client is answered twice (skipWrite in finishResolve).
THEOREM AtMostOneReplyHolds == Spec => []AtMostOneReply
<1>1. IInv => AtMostOneReply BY DEF IInv, AtMostOneReply, ToldClient
<1> QED BY <1>1, Inductive, PTL

\* No client is told of a failure by a query that holds a stale answer.
THEOREM StaleBeatsFailureHolds == Spec => []StaleBeatsFailure
<1>1. IInv => StaleBeatsFailure BY DEF IInv, StaleBeatsFailure, ToldClient
<1> QED BY <1>1, Inductive, PTL

\* Background cache writes never exceed cap(cacheWriteSlots), for any cap.
THEOREM WritesBoundedHolds == Spec => []WritesBounded
<1>1. IInv => WritesBounded BY DEF IInv
<1> QED BY <1>1, Inductive, PTL

\* The replies as a whole, for any number of queries and write slots: one
\* answer each, stale answers preferred to failures, writes within bounds.
THEOREM RepliesHold == Spec => []RepliesSound
<1>1. TypeOK /\ AtMostOneReply /\ StaleBeatsFailure /\ WritesBounded => RepliesSound
  BY DEF RepliesSound
<1> QED BY <1>1, TypeCorrect, AtMostOneReplyHolds, StaleBeatsFailureHolds, WritesBoundedHolds, PTL

-----------------------------------------------------------------------------
(* Client identity. The cache's bound is not inductive: Counts relates the *)
(* cache, its count and the number of queries between the two updates      *)
(* (count, clear, reset, store in policyFor).                              *)

CIStages == {"free", "lookup", "refused", "count", "clear", "zero", "store", "done"}
CIReal == CIAddrs \cup {Junk}
GroupIDs == {NoPolicy} \cup {ciGroups[i].id : i \in 1..Len(ciGroups)}
CIQuery == [st : CIStages, real : CIReal, ip : CIReal, sound : BOOLEAN, pol : GroupIDs]
CIEntry == [ip : CIAddrs, pol : GroupIDs]

CITypes ==
  /\ ciProxy \in [trusted : SUBSET CIProxies, hops : 1..2] /\ ciACL \in SUBSET CIAddrs
  /\ Len(ciGroups) \in Nat /\ \A i \in 1..Len(ciGroups) : ciGroups[i].id # NoPolicy
  /\ ciCache \in SUBSET CIEntry /\ IsFiniteSet(ciCache) /\ ciSize \in Nat
  /\ ciThread \in [CIThreads -> CIQuery]
  /\ \A t \in CIThreads : ciThread[t].st \notin {"free", "refused"} => ciThread[t].ip \in CIAddrs

(* The policy of an address, cached or on its way into the cache.          *)
Chosen == /\ \A e \in ciCache : e.pol = Scan(e.ip)
          /\ \A t \in CIThreads : ciThread[t].st \in {"count", "clear", "zero", "store", "done"} =>
               ciThread[t].pol = Scan(ciThread[t].ip)

(* How far the count may lag behind the cache.                             *)
In(st) == {t \in CIThreads : ciThread[t].st \in st}
Counts ==
  LET M == CIMaxCache
      T == Cardinality(CIThreads)
      z == Cardinality(In({"zero"}))
  IN /\ ciSize <= M + Cardinality(In({"clear", "zero"}))
     /\ In({"clear", "zero"}) = CIThreads => ciSize > M
     /\ Cardinality(ciCache) + Cardinality(In({"store"})) + M <= (IF ciSize < M THEN ciSize ELSE M) + (T - z) * (M + 1)

CIInv == CITypes /\ ClientIsReal /\ Chosen /\ Counts

Num(st) == Cardinality(In(st))

\* Multiplying out, which the bound on the policy cache needs once per step.
LEMMA Distribute == ASSUME NEW a \in Int, NEW x \in Int PROVE (a + 1) * x = a * x + x /\ a * x \in Int
OBVIOUS

\* Each thread's share of the bound holds at least the count's own share.
LEMMA AtLeastOnce == ASSUME NEW a \in Nat \ {0}, NEW m \in Nat PROVE a + m <= a * (m + 1)
<1>1. a * (m + 1) = a * m + a
  OBVIOUS
<1>2. a - 1 \in Nat /\ a * m = (a - 1) * m + m /\ (a - 1) * m \in Nat
  OBVIOUS
<1>. QED  BY <1>1, <1>2

\* What the limits and sets of threads are.
LEMMA CIConst ==
  /\ IsFiniteSet(CIThreads) /\ Cardinality(CIThreads) \in Nat \ {0} /\ CIMaxCache \in Nat \ {0} /\ CIForged \subseteq CIClients
  /\ "lookup" \notin {"free", "refused"}
BY CIAssumption, FS_CardinalityType, FS_EmptySet

\* The threads at some steps are finitely many, at most all.
LEMMA InFinite == ASSUME NEW S PROVE IsFiniteSet(In(S)) /\ Num(S) \in Nat /\ Num(S) <= Cardinality(CIThreads) /\ In(S) \subseteq CIThreads
<1>1. In(S) \in SUBSET CIThreads
  BY DEF In
<1>. QED  BY <1>1, CIConst, FS_Subset, FS_CardinalityType DEF Num

(* One query moves from a stage to another.                                *)
LEMMA ThreadMoves ==
  ASSUME CITypes, NEW t \in CIThreads, NEW n \in CIQuery, ciThread' = [ciThread EXCEPT ![t] = n], ciGroups' = ciGroups,
         n.st \notin {"free", "refused"} => n.ip \in CIAddrs
  PROVE  /\ ciThread' \in [CIThreads -> CIQuery'] /\ ciThread'[t] = n
         /\ \A u \in CIThreads : u # t => ciThread'[u] = ciThread[u]
         /\ \A u \in CIThreads : ciThread'[u].st \notin {"free", "refused"} => ciThread'[u].ip \in CIAddrs
<1>1. CIQuery' = CIQuery
  BY DEF CIQuery, GroupIDs
<1>2. ciThread' \in [CIThreads -> CIQuery] /\ ciThread'[t] = n /\ \A u \in CIThreads : u # t => ciThread'[u] = ciThread[u]
  BY DEF CITypes
<1>. QED  BY <1>1, <1>2 DEF CITypes

\* How the number of threads at some steps changes when one thread moves.
LEMMA InMoves ==
  ASSUME NEW t \in CIThreads, \A u \in CIThreads : u # t => ciThread'[u] = ciThread[u], NEW S
  PROVE  /\ ciThread[t].st \in S /\ ciThread'[t].st \notin S => In(S)' = In(S) \ {t} /\ Num(S)' = Num(S) - 1 /\ Num(S) # 0
         /\ ciThread[t].st \notin S /\ ciThread'[t].st \in S => In(S)' = In(S) \cup {t} /\ Num(S)' = Num(S) + 1
         /\ (ciThread[t].st \in S <=> ciThread'[t].st \in S) => In(S)' = In(S) /\ Num(S)' = Num(S)
<1>1. ASSUME ciThread[t].st \in S, ciThread'[t].st \notin S PROVE In(S)' = In(S) \ {t} /\ Num(S)' = Num(S) - 1 /\ Num(S) # 0
  <2>1. In(S)' = In(S) \ {t} /\ t \in In(S)
    BY <1>1 DEF In
  <2>2. Cardinality(In(S) \ {t}) = Cardinality(In(S)) - 1
    BY <2>1, InFinite, FS_RemoveElement
  <2>3. Num(S) # 0
    BY <2>1, InFinite, FS_EmptySet DEF Num
  <2>. QED  BY <2>1, <2>2, <2>3 DEF Num
<1>2. ASSUME ciThread[t].st \notin S, ciThread'[t].st \in S PROVE In(S)' = In(S) \cup {t} /\ Num(S)' = Num(S) + 1
  <2>1. In(S)' = In(S) \cup {t} /\ t \notin In(S)
    BY <1>2 DEF In
  <2>2. Cardinality(In(S) \cup {t}) = Cardinality(In(S)) + 1
    BY <2>1, InFinite, FS_AddElement
  <2>. QED  BY <2>1, <2>2 DEF Num
<1>3. ASSUME ciThread[t].st \in S <=> ciThread'[t].st \in S PROVE In(S)' = In(S) /\ Num(S)' = Num(S)
  BY <1>3 DEF In, Num
<1>. QED  BY <1>1, <1>2, <1>3

\* A step away from the cache and its count leaves their relation alone.
LEMMA CountsStay ==
  ASSUME CIInv, NEW t \in CIThreads, \A u \in CIThreads : u # t => ciThread'[u] = ciThread[u],
         ciThread[t].st \notin {"clear", "zero", "store"}, ciThread'[t].st \notin {"clear", "zero", "store"},
         UNCHANGED <<ciSize, ciCache>>
  PROVE  Counts'
<1>1. In({"clear", "zero"})' = In({"clear", "zero"}) /\ In({"zero"})' = In({"zero"}) /\ In({"store"})' = In({"store"})
  BY InMoves
<1>. QED  BY <1>1 DEF CIInv, Counts

(* The groups and the settings stay, and with them what Scan finds.        *)
LEMMA ScanStays == ASSUME ciGroups' = ciGroups, NEW ip PROVE Scan(ip)' = Scan(ip)
BY DEF Scan

(* The first of the groups an address is in exists.                        *)
LEMMA FirstGroup == ASSUME Len(ciGroups) \in Nat, NEW H \in SUBSET (1..Len(ciGroups)), H # {} PROVE \E i \in H : \A j \in H : i <= j
<1>1. H \subseteq Nat
  OBVIOUS
<1>2. PICK i \in H : \A j \in H : ~(<<j, i>> \in OpToRel(<, Nat))
  BY <1>1, NatLessThanWellFounded, WFMin
<1>3. \A j \in H : ~(j < i)
  BY <1>1, <1>2 DEF OpToRel
<1>. QED  BY <1>1, <1>3

\* policyFor's scan of the groups answers with a group or with no policy.
LEMMA ScanTyped == ASSUME CITypes, NEW ip PROVE Scan(ip) \in GroupIDs
<1>. DEFINE H == {i \in 1..Len(ciGroups) : InGroup(ciGroups[i], ip)}
            k == CHOOSE i \in H : \A j \in H : i <= j
<1>1. Scan(ip) = IF H = {} THEN NoPolicy ELSE ciGroups[k].id
  BY DEF Scan
<1>2. H # {} => k \in H
  BY FirstGroup DEF CITypes
<1>. HIDE DEF k
<1>. QED  BY <1>1, <1>2 DEF GroupIDs

\* The invariant holds in the initial states.
LEMMA CIInitial == CIInit => CIInv
<1>. SUFFICES ASSUME CIInit PROVE CIInv
  OBVIOUS
<1>1. ciThread = [t \in CIThreads |-> Free] /\ ciCache = {} /\ ciSize = 0
  BY DEF CIInit
<1>2. Free \in CIQuery /\ Free.st = "free"
  BY DEF Free, CIQuery, CIStages, CIReal, GroupIDs
<1>3. CITypes
  <2>1. Len(ciGroups) \in Nat /\ \A i \in 1..Len(ciGroups) : ciGroups[i].id # NoPolicy
    BY CIGroupsNamed DEF CIInit
  <2>2. ciProxy \in [trusted : SUBSET CIProxies, hops : 1..2] /\ ciACL \in SUBSET CIAddrs
    BY DEF CIInit, CIAddrs
  <2>. QED  BY <1>1, <1>2, <2>1, <2>2, FS_EmptySet DEF CITypes
<1>4. ClientIsReal /\ Chosen
  BY <1>1, <1>2 DEF ClientIsReal, Chosen
<1>5. Counts
  <2>1. In({"clear", "zero"}) = {} /\ In({"zero"}) = {} /\ In({"store"}) = {}
    BY <1>1, <1>2 DEF In
  <2>2. Cardinality(In({"clear", "zero"})) = 0 /\ Cardinality(In({"zero"})) = 0 /\ Cardinality(In({"store"})) = 0
        /\ Cardinality(ciCache) = 0
    BY <1>1, <2>1, FS_EmptySet
  <2>3. In({"clear", "zero"}) # CIThreads
    BY <2>1, CIConst, FS_EmptySet
  <2>. DEFINE T == Cardinality(CIThreads)
              M == CIMaxCache
  <2>4. T + M <= T * (M + 1) /\ T \in Nat \ {0} /\ M \in Nat \ {0} /\ T * (M + 1) \in Int
    BY CIConst, AtLeastOnce
  <2>5. (IF ciSize < M THEN ciSize ELSE M) = 0 /\ ciSize <= M + 0 /\ T - 0 = T
    BY <1>1, <2>4
  <2>. HIDE DEF T, M
  <2>6. 0 + 0 + M <= 0 + T * (M + 1)
    BY <2>4
  <2>. QED  BY <2>2, <2>3, <2>5, <2>6 DEF Counts, T, M
<1>. QED  BY <1>3, <1>4, <1>5 DEF CIInv

Forgeable == {<<>>} \cup {<<a>> : a \in CIForged \cup {Junk}}
Routes == {<<>>} \cup {<<p>> : p \in CIProxies} \cup {<<p, q>> : p, q \in CIProxies}

\* The sequences a forwarding header of up to three addresses becomes.
LEMMA Joined ==
  ASSUME NEW a, NEW b, NEW c
  PROVE  <<>> \o <<a>> = <<a>> /\ <<a>> \o <<b>> = <<a, b>> /\ <<a, b>> \o <<c>> = <<a, b, c>>
<1>. DEFINE S == {a, b, c}
            x == <<a>>
            y == <<b>>
            z == <<c>>
            xy == <<a, b>>
            n == <<>>
<1>1. /\ x \in Seq(S) /\ Len(x) = 1 /\ x[1] = a
      /\ y \in Seq(S) /\ Len(y) = 1 /\ y[1] = b
      /\ z \in Seq(S) /\ Len(z) = 1 /\ z[1] = c
      /\ n \in Seq(S) /\ Len(n) = 0
  OBVIOUS
<1>2. xy \in Seq(S) /\ Len(xy) = 2 /\ xy[1] = a /\ xy[2] = b
  OBVIOUS
<1>3. <<a, b, c>> \in Seq(S) /\ Len(<<a, b, c>>) = 3 /\ <<a, b, c>>[1] = a /\ <<a, b, c>>[2] = b /\ <<a, b, c>>[3] = c
  OBVIOUS
<1>4. n \o x = x
  BY <1>1, ConcatEmptySeq
<1>. HIDE DEF S, x, y, z, xy, n
<1>5. x \o y = xy
  <2>. DEFINE s == x \o y
  <2>1. s \in Seq(S) /\ Len(s) = 2 /\ s[1] = a /\ s[2] = b
    BY <1>1, ConcatProperties
  <2>. HIDE DEF s
  <2>2. \A i \in 1..Len(s) : i = 1 \/ i = 2
    BY <2>1
  <2>3. s = xy
    BY <1>2, <2>1, <2>2, SeqEqual
  <2>. QED  BY <2>3 DEF s
<1>6. xy \o z = <<a, b, c>>
  <2>. DEFINE s == xy \o z
              t == <<a, b, c>>
  <2>1. s \in Seq(S) /\ Len(s) = 3 /\ s[1] = a /\ s[2] = b /\ s[3] = c
    BY <1>1, <1>2, ConcatProperties, SMTT(30)
  <2>2. t \in Seq(S) /\ Len(t) = 3 /\ t[1] = a /\ t[2] = b /\ t[3] = c
    BY <1>3
  <2>. HIDE DEF s, t
  <2>3. \A i \in 1..Len(s) : i = 1 \/ i = 2 \/ i = 3
    BY <2>1
  <2>4. s = t
    BY <2>1, <2>2, <2>3, SeqEqual
  <2>. QED  BY <2>4 DEF s, t
<1>. QED  BY <1>4, <1>5, <1>6 DEF x, y, z, xy, n

Entry(xff, hops) == xff[ForwardedIndex(Len(xff), hops)]

(* What the header holds at the place the hop limit points to.             *)
LEMMA Forwarded ==
  ASSUME NEW real \in CIClients, NEW forged \in Forgeable, NEW proxies \in Routes, proxies # <<>>, NEW hops \in 1..2
  PROVE  LET xff == Path(real, forged, proxies)
         IN /\ xff # <<>> /\ Entry(xff, hops) \in CIAddrs \cup {Junk} /\ Peer(real, proxies) \in CIProxies
            /\ hops <= Len(proxies) => Entry(xff, hops) \in CIProxies \cup {IF hops = Len(proxies) THEN real ELSE Junk}
<1>. PICK xff, e : xff = Path(real, forged, proxies) /\ e = xff[ForwardedIndex(Len(xff), hops)]
  OBVIOUS
<1>. SUFFICES /\ xff # <<>> /\ e \in CIAddrs \cup {Junk} /\ Peer(real, proxies) \in CIProxies
              /\ hops <= Len(proxies) => e \in CIProxies \cup {IF hops = Len(proxies) THEN real ELSE Junk}
  BY Zenon DEF Entry
<1>0. CIForged \subseteq CIClients /\ CIAddrs = CIClients \cup CIProxies
  BY CIConst DEF CIAddrs
<1>1. ASSUME NEW p \in CIProxies, proxies = <<p>>
      PROVE  Len(proxies) = 1 /\ Peer(real, proxies) = p /\ xff = forged \o <<real>>
  <2>1. Len(proxies) = 1 /\ proxies[1] = p /\ SubSeq(proxies, 1, 1 - 1) = <<>>
    BY <1>1
  <2>2. <<real>> \o <<>> = <<real>> /\ forged \o <<real>> \o <<>> = forged \o <<real>>
    BY DEF Forgeable
  <2>. QED  BY <2>1, <2>2 DEF Peer, Path
<1>2. ASSUME NEW p \in CIProxies, NEW q \in CIProxies, proxies = <<p, q>>
      PROVE  Len(proxies) = 2 /\ Peer(real, proxies) = q /\ xff = forged \o <<real>> \o <<p>>
  <2>1. Len(proxies) = 2 /\ proxies[2] = q /\ proxies[1] = p /\ 2 - 1 = 1 /\ proxies \in Seq(CIProxies)
    BY <1>2
  <2>. DEFINE s == SubSeq(proxies, 1, 1)
  <2>2. s \in Seq(CIProxies) /\ Len(s) = 1 /\ s[1] = p
    BY <2>1
  <2>3. s = <<p>>
    <3>. HIDE DEF s
    <3>. QED  BY <2>2
  <2>4. xff = forged \o <<real>> \o SubSeq(proxies, 1, Len(proxies) - 1) /\ Peer(real, proxies) = proxies[Len(proxies)]
    BY DEF Peer, Path
  <2>5. xff = forged \o <<real>> \o s
    BY <2>1, <2>4
  <2>. HIDE DEF s
  <2>6. Peer(real, proxies) = q
    BY <2>1, <2>4
  <2>. QED  BY <2>1, <2>3, <2>5, <2>6
<1>3. ASSUME NEW p \in CIProxies, proxies = <<p>>, forged = <<>> PROVE xff = <<real>>
  BY <1>1, <1>3
<1>4. ASSUME NEW p \in CIProxies, NEW a, proxies = <<p>>, forged = <<a>> PROVE xff = <<a, real>>
  BY <1>1, <1>4
<1>5. ASSUME NEW p \in CIProxies, NEW q \in CIProxies, proxies = <<p, q>>, forged = <<>> PROVE xff = <<real, p>>
  <2>1. xff = <<>> \o <<real>> \o <<p>>
    BY <1>2, <1>5
  <2>2. <<>> \o <<real>> = <<real>> /\ <<real>> \o <<p>> = <<real, p>>
    BY Joined, Zenon
  <2>. QED  BY <2>1, <2>2
<1>6. ASSUME NEW p \in CIProxies, NEW q \in CIProxies, NEW a, proxies = <<p, q>>, forged = <<a>> PROVE xff = <<a, real, p>>
  <2>1. xff = <<a>> \o <<real>> \o <<p>>
    BY <1>2, <1>6
  <2>2. <<a>> \o <<real>> = <<a, real>> /\ <<a, real>> \o <<p>> = <<a, real, p>>
    BY Joined, Zenon
  <2>. QED  BY <2>1, <2>2
<1>7. CASE \E p \in CIProxies : proxies = <<p>>
  <2>1. PICK p \in CIProxies : proxies = <<p>>
    BY <1>7
  <2>2. CASE forged = <<>>
    <3>1. xff = <<real>> /\ Len(xff) = 1 /\ Len(proxies) = 1 /\ Peer(real, proxies) = p
      BY <1>1, <1>3, <2>1, <2>2
    <3>2. ForwardedIndex(1, hops) = 1
      BY DEF ForwardedIndex
    <3>3. e = real
      BY <3>1, <3>2
    <3>. QED  BY <1>0, <3>1, <3>3
  <2>3. CASE forged # <<>>
    <3>0. PICK a \in CIForged \cup {Junk} : forged = <<a>>
      BY <2>3 DEF Forgeable
    <3>1. xff = <<a, real>> /\ Len(xff) = 2 /\ Len(proxies) = 1 /\ Peer(real, proxies) = p
      BY <1>1, <1>4, <2>1, <3>0
    <3>2. (hops = 1 /\ ForwardedIndex(2, hops) = 2) \/ (hops = 2 /\ ForwardedIndex(2, hops) = 1)
      BY DEF ForwardedIndex
    <3>3. (hops = 1 /\ e = real) \/ (hops = 2 /\ e = a)
      BY <3>1, <3>2
    <3>. QED  BY <1>0, <3>1, <3>3
  <2>. QED  BY <2>2, <2>3
<1>8. CASE \E p, q \in CIProxies : proxies = <<p, q>>
  <2>1. PICK p, q \in CIProxies : proxies = <<p, q>>
    BY <1>8
  <2>2. CASE forged = <<>>
    <3>1. xff = <<real, p>> /\ Len(xff) = 2 /\ Len(proxies) = 2 /\ Peer(real, proxies) = q
      <4>1. Len(proxies) = 2 /\ Peer(real, proxies) = q
        BY <1>2, <2>1
      <4>2. xff = <<real, p>>
        BY <1>5, <2>1, <2>2
      <4>. QED  BY <4>1, <4>2
    <3>2. (hops = 1 /\ ForwardedIndex(2, hops) = 2) \/ (hops = 2 /\ ForwardedIndex(2, hops) = 1)
      BY DEF ForwardedIndex
    <3>3. (hops = 1 /\ e = p) \/ (hops = 2 /\ e = real)
      BY <3>1, <3>2
    <3>. QED  BY <1>0, <3>1, <3>3
  <2>3. CASE forged # <<>>
    <3>0. PICK a \in CIForged \cup {Junk} : forged = <<a>>
      BY <2>3 DEF Forgeable
    <3>1. xff = <<a, real, p>> /\ Len(xff) = 3 /\ Len(proxies) = 2 /\ Peer(real, proxies) = q
      <4>1. Len(proxies) = 2 /\ Peer(real, proxies) = q
        BY <1>2, <2>1
      <4>2. xff = <<a, real, p>>
        BY <1>6, <2>1, <3>0
      <4>. QED  BY <4>1, <4>2
    <3>2. (hops = 1 /\ ForwardedIndex(3, hops) = 3) \/ (hops = 2 /\ ForwardedIndex(3, hops) = 2)
      BY DEF ForwardedIndex
    <3>3. (hops = 1 /\ e = p) \/ (hops = 2 /\ e = real)
      BY <3>1, <3>2
    <3>. QED  BY <1>0, <3>1, <3>3
  <2>. QED  BY <2>2, <2>3
<1>. QED  BY <1>7, <1>8 DEF Routes

(* The address a request is attributed to.                                 *)
LEMMA Attributed ==
  ASSUME CITypes, NEW real \in CIClients, NEW forged \in Forgeable, NEW proxies \in Routes, NEW ip,
         ip = ClientIPFromRequest(Peer(real, proxies), Path(real, forged, proxies))
  PROVE  /\ ip \in CIAddrs
         /\ Sound(real, proxies) =>
              ip \in CIProxies \cup {IF proxies = <<>> \/ ciProxy.hops = Len(proxies) THEN real ELSE Junk}
<1>1. CASE proxies = <<>>
  <2>1. Peer(real, proxies) = real /\ Path(real, forged, proxies) = forged
    BY <1>1 DEF Peer, Path
  <2>2. Sound(real, proxies) => ip = real
    BY <1>1, <2>1 DEF Sound, ClientIPFromRequest
  <2>3. ip \in CIAddrs
    <3>. DEFINE e == forged[ForwardedIndex(Len(forged), ciProxy.hops)]
    <3>1. CASE forged = <<>>
      BY <2>1, <3>1 DEF ClientIPFromRequest, CIAddrs
    <3>2. CASE forged # <<>>
      <4>1. PICK a \in CIForged \cup {Junk} : forged = <<a>>
        BY <3>2 DEF Forgeable
      <4>2. Len(forged) = 1 /\ ciProxy.hops \in 1..2
        BY <4>1 DEF CITypes
      <4>3. ForwardedIndex(1, ciProxy.hops) = 1
        BY <4>2 DEF ForwardedIndex
      <4>4. e = a
        BY <4>1, <4>2, <4>3
      <4>5. ip = real \/ (ip = e /\ e # Junk)
        BY <2>1 DEF ClientIPFromRequest
      <4>. QED  BY <4>4, <4>5, CIConst DEF CIAddrs
    <3>. QED  BY <3>1, <3>2
  <2>. QED  BY <1>1, <2>2, <2>3
<1>2. CASE proxies # <<>>
  <2>. DEFINE xff == Path(real, forged, proxies)
              hops == ciProxy.hops
              peer == Peer(real, proxies)
  <2>1. hops \in 1..2
    BY DEF CITypes
  <2>. PICK h : h = hops
    OBVIOUS
  <2>2. ip = IF xff # <<>> /\ IsTrustedProxy(peer) THEN IF Entry(xff, h) = Junk THEN peer ELSE Entry(xff, h) ELSE peer
    BY DEF ClientIPFromRequest, Entry
  <2>3. Sound(real, proxies) => h <= Len(proxies)
    BY <1>2 DEF Sound
  <2>. HIDE DEF hops
  <2>4. /\ xff # <<>> /\ Entry(xff, h) \in CIAddrs \cup {Junk} /\ peer \in CIProxies
        /\ h <= Len(proxies) => Entry(xff, h) \in CIProxies \cup {IF h = Len(proxies) THEN real ELSE Junk}
    BY <1>2, <2>1, Forwarded
  <2>. HIDE DEF xff, peer
  <2>5. ip \in CIAddrs
    BY <2>2, <2>4 DEF CIAddrs
  <2>6. Sound(real, proxies) => ip \in CIProxies \cup {IF h = Len(proxies) THEN real ELSE Junk}
    BY <2>2, <2>3, <2>4
  <2>. QED  BY <1>2, <2>5, <2>6 DEF hops
<1>. QED  BY <1>1, <1>2

(* Steps that touch neither the groups nor the cache and its count.        *)
LEMMA Moved ==
  ASSUME CIInv, NEW t \in CIThreads, NEW n \in CIQuery, ciThread' = [ciThread EXCEPT ![t] = n],
         n.st \notin {"free", "refused"} => n.ip \in CIAddrs,
         n.st \in {"lookup", "refused"} /\ n.sound => n.ip \in CIProxies \cup {n.real},
         n.st \in {"count", "clear", "zero", "store", "done"} => n.pol = Scan(n.ip),
         ciThread[t].st \notin {"clear", "zero", "store"}, n.st \notin {"clear", "zero", "store"},
         UNCHANGED <<ciProxy, ciACL, ciGroups, ciCache, ciSize>>
  PROVE  CIInv'
<1>1. /\ ciThread' \in [CIThreads -> CIQuery'] /\ ciThread'[t] = n
      /\ \A u \in CIThreads : u # t => ciThread'[u] = ciThread[u]
      /\ \A u \in CIThreads : ciThread'[u].st \notin {"free", "refused"} => ciThread'[u].ip \in CIAddrs
  BY ThreadMoves, Zenon DEF CIInv
<1>2. CITypes'
  BY <1>1 DEF CIInv, CITypes, CIEntry, GroupIDs
<1>3. ClientIsReal'
  BY <1>1 DEF CIInv, ClientIsReal
<1>4. Chosen'
  BY <1>1, ScanStays DEF CIInv, Chosen
<1>5. Counts'
  BY <1>1, CountsStay, Zenon
<1>. QED  BY <1>2, <1>3, <1>4, <1>5 DEF CIInv

\* A DoH or DNS query arrives: clientAddr takes an address the peer vouches
\* for, or the client's own.
LEMMA ArriveKeeps ==
  ASSUME CIInv, NEW t \in CIThreads, NEW real \in CIClients, NEW forged \in Forgeable, NEW proxies \in Routes,
         Arrive(t, real, forged, proxies)
  PROVE  CIInv'
<1>. DEFINE addr == ClientIPFromRequest(Peer(real, proxies), Path(real, forged, proxies))
            n == [st |-> IF Allowed(addr) THEN "lookup" ELSE "refused",
                  real |-> IF proxies = <<>> \/ ciProxy.hops = Len(proxies) THEN real ELSE Junk,
                  ip |-> addr, sound |-> Sound(real, proxies), pol |-> NoPolicy]
<1>1. /\ ciThread' = [ciThread EXCEPT ![t] = n] /\ ciThread[t].st = "free"
      /\ UNCHANGED <<ciProxy, ciACL, ciGroups, ciCache, ciSize>>
  BY Zenon DEF Arrive
<1>2. /\ addr \in CIAddrs
      /\ Sound(real, proxies) =>
           addr \in CIProxies \cup {IF proxies = <<>> \/ ciProxy.hops = Len(proxies) THEN real ELSE Junk}
  <2>. PICK ip : ip = addr
    OBVIOUS
  <2>0. CITypes
    BY DEF CIInv
  <2>1. /\ ip \in CIAddrs
        /\ Sound(real, proxies) =>
             ip \in CIProxies \cup {IF proxies = <<>> \/ ciProxy.hops = Len(proxies) THEN real ELSE Junk}
    BY <2>0, Attributed
  <2>. QED  BY <2>1
<1>3. Sound(real, proxies) \in BOOLEAN
  BY DEF Sound, IsTrustedProxy
<1>4. PICK ip, s, r : /\ ip = addr /\ s = Sound(real, proxies)
                      /\ r = IF proxies = <<>> \/ ciProxy.hops = Len(proxies) THEN real ELSE Junk
  OBVIOUS
<1>. HIDE DEF addr
<1>5. PICK g : g = n
  OBVIOUS
<1>6. g = [st |-> IF Allowed(addr) THEN "lookup" ELSE "refused", real |-> r, ip |-> ip, sound |-> s, pol |-> NoPolicy]
  BY <1>4, <1>5
<1>7. ip \in CIAddrs /\ s \in BOOLEAN /\ r \in CIReal /\ (s => ip \in CIProxies \cup {r})
  BY <1>2, <1>3, <1>4 DEF CIReal, CIAddrs
<1>. HIDE DEF n
<1>8. g \in CIQuery /\ g.st \in {"lookup", "refused"} /\ g.ip = ip /\ g.sound = s /\ g.real = r
  BY <1>6, <1>7 DEF CIQuery, CIStages, CIReal, GroupIDs
<1>. QED  BY <1>1, <1>5, <1>7, <1>8, Moved

\* A DoQ query arrives: its address is the connection's.
LEMMA ArriveDoQKeeps ==
  ASSUME CIInv, NEW t \in CIThreads, NEW real \in CIClients, ArriveDoQ(t, real) PROVE CIInv'
<1>. DEFINE n == [st |-> IF Allowed(real) THEN "lookup" ELSE "refused", real |-> real, ip |-> real, sound |-> TRUE, pol |-> NoPolicy]
<1>1. /\ ciThread' = [ciThread EXCEPT ![t] = n] /\ ciThread[t].st = "free"
      /\ UNCHANGED <<ciProxy, ciACL, ciGroups, ciCache, ciSize>>
  BY Zenon DEF ArriveDoQ
<1>2. PICK g : g = n
  OBVIOUS
<1>3. g \in CIQuery /\ g.st \in {"lookup", "refused"} /\ g.ip = real /\ g.real = real
  BY <1>2 DEF CIQuery, CIStages, CIReal, GroupIDs, CIAddrs
<1>. HIDE DEF n
<1>. QED  BY <1>1, <1>2, <1>3, Moved DEF CIAddrs

\* What a query looks like once policyFor has routed it.
LEMMA RoutedIs ==
  ASSUME CIInv, NEW t \in CIThreads, ciThread[t].st \notin {"free", "refused"}, NEW st \in CIStages, NEW pol \in GroupIDs
  PROVE  Routed(t, st, pol) \in CIQuery /\ Routed(t, st, pol).st = st /\ Routed(t, st, pol).ip = ciThread[t].ip
         /\ Routed(t, st, pol).pol = pol /\ Routed(t, st, pol).ip \in CIAddrs
<1>. PICK a : a = ciThread[t].ip
  OBVIOUS
<1>1. a \in CIAddrs
  BY DEF CIInv, CITypes
<1>. DEFINE f == [Free EXCEPT !.st = st]
            g == [f EXCEPT !.ip = a]
            h == [g EXCEPT !.pol = pol]
<1>0. Free \in CIQuery
  BY DEF Free, CIQuery, CIStages, CIReal, GroupIDs
<1>2. f \in CIQuery /\ f.st = st
  BY <1>0 DEF CIQuery
<1>. HIDE DEF f
<1>3. g \in CIQuery /\ g.st = st /\ g.ip = a
  BY <1>1, <1>2 DEF CIQuery, CIReal
<1>. HIDE DEF g
<1>4. h \in CIQuery /\ h.st = st /\ h.ip = a /\ h.pol = pol
  BY <1>3 DEF CIQuery
<1>5. Routed(t, st, pol) = h
  BY DEF Routed, f, g, h
<1>. QED  BY <1>1, <1>4, <1>5

\* policyFor finds the address in the cache.
LEMMA HitKeeps == ASSUME CIInv, NEW t \in CIThreads, ResolveHit(t) PROVE CIInv'
<1>1. PICK e \in ciCache : e.ip = ciThread[t].ip /\ ciThread' = [ciThread EXCEPT ![t] = Routed(t, "done", e.pol)]
  BY DEF ResolveHit
<1>2. ciThread[t].st = "lookup" /\ UNCHANGED <<ciProxy, ciACL, ciGroups, ciCache, ciSize>>
  BY DEF ResolveHit
<1>3. e.pol \in GroupIDs /\ e.pol = Scan(e.ip)
  BY DEF CIInv, CITypes, CIEntry, Chosen
<1>4. PICK g : g = Routed(t, "done", e.pol)
  OBVIOUS
<1>5. g \in CIQuery /\ g.st = "done" /\ g.ip = e.ip /\ g.pol = e.pol /\ g.ip \in CIAddrs
  BY <1>1, <1>2, <1>3, <1>4, RoutedIs DEF CIStages
<1>6. g.pol = Scan(g.ip)
  BY <1>3, <1>5
<1>. QED  BY <1>1, <1>2, <1>4, <1>5, <1>6, Moved

\* policyFor scans the groups after a miss.
LEMMA ScanKeeps == ASSUME CIInv, NEW t \in CIThreads, ResolveScan(t) PROVE CIInv'
<1>1. /\ ciThread' = [ciThread EXCEPT ![t] = Routed(t, "count", Scan(ciThread[t].ip))]
      /\ ciThread[t].st = "lookup" /\ UNCHANGED <<ciProxy, ciACL, ciGroups, ciCache, ciSize>>
  BY DEF ResolveScan
<1>2. PICK a, q : a = ciThread[t].ip /\ q = Scan(a)
  OBVIOUS
<1>3. q \in GroupIDs
  BY <1>2, ScanTyped DEF CIInv
<1>4. PICK g : g = Routed(t, "count", q)
  OBVIOUS
<1>5. g \in CIQuery /\ g.st = "count" /\ g.ip = a /\ g.pol = q /\ g.ip \in CIAddrs
  BY <1>1, <1>2, <1>3, <1>4, RoutedIs DEF CIStages
<1>. QED  BY <1>1, <1>2, <1>4, <1>5, Moved

\* The query is answered and its thread is free again.
LEMMA AnswerKeeps == ASSUME CIInv, NEW t \in CIThreads, Answer(t) PROVE CIInv'
<1>1. /\ ciThread' = [ciThread EXCEPT ![t] = Free]
      /\ ciThread[t].st \in {"done", "refused"} /\ UNCHANGED <<ciProxy, ciACL, ciGroups, ciCache, ciSize>>
  BY DEF Answer
<1>2. PICK g : g = Free
  OBVIOUS
<1>3. g \in CIQuery /\ g.st = "free"
  BY <1>2 DEF Free, CIQuery, CIStages, CIReal, GroupIDs
<1>. QED  BY <1>1, <1>2, <1>3, Moved

(* Steps between the stages of a miss.                                     *)
LEMMA Restaged ==
  ASSUME CIInv, NEW t \in CIThreads, ciThread[t].st \in {"count", "clear", "zero", "store"},
         NEW s \in {"clear", "zero", "store", "done"}, ciThread' = [ciThread EXCEPT ![t].st = s],
         UNCHANGED <<ciProxy, ciACL, ciGroups>>
  PROVE  /\ ciThread' \in [CIThreads -> CIQuery'] /\ ciThread'[t].st = s
         /\ \A u \in CIThreads : u # t => ciThread'[u] = ciThread[u]
         /\ \A u \in CIThreads : ciThread'[u].st \notin {"free", "refused"} => ciThread'[u].ip \in CIAddrs
         /\ ClientIsReal'
         /\ \A u \in CIThreads : ciThread'[u].st \in {"count", "clear", "zero", "store", "done"} =>
              ciThread'[u].pol = Scan(ciThread[u].ip)'
<1>1. PICK o, g : o = ciThread[t] /\ g = [o EXCEPT !.st = s]
  OBVIOUS
<1>2. o \in CIQuery /\ o.ip \in CIAddrs /\ o.pol = Scan(o.ip)
  BY <1>1 DEF CIInv, CITypes, Chosen
<1>3. g \in CIQuery /\ g.st = s /\ g.ip = o.ip /\ g.pol = o.pol
  BY <1>1, <1>2 DEF CIQuery, CIStages
<1>4. ciThread' = [ciThread EXCEPT ![t] = g]
  BY <1>1 DEF CIInv, CITypes
<1>5. /\ ciThread' \in [CIThreads -> CIQuery'] /\ ciThread'[t] = g
      /\ \A u \in CIThreads : u # t => ciThread'[u] = ciThread[u]
      /\ \A u \in CIThreads : ciThread'[u].st \notin {"free", "refused"} => ciThread'[u].ip \in CIAddrs
  BY <1>2, <1>3, <1>4, ThreadMoves DEF CIInv
<1>6. ClientIsReal'
  BY <1>3, <1>5 DEF CIInv, ClientIsReal
<1>7. \A u \in CIThreads : ciThread'[u].st \in {"count", "clear", "zero", "store", "done"} =>
        ciThread'[u].pol = Scan(ciThread[u].ip)'
  <2>. TAKE u \in CIThreads
  <2>1. PICK q : q = ciThread'[u]
    OBVIOUS
  <2>2. q.st \in {"count", "clear", "zero", "store", "done"} => q.pol = Scan(q.ip)
    BY <1>2, <1>3, <1>5, <2>1 DEF CIInv, Chosen
  <2>3. Scan(q.ip)' = Scan(q.ip)
    BY ScanStays
  <2>. QED  BY <2>1, <2>2, <2>3
<1>. QED  BY <1>3, <1>5, <1>6, <1>7

(* The counts of the stages, of the threads and of the cache.              *)
LEMMA Numbers ==
  ASSUME CIInv
  PROVE  /\ Num({"zero"}) \in Nat /\ Num({"store"}) \in Nat /\ Num({"clear", "zero"}) \in Nat
         /\ Num({"zero"}) <= Cardinality(CIThreads)
         /\ Cardinality(ciCache) \in Nat /\ ciSize \in Nat /\ CIMaxCache \in Nat \ {0} /\ Cardinality(CIThreads) \in Nat \ {0}
         /\ ciSize <= CIMaxCache + Num({"clear", "zero"})
         /\ In({"clear", "zero"}) = CIThreads => ciSize > CIMaxCache
         /\ Cardinality(ciCache) + Num({"store"}) + CIMaxCache <=
              (IF ciSize < CIMaxCache THEN ciSize ELSE CIMaxCache) + (Cardinality(CIThreads) - Num({"zero"})) * (CIMaxCache + 1)
<1>1. CITypes /\ Counts
  BY DEF CIInv
<1>2. Cardinality(ciCache) \in Nat /\ ciSize \in Nat
  BY <1>1, FS_CardinalityType DEF CITypes
<1>3. /\ Num({"zero"}) \in Nat /\ Num({"store"}) \in Nat /\ Num({"clear", "zero"}) \in Nat
      /\ Num({"zero"}) <= Cardinality(CIThreads)
  BY InFinite
<1>. QED  BY <1>1, <1>2, <1>3, CIConst DEF Counts, Num

\* policyFor counts its entry before it stores it, and may find the cache full.
LEMMA CountKeeps == ASSUME CIInv, NEW t \in CIThreads, ResolveCount(t) PROVE CIInv'
<1>1. PICK s : s = IF ciSize + 1 > CIMaxCache THEN "clear" ELSE "store"
  OBVIOUS
<1>2. /\ ciThread[t].st = "count" /\ ciSize' = ciSize + 1
      /\ ciThread' = [ciThread EXCEPT ![t].st = s] /\ UNCHANGED <<ciProxy, ciACL, ciGroups, ciCache>>
  BY <1>1 DEF ResolveCount
<1>3. s \in {"clear", "store"}
  BY <1>1
<1>4. /\ ciThread' \in [CIThreads -> CIQuery'] /\ ciThread'[t].st = s
      /\ \A u \in CIThreads : u # t => ciThread'[u] = ciThread[u]
      /\ \A u \in CIThreads : ciThread'[u].st \notin {"free", "refused"} => ciThread'[u].ip \in CIAddrs
      /\ ClientIsReal'
      /\ \A u \in CIThreads : ciThread'[u].st \in {"count", "clear", "zero", "store", "done"} =>
           ciThread'[u].pol = Scan(ciThread[u].ip)'
  BY <1>2, <1>3, Restaged
<1>n. /\ Num({"zero"}) \in Nat /\ Num({"store"}) \in Nat /\ Num({"clear", "zero"}) \in Nat
      /\ Num({"zero"}) <= Cardinality(CIThreads)
      /\ Cardinality(ciCache) \in Nat /\ ciSize \in Nat /\ CIMaxCache \in Nat \ {0} /\ Cardinality(CIThreads) \in Nat \ {0}
      /\ ciSize <= CIMaxCache + Num({"clear", "zero"})
      /\ Cardinality(ciCache) + Num({"store"}) + CIMaxCache <=
           (IF ciSize < CIMaxCache THEN ciSize ELSE CIMaxCache) + (Cardinality(CIThreads) - Num({"zero"})) * (CIMaxCache + 1)
  BY Numbers
<1>5. CITypes'
  BY <1>2, <1>4 DEF CIInv, CITypes, CIEntry, GroupIDs
<1>6. Chosen'
  BY <1>2, <1>4, ScanStays DEF CIInv, Chosen
<1>7. Counts'
  <2>1. Num({"zero"})' = Num({"zero"})
    BY <1>2, <1>3, <1>4, InMoves
  <2>. DEFINE P == (Cardinality(CIThreads) - Num({"zero"})) * (CIMaxCache + 1)
  <2>2. P \in Int
    BY <1>n, Distribute
  <2>3. CASE s = "clear"
    <3>1. Num({"store"})' = Num({"store"}) /\ Num({"clear", "zero"})' = Num({"clear", "zero"}) + 1
      BY <1>2, <1>4, <2>3, InMoves
    <3>2. ciSize + 1 > CIMaxCache
      BY <1>1, <2>3
    <3>3. ciSize' <= CIMaxCache + Num({"clear", "zero"})' /\ ciSize' > CIMaxCache
      BY <1>2, <1>n, <3>1, <3>2
    <3>4. Cardinality(ciCache) + Num({"store"}) + CIMaxCache <= CIMaxCache + P
      <4>. HIDE DEF P
      <4>1. Cardinality(ciCache) + Num({"store"}) + CIMaxCache <= (IF ciSize < CIMaxCache THEN ciSize ELSE CIMaxCache) + P
        BY <1>n DEF P
      <4>. QED  BY <1>n, <2>2, <4>1
    <3>5. (IF ciSize' < CIMaxCache THEN ciSize' ELSE CIMaxCache) = CIMaxCache
      BY <1>2, <1>n, <3>2
    <3>. QED  BY <1>2, <2>1, <3>1, <3>3, <3>4, <3>5 DEF Counts, Num, P
  <2>4. CASE s = "store"
    <3>1. Num({"store"})' = Num({"store"}) + 1 /\ Num({"clear", "zero"})' = Num({"clear", "zero"})
      BY <1>2, <1>4, <2>4, InMoves
    <3>2. ~(ciSize + 1 > CIMaxCache)
      BY <1>1, <2>4
    <3>3. ciSize' <= CIMaxCache + Num({"clear", "zero"})'
      BY <1>2, <1>n, <3>1, <3>2
    <3>4. Cardinality(ciCache) + (Num({"store"}) + 1) + CIMaxCache <= ciSize + 1 + P
      <4>. HIDE DEF P
      <4>1. Cardinality(ciCache) + Num({"store"}) + CIMaxCache <= (IF ciSize < CIMaxCache THEN ciSize ELSE CIMaxCache) + P
        BY <1>n DEF P
      <4>. QED  BY <1>n, <2>2, <3>2, <4>1
    <3>5. (IF ciSize' < CIMaxCache THEN ciSize' ELSE CIMaxCache) = ciSize + 1
      BY <1>2, <1>n, <3>2
    <3>6. In({"clear", "zero"})' # CIThreads
      BY <1>4, <2>4 DEF In
    <3>. QED  BY <1>2, <2>1, <3>1, <3>3, <3>4, <3>5, <3>6 DEF Counts, Num, P
  <2>. QED  BY <1>3, <2>3, <2>4
<1>. QED  BY <1>4, <1>5, <1>6, <1>7 DEF CIInv

\* policyFor empties the full cache; the count is reset only by the next step.
LEMMA ClearKeeps == ASSUME CIInv, NEW t \in CIThreads, ResolveClear(t) PROVE CIInv'
<1>1. /\ ciThread[t].st = "clear" /\ ciCache' = {}
      /\ ciThread' = [ciThread EXCEPT ![t].st = "zero"] /\ UNCHANGED <<ciProxy, ciACL, ciGroups, ciSize>>
  BY DEF ResolveClear
<1>2. /\ ciThread' \in [CIThreads -> CIQuery'] /\ ciThread'[t].st = "zero"
      /\ \A u \in CIThreads : u # t => ciThread'[u] = ciThread[u]
      /\ \A u \in CIThreads : ciThread'[u].st \notin {"free", "refused"} => ciThread'[u].ip \in CIAddrs
      /\ ClientIsReal'
      /\ \A u \in CIThreads : ciThread'[u].st \in {"count", "clear", "zero", "store", "done"} =>
           ciThread'[u].pol = Scan(ciThread[u].ip)'
  BY <1>1, Restaged
<1>n. /\ Num({"zero"}) \in Nat /\ Num({"store"}) \in Nat
      /\ ciSize \in Nat /\ CIMaxCache \in Nat \ {0} /\ Cardinality(CIThreads) \in Nat \ {0}
      /\ ciSize <= CIMaxCache + Num({"clear", "zero"})
      /\ In({"clear", "zero"}) = CIThreads => ciSize > CIMaxCache
  BY Numbers
<1>3. CITypes'
  BY <1>1, <1>2, FS_EmptySet DEF CIInv, CITypes, CIEntry, GroupIDs
<1>4. Chosen'
  BY <1>1, <1>2 DEF Chosen
<1>5. Counts'
  <2>1. /\ Num({"zero"})' = Num({"zero"}) + 1 /\ In({"zero"})' = In({"zero"}) \cup {t} /\ Num({"store"})' = Num({"store"})
        /\ In({"store"})' = In({"store"}) /\ In({"clear", "zero"})' = In({"clear", "zero"})
        /\ Num({"clear", "zero"})' = Num({"clear", "zero"})
    BY <1>1, <1>2, InMoves
  <2>. DEFINE Z == In({"zero"}) \cup {t}
              S == In({"store"})
  <2>2. /\ Z \subseteq CIThreads /\ S \subseteq CIThreads \ Z /\ IsFiniteSet(Z) /\ IsFiniteSet(S)
        /\ Cardinality(Z) = Num({"zero"}) + 1 /\ Cardinality(S) = Num({"store"})
    <3>1. Z \subseteq CIThreads /\ S \subseteq CIThreads \ Z
      BY <1>1 DEF In
    <3>2. IsFiniteSet(In({"zero"})) /\ IsFiniteSet(S) /\ t \notin In({"zero"})
      BY <1>1, InFinite DEF In
    <3>. QED  BY <3>1, <3>2, FS_AddElement DEF Num
  <2>. HIDE DEF Z, S
  <2>3. /\ IsFiniteSet(CIThreads \ Z)
        /\ Cardinality(CIThreads \ Z) = Cardinality(CIThreads) - (Num({"zero"}) + 1)
        /\ Cardinality(CIThreads \ Z) \in Nat
    <3>1. IsFiniteSet(CIThreads \ Z) /\ CIThreads \cap Z = Z
      BY <2>2, CIConst, FS_Difference
    <3>2. Cardinality(CIThreads \ Z) = Cardinality(CIThreads) - Cardinality(CIThreads \cap Z)
      BY CIConst, FS_Difference
    <3>3. Cardinality(CIThreads \ Z) \in Nat
      BY <3>1, FS_CardinalityType
    <3>4. Cardinality(CIThreads \cap Z) = Num({"zero"}) + 1
      BY <2>2, <3>1
    <3>. QED  BY <3>1, <3>2, <3>3, <3>4
  <2>4. Num({"store"}) <= Cardinality(CIThreads \ Z)
    BY <2>2, <2>3, FS_Subset
  <2>5. PICK x : x = Cardinality(CIThreads) - (Num({"zero"}) + 1)
    OBVIOUS
  <2>6. x \in Nat /\ Num({"store"}) <= x
    BY <2>3, <2>4, <2>5
  <2>7. Num({"store"}) + CIMaxCache <= (IF ciSize < CIMaxCache THEN ciSize ELSE CIMaxCache) + x * (CIMaxCache + 1)
    <3>1. CASE x = 0
      <4>1. CIThreads \ Z = {}
        BY <2>3, <2>5, <3>1, FS_EmptySet
      <4>2. In({"clear", "zero"}) = CIThreads
        BY <1>1, <4>1 DEF In, Z
      <4>3. ciSize > CIMaxCache /\ Num({"store"}) = 0
        BY <1>n, <2>6, <3>1, <4>2
      <4>4. 0 * (CIMaxCache + 1) = 0
        BY <1>n
      <4>. QED  BY <1>n, <3>1, <4>3, <4>4
    <3>2. CASE x # 0
      <4>1. x + CIMaxCache <= x * (CIMaxCache + 1)
        BY <1>n, <2>6, <3>2, AtLeastOnce
      <4>. DEFINE P == x * (CIMaxCache + 1)
      <4>2. P \in Int
        BY <1>n, <2>6, Distribute
      <4>. HIDE DEF P
      <4>3. x + CIMaxCache <= P
        BY <4>1 DEF P
      <4>4. Num({"store"}) + CIMaxCache <= (IF ciSize < CIMaxCache THEN ciSize ELSE CIMaxCache) + P
        BY <1>n, <2>6, <4>2, <4>3
      <4>. QED  BY <4>4 DEF P
    <3>. QED  BY <3>1, <3>2
  <2>8. Cardinality(ciCache)' = 0
    BY <1>1, FS_EmptySet
  <2>9. 0 + Num({"store"}) + CIMaxCache = Num({"store"}) + CIMaxCache
    BY <1>n
  <2>. QED  BY <1>1, <1>n, <2>1, <2>5, <2>7, <2>8, <2>9 DEF Counts, Num
<1>. QED  BY <1>2, <1>3, <1>4, <1>5 DEF CIInv

\* policyFor resets the count, after the cache was emptied.
LEMMA ZeroKeeps == ASSUME CIInv, NEW t \in CIThreads, ResolveZero(t) PROVE CIInv'
<1>1. /\ ciThread[t].st = "zero" /\ ciSize' = 0
      /\ ciThread' = [ciThread EXCEPT ![t].st = "store"] /\ UNCHANGED <<ciProxy, ciACL, ciGroups, ciCache>>
  BY DEF ResolveZero
<1>2. /\ ciThread' \in [CIThreads -> CIQuery'] /\ ciThread'[t].st = "store"
      /\ \A u \in CIThreads : u # t => ciThread'[u] = ciThread[u]
      /\ \A u \in CIThreads : ciThread'[u].st \notin {"free", "refused"} => ciThread'[u].ip \in CIAddrs
      /\ ClientIsReal'
      /\ \A u \in CIThreads : ciThread'[u].st \in {"count", "clear", "zero", "store", "done"} =>
           ciThread'[u].pol = Scan(ciThread[u].ip)'
  BY <1>1, Restaged
<1>n. /\ Num({"zero"}) \in Nat /\ Num({"store"}) \in Nat /\ Num({"clear", "zero"}) \in Nat
      /\ Num({"zero"}) <= Cardinality(CIThreads)
      /\ Cardinality(ciCache) \in Nat /\ ciSize \in Nat /\ CIMaxCache \in Nat \ {0} /\ Cardinality(CIThreads) \in Nat \ {0}
      /\ Cardinality(ciCache) + Num({"store"}) + CIMaxCache <=
           (IF ciSize < CIMaxCache THEN ciSize ELSE CIMaxCache) + (Cardinality(CIThreads) - Num({"zero"})) * (CIMaxCache + 1)
  BY Numbers
<1>3. CITypes'
  BY <1>1, <1>2 DEF CIInv, CITypes, CIEntry, GroupIDs
<1>4. Chosen'
  BY <1>1, <1>2, ScanStays DEF CIInv, Chosen
<1>5. Counts'
  <2>1. /\ Num({"zero"})' = Num({"zero"}) - 1 /\ Num({"store"})' = Num({"store"}) + 1
        /\ Num({"clear", "zero"})' = Num({"clear", "zero"}) - 1 /\ Num({"clear", "zero"}) # 0
    BY <1>1, <1>2, InMoves
  <2>2. In({"clear", "zero"})' # CIThreads
    BY <1>2 DEF In
  <2>3. ciSize' <= CIMaxCache + Num({"clear", "zero"})'
    BY <1>1, <1>n, <2>1
  <2>4. PICK a, b : a = Cardinality(CIThreads) - Num({"zero"}) /\ b = Cardinality(CIThreads) - (Num({"zero"}) - 1)
    OBVIOUS
  <2>5. a \in Nat /\ b = a + 1
    BY <1>n, <2>4
  <2>6. b * (CIMaxCache + 1) = a * (CIMaxCache + 1) + (CIMaxCache + 1) /\ a * (CIMaxCache + 1) \in Int
    BY <1>n, <2>5, Distribute
  <2>. DEFINE P == a * (CIMaxCache + 1)
              Q == b * (CIMaxCache + 1)
  <2>7. Cardinality(ciCache) + Num({"store"}) + CIMaxCache <= (IF ciSize < CIMaxCache THEN ciSize ELSE CIMaxCache) + P
    BY <1>n, <2>4
  <2>8. Q = P + (CIMaxCache + 1) /\ P \in Int
    BY <2>6
  <2>. HIDE DEF P, Q
  <2>9. Cardinality(ciCache) + (Num({"store"}) + 1) + CIMaxCache <= 0 + Q
    BY <1>n, <2>7, <2>8
  <2>10. (IF ciSize' < CIMaxCache THEN ciSize' ELSE CIMaxCache) = 0
    BY <1>1, <1>n
  <2>. QED  BY <1>1, <2>1, <2>2, <2>3, <2>4, <2>9, <2>10 DEF Counts, Num, Q
<1>. QED  BY <1>2, <1>3, <1>4, <1>5 DEF CIInv

\* policyFor stores its entry, whoever emptied the cache in between.
LEMMA StoreKeeps == ASSUME CIInv, NEW t \in CIThreads, ResolveStore(t) PROVE CIInv'
<1>. PICK o : o = ciThread[t]
  OBVIOUS
<1>. DEFINE entry == [ip |-> o.ip, pol |-> o.pol]
            kept == {e \in ciCache : e.ip # o.ip}
<1>1. /\ ciThread[t].st = "store" /\ ciCache' = kept \cup {entry}
      /\ ciThread' = [ciThread EXCEPT ![t].st = "done"] /\ UNCHANGED <<ciProxy, ciACL, ciGroups, ciSize>>
  BY DEF ResolveStore
<1>2. /\ ciThread' \in [CIThreads -> CIQuery'] /\ ciThread'[t].st = "done"
      /\ \A u \in CIThreads : u # t => ciThread'[u] = ciThread[u]
      /\ \A u \in CIThreads : ciThread'[u].st \notin {"free", "refused"} => ciThread'[u].ip \in CIAddrs
      /\ ClientIsReal'
      /\ \A u \in CIThreads : ciThread'[u].st \in {"count", "clear", "zero", "store", "done"} =>
           ciThread'[u].pol = Scan(ciThread[u].ip)'
  BY <1>1, Restaged
<1>n. /\ Num({"zero"}) \in Nat /\ Num({"store"}) \in Nat /\ Num({"clear", "zero"}) \in Nat
      /\ Num({"zero"}) <= Cardinality(CIThreads)
      /\ Cardinality(ciCache) \in Nat /\ ciSize \in Nat /\ CIMaxCache \in Nat \ {0} /\ Cardinality(CIThreads) \in Nat \ {0}
      /\ ciSize <= CIMaxCache + Num({"clear", "zero"})
      /\ Cardinality(ciCache) + Num({"store"}) + CIMaxCache <=
           (IF ciSize < CIMaxCache THEN ciSize ELSE CIMaxCache) + (Cardinality(CIThreads) - Num({"zero"})) * (CIMaxCache + 1)
  BY Numbers
<1>3. o \in CIQuery /\ o.ip \in CIAddrs /\ o.pol = Scan(o.ip) /\ o.pol \in GroupIDs
  BY <1>1 DEF CIInv, CITypes, Chosen, CIQuery
<1>4. entry \in CIEntry /\ entry.ip = o.ip /\ entry.pol = o.pol
  BY <1>3 DEF CIEntry
<1>. HIDE DEF entry
<1>5. /\ ciCache' \in SUBSET CIEntry /\ IsFiniteSet(ciCache') /\ Cardinality(ciCache') <= Cardinality(ciCache) + 1
      /\ Cardinality(ciCache') \in Nat
  <2>1. kept \subseteq ciCache /\ IsFiniteSet(ciCache) /\ ciCache \subseteq CIEntry
    BY DEF CIInv, CITypes
  <2>2. IsFiniteSet(kept) /\ Cardinality(kept) <= Cardinality(ciCache) /\ Cardinality(kept) \in Nat
    BY <2>1, FS_Subset, FS_CardinalityType
  <2>3. /\ IsFiniteSet(kept \cup {entry})
        /\ Cardinality(kept \cup {entry}) = Cardinality(kept) \/ Cardinality(kept \cup {entry}) = Cardinality(kept) + 1
    BY <2>2, FS_AddElement
  <2>. QED  BY <1>1, <1>4, <1>n, <2>1, <2>2, <2>3
<1>6. CITypes'
  BY <1>1, <1>2, <1>5 DEF CIInv, CITypes, CIEntry, GroupIDs
<1>7. Chosen'
  <2>1. \A e \in ciCache' : e.pol = Scan(e.ip)
    BY <1>1, <1>3, <1>4 DEF CIInv, Chosen
  <2>2. \A e \in ciCache' : Scan(e.ip)' = Scan(e.ip)
    BY <1>1, ScanStays
  <2>3. \A e \in ciCache' : e.pol = Scan(e.ip)'
    BY <2>1, <2>2
  <2>. QED  BY <1>2, <2>3 DEF Chosen
<1>8. Counts'
  <2>1. /\ Num({"zero"})' = Num({"zero"}) /\ Num({"store"})' = Num({"store"}) - 1
        /\ Num({"clear", "zero"})' = Num({"clear", "zero"}) /\ Num({"store"}) # 0
    BY <1>1, <1>2, InMoves
  <2>2. In({"clear", "zero"})' # CIThreads
    BY <1>2 DEF In
  <2>. DEFINE P == (Cardinality(CIThreads) - Num({"zero"})) * (CIMaxCache + 1)
  <2>3. P \in Int
    BY <1>n, Distribute
  <2>4. Cardinality(ciCache) + Num({"store"}) + CIMaxCache <= (IF ciSize < CIMaxCache THEN ciSize ELSE CIMaxCache) + P
    BY <1>n
  <2>. HIDE DEF P
  <2>5. Cardinality(ciCache') + (Num({"store"}) - 1) + CIMaxCache <= (IF ciSize < CIMaxCache THEN ciSize ELSE CIMaxCache) + P
    BY <1>n, <1>5, <2>3, <2>4
  <2>. QED  BY <1>1, <1>n, <2>1, <2>2, <2>5 DEF Counts, Num, P
<1>. QED  BY <1>2, <1>6, <1>7, <1>8 DEF CIInv

\* Every step keeps the invariant.
LEMMA CIStep == CIInv /\ [CINext]_CIVars => CIInv'
<1>. SUFFICES ASSUME CIInv, [CINext]_CIVars PROVE CIInv'
  OBVIOUS
<1>1. CASE Requests
  <2>1. PICK t \in CIThreads, real \in CIClients, forged \in Forgeable, proxies \in Routes : Arrive(t, real, forged, proxies)
    BY <1>1 DEF Requests, Forgeable, Routes
  <2>. QED  BY <2>1, ArriveKeeps
<1>2. CASE \E t \in CIThreads : \E real \in CIClients : ArriveDoQ(t, real)
  BY <1>2, ArriveDoQKeeps
<1>3. CASE \E t \in CIThreads : ResolveHit(t)
  BY <1>3, HitKeeps
<1>4. CASE \E t \in CIThreads : ResolveScan(t)
  BY <1>4, ScanKeeps
<1>5. CASE \E t \in CIThreads : ResolveCount(t)
  BY <1>5, CountKeeps
<1>6. CASE \E t \in CIThreads : ResolveClear(t)
  BY <1>6, ClearKeeps
<1>7. CASE \E t \in CIThreads : ResolveZero(t)
  BY <1>7, ZeroKeeps
<1>8. CASE \E t \in CIThreads : ResolveStore(t)
  BY <1>8, StoreKeeps
<1>9. CASE \E t \in CIThreads : Answer(t)
  BY <1>9, AnswerKeeps
<1>10. CASE UNCHANGED CIVars
  <2>1. ciProxy' = ciProxy /\ ciACL' = ciACL /\ ciGroups' = ciGroups /\ ciCache' = ciCache /\ ciSize' = ciSize /\ ciThread' = ciThread
    BY <1>10 DEF CIVars
  <2>2. CITypes'
    BY <2>1 DEF CIInv, CITypes, CIQuery, CIEntry, GroupIDs
  <2>3. ClientIsReal'
    BY <2>1 DEF CIInv, ClientIsReal
  <2>4. Chosen'
    BY <2>1, ScanStays DEF CIInv, Chosen
  <2>5. Counts'
    BY <2>1 DEF CIInv, Counts, In
  <2>. QED  BY <2>2, <2>3, <2>4, <2>5 DEF CIInv
<1>. QED  BY <1>1, <1>2, <1>3, <1>4, <1>5, <1>6, <1>7, <1>8, <1>9, <1>10 DEF CINext

\* A policy found by scanning is the first matching group's.
LEMMA FirstWins == CIInv => FirstGroupWins
<1>. SUFFICES ASSUME CIInv, NEW t \in CIThreads, ciThread[t].st = "done"
              PROVE  LET ip == ciThread[t].ip
                         mine == {i \in 1..Len(ciGroups) : ciGroups[i].id = ciThread[t].pol}
                     IN IF mine = {} THEN \A i \in 1..Len(ciGroups) : ~InGroup(ciGroups[i], ip)
                        ELSE \E i \in mine : InGroup(ciGroups[i], ip) /\ \A j \in 1..(i - 1) : ~InGroup(ciGroups[j], ip)
  BY DEF FirstGroupWins
<1>. DEFINE ip == ciThread[t].ip
            pol == ciThread[t].pol
            H == {i \in 1..Len(ciGroups) : InGroup(ciGroups[i], ip)}
            k == CHOOSE i \in H : \A j \in H : i <= j
            mine == {i \in 1..Len(ciGroups) : ciGroups[i].id = pol}
<1>1. pol = IF H = {} THEN NoPolicy ELSE ciGroups[k].id
  BY DEF CIInv, Chosen, Scan
<1>2. Len(ciGroups) \in Nat /\ \A i \in 1..Len(ciGroups) : ciGroups[i].id # NoPolicy
  BY DEF CIInv, CITypes
<1>3. H # {} => k \in H /\ \A j \in H : k <= j
  BY <1>2, FirstGroup
<1>. HIDE DEF k
<1>4. CASE H = {}
  <2>1. mine = {}
    BY <1>1, <1>2, <1>4
  <2>. QED  BY <1>4, <2>1
<1>5. CASE H # {}
  <2>1. k \in mine /\ InGroup(ciGroups[k], ip)
    BY <1>1, <1>3, <1>5
  <2>2. \A j \in 1..(k - 1) : ~InGroup(ciGroups[j], ip)
    BY <1>2, <1>3, <1>5
  <2>. QED  BY <2>1, <2>2
<1>. QED  BY <1>4, <1>5

\* The invariant gives what the component promises.
LEMMA CIImplies == CIInv => IdentitySound
<1>. SUFFICES ASSUME CIInv PROVE IdentitySound
  OBVIOUS
<1>n. /\ Num({"zero"}) \in Nat /\ Num({"store"}) \in Nat /\ Num({"clear", "zero"}) \in Nat
      /\ Num({"zero"}) <= Cardinality(CIThreads)
      /\ Cardinality(ciCache) \in Nat /\ ciSize \in Nat /\ CIMaxCache \in Nat \ {0} /\ Cardinality(CIThreads) \in Nat \ {0}
      /\ ciSize <= CIMaxCache + Num({"clear", "zero"})
      /\ Cardinality(ciCache) + Num({"store"}) + CIMaxCache <=
           (IF ciSize < CIMaxCache THEN ciSize ELSE CIMaxCache) + (Cardinality(CIThreads) - Num({"zero"})) * (CIMaxCache + 1)
  BY Numbers
<1>1. CITypeOK
  <2>1. ciSize \in 0..(CIMaxCache + Cardinality(CIThreads))
    BY <1>n, InFinite
  <2>2. ciCache \subseteq [ip : CIAddrs, pol : {NoPolicy} \cup {ciGroups[i].id : i \in 1..Len(ciGroups)}]
    BY DEF CIInv, CITypes, CIEntry, GroupIDs
  <2>3. \A t \in CIThreads : ciThread[t].ip \in CIAddrs \cup {Junk}
    BY DEF CIInv, CITypes, CIQuery, CIReal
  <2>. QED  BY <2>1, <2>2, <2>3 DEF CITypeOK
<1>2. PolicyCacheBounded
  <2>1. PICK a, T, z : a = T - z /\ T = Cardinality(CIThreads) /\ z = Num({"zero"})
    OBVIOUS
  <2>2. /\ z * (CIMaxCache + 1) \in Int /\ a * (CIMaxCache + 1) \in Int /\ T * (CIMaxCache + 1) \in Int
        /\ z * (CIMaxCache + 1) >= 0 /\ a * (CIMaxCache + 1) + z * (CIMaxCache + 1) = T * (CIMaxCache + 1)
    BY <1>n, <2>1
  <2>. DEFINE A == a * (CIMaxCache + 1)
              Q == T * (CIMaxCache + 1)
  <2>3. A \in Int /\ Q \in Int /\ A <= Q
    BY <2>2
  <2>4. Cardinality(ciCache) + Num({"store"}) + CIMaxCache <= (IF ciSize < CIMaxCache THEN ciSize ELSE CIMaxCache) + A
    BY <1>n, <2>1
  <2>. HIDE DEF A, Q
  <2>5. Cardinality(ciCache) <= Q
    BY <1>n, <2>3, <2>4
  <2>. QED  BY <2>1, <2>5 DEF PolicyCacheBounded, Q
<1>. QED  BY <1>1, <1>2, FirstWins DEF IdentitySound, CIInv

\* For any number of threads, any groups and any size of the cache: the
\* address a query is decided by is vouched for, its policy is that of the
\* first group it matches, and the cache is bounded although its count is
\* reset apart from it (clientAddr, policyFor).
THEOREM IdentityHolds == CISpec => []IdentitySound
BY CIInitial, CIStep, CIImplies, PTL DEF CISpec

-----------------------------------------------------------------------------
(* Forwarding. An upstream's share is computed in integers: EvenShare is   *)
(* what makes the shares add up.                                           *)

(* What an even share leaves for the others.                               *)
LEMMA EvenShare ==
  ASSUME NEW a \in Nat, NEW l \in Nat, NEW q \in Nat, l > 0, a >= l * q
  PROVE  /\ a \div l \in Nat
         /\ a \div l >= q
         /\ a - (a \div l) >= (l - 1) * q
         /\ l > 1 /\ a \div l > 0 => a - (a \div l) > 0
<1>. DEFINE s == a \div l
<1>1. s \in Int /\ l * s <= a /\ a < l * s + l
  OBVIOUS
<1>2. s \in Nat
  <2>. SUFFICES ASSUME s <= -1 PROVE FALSE
    BY <1>1
  <2>1. l * s <= l * (-1)
    BY <1>1
  <2>. QED  BY <2>1, <1>1
<1>3. s >= q
  <2>. SUFFICES ASSUME s <= q - 1 PROVE FALSE
    BY <1>1
  <2>1. l * s <= l * (q - 1)
    BY <1>1
  <2>2. l * (q - 1) = l * q - l
    OBVIOUS
  <2>. QED  BY <2>1, <2>2, <1>1
<1>4. a - s >= (l - 1) * q
  <2>1. a - s >= (l - 1) * s
    <3>1. l * s - s = (l - 1) * s
      BY <1>2
    <3>. QED  BY <1>1, <1>2, <3>1
  <2>2. (l - 1) * s >= (l - 1) * q
    BY <1>2, <1>3
  <2>. QED  BY <1>2, <2>1, <2>2
<1>5. l > 1 /\ s > 0 => a - s > 0
  <2>. SUFFICES ASSUME l > 1, s > 0 PROVE a - s > 0
    OBVIOUS
  <2>1. l * s >= 2 * s
    BY <1>2
  <2>. QED  BY <2>1, <1>1, <1>2
<1>. QED  BY <1>2, <1>3, <1>4, <1>5

(* A sublist names each of its members once.                               *)
LEMMA SublistCount ==
  ASSUME NEW s \in Sublists
  PROVE  /\ s \in Seq(Ups) /\ Members(s) \subseteq Ups /\ DOMAIN s = 1..Len(s) /\ Len(s) \in 0..FWUps
         /\ IsFiniteSet(Members(s)) /\ Cardinality(Members(s)) = Len(s)
         /\ \A i, j \in 1..Len(s) : i /= j => s[i] /= s[j]
<1>1. PICK n \in 0..FWUps : s \in [1..n -> Ups]
  BY DEF Sublists
<1>2. s \in Seq(Ups) /\ Len(s) = n /\ n \in Nat
  BY <1>1, FWAssumption
<1>3. \A i, j \in 1..n : i /= j => s[i] /= s[j]
  <2>1. ASSUME NEW i \in 1..n, NEW j \in 1..n, i < j PROVE s[i] < s[j]
    BY <1>1, <2>1 DEF Sublists
  <2>. QED  BY <1>1, <2>1 DEF Ups
<1>4. s \in Bijection(1..n, Members(s))
  BY <1>1, <1>3 DEF Bijection, Injection, Surjection, IsInjective, Members
<1>5. IsFiniteSet(Members(s)) /\ Cardinality(Members(s)) = n
  BY <1>2, <1>4, FS_CountingElements, FS_NatBijection DEF ExistsBijection
<1>. QED  BY <1>1, <1>2, <1>3, <1>5 DEF Members

(* The even part of the whole budget.                                      *)
Even == FWBudget \div Len(fwUps)

FWTypes ==
  /\ fwMode \in {"race", "sequential"} /\ fwUps \in Sublists
  /\ fwNow \in 0..FWBudget /\ fwSeq \in 0..Len(fwUps)
  /\ fwGot \in [Ups -> Outcomes \cup {"-"}] /\ fwGiven \in [Ups -> 0..FWBudget]
  /\ fwRun \subseteq Listed /\ fwChan \in Seq(Ups \X Outcomes) /\ fwTaken \in Nat
  /\ fwOut \in {"idle", "pending", "refused", "answer", "servfail", "error", "crash"}

(* Before and after a query nothing of another one is left.                *)
FWIdle ==
  /\ fwOut = "idle" => fwUps = <<>> /\ fwNow = 0 /\ fwSeq = 0 /\ fwRun = {} /\ fwChan = <<>> /\ fwTaken = 0
  /\ fwOut \in {"pending", "servfail", "error"} => fwUps /= <<>>

(* A sequence: what has been tried failed and had its share, and the time  *)
(* left is the even share of each of those to come, at least.              *)
FWSequence ==
  Sequential =>
    /\ fwRun = {} /\ fwChan = <<>> /\ fwTaken = 0
    /\ fwOut = "pending" => FWBudget - fwNow >= Left * Even
    /\ fwOut \in {"servfail", "error"} => fwSeq = Len(fwUps)
    /\ fwOut \in {"pending", "servfail", "error"} =>
         \A i \in 1..fwSeq : fwGiven[fwUps[i]] >= Even /\ fwGot[fwUps[i]] \in Failures \cup {"servfail"}
    /\ fwOut = "error" => \A i \in 1..fwSeq : fwGot[fwUps[i]] \in Failures
    /\ fwOut = "servfail" => \E i \in 1..fwSeq : fwGot[fwUps[i]] = "servfail"

(* A race: every goroutine runs, or has its result in the channel, or had  *)
(* it taken; while the collector waits what it has taken are failures.     *)
FWRace ==
  ~Sequential =>
    /\ fwTaken + Len(fwChan) + Cardinality(fwRun) = Len(fwUps)
    /\ \A i \in 1..Len(fwChan) : fwChan[i][1] \in Listed \ fwRun /\ fwChan[i][2] = fwGot[fwChan[i][1]]
    /\ fwOut = "pending" =>
         /\ fwTaken < Len(fwUps)
         /\ \A u \in Listed : \/ u \in fwRun \/ fwGot[u] \in Failures
                              \/ \E i \in 1..Len(fwChan) : fwChan[i][1] = u
    /\ fwOut = "error" => fwRun = {} /\ \A u \in Listed : fwGot[u] \in Failures
    /\ fwOut = "servfail" => \E u \in Listed \ fwRun : fwGot[u] = "servfail"

FWInv == FWTypes /\ FWIdle /\ FWSequence /\ FWRace

\* No upstream at all is a list of them.
LEMMA NoneListed == <<>> \in Sublists /\ Members(<<>>) = {} /\ Len(<<>>) = 0
<1>1. <<>> \in [1..0 -> Ups] /\ DOMAIN <<>> = {}
  OBVIOUS
<1>. QED  BY <1>1, FWAssumption DEF Sublists, Members

\* The invariant holds in the initial states.
LEMMA FWInitial == FWInit => FWInv
<1>. SUFFICES ASSUME FWInit PROVE FWInv
  OBVIOUS
<1>1. Cardinality(fwRun) = 0
  BY FS_EmptySet DEF FWInit
<1>2. FWTypes
  BY NoneListed, FWAssumption DEF FWInit, FWTypes, Listed
<1>. QED  BY <1>1, <1>2, NoneListed DEF FWInit, FWInv, FWIdle, FWSequence, FWRace, Sequential

(* The members asked, and how many run.                                    *)
LEMMA FWListed ==
  ASSUME FWTypes
  PROVE  /\ fwUps \in Seq(Ups) /\ Len(fwUps) \in Nat /\ Listed \subseteq Ups /\ Listed = {fwUps[i] : i \in 1..Len(fwUps)}
         /\ \A i \in 1..Len(fwUps) : fwUps[i] \in Listed
         /\ Cardinality(Listed) = Len(fwUps) /\ Len(fwUps) <= FWUps
         /\ IsFiniteSet(fwRun) /\ Cardinality(fwRun) \in Nat
         /\ \A i, j \in 1..Len(fwUps) : i /= j => fwUps[i] /= fwUps[j]
         /\ Len(fwChan) \in Nat
<1>1. fwUps \in Sublists /\ fwRun \subseteq Members(fwUps) /\ fwChan \in Seq(Ups \X Outcomes)
  BY DEF FWTypes, Listed
<1>2. /\ fwUps \in Seq(Ups) /\ Members(fwUps) \subseteq Ups /\ DOMAIN fwUps = 1..Len(fwUps) /\ Len(fwUps) \in 0..FWUps
      /\ IsFiniteSet(Members(fwUps)) /\ Cardinality(Members(fwUps)) = Len(fwUps)
      /\ \A i, j \in 1..Len(fwUps) : i /= j => fwUps[i] /= fwUps[j]
  BY <1>1, SublistCount
<1>3. IsFiniteSet(fwRun) /\ Cardinality(fwRun) \in Nat
  BY <1>1, <1>2, FS_Subset, FS_CardinalityType
<1>4. Listed = {fwUps[i] : i \in 1..Len(fwUps)}
  BY <1>2 DEF Listed, Members
<1>5. Len(fwChan) \in Nat /\ Len(fwUps) \in Nat /\ Len(fwUps) <= FWUps
  BY <1>1, <1>2, FWAssumption
<1>. QED  BY <1>2, <1>3, <1>4, <1>5 DEF Listed

\* queryUpstreams picks the upstreams and the strategy.
LEMMA FWQuery ==
  ASSUME FWInv, NEW avail \in Sublists, QueryUpstreams(avail)
  PROVE  FWInv'
<1>1. /\ avail \in Seq(Ups) /\ Members(avail) \subseteq Ups /\ DOMAIN avail = 1..Len(avail) /\ Len(avail) \in 0..FWUps
      /\ IsFiniteSet(Members(avail)) /\ Cardinality(Members(avail)) = Len(avail)
  BY SublistCount
<1>2. /\ fwUps' = avail /\ Listed' = Members(avail) /\ fwOut' \in {"refused", "pending"}
      /\ fwSeq' = 0 /\ fwNow' = 0 /\ fwChan' = <<>> /\ fwTaken' = 0
      /\ fwOut' = "pending" <=> avail /= <<>>
  BY DEF QueryUpstreams, Listed, FWInv, FWIdle
<1>3. fwRun' \subseteq Members(avail)
  BY DEF QueryUpstreams
<1>4. FWTypes'
  BY <1>1, <1>2, <1>3, FWAssumption DEF QueryUpstreams, FWInv, FWTypes
<1>5. Len(avail) \in Nat /\ (avail /= <<>> => Len(avail) > 0)
  BY <1>1, FWAssumption
<1>6. FWRace'
  BY <1>1, <1>2, <1>5 DEF QueryUpstreams, FWInv, FWTypes, FWRace, Sequential
<1>7. FWSequence'
  <2>1. Left' = Len(avail)
    BY <1>2, <1>5 DEF Left
  <2>2. avail /= <<>> => FWBudget >= Len(avail) * (FWBudget \div Len(avail))
    BY <1>5, FWAssumption
  <2>. QED  BY <1>2, <2>1, <2>2, FWAssumption DEF QueryUpstreams, FWInv, FWSequence, Sequential, Even, FWIdle
<1>8. FWIdle'
  BY <1>2 DEF FWIdle
<1>. QED  BY <1>4, <1>6, <1>7, <1>8 DEF FWInv

\* The share of the time left that the next upstream of a sequence gets
\* (sequentialUpstreams) is at least the even one, and leaves the others theirs.
LEMMA FWShare ==
  ASSUME FWInv, fwOut = "pending", Sequential, Left > 0
  PROVE  /\ Share \in 1..(FWBudget - fwNow) /\ Share >= Even /\ Even \in Nat \ {0}
         /\ FWBudget - fwNow - Share >= (Left - 1) * Even
         /\ Left > 1 => FWBudget - fwNow - Share > 0
<1>. DEFINE a == FWBudget - fwNow
            q == Even
<1>1. Left \in Nat /\ Len(fwUps) \in Nat \ {0} /\ Len(fwUps) <= FWUps
  BY FWListed DEF FWInv, FWTypes, FWIdle, Left
<1>2. q \in Nat \ {0}
  <2>1. FWBudget >= Len(fwUps) * 1
    BY <1>1, FWAssumption
  <2>2. FWBudget \div Len(fwUps) >= 1
    BY <2>1, <1>1, FWAssumption, EvenShare
  <2>. QED  BY <2>2, <1>1, FWAssumption DEF Even
<1>3. a \in Nat /\ a >= Left * q
  BY FWAssumption DEF FWInv, FWTypes, FWSequence
<1>. HIDE DEF q, a
<1>4. /\ a \div Left \in Nat /\ a \div Left >= q /\ a - (a \div Left) >= (Left - 1) * q
      /\ Left > 1 /\ a \div Left > 0 => a - (a \div Left) > 0
  BY <1>1, <1>2, <1>3, EvenShare
<1>5. Share = IF Left > 1 /\ a \div Left > 0 THEN a \div Left ELSE a
  BY DEF Share, a
<1>6. CASE Left > 1
  <2>1. Share = a \div Left
    BY <1>2, <1>4, <1>5, <1>6
  <2>. QED  BY <1>2, <1>3, <1>4, <1>6, <2>1 DEF a, q
<1>7. CASE ~(Left > 1)
  <2>1. Left = 1
    BY <1>1, <1>7
  <2>2. Share = a /\ a >= q
    BY <1>5, <1>3, <1>2, <2>1
  <2>. QED  BY <1>2, <1>3, <2>1, <2>2 DEF a, q
<1>. QED  BY <1>6, <1>7

\* sequentialUpstreams asks one upstream within its share.
LEMMA FWAttempt ==
  ASSUME FWInv, NEW what \in Outcomes, NEW d \in 0..FWBudget, Attempt(what, d)
  PROVE  FWInv'
<1>. DEFINE u == fwUps[fwSeq + 1]
<1>1. /\ fwOut = "pending" /\ Sequential /\ Left > 0 /\ d <= Share /\ d \in Nat
      /\ fwNow' = fwNow + d /\ fwSeq' = fwSeq + 1 /\ fwUps' = fwUps /\ Sequential'
      /\ fwGot' = [fwGot EXCEPT ![u] = what] /\ fwGiven' = [fwGiven EXCEPT ![u] = Share]
      /\ fwRun' = fwRun /\ fwChan' = fwChan /\ fwTaken' = fwTaken /\ fwMode' = fwMode
      /\ fwOut' = CASE what = "answer" -> "answer" [] what = "panic" -> "crash" [] OTHER -> "pending"
  BY DEF Attempt, Sequential
<1>2. /\ Share \in 1..(FWBudget - fwNow) /\ Share >= Even /\ Even \in Nat
      /\ FWBudget - fwNow - Share >= (Left - 1) * Even
  BY <1>1, FWShare
<1>3. fwSeq + 1 \in 1..Len(fwUps) /\ u \in Ups /\ fwSeq \in Nat /\ Len(fwUps) \in Nat
  <2>1. Len(fwUps) \in Nat /\ fwSeq \in 0..Len(fwUps) /\ Listed \subseteq Ups
    BY FWListed DEF FWInv, FWTypes
  <2>2. fwSeq + 1 \in 1..Len(fwUps)
    BY <1>1, <2>1 DEF Left
  <2>. QED  BY <2>1, <2>2, FWListed DEF FWInv
<1>4. fwOut' \in {"answer", "crash", "pending"} /\ (fwOut' = "pending" => what \in Failures \cup {"servfail"})
  BY <1>1 DEF Outcomes, Failures
<1>5. fwNow' \in 0..FWBudget /\ FWBudget - fwNow' >= (Left - 1) * Even
  <2>1. (Left - 1) * Even \in Int
    BY <1>2, <1>3 DEF Left
  <2>. QED  BY <1>1, <1>2, <2>1, FWAssumption, SMTT(30) DEF FWInv, FWTypes
<1>6. Listed' = Listed
  BY <1>1 DEF Listed
<1>7. FWTypes'
  <2>1. Share \in 0..FWBudget
    BY <1>2, FWAssumption DEF FWInv, FWTypes
  <2>2. fwGot' \in [Ups -> Outcomes \cup {"-"}] /\ fwGiven' \in [Ups -> 0..FWBudget]
    BY <1>1, <1>3, <2>1 DEF FWInv, FWTypes
  <2>3. fwSeq' \in 0..Len(fwUps')
    BY <1>1, <1>3
  <2>. QED  BY <1>1, <1>4, <1>5, <1>6, <2>2, <2>3 DEF FWInv, FWTypes
<1>8. FWIdle' /\ FWRace'
  BY <1>1, <1>4 DEF FWInv, FWIdle, FWRace
<1>9. FWSequence'
  <2>1. Even' = Even /\ Left' = Left - 1
    BY <1>1, <1>3 DEF Even, Left
  <2>2. fwOut' = "pending" => FWBudget - fwNow' >= Left' * Even'
    BY <1>5, <2>1
  <2>3. ASSUME fwOut' = "pending", NEW i \in 1..fwSeq'
        PROVE  fwGiven'[fwUps'[i]] >= Even' /\ fwGot'[fwUps'[i]] \in Failures \cup {"servfail"}
    <3>1. CASE i = fwSeq + 1
      BY <3>1, <1>1, <1>2, <1>3, <1>4, <2>1, <2>3 DEF FWInv, FWTypes
    <3>2. CASE i /= fwSeq + 1
      <4>1. i \in 1..fwSeq /\ i \in 1..Len(fwUps)
        BY <3>2, <1>1, <1>3
      <4>2. fwUps[i] \in Ups /\ fwUps[i] /= u
        BY <4>1, <3>2, <1>3, FWListed DEF FWInv
      <4>3. fwGiven'[fwUps[i]] = fwGiven[fwUps[i]] /\ fwGot'[fwUps[i]] = fwGot[fwUps[i]]
        BY <4>2, <1>1, <1>3 DEF FWInv, FWTypes
      <4>. QED  BY <4>1, <4>3, <1>1, <2>1 DEF FWInv, FWSequence
    <3>. QED  BY <3>1, <3>2
  <2>. QED  BY <1>1, <1>4, <2>2, <2>3 DEF FWInv, FWSequence
<1>. QED  BY <1>7, <1>8, <1>9 DEF FWInv

\* sequentialUpstreams gives up after the last one.
LEMMA FWSequentialEnds ==
  ASSUME FWInv, SequentialEnds
  PROVE  FWInv'
<1>1. /\ fwOut = "pending" /\ Sequential /\ (Left = 0 \/ fwNow >= FWBudget)
      /\ fwOut' = IF \E u \in Listed : fwGot[u] = "servfail" THEN "servfail" ELSE "error"
      /\ UNCHANGED <<fwMode, fwUps, fwNow, fwSeq, fwGot, fwGiven, fwRun, fwChan, fwTaken>>
  BY DEF SequentialEnds
<1>2. Left = 0
  <2>. SUFFICES ASSUME Left /= 0 PROVE FALSE
    OBVIOUS
  <2>1. Left > 0
    BY FWListed DEF Left, FWInv, FWTypes
  <2>2. Share \in 1..(FWBudget - fwNow)
    BY <1>1, <2>1, FWShare
  <2>. QED  BY <1>1, <2>2, FWAssumption DEF FWInv, FWTypes
<1>3. fwSeq = Len(fwUps) /\ fwSeq \in Nat
  BY <1>2, FWListed DEF Left, FWInv, FWTypes
<1>4. Listed = {fwUps[i] : i \in 1..fwSeq}
  BY <1>3, FWListed DEF FWInv
<1>5. FWTypes' /\ FWIdle' /\ FWRace'
  BY <1>1 DEF FWInv, FWTypes, FWIdle, FWRace, Listed, Sequential
<1>6. \A i \in 1..fwSeq : fwGiven[fwUps[i]] >= Even /\ fwGot[fwUps[i]] \in Failures \cup {"servfail"}
  BY <1>1 DEF FWInv, FWSequence
<1>7. FWSequence'
  <2>1. fwOut' = "servfail" => \E i \in 1..fwSeq : fwGot[fwUps[i]] = "servfail"
    BY <1>1, <1>4
  <2>2. fwOut' = "error" => \A i \in 1..fwSeq : fwGot[fwUps[i]] \in Failures
    BY <1>1, <1>4, <1>6
  <2>3. fwOut' \in {"servfail", "error"}
    BY <1>1
  <2>. QED  BY <1>1, <1>3, <1>6, <2>1, <2>2, <2>3 DEF FWInv, FWSequence, Sequential, Even
<1>. QED  BY <1>5, <1>7 DEF FWInv

\* One upstream of a race ends, by a panic or otherwise, and its goroutine sends.
LEMMA FWRaceReply ==
  ASSUME FWInv, NEW u \in Ups, NEW what \in Outcomes, RaceReply(u, what)
  PROVE  FWInv'
<1>1. /\ u \in fwRun /\ fwRun' = fwRun \ {u} /\ fwGot' = [fwGot EXCEPT ![u] = what]
      /\ fwChan' = Append(fwChan, <<u, what>>)
      /\ UNCHANGED <<fwMode, fwUps, fwNow, fwSeq, fwGiven, fwTaken, fwOut>>
  BY DEF RaceReply, Sends
<1>2. ~Sequential /\ Listed' = Listed /\ fwOut /= "idle" /\ u \in Listed
  BY <1>1 DEF FWInv, FWSequence, FWIdle, Listed, FWTypes
<1>3. fwChan \in Seq(Ups \X Outcomes) /\ Len(fwChan) \in Nat
  BY DEF FWInv, FWTypes
<1>4. /\ fwChan' \in Seq(Ups \X Outcomes) /\ Len(fwChan') = Len(fwChan) + 1
      /\ fwChan'[Len(fwChan) + 1] = <<u, what>>
      /\ \A i \in 1..Len(fwChan) : fwChan'[i] = fwChan[i]
  BY <1>1, <1>3
<1>5. FWTypes' /\ FWIdle' /\ FWSequence'
  BY <1>1, <1>2, <1>4 DEF FWInv, FWTypes, FWIdle, FWSequence, Sequential
<1>6. fwGot'[u] = what /\ \A v \in Ups \ {u} : fwGot'[v] = fwGot[v]
  BY <1>1 DEF FWInv, FWTypes
<1>7. Cardinality(fwRun') = Cardinality(fwRun) - 1 /\ Cardinality(fwRun) \in Nat
  BY <1>1, FWListed, FS_RemoveElement DEF FWInv
<1>8. FWRace'
  <2>1. fwTaken' + Len(fwChan') + Cardinality(fwRun') = Len(fwUps')
    BY <1>1, <1>2, <1>3, <1>4, <1>7 DEF FWInv, FWRace, FWTypes
  <2>2. ASSUME NEW i \in 1..Len(fwChan')
        PROVE  fwChan'[i][1] \in Listed' \ fwRun' /\ fwChan'[i][2] = fwGot'[fwChan'[i][1]]
    <3>1. CASE i = Len(fwChan) + 1
      BY <3>1, <1>1, <1>2, <1>4, <1>6
    <3>2. CASE i \in 1..Len(fwChan)
      <4>1. fwChan[i][1] \in Listed \ fwRun /\ fwChan[i][2] = fwGot[fwChan[i][1]] /\ Listed \subseteq Ups
        BY <3>2, <1>2, FWListed DEF FWInv, FWRace
      <4>. QED  BY <4>1, <3>2, <1>1, <1>2, <1>4, <1>6
    <3>. QED  BY <1>3, <1>4, <2>2, <3>1, <3>2
  <2>3. ASSUME fwOut' = "pending", NEW v \in Listed'
        PROVE  \/ v \in fwRun' \/ fwGot'[v] \in Failures
               \/ \E i \in 1..Len(fwChan') : fwChan'[i][1] = v
    <3>1. CASE v = u
      <4>1. Len(fwChan) + 1 \in 1..Len(fwChan')
        BY <1>3, <1>4
      <4>. QED  BY <3>1, <4>1, <1>4
    <3>2. CASE v /= u
      BY <3>2, <2>3, <1>1, <1>2, <1>3, <1>4, <1>6, FWListed DEF FWInv, FWRace
    <3>. QED  BY <3>1, <3>2
  <2>4. fwOut' = "servfail" => \E v \in Listed' \ fwRun' : fwGot'[v] = "servfail"
    BY <1>1, <1>2, <1>6, FWListed DEF FWInv, FWRace
  <2>5. fwOut' /= "error"
    BY <1>1, <1>2 DEF FWInv, FWRace
  <2>6. fwOut' = "pending" => fwTaken' < Len(fwUps')
    BY <1>1, <1>2 DEF FWInv, FWRace
  <2>. QED  BY <2>1, <2>2, <2>3, <2>4, <2>5, <2>6 DEF FWRace
<1>. QED  BY <1>5, <1>8 DEF FWInv

\* The collector of a race takes one result.
LEMMA FWRaceTake ==
  ASSUME FWInv, RaceTake
  PROVE  FWInv'
<1>. DEFINE what == Head(fwChan)[2]
            u == Head(fwChan)[1]
<1>1. /\ fwOut = "pending" /\ ~Sequential /\ fwChan /= <<>>
      /\ fwOut' = IF what \in Failures
                  THEN IF fwTaken + 1 = Len(fwUps) THEN "error" ELSE "pending"
                  ELSE what
      /\ fwChan' = Tail(fwChan) /\ fwTaken' = fwTaken + 1
      /\ UNCHANGED <<fwMode, fwUps, fwNow, fwSeq, fwGot, fwGiven, fwRun>>
  BY DEF RaceTake
<1>2. fwChan \in Seq(Ups \X Outcomes) /\ Len(fwChan) \in Nat /\ Listed' = Listed
  BY <1>1 DEF FWInv, FWTypes, Listed
<1>3. /\ fwChan' \in Seq(Ups \X Outcomes) /\ Len(fwChan') = Len(fwChan) - 1 /\ Len(fwChan) > 0
      /\ \A i \in 1..Len(fwChan') : fwChan'[i] = fwChan[i + 1]
      /\ fwChan[1] = Head(fwChan) /\ fwChan[1] \in Ups \X Outcomes
  BY <1>1, <1>2
<1>4. what = fwGot[u] /\ u \in Listed \ fwRun /\ what \in Outcomes
  BY <1>1, <1>3 DEF FWInv, FWRace
<1>5. fwOut' \in {"error", "pending", "answer", "servfail"} /\ fwTaken \in Nat
  BY <1>1, <1>4 DEF Outcomes, FWInv, FWTypes
<1>6. FWTypes'
  BY <1>1, <1>2, <1>3, <1>5 DEF FWInv, FWTypes
<1>7. FWIdle' /\ FWSequence'
  BY <1>1, <1>5 DEF FWInv, FWIdle, FWSequence, Sequential
<1>8. FWRace'
  <2>1. fwTaken' + Len(fwChan') + Cardinality(fwRun') = Len(fwUps') /\ Cardinality(fwRun) \in Nat /\ Len(fwUps) \in Nat
    BY <1>1, <1>2, <1>3, <1>5, FWListed DEF FWInv, FWRace
  <2>2. \A i \in 1..Len(fwChan') : fwChan'[i][1] \in Listed' \ fwRun' /\ fwChan'[i][2] = fwGot'[fwChan'[i][1]]
    BY <1>1, <1>2, <1>3 DEF FWInv, FWRace
  <2>3. ASSUME what \in Failures, NEW v \in Listed
        PROVE  \/ v \in fwRun' \/ fwGot'[v] \in Failures
               \/ \E i \in 1..Len(fwChan') : fwChan'[i][1] = v
    <3>1. CASE v = u
      BY <3>1, <2>3, <1>1, <1>4
    <3>2. ASSUME v /= u, NEW i \in 1..Len(fwChan), fwChan[i][1] = v
          PROVE  \E j \in 1..Len(fwChan') : fwChan'[j][1] = v
      <4>1. i /= 1
        BY <3>2, <1>3
      <4>2. i - 1 \in 1..Len(fwChan')
        BY <4>1, <3>2, <1>2, <1>3
      <4>3. fwChan'[i - 1] = fwChan[i]
        BY <4>2, <1>2, <1>3
      <4>. QED  BY <3>2, <4>2, <4>3
    <3>. QED  BY <3>1, <3>2, <1>1 DEF FWInv, FWRace
  <2>4. fwOut' = "pending" => what \in Failures /\ fwTaken' < Len(fwUps')
    <3>1. fwTaken < Len(fwUps)
      BY <1>1 DEF FWInv, FWRace
    <3>. QED  BY <1>1, <1>4, <1>5, <2>1, <3>1 DEF Outcomes, Failures
  <2>5. fwOut' = "error" => fwRun' = {} /\ \A v \in Listed' : fwGot'[v] \in Failures
    <3>. SUFFICES ASSUME fwOut' = "error" PROVE fwRun' = {} /\ \A v \in Listed' : fwGot'[v] \in Failures
      OBVIOUS
    <3>1. what \in Failures /\ fwTaken + 1 = Len(fwUps)
      BY <1>1, <1>4 DEF Outcomes, Failures
    <3>2. Cardinality(fwRun) = 0 /\ Len(fwChan') = 0
      BY <3>1, <2>1, <1>1, <1>2, <1>3, <1>5
    <3>3. fwRun' = {}
      BY <3>2, <1>1, FWListed, FS_EmptySet DEF FWInv
    <3>4. ASSUME NEW v \in Listed PROVE fwGot'[v] \in Failures
      BY <3>1, <3>2, <3>3, <2>3
    <3>. QED  BY <3>3, <3>4, <1>2
  <2>6. fwOut' = "servfail" => \E v \in Listed' \ fwRun' : fwGot'[v] = "servfail"
    BY <1>1, <1>2, <1>4
  <2>. QED  BY <2>1, <2>2, <2>3, <2>4, <2>5, <2>6, <1>2 DEF FWRace
<1>. QED  BY <1>6, <1>7, <1>8 DEF FWInv

\* The next query begins.
LEMMA FWNextQuery ==
  ASSUME FWInv, NextQuery
  PROVE  FWInv'
<1>1. Cardinality({}) = 0
  BY FS_EmptySet
<1>2. Listed' = {}
  BY NoneListed DEF NextQuery, Listed
<1>3. FWTypes'
  BY <1>2, NoneListed, FWAssumption DEF NextQuery, FWInv, FWTypes
<1>4. FWIdle' /\ FWSequence'
  BY DEF NextQuery, FWInv, FWIdle, FWSequence, Sequential
<1>5. FWRace'
  BY <1>1, <1>2, NoneListed DEF NextQuery, FWInv, FWRace, FWTypes
<1>. QED  BY <1>3, <1>4, <1>5 DEF FWInv

\* Every step keeps the invariant.
LEMMA FWStep == FWInv /\ [FWNext]_FWVars => FWInv'
<1>. SUFFICES ASSUME FWInv, [FWNext]_FWVars PROVE FWInv'
  OBVIOUS
<1>1. CASE UNCHANGED FWVars
  BY <1>1 DEF FWVars, FWInv, FWTypes, FWIdle, FWSequence, FWRace, Listed, Left, Even, Sequential
<1>. QED  BY <1>1, FWQuery, FWAttempt, FWSequentialEnds, FWRaceReply, FWRaceTake, FWNextQuery
          DEF FWNext, SequentialStep

(* For any number of upstreams and any deadline that gives each a tick:    *)
(* no failure is reported while an upstream asked has something better,    *)
(* and each upstream of a sequence gets its part of the time however       *)
(* slowly the others fail (sequentialUpstreams, raceUpstreams).            *)
THEOREM ForwardHolds == FWSpec => []ForwardSound
<1>1. FWInv => ForwardSound
  <2>. SUFFICES ASSUME FWInv PROVE ForwardSound
    OBVIOUS
  <2>1. FWTypeOK
    <3>1. fwTaken + Len(fwChan) + Cardinality(fwRun) <= Len(fwUps)
      BY FWListed, FS_EmptySet DEF FWInv, FWTypes, FWSequence, FWRace
    <3>. QED  BY <3>1, FWListed DEF FWInv, FWTypes, FWTypeOK
  <2>2. CASE Sequential
    <3>1. fwOut \in {"servfail", "error"} => Listed = {fwUps[i] : i \in 1..fwSeq}
      BY <2>2, FWListed DEF FWInv, FWSequence
    <3>2. FailureMeansAllFailed
      BY <2>2, <3>1 DEF FWInv, FWSequence, FailureMeansAllFailed
    <3>3. FairShare
      BY <2>2, <3>1 DEF FWInv, FWSequence, FairShare, Even
    <3>. QED  BY <2>1, <3>2, <3>3 DEF ForwardSound
  <2>3. CASE ~Sequential
    BY <2>1, <2>3 DEF FWInv, FWRace, FailureMeansAllFailed, FairShare, ForwardSound
  <2>. QED  BY <2>2, <2>3
<1>. QED  BY <1>1, FWInitial, FWStep, PTL DEF FWSpec

(* The collector of a race never waits for a send that will not come, for  *)
(* any number of upstreams, panicking ones included (raceUpstreams).       *)
THEOREM RaceAlwaysGoesOn == FWSpec => []RaceGoesOn
<1>1. FWInv => RaceGoesOn
  <2>. SUFFICES ASSUME FWInv, fwOut = "pending", ~Sequential, fwChan = <<>>, fwRun = {} PROVE FALSE
    BY DEF RaceGoesOn
  <2>1. Cardinality(fwRun) = 0 /\ Len(fwChan) = 0
    BY FS_EmptySet
  <2>2. fwTaken \in Nat /\ fwTaken < Len(fwUps) /\ fwTaken + Len(fwChan) + Cardinality(fwRun) = Len(fwUps)
    BY DEF FWInv, FWTypes, FWRace
  <2>. QED  BY <2>1, <2>2
<1>. QED  BY <1>1, FWInitial, FWStep, PTL DEF FWSpec

-----------------------------------------------------------------------------
(* Recursion. A circle of waiting walks is impossible because waiting      *)
(* strictly increases the depth: NoRing takes a walk of least depth of     *)
(* such a circle.                                                          *)

WalkRec == [pc : {"idle", "begin", "ask", "ns"}, hops : 0..RCMaxHops, cname : 0..RCMaxCNAME,
            type : {"A", "AAAA"}, late : BOOLEAN, new : SUBSET RCHosts, joined : SUBSET RCHosts,
            servers : BOOLEAN]

RCTypes ==
  /\ rcWalk \in [Walks -> WalkRec]
  /\ rcAddr \subseteq RCHosts
  /\ rcRes \in [RCClients -> {"-", "reply", "error"}]

(* A walk looks hosts up only in resolveNameservers, and below the depth.  *)
RCLooking ==
  \A w \in Walks :
    /\ rcWalk[w].new \cup rcWalk[w].joined /= {} => rcWalk[w].pc = "ns" /\ NSDepth(w) < RCMaxDepth
    /\ rcWalk[w].new \cap rcWalk[w].joined = {}

RCInv == RCTypes /\ RCLooking /\ WaitersHaveFlights

\* What walk a client, or a lookup at some depth, is.
LEMMA WalkParts ==
  ASSUME NEW w \in Walks
  PROVE  /\ NSDepth(w) \in 0..RCMaxDepth /\ NSDepth(w) \in Nat
         /\ NSDepth(w) = 0 => w[1] \in RCClients /\ w = <<w[1], 0>>
         /\ NSDepth(w) > 0 => w[1] \in RCHosts
         /\ NSDepth(w) < RCMaxDepth => \A h \in RCHosts : FlightKey(h, NSDepth(w) + 1) \in Walks
BY RCAssumption DEF Walks, NSDepth, FlightKey

\* Walks that begin wait for nobody.
LEMMA FreshWalks ==
  /\ NoWalk \in WalkRec /\ NoWalk.new = {} /\ NoWalk.joined = {} /\ NoWalk.pc = "idle"
  /\ \A c \in 0..RCMaxCNAME, y \in {"A", "AAAA"}, l \in BOOLEAN :
       LET r == Resolving(c, y, l) IN
       r \in WalkRec /\ r.pc = "ask" /\ r.new = {} /\ r.joined = {}
  /\ \A l \in BOOLEAN :
       LET r == [NoWalk EXCEPT !.pc = "begin", !.late = l] IN
       r \in WalkRec /\ r.pc = "begin" /\ r.new = {} /\ r.joined = {}
<1>1. NoWalk \in WalkRec /\ NoWalk.new = {} /\ NoWalk.joined = {} /\ NoWalk.pc = "idle"
  BY RCAssumption DEF NoWalk, WalkRec
<1>2. ASSUME NEW c \in 0..RCMaxCNAME, NEW y \in {"A", "AAAA"}, NEW l \in BOOLEAN
      PROVE  LET r == Resolving(c, y, l) IN
             r \in WalkRec /\ r.pc = "ask" /\ r.new = {} /\ r.joined = {}
  BY <1>1, RCAssumption DEF WalkRec, Resolving
<1>3. ASSUME NEW l \in BOOLEAN
      PROVE  LET r == [NoWalk EXCEPT !.pc = "begin", !.late = l] IN
             r \in WalkRec /\ r.pc = "begin" /\ r.new = {} /\ r.joined = {}
  BY <1>1, RCAssumption DEF WalkRec
<1>. QED  BY <1>1, <1>2, <1>3

\* The invariant holds in the initial states.
LEMMA RCInitial == RCInit => RCInv
BY FreshWalks DEF RCInit, RCInv, RCTypes, RCLooking, WaitersHaveFlights

(* One walk goes on, without becoming idle, and joins nothing new.         *)
LEMMA WalkGoesOn ==
  ASSUME RCInv, NEW w \in Walks, NEW r \in WalkRec, r.pc /= "idle", r.joined \subseteq rcWalk[w].joined,
         r.new \cap r.joined = {},
         r.new \cup r.joined /= {} => r.pc = "ns" /\ NSDepth(w) < RCMaxDepth,
         rcWalk' = [rcWalk EXCEPT ![w] = r], rcAddr' \subseteq RCHosts,
         rcRes' \in [RCClients -> {"-", "reply", "error"}]
  PROVE  RCInv'
<1>1. rcWalk' \in [Walks -> WalkRec] /\ rcWalk'[w] = r /\ \A v \in Walks \ {w} : rcWalk'[v] = rcWalk[v]
  BY DEF RCInv, RCTypes
<1>2. RCLooking'
  BY <1>1 DEF RCInv, RCLooking
<1>3. WaitersHaveFlights'
  <2>. SUFFICES ASSUME NEW v \in Walks, NEW h \in RCHosts, h \in rcWalk'[v].joined
                PROVE  rcWalk'[FlightKey(h, NSDepth(v) + 1)].pc /= "idle"
    BY DEF WaitersHaveFlights
  <2>1. h \in rcWalk[v].joined
    BY <1>1
  <2>2. NSDepth(v) < RCMaxDepth
    BY <2>1 DEF RCInv, RCLooking
  <2>3. FlightKey(h, NSDepth(v) + 1) \in Walks
    BY <2>2, WalkParts
  <2>4. rcWalk[FlightKey(h, NSDepth(v) + 1)].pc /= "idle"
    BY <2>1 DEF RCInv, WaitersHaveFlights
  <2>. QED  BY <1>1, <2>3, <2>4
<1>. QED  BY <1>1, <1>2, <1>3 DEF RCInv, RCTypes

(* A client's walk, for which nobody waits, ends.                          *)
LEMMA ClientEnds ==
  ASSUME RCInv, NEW w \in Walks, NSDepth(w) = 0,
         rcWalk' = [rcWalk EXCEPT ![w] = NoWalk], rcAddr' = rcAddr,
         rcRes' \in [RCClients -> {"-", "reply", "error"}]
  PROVE  RCInv'
<1>1. rcWalk' \in [Walks -> WalkRec] /\ rcWalk'[w] = NoWalk /\ \A v \in Walks \ {w} : rcWalk'[v] = rcWalk[v]
  BY FreshWalks DEF RCInv, RCTypes
<1>2. RCLooking'
  BY <1>1, FreshWalks DEF RCInv, RCLooking
<1>3. WaitersHaveFlights'
  <2>. SUFFICES ASSUME NEW v \in Walks, NEW h \in RCHosts, h \in rcWalk'[v].joined
                PROVE  rcWalk'[FlightKey(h, NSDepth(v) + 1)].pc /= "idle"
    BY DEF WaitersHaveFlights
  <2>1. h \in rcWalk[v].joined
    BY <1>1, FreshWalks
  <2>2. NSDepth(v) < RCMaxDepth
    BY <2>1 DEF RCInv, RCLooking
  <2>3. FlightKey(h, NSDepth(v) + 1) \in Walks /\ NSDepth(v) \in Nat
    BY <2>2, WalkParts
  <2>4. rcWalk[FlightKey(h, NSDepth(v) + 1)].pc /= "idle"
    BY <2>1 DEF RCInv, WaitersHaveFlights
  <2>5. FlightKey(h, NSDepth(v) + 1) /= w
    BY <2>3 DEF FlightKey, NSDepth
  <2>. QED  BY <1>1, <2>3, <2>4, <2>5
<1>. QED  BY <1>1, <1>2, <1>3 DEF RCInv, RCTypes

(* A flight ends, and everybody who waits for it is told.                  *)
LEMMA FlightEnds ==
  ASSUME RCInv, NEW f \in Walks, NEW ok \in BOOLEAN,
         rcWalk' = Told(f, ok), rcAddr' \subseteq RCHosts, rcRes' = rcRes
  PROVE  RCInv'
<1>1. ASSUME NEW w \in Walks
      PROVE  /\ rcWalk'[w] \in WalkRec
             /\ rcWalk'[w].joined \subseteq rcWalk[w].joined
             /\ rcWalk'[w].new \subseteq rcWalk[w].new
             /\ w /= f => rcWalk'[w].pc = rcWalk[w].pc
             /\ \A h \in rcWalk'[w].joined : FlightKey(h, NSDepth(w) + 1) /= f
             /\ rcWalk'[w].joined /= {} => w /= f
             /\ rcWalk'[w].new /= {} => w /= f
  <2>1. rcWalk[w] \in WalkRec
    BY DEF RCInv, RCTypes
  <2>2. CASE w = f
    BY <2>2, FreshWalks DEF Told
  <2>3. CASE w /= f /\ Waits(w, f)
    <3>1. rcWalk'[w] = [rcWalk[w] EXCEPT !.joined = @ \ {f[1]}, !.servers = @ \/ ok]
      BY <2>3 DEF Told
    <3>2. ASSUME NEW h \in rcWalk'[w].joined, FlightKey(h, NSDepth(w) + 1) = f PROVE FALSE
      BY <2>1, <3>1, <3>2 DEF FlightKey, WalkRec
    <3>. QED  BY <2>1, <2>3, <3>1, <3>2, ZenonT(60) DEF WalkRec
  <2>4. CASE w /= f /\ ~Waits(w, f)
    BY <2>1, <2>4 DEF Told, Waits
  <2>. QED  BY <2>2, <2>3, <2>4
<1>2. rcWalk' \in [Walks -> WalkRec]
  BY <1>1 DEF Told
<1>3. RCLooking'
  <2>. SUFFICES ASSUME NEW w \in Walks
                PROVE  /\ rcWalk'[w].new \cup rcWalk'[w].joined /= {} => rcWalk'[w].pc = "ns" /\ NSDepth(w) < RCMaxDepth
                       /\ rcWalk'[w].new \cap rcWalk'[w].joined = {}
    BY DEF RCLooking
  <2>. QED  BY <1>1 DEF RCInv, RCLooking
<1>4. WaitersHaveFlights'
  <2>. SUFFICES ASSUME NEW v \in Walks, NEW h \in RCHosts, h \in rcWalk'[v].joined
                PROVE  rcWalk'[FlightKey(h, NSDepth(v) + 1)].pc /= "idle"
    BY DEF WaitersHaveFlights
  <2>1. h \in rcWalk[v].joined /\ FlightKey(h, NSDepth(v) + 1) /= f
    BY <1>1
  <2>2. NSDepth(v) < RCMaxDepth
    BY <2>1 DEF RCInv, RCLooking
  <2>3. FlightKey(h, NSDepth(v) + 1) \in Walks
    BY <2>2, WalkParts
  <2>4. rcWalk[FlightKey(h, NSDepth(v) + 1)].pc /= "idle"
    BY <2>1 DEF RCInv, WaitersHaveFlights
  <2>. QED  BY <1>1, <2>1, <2>3, <2>4
<1>. QED  BY <1>2, <1>3, <1>4 DEF RCInv, RCTypes

(* The end of any walk that waits for nobody.                              *)
LEMMA RCEnds ==
  ASSUME RCInv, NEW w \in Walks, NEW result \in {"addr", "none", "err"}, Ends(w, result)
  PROVE  RCInv'
<1>. DEFINE r == IF result = "err" /\ rcWalk[w].cname > 0 THEN "none" ELSE result
<1>1. rcWalk[w] \in WalkRec /\ NSDepth(w) \in Nat
  BY WalkParts DEF RCInv, RCTypes
<1>2. CASE NSDepth(w) = 0
  <2>1. rcRes' \in [RCClients -> {"-", "reply", "error"}]
    BY <1>2 DEF Ends, RCInv, RCTypes
  <2>. QED  BY <1>2, <2>1, ClientEnds DEF Ends
<1>3. CASE NSDepth(w) /= 0
  <2>1. /\ rcRes' = rcRes /\ rcAddr' = IF r = "addr" THEN rcAddr \cup {w[1]} ELSE rcAddr
        /\ rcWalk' = IF r /= "addr" /\ rcWalk[w].type = "A"
                     THEN [rcWalk EXCEPT ![w] = Resolving(0, "AAAA", @.late)]
                     ELSE Told(w, r = "addr")
    BY <1>3 DEF Ends
  <2>2. rcAddr' \subseteq RCHosts /\ rcRes' \in [RCClients -> {"-", "reply", "error"}]
    BY <1>1, <1>3, <2>1, WalkParts DEF RCInv, RCTypes
  <2>3. CASE r /= "addr" /\ rcWalk[w].type = "A"
    <3>1. rcWalk[w].late \in BOOLEAN /\ 0 \in 0..RCMaxCNAME
      BY <1>1, RCAssumption DEF WalkRec
    <3>2. rcWalk' = [rcWalk EXCEPT ![w] = Resolving(0, "AAAA", rcWalk[w].late)]
      BY <2>1, <2>3
    <3>. QED  BY <2>2, <3>1, <3>2, FreshWalks, WalkGoesOn
  <2>4. CASE ~(r /= "addr" /\ rcWalk[w].type = "A")
    BY <2>1, <2>2, <2>4, FlightEnds
  <2>. QED  BY <2>3, <2>4
<1>. QED  BY <1>2, <1>3

\* A client asks (Resolve).
LEMMA RCClientAsks ==
  ASSUME RCInv, NEW c \in RCClients, ClientAsks(c)
  PROVE  RCInv'
<1>1. <<c, 0>> \in Walks /\ 0 \in 0..RCMaxCNAME
  BY RCAssumption DEF Walks
<1>. QED  BY <1>1, FreshWalks, WalkGoesOn DEF ClientAsks, RCInv, RCTypes

\* A walk looks a nameserver up: it starts a flight or joins one
\* (resolveNSAddr).
LEMMA RCLookup ==
  ASSUME RCInv, NEW w \in Walks, NEW h \in RCHosts, Lookup(w, h)
  PROVE  RCInv'
<1>. DEFINE f == FlightKey(h, NSDepth(w) + 1)
            x == rcWalk[w]
<1>1. x \in WalkRec /\ x.pc = "ns" /\ h \in x.new /\ NSDepth(w) < RCMaxDepth /\ x.new \cap x.joined = {}
  BY DEF Lookup, RCInv, RCTypes, RCLooking
<1>2. f \in Walks /\ f /= w
  BY <1>1, WalkParts DEF FlightKey, NSDepth
<1>3. UNCHANGED <<rcAddr, rcRes>>
  BY DEF Lookup
<1>4. CASE h \in rcAddr
  <2>. DEFINE r == [x EXCEPT !.new = @ \ {h}, !.servers = TRUE]
  <2>1. rcWalk' = [rcWalk EXCEPT ![w] = r]
    BY <1>1, <1>4 DEF Lookup, RCInv, RCTypes, WalkRec
  <2>2. r \in WalkRec /\ r.pc = "ns" /\ r.joined = x.joined /\ r.new = x.new \ {h}
    BY <1>1 DEF WalkRec
  <2>. QED  BY <1>1, <1>3, <2>1, <2>2, WalkGoesOn DEF RCInv, RCTypes
<1>5. CASE h \notin rcAddr
  <2>. DEFINE r == [x EXCEPT !.new = @ \ {h}, !.joined = @ \cup {h}]
              b == [NoWalk EXCEPT !.pc = "begin", !.late = x.late]
  <2>1. r \in WalkRec /\ r.pc = "ns" /\ r.joined = x.joined \cup {h} /\ r.new = x.new \ {h}
    BY <1>1 DEF WalkRec
  <2>2. b \in WalkRec /\ b.pc = "begin" /\ b.new = {} /\ b.joined = {}
    BY <1>1, FreshWalks DEF WalkRec
  <2>3. /\ rcWalk' \in [Walks -> WalkRec] /\ rcWalk'[w] = r
        /\ \A v \in Walks \ {w, f} : rcWalk'[v] = rcWalk[v]
        /\ rcWalk'[f] = rcWalk[f] \/ rcWalk'[f] = b
        /\ rcWalk'[f].pc /= "idle"
    <3>1. CASE rcWalk[f].pc /= "idle"
      <4>1. rcWalk' = [rcWalk EXCEPT ![w] = r]
        BY <1>1, <1>5, <3>1 DEF Lookup, RCInv, RCTypes, WalkRec
      <4>. QED  BY <4>1, <3>1, <1>2, <2>1 DEF RCInv, RCTypes
    <3>2. CASE rcWalk[f].pc = "idle"
      <4>1. rcWalk' = [rcWalk EXCEPT ![w] = r, ![f] = b]
        BY <1>1, <1>5, <3>2 DEF Lookup, RCInv, RCTypes, WalkRec
      <4>. QED  BY <4>1, <1>2, <2>1, <2>2 DEF RCInv, RCTypes
    <3>. QED  BY <3>1, <3>2
  <2>4. RCLooking'
    <3>. SUFFICES ASSUME NEW v \in Walks
                  PROVE  /\ rcWalk'[v].new \cup rcWalk'[v].joined /= {} => rcWalk'[v].pc = "ns" /\ NSDepth(v) < RCMaxDepth
                         /\ rcWalk'[v].new \cap rcWalk'[v].joined = {}
      BY DEF RCLooking
    <3>1. CASE v = w
      BY <3>1, <1>1, <2>1, <2>3
    <3>2. CASE v /= w /\ rcWalk'[v] = rcWalk[v]
      BY <3>2 DEF RCInv, RCLooking
    <3>3. CASE v /= w /\ rcWalk'[v] = b
      BY <3>3, <2>2
    <3>. QED  BY <3>1, <3>2, <3>3, <2>3
  <2>5. WaitersHaveFlights'
    <3>. SUFFICES ASSUME NEW v \in Walks, NEW g \in RCHosts, g \in rcWalk'[v].joined
                  PROVE  rcWalk'[FlightKey(g, NSDepth(v) + 1)].pc /= "idle"
      BY DEF WaitersHaveFlights
    <3>. DEFINE k == FlightKey(g, NSDepth(v) + 1)
    <3>1. CASE k = f
      BY <3>1, <2>3
    <3>2. CASE k = w
      BY <3>2, <2>1, <2>3
    <3>3. CASE k /= f /\ k /= w
      <4>1. g \in rcWalk[v].joined
        BY <3>3, <2>1, <2>2, <2>3
      <4>2. NSDepth(v) < RCMaxDepth
        BY <4>1 DEF RCInv, RCLooking
      <4>3. k \in Walks
        BY <4>2, WalkParts
      <4>4. rcWalk[k].pc /= "idle"
        BY <4>1 DEF RCInv, WaitersHaveFlights
      <4>. QED  BY <3>3, <4>3, <4>4, <2>3
    <3>. QED  BY <3>1, <3>2, <3>3
  <2>. QED  BY <1>3, <2>3, <2>4, <2>5 DEF RCInv, RCTypes
<1>. QED  BY <1>4, <1>5

\* A flight begins its own walk.
LEMMA RCFlightBegins ==
  ASSUME RCInv, NEW f \in Walks, FlightBegins(f)
  PROVE  RCInv'
<1>1. rcWalk[f] \in WalkRec /\ rcWalk[f].late \in BOOLEAN /\ 0 \in 0..RCMaxCNAME
  BY RCAssumption DEF RCInv, RCTypes, WalkRec
<1>2. CASE f[1] \in rcAddr
  BY <1>2, FlightEnds DEF FlightBegins, RCInv, RCTypes
<1>3. CASE f[1] \notin rcAddr
  <2>1. rcWalk' = [rcWalk EXCEPT ![f] = Resolving(0, "A", rcWalk[f].late)]
    BY <1>3 DEF FlightBegins
  <2>2. UNCHANGED <<rcAddr, rcRes>> /\ rcAddr' \subseteq RCHosts /\ rcRes' \in [RCClients -> {"-", "reply", "error"}]
    BY DEF FlightBegins, RCInv, RCTypes
  <2>. QED  BY <1>1, <2>1, <2>2, FreshWalks, WalkGoesOn, ZenonT(60)
<1>. QED  BY <1>2, <1>3

\* A walk stops waiting when its context ends, the flight goes on.
LEMMA RCGivesUp ==
  ASSUME RCInv, NEW w \in Walks, NEW h \in RCHosts, GivesUpWaiting(w, h)
  PROVE  RCInv'
<1>. DEFINE x == rcWalk[w]
            r == [x EXCEPT !.joined = @ \ {h}, !.servers = @ \/ h \in rcAddr, !.late = TRUE]
<1>1. x \in WalkRec /\ h \in x.joined /\ x.pc = "ns" /\ NSDepth(w) < RCMaxDepth /\ x.new \cap x.joined = {}
  BY DEF GivesUpWaiting, RCInv, RCTypes, RCLooking
<1>2. rcWalk' = [rcWalk EXCEPT ![w] = r]
  BY <1>1 DEF GivesUpWaiting, RCInv, RCTypes, WalkRec
<1>3. r \in WalkRec /\ r.pc = "ns" /\ r.joined = x.joined \ {h} /\ r.new = x.new
  BY <1>1 DEF WalkRec
<1>4. rcAddr' \subseteq RCHosts /\ rcRes' \in [RCClients -> {"-", "reply", "error"}]
  BY DEF GivesUpWaiting, RCInv, RCTypes
<1>. HIDE DEF r
<1>. QED  BY <1>1, <1>2, <1>3, <1>4, WalkGoesOn

(* resolve's own steps: the walk asks, is referred, or chases a CNAME.     *)
LEMMA RCAsk ==
  ASSUME RCInv, NEW w \in Walks,
         \/ FollowCNAME(w) \/ AskMinimized(w) \/ Referred(w)
         \/ \E hosts \in SUBSET RCHosts, glue \in BOOLEAN : AskReferral(w, hosts, glue)
  PROVE  RCInv'
<1>. DEFINE x == rcWalk[w]
<1>1. x \in WalkRec /\ rcAddr \subseteq RCHosts /\ rcRes \in [RCClients -> {"-", "reply", "error"}]
  BY DEF RCInv, RCTypes
<1>2. CASE FollowCNAME(w)
  <2>1. rcWalk' = [rcWalk EXCEPT ![w] = Resolving(x.cname + 1, x.type, FALSE)] /\ UNCHANGED <<rcAddr, rcRes>>
    BY <1>2 DEF FollowCNAME
  <2>2. x.cname + 1 \in 0..RCMaxCNAME /\ x.type \in {"A", "AAAA"}
    BY <1>1, <1>2, RCAssumption DEF FollowCNAME, WalkRec
  <2>. QED  BY <1>1, <2>1, <2>2, FreshWalks, WalkGoesOn
<1>3. CASE AskMinimized(w)
  <2>. DEFINE r == [x EXCEPT !.hops = @ + 1]
  <2>1. rcWalk' = [rcWalk EXCEPT ![w] = r] /\ UNCHANGED <<rcAddr, rcRes>>
    BY <1>1, <1>3 DEF AskMinimized, RCInv, RCTypes
  <2>2. r \in WalkRec /\ r.pc = "ask" /\ r.new = {} /\ r.joined = {}
    BY <1>1, <1>3, RCAssumption DEF AskMinimized, Asking, WalkRec, RCInv, RCLooking
  <2>. QED  BY <1>1, <2>1, <2>2, WalkGoesOn
<1>4. CASE Referred(w)
  <2>. DEFINE r == [x EXCEPT !.pc = "ask", !.servers = FALSE]
  <2>1. rcWalk' = [rcWalk EXCEPT ![w] = r] /\ UNCHANGED <<rcAddr, rcRes>>
    BY <1>1, <1>4 DEF Referred, RCInv, RCTypes, WalkRec
  <2>2. r \in WalkRec /\ r.pc = "ask" /\ r.new = {} /\ r.joined = {}
    BY <1>1, <1>4 DEF Referred, Looked, WalkRec
  <2>. QED  BY <1>1, <2>1, <2>2, WalkGoesOn
<1>5. ASSUME NEW hosts \in SUBSET RCHosts, NEW glue \in BOOLEAN, AskReferral(w, hosts, glue)
      PROVE  RCInv'
  <2>. DEFINE new == IF NSDepth(w) < RCMaxDepth THEN hosts ELSE {}
              r == [x EXCEPT !.pc = "ns", !.hops = @ + 1, !.servers = glue, !.joined = {}, !.new = new]
  <2>1. rcWalk' = [rcWalk EXCEPT ![w] = r] /\ UNCHANGED <<rcAddr, rcRes>>
    <3>1. /\ rcWalk' = [rcWalk EXCEPT ![w].pc = "ns", ![w].hops = @ + 1, ![w].servers = glue, ![w].joined = {}, ![w].new = new]
          /\ UNCHANGED <<rcAddr, rcRes>>
      BY <1>5 DEF AskReferral
    <3>2. w \in DOMAIN rcWalk
      BY DEF RCInv, RCTypes
    <3>. HIDE DEF new
    <3>. QED  BY <3>1, <3>2
  <2>2. r \in WalkRec /\ r.pc = "ns" /\ r.joined = {} /\ r.new = new /\ (new /= {} => NSDepth(w) < RCMaxDepth)
    <3>1. x.hops + 1 \in 0..RCMaxHops
      <4>1. x.hops < RCMaxHops
        BY <1>5 DEF AskReferral, Asking
      <4>2. x.hops \in 0..RCMaxHops
        BY <1>1 DEF WalkRec
      <4>. QED  BY <4>1, <4>2, RCAssumption
    <3>2. new \subseteq RCHosts /\ (new /= {} => NSDepth(w) < RCMaxDepth)
      OBVIOUS
    <3>. HIDE DEF new
    <3>. QED  BY <1>1, <3>1, <3>2 DEF WalkRec
  <2>. QED  BY <1>1, <2>1, <2>2, WalkGoesOn
<1>. QED  BY <1>2, <1>3, <1>4, <1>5

\* Every step keeps the invariant.
LEMMA RCStep == RCInv /\ [RCNext]_RCVars => RCInv'
<1>. SUFFICES ASSUME RCInv, [RCNext]_RCVars PROVE RCInv'
  OBVIOUS
<1>1. CASE UNCHANGED RCVars
  BY <1>1 DEF RCVars, RCInv, RCTypes, RCLooking, WaitersHaveFlights
<1>2. ASSUME NEW h \in RCHosts, AddrExpires(h) PROVE RCInv'
  BY <1>2 DEF AddrExpires, RCInv, RCTypes, RCLooking, WaitersHaveFlights
<1>3. ASSUME NEW w \in Walks,
             \/ AskFails(w) \/ CNAMETooLong(w) \/ NoServers(w)
             \/ \E holds \in {"addr", "none"} : AskAnswer(w, holds) \/ ReferralLoop(w, holds)
      PROVE  RCInv'
  BY <1>3, RCEnds DEF AskFails, CNAMETooLong, NoServers, AskAnswer, ReferralLoop
<1>. QED  BY <1>1, <1>2, <1>3, RCAsk, RCGivesUp, RCFlightBegins, RCLookup, RCClientAsks DEF RCNext, ResolveStep

(* Waiting goes one level deeper each time, so a ring of waits would have  *)
(* no deepest walk.                                                        *)
LEMMA NoRing == NoCircularWait
<1>. SUFFICES ASSUME NEW S \in SUBSET Walks, \A w \in S : \E f \in S : Waits(w, f), S /= {}
              PROVE  FALSE
  BY DEF NoCircularWait
<1>. DEFINE T == {RCMaxDepth - NSDepth(w) : w \in S}
            R == OpToRel(<, Nat)
<1>1. T \subseteq Nat /\ T /= {}
  BY WalkParts, RCAssumption
<1>2. PICK x \in T : \A y \in T : ~(<<y, x>> \in R)
  BY <1>1, NatLessThanWellFounded, WFMin
<1>3. PICK w \in S : x = RCMaxDepth - NSDepth(w)
  BY <1>2
<1>4. PICK f \in S : Waits(w, f)
  BY <1>3
<1>5. NSDepth(f) = NSDepth(w) + 1
  BY <1>4 DEF Waits, FlightKey, NSDepth
<1>6. RCMaxDepth - NSDepth(f) \in T /\ RCMaxDepth - NSDepth(f) < x
  BY <1>3, <1>4, <1>5, WalkParts, RCAssumption
<1>7. <<RCMaxDepth - NSDepth(f), x>> \in R
  BY <1>1, <1>2, <1>6 DEF OpToRel
<1>. QED  BY <1>2, <1>6, <1>7

(* For any number of clients, nameservers and any bounds: walks stay       *)
(* within them, whoever waits for a nameserver's address waits for a walk  *)
(* under way, and nobody waits, through others, for himself (resolve,      *)
(* resolveNSAddr).                                                         *)
THEOREM RecursionHolds == RCSpec => []RecursionSound
<1>1. RCInv => RecursionSound
  BY NoRing, RCAssumption DEF RCInv, RCTypes, RCLooking, WalkRec, RecursionSound, RCTypeOK
<1>. QED  BY <1>1, RCInitial, RCStep, PTL DEF RCSpec
=============================================================================
