----------------------------- MODULE DataProofs -----------------------------
(***************************************************************************)
(* Queues, streams and tables, for every value of their constants: the L2  *)
(* write-behind (L2Writer), for any queue and batch size, any set of keys  *)
(* and any number of callers; the query log with its rolling aggregate     *)
(* (QueryLog), for any window, queue, batch and stream length; the range   *)
(* tables of geo blocking (GeoTables), for any width and any number of     *)
(* ranges; and the reading of the log (QueryLogWalk), for any stream, page *)
(* and scan bound. What they define by recursion over their data is met by *)
(* Induct and PrimRec, below.                                              *)
(***************************************************************************)
EXTENDS L2Writer, QueryLog, QueryLogWalk, GeoTables, FiniteSetTheorems, SequenceTheorems, WellFoundedInduction, TLAPS

-----------------------------------------------------------------------------
(* The L2 write-behind                                                     *)

\* A goroutine holds a write exactly while it is inside enqueueL2.
Holding ==
  \A p \in Procs : /\ pc[p] # "idle" => pending[p] \in Writes
                   /\ pc[p] = "idle" => pending[p] = NoWrite

\* What the phases of Close and of the writer say about each other, and
\* where the writes Close owes can still be.
Shutdown ==
  /\ wdone => closer \in {"wait", "closed"}
  /\ writer # "select" => wdone
  /\ closer = "closed" => writer = "exited"
  /\ ~client => closer = "closed"
  /\ writer = "exited" => batch = <<>>
  /\ owed \subseteq applied \cup failed \cup ToSet(ch) \cup ToSet(batch)

\* A caller past the wclosed check of a closed cache was there when Close
\* took effect, and only such callers leave a write to an exited writer.
Crossings ==
  /\ wdone => wclosed
  /\ closer # "idle" => wclosed
  /\ wclosed => \A p \in Procs : pc[p] = "send" => pending[p] \in crossing
  /\ writer = "exited" => ToSet(ch) \subseteq crossing

\* Where the writes are, as sets; what is left in the channel of a writer
\* that has exited counts as queued here.
Held == {pending[p] : p \in Procs}
Queued == ToSet(ch) \cup ToSet(batch)
Past == applied \cup failed
Traced == Writes \subseteq Held \cup Queued \cup Past

\* The inductive invariant.
IInv ==
  /\ TypeOK
  /\ Holding
  /\ Traced
  /\ Shutdown
  /\ Crossings
  /\ CloseCommitsQueue

-----------------------------------------------------------------------------
(* Lemmas *)

\* The elements of a sequence after Append, Tail and a split.
LEMMA ToSetAppend ==
  ASSUME NEW S, NEW s \in Seq(S), NEW x \in S
  PROVE  ToSet(Append(s, x)) = ToSet(s) \cup {x}
<1>1. Append(s, x) \in Seq(S) /\ Len(Append(s, x)) = Len(s) + 1
  OBVIOUS
<1>2. \A i \in 1 .. Len(s) : Append(s, x)[i] = s[i]
  OBVIOUS
<1>3. Append(s, x)[Len(s) + 1] = x
  OBVIOUS
<1>4. DOMAIN s = 1 .. Len(s) /\ DOMAIN Append(s, x) = 1 .. (Len(s) + 1) /\ Len(s) \in Nat
  BY <1>1
<1>5. 1 .. (Len(s) + 1) = (1 .. Len(s)) \cup {Len(s) + 1}
  BY <1>4
<1> QED
  BY <1>2, <1>3, <1>4, <1>5 DEF ToSet

\* What is queued is the head and the rest.
LEMMA ToSetTail ==
  ASSUME NEW S, NEW s \in Seq(S), s # <<>>
  PROVE  ToSet(s) = {Head(s)} \cup ToSet(Tail(s))
<1>1. Tail(s) \in Seq(S) /\ Len(Tail(s)) = Len(s) - 1 /\ Len(s) \in Nat \ {0}
  OBVIOUS
<1>2. \A i \in 1 .. (Len(s) - 1) : Tail(s)[i] = s[i + 1]
  OBVIOUS
<1>3. Head(s) = s[1]
  OBVIOUS
<1>4. DOMAIN s = 1 .. Len(s) /\ DOMAIN Tail(s) = 1 .. (Len(s) - 1)
  BY <1>1
<1>5. ASSUME NEW i \in 1 .. Len(s)
      PROVE  s[i] \in {Head(s)} \cup ToSet(Tail(s))
  <2>1. CASE i = 1
    BY <1>3, <2>1
  <2>2. CASE i # 1
    <3>1. i - 1 \in 1 .. (Len(s) - 1) /\ Tail(s)[i - 1] = s[i]
      BY <1>1, <1>2, <2>2
    <3> QED
      BY <1>4, <3>1 DEF ToSet
  <2> QED
    BY <2>1, <2>2
<1>6. ASSUME NEW i \in 1 .. (Len(s) - 1)
      PROVE  Tail(s)[i] \in ToSet(s)
  BY <1>1, <1>2, <1>4 DEF ToSet
<1>7. Head(s) \in ToSet(s)
  BY <1>1, <1>3, <1>4 DEF ToSet
<1> QED
  BY <1>4, <1>5, <1>6, <1>7 DEF ToSet

\* A batch taken off the queue and what stays make up the queue.
LEMMA ToSetSplit ==
  ASSUME NEW S, NEW s \in Seq(S), NEW n \in 0 .. Len(s)
  PROVE  /\ SubSeq(s, 1, n) \in Seq(S)
         /\ SubSeq(s, n + 1, Len(s)) \in Seq(S)
         /\ ToSet(s) = ToSet(SubSeq(s, 1, n)) \cup ToSet(SubSeq(s, n + 1, Len(s)))
<1> DEFINE a == SubSeq(s, 1, n)
           b == SubSeq(s, n + 1, Len(s))
<1>1. n \in Nat /\ Len(s) \in Nat /\ DOMAIN s = 1 .. Len(s)
  OBVIOUS
<1>2. a \in Seq(S) /\ DOMAIN a = 1 .. n /\ \A i \in 1 .. n : a[i] = s[i]
  BY <1>1
<1>3. /\ b \in Seq(S) /\ DOMAIN b = 1 .. (Len(s) - n)
      /\ \A i \in 1 .. (Len(s) - n) : b[i] = s[n + i]
  BY <1>1
<1>4. ASSUME NEW i \in 1 .. Len(s)
      PROVE  s[i] \in ToSet(a) \cup ToSet(b)
  <2>1. CASE i <= n
    <3>1. i \in 1 .. n
      BY <1>1, <2>1
    <3> QED
      BY <1>2, <3>1 DEF ToSet
  <2>2. CASE i > n
    <3>1. i - n \in 1 .. (Len(s) - n) /\ n + (i - n) = i
      BY <1>1, <2>2
    <3>2. b[i - n] = s[i]
      BY <1>3, <3>1
    <3> QED
      BY <1>3, <3>1, <3>2 DEF ToSet
  <2> QED
    BY <1>1, <2>1, <2>2
<1>5. ASSUME NEW i \in 1 .. n PROVE a[i] \in ToSet(s)
  BY <1>1, <1>2 DEF ToSet
<1>6. ASSUME NEW i \in 1 .. (Len(s) - n) PROVE b[i] \in ToSet(s)
  BY <1>1, <1>3 DEF ToSet
<1>7. ToSet(s) \subseteq ToSet(a) \cup ToSet(b)
  BY <1>1, <1>4 DEF ToSet
<1>8. ToSet(a) \subseteq ToSet(s)
  BY <1>2, <1>5 DEF ToSet
<1>9. ToSet(b) \subseteq ToSet(s)
  BY <1>3, <1>6 DEF ToSet
<1> QED
  BY <1>2, <1>3, <1>7, <1>8, <1>9

\* An empty queue holds nothing.
LEMMA ToSetEmpty == ToSet(<<>>) = {}
BY DEF ToSet

\* What is queued was put there.
LEMMA ToSetType ==
  ASSUME NEW S, NEW s \in Seq(S)
  PROVE  ToSet(s) \subseteq S
BY DEF ToSet

\* A flush accounts for its whole batch and empties it.
LEMMA FlushAccounts ==
  ASSUME TypeOK, NEW b \in Seq(Writes), FlushBatch(b)
  PROVE  /\ batch' = <<>>
         /\ l2' \in [Keys -> Writes \cup {NoWrite}]
         /\ applied' \cup failed' = applied \cup failed \cup ToSet(b)
         /\ applied' \in SUBSET Writes /\ failed' \in SUBSET Writes
<1>1. PICK n \in 0 .. Len(b) :
        /\ Apply(SubSeq(b, 1, n))
        /\ failed' = failed \cup ToSet(SubSeq(b, n + 1, Len(b)))
  BY DEF FlushBatch
<1>2. ToSet(b) = ToSet(SubSeq(b, 1, n)) \cup ToSet(SubSeq(b, n + 1, Len(b)))
  BY ToSetSplit
<1>3. ToSet(b) \subseteq Writes
  BY ToSetType
<1>4. applied' = applied \cup ToSet(SubSeq(b, 1, n)) /\ l2' \in [Keys -> Writes \cup {NoWrite}]
  BY <1>1 DEF Apply
<1> QED
  BY <1>1, <1>2, <1>3, <1>4 DEF FlushBatch, TypeOK

\* A write issued widens the set of writes and nothing else.
LEMMA CallGrows ==
  ASSUME TypeOK, NEW p \in Procs, NEW k \in Keys, Call(p, k)
  PROVE  /\ keyOf' \in Seq(Keys)
         /\ Writes' = Writes \cup {Len(keyOf) + 1}
         /\ Len(keyOf) + 1 \in Writes'
<1>1. keyOf \in Seq(Keys) /\ keyOf' = Append(keyOf, k)
  BY DEF Call, TypeOK
<1>2. keyOf' \in Seq(Keys) /\ Len(keyOf') = Len(keyOf) + 1 /\ Len(keyOf) \in Nat
  BY <1>1
<1> QED
  BY <1>2 DEF Writes

\* Every step keeps the type invariant and what callers hold.
LEMMA TypeStep ==
  ASSUME TypeOK, Holding, [Next]_vars
  PROVE  TypeOK' /\ Holding'
<1> USE DEF callers, history, closing
<1>1. ASSUME NEW p \in Procs, NEW k \in Keys, Call(p, k)
      PROVE  TypeOK' /\ Holding'
  <2>1. Seq(Writes) \subseteq Seq(Writes')
    BY <1>1, CallGrows
  <2> QED
    BY <1>1, <2>1, CallGrows DEF Call, TypeOK, Holding
<1>2. ASSUME keyOf' = keyOf, [Next]_vars, \A p \in Procs, k \in Keys : ~Call(p, k)
      PROVE  TypeOK' /\ Holding'
  <2>0. Writes' = Writes
    BY <1>2 DEF Writes
  <2> USE <2>0 DEF TypeOK, Holding
  <2>1. CASE UNCHANGED vars
    BY <2>1 DEF vars
  <2>2. ASSUME NEW p \in Procs, Enqueue(p)
        PROVE  TypeOK' /\ Holding'
    <3>1. CASE CheckClosed(p) \/ SendFull(p)
      BY <1>2, <3>1 DEF CheckClosed, SendFull
    <3>2. CASE Send(p)
      BY <1>2, <3>2 DEF Send, Return
    <3>3. CASE SetSync(p)
      <4>1. pending[p] \in Writes
        BY <3>3 DEF SetSync
      <4>2. ToSet(<<pending[p]>>) = {pending[p]}
        BY DEF ToSet
      <4>3. applied' \in SUBSET Writes /\ failed' \in SUBSET Writes
        BY <3>3, <4>1, <4>2 DEF SetSync, Apply
      <4>4. l2' \in [Keys -> Writes \cup {NoWrite}]
        BY <3>3 DEF SetSync, Apply
      <4>5. UNCHANGED <<keyOf, ch, batch, writer, wclosed, wdone, closer, client, owed, crossing>>
        BY <3>3 DEF SetSync, Return
      <4>6. /\ pending' \in [Procs -> Writes \cup {NoWrite}]
            /\ pc' \in [Procs -> {"idle", "call", "send", "set"}]
            /\ Holding'
        BY <3>3 DEF SetSync, Return
      <4> QED
        BY <4>3, <4>4, <4>5, <4>6
    <3> QED
      BY <1>2, <2>2, <3>1, <3>2, <3>3 DEF Enqueue
  <2>3. CASE Take
    <3>0. Head(ch) \in Writes /\ Tail(ch) \in Seq(Writes)
      BY <2>3 DEF Take
    <3>1. Head(ch) \in Writes /\ Tail(ch) \in Seq(Writes) /\ Append(batch, Head(ch)) \in Seq(Writes)
      BY <3>0
    <3>2. CASE FlushBatch(Append(batch, Head(ch)))
      <4>1. /\ batch' = <<>>
            /\ l2' \in [Keys -> Writes \cup {NoWrite}]
            /\ applied' \in SUBSET Writes /\ failed' \in SUBSET Writes
        BY <3>1, <3>2, FlushAccounts
      <4>2. /\ UNCHANGED <<pending, pc, writer, wclosed, wdone, closer, client, owed, crossing>>
            /\ ch' = Tail(ch)
        BY <2>3 DEF Take
      <4> QED
        BY <1>2, <3>1, <4>1, <4>2
    <3>3. CASE ~FlushBatch(Append(batch, Head(ch)))
      BY <1>2, <2>3, <3>1, <3>3 DEF Take
    <3> QED
      BY <3>2, <3>3
  <2>4. CASE TickFlush
    <3>1. /\ batch' = <<>>
          /\ l2' \in [Keys -> Writes \cup {NoWrite}]
          /\ applied' \in SUBSET Writes /\ failed' \in SUBSET Writes
      BY <2>4, FlushAccounts DEF TickFlush
    <3> QED
      BY <1>2, <2>4, <3>1 DEF TickFlush
  <2>5. CASE Exit
    <3>1. CASE batch # <<>>
      BY <1>2, <2>5, <3>1, FlushAccounts DEF Exit
    <3>2. CASE batch = <<>>
      BY <1>2, <2>5, <3>2 DEF Exit
    <3> QED
      BY <3>1, <3>2
  <2>6. CASE SeeDone
    BY <1>2, <2>6 DEF SeeDone
  <2>7. CASE CloseCAS
    <3>1. {pending[p] : p \in {x \in Procs : pc[x] = "send"}} \subseteq Writes
      OBVIOUS
    <3>2. ToSet(ch) \cup ToSet(batch) \subseteq Writes
      BY ToSetType
    <3> QED
      BY <1>2, <2>7, <3>1, <3>2 DEF CloseCAS
  <2>8. CASE Close
    BY <1>2, <2>8 DEF Close, CloseSignal, CloseClient
  <2> QED
    BY <1>2, <2>1, <2>2, <2>3, <2>4, <2>5, <2>6, <2>7, <2>8 DEF Next, Writer
<1> QED
  BY <1>1, <1>2 DEF Next, Enqueue, CheckClosed, Send, SendFull, SetSync, Return,
     Writer, Take, TickFlush, SeeDone, Exit, CloseCAS, Close, CloseSignal,
     CloseClient, vars

\* A write that can be traced vanishes only if it crossed Close.
LEMMA TracedAccounted == Traced /\ Crossings => NoWriteVanishes
BY DEF Traced, Crossings, NoWriteVanishes, Accounted, Held, Queued, Past

\* A goroutine returning from enqueueL2 stops holding its own write only.
LEMMA ReturnHeld ==
  ASSUME TypeOK, NEW p \in Procs, Return(p)
  PROVE  Held \subseteq Held' \cup {pending[p]}
<1>1. ASSUME NEW q \in Procs PROVE pending[q] \in Held' \cup {pending[p]}
  BY DEF TypeOK, Return, Held
<1> QED
  BY <1>1 DEF Held

\* A step moves writes along enqueueL2 -> channel -> batch -> Dragonfly (or
\* the failed ones) without dropping any.
LEMMA FlowStep ==
  ASSUME TypeOK, Holding, Traced, [Next]_vars
  PROVE  Traced' /\ Past \subseteq Past'
<1> USE DEF callers, history, closing
<1>0. Writes \subseteq Held \cup Queued \cup Past
  BY DEF Traced
<1>s. SUFFICES Writes' \subseteq Held' \cup Queued' \cup Past' /\ Past \subseteq Past'
  BY DEF Traced
<1>1. ASSUME UNCHANGED <<keyOf, pending, ch, batch, applied, failed>>
      PROVE  Writes' \subseteq Held' \cup Queued' \cup Past' /\ Past \subseteq Past'
  BY <1>0, <1>1 DEF Writes, Held, Queued, Past
<1>2. ASSUME NEW p \in Procs, NEW k \in Keys, Call(p, k)
      PROVE  Writes' \subseteq Held' \cup Queued' \cup Past' /\ Past \subseteq Past'
  <2>1. /\ pending' = [pending EXCEPT ![p] = Len(keyOf) + 1]
        /\ pending[p] = NoWrite
        /\ UNCHANGED <<ch, batch, applied, failed>>
    BY <1>2 DEF Call, Holding
  <2>2. Len(keyOf) + 1 \in Held'
    BY <2>1 DEF Held, TypeOK
  <2>3. Held \subseteq Held' \cup {NoWrite}
    <3>1. ASSUME NEW q \in Procs PROVE pending[q] \in Held' \cup {NoWrite}
      BY <2>1 DEF Held, TypeOK
    <3> QED
      BY <3>1 DEF Held
  <2>4. NoWrite \notin Writes
    BY NoWriteAssumption DEF Writes, TypeOK
  <2>5. Queued' = Queued /\ Past' = Past
    BY <2>1 DEF Queued, Past
  <2> QED
    BY <1>0, <1>2, <2>2, <2>3, <2>4, <2>5, CallGrows
<1>3. ASSUME NEW p \in Procs, Send(p)
      PROVE  Writes' \subseteq Held' \cup Queued' \cup Past' /\ Past \subseteq Past'
  <2>1. pending[p] \in Writes /\ ch \in Seq(Writes)
    BY <1>3 DEF Send, Holding, TypeOK
  <2>2. Queued' = Queued \cup {pending[p]}
    BY <1>3, <2>1, ToSetAppend DEF Send, Queued
  <2>3. Held \subseteq Held' \cup {pending[p]}
    BY <1>3, ReturnHeld DEF Send
  <2>4. Writes' = Writes /\ Past' = Past
    BY <1>3 DEF Send, Return, Writes, Past
  <2> QED
    BY <1>0, <2>2, <2>3, <2>4
<1>4. ASSUME NEW p \in Procs, SetSync(p)
      PROVE  Writes' \subseteq Held' \cup Queued' \cup Past' /\ Past \subseteq Past'
  <2>1. Past' = Past \cup {pending[p]}
    <3>1. ToSet(<<pending[p]>>) = {pending[p]}
      BY DEF ToSet
    <3> QED
      BY <1>4, <3>1 DEF SetSync, Apply, Past
  <2>2. Held \subseteq Held' \cup {pending[p]}
    BY <1>4, ReturnHeld DEF SetSync
  <2>3. Writes' = Writes /\ Queued' = Queued
    BY <1>4 DEF SetSync, Return, Writes, Queued
  <2> QED
    BY <1>0, <2>1, <2>2, <2>3
<1>5. CASE Take
  <2> DEFINE b == Append(batch, Head(ch))
  <2>1. ch \in Seq(Writes) /\ batch \in Seq(Writes) /\ ch # <<>> /\ Head(ch) \in Writes
    BY <1>5 DEF Take, TypeOK
  <2>2. b \in Seq(Writes)
    BY <2>1
  <2>3. ToSet(b) \cup ToSet(ch') = Queued
    BY <1>5, <2>1, ToSetAppend, ToSetTail DEF Take, Queued
  <2>4. Held' = Held /\ Writes' = Writes
    BY <1>5 DEF Take, Held, Writes
  <2>5. CASE FlushBatch(b)
    <3>1. Past' = Past \cup ToSet(b) /\ batch' = <<>>
      BY <2>2, <2>5, FlushAccounts DEF Past
    <3> QED
      BY <1>0, <2>3, <2>4, <3>1 DEF Queued
  <2>6. CASE batch' = b /\ UNCHANGED <<applied, failed>>
    BY <1>0, <2>3, <2>4, <2>6 DEF Queued, Past
  <2> QED
    BY <1>5, <2>5, <2>6 DEF Take
<1>6. CASE FlushBatch(batch) /\ UNCHANGED <<keyOf, pending, ch>>
  <2>1. Past' = Past \cup ToSet(batch) /\ batch' = <<>>
    BY <1>6, FlushAccounts DEF Past, TypeOK
  <2>2. Held' = Held /\ Writes' = Writes /\ ToSet(ch') = ToSet(ch)
    BY <1>6 DEF Held, Writes
  <2> QED
    BY <1>0, <2>1, <2>2 DEF Queued
<1> QED
  BY <1>1, <1>2, <1>3, <1>4, <1>5, <1>6
  DEF Next, Enqueue, CheckClosed, SendFull, Writer, TickFlush, SeeDone, Exit,
      CloseCAS, Close, CloseSignal, CloseClient, vars

\* Whoever is about to send while the cache is closed was so when Close took
\* effect, and an exited writer left its channel empty.
LEMMA CrossingStep ==
  ASSUME IInv, [Next]_vars
  PROVE  Crossings'
<1> USE DEF callers, history, closing
<1>0. TypeOK /\ Holding /\ Shutdown /\ Crossings
  BY DEF IInv
<1>1. ASSUME UNCHANGED <<pending, pc, ch, writer, wclosed, wdone, closer, crossing>>
      PROVE  Crossings'
  BY <1>0, <1>1 DEF Crossings
<1>2. ASSUME NEW p \in Procs, NEW k \in Keys, Call(p, k)
      PROVE  Crossings'
  BY <1>0, <1>2 DEF Call, Crossings, TypeOK
<1>3. ASSUME NEW p \in Procs, CheckClosed(p) \/ SendFull(p)
      PROVE  Crossings'
  BY <1>0, <1>3 DEF CheckClosed, SendFull, Crossings, TypeOK
<1>4. ASSUME NEW p \in Procs, Send(p)
      PROVE  Crossings'
  <2>1. pending[p] \in Writes /\ ch \in Seq(Writes)
    BY <1>0, <1>4 DEF Send, Holding, TypeOK
  <2>2. ToSet(ch') = ToSet(ch) \cup {pending[p]}
    BY <1>4, <2>1, ToSetAppend DEF Send
  <2>3. wclosed => pending[p] \in crossing
    BY <1>0, <1>4 DEF Send, Crossings
  <2>4. \A q \in Procs : pc'[q] = "send" => pc[q] = "send" /\ pending'[q] = pending[q]
    BY <1>0, <1>4 DEF Send, Return, TypeOK
  <2>5. UNCHANGED <<writer, wclosed, wdone, closer, crossing>>
    BY <1>4 DEF Send
  <2>6. writer = "exited" => wclosed
    BY <1>0 DEF Shutdown, Crossings
  <2> QED
    BY <1>0, <2>2, <2>3, <2>4, <2>5, <2>6 DEF Crossings
<1>5. ASSUME NEW p \in Procs, SetSync(p)
      PROVE  Crossings'
  <2>1. \A q \in Procs : pc'[q] = "send" => pc[q] = "send" /\ pending'[q] = pending[q]
    BY <1>0, <1>5 DEF SetSync, Return, TypeOK
  <2>2. UNCHANGED <<ch, writer, wclosed, wdone, closer, crossing>>
    BY <1>5 DEF SetSync
  <2> QED
    BY <1>0, <2>1, <2>2 DEF Crossings
<1>6. CASE Take
  BY <1>0, <1>6 DEF Take, Crossings
<1>7. CASE Exit
  BY <1>0, <1>7, ToSetEmpty DEF Exit, Crossings
<1>8. CASE SeeDone
  BY <1>0, <1>8 DEF SeeDone, Crossings
<1>9. CASE CloseCAS
  <2>1. writer # "exited" /\ ~wdone
    BY <1>0, <1>9 DEF CloseCAS, Shutdown
  <2>2. \A p \in Procs : pc[p] = "send" => pending[p] \in crossing'
    BY <1>9 DEF CloseCAS
  <2> QED
    BY <1>9, <2>1, <2>2 DEF CloseCAS, Crossings
<1>10. CASE Close
  BY <1>0, <1>10 DEF Close, CloseSignal, CloseClient, Crossings
<1> QED
  BY <1>1, <1>2, <1>3, <1>4, <1>5, <1>6, <1>7, <1>8, <1>9, <1>10
  DEF Next, Enqueue, Writer, TickFlush, vars

\* The phases of Close and of the writer advance together, and what Close
\* owes stays in the queue or the batch until it is applied or failed.
LEMMA ShutdownStep ==
  ASSUME IInv, [Next]_vars
  PROVE  Shutdown' /\ CloseCommitsQueue'
<1> USE DEF callers, history, closing
<1>0. TypeOK /\ Shutdown /\ CloseCommitsQueue /\ Past \subseteq Past'
  BY FlowStep DEF IInv
<1>d. owed \subseteq Past \cup Queued
  BY <1>0 DEF Shutdown, Past, Queued
<1>1. CASE UNCHANGED <<ch, batch, writer, wdone, closer, client, owed>>
  BY <1>0, <1>1 DEF Shutdown, CloseCommitsQueue, Past
<1>2. ASSUME NEW p \in Procs, Send(p)
      PROVE  Shutdown' /\ CloseCommitsQueue'
  <2>1. pending[p] \in Writes /\ ch \in Seq(Writes)
    BY <1>2 DEF IInv, Send, Holding, TypeOK
  <2>2. ToSet(ch') = ToSet(ch) \cup {pending[p]}
    BY <1>2, <2>1, ToSetAppend DEF Send
  <2> QED
    BY <1>0, <1>2, <2>2 DEF Send, Shutdown, CloseCommitsQueue
<1>3. CASE Take
  <2> DEFINE b == Append(batch, Head(ch))
  <2>1. ch \in Seq(Writes) /\ batch \in Seq(Writes) /\ ch # <<>> /\ Head(ch) \in Writes
    BY <1>0, <1>3 DEF Take, TypeOK
  <2>2. b \in Seq(Writes)
    BY <2>1
  <2>3. ToSet(b) \cup ToSet(ch') = Queued
    BY <1>3, <2>1, ToSetAppend, ToSetTail DEF Take, Queued
  <2>4. owed' \subseteq Past' \cup Queued'
    <3>1. CASE FlushBatch(b)
      <4>1. Past' = Past \cup ToSet(b) /\ batch' = <<>>
        BY <1>0, <2>2, <3>1, FlushAccounts DEF Past
      <4> QED
        BY <1>3, <1>d, <2>3, <4>1 DEF Take, Queued
    <3>2. CASE batch' = b
      BY <1>0, <1>3, <1>d, <2>3, <3>2 DEF Take, Queued
    <3> QED
      BY <1>3, <3>1, <3>2 DEF Take
  <2>5. UNCHANGED <<writer, wdone, closer, client>> /\ writer # "exited"
    BY <1>3 DEF Take
  <2> QED
    BY <1>0, <2>4, <2>5 DEF Shutdown, CloseCommitsQueue, Past, Queued
<1>4. CASE TickFlush
  <2>1. Past' = Past \cup ToSet(batch) /\ batch' = <<>>
    BY <1>0, <1>4, FlushAccounts DEF TickFlush, TypeOK, Past
  <2>2. UNCHANGED <<ch, writer, wdone, closer, client, owed>> /\ writer # "exited"
    BY <1>4 DEF TickFlush
  <2> QED
    BY <1>0, <1>d, <2>1, <2>2 DEF Shutdown, CloseCommitsQueue, Past, Queued
<1>5. CASE Exit
  <2>1. Past' = Past \cup ToSet(batch) /\ batch' = <<>>
    <3>1. CASE batch # <<>>
      BY <1>0, <1>5, <3>1, FlushAccounts DEF Exit, TypeOK, Past
    <3>2. CASE batch = <<>>
      BY <1>5, <3>2, ToSetEmpty DEF Exit, Past
    <3> QED
      BY <3>1, <3>2
  <2>2. UNCHANGED <<ch, wdone, closer, client, owed>> /\ writer = "drain" /\ ch = <<>>
    BY <1>5 DEF Exit
  <2>3. owed' \subseteq Past'
    BY <1>d, <2>1, <2>2, ToSetEmpty DEF Queued
  <2> QED
    BY <1>0, <1>5, <2>1, <2>2, <2>3 DEF Exit, Shutdown, CloseCommitsQueue, Past
<1>6. CASE SeeDone
  BY <1>0, <1>6 DEF SeeDone, Shutdown, CloseCommitsQueue
<1>7. CASE CloseCAS
  BY <1>0, <1>7 DEF CloseCAS, Shutdown, CloseCommitsQueue
<1>8. CASE Close
  BY <1>0, <1>8 DEF Close, CloseSignal, CloseClient, Shutdown, CloseCommitsQueue
<1> QED
  BY <1>1, <1>2, <1>3, <1>4, <1>5, <1>6, <1>7, <1>8
  DEF Next, Enqueue, Call, CheckClosed, SendFull, SetSync, Writer, vars

-----------------------------------------------------------------------------
(* Theorems *)

\* IInv is an invariant of the write-behind path.
THEOREM Inductive == Spec => []IInv
<1>1. Init => IInv
  <2> SUFFICES ASSUME Init PROVE IInv
    OBVIOUS
  <2>1. Writes = {}
    BY DEF Init, Writes
  <2>2. TypeOK
    <3>1. /\ keyOf \in Seq(Keys) /\ ch \in Seq(Writes) /\ batch \in Seq(Writes)
      BY DEF Init
    <3>2. /\ pending \in [Procs -> Writes \cup {NoWrite}]
          /\ l2 \in [Keys -> Writes \cup {NoWrite}]
          /\ pc \in [Procs -> {"idle", "call", "send", "set"}]
      BY DEF Init
    <3> QED
      BY <3>1, <3>2 DEF Init, TypeOK
  <2>3. Holding /\ Traced /\ CloseCommitsQueue
    BY <2>1 DEF Init, Holding, Traced, CloseCommitsQueue
  <2>4. Shutdown /\ Crossings
    BY DEF Init, Shutdown, Crossings
  <2> QED
    BY <2>2, <2>3, <2>4 DEF IInv
<1>2. IInv /\ [Next]_vars => IInv'
  BY TypeStep, FlowStep, CrossingStep, ShutdownStep DEF IInv
<1> QED
  BY <1>1, <1>2, PTL DEF Spec

\* No write vanishes between enqueueL2 and Dragonfly: it is held by its
\* caller, queued for a writer that still runs, batched, applied, or its SET
\* failed; or its caller was between the wclosed check and the send when
\* Close took effect.
THEOREM NoSilentLoss == Spec => []NoWriteVanishes
<1>1. IInv => NoWriteVanishes
  BY TracedAccounted DEF IInv
<1> QED
  BY <1>1, Inductive, PTL

\* Close loses nothing that was queued or batched when it took effect.
THEOREM CloseCommits == Spec => []CloseCommitsQueue
<1>1. IInv => CloseCommitsQueue
  BY DEF IInv
<1> QED
  BY <1>1, Inductive, PTL

\* The connection pool is closed only after the writer has flushed its last
\* batch and exited.
THEOREM ClientClosedLast == Spec => []ClientOutlivesWriter
<1>1. IInv => ClientOutlivesWriter
  BY DEF IInv, Shutdown, ClientOutlivesWriter
<1> QED
  BY <1>1, Inductive, PTL

\* The write-behind queue as a whole, through Close: well formed, no write
\* lost but those of callers Close found about to send, the queue committed,
\* the client closed last.
THEOREM WriterHolds == Spec => []WriterSound
<1>1. IInv => TypeOK
  BY DEF IInv
<1>2. TypeOK /\ NoWriteVanishes /\ CloseCommitsQueue /\ ClientOutlivesWriter => WriterSound
  BY DEF WriterSound
<1> QED
  BY <1>1, <1>2, Inductive, NoSilentLoss, CloseCommits, ClientClosedLast, PTL

-----------------------------------------------------------------------------
(* The query log: induction, sums over the hours, the rolling aggregate    *)

\* Induction over the natural numbers, for a set instead of a predicate.
LEMMA Induct ==
  ASSUME NEW S, 0 \in S, \A n \in Nat : n \in S => n + 1 \in S
  PROVE  Nat \subseteq S
<1>. SUFFICES ASSUME NEW z \in Nat, z \notin S PROVE FALSE
  OBVIOUS
<1>. DEFINE T == {n \in Nat : n \notin S}
            R == OpToRel(<, Nat)
<1>1. PICK x \in T : \A y \in T : ~(<<y, x>> \in R)
  BY NatLessThanWellFounded, WFMin
<1>2. x # 0 /\ x \in Nat
  BY <1>1
<1>3. x - 1 \in Nat /\ (x - 1) + 1 = x
  BY <1>2
<1>4. x - 1 \in T
  BY <1>1, <1>3
<1>5. <<x - 1, x>> \in R
  BY <1>2, <1>3 DEF OpToRel
<1>. QED  BY <1>1, <1>4, <1>5

\* g lists the values b, F[1, b], F[2, F[1, b]], ... up to N.
Iterates(g, A, b, N, F) == g \in [0..N -> A] /\ g[0] = b /\ \A n \in 1..N : g[n] = F[<<n, g[n - 1]>>]

\* Every such iteration exists: a recursive function over 0..N has its values.
LEMMA PrimRec ==
  ASSUME NEW A, NEW b \in A, NEW N \in Nat, NEW F \in [(1..N) \X A -> A]
  PROVE  \E g : Iterates(g, A, b, N, F)
<1>. DEFINE Good(g, m) == g \in [0..m -> A] /\ g[0] = b /\ \A n \in 1..m : g[n] = F[<<n, g[n - 1]>>]
            S == {m \in Nat : m <= N => \E g : Good(g, m)}
<1>1. 0 \in S
  <2>1. Good([i \in 0..0 |-> b], 0)
    OBVIOUS
  <2>. QED  BY <2>1
<1>2. ASSUME NEW m \in Nat, m \in S PROVE m + 1 \in S
  <2>. SUFFICES ASSUME m + 1 <= N PROVE \E g : Good(g, m + 1)
    OBVIOUS
  <2>1. PICK g : Good(g, m)
    BY <1>2
  <2>. DEFINE x == F[<<m + 1, g[m]>>]
              h == [i \in 0..(m + 1) |-> IF i = m + 1 THEN x ELSE g[i]]
  <2>2. m \in 0..m /\ g[m] \in A /\ m + 1 \in 1..N
    BY <2>1
  <2>3. x \in A
    BY <2>2
  <2>. HIDE DEF x
  <2>4. h \in [0..(m + 1) -> A] /\ h[m + 1] = x /\ \A i \in 0..m : h[i] = g[i]
    BY <2>1, <2>3
  <2>. HIDE DEF h
  <2>5. h[0] = b
    BY <2>1, <2>4
  <2>6. ASSUME NEW n \in 1..(m + 1) PROVE h[n] = F[<<n, h[n - 1]>>]
    <3>1. CASE n = m + 1
      <4>1. n - 1 = m /\ h[m] = g[m]
        BY <2>4, <3>1
      <4>. QED  BY <2>4, <3>1, <4>1 DEF x
    <3>2. CASE n # m + 1
      <4>1. n \in 1..m /\ n \in 0..m /\ n - 1 \in 0..m
        BY <3>2
      <4>. QED  BY <2>1, <2>4, <4>1
    <3>. QED  BY <3>1, <3>2
  <2>. QED  BY <2>4, <2>5, <2>6
<1>. HIDE DEF S
<1>3. N \in S
  BY <1>1, <1>2, Induct
<1>. QED  BY <1>3 DEF S, Iterates

-----------------------------------------------------------------------------
\* A count for every hour, and what an hour of S adds to a sum.
HourCounts == [QLHourSet -> Nat]
Part(f, S, h) == IF h \in S THEN f[h] ELSE 0

\* SumOver adds its hours one after the other.
LEMMA SumIs ==
  ASSUME NEW f \in HourCounts, NEW S
  PROVE  \E g \in [0..QLLastHour -> Nat] :
           /\ SumOver(f, S) = g[QLLastHour]
           /\ g[0] = 0 /\ \A h \in QLHourSet : g[h] = g[h - 1] + Part(f, S, h)
<1>. DEFINE L == QLLastHour
            sum[h \in 0..L] == IF h = 0 THEN 0 ELSE sum[h - 1] + (IF h \in S THEN f[h] ELSE 0)
            F == [p \in QLHourSet \X Nat |-> p[2] + Part(f, S, p[1])]
<1>0. L \in Nat /\ QLHourSet = 1..L
  BY QLAssumption DEF QLLastHour, QLHourSet
<1>1. \A h \in QLHourSet : Part(f, S, h) \in Nat
  BY DEF HourCounts, Part
<1>2. \A h \in 1..L : \A a \in Nat : F[<<h, a>>] = a + Part(f, S, h) /\ F[<<h, a>>] \in Nat
  BY <1>0, <1>1
<1>. HIDE DEF F
<1>3. PICK g : Iterates(g, Nat, 0, L, F)
  <2>1. F \in [(1..L) \X Nat -> Nat]
    BY <1>0, <1>1 DEF F
  <2>. HIDE DEF L
  <2>2. L \in Nat /\ 0 \in Nat
    BY <1>0
  <2>. QED  BY <2>1, <2>2, PrimRec
<1>3a. g \in [0..L -> Nat] /\ g[0] = 0 /\ \A h \in 1..L : g[h] = F[<<h, g[h - 1]>>]
  BY <1>3 DEF Iterates
<1>. HIDE DEF L
<1>4. \A h \in 1..L : g[h] = g[h - 1] + Part(f, S, h)
  <2>. SUFFICES ASSUME NEW h \in 1..L PROVE g[h] = g[h - 1] + Part(f, S, h)
    OBVIOUS
  <2>1. g[h - 1] \in Nat
    BY <1>0, <1>3a
  <2>. QED  BY <1>2, <1>3a, <2>1
<1>5. g = [h \in 0..L |-> IF h = 0 THEN 0 ELSE g[h - 1] + (IF h \in S THEN f[h] ELSE 0)]
  BY <1>0, <1>3a, <1>4 DEF Part
<1>6. sum = [h \in 0..L |-> IF h = 0 THEN 0 ELSE sum[h - 1] + (IF h \in S THEN f[h] ELSE 0)]
  <2>. SUFFICES \E ff : ff = [h \in 0..L |-> IF h = 0 THEN 0 ELSE ff[h - 1] + (IF h \in S THEN f[h] ELSE 0)]
    OBVIOUS
  <2>. QED  BY <1>5
<1>7. SumOver(f, S) = sum[L]
  BY DEF SumOver, L
<1>. HIDE DEF sum
<1>8. sum[0] = 0 /\ \A h \in 1..L : sum[h] = sum[h - 1] + Part(f, S, h)
  BY <1>0, <1>6 DEF Part
<1>9. \A m \in 0..L : sum[m] = g[m]
  <2>. DEFINE T == {m \in Nat : m <= L => sum[m] = g[m]}
  <2>1. 0 \in T
    BY <1>3a, <1>8
  <2>2. ASSUME NEW m \in Nat, m \in T PROVE m + 1 \in T
    BY <1>0, <1>4, <1>8, <2>2
  <2>. HIDE DEF T
  <2>3. Nat \subseteq T
    BY <2>1, <2>2, Induct
  <2>. QED  BY <1>0, <2>3 DEF T
<1>10. SumOver(f, S) = g[L]
  BY <1>0, <1>7, <1>9
<1>11. L = QLLastHour
  BY DEF L
<1>. QED  BY <1>0, <1>3a, <1>4, <1>10, <1>11

\* Counts that add up hour by hour have sums that add up.
LEMMA SumAdds ==
  ASSUME NEW f1 \in HourCounts, NEW f2 \in HourCounts, NEW f3 \in HourCounts, NEW S1, NEW S2, NEW S3,
         \A h \in QLHourSet : Part(f3, S3, h) = Part(f1, S1, h) + Part(f2, S2, h)
  PROVE  SumOver(f3, S3) = SumOver(f1, S1) + SumOver(f2, S2)
<1>. DEFINE L == QLLastHour
<1>0. L \in Nat /\ QLHourSet = 1..L
  BY QLAssumption DEF QLLastHour, QLHourSet
<1>1. PICK g1 \in [0..L -> Nat] : /\ SumOver(f1, S1) = g1[L]
                                  /\ g1[0] = 0 /\ \A h \in QLHourSet : g1[h] = g1[h - 1] + Part(f1, S1, h)
  BY SumIs
<1>2. PICK g2 \in [0..L -> Nat] : /\ SumOver(f2, S2) = g2[L]
                                  /\ g2[0] = 0 /\ \A h \in QLHourSet : g2[h] = g2[h - 1] + Part(f2, S2, h)
  BY SumIs
<1>3. PICK g3 \in [0..L -> Nat] : /\ SumOver(f3, S3) = g3[L]
                                  /\ g3[0] = 0 /\ \A h \in QLHourSet : g3[h] = g3[h - 1] + Part(f3, S3, h)
  BY SumIs
<1>. HIDE DEF L
<1>. DEFINE T == {m \in Nat : m <= L => g3[m] = g1[m] + g2[m]}
<1>4. 0 \in T
  BY <1>1, <1>2, <1>3
<1>5. ASSUME NEW m \in Nat, m \in T PROVE m + 1 \in T
  <2>. SUFFICES ASSUME m + 1 <= L PROVE g3[m + 1] = g1[m + 1] + g2[m + 1]
    OBVIOUS
  <2>1. m + 1 \in QLHourSet /\ (m + 1) - 1 = m /\ m \in 0..L
    BY <1>0
  <2>2. g1[m] \in Nat /\ g2[m] \in Nat /\ g3[m] = g1[m] + g2[m]
    BY <1>0, <1>5, <2>1
  <2>3. Part(f1, S1, m + 1) \in Nat /\ Part(f2, S2, m + 1) \in Nat
    BY <2>1 DEF Part, HourCounts
  <2>4. /\ g1[m + 1] = g1[m] + Part(f1, S1, m + 1) /\ g2[m + 1] = g2[m] + Part(f2, S2, m + 1)
        /\ g3[m + 1] = g3[m] + Part(f3, S3, m + 1)
    BY <1>1, <1>2, <1>3, <2>1
  <2>5. Part(f3, S3, m + 1) = Part(f1, S1, m + 1) + Part(f2, S2, m + 1)
    BY <2>1
  <2>. QED  BY <2>2, <2>3, <2>4, <2>5
<1>. HIDE DEF T
<1>6. L \in T
  BY <1>0, <1>4, <1>5, Induct
<1>. QED  BY <1>0, <1>1, <1>2, <1>3, <1>6 DEF T

\* A sum is a natural number, 0 over empty hours and 1 over a single entry.
LEMMA SumFacts ==
  ASSUME NEW f \in HourCounts
  PROVE  /\ \A S : SumOver(f, S) \in Nat
         /\ (\A h \in QLHourSet : f[h] = 0) => SumOver(f, QLHourSet) = 0
         /\ \A x \in QLHourSet : (\A h \in QLHourSet : f[h] = IF h = x THEN 1 ELSE 0) => SumOver(f, QLHourSet) = 1
<1>. DEFINE L == QLLastHour
<1>0. L \in Nat /\ QLHourSet = 1..L
  BY QLAssumption DEF QLLastHour, QLHourSet
<1>1. \A S : SumOver(f, S) \in Nat
  BY <1>0, SumIs
<1>2. PICK g \in [0..L -> Nat] : /\ SumOver(f, QLHourSet) = g[L]
                                 /\ g[0] = 0 /\ \A h \in QLHourSet : g[h] = g[h - 1] + Part(f, QLHourSet, h)
  BY SumIs
<1>3. \A h \in QLHourSet : g[h] = g[h - 1] + f[h]
  BY <1>2 DEF Part
<1>. HIDE DEF L
<1>4. ASSUME \A h \in QLHourSet : f[h] = 0 PROVE SumOver(f, QLHourSet) = 0
  <2>. DEFINE T == {m \in Nat : m <= L => g[m] = 0}
  <2>1. 0 \in T
    BY <1>2
  <2>2. ASSUME NEW m \in Nat, m \in T PROVE m + 1 \in T
    <3>. SUFFICES ASSUME m + 1 <= L PROVE g[m + 1] = 0
      OBVIOUS
    <3>1. m + 1 \in QLHourSet /\ (m + 1) - 1 = m
      BY <1>0
    <3>2. g[m + 1] = g[m] + f[m + 1] /\ f[m + 1] = 0
      BY <1>3, <1>4, <3>1
    <3>. QED  BY <1>0, <2>2, <3>2
  <2>. HIDE DEF T
  <2>3. L \in T
    BY <1>0, <2>1, <2>2, Induct
  <2>. QED  BY <1>0, <1>2, <2>3 DEF T
<1>5. ASSUME NEW x \in QLHourSet, \A h \in QLHourSet : f[h] = IF h = x THEN 1 ELSE 0
      PROVE  SumOver(f, QLHourSet) = 1
  <2>. DEFINE T == {m \in Nat : m <= L => g[m] = IF m < x THEN 0 ELSE 1}
  <2>1. 0 \in T
    BY <1>0, <1>2
  <2>2. ASSUME NEW m \in Nat, m \in T PROVE m + 1 \in T
    BY <1>0, <1>3, <1>5, <2>2
  <2>. HIDE DEF T
  <2>3. L \in T
    BY <1>0, <2>1, <2>2, Induct
  <2>. QED  BY <1>0, <1>2, <2>3 DEF T
<1>. QED  BY <1>1, <1>4, <1>5
-----------------------------------------------------------------------------
\* The entries recorded up to an hour, the aggregates, and an aggregate whose
\* running totals are exact.
EntriesBy(now) == [id : Nat, hour : QLWindow..now, blocked : BOOLEAN]
Aggs == [base : Int, slots : HourCounts, blockedIn : HourCounts, total : Int, blocked : Int, day : Int, today : Nat]

Exact(a) ==
  /\ a.total = SumOver(a.slots, QLHourSet) /\ a.blocked = SumOver(a.blockedIn, QLHourSet)
  /\ \A h \in QLHourSet : a.blockedIn[h] <= a.slots[h]

\* The hours the model counts.
LEMMA LogConst ==
  /\ QLWindow \in Nat /\ QLWindow >= 1 /\ QLDay \in Nat /\ QLDay >= 1 /\ QLDay <= QLWindow
  /\ QLLastHour \in Nat /\ QLHourSet = 1..QLLastHour /\ QLLastHour = QLWindow + QLHours + 1
  /\ QLHours \in Nat
BY QLAssumption DEF QLLastHour, QLHourSet

\* rollToLocked and the today counters write several fields at once.
WithSlots(a, base, s, b, tot, bl) ==
  [a EXCEPT !.base = base, !.slots = s, !.blockedIn = b, !.total = tot, !.blocked = bl]
WithDay(a, d, n) == [a EXCEPT !.day = d, !.today = n]

\* Writing the slots and totals leaves the day alone ...
LEMMA AggIs ==
  ASSUME NEW a \in Aggs, NEW base \in Int, NEW s \in HourCounts, NEW b \in HourCounts, NEW tot \in Int,
         NEW bl \in Int, NEW r, r = WithSlots(a, base, s, b, tot, bl)
  PROVE  /\ r \in Aggs
         /\ r.base = base /\ r.slots = s /\ r.blockedIn = b /\ r.total = tot /\ r.blocked = bl
         /\ r.day = a.day /\ r.today = a.today
<1>1. r \in Aggs
  BY DEF Aggs, WithSlots
<1>2. r.base = base /\ r.slots = s /\ r.blockedIn = b /\ r.total = tot /\ r.blocked = bl
  BY DEF Aggs, WithSlots
<1>3. r.day = a.day /\ r.today = a.today
  BY DEF Aggs, WithSlots
<1>. QED  BY <1>1, <1>2, <1>3

\* ... and writing the day leaves the slots and totals alone.
LEMMA DayIs ==
  ASSUME NEW a \in Aggs, NEW d \in Int, NEW n \in Nat, NEW r, r = WithDay(a, d, n)
  PROVE  /\ r \in Aggs
         /\ r.base = a.base /\ r.slots = a.slots /\ r.blockedIn = a.blockedIn /\ r.total = a.total
         /\ r.blocked = a.blocked /\ r.day = d /\ r.today = n
<1>1. r \in Aggs
  BY DEF Aggs, WithDay
<1>2. /\ r.base = a.base /\ r.slots = a.slots /\ r.blockedIn = a.blockedIn /\ r.total = a.total
      /\ r.blocked = a.blocked /\ r.day = d /\ r.today = n
  BY DEF Aggs, WithDay
<1>. QED  BY <1>1, <1>2

\* Counts below others have a sum below theirs.
LEMMA SumBelow ==
  ASSUME NEW f1 \in HourCounts, NEW f2 \in HourCounts, \A h \in QLHourSet : f1[h] <= f2[h]
  PROVE  SumOver(f1, QLHourSet) <= SumOver(f2, QLHourSet)
<1>. DEFINE d == [h \in QLHourSet |-> f2[h] - f1[h]]
<1>1. d \in HourCounts
  BY DEF HourCounts
<1>2. \A h \in QLHourSet : Part(f2, QLHourSet, h) = Part(f1, QLHourSet, h) + Part(d, QLHourSet, h)
  BY DEF HourCounts, Part
<1>. HIDE DEF d
<1>3. SumOver(f2, QLHourSet) = SumOver(f1, QLHourSet) + SumOver(d, QLHourSet)
  BY <1>1, <1>2, SumAdds
<1>. QED  BY <1>1, <1>3, SumFacts

\* One more entry in one hour is one more in the sum.
LEMMA SumMore ==
  ASSUME NEW f1 \in HourCounts, NEW x \in QLHourSet, NEW f2, f2 = [f1 EXCEPT ![x] = @ + 1]
  PROVE  f2 \in HourCounts /\ SumOver(f2, QLHourSet) = SumOver(f1, QLHourSet) + 1
<1>. DEFINE u == [h \in QLHourSet |-> IF h = x THEN 1 ELSE 0]
<1>1. u \in HourCounts /\ f2 \in HourCounts
  BY DEF HourCounts
<1>2. \A h \in QLHourSet : Part(f2, QLHourSet, h) = Part(f1, QLHourSet, h) + Part(u, QLHourSet, h)
  BY DEF HourCounts, Part
<1>3. \A h \in QLHourSet : u[h] = IF h = x THEN 1 ELSE 0
  OBVIOUS
<1>. HIDE DEF u
<1>4. SumOver(u, QLHourSet) = 1
  BY <1>1, <1>3, SumFacts
<1>5. PICK v \in HourCounts : v = f2
  BY <1>1
<1>6. \A h \in QLHourSet : Part(v, QLHourSet, h) = Part(f1, QLHourSet, h) + Part(u, QLHourSet, h)
  BY <1>2, <1>5
<1>7. SumOver(v, QLHourSet) = SumOver(f1, QLHourSet) + SumOver(u, QLHourSet)
  <2>. HIDE <1>1
  <2>1. u \in HourCounts
    BY <1>1
  <2>. QED  BY <1>6, <2>1, SumAdds
<1>. QED  BY <1>1, <1>4, <1>5, <1>7

\* Emptying the hours of G takes exactly what they held off the sum
\* (subtractSlotLocked).
LEMMA SumLess ==
  ASSUME NEW f1 \in HourCounts, NEW G, NEW f2, f2 = [h \in QLHourSet |-> IF h \in G THEN 0 ELSE f1[h]]
  PROVE  f2 \in HourCounts /\ SumOver(f2, QLHourSet) = SumOver(f1, QLHourSet) - SumOver(f1, G)
<1>1. f2 \in HourCounts
  BY DEF HourCounts
<1>2. \A h \in QLHourSet : Part(f1, QLHourSet, h) = Part(f2, QLHourSet, h) + Part(f1, G, h)
  BY DEF HourCounts, Part
<1>3. SumOver(f1, QLHourSet) = SumOver(f2, QLHourSet) + SumOver(f1, G)
  BY <1>1, <1>2, SumAdds
<1>4. SumOver(f1, QLHourSet) \in Nat /\ SumOver(f2, QLHourSet) \in Nat /\ SumOver(f1, G) \in Nat
  BY <1>1, SumFacts
<1>. QED  BY <1>1, <1>3, <1>4

\* A fresh aggregate (agg.reset) is exact and empty.
LEMMA EmptyAggIs == EmptyAgg \in Aggs /\ Exact(EmptyAgg) /\ EmptyAgg.total = 0
<1>. DEFINE z == [h \in QLHourSet |-> 0]
<1>1. z \in HourCounts /\ \A h \in QLHourSet : z[h] = 0
  BY DEF HourCounts
<1>2. /\ EmptyAgg = [base |-> 0, slots |-> z, blockedIn |-> z, total |-> 0, blocked |-> 0, day |-> NoDay, today |-> 0]
  BY DEF EmptyAgg
<1>. HIDE DEF z
<1>3. SumOver(z, QLHourSet) = 0
  BY <1>1, SumFacts
<1>. QED  BY <1>1, <1>2, <1>3 DEF Aggs, Exact, NoDay

\* A later hour is on the same day or a later one, and a day later at least
\* on the next.
LEMMA DayFacts ==
  ASSUME NEW a \in Nat, NEW b \in Nat
  PROVE  /\ DayOf(a) \in Nat
         /\ a <= b => DayOf(a) <= DayOf(b)
         /\ a <= b - QLDay => DayOf(a) < DayOf(b)
<1>. DEFINE D == QLDay
            p == a \div D
            q == b \div D
<1>1. D \in Nat /\ D >= 1
  BY LogConst
<1>2. p \in Nat /\ q \in Nat /\ p * D <= a /\ a < p * D + D /\ q * D <= b /\ b < q * D + D
  BY <1>1
<1>3. DayOf(a) = p /\ DayOf(b) = q
  BY DEF DayOf
<1>. HIDE DEF p, q, D
<1>4. ASSUME q < p PROVE q * D + D <= p * D
  <2>0. p - q - 1 \in Nat /\ p = q + 1 + (p - q - 1)
    BY <1>2, <1>4
  <2>1. PICK k \in Nat : p = q + 1 + k
    BY <2>0
  <2>2. p * D = q * D + D + k * D /\ k * D \in Nat /\ p * D \in Int /\ q * D \in Int
    BY <1>1, <1>2, <2>1
  <2>. QED  BY <1>1, <2>2
<1>5. p * D \in Int /\ q * D \in Int
  BY <1>1, <1>2
<1>6. a <= b => p <= q
  BY <1>1, <1>2, <1>4, <1>5
<1>7. a <= b - D => p < q
  BY <1>1, <1>2, <1>4, <1>5
<1>. QED  BY <1>2, <1>3, <1>6, <1>7 DEF D

-----------------------------------------------------------------------------
\* rollToLocked keeps the totals exact, counts nothing twice, and leaves the
\* hours that stay in the window as they were.
LEMMA Rolls ==
  ASSUME NEW a \in Aggs, Exact(a), NEW hour \in Int
  PROVE  LET r == RollTo(a, hour) IN
         /\ r \in Aggs /\ Exact(r) /\ r.total <= a.total
         /\ r.base = hour - QLWindow + 1 /\ r.day = a.day /\ r.today = a.today
         /\ (a.base = 0 \/ a.base <= r.base) => \A h \in QLHourSet : h >= r.base => r.slots[h] = a.slots[h]
<1>. DEFINE base == hour - QLWindow + 1
            gone == InWindow(a.base) \ InWindow(base)
            s == [h \in QLHourSet |-> IF h \in gone THEN 0 ELSE a.slots[h]]
            b == [h \in QLHourSet |-> IF h \in gone THEN 0 ELSE a.blockedIn[h]]
            ts == SumOver(a.slots, gone)
            tb == SumOver(a.blockedIn, gone)
<1>0. base \in Int /\ a.base \in Int /\ a.slots \in HourCounts /\ a.blockedIn \in HourCounts /\ a.total \in Int /\ a.blocked \in Int
  BY LogConst DEF Aggs
<1>1. CASE a.base = 0
  <2>1. RollTo(a, hour) = [a EXCEPT !.base = base]
    BY <1>1 DEF RollTo
  <2>. HIDE DEF base
  <2>2. /\ [a EXCEPT !.base = base] \in Aggs /\ [a EXCEPT !.base = base].base = base
        /\ \A f \in {"slots", "blockedIn", "total", "blocked", "day", "today"} : [a EXCEPT !.base = base][f] = a[f]
    BY <1>0 DEF Aggs
  <2>. QED  BY <1>0, <2>1, <2>2 DEF Exact, base
<1>2. CASE a.base # 0
  <2>1. RollTo(a, hour) = [a EXCEPT !.base = base, !.slots = s, !.blockedIn = b, !.total = @ - ts, !.blocked = @ - tb]
    BY <1>2 DEF RollTo
  <2>2. s \in HourCounts /\ SumOver(s, QLHourSet) = SumOver(a.slots, QLHourSet) - ts
    BY <1>0, SumLess
  <2>3. b \in HourCounts /\ SumOver(b, QLHourSet) = SumOver(a.blockedIn, QLHourSet) - tb
    BY <1>0, SumLess
  <2>4. ts \in Nat /\ tb \in Nat
    BY <1>0, SumFacts
  <2>5. \A h \in QLHourSet : b[h] <= s[h]
    BY <1>0 DEF Exact, HourCounts
  <2>6. ASSUME a.base <= base, NEW h \in QLHourSet, h >= base PROVE s[h] = a.slots[h]
    <3>1. h \in Int
      BY LogConst
    <3>2. h \notin gone
      BY <1>0, <2>6, <3>1, LogConst DEF InWindow
    <3>. QED  BY <3>2
  <2>7. base = hour - QLWindow + 1
    OBVIOUS
  <2>. HIDE DEF base, s, b, ts, tb
  <2>. DEFINE r == [a EXCEPT !.base = base, !.slots = s, !.blockedIn = b, !.total = @ - ts, !.blocked = @ - tb]
  <2>8. /\ r \in Aggs /\ r.base = base /\ r.slots = s /\ r.blockedIn = b /\ r.total = a.total - ts /\ r.blocked = a.blocked - tb
        /\ r.day = a.day /\ r.today = a.today
    <3>1. r = WithSlots(a, base, s, b, a.total - ts, a.blocked - tb)
      BY DEF WithSlots
    <3>2. a.total - ts \in Int /\ a.blocked - tb \in Int
      BY <1>0, <2>4
    <3>. HIDE DEF r
    <3>. QED  BY <1>0, <2>2, <2>3, <3>1, <3>2, AggIs
  <2>9. RollTo(a, hour) = r
    BY <2>1
  <2>. HIDE DEF r
  <2>10. Exact(r) /\ r.total <= a.total
    BY <1>0, <2>2, <2>3, <2>4, <2>5, <2>8 DEF Exact
  <2>. QED  BY <1>2, <2>6, <2>7, <2>8, <2>9, <2>10
<1>. QED  BY <1>1, <1>2

\* The today counters follow the entry's day and touch nothing else.
LEMMA TodayIs ==
  ASSUME NEW a \in Aggs, NEW e, DayOf(e.hour) \in Nat
  PROVE  LET t == TodayAdded(a, e) IN
         /\ t \in Aggs /\ t.base = a.base /\ t.slots = a.slots /\ t.blockedIn = a.blockedIn
         /\ t.total = a.total /\ t.blocked = a.blocked
         /\ DayOf(e.hour) > a.day => t.day = DayOf(e.hour) /\ t.today = 1
         /\ DayOf(e.hour) = a.day => t.day = a.day /\ t.today = a.today + 1
         /\ DayOf(e.hour) < a.day => t.day = a.day /\ t.today = a.today
<1>0. a.day \in Int /\ a.today \in Nat
  BY DEF Aggs
<1>1. CASE DayOf(e.hour) >= a.day + 1
  <2>1. TodayAdded(a, e) = WithDay(a, DayOf(e.hour), 1)
    BY <1>1 DEF TodayAdded, WithDay
  <2>2. DayOf(e.hour) > a.day /\ ~(DayOf(e.hour) = a.day) /\ ~(DayOf(e.hour) < a.day) /\ DayOf(e.hour) \in Int
    BY <1>0, <1>1
  <2>3. PICK r : r = TodayAdded(a, e)
    OBVIOUS
  <2>4. /\ r \in Aggs
        /\ r.base = a.base /\ r.slots = a.slots /\ r.blockedIn = a.blockedIn /\ r.total = a.total
        /\ r.blocked = a.blocked /\ r.day = DayOf(e.hour) /\ r.today = 1
    BY <2>1, <2>2, <2>3, DayIs
  <2>. QED  BY <2>2, <2>3, <2>4
<1>2. CASE ~(DayOf(e.hour) >= a.day + 1) /\ DayOf(e.hour) >= a.day
  <2>1. TodayAdded(a, e) = WithDay(a, a.day, a.today + 1)
    BY <1>2 DEF TodayAdded, WithDay, Aggs
  <2>2. ~(DayOf(e.hour) > a.day) /\ DayOf(e.hour) = a.day /\ a.today + 1 \in Nat
    BY <1>0, <1>2
  <2>3. PICK r : r = TodayAdded(a, e)
    OBVIOUS
  <2>4. /\ r \in Aggs
        /\ r.base = a.base /\ r.slots = a.slots /\ r.blockedIn = a.blockedIn /\ r.total = a.total
        /\ r.blocked = a.blocked /\ r.day = a.day /\ r.today = a.today + 1
    BY <1>0, <2>1, <2>2, <2>3, DayIs
  <2>. QED  BY <2>2, <2>3, <2>4
<1>3. CASE ~(DayOf(e.hour) >= a.day + 1) /\ ~(DayOf(e.hour) >= a.day)
  BY <1>3 DEF TodayAdded, Aggs
<1>. QED  BY <1>1, <1>2, <1>3

\* addLocked: the totals stay exact, the entry is counted in its hour when the
\* window holds it, and the window moves forward only.
LEMMA AddedIs ==
  ASSUME NEW a \in Aggs, Exact(a), NEW now \in Nat, now <= QLLastHour, NEW e \in EntriesBy(now),
         a.base = 0 \/ a.base >= 1
  PROVE  LET z == Added(a, e) IN
         /\ z \in Aggs /\ Exact(z) /\ z.total <= a.total + 1
         /\ z.base = (IF a.base = 0 \/ e.hour > a.base + QLWindow - 1 THEN e.hour - QLWindow + 1 ELSE a.base)
         /\ \A h \in QLHourSet : h >= z.base => z.slots[h] = a.slots[h] + (IF h = e.hour THEN 1 ELSE 0)
         /\ DayOf(e.hour) > a.day => z.day = DayOf(e.hour) /\ z.today = 1
         /\ DayOf(e.hour) = a.day => z.day = a.day /\ z.today = a.today + 1
         /\ DayOf(e.hour) < a.day => z.day = a.day /\ z.today = a.today
<1>0. e.hour \in QLHourSet /\ e.hour \in Nat /\ e.hour <= now /\ e.hour >= QLWindow /\ e.blocked \in BOOLEAN /\ a.base \in Int
  BY LogConst DEF EntriesBy, Aggs
<1>1. DayOf(e.hour) \in Nat
  BY <1>0, DayFacts
<1>2. PICK t \in Aggs : /\ t = TodayAdded(a, e)
                        /\ t.base = a.base /\ t.slots = a.slots /\ t.blockedIn = a.blockedIn
                        /\ t.total = a.total /\ t.blocked = a.blocked
                        /\ DayOf(e.hour) > a.day => t.day = DayOf(e.hour) /\ t.today = 1
                        /\ DayOf(e.hour) = a.day => t.day = a.day /\ t.today = a.today + 1
                        /\ DayOf(e.hour) < a.day => t.day = a.day /\ t.today = a.today
  BY <1>1, TodayIs
<1>3. Exact(t)
  BY <1>2 DEF Exact
<1>4. PICK r \in Aggs : /\ r = IF t.base = 0 \/ e.hour > t.base + QLWindow - 1 THEN RollTo(t, e.hour) ELSE t
                        /\ Exact(r) /\ r.total <= t.total /\ r.day = t.day /\ r.today = t.today
                        /\ r.base = (IF t.base = 0 \/ e.hour > t.base + QLWindow - 1 THEN e.hour - QLWindow + 1 ELSE t.base)
                        /\ \A h \in QLHourSet : h >= r.base => r.slots[h] = t.slots[h]
  <2>1. CASE t.base = 0 \/ e.hour > t.base + QLWindow - 1
    <3>1. t.base = 0 \/ t.base <= e.hour - QLWindow + 1
      BY <1>0, <1>2, <2>1, LogConst
    <3>2. e.hour \in Int
      BY <1>0
    <3>3. PICK r : r = RollTo(t, e.hour)
      OBVIOUS
    <3>4. /\ r \in Aggs /\ Exact(r) /\ r.total <= t.total
          /\ r.base = e.hour - QLWindow + 1 /\ r.day = t.day /\ r.today = t.today
          /\ (t.base = 0 \/ t.base <= r.base) => \A h \in QLHourSet : h >= r.base => r.slots[h] = t.slots[h]
      BY <1>3, <3>2, <3>3, Rolls
    <3>. QED  BY <2>1, <3>1, <3>3, <3>4
  <2>2. CASE ~(t.base = 0 \/ e.hour > t.base + QLWindow - 1)
    <3>1. t.total <= t.total
      BY DEF Aggs
    <3>. QED  BY <1>3, <2>2, <3>1
  <2>. QED  BY <2>1, <2>2
<1>. DEFINE z == [r EXCEPT !.slots[e.hour] = @ + 1, !.total = @ + 1,
                           !.blockedIn[e.hour] = IF e.blocked THEN @ + 1 ELSE @,
                           !.blocked = IF e.blocked THEN @ + 1 ELSE @]
<1>5. Added(a, e) = IF e.hour < r.base THEN r ELSE z
  BY <1>2, <1>4 DEF Added
<1>. HIDE DEF z
<1>6. CASE e.hour < r.base
  <2>1. Added(a, e) = r
    BY <1>5, <1>6
  <2>2. r.base \in Int /\ a.slots \in HourCounts /\ a.total \in Int /\ r.total \in Int
    BY DEF Aggs
  <2>3. \A h \in QLHourSet : h >= r.base => h # e.hour /\ a.slots[h] + 0 = a.slots[h]
    BY <1>0, <1>6, <2>2, LogConst, SMTT(30) DEF HourCounts
  <2>4. \A h \in QLHourSet : h >= r.base => r.slots[h] = a.slots[h] + (IF h = e.hour THEN 1 ELSE 0)
    BY <1>2, <1>4, <2>3
  <2>5. r.total <= a.total + 1
    BY <1>2, <1>4, <2>2
  <2>. QED  BY <1>2, <1>4, <2>1, <2>4, <2>5
<1>7. CASE ~(e.hour < r.base)
  <2>. DEFINE s == [r.slots EXCEPT ![e.hour] = @ + 1]
              b == IF e.blocked THEN [r.blockedIn EXCEPT ![e.hour] = @ + 1] ELSE r.blockedIn
              tb == IF e.blocked THEN r.blocked + 1 ELSE r.blocked
  <2>1. r.slots \in HourCounts /\ r.blockedIn \in HourCounts
    BY DEF Aggs
  <2>2. s \in HourCounts /\ SumOver(s, QLHourSet) = SumOver(r.slots, QLHourSet) + 1
    BY <1>0, <2>1, SumMore
  <2>3. b \in HourCounts /\ SumOver(b, QLHourSet) = SumOver(r.blockedIn, QLHourSet) + (IF e.blocked THEN 1 ELSE 0)
    <3>1. CASE e.blocked = TRUE
      BY <1>0, <2>1, <3>1, SumMore
    <3>2. CASE e.blocked = FALSE
      BY <2>1, <3>2, SumFacts
    <3>. QED  BY <1>0, <3>1, <3>2
  <2>4. \A h \in QLHourSet : b[h] <= s[h]
    BY <1>0, <1>4, <2>1 DEF Exact, HourCounts
  <2>5. \A h \in QLHourSet : s[h] = r.slots[h] + (IF h = e.hour THEN 1 ELSE 0)
    BY <1>0, <2>1 DEF HourCounts
  <2>6. tb = r.blocked + (IF e.blocked THEN 1 ELSE 0) /\ tb \in Int
    BY DEF Aggs
  <2>7. z = [r EXCEPT !.slots = s, !.total = r.total + 1, !.blockedIn = b, !.blocked = tb]
    <3>1. CASE e.blocked = TRUE
      BY <3>1 DEF z, Aggs, HourCounts
    <3>2. CASE e.blocked = FALSE
      BY <3>2 DEF z, Aggs, HourCounts
    <3>. QED  BY <1>0, <3>1, <3>2
  <2>. HIDE DEF s, b, tb
  <2>8. /\ z \in Aggs /\ z.slots = s /\ z.blockedIn = b /\ z.total = r.total + 1 /\ z.blocked = tb /\ z.base = r.base
        /\ z.day = r.day /\ z.today = r.today
    <3>1. r.base \in Int /\ r.total + 1 \in Int
      BY DEF Aggs
    <3>2. z = WithSlots(r, r.base, s, b, r.total + 1, tb)
      BY <2>7 DEF Aggs, WithSlots
    <3>. QED  BY <2>2, <2>3, <2>6, <3>1, <3>2, AggIs
  <2>9. Exact(z)
    BY <1>4, <2>2, <2>3, <2>4, <2>6, <2>8 DEF Exact, Aggs
  <2>10. z.total <= a.total + 1
    BY <1>2, <1>4, <2>8 DEF Aggs
  <2>11. \A h \in QLHourSet : h >= z.base => z.slots[h] = a.slots[h] + (IF h = e.hour THEN 1 ELSE 0)
    BY <1>2, <1>4, <2>5, <2>8
  <2>. QED  BY <1>2, <1>4, <1>5, <1>7, <2>8, <2>9, <2>10, <2>11
<1>. QED  BY <1>6, <1>7

-----------------------------------------------------------------------------
\* How many of the first n entries are in T.
Hits(T, n) == Cardinality({i \in 1..n : i \in T})

\* Counting entry by entry.
LEMMA HitsAre ==
  ASSUME NEW T
  PROVE  /\ Hits(T, 0) = 0
         /\ \A n \in Nat : /\ Hits(T, n) \in Nat
                           /\ Hits(T, n + 1) = Hits(T, n) + (IF n + 1 \in T THEN 1 ELSE 0)
                           /\ (\A i \in 1..n : i \notin T) => Hits(T, n) = 0
<1>. DEFINE H(n) == {i \in 1..n : i \in T}
<1>1. H(0) = {} /\ \A n \in Nat : (\A i \in 1..n : i \notin T) => H(n) = {}
  OBVIOUS
<1>2. ASSUME NEW n \in Nat
      PROVE  /\ IsFiniteSet(H(n)) /\ Cardinality(H(n)) \in Nat
             /\ Cardinality(H(n + 1)) = Cardinality(H(n)) + (IF n + 1 \in T THEN 1 ELSE 0)
  <2>1. IsFiniteSet(1..n) /\ H(n) \in SUBSET (1..n)
    BY FS_Interval
  <2>2. IsFiniteSet(H(n)) /\ Cardinality(H(n)) \in Nat
    BY <2>1, FS_Subset, FS_CardinalityType
  <2>3. CASE n + 1 \in T
    <3>1. H(n + 1) = H(n) \cup {n + 1} /\ n + 1 \notin H(n)
      BY <2>3
    <3>2. Cardinality(H(n) \cup {n + 1}) = Cardinality(H(n)) + 1
      BY <2>2, <3>1, FS_AddElement
    <3>. QED  BY <2>2, <2>3, <3>1, <3>2
  <2>4. CASE n + 1 \notin T
    <3>1. H(n + 1) = H(n)
      BY <2>4
    <3>. QED  BY <2>2, <2>4, <3>1
  <2>. QED  BY <2>3, <2>4
<1>3. Cardinality({}) = 0
  BY FS_EmptySet
<1>. QED  BY <1>1, <1>2, <1>3 DEF Hits

\* The stream's entries of an hour and of a day.
AtHour(s, h) == {i \in Nat : s[i].hour = h}
OnDay(s, d) == {i \in Nat : DayOf(s[i].hour) = d}

\* Aggregate a has seen exactly the first n entries of stream s, as far as the
\* window at hour now can tell: the hours it shows are counted, it is not
\* ahead of the clock, entries of a later day than its own have left the
\* window, and its today counter is today's.
Agree(a, s, n, now) ==
  /\ \A h \in QLHourSet : h >= a.base /\ h >= now - QLWindow + 1 => a.slots[h] = Hits(AtHour(s, h), n)
  /\ a.day <= DayOf(now) /\ a.base <= now - QLWindow + 1 /\ (a.base = 0 \/ a.base >= 1)
  /\ \A i \in 1..n : DayOf(s[i].hour) <= a.day \/ s[i].hour < now - QLWindow
  /\ a.day = DayOf(now) => a.today = Hits(OnDay(s, a.day), n)

\* The hours the clock shows.
Nows == {m \in Nat : QLWindow + 1 <= m /\ m <= QLLastHour}

\* What the clock and an entry's hour are.
LEMMA NowIs ==
  ASSUME NEW now \in Nows
  PROVE  /\ now \in Nat /\ now >= QLWindow + 1 /\ now <= QLLastHour /\ DayOf(now) \in Nat
         /\ \A e \in EntriesBy(now) : /\ e.hour \in QLHourSet /\ e.hour \in Nat /\ e.hour <= now
                                      /\ e.hour >= QLWindow /\ DayOf(e.hour) \in Nat /\ DayOf(e.hour) <= DayOf(now)
                                      /\ e.id \in Nat /\ e.blocked \in BOOLEAN
                                      /\ e.hour < now - QLWindow => DayOf(e.hour) < DayOf(now)
<1>1. now \in Nat /\ now >= QLWindow + 1 /\ now <= QLLastHour
  BY DEF Nows
<1>2. DayOf(now) \in Nat
  BY <1>1, DayFacts
<1>3. ASSUME NEW e \in EntriesBy(now)
      PROVE  /\ e.hour \in QLHourSet /\ e.hour \in Nat /\ e.hour <= now
             /\ e.hour >= QLWindow /\ e.id \in Nat /\ e.blocked \in BOOLEAN
  BY <1>1, LogConst DEF EntriesBy
<1>4. ASSUME NEW e \in EntriesBy(now)
      PROVE  /\ DayOf(e.hour) \in Nat /\ DayOf(e.hour) <= DayOf(now)
             /\ e.hour < now - QLWindow => DayOf(e.hour) < DayOf(now)
  <2>1. e.hour \in Nat /\ e.hour <= now
    BY <1>3, <1>4
  <2>2. e.hour < now - QLWindow => e.hour <= now - QLDay
    BY <1>1, <2>1, LogConst
  <2>. QED  BY <1>1, <2>1, <2>2, DayFacts
<1>. QED  BY <1>1, <1>2, <1>3, <1>4

\* Folding the next entry of the stream keeps the agreement (writeBatch, and
\* seedAggregate): the one step that needs a window no shorter than a day.
LEMMA AgreeAdded ==
  ASSUME NEW now \in Nows, NEW a \in Aggs, Exact(a), NEW s \in Seq(EntriesBy(now)), NEW n \in Nat, n + 1 <= Len(s),
         Agree(a, s, n, now)
  PROVE  /\ Added(a, s[n + 1]) \in Aggs /\ Exact(Added(a, s[n + 1])) /\ Added(a, s[n + 1]).total <= a.total + 1
         /\ Agree(Added(a, s[n + 1]), s, n + 1, now)
<1>. DEFINE e == s[n + 1]
<1>1. e \in EntriesBy(now) /\ \A i \in 1..(n + 1) : s[i] \in EntriesBy(now)
  BY ElementOfSeq
<1>2. /\ a.base = 0 \/ a.base >= 1
      /\ a.base \in Int /\ a.day \in Int /\ a.today \in Nat /\ a.slots \in HourCounts
      /\ a.day <= DayOf(now) /\ a.base <= now - QLWindow + 1
  BY DEF Agree, Aggs
<1>. HIDE DEF e
<1>3. PICK z : z = Added(a, e)
  OBVIOUS
<1>4. /\ z \in Aggs /\ Exact(z) /\ z.total <= a.total + 1
      /\ z.base = (IF a.base = 0 \/ e.hour > a.base + QLWindow - 1 THEN e.hour - QLWindow + 1 ELSE a.base)
      /\ \A h \in QLHourSet : h >= z.base => z.slots[h] = a.slots[h] + (IF h = e.hour THEN 1 ELSE 0)
      /\ DayOf(e.hour) > a.day => z.day = DayOf(e.hour) /\ z.today = 1
      /\ DayOf(e.hour) = a.day => z.day = a.day /\ z.today = a.today + 1
      /\ DayOf(e.hour) < a.day => z.day = a.day /\ z.today = a.today
  BY <1>1, <1>2, <1>3, NowIs, AddedIs, SMTT(30)
<1>5. /\ e.hour \in Nat /\ e.hour <= now /\ e.hour >= QLWindow /\ DayOf(e.hour) \in Nat /\ DayOf(e.hour) <= DayOf(now)
      /\ e.hour \in QLHourSet /\ DayOf(now) \in Nat /\ now \in Nat
  BY <1>1, NowIs
<1>6. z.base >= a.base /\ z.base <= now - QLWindow + 1 /\ (z.base = 0 \/ z.base >= 1) /\ z.base \in Int
  <2>1. CASE a.base = 0 \/ e.hour > a.base + QLWindow - 1
    <3>1. z.base = e.hour - QLWindow + 1
      BY <1>4, <2>1
    <3>. QED  BY <1>2, <1>5, <2>1, <3>1, LogConst, SMTT(30)
  <2>2. CASE ~(a.base = 0 \/ e.hour > a.base + QLWindow - 1)
    <3>1. z.base = a.base
      BY <1>4, <2>2
    <3>. QED  BY <1>2, <3>1
  <2>. QED  BY <2>1, <2>2
<1>7. z.day <= DayOf(now) /\ z.day >= a.day /\ z.day >= DayOf(e.hour) /\ z.day \in Int
  BY <1>2, <1>4, <1>5
<1>8. ASSUME NEW h \in QLHourSet, h >= z.base, h >= now - QLWindow + 1
      PROVE  z.slots[h] = Hits(AtHour(s, h), n + 1)
  <2>1. h \in Nat /\ h >= a.base
    BY <1>2, <1>6, <1>8, LogConst
  <2>2. a.slots[h] = Hits(AtHour(s, h), n)
    BY <1>8, <2>1 DEF Agree
  <2>3. Hits(AtHour(s, h), n + 1) = Hits(AtHour(s, h), n) + (IF n + 1 \in AtHour(s, h) THEN 1 ELSE 0)
    BY HitsAre
  <2>4. n + 1 \in AtHour(s, h) <=> h = e.hour
    BY DEF AtHour, e
  <2>. QED  BY <1>4, <1>8, <2>2, <2>3, <2>4
<1>9. ASSUME NEW i \in 1..(n + 1) PROVE DayOf(s[i].hour) <= z.day \/ s[i].hour < now - QLWindow
  <2>1. CASE i = n + 1
    BY <1>7, <2>1 DEF e
  <2>2. CASE i # n + 1
    <3>1. i \in 1..n /\ s[i] \in EntriesBy(now)
      BY <1>1, <2>2
    <3>2. DayOf(s[i].hour) <= a.day \/ s[i].hour < now - QLWindow
      BY <3>1 DEF Agree
    <3>3. DayOf(s[i].hour) \in Nat
      BY <3>1, NowIs
    <3>. QED  BY <1>2, <1>7, <3>2, <3>3
  <2>. QED  BY <2>1, <2>2
<1>10. ASSUME z.day = DayOf(now) PROVE z.today = Hits(OnDay(s, z.day), n + 1)
  <2>1. /\ Hits(OnDay(s, z.day), n + 1) = Hits(OnDay(s, z.day), n) + (IF n + 1 \in OnDay(s, z.day) THEN 1 ELSE 0)
        /\ Hits(OnDay(s, z.day), n) \in Nat
    BY HitsAre
  <2>2. n + 1 \in OnDay(s, z.day) <=> DayOf(e.hour) = z.day
    BY DEF OnDay, e
  <2>3. CASE DayOf(e.hour) > a.day
    <3>1. ASSUME NEW i \in 1..n PROVE i \notin OnDay(s, z.day)
      <4>1. s[i] \in EntriesBy(now) /\ (DayOf(s[i].hour) <= a.day \/ s[i].hour < now - QLWindow)
        BY <1>1 DEF Agree
      <4>2. DayOf(s[i].hour) \in Nat /\ (s[i].hour < now - QLWindow => DayOf(s[i].hour) < DayOf(now))
        BY <4>1, NowIs
      <4>3. DayOf(s[i].hour) # z.day
        BY <1>2, <1>4, <1>5, <1>10, <2>3, <4>1, <4>2
      <4>. QED  BY <4>3 DEF OnDay
    <3>2. Hits(OnDay(s, z.day), n) = 0
      BY <3>1, HitsAre
    <3>. QED  BY <1>4, <2>1, <2>2, <2>3, <3>2
  <2>4. CASE DayOf(e.hour) = a.day
    <3>1. z.day = a.day /\ z.today = a.today + 1
      BY <1>4, <2>4
    <3>2. a.today = Hits(OnDay(s, a.day), n)
      BY <1>10, <3>1 DEF Agree
    <3>. QED  BY <2>1, <2>2, <2>4, <3>1, <3>2
  <2>5. CASE DayOf(e.hour) < a.day
    <3>1. z.day = a.day /\ z.today = a.today
      BY <1>4, <2>5
    <3>2. a.today = Hits(OnDay(s, a.day), n)
      BY <1>10, <3>1 DEF Agree
    <3>3. DayOf(e.hour) # z.day
      BY <1>2, <1>5, <2>5, <3>1
    <3>. QED  BY <2>1, <2>2, <3>1, <3>2, <3>3
  <2>. QED  BY <1>2, <1>5, <2>3, <2>4, <2>5
<1>11. Agree(z, s, n + 1, now)
  BY <1>6, <1>7, <1>8, <1>9, <1>10 DEF Agree
<1>12. e = s[n + 1]
  BY DEF e
<1>. QED  BY <1>3, <1>4, <1>11, <1>12

\* An entry older than the window need not be folded: this is why the seed
\* may start 25 hours back.
LEMMA AgreeSkips ==
  ASSUME NEW now \in Nows, NEW a \in Aggs, NEW s \in Seq(EntriesBy(now)), NEW n \in Nat, n + 1 <= Len(s),
         Agree(a, s, n, now), s[n + 1].hour < now - QLWindow
  PROVE  Agree(a, s, n + 1, now)
<1>. DEFINE e == s[n + 1]
<1>1. e \in EntriesBy(now) /\ n + 1 \in Nat
  BY ElementOfSeq
<1>2. /\ e.hour \in Nat /\ e.hour < now - QLWindow /\ DayOf(e.hour) < DayOf(now) /\ DayOf(e.hour) \in Nat /\ DayOf(now) \in Nat
      /\ now \in Nat
  BY <1>1, NowIs
<1>3. ASSUME NEW h \in QLHourSet, h >= a.base, h >= now - QLWindow + 1
      PROVE  a.slots[h] = Hits(AtHour(s, h), n + 1)
  <2>1. h # e.hour
    BY <1>2, <1>3, LogConst, SMTT(30)
  <2>2. n + 1 \notin AtHour(s, h)
    BY <2>1 DEF AtHour
  <2>3. Hits(AtHour(s, h), n + 1) = Hits(AtHour(s, h), n) /\ a.slots[h] = Hits(AtHour(s, h), n)
    <3>1. Hits(AtHour(s, h), n + 1) = Hits(AtHour(s, h), n) + 0 /\ Hits(AtHour(s, h), n) \in Nat
      BY <2>2, HitsAre
    <3>. QED  BY <1>3, <3>1 DEF Agree
  <2>. QED  BY <2>3
<1>4. ASSUME a.day = DayOf(now) PROVE a.today = Hits(OnDay(s, a.day), n + 1)
  <2>1. n + 1 \notin OnDay(s, a.day)
    BY <1>2, <1>4 DEF OnDay
  <2>2. Hits(OnDay(s, a.day), n + 1) = Hits(OnDay(s, a.day), n) + 0 /\ Hits(OnDay(s, a.day), n) \in Nat
    BY <2>1, HitsAre
  <2>. QED  BY <1>4, <2>2 DEF Agree
<1>5. \A i \in 1..(n + 1) : DayOf(s[i].hour) <= a.day \/ s[i].hour < now - QLWindow
  <2>. SUFFICES ASSUME NEW i \in 1..(n + 1), i # n + 1 PROVE DayOf(s[i].hour) <= a.day \/ s[i].hour < now - QLWindow
    OBVIOUS
  <2>1. i \in 1..n
    OBVIOUS
  <2>. QED  BY <2>1 DEF Agree
<1>. QED  BY <1>3, <1>4, <1>5 DEF Agree

\* Time passing keeps the agreement.
LEMMA AgreeTicks ==
  ASSUME NEW now \in Nows, now + 1 \in Nows, NEW a \in Aggs, NEW s, NEW n \in Nat, s \in Seq(EntriesBy(now)), n <= Len(s),
         Agree(a, s, n, now)
  PROVE  Agree(a, s, n, now + 1)
<1>1. now \in Nat /\ DayOf(now) \in Nat /\ DayOf(now + 1) \in Nat /\ DayOf(now) <= DayOf(now + 1)
  BY NowIs, DayFacts
<1>2. a.day \in Int /\ a.base \in Int
  BY DEF Aggs
<1>3. \A h \in QLHourSet : h >= (now + 1) - QLWindow + 1 => h >= now - QLWindow + 1
  BY <1>1, LogConst
<1>4. \A i \in 1..n : s[i].hour < now - QLWindow => s[i].hour < (now + 1) - QLWindow
  <2>. SUFFICES ASSUME NEW i \in 1..n PROVE s[i].hour < now - QLWindow => s[i].hour < (now + 1) - QLWindow
    OBVIOUS
  <2>1. s[i] \in EntriesBy(now)
    BY ElementOfSeq
  <2>2. s[i].hour \in Nat
    BY <2>1, NowIs
  <2>. QED  BY <1>1, <2>2, LogConst
<1>5. a.base <= (now + 1) - QLWindow + 1 /\ a.day <= DayOf(now + 1)
  BY <1>1, <1>2, LogConst DEF Agree
<1>6. a.day = DayOf(now + 1) => a.day = DayOf(now)
  BY <1>1, <1>2 DEF Agree
<1>. QED  BY <1>3, <1>4, <1>5, <1>6 DEF Agree

\* resetTodayIfNeeded keeps the agreement: no entry of the new day was seen.
LEMMA AgreePolls ==
  ASSUME NEW now \in Nows, NEW a \in Aggs, NEW s \in Seq(EntriesBy(now)), NEW n \in Nat, n <= Len(s),
         Agree(a, s, n, now), DayOf(now) > a.day, NEW r, r = WithDay(a, DayOf(now), 0)
  PROVE  Agree(r, s, n, now)
<1>1. DayOf(now) \in Nat /\ a.day \in Int /\ a.base \in Int
  BY NowIs DEF Aggs
<1>2. r.base = a.base /\ r.slots = a.slots /\ r.day = DayOf(now) /\ r.today = 0
  BY <1>1, DayIs
<1>3. ASSUME NEW i \in 1..n PROVE DayOf(s[i].hour) < DayOf(now)
  <2>1. s[i] \in EntriesBy(now) /\ (DayOf(s[i].hour) <= a.day \/ s[i].hour < now - QLWindow)
    BY ElementOfSeq DEF Agree
  <2>2. DayOf(s[i].hour) \in Nat /\ (s[i].hour < now - QLWindow => DayOf(s[i].hour) < DayOf(now))
    BY <2>1, NowIs
  <2>. QED  BY <1>1, <2>1, <2>2
<1>4. Hits(OnDay(s, r.day), n) = 0
  <2>1. \A i \in 1..n : DayOf(s[i].hour) \in Nat
    BY ElementOfSeq, NowIs
  <2>2. \A i \in 1..n : i \notin OnDay(s, r.day)
    BY <1>1, <1>2, <1>3, <2>1 DEF OnDay
  <2>. QED  BY <2>2, HitsAre
<1>5. \A i \in 1..n : DayOf(s[i].hour) <= r.day
  <2>1. \A i \in 1..n : DayOf(s[i].hour) \in Nat
    BY ElementOfSeq, NowIs
  <2>. QED  BY <1>1, <1>2, <1>3, <2>1
<1>6. r.day <= DayOf(now)
  BY <1>1, <1>2
<1>. QED  BY <1>2, <1>4, <1>5, <1>6 DEF Agree

\* A fresh aggregate agrees with nothing seen.
LEMMA AgreeEmpty ==
  ASSUME NEW now \in Nows, NEW s
  PROVE  Agree(EmptyAgg, s, 0, now)
<1>1. EmptyAgg.base = 0 /\ EmptyAgg.day = -1 /\ \A h \in QLHourSet : EmptyAgg.slots[h] = 0
  BY DEF EmptyAgg, NoDay
<1>2. now \in Nat /\ now >= QLWindow + 1 /\ DayOf(now) \in Nat
  BY NowIs
<1>3. 0 <= now - QLWindow + 1 /\ -1 <= DayOf(now) /\ -1 # DayOf(now)
  BY <1>2, LogConst
<1>. QED  BY <1>1, <1>3, HitsAre DEF Agree

\* The seed, by induction over the entries it walks: its aggregate is exact
\* and agrees with the stream as far as it went.
LEMMA SeededIs ==
  ASSUME NEW now \in Nows, NEW s \in Seq(EntriesBy(now)), NEW from \in 1..(Len(s) + 1), NEW to \in (from - 1)..Len(s),
         \A i \in 1..(from - 1) : s[i].hour < now - QLWindow
  PROVE  /\ Seeded(s, from, to) \in Aggs /\ Exact(Seeded(s, from, to)) /\ Seeded(s, from, to).total <= to
         /\ Agree(Seeded(s, from, to), s, to, now)
<1>. DEFINE agg[n \in 0..to] == IF n < from THEN EmptyAgg ELSE Added(agg[n - 1], s[n])
            Fits(x, n) == /\ x \in Aggs /\ Exact(x) /\ x.total <= n
                          /\ Agree(x, s, n, now)
<1>0. Len(s) \in Nat /\ from \in Nat /\ to \in Nat /\ from >= 1 /\ to >= from - 1 /\ to <= Len(s)
  OBVIOUS
<1>. DEFINE T == {n \in Nat : n <= to =>
                   \E g \in [0..n -> Aggs] :
                      /\ \A m \in 0..n : g[m] = IF m < from THEN EmptyAgg ELSE Added(g[m - 1], s[m])
                      /\ \A m \in 0..n : Fits(g[m], m)}
<1>. HIDE DEF agg
<1>1. 0 \in T
  <2>. DEFINE g == [m \in 0..0 |-> EmptyAgg]
  <2>1. g \in [0..0 -> Aggs] /\ g[0] = EmptyAgg /\ 0 < from
    BY <1>0, EmptyAggIs
  <2>2. Fits(EmptyAgg, 0)
    <3>1. EmptyAgg.total <= 0
      BY EmptyAggIs
    <3>. QED  BY <3>1, EmptyAggIs, AgreeEmpty
  <2>3. \A m \in 0..0 : m = 0 /\ g[m] = EmptyAgg
    BY <2>1
  <2>. HIDE DEF g, Fits
  <2>4. /\ \A m \in 0..0 : g[m] = IF m < from THEN EmptyAgg ELSE Added(g[m - 1], s[m])
        /\ \A m \in 0..0 : Fits(g[m], m)
    BY <2>1, <2>2, <2>3
  <2>. QED  BY <2>1, <2>4
<1>2. ASSUME NEW n \in Nat, n \in T PROVE n + 1 \in T
  <2>. SUFFICES ASSUME n + 1 <= to
                PROVE  \E g \in [0..(n + 1) -> Aggs] :
                         /\ \A m \in 0..(n + 1) : g[m] = IF m < from THEN EmptyAgg ELSE Added(g[m - 1], s[m])
                         /\ \A m \in 0..(n + 1) : Fits(g[m], m)
    BY SMTT(30)
  <2>1. PICK g \in [0..n -> Aggs] :
           /\ \A m \in 0..n : g[m] = IF m < from THEN EmptyAgg ELSE Added(g[m - 1], s[m])
           /\ \A m \in 0..n : Fits(g[m], m)
    BY <1>0, <1>2
  <2>. HIDE DEF T
  <2>. DEFINE x == IF n + 1 < from THEN EmptyAgg ELSE Added(g[n], s[n + 1])
              f == [m \in 0..(n + 1) |-> IF m = n + 1 THEN x ELSE g[m]]
  <2>2. n \in 0..n /\ n + 1 <= Len(s) /\ Fits(g[n], n)
    BY <1>0, <2>1
  <2>3. Fits(x, n + 1)
    <3>1. CASE n + 1 < from
      <4>1. n \in 0..n /\ n < from
        BY <1>0, <3>1
      <4>2. x = EmptyAgg /\ g[n] = EmptyAgg /\ n + 1 \in 1..(from - 1)
        BY <1>0, <2>1, <3>1, <4>1
      <4>3. Agree(EmptyAgg, s, n, now)
        BY <2>2, <4>2
      <4>4. Agree(EmptyAgg, s, n + 1, now)
        BY <2>2, <4>2, <4>3, EmptyAggIs, AgreeSkips
      <4>5. EmptyAgg.total <= n + 1
        BY EmptyAggIs
      <4>. QED  BY <4>2, <4>4, <4>5, EmptyAggIs
    <3>2. CASE ~(n + 1 < from)
      <4>1. x = Added(g[n], s[n + 1])
        BY <3>2
      <4>2. g[n] \in Aggs /\ Exact(g[n]) /\ g[n].total <= n /\ Agree(g[n], s, n, now)
        BY <2>2
      <4>3. x \in Aggs /\ Exact(x) /\ x.total <= g[n].total + 1 /\ Agree(x, s, n + 1, now)
        BY <2>2, <4>1, <4>2, AgreeAdded
      <4>4. x.total \in Int /\ g[n].total \in Int
        BY <4>2, <4>3 DEF Aggs
      <4>. QED  BY <4>2, <4>3, <4>4
    <3>. QED  BY <3>1, <3>2
  <2>4. f \in [0..(n + 1) -> Aggs] /\ f[n + 1] = x /\ \A m \in 0..n : f[m] = g[m]
    BY <2>1, <2>3
  <2>. HIDE DEF f
  <2>. HIDE DEF Fits
  <2>5. ASSUME NEW m \in 0..(n + 1)
        PROVE  (f[m] = IF m < from THEN EmptyAgg ELSE Added(f[m - 1], s[m])) /\ Fits(f[m], m)
    <3>1. CASE m = n + 1
      <4>1. m - 1 = n /\ f[n] = g[n]
        BY <2>4, <3>1
      <4>. QED  BY <2>3, <2>4, <3>1, <4>1
    <3>2. CASE m # n + 1
      <4>1. m \in 0..n
        BY <3>2
      <4>2. CASE m < from
        BY <2>1, <2>4, <4>1, <4>2
      <4>3. CASE ~(m < from)
        <5>1. m - 1 \in 0..n
          BY <1>0, <4>1, <4>3
        <5>. QED  BY <2>1, <2>4, <4>1, <4>3, <5>1
      <4>. QED  BY <4>2, <4>3
    <3>. QED  BY <3>1, <3>2
  <2>. QED  BY <2>4, <2>5
<1>. HIDE DEF Fits
<1>3. PICK g \in [0..to -> Aggs] :
        /\ \A m \in 0..to : g[m] = IF m < from THEN EmptyAgg ELSE Added(g[m - 1], s[m])
        /\ \A m \in 0..to : Fits(g[m], m)
  <2>. HIDE DEF T
  <2>1. to \in T
    BY <1>0, <1>1, <1>2, Induct
  <2>2. to <= to
    BY <1>0
  <2>. QED  BY <2>1, <2>2 DEF T
<1>. HIDE DEF T
<1>4. g = [n \in 0..to |-> IF n < from THEN EmptyAgg ELSE Added(g[n - 1], s[n])]
  BY <1>3
<1>5. agg = [n \in 0..to |-> IF n < from THEN EmptyAgg ELSE Added(agg[n - 1], s[n])]
  <2>. SUFFICES \E ff : ff = [n \in 0..to |-> IF n < from THEN EmptyAgg ELSE Added(ff[n - 1], s[n])]
    BY DEF agg
  <2>. QED  BY <1>4
<1>6. \A m \in 0..to : agg[m] = g[m]
  <2>. DEFINE U == {m \in Nat : m <= to => agg[m] = g[m]}
  <2>1. 0 \in U
    BY <1>0, <1>4, <1>5
  <2>2. ASSUME NEW m \in Nat, m \in U PROVE m + 1 \in U
    <3>. SUFFICES ASSUME m + 1 <= to PROVE agg[m + 1] = g[m + 1]
      OBVIOUS
    <3>1. agg[m] = g[m] /\ m + 1 \in 0..to /\ (m + 1) - 1 = m
      BY <1>0, <2>2
    <3>2. agg[m + 1] = IF m + 1 < from THEN EmptyAgg ELSE Added(agg[(m + 1) - 1], s[m + 1])
      BY <1>5, <3>1
    <3>3. g[m + 1] = IF m + 1 < from THEN EmptyAgg ELSE Added(g[(m + 1) - 1], s[m + 1])
      BY <1>3, <3>1
    <3>. QED  BY <3>1, <3>2, <3>3
  <2>. HIDE DEF U
  <2>3. Nat \subseteq U
    BY <2>1, <2>2, Induct
  <2>. QED  BY <1>0, <2>3 DEF U
<1>7. Seeded(s, from, to) = agg[to]
  BY DEF Seeded, agg
<1>8. Seeded(s, from, to) = g[to] /\ Fits(g[to], to)
  BY <1>0, <1>3, <1>6, <1>7
<1>. QED  BY <1>8 DEF Fits

-----------------------------------------------------------------------------
\* What is on its way to the stream.
Entries == EntriesBy(qlNow)
LateCount == IF qlLate = NoLogEntry THEN 0 ELSE 1
LogQueued == Len(qlBatch) + Len(qlQueue) + LateCount

\* Histories.
Hists == [recorded : Nat, clears : Nat, mixed : BOOLEAN, overlap : SUBSET Nat]

\* Types.
LogTypes ==
  /\ qlNow \in Nows
  /\ qlQueue \in Seq(Entries) /\ qlBatch \in Seq(Entries) /\ qlFold \in Seq(Entries) /\ qlStream \in Seq(Entries)
  /\ qlLate \in Entries \cup {NoLogEntry}
  /\ qlAgg \in Aggs
  /\ qlWriter \in {"run", "drain", "exit"} /\ qlClosed \in BOOLEAN /\ qlClear \in BOOLEAN
  /\ qlHist \in Hists

\* Queue, batch and stream are bounded, and nothing is in two places: what is
\* queued, on its way to the aggregate or counted was recorded once.
LogCounts ==
  /\ Len(qlQueue) <= QLQueue /\ Len(qlBatch) <= QLBatch /\ Len(qlStream) <= QLMaxLen
  /\ Len(qlStream) + LogQueued <= qlHist.recorded
  /\ qlAgg.total + Len(qlFold) + LogQueued <= qlHist.recorded
  /\ qlHist.recorded <= QLRecords

\* The entries not yet folded are the end of the stream.
FoldIsSuffix(n) == n + Len(qlFold) = Len(qlStream) /\ \A i \in 1..Len(qlFold) : qlFold[i] = qlStream[n + i]

\* The aggregate is exact, and unless it is mixed it agrees with the stream up
\* to what is not yet folded.
LogAgrees ==
  /\ Exact(qlAgg) /\ (qlAgg.base = 0 \/ qlAgg.base >= 1)
  /\ ~qlHist.mixed /\ ~qlClear => \E n \in 0..Len(qlStream) : FoldIsSuffix(n) /\ Agree(qlAgg, qlStream, n, qlNow)

\* The writer leaves its loop only after Close, and what is queued after its
\* exit was sent while Close ran.
LogDrains ==
  /\ qlWriter # "run" => qlClosed
  /\ qlWriter = "exit" => \A i \in 1..Len(qlQueue) : qlQueue[i].id \in qlHist.overlap

\* The inductive invariant.
QLInv == LogTypes /\ LogCounts /\ LogAgrees /\ LogDrains

\* The trim keeps the newest entries and never makes the stream longer.
LEMMA TrimmedIs ==
  ASSUME NEW S, NEW s \in Seq(S)
  PROVE  /\ Trimmed(s) \in Seq(S) /\ Len(Trimmed(s)) <= QLMaxLen /\ Len(Trimmed(s)) <= Len(s)
         /\ Len(s) <= QLMaxLen => Trimmed(s) = s
<1>. DEFINE k == IF Len(s) > QLMaxLen THEN Len(s) - QLMaxLen ELSE 0
<1>1. Len(s) \in Nat /\ QLMaxLen \in Nat /\ QLMaxLen >= 1 /\ k \in Nat /\ k <= Len(s)
  BY LenProperties, QLAssumption
<1>2. Trimmed(s) = SubSeq(s, k + 1, Len(s))
  BY DEF Trimmed
<1>3. Len(s) - k <= QLMaxLen /\ (Len(s) <= QLMaxLen => k = 0)
  BY <1>1
<1>. HIDE DEF k
<1>4. \A i \in (k + 1)..Len(s) : s[i] \in S
  BY <1>1, ElementOfSeq
<1>5. SubSeq(s, k + 1, Len(s)) \in Seq(S) /\ Len(SubSeq(s, k + 1, Len(s))) = IF k + 1 <= Len(s) THEN Len(s) - (k + 1) + 1 ELSE 0
  BY <1>1, <1>4, SubSeqProperties
<1>6. Len(Trimmed(s)) = Len(s) - k
  BY <1>1, <1>2, <1>5
<1>7. SubSeq(s, 1, Len(s)) = s
  BY SubSeqFull
<1>8. Len(s) <= QLMaxLen => Trimmed(s) = s
  <2>. SUFFICES ASSUME Len(s) <= QLMaxLen PROVE Trimmed(s) = s
    OBVIOUS
  <2>1. k + 1 = 1
    BY <1>3
  <2>. QED  BY <1>2, <1>7, <2>1
<1>. QED  BY <1>1, <1>2, <1>3, <1>5, <1>6, <1>8

\* A Clear or a restart in the history.
HistWith(hist, c, b) == [hist EXCEPT !.clears = c, !.mixed = b]

\* It leaves the rest of the history alone.
LEMMA HistIs ==
  ASSUME NEW hist \in Hists, NEW c \in Nat, NEW b \in BOOLEAN, NEW r, r = HistWith(hist, c, b)
  PROVE  r \in Hists /\ r.recorded = hist.recorded /\ r.overlap = hist.overlap /\ r.mixed = b
<1>1. r \in Hists
  BY DEF Hists, HistWith
<1>2. r.recorded = hist.recorded /\ r.overlap = hist.overlap /\ r.mixed = b
  BY DEF Hists, HistWith
<1>. QED  BY <1>1, <1>2

\* Initially.
LEMMA LogInits == QLInit => QLInv
<1>. SUFFICES ASSUME QLInit PROVE QLInv
  OBVIOUS
<1>. USE DEF QLInit
<1>1. qlNow \in Nows
  BY LogConst DEF Nows
<1>2. \A S : <<>> \in Seq(S) /\ Len(<<>>) = 0
  BY EmptySeq
<1>3. LogTypes
  BY <1>1, <1>2, EmptyAggIs DEF LogTypes, Hists
<1>4. LogCounts
  BY <1>2, EmptyAggIs, QLAssumption DEF LogCounts, LogQueued, LateCount
<1>5. FoldIsSuffix(0)
  BY <1>2 DEF FoldIsSuffix
<1>6. Agree(qlAgg, qlStream, 0, qlNow)
  BY <1>1, AgreeEmpty
<1>7. LogAgrees
  <2>1. EmptyAgg.base = 0
    BY DEF EmptyAgg
  <2>. QED  BY <1>2, <1>5, <1>6, <2>1, EmptyAggIs DEF LogAgrees
<1>8. LogDrains
  BY DEF LogDrains
<1>. QED  BY <1>3, <1>4, <1>7, <1>8 DEF QLInv

\* Lengths and counts are numbers.
LEMMA LogLens ==
  ASSUME LogTypes
  PROVE  /\ Len(qlQueue) \in Nat /\ Len(qlBatch) \in Nat /\ Len(qlFold) \in Nat /\ Len(qlStream) \in Nat
         /\ LateCount \in Nat /\ qlAgg.total \in Int /\ qlHist.recorded \in Nat /\ qlHist.mixed \in BOOLEAN
BY LenProperties DEF LogTypes, Hists, LateCount, Aggs

\* The clock.
LEMMA QLTickKeeps == QLInv /\ QLTick => QLInv'
<1>. SUFFICES ASSUME QLInv, QLTick PROVE QLInv'
  OBVIOUS
<1>. USE DEF QLInv, QLTick
<1>1. qlNow \in Nows /\ qlNow' = qlNow + 1 /\ qlNow' \in Nows
  BY LogConst DEF LogTypes, Nows
<1>2. Entries \subseteq Entries'
  BY <1>1, NowIs DEF Entries, EntriesBy
<1>3. \A s : s \in Seq(Entries) => s \in Seq(Entries')
  BY <1>2, SeqMonotonic
<1>4. LogTypes'
  BY <1>1, <1>2, <1>3 DEF LogTypes
<1>5. LogCounts'
  BY DEF LogCounts, LogQueued, LateCount
<1>6. LogAgrees'
  <2>1. qlStream \in Seq(EntriesBy(qlNow)) /\ qlAgg \in Aggs /\ Len(qlStream) \in Nat
    BY LogLens DEF LogTypes, Entries
  <2>2. ASSUME NEW n \in 0..Len(qlStream), Agree(qlAgg, qlStream, n, qlNow) PROVE Agree(qlAgg, qlStream, n, qlNow + 1)
    <3>1. n \in Nat /\ n <= Len(qlStream)
      BY <2>1
    <3>. QED  BY <1>1, <2>1, <2>2, <3>1, AgreeTicks
  <2>. QED  BY <1>1, <2>2 DEF LogAgrees, FoldIsSuffix
<1>7. LogDrains'
  BY DEF LogDrains
<1>. QED  BY <1>4, <1>5, <1>6, <1>7

\* A dashboard poll.
LEMMA PollKeeps == QLInv /\ PollStats => QLInv'
<1>. SUFFICES ASSUME QLInv, PollStats PROVE QLInv'
  OBVIOUS
<1>. USE DEF QLInv, PollStats
<1>1. qlNow \in Nows /\ qlAgg \in Aggs /\ DayOf(qlNow) \in Nat /\ DayOf(qlNow) > qlAgg.day /\ qlAgg.day \in Int
  BY NowIs DEF LogTypes, Aggs
<1>2. qlAgg' = WithDay(qlAgg, DayOf(qlNow), 0)
  BY DEF WithDay
<1>3. /\ qlAgg' \in Aggs /\ qlAgg'.base = qlAgg.base /\ qlAgg'.slots = qlAgg.slots
      /\ qlAgg'.blockedIn = qlAgg.blockedIn /\ qlAgg'.total = qlAgg.total /\ qlAgg'.blocked = qlAgg.blocked
  BY <1>1, <1>2, DayIs
<1>. HIDE DEF PollStats
<1>4. UNCHANGED <<qlNow, qlQueue, qlLate, qlBatch, qlFold, qlStream, qlWriter, qlClosed, qlClear, qlHist>>
  BY DEF PollStats
<1>5. LogTypes'
  BY <1>3, <1>4 DEF LogTypes, Entries
<1>6. LogCounts'
  BY <1>3, <1>4 DEF LogCounts, LogQueued, LateCount
<1>7. LogAgrees'
  <2>1. qlStream \in Seq(EntriesBy(qlNow)) /\ Len(qlStream) \in Nat
    BY LogLens DEF LogTypes, Entries
  <2>2. ASSUME NEW n \in 0..Len(qlStream), Agree(qlAgg, qlStream, n, qlNow) PROVE Agree(qlAgg', qlStream, n, qlNow)
    <3>1. n \in Nat /\ n <= Len(qlStream)
      BY <2>1
    <3>. QED  BY <1>1, <1>2, <2>1, <2>2, <3>1, AgreePolls
  <2>3. Exact(qlAgg')
    BY <1>3 DEF Exact, LogAgrees
  <2>. QED  BY <1>3, <1>4, <2>2, <2>3 DEF LogAgrees, FoldIsSuffix
<1>8. LogDrains'
  BY <1>4 DEF LogDrains
<1>. QED  BY <1>5, <1>6, <1>7, <1>8

\* A Record that found the log open.
LEMMA RecordBeginsKeeps == ASSUME NEW h \in {qlNow, qlNow - 1} PROVE QLInv /\ RecordBegins(h) => QLInv'
<1>. SUFFICES ASSUME QLInv, RecordBegins(h) PROVE QLInv'
  OBVIOUS
<1>. USE DEF QLInv, RecordBegins
<1>1. /\ qlNow \in Nat /\ qlNow >= QLWindow + 1 /\ QLWindow \in Nat /\ qlHist.recorded \in Nat
  BY NowIs, LogConst, LogLens DEF LogTypes
<1>2. qlLate' \in Entries
  BY <1>1 DEF Entries, EntriesBy
<1>3. qlHist' \in Hists
  <2>1. qlHist' = [qlHist EXCEPT !.recorded = qlHist.recorded + 1] /\ qlHist.recorded + 1 \in Nat
    BY <1>1
  <2>2. qlHist \in Hists
    BY DEF LogTypes
  <2>. HIDE DEF RecordBegins, QLInv
  <2>. QED  BY <2>1, <2>2 DEF Hists
<1>3a. qlHist'.recorded = qlHist.recorded + 1 /\ qlHist'.mixed = qlHist.mixed /\ qlHist'.overlap = qlHist.overlap
  BY DEF LogTypes
<1>4. LogTypes'
  BY <1>2, <1>3 DEF LogTypes, Entries
<1>5. LateCount = 0 /\ LateCount' \in {0, 1}
  BY DEF LateCount
<1>6. LogCounts'
  <2>1. LogQueued = Len(qlBatch) + Len(qlQueue) /\ LogQueued' = Len(qlBatch) + Len(qlQueue) + LateCount'
    BY <1>5, LogLens DEF LogQueued
  <2>2. qlHist'.recorded <= QLRecords
    BY <1>1, <1>3a, QLAssumption
  <2>3. LogCounts /\ LogTypes /\ UNCHANGED <<qlQueue, qlBatch, qlFold, qlStream, qlAgg>>
    OBVIOUS
  <2>. HIDE DEF RecordBegins, QLInv
  <2>6. \A x \in Int : x + LogQueued <= qlHist.recorded => x + LogQueued' <= qlHist'.recorded
    <3>1. PICK y \in Nat, z \in Nat : y = Len(qlBatch) + Len(qlQueue) /\ z = LateCount' /\ z <= 1
      BY <1>5, <2>3, LogLens
    <3>2. LogQueued = y /\ LogQueued' = y + z /\ qlHist.recorded \in Int /\ qlHist'.recorded = qlHist.recorded + 1
      BY <1>1, <1>3a, <2>1, <3>1
    <3>. QED  BY <3>1, <3>2, SMTT(60)
  <2>4. Len(qlStream) + LogQueued' <= qlHist'.recorded
    BY <2>3, <2>6, LogLens DEF LogCounts
  <2>5. qlAgg.total + Len(qlFold) + LogQueued' <= qlHist'.recorded
    <3>1. qlAgg.total + Len(qlFold) \in Int
      BY <2>3, LogLens
    <3>. QED  BY <2>3, <2>6, <3>1 DEF LogCounts
  <2>. QED  BY <2>2, <2>3, <2>4, <2>5 DEF LogCounts
<1>7. LogAgrees'
  BY <1>3a DEF LogAgrees, FoldIsSuffix
<1>8. LogDrains'
  BY <1>3a DEF LogDrains
<1>. QED  BY <1>4, <1>6, <1>7, <1>8

\* Its send, also after Close.
LEMMA RecordSendsKeeps == QLInv /\ RecordSends => QLInv'
<1>. SUFFICES ASSUME QLInv, RecordSends PROVE QLInv'
  OBVIOUS
<1>. USE DEF QLInv, RecordSends
<1>1. /\ qlNow \in Nows /\ qlLate \in Entries /\ qlLate.id \in Nat
  BY NowIs DEF LogTypes, Entries
<1>2. qlHist' \in Hists
  BY <1>1 DEF LogTypes, Hists
<1>3. /\ qlHist'.recorded = qlHist.recorded /\ qlHist'.mixed = qlHist.mixed
      /\ qlHist'.overlap = IF qlClosed THEN qlHist.overlap \cup {qlLate.id} ELSE qlHist.overlap
  BY DEF LogTypes
<1>4. /\ qlQueue' \in Seq(Entries) /\ Len(qlQueue') <= Len(qlQueue) + 1 /\ Len(qlQueue') <= QLQueue
      /\ \A i \in 1..Len(qlQueue') : qlQueue'[i] = qlLate \/ (i \in 1..Len(qlQueue) /\ qlQueue'[i] = qlQueue[i])
  <2>1. CASE Len(qlQueue) < QLQueue
    <3>1. qlQueue' = Append(qlQueue, qlLate) /\ qlQueue \in Seq(Entries)
      BY <2>1 DEF LogTypes
    <3>2. /\ qlQueue' \in Seq(Entries) /\ Len(qlQueue') = Len(qlQueue) + 1
          /\ \A i \in 1..Len(qlQueue) : qlQueue'[i] = qlQueue[i]
          /\ qlQueue'[Len(qlQueue) + 1] = qlLate
      BY <1>1, <3>1, AppendProperties
    <3>3. Len(qlQueue) \in Nat /\ QLQueue \in Nat
      BY LogLens, QLAssumption
    <3>. QED  BY <2>1, <3>2, <3>3
  <2>2. CASE ~(Len(qlQueue) < QLQueue)
    BY <2>2, LogLens DEF LogTypes, LogCounts
  <2>. QED  BY <2>1, <2>2
<1>5. LogTypes'
  BY <1>2, <1>4 DEF LogTypes, Entries
<1>6. LateCount = 1 /\ LateCount' = 0
  BY DEF LateCount
<1>7. LogCounts'
  <2>1. Len(qlQueue') \in Nat
    BY <1>4, LenProperties
  <2>. QED  BY <1>3, <1>4, <1>6, <2>1, LogLens DEF LogCounts, LogQueued
<1>8. LogAgrees'
  BY <1>3 DEF LogAgrees, FoldIsSuffix
<1>9. LogDrains'
  <2>. SUFFICES ASSUME qlWriter = "exit", NEW i \in 1..Len(qlQueue') PROVE qlQueue'[i].id \in qlHist'.overlap
    BY DEF LogDrains
  <2>1. qlClosed
    BY DEF LogDrains
  <2>. QED  BY <1>3, <1>4, <2>1 DEF LogDrains
<1>. QED  BY <1>5, <1>7, <1>8, <1>9

\* The writer takes an entry.
LEMMA WriterTakesKeeps == QLInv /\ WriterTakes => QLInv'
<1>. SUFFICES ASSUME QLInv, WriterTakes PROVE QLInv'
  OBVIOUS
<1>. USE DEF QLInv, WriterTakes
<1>1. qlQueue \in Seq(Entries) /\ qlQueue # <<>> /\ qlBatch \in Seq(Entries)
  BY DEF LogTypes
<1>2. Head(qlQueue) \in Entries /\ qlQueue' \in Seq(Entries) /\ Len(qlQueue') = Len(qlQueue) - 1
  BY <1>1, HeadTailProperties
<1>3. qlBatch' \in Seq(Entries) /\ Len(qlBatch') = Len(qlBatch) + 1
  BY <1>1, <1>2, AppendProperties
<1>4. LogTypes'
  BY <1>2, <1>3 DEF LogTypes, Entries
<1>5. LogCounts'
  BY <1>2, <1>3, LogLens, QLAssumption, SMTT(30) DEF LogCounts, LogQueued, LateCount
<1>6. LogAgrees'
  BY DEF LogAgrees, FoldIsSuffix
<1>7. LogDrains'
  BY DEF LogDrains, Working
<1>. QED  BY <1>4, <1>5, <1>6, <1>7

\* A flush: the batch becomes the end of the stream and is to be folded.
LEMMA FlushOKKeeps == QLInv /\ FlushOK => QLInv'
<1>. SUFFICES ASSUME QLInv, FlushOK PROVE QLInv'
  OBVIOUS
<1>. USE DEF QLInv, FlushOK
<1>. DEFINE s == qlStream \o qlBatch
<1>1. qlStream \in Seq(Entries) /\ qlBatch \in Seq(Entries) /\ qlFold = <<>>
  BY DEF LogTypes, FlushDue, Working
<1>2. /\ s \in Seq(Entries) /\ Len(s) = Len(qlStream) + Len(qlBatch)
      /\ \A i \in 1..(Len(qlStream) + Len(qlBatch)) :
            s[i] = IF i <= Len(qlStream) THEN qlStream[i] ELSE qlBatch[i - Len(qlStream)]
  BY <1>1, ConcatProperties
<1>3. qlStream' \in Seq(Entries) /\ Len(qlStream') <= QLMaxLen /\ Len(qlStream') <= Len(s)
  BY <1>2, TrimmedIs
<1>4. \A S : <<>> \in Seq(S) /\ Len(<<>>) = 0
  BY EmptySeq
<1>5. qlHist' \in Hists
  BY DEF LogTypes, Hists
<1>6. /\ qlHist'.recorded = qlHist.recorded /\ qlHist'.mixed = (qlHist.mixed \/ qlStream' # s)
      /\ qlHist'.overlap = qlHist.overlap
  BY DEF LogTypes
<1>7. LogTypes'
  BY <1>1, <1>3, <1>4, <1>5 DEF LogTypes, Entries
<1>8. LogCounts'
  <2>1. Len(qlStream') \in Nat /\ Len(qlFold) = 0 /\ Len(qlBatch') = 0 /\ Len(qlFold') = Len(qlBatch)
    BY <1>1, <1>3, <1>4, LenProperties
  <2>2. QLBatch \in Nat
    BY QLAssumption
  <2>. QED  BY <1>2, <1>3, <1>6, <2>1, <2>2, LogLens, SMTT(30) DEF LogCounts, LogQueued, LateCount
<1>9. LogAgrees'
  <2>. SUFFICES ASSUME ~qlHist'.mixed, ~qlClear'
                PROVE  \E n \in 0..Len(qlStream') : FoldIsSuffix(n)' /\ Agree(qlAgg, qlStream', n, qlNow)
    BY DEF LogAgrees
  <2>1. qlStream' = s /\ ~qlHist.mixed /\ ~qlClear
    BY <1>6
  <2>. HIDE DEF FlushOK
  <2>2. PICK n \in 0..Len(qlStream) : FoldIsSuffix(n) /\ Agree(qlAgg, qlStream, n, qlNow)
    BY <2>1 DEF LogAgrees
  <2>3. n = Len(qlStream) /\ Len(qlStream) \in Nat /\ Len(qlBatch) \in Nat
    BY <1>1, <1>4, <2>2, LogLens DEF FoldIsSuffix
  <2>. HIDE DEF s
  <2>4. \A i \in 1..n : s[i] = qlStream[i]
    BY <1>2, <2>3
  <2>5. \A i \in 1..Len(qlBatch) : s[n + i] = qlBatch[i]
    BY <1>2, <2>3
  <2>6. FoldIsSuffix(n)'
    <3>1. qlFold' = qlBatch
      BY DEF FlushOK
    <3>. QED  BY <1>2, <2>1, <2>3, <2>5, <3>1 DEF FoldIsSuffix
  <2>7. Agree(qlAgg, s, n, qlNow)
    <3>1. \A T1, T2 : (\A i \in 1..n : i \in T1 <=> i \in T2) => Hits(T1, n) = Hits(T2, n)
      <4>. SUFFICES ASSUME NEW T1, NEW T2, \A i \in 1..n : i \in T1 <=> i \in T2 PROVE Hits(T1, n) = Hits(T2, n)
        OBVIOUS
      <4>1. {i \in 1..n : i \in T1} = {i \in 1..n : i \in T2}
        OBVIOUS
      <4>. QED  BY <4>1 DEF Hits
    <3>2. \A h : \A i \in 1..n : i \in AtHour(s, h) <=> i \in AtHour(qlStream, h)
      BY <2>4 DEF AtHour
    <3>3. \A d : \A i \in 1..n : i \in OnDay(s, d) <=> i \in OnDay(qlStream, d)
      BY <2>4 DEF OnDay
    <3>4. \A h : Hits(AtHour(s, h), n) = Hits(AtHour(qlStream, h), n)
      BY <3>1, <3>2
    <3>5. \A d : Hits(OnDay(s, d), n) = Hits(OnDay(qlStream, d), n)
      BY <3>1, <3>3
    <3>. QED  BY <2>2, <2>4, <3>4, <3>5 DEF Agree
  <2>8. n \in 0..Len(s)
    BY <1>2, <2>3
  <2>. QED  BY <2>1, <2>6, <2>7, <2>8
<1>10. LogDrains'
  BY <1>6 DEF LogDrains, FlushDue, Working
<1>. QED  BY <1>7, <1>8, <1>9, <1>10

\* A failed flush, of which some entries may have landed.
LEMMA FlushFailsKeeps == ASSUME NEW k \in 0..QLBatch PROVE QLInv /\ FlushFails(k) => QLInv'
<1>. SUFFICES ASSUME QLInv, FlushFails(k) PROVE QLInv'
  OBVIOUS
<1>. USE DEF QLInv, FlushFails
<1>. DEFINE b == SubSeq(qlBatch, 1, k)
            s == qlStream \o b
<1>1. qlStream \in Seq(Entries) /\ qlBatch \in Seq(Entries) /\ qlFold = <<>> /\ k \in 0..Len(qlBatch) /\ Len(qlBatch) \in Nat
  BY LogLens DEF LogTypes, FlushDue, Working
<1>2. b \in Seq(Entries) /\ Len(b) = k
  <2>1. \A i \in 1..k : qlBatch[i] \in Entries
    BY <1>1, ElementOfSeq
  <2>2. b \in Seq(Entries) /\ Len(b) = IF 1 <= k THEN k - 1 + 1 ELSE 0
    BY <1>1, <2>1, SubSeqProperties
  <2>. QED  BY <1>1, <2>2
<1>3. s \in Seq(Entries) /\ Len(s) = Len(qlStream) + k
  BY <1>1, <1>2, ConcatProperties
<1>4. /\ qlStream' \in Seq(Entries) /\ Len(qlStream') <= QLMaxLen /\ Len(qlStream') <= Len(s)
      /\ Len(s) <= QLMaxLen => qlStream' = s
  BY <1>3, TrimmedIs
<1>5. \A S : <<>> \in Seq(S) /\ Len(<<>>) = 0
  BY EmptySeq
<1>6. qlHist' \in Hists
  BY DEF LogTypes, Hists
<1>7. /\ qlHist'.recorded = qlHist.recorded /\ qlHist'.mixed = (qlHist.mixed \/ k > 0)
      /\ qlHist'.overlap = qlHist.overlap
  BY DEF LogTypes
<1>8. LogTypes'
  BY <1>1, <1>4, <1>5, <1>6 DEF LogTypes, Entries
<1>9. LogCounts'
  <2>1. Len(qlStream') \in Nat /\ Len(qlFold) = 0 /\ Len(qlBatch') = 0
    BY <1>1, <1>4, <1>5, LenProperties
  <2>2. QLBatch \in Nat
    BY QLAssumption
  <2>3. LogQueued = Len(qlBatch) + Len(qlQueue) + LateCount /\ LogQueued' = Len(qlQueue) + LateCount
    BY <2>1, LogLens DEF LogQueued, LateCount
  <2>4. LogCounts /\ LogTypes /\ Len(qlQueue)' = Len(qlQueue) /\ Len(qlFold)' = 0 /\ qlAgg' = qlAgg
    BY <2>1
  <2>5. k \in Nat /\ k <= Len(qlBatch)
    BY <1>1
  <2>. HIDE DEF FlushFails, QLInv, s, b
  <2>6. Len(qlStream') + LogQueued' <= qlHist'.recorded
    BY <1>3, <1>4, <1>7, <2>1, <2>3, <2>4, <2>5, LogLens, SMTT(30) DEF LogCounts
  <2>7. Len(qlQueue') <= QLQueue /\ Len(qlBatch') <= QLBatch
    BY <2>1, <2>2, <2>4 DEF LogCounts
  <2>8. qlAgg'.total + Len(qlFold') + LogQueued' <= qlHist'.recorded
    <3>1. PICK x \in Int, y \in Nat, z \in Nat, w \in Int : x = qlAgg.total /\ y = Len(qlBatch) /\ z = Len(qlQueue) + LateCount /\ w = qlHist.recorded
      BY <2>4, LogLens
    <3>2. LogQueued = y + z /\ LogQueued' = z
      BY <2>3, <2>4, <3>1, LogLens, SMTT(60)
    <3>3. x + 0 + (y + z) <= w
      BY <2>1, <2>4, <3>1, <3>2 DEF LogCounts
    <3>4. x + 0 + z <= w
      BY <3>3
    <3>. QED  BY <1>7, <2>4, <3>1, <3>2, <3>4
  <2>9. qlHist'.recorded <= QLRecords
    BY <1>7, <2>4 DEF LogCounts
  <2>. QED  BY <1>4, <2>6, <2>7, <2>8, <2>9 DEF LogCounts
<1>10. LogAgrees'
  <2>1. CASE k > 0
    BY <1>7, <2>1 DEF LogAgrees
  <2>2. CASE ~(k > 0)
    <3>1. k = 0
      BY <1>1, <2>2
    <3>2. b = <<>>
      BY <1>2, <3>1, EmptySeq
    <3>3. s = qlStream
      BY <1>1, <3>2, ConcatEmptySeq
    <3>4. qlStream' = qlStream
      BY <1>4, <3>3 DEF LogCounts
    <3>. QED  BY <1>7, <3>1, <3>4 DEF LogAgrees, FoldIsSuffix
  <2>. QED  BY <2>1, <2>2
<1>11. LogDrains'
  BY <1>7 DEF LogDrains, FlushDue, Working
<1>. QED  BY <1>8, <1>9, <1>10, <1>11

\* One entry is folded: it is the next of the stream.
LEMMA FoldOneKeeps == QLInv /\ FoldOne => QLInv'
<1>. SUFFICES ASSUME QLInv, FoldOne PROVE QLInv'
  OBVIOUS
<1>. USE DEF QLInv, FoldOne
<1>1. /\ qlNow \in Nows /\ qlStream \in Seq(EntriesBy(qlNow)) /\ qlFold \in Seq(EntriesBy(qlNow)) /\ qlFold # <<>>
      /\ qlAgg \in Aggs /\ Exact(qlAgg) /\ (qlAgg.base = 0 \/ qlAgg.base >= 1)
      /\ qlAgg' = Added(qlAgg, Head(qlFold)) /\ qlFold' = Tail(qlFold)
      /\ qlHist.mixed \in BOOLEAN
  BY DEF LogTypes, Hists, Entries, LogAgrees
<1>. HIDE DEF FoldOne
<1>2. /\ Head(qlFold) \in EntriesBy(qlNow) /\ qlFold' \in Seq(EntriesBy(qlNow)) /\ Len(qlFold') = Len(qlFold) - 1
      /\ \A i \in 1..Len(qlFold') : qlFold'[i] = qlFold[i + 1]
      /\ Head(qlFold) = qlFold[1] /\ Len(qlFold) \in Nat /\ Len(qlFold) >= 1
  <2>1. Head(qlFold) = qlFold[1]
    BY <1>1
  <2>2. Len(qlFold) \in Nat \ {0}
    BY <1>1, EmptySeq
  <2>. QED  BY <1>1, <2>1, <2>2, HeadTailProperties
<1>3. UNCHANGED <<qlNow, qlQueue, qlLate, qlBatch, qlStream, qlWriter, qlClosed, qlClear, qlHist>>
  BY DEF FoldOne
<1>4. /\ qlAgg' \in Aggs /\ Exact(qlAgg') /\ qlAgg'.total <= qlAgg.total + 1
      /\ (qlAgg'.base = 0 \/ qlAgg'.base >= 1)
  <2>0. PICK e \in EntriesBy(qlNow) : e = Head(qlFold)
    BY <1>2
  <2>1. PICK z : z = Added(qlAgg, e)
    OBVIOUS
  <2>2. qlNow \in Nat /\ qlNow <= QLLastHour
    BY <1>1, NowIs
  <2>3. /\ z \in Aggs /\ Exact(z) /\ z.total <= qlAgg.total + 1
        /\ z.base = (IF qlAgg.base = 0 \/ e.hour > qlAgg.base + QLWindow - 1 THEN e.hour - QLWindow + 1 ELSE qlAgg.base)
    BY <1>1, <2>1, <2>2, AddedIs
  <2>4. e.hour \in Nat /\ e.hour >= QLWindow
    BY <1>1, NowIs
  <2>5. z.base = 0 \/ z.base >= 1
    <3>1. e.hour - QLWindow + 1 >= 1
      BY <2>4, LogConst
    <3>. QED  BY <1>1, <2>3, <3>1
  <2>. QED  BY <1>1, <2>0, <2>1, <2>3, <2>5
<1>5. LogTypes'
  BY <1>2, <1>3, <1>4 DEF LogTypes, Entries
<1>6. LogCounts'
  <2>1. PICK x \in Int, y \in Int, n \in Nat, q \in Int, r \in Int :
           x = qlAgg.total /\ y = qlAgg'.total /\ n = Len(qlFold) /\ q = LogQueued /\ r = qlHist.recorded
    <3>1. qlAgg.total \in Int /\ Len(qlFold) \in Nat /\ LogQueued \in Int /\ qlHist.recorded \in Int
      BY LogLens DEF LogQueued
    <3>2. qlAgg'.total \in Int
      BY <1>4 DEF Aggs
    <3>. QED  BY <3>1, <3>2
  <2>2. y <= x + 1 /\ x + n + q <= r
    BY <1>4, <2>1 DEF LogCounts
  <2>3. y + (n - 1) + q <= r
    BY <2>2
  <2>4. LogQueued' = LogQueued
    BY <1>3 DEF LogQueued, LateCount
  <2>5. qlAgg'.total + Len(qlFold') + LogQueued' <= qlHist'.recorded
    BY <1>2, <1>3, <2>1, <2>3, <2>4
  <2>. QED  BY <1>3, <2>4, <2>5 DEF LogCounts
<1>7. LogAgrees'
  <2>. SUFFICES ASSUME ~qlHist.mixed, ~qlClear
                PROVE  \E n \in 0..Len(qlStream) : FoldIsSuffix(n)' /\ Agree(qlAgg', qlStream, n, qlNow)
    BY <1>3, <1>4 DEF LogAgrees
  <2>1. PICK n \in 0..Len(qlStream) : FoldIsSuffix(n) /\ Agree(qlAgg, qlStream, n, qlNow)
    BY DEF LogAgrees
  <2>2. Len(qlStream) \in Nat /\ n \in Nat /\ n + Len(qlFold) = Len(qlStream)
    BY <2>1, LogLens DEF FoldIsSuffix
  <2>3. n + 1 <= Len(qlStream) /\ n + 1 \in 0..Len(qlStream)
    BY <1>2, <2>2
  <2>4. qlStream[n + 1] = Head(qlFold)
    BY <1>2, <2>1 DEF FoldIsSuffix
  <2>5. Agree(qlAgg', qlStream, n + 1, qlNow)
    BY <1>1, <2>1, <2>2, <2>3, <2>4, AgreeAdded
  <2>6. ASSUME NEW i \in 1..Len(qlFold') PROVE qlFold'[i] = qlStream[(n + 1) + i]
    <3>1. i + 1 \in 1..Len(qlFold) /\ n + (i + 1) = (n + 1) + i
      BY <1>2, <2>2
    <3>. QED  BY <1>2, <2>1, <3>1 DEF FoldIsSuffix
  <2>7. (n + 1) + Len(qlFold') = Len(qlStream)
    <3>1. PICK k \in Nat : k = Len(qlFold) /\ Len(qlFold') = k - 1
      BY <1>2
    <3>2. (n + 1) + (k - 1) = n + k
      BY <2>2, <3>1
    <3>. QED  BY <2>2, <3>1, <3>2
  <2>. QED  BY <1>3, <2>3, <2>5, <2>6, <2>7 DEF FoldIsSuffix
<1>8. LogDrains'
  BY <1>3 DEF LogDrains
<1>. QED  BY <1>5, <1>6, <1>7, <1>8

\* Clear, first half.
LEMMA ClearResetsKeeps == QLInv /\ ClearResets => QLInv'
<1>. SUFFICES ASSUME QLInv, ClearResets PROVE QLInv'
  OBVIOUS
<1>. USE DEF QLInv, ClearResets
<1>0. /\ qlHist \in Hists
      /\ qlHist' = [qlHist EXCEPT !.clears = qlHist.clears + 1, !.mixed = qlHist.mixed \/ qlFold # <<>>]
  BY DEF LogTypes
<1>. DEFINE b == qlHist.mixed \/ qlFold # <<>>
<1>01. b \in BOOLEAN
  BY <1>0
<1>. HIDE DEF b
<1>02. qlHist' = HistWith(qlHist, qlHist.clears + 1, b) /\ qlHist.clears + 1 \in Nat
  BY <1>0 DEF b, HistWith, Hists
<1>1. qlHist' \in Hists
  BY <1>0, <1>01, <1>02, HistIs
<1>2. qlHist'.recorded = qlHist.recorded /\ qlHist'.overlap = qlHist.overlap
  BY <1>0, <1>02
<1>3. EmptyAgg.base = 0
  BY DEF EmptyAgg
<1>4. LogTypes'
  BY <1>1, EmptyAggIs DEF LogTypes, Entries
<1>5. LogCounts'
  <2>1. LogQueued' = LogQueued
    BY DEF LogQueued, LateCount
  <2>2. 0 <= qlAgg.total
    <3>1. qlAgg.total = SumOver(qlAgg.slots, QLHourSet) /\ qlAgg.slots \in HourCounts
      BY DEF LogAgrees, Exact, LogTypes, Aggs
    <3>. QED  BY <3>1, SumFacts
  <2>3. PICK x \in Int, n \in Nat, q \in Int, r \in Int :
           x = qlAgg.total /\ n = Len(qlFold) /\ q = LogQueued /\ r = qlHist.recorded
    BY LogLens DEF LogQueued
  <2>4. x + n + q <= r /\ 0 <= x
    BY <2>2, <2>3 DEF LogCounts
  <2>5. 0 + n + q <= r
    BY <2>4
  <2>. QED  BY <1>2, <2>1, <2>3, <2>5, EmptyAggIs DEF LogCounts
<1>6. LogAgrees'
  BY <1>3, EmptyAggIs DEF LogAgrees
<1>7. LogDrains'
  BY <1>2 DEF LogDrains
<1>. QED  BY <1>4, <1>5, <1>6, <1>7

\* Clear, second half: unless mixed, aggregate and stream are both empty.
LEMMA ClearDeletesKeeps == ASSUME NEW ok \in BOOLEAN PROVE QLInv /\ ClearDeletes(ok) => QLInv'
<1>. SUFFICES ASSUME QLInv, ClearDeletes(ok) PROVE QLInv'
  OBVIOUS
<1>. USE DEF QLInv, ClearDeletes
<1>1. qlHist' \in Hists
  BY DEF LogTypes, Hists
<1>2. /\ qlHist'.recorded = qlHist.recorded /\ qlHist'.overlap = qlHist.overlap
      /\ qlHist'.mixed = (qlHist.mixed \/ ~ok \/ qlFold # <<>> \/ qlAgg # EmptyAgg)
  BY DEF LogTypes
<1>3. \A S : <<>> \in Seq(S) /\ Len(<<>>) = 0
  BY EmptySeq
<1>4. qlStream' = <<>> \/ qlStream' = qlStream
  OBVIOUS
<1>5. LogTypes'
  BY <1>1, <1>3, <1>4 DEF LogTypes, Entries
<1>6. LogCounts'
  <2>1. LogQueued' = LogQueued /\ LogQueued \in Int
    BY LogLens DEF LogQueued, LateCount
  <2>2. PICK n \in Nat, m \in Nat, q \in Int, r \in Int : n = Len(qlStream) /\ m = Len(qlStream') /\ q = LogQueued /\ r = qlHist.recorded /\ m <= n
    BY <1>3, <1>4, <2>1, LogLens
  <2>3. n + q <= r /\ n <= QLMaxLen /\ QLMaxLen \in Nat
    BY <2>2, QLAssumption DEF LogCounts
  <2>4. m + q <= r /\ m <= QLMaxLen
    BY <2>2, <2>3
  <2>. QED  BY <1>2, <2>1, <2>2, <2>4 DEF LogCounts
<1>7. LogAgrees'
  <2>. SUFFICES ASSUME ~qlHist'.mixed
                PROVE  \E n \in 0..Len(qlStream') : FoldIsSuffix(n)' /\ Agree(qlAgg, qlStream', n, qlNow)
    BY DEF LogAgrees
  <2>1. qlStream' = <<>> /\ qlFold = <<>> /\ qlAgg = EmptyAgg
    BY <1>2
  <2>2. Agree(qlAgg, qlStream', 0, qlNow)
    BY <2>1, AgreeEmpty DEF LogTypes
  <2>3. FoldIsSuffix(0)'
    BY <1>3, <2>1 DEF FoldIsSuffix
  <2>. QED  BY <1>3, <2>1, <2>2, <2>3
<1>8. LogDrains'
  BY <1>2 DEF LogDrains
<1>. QED  BY <1>5, <1>6, <1>7, <1>8

\* Close and the writer's exit.
LEMMA ClosingKeeps == QLInv /\ (CloseLog \/ WriterSeesDone \/ WriterExits) => QLInv'
<1>. SUFFICES ASSUME QLInv, CloseLog \/ WriterSeesDone \/ WriterExits PROVE QLInv'
  OBVIOUS
<1>. USE DEF QLInv, CloseLog, WriterSeesDone, WriterExits
<1>1. UNCHANGED <<qlNow, qlQueue, qlLate, qlBatch, qlFold, qlStream, qlAgg, qlClear, qlHist>>
  OBVIOUS
<1>2. qlClosed \in BOOLEAN /\ qlWriter \in {"run", "drain", "exit"}
  BY DEF LogTypes
<1>3. LogTypes'
  BY <1>1, <1>2 DEF LogTypes, Entries
<1>4. LogCounts'
  BY <1>1 DEF LogCounts, LogQueued, LateCount
<1>5. LogAgrees'
  BY <1>1 DEF LogAgrees, FoldIsSuffix
<1>6. LogDrains'
  <2>1. CASE CloseLog
    BY <2>1 DEF LogDrains
  <2>2. CASE WriterSeesDone
    BY <2>2 DEF LogDrains
  <2>3. CASE WriterExits
    <3>1. Len(qlQueue) = 0
      BY <2>3, EmptySeq
    <3>. QED  BY <2>3, <3>1 DEF LogDrains
  <2>. QED  BY <2>1, <2>2, <2>3
<1>. QED  BY <1>3, <1>4, <1>5, <1>6

\* A crash and the seed of the next start.
LEMMA CrashKeeps ==
  ASSUME NEW from \in 1..(Len(qlStream) + 1), NEW to \in (from - 1)..Len(qlStream)
  PROVE  QLInv /\ CrashAndSeed(from, to) => QLInv'
<1>. SUFFICES ASSUME QLInv, CrashAndSeed(from, to) PROVE QLInv'
  OBVIOUS
<1>. USE DEF QLInv
<1>1. qlNow \in Nows /\ qlStream \in Seq(EntriesBy(qlNow)) /\ Len(qlStream) \in Nat /\ qlHist.recorded \in Nat
  BY LogLens DEF LogTypes, Entries
<1>2. /\ \A i \in 1..(from - 1) : qlStream[i].hour < qlNow - QLWindow
      /\ qlAgg' = Seeded(qlStream, from, to)
      /\ qlQueue' = <<>> /\ qlBatch' = <<>> /\ qlFold' = <<>> /\ qlLate' = NoLogEntry /\ qlClear' = FALSE
      /\ qlHist' = [qlHist EXCEPT !.clears = @ + 1, !.mixed = to < Len(qlStream)]
      /\ UNCHANGED <<qlNow, qlStream, qlWriter, qlClosed>>
      /\ ~qlClosed
  BY DEF CrashAndSeed
<1>3. qlAgg' \in Aggs /\ Exact(qlAgg') /\ qlAgg'.total <= to /\ Agree(qlAgg', qlStream, to, qlNow)
  BY <1>1, <1>2, SeededIs
<1>. DEFINE b == to < Len(qlStream)
<1>01. b \in BOOLEAN
  OBVIOUS
<1>02. qlHist \in Hists
  BY DEF LogTypes
<1>. HIDE DEF b
<1>03. qlHist' = HistWith(qlHist, qlHist.clears + 1, b) /\ qlHist.clears + 1 \in Nat
  BY <1>2, <1>02 DEF b, HistWith, Hists
<1>4. qlHist' \in Hists
  BY <1>01, <1>02, <1>03, HistIs
<1>5. /\ qlHist'.recorded = qlHist.recorded /\ qlHist'.overlap = qlHist.overlap
      /\ qlHist'.mixed = b
  BY <1>01, <1>02, <1>03, HistIs
<1>6. \A S : <<>> \in Seq(S) /\ Len(<<>>) = 0
  BY EmptySeq
<1>7. LogTypes'
  BY <1>2, <1>3, <1>4, <1>6 DEF LogTypes, Entries
<1>8. LogCounts'
  <2>1. LogQueued' = 0 /\ Len(qlFold') = 0 /\ Len(qlQueue') = 0 /\ Len(qlBatch') = 0
    BY <1>2, <1>6 DEF LogQueued, LateCount
  <2>2. PICK n \in Nat, q \in Nat, r \in Nat, x \in Int :
           n = Len(qlStream) /\ q = LogQueued /\ r = qlHist.recorded /\ x = qlAgg'.total
    BY <1>1, <1>3, LogLens, SMTT(30) DEF LogQueued, Aggs
  <2>3. n + q <= r /\ n <= QLMaxLen /\ to <= n /\ x <= to /\ to \in Int /\ r <= QLRecords
    BY <1>1, <1>3, <2>2 DEF LogCounts
  <2>4. n + 0 <= r /\ x + 0 + 0 <= r
    BY <2>3
  <2>5. QLQueue \in Nat /\ QLBatch \in Nat
    BY QLAssumption
  <2>. QED  BY <1>2, <1>5, <2>1, <2>2, <2>3, <2>4, <2>5 DEF LogCounts
<1>9. LogAgrees'
  <2>1. qlAgg'.base = 0 \/ qlAgg'.base >= 1
    BY <1>3 DEF Agree
  <2>2. ASSUME ~qlHist'.mixed PROVE FoldIsSuffix(to)' /\ to \in 0..Len(qlStream')
    <3>1. ~(to < Len(qlStream)) /\ to \in Int /\ to <= Len(qlStream)
      <4>1. ~b
        BY <1>5, <2>2
      <4>. QED  BY <1>1, <4>1 DEF b
    <3>2. to = Len(qlStream)
      BY <1>1, <3>1
    <3>3. Len(qlFold') = 0 /\ Len(qlStream') = Len(qlStream)
      BY <1>2, <1>6
    <3>. QED  BY <1>1, <3>2, <3>3 DEF FoldIsSuffix
  <2>. QED  BY <1>2, <1>3, <2>1, <2>2 DEF LogAgrees
<1>10. LogDrains'
  BY <1>2 DEF LogDrains
<1>. QED  BY <1>7, <1>8, <1>9, <1>10

\* Nothing changes.
LEMMA QLStuttersKeep == QLInv /\ UNCHANGED QLVars => QLInv'
<1>. SUFFICES ASSUME QLInv, UNCHANGED QLVars PROVE QLInv'
  OBVIOUS
<1>. USE DEF QLInv, QLVars
<1>1. LogTypes'
  BY DEF LogTypes, Entries
<1>2. LogCounts'
  BY DEF LogCounts, LogQueued, LateCount
<1>3. LogAgrees'
  BY DEF LogAgrees, FoldIsSuffix
<1>4. LogDrains'
  BY DEF LogDrains
<1>. QED  BY <1>1, <1>2, <1>3, <1>4

\* Every step.
LEMMA LogStepKeeps == QLInv /\ [QLNext]_QLVars => QLInv'
<1>. SUFFICES ASSUME QLInv, [QLNext]_QLVars PROVE QLInv'
  OBVIOUS
<1>1. CASE QLTick
  BY <1>1, QLTickKeeps
<1>2. CASE RecordSends
  BY <1>2, RecordSendsKeeps
<1>3. CASE WriterTakes
  BY <1>3, WriterTakesKeeps
<1>4. CASE FlushOK
  BY <1>4, FlushOKKeeps
<1>5. CASE FoldOne
  BY <1>5, FoldOneKeeps
<1>6. ASSUME NEW h \in {qlNow, qlNow - 1}, RecordBegins(h) PROVE QLInv'
  BY <1>6, RecordBeginsKeeps
<1>7. ASSUME NEW n \in 0..QLBatch, FlushFails(n) PROVE QLInv'
  BY <1>7, FlushFailsKeeps
<1>8. CASE PollStats
  BY <1>8, PollKeeps
<1>9. CASE ClearResets
  BY <1>9, ClearResetsKeeps
<1>10. ASSUME NEW ok \in BOOLEAN, ClearDeletes(ok) PROVE QLInv'
  BY <1>10, ClearDeletesKeeps
<1>11. CASE CloseLog \/ WriterSeesDone \/ WriterExits
  BY <1>11, ClosingKeeps
<1>12. ASSUME NEW from \in 1..(Len(qlStream) + 1), NEW to \in (from - 1)..Len(qlStream), CrashAndSeed(from, to)
       PROVE  QLInv'
  BY <1>12, CrashKeeps
<1>13. CASE UNCHANGED QLVars
  BY <1>13, QLStuttersKeep
<1>. QED  BY <1>1, <1>2, <1>3, <1>4, <1>5, <1>6, <1>7, <1>8, <1>9, <1>10, <1>11, <1>12, <1>13 DEF QLNext

\* The invariant says what the query log promises.
LEMMA LogInvSound == QLInv => LogSound
<1>. SUFFICES ASSUME QLInv PROVE LogSound
  OBVIOUS
<1>. USE DEF QLInv
<1>1. /\ qlAgg \in Aggs /\ Exact(qlAgg) /\ qlNow \in Nows /\ qlStream \in Seq(EntriesBy(qlNow))
      /\ qlAgg.slots \in HourCounts /\ qlAgg.blockedIn \in HourCounts
  BY DEF LogTypes, LogAgrees, Entries, Aggs
<1>2. SumOver(qlAgg.blockedIn, QLHourSet) <= SumOver(qlAgg.slots, QLHourSet)
  BY <1>1, SumBelow DEF Exact
<1>3. SumOver(qlAgg.blockedIn, QLHourSet) \in Nat /\ SumOver(qlAgg.slots, QLHourSet) \in Nat
  BY <1>1, SumFacts
<1>4. qlAgg.total \in Nat /\ qlAgg.blocked \in 0..qlAgg.total
  BY <1>1, <1>2, <1>3 DEF Exact
<1>5. QLTypeOK
  <2>1. qlAgg.total <= 2 * QLRecords
    <3>1. PICK x \in Nat, n \in Nat, q \in Nat, r \in Nat :
             x = qlAgg.total /\ n = Len(qlFold) /\ q = LogQueued /\ r = qlHist.recorded
      BY <1>4, LogLens DEF LogQueued
    <3>2. x + n + q <= r /\ r <= QLRecords /\ QLRecords \in Nat
      BY <3>1, QLAssumption DEF LogCounts
    <3>3. x <= 2 * QLRecords
      BY <3>2
    <3>. QED  BY <3>1, <3>3
  <2>2. \A h \in QLHourSet : qlAgg.slots[h] \in Nat /\ qlAgg.blockedIn[h] \in 0..qlAgg.slots[h]
    BY <1>1 DEF Exact, HourCounts
  <2>3. 2 * QLRecords \in Nat
    BY QLAssumption
  <2>. QED  BY <1>4, <2>1, <2>2, <2>3 DEF QLTypeOK, LogCounts
<1>6. TotalsAreSlotSums
  BY <1>1 DEF Exact, TotalsAreSlotSums
<1>7. AggregateIsStream
  <2>. SUFFICES ASSUME ~qlHist.mixed, qlFold = <<>>, ~qlClear, qlAgg.base # 0
                PROVE  /\ \A h \in InWindow(qlAgg.base) :
                            h >= qlNow - QLWindow + 1 =>
                              qlAgg.slots[h] = Cardinality({i \in 1..Len(qlStream) : qlStream[i].hour = h})
                       /\ qlAgg.day = DayOf(qlNow) =>
                            qlAgg.today = Cardinality({i \in 1..Len(qlStream) : DayOf(qlStream[i].hour) = qlAgg.day
                                                                               /\ qlStream[i].hour > qlNow - QLDay})
    BY DEF AggregateIsStream
  <2>1. PICK n \in 0..Len(qlStream) : FoldIsSuffix(n) /\ Agree(qlAgg, qlStream, n, qlNow)
    BY DEF LogAgrees
  <2>2. n = Len(qlStream) /\ n \in Nat
    <3>1. Len(qlFold) = 0 /\ Len(qlStream) \in Nat
      BY EmptySeq, LogLens
    <3>. QED  BY <2>1, <3>1 DEF FoldIsSuffix
  <2>3. /\ qlAgg.base >= 1 /\ qlAgg.base <= qlNow - QLWindow + 1 /\ qlAgg.base \in Int
        /\ qlNow \in Nat /\ qlNow <= QLLastHour
    BY <1>1, <2>1, NowIs DEF Agree, Aggs
  <2>4. ASSUME NEW h \in InWindow(qlAgg.base), h >= qlNow - QLWindow + 1
        PROVE  qlAgg.slots[h] = Cardinality({i \in 1..Len(qlStream) : qlStream[i].hour = h})
    <3>1. h \in QLHourSet /\ h >= qlAgg.base
      BY <2>3, LogConst DEF InWindow
    <3>2. qlAgg.slots[h] = Hits(AtHour(qlStream, h), n)
      BY <2>1, <2>4, <3>1 DEF Agree
    <3>3. {i \in 1..n : i \in AtHour(qlStream, h)} = {i \in 1..n : qlStream[i].hour = h}
      BY <2>2 DEF AtHour
    <3>. QED  BY <2>2, <3>2, <3>3 DEF Hits
  <2>5. ASSUME qlAgg.day = DayOf(qlNow)
        PROVE  qlAgg.today = Cardinality({i \in 1..Len(qlStream) : DayOf(qlStream[i].hour) = qlAgg.day
                                                                  /\ qlStream[i].hour > qlNow - QLDay})
    <3>1. qlAgg.today = Hits(OnDay(qlStream, qlAgg.day), n)
      BY <2>1, <2>5 DEF Agree
    <3>2. ASSUME NEW i \in 1..n, DayOf(qlStream[i].hour) = qlAgg.day PROVE qlStream[i].hour > qlNow - QLDay
      <4>1. qlStream[i] \in EntriesBy(qlNow)
        BY <1>1, <2>2, ElementOfSeq
      <4>2. qlStream[i].hour \in Nat /\ DayOf(qlStream[i].hour) \in Nat
        BY <1>1, <4>1, NowIs
      <4>3. qlStream[i].hour <= qlNow - QLDay => DayOf(qlStream[i].hour) < DayOf(qlNow)
        BY <2>3, <4>2, DayFacts
      <4>. QED  BY <2>3, <2>5, <3>2, <4>2, <4>3, LogConst, SMTT(30)
    <3>3. {i \in 1..n : i \in OnDay(qlStream, qlAgg.day)}
            = {i \in 1..n : DayOf(qlStream[i].hour) = qlAgg.day /\ qlStream[i].hour > qlNow - QLDay}
      BY <2>2, <3>2 DEF OnDay
    <3>. QED  BY <2>2, <3>1, <3>3 DEF Hits
  <2>. QED  BY <2>4, <2>5
<1>8. ClosedMeansDrained
  BY DEF LogDrains, ClosedMeansDrained
<1>. QED  BY <1>5, <1>6, <1>7, <1>8 DEF LogSound

\* The query log and its rolling aggregate, for every window, queue, batch and
\* stream length: the totals are exactly the sums of the hour slots, the slots
\* and the today counter count what the stream holds, across midnight, window
\* rolls, Clear, crashes and seeds, and Close leaves nothing behind.
THEOREM LogHolds == QLSpec => []LogSound
<1>1. QLInit => QLInv
  BY LogInits
<1>2. QLInv /\ [QLNext]_QLVars => QLInv'
  BY LogStepKeeps
<1>3. QLInv => LogSound
  BY LogInvSound
<1>. QED  BY <1>1, <1>2, <1>3, PTL DEF QLSpec

-----------------------------------------------------------------------------
(* The range tables                                                        *)

\* The width, and divisibility; GTBits stays folded in the arithmetic below.
Bits == GTBits
Divides(s, x) == \E m \in Int : x = m * s

\* The width is at least one.
LEMMA BitsAre == Bits \in Nat /\ Bits >= 1 /\ Bits = GTBits
BY GTAssumption DEF Bits

\* Pow2 is what its recursion says: 1 << k.
LEMMA PowIs ==
  /\ Pow2[0] = 1
  /\ \A k \in 0..Bits : Pow2[k] \in Nat /\ Pow2[k] >= 1
  /\ \A k \in 1..Bits : Pow2[k] = 2 * Pow2[k - 1]
<1>. DEFINE F == [p \in (1..Bits) \X Nat |-> 2 * p[2]]
<1>1. F \in [(1..Bits) \X Nat -> Nat] /\ \A k \in 1..Bits : \A a \in Nat : F[<<k, a>>] = 2 * a
  OBVIOUS
<1>. HIDE DEF F
<1>2. PICK g : Iterates(g, Nat, 1, Bits, F)
  BY <1>1, BitsAre, PrimRec
<1>3. g \in [0..Bits -> Nat] /\ g[0] = 1 /\ \A k \in 1..Bits : g[k] = F[<<k, g[k - 1]>>]
  BY <1>2 DEF Iterates
<1>4. \A k \in 1..Bits : g[k] = 2 * g[k - 1]
  <2>. SUFFICES ASSUME NEW k \in 1..Bits PROVE g[k] = 2 * g[k - 1]
    OBVIOUS
  <2>0. k - 1 \in 0..Bits
    BY BitsAre
  <2>1. g[k - 1] \in Nat
    BY <1>3, <2>0
  <2>. QED  BY <1>1, <1>3, <2>1
<1>5. g = [k \in 0..Bits |-> IF k = 0 THEN 1 ELSE 2 * g[k - 1]]
  <2>1. \A k \in 0..Bits : g[k] = IF k = 0 THEN 1 ELSE 2 * g[k - 1]
    <3>. SUFFICES ASSUME NEW k \in 0..Bits PROVE g[k] = IF k = 0 THEN 1 ELSE 2 * g[k - 1]
      OBVIOUS
    <3>1. k # 0 => k \in 1..Bits
      BY BitsAre
    <3>. QED  BY <1>3, <1>4, <3>1
  <2>. QED  BY <1>3, <2>1
<1>6. Pow2 = [k \in 0..Bits |-> IF k = 0 THEN 1 ELSE 2 * Pow2[k - 1]]
  <2>. SUFFICES \E ff : ff = [k \in 0..Bits |-> IF k = 0 THEN 1 ELSE 2 * ff[k - 1]]
    BY DEF Pow2, Bits
  <2>. QED  BY <1>5
<1>7. Pow2[0] = 1 /\ \A k \in 1..Bits : Pow2[k] = 2 * Pow2[k - 1]
  <2>1. 0 \in 0..Bits /\ \A k \in 1..Bits : k \in 0..Bits /\ k # 0
    BY BitsAre
  <2>. QED  BY <1>6, <2>1
<1>. DEFINE T == {k \in Nat : k <= Bits => Pow2[k] \in Nat /\ Pow2[k] >= 1}
<1>8. 0 \in T
  BY <1>7
<1>9. ASSUME NEW k \in Nat, k \in T PROVE k + 1 \in T
  <2>. SUFFICES ASSUME k + 1 <= Bits PROVE Pow2[k + 1] \in Nat /\ Pow2[k + 1] >= 1
    OBVIOUS
  <2>1. Pow2[k] \in Nat /\ Pow2[k] >= 1 /\ k + 1 \in 1..Bits /\ (k + 1) - 1 = k
    BY <1>9, BitsAre
  <2>2. Pow2[k + 1] = 2 * Pow2[k]
    BY <1>7, <2>1
  <2>. QED  BY <2>1, <2>2
<1>. HIDE DEF T
<1>10. Nat \subseteq T
  BY <1>8, <1>9, Induct
<1>. QED  BY <1>7, <1>10, BitsAre DEF T

\* Sums and differences of multiples are multiples.
LEMMA DividesSums ==
  ASSUME NEW s \in Int, NEW x \in Int, NEW y \in Int, Divides(s, x), Divides(s, y)
  PROVE  Divides(s, x + y) /\ Divides(s, x - y)
<1>1. PICK a \in Int, b \in Int : x = a * s /\ y = b * s
  BY DEF Divides
<1>2. PICK c \in Int, d \in Int : c = a + b /\ d = a - b
  OBVIOUS
<1>3. x + y = c * s /\ x - y = d * s
  BY <1>1, <1>2
<1>. QED  BY <1>3 DEF Divides

\* Divisibility is transitive.
LEMMA DividesThrough ==
  ASSUME NEW s \in Int, NEW t \in Int, NEW x \in Int, Divides(t, s), Divides(s, x)
  PROVE  Divides(t, x)
<1>1. PICK a \in Int, b \in Int : s = a * t /\ x = b * s
  BY DEF Divides
<1>2. PICK c \in Int : c = b * a
  BY <1>1
<1>3. x = c * t
  BY <1>1, <1>2
<1>. QED  BY <1>3 DEF Divides

\* Two multiples of s are at least s apart.
LEMMA DividesSteps ==
  ASSUME NEW s \in Nat, s >= 1, NEW x \in Int, NEW y \in Int, Divides(s, x), Divides(s, y), x < y
  PROVE  x + s <= y
<1>1. PICK a \in Int, b \in Int : x = a * s /\ y = b * s
  BY DEF Divides
<1>2. b > a
  <2>. SUFFICES ASSUME b <= a PROVE FALSE
    BY <1>1
  <2>1. PICK c \in Nat : a = b + c
    <3>1. a - b \in Nat /\ a = b + (a - b)
      OBVIOUS
    <3>. QED  BY <3>1
  <2>2. x = y + c * s /\ c * s \in Nat
    BY <1>1, <2>1
  <2>. QED  BY <2>2
<1>3. PICK c \in Nat : b = a + 1 + c
  <2>1. b - a - 1 \in Nat /\ b = a + 1 + (b - a - 1)
    BY <1>2
  <2>. QED  BY <2>1
<1>4. y = x + s + c * s /\ c * s \in Nat
  BY <1>1, <1>3
<1>. QED  BY <1>4

\* Rest and quotient: what masking an address keeps.
LEMMA DividesRest ==
  ASSUME NEW s \in Nat, s >= 1, NEW x \in Nat
  PROVE  /\ x % s = 0 <=> Divides(s, x)
         /\ Divides(s, (x \div s) * s) /\ (x \div s) * s <= x /\ x < (x \div s) * s + s /\ (x \div s) * s \in Nat
         /\ Divides(s, x) => (x \div s) * s = x
<1>. DEFINE q == x \div s
            r == x % s
<1>1. q \in Nat /\ r \in 0..(s - 1) /\ x = q * s + r
  BY SMT
<1>. HIDE DEF q, r
<1>2. q * s \in Nat /\ Divides(s, q * s)
  BY <1>1 DEF Divides
<1>3. Divides(s, x) => r = 0
  <2>. SUFFICES ASSUME Divides(s, x), r # 0 PROVE FALSE
    OBVIOUS
  <2>1. q * s < x
    BY <1>1, <1>2
  <2>2. q * s + s <= x
    BY <1>2, <2>1, DividesSteps
  <2>. QED  BY <1>1, <1>2, <2>2
<1>4. r = 0 => x = q * s
  BY <1>1, <1>2
<1>5. q * s <= x /\ x < q * s + s
  BY <1>1, <1>2
<1>6. r = 0 <=> Divides(s, x)
  BY <1>2, <1>3, <1>4
<1>. QED  BY <1>2, <1>4, <1>5, <1>6 DEF q, r

\* A smaller power divides a larger one, and is at most half of it.
LEMMA PowDivides ==
  /\ \A j, k \in 0..Bits : j <= k => Divides(Pow2[j], Pow2[k]) /\ Pow2[j] <= Pow2[k]
  /\ \A j, k \in 0..Bits : j < k => 2 * Pow2[j] <= Pow2[k]
<1>. DEFINE T == {n \in Nat : \A j \in 0..Bits : j + n <= Bits => Divides(Pow2[j], Pow2[j + n]) /\ Pow2[j] <= Pow2[j + n]}
<1>1. 0 \in T
  <2>. SUFFICES ASSUME NEW j \in 0..Bits PROVE Divides(Pow2[j], Pow2[j + 0]) /\ Pow2[j] <= Pow2[j + 0]
    OBVIOUS
  <2>1. j + 0 = j /\ Pow2[j] \in Nat
    BY BitsAre, PowIs
  <2>2. Pow2[j] = 1 * Pow2[j]
    BY <2>1
  <2>. QED  BY <2>1, <2>2 DEF Divides
<1>2. ASSUME NEW n \in Nat, n \in T PROVE n + 1 \in T
  <2>. SUFFICES ASSUME NEW j \in 0..Bits, j + (n + 1) <= Bits
                PROVE  Divides(Pow2[j], Pow2[j + (n + 1)]) /\ Pow2[j] <= Pow2[j + (n + 1)]
    OBVIOUS
  <2>1. Divides(Pow2[j], Pow2[j + n]) /\ Pow2[j] <= Pow2[j + n] /\ j + n \in 0..Bits /\ j + (n + 1) \in 1..Bits
    BY <1>2, BitsAre
  <2>2. Pow2[j + (n + 1)] = 2 * Pow2[j + n]
    <3>1. (j + (n + 1)) - 1 = j + n
      BY BitsAre
    <3>. QED  BY <2>1, <3>1, PowIs
  <2>3. Pow2[j] \in Nat /\ Pow2[j + n] \in Nat
    BY <2>1, PowIs
  <2>4. 2 * Pow2[j + n] = Pow2[j + n] + Pow2[j + n]
    BY <2>3
  <2>. QED  BY <2>1, <2>2, <2>3, <2>4, DividesSums
<1>. HIDE DEF T
<1>3. Nat \subseteq T
  BY <1>1, <1>2, Induct
<1>4. ASSUME NEW j \in 0..Bits, NEW k \in 0..Bits, j <= k PROVE Divides(Pow2[j], Pow2[k]) /\ Pow2[j] <= Pow2[k]
  <2>1. k - j \in Nat /\ j + (k - j) = k /\ k <= Bits
    BY <1>4, BitsAre
  <2>2. k - j \in T
    BY <1>3, <2>1
  <2>3. Divides(Pow2[j], Pow2[j + (k - j)]) /\ Pow2[j] <= Pow2[j + (k - j)]
    BY <2>1, <2>2 DEF T
  <2>. QED  BY <2>1, <2>3
<1>5. ASSUME NEW j \in 0..Bits, NEW k \in 0..Bits, j < k PROVE 2 * Pow2[j] <= Pow2[k]
  <2>1. j + 1 \in 0..Bits /\ j + 1 \in 1..Bits /\ (j + 1) - 1 = j /\ j + 1 <= k
    BY <1>5, BitsAre
  <2>2. Pow2[j + 1] = 2 * Pow2[j]
    BY <2>1, PowIs
  <2>. QED  BY <1>4, <2>1, <2>2
<1>. QED  BY <1>4, <1>5

\* The address space, and where Wrap does not wrap.
LEMMA Space ==
  /\ TopAddr \in Nat /\ Pow2[Bits] = TopAddr + 1 /\ Addrs = 0..TopAddr /\ Pow2[Bits] \in Nat /\ TopAddr >= 1
  /\ \A n \in Addrs : Wrap(n) = n
  /\ Wrap(TopAddr + 1) = 0
<1>1. Bits \in 0..Bits /\ 0 \in 0..Bits /\ 0 < Bits
  BY BitsAre
<1>2. Pow2[Bits] \in Nat /\ 2 * Pow2[0] <= Pow2[Bits] /\ Pow2[0] = 1
  BY <1>1, PowIs, PowDivides
<1>3. TopAddr = Pow2[Bits] - 1
  BY DEF TopAddr, Bits
<1>4. TopAddr \in Nat /\ Pow2[Bits] = TopAddr + 1 /\ TopAddr >= 1
  BY <1>2, <1>3
<1>5. \A n : Wrap(n) = n % (TopAddr + 1)
  BY <1>4 DEF Wrap, Bits
<1>6. \A t \in Nat : (\A n \in 0..t : n % (t + 1) = n) /\ (t + 1) % (t + 1) = 0
  BY SMT
<1>. QED  BY <1>2, <1>4, <1>5, <1>6 DEF Addrs

-----------------------------------------------------------------------------
\* What a range is.
LEMMA SpanIs ==
  /\ \A r \in Spans : r.start \in Addrs /\ r.end \in Addrs /\ r.start <= r.end /\ r.start \in Nat /\ r.end \in Nat
  /\ \A a, b \in Addrs : a <= b => [start |-> a, end |-> b] \in Spans
  /\ \A r, x : x \in Span(r) <=> x \in r.start..r.end
  /\ \A r \in Spans : r.start <= TopAddr /\ r.end <= TopAddr /\ Span(r) \subseteq Addrs
BY Space DEF Spans, Span

\* A masked prefix is a range, and one that starts at a multiple of its size starts
\* where it says.
LEMMA RangeIs ==
  ASSUME NEW addr \in Addrs, NEW k \in 0..Bits
  PROVE  /\ RangeOf(addr, Bits - k) \in Spans
         /\ Divides(Pow2[k], addr) => RangeOf(addr, Bits - k) = [start |-> addr, end |-> addr + Pow2[k] - 1]
<1>. DEFINE s == Pow2[k]
            a == (addr \div s) * s
<1>1. s \in Nat /\ s >= 1 /\ addr \in Nat /\ addr <= TopAddr /\ TopAddr \in Nat /\ Pow2[Bits] = TopAddr + 1
  BY PowIs, Space
<1>2. RangeOf(addr, Bits - k) = [start |-> a, end |-> a + s - 1]
  <2>1. GTBits - (Bits - k) = k
    BY BitsAre
  <2>. QED  BY <2>1 DEF RangeOf
<1>3. Divides(s, Pow2[Bits])
  BY BitsAre, PowDivides
<1>. HIDE DEF s
<1>4. Divides(s, a) /\ a <= addr /\ a \in Nat /\ (Divides(s, addr) => a = addr)
  BY <1>1, DividesRest
<1>. HIDE DEF a
<1>5. a + s <= Pow2[Bits]
  BY <1>1, <1>3, <1>4, DividesSteps
<1>6. a \in Addrs /\ a + s - 1 \in Addrs /\ a <= a + s - 1
  BY <1>1, <1>4, <1>5, Space
<1>. QED  BY <1>2, <1>4, <1>6, SpanIs DEF s

\* Prefixes are ranges, and an aligned block is a prefix.
LEMMA PrefixesAre ==
  /\ PrefixRanges \subseteq Spans
  /\ \A a \in Addrs, k \in 0..Bits : Divides(Pow2[k], a) => [start |-> a, end |-> a + Pow2[k] - 1] \in PrefixRanges
<1>1. ASSUME NEW a \in Addrs, NEW o \in 0..GTBits PROVE RangeOf(a, o) \in Spans
  <2>1. Bits - o \in 0..Bits /\ Bits - (Bits - o) = o
    BY BitsAre
  <2>. QED  BY <2>1, RangeIs
<1>2. ASSUME NEW a \in Addrs, NEW k \in 0..Bits, Divides(Pow2[k], a)
      PROVE  [start |-> a, end |-> a + Pow2[k] - 1] \in PrefixRanges
  <2>1. Bits - k \in 0..GTBits
    BY BitsAre
  <2>2. [start |-> a, end |-> a + Pow2[k] - 1] = RangeOf(a, Bits - k)
    BY <1>2, RangeIs
  <2>. QED  BY <2>1, <2>2 DEF PrefixRanges
<1>. QED  BY <1>1, <1>2 DEF PrefixRanges

-----------------------------------------------------------------------------
\* In order: starts do not fall, and a range ends before the next starts, but for
\* ranges up to the top address, which may overlap.
Ordered(t) ==
  \A i, j \in 1..Len(t) : i < j => /\ t[i].start <= t[j].start
                                   /\ t[i].end < t[j].start \/ (t[i].end = TopAddr /\ t[j].end = TopAddr)

\* The binary search of an ordered table finds the first range that ends at or
\* after x, if there is one. The recursion over windows computes the same as the
\* choice of that index (c), which is shown to satisfy its equation.
LEMMA SearchIs ==
  ASSUME NEW t \in Seq(Spans), NEW x \in Addrs, Ordered(t)
  PROVE  /\ SearchEnd(t, x) \in 1..(Len(t) + 1)
         /\ \A i \in 1..Len(t) : i < SearchEnd(t, x) => t[i].end < x
         /\ SearchEnd(t, x) <= Len(t) => t[SearchEnd(t, x)].end >= x
<1>. DEFINE n == Len(t)
            P(k) == t[k + 1].end >= x
            bisect[w \in (0..n) \X (0..n)] ==
              LET lo == w[1]
                  hi == w[2]
                  mid == (lo + hi) \div 2
              IN IF lo >= hi THEN lo
                 ELSE IF t[mid + 1].end >= x THEN bisect[<<lo, mid>>] ELSE bisect[<<mid + 1, hi>>]
            First(lo, hi, k) == /\ k \in lo..hi
                                /\ \A j \in lo..hi : j < k => ~P(j)
                                /\ k = hi \/ P(k)
<1>. HIDE DEF bisect
<1>1. n \in Nat /\ \A k \in 0..(n - 1) : t[k + 1] \in Spans /\ t[k + 1].end \in Nat
  <2>1. n \in Nat
    BY LenProperties
  <2>2. ASSUME NEW k \in 0..(n - 1) PROVE t[k + 1] \in Spans
    <3>1. k + 1 \in 1..n
      BY <2>1
    <3>. QED  BY <3>1, ElementOfSeq
  <2>. QED  BY <2>1, <2>2, SpanIs
<1>2. x \in Nat /\ x <= TopAddr /\ TopAddr \in Nat
  BY Space
<1>3. \A j, k \in 0..(n - 1) : j <= k /\ P(j) => P(k)
  <2>. SUFFICES ASSUME NEW j \in 0..(n - 1), NEW k \in 0..(n - 1), j < k, P(j) PROVE P(k)
    BY <1>1
  <2>1. j + 1 \in 1..n /\ k + 1 \in 1..n /\ j + 1 < k + 1
    BY <1>1
  <2>2. t[j + 1].end < t[k + 1].start \/ (t[j + 1].end = TopAddr /\ t[k + 1].end = TopAddr)
    BY <2>1 DEF Ordered
  <2>3. t[j + 1].end \in Nat /\ t[k + 1].start \in Nat /\ t[k + 1].end \in Nat /\ t[k + 1].start <= t[k + 1].end
    BY <1>1, SpanIs
  <2>4. t[j + 1].end >= x
    BY DEF P
  <2>5. t[k + 1].end >= x
    BY <1>2, <2>2, <2>3, <2>4
  <2>. QED  BY <2>5
<1>. HIDE DEF n, P
\* a first index exists in every interval, and only one
<1>4. \A lo, hi \in 0..n : lo <= hi => \E k : First(lo, hi, k)
  <2>. DEFINE T == {d \in Nat : \A lo, hi \in 0..n : lo <= hi /\ hi - lo <= d => \E k : First(lo, hi, k)}
  <2>1. 0 \in T
    <3>. SUFFICES ASSUME NEW lo \in 0..n, NEW hi \in 0..n, lo <= hi, hi - lo <= 0 PROVE First(lo, hi, lo)
      OBVIOUS
    <3>1. lo = hi
      BY <1>1
    <3>. QED  BY <1>1, <3>1
  <2>2. ASSUME NEW d \in Nat, d \in T PROVE d + 1 \in T
    <3>. SUFFICES ASSUME NEW lo \in 0..n, NEW hi \in 0..n, lo <= hi, hi - lo <= d + 1 PROVE \E k : First(lo, hi, k)
      OBVIOUS
    <3>1. CASE lo = hi \/ P(lo)
      <4>1. First(lo, hi, lo)
        BY <1>1, <3>1
      <4>. QED  BY <4>1
    <3>2. CASE lo # hi /\ ~P(lo)
      <4>1. lo + 1 \in 0..n /\ lo + 1 <= hi /\ hi - (lo + 1) <= d
        BY <1>1, <3>2
      <4>2. PICK k : First(lo + 1, hi, k)
        BY <2>2, <4>1
      <4>3. First(lo, hi, k)
        <5>1. k \in lo..hi /\ (k = hi \/ P(k))
          BY <1>1, <4>1, <4>2
        <5>2. ASSUME NEW j \in lo..hi, j < k PROVE ~P(j)
          <6>1. j = lo \/ j \in (lo + 1)..hi
            BY <1>1
          <6>. QED  BY <3>2, <4>2, <5>2, <6>1
        <5>. QED  BY <5>1, <5>2
      <4>. QED  BY <4>3
    <3>. QED  BY <3>1, <3>2
  <2>. HIDE DEF T
  <2>3. Nat \subseteq T
    BY <2>1, <2>2, Induct
  <2>. SUFFICES ASSUME NEW lo \in 0..n, NEW hi \in 0..n, lo <= hi PROVE \E k : First(lo, hi, k)
    OBVIOUS
  <2>4. hi - lo \in Nat /\ hi - lo <= hi - lo
    BY <1>1
  <2>5. hi - lo \in T
    BY <2>3, <2>4
  <2>. QED  BY <2>4, <2>5 DEF T
<1>5. \A lo, hi \in 0..n : \A k, m : First(lo, hi, k) /\ First(lo, hi, m) => k = m
  <2>. SUFFICES ASSUME NEW lo \in 0..n, NEW hi \in 0..n, NEW k, NEW m, First(lo, hi, k), First(lo, hi, m) PROVE k = m
    OBVIOUS
  <2>1. k \in Int /\ m \in Int /\ k \in lo..hi /\ m \in lo..hi
    BY <1>1
  <2>2. ~(k < m)
    BY <1>1, <2>1
  <2>3. ~(m < k)
    BY <1>1, <2>1
  <2>. QED  BY <2>1, <2>2, <2>3
<1>. DEFINE c(lo, hi) == IF lo >= hi THEN lo ELSE CHOOSE k : First(lo, hi, k)
<1>6. \A lo, hi \in 0..n : lo < hi => First(lo, hi, c(lo, hi))
  <2>. SUFFICES ASSUME NEW lo \in 0..n, NEW hi \in 0..n, lo < hi PROVE First(lo, hi, c(lo, hi))
    OBVIOUS
  <2>1. ~(lo >= hi) /\ lo <= hi
    BY <1>1
  <2>. HIDE DEF First
  <2>2. \E k : First(lo, hi, k)
    BY <1>4, <2>1
  <2>. QED  BY <2>1, <2>2
<1>7. \A lo, hi \in 0..n : lo < hi =>
        LET mid == (lo + hi) \div 2
        IN /\ mid \in lo..(hi - 1) /\ mid \in 0..n /\ mid + 1 \in 0..n
           /\ P(mid) => \A k : First(lo, mid, k) => First(lo, hi, k)
           /\ ~P(mid) => \A k : First(mid + 1, hi, k) => First(lo, hi, k)
  <2>. SUFFICES ASSUME NEW lo \in 0..n, NEW hi \in 0..n, lo < hi
                PROVE  LET mid == (lo + hi) \div 2
                       IN /\ mid \in lo..(hi - 1) /\ mid \in 0..n /\ mid + 1 \in 0..n
                          /\ P(mid) => \A k : First(lo, mid, k) => First(lo, hi, k)
                          /\ ~P(mid) => \A k : First(mid + 1, hi, k) => First(lo, hi, k)
    OBVIOUS
  <2>1. PICK mid : mid = (lo + hi) \div 2
    OBVIOUS
  <2>2. mid \in Int /\ lo <= mid /\ mid < hi /\ lo \in Int /\ hi \in Int /\ 0 <= lo /\ hi <= n
    BY <1>1, <2>1
  <2>3. mid \in lo..(hi - 1) /\ mid \in 0..n /\ mid + 1 \in 0..n /\ mid \in 0..(n - 1)
    BY <1>1, <2>2
  <2>4. ASSUME P(mid), NEW k, First(lo, mid, k) PROVE First(lo, hi, k)
    <3>1. k \in lo..hi /\ P(k) /\ k \in Int /\ k <= mid
      BY <2>2, <2>4
    <3>2. \A j \in lo..hi : j < k => j \in lo..mid
      BY <2>2, <3>1
    <3>. QED  BY <2>4, <3>1, <3>2
  <2>5. ASSUME ~P(mid), NEW k, First(mid + 1, hi, k) PROVE First(lo, hi, k)
    <3>1. k \in lo..hi /\ k \in Int /\ k >= mid + 1 /\ (k = hi \/ P(k))
      BY <2>2, <2>5
    <3>2. ASSUME NEW j \in lo..hi, j < k PROVE ~P(j)
      <4>1. CASE j >= mid + 1
        <5>1. j \in (mid + 1)..hi
          BY <2>2, <4>1
        <5>. QED  BY <2>5, <3>2, <5>1
      <4>2. CASE j <= mid
        <5>1. j \in 0..(n - 1)
          BY <1>1, <2>2, <4>2
        <5>. QED  BY <1>3, <2>3, <2>5, <4>2, <5>1
      <4>. QED  BY <2>2, <4>1, <4>2
    <3>. QED  BY <3>1, <3>2
  <2>. HIDE DEF First
  <2>. QED  BY <2>1, <2>3, <2>4, <2>5
<1>. HIDE DEF First, c
<1>8. \A lo, hi \in 0..n : c(lo, hi) = IF lo >= hi THEN lo
                                     ELSE LET mid == (lo + hi) \div 2
                                          IN IF P(mid) THEN c(lo, mid) ELSE c(mid + 1, hi)
  <2>0. \A lo, hi \in 0..n : (lo >= hi => c(lo, hi) = lo) /\ (lo >= hi \/ lo < hi)
    BY <1>1 DEF c
  <2>. SUFFICES ASSUME NEW lo \in 0..n, NEW hi \in 0..n, lo < hi
                PROVE  LET mid == (lo + hi) \div 2
                       IN ~(lo >= hi) /\ c(lo, hi) = IF P(mid) THEN c(lo, mid) ELSE c(mid + 1, hi)
    BY <2>0
  <2>1. ~(lo >= hi)
    BY <1>1
  <2>10. PICK mid : mid = (lo + hi) \div 2
    OBVIOUS
  <2>2. /\ mid \in lo..(hi - 1) /\ mid \in 0..n /\ mid + 1 \in 0..n
        /\ P(mid) => \A k : First(lo, mid, k) => First(lo, hi, k)
        /\ ~P(mid) => \A k : First(mid + 1, hi, k) => First(lo, hi, k)
    BY <1>7, <2>10
  <2>3. First(lo, hi, c(lo, hi))
    BY <1>6
  <2>4. ASSUME NEW a \in 0..n, NEW b \in 0..n, a <= b PROVE First(a, b, c(a, b))
    <3>1. CASE a < b
      BY <1>6, <3>1
    <3>2. CASE ~(a < b)
      <4>1. a = b /\ a \in Int
        BY <1>1, <2>4, <3>2
      <4>2. c(a, b) = a
        BY <4>1 DEF c
      <4>. QED  BY <4>1, <4>2 DEF First
    <3>. QED  BY <3>1, <3>2
  <2>5. CASE P(mid)
    <3>1. First(lo, mid, c(lo, mid))
      BY <1>1, <2>2, <2>4
    <3>2. c(lo, hi) = c(lo, mid)
      BY <1>5, <2>2, <2>3, <2>5, <3>1
    <3>. QED  BY <2>1, <2>10, <2>5, <3>2
  <2>6. CASE ~P(mid)
    <3>1. First(mid + 1, hi, c(mid + 1, hi))
      BY <1>1, <2>2, <2>4
    <3>2. c(lo, hi) = c(mid + 1, hi)
      BY <1>5, <2>2, <2>3, <2>6, <3>1
    <3>. QED  BY <2>1, <2>10, <2>6, <3>2
  <2>. QED  BY <2>5, <2>6
<1>. DEFINE Turn(f, w) == LET mid == (w[1] + w[2]) \div 2
                          IN IF P(mid) THEN f[<<w[1], mid>>] ELSE f[<<mid + 1, w[2]>>]
            g == [w \in (0..n) \X (0..n) |-> c(w[1], w[2])]
<1>90. \A lo, hi \in 0..n : g[<<lo, hi>>] = c(lo, hi)
  OBVIOUS
<1>91. \A w \in (0..n) \X (0..n) : g[w] = IF w[1] >= w[2] THEN w[1] ELSE Turn(g, w)
  <2>. SUFFICES ASSUME NEW w \in (0..n) \X (0..n)
                PROVE  g[w] = IF w[1] >= w[2] THEN w[1] ELSE Turn(g, w)
    OBVIOUS
  <2>. HIDE DEF g
  <2>0. PICK lo \in 0..n, hi \in 0..n : w = <<lo, hi>> /\ w[1] = lo /\ w[2] = hi
    OBVIOUS
  <2>1. CASE lo >= hi
    BY <1>8, <1>90, <2>0, <2>1
  <2>2. CASE ~(lo >= hi)
    <3>1. lo < hi
      BY <1>1, <2>2
    <3>2. PICK mid : mid = (lo + hi) \div 2
      OBVIOUS
    <3>3. mid \in 0..n /\ mid + 1 \in 0..n
      BY <1>7, <3>1, <3>2
    <3>4. g[<<lo, mid>>] = c(lo, mid) /\ g[<<mid + 1, hi>>] = c(mid + 1, hi)
      BY <1>90, <3>3
    <3>5. c(lo, hi) = IF P(mid) THEN c(lo, mid) ELSE c(mid + 1, hi)
      BY <1>8, <2>2, <3>2
    <3>6. Turn(g, <<lo, hi>>) = IF P(mid) THEN g[<<lo, mid>>] ELSE g[<<mid + 1, hi>>]
      BY <3>2
    <3>. QED  BY <1>90, <2>0, <2>2, <3>4, <3>5, <3>6
  <2>. QED  BY <2>1, <2>2
<1>92. g = [w \in (0..n) \X (0..n) |-> IF w[1] >= w[2] THEN w[1] ELSE Turn(g, w)]
  <2>1. g = [w \in (0..n) \X (0..n) |-> g[w]]
    OBVIOUS
  <2>. HIDE DEF g, Turn
  <2>. QED  BY <1>91, <2>1
<1>. HIDE DEF g
<1>93. bisect = [w \in (0..n) \X (0..n) |-> IF w[1] >= w[2] THEN w[1] ELSE Turn(bisect, w)]
  <2>. SUFFICES \E ff : ff = [w \in (0..n) \X (0..n) |-> IF w[1] >= w[2] THEN w[1] ELSE Turn(ff, w)]
    BY DEF bisect, P
  <2>. QED  BY <1>92
<1>9. \A lo, hi \in 0..n : bisect[<<lo, hi>>] = IF lo >= hi THEN lo ELSE Turn(bisect, <<lo, hi>>)
  <2>. HIDE DEF Turn
  <2>. QED  BY <1>93
<1>10. \A lo, hi \in 0..n : lo <= hi => bisect[<<lo, hi>>] = c(lo, hi)
  <2>. DEFINE T == {d \in Nat : \A lo, hi \in 0..n : lo <= hi /\ hi - lo <= d => bisect[<<lo, hi>>] = c(lo, hi)}
  <2>0. \A lo, hi \in 0..n : bisect[<<lo, hi>>] = IF lo >= hi THEN lo
                                             ELSE LET mid == (lo + hi) \div 2
                                                  IN IF P(mid) THEN bisect[<<lo, mid>>] ELSE bisect[<<mid + 1, hi>>]
    BY <1>9
  <2>1. 0 \in T
    <3>. SUFFICES ASSUME NEW lo \in 0..n, NEW hi \in 0..n, lo <= hi, hi - lo <= 0 PROVE bisect[<<lo, hi>>] = c(lo, hi)
      OBVIOUS
    <3>1. lo >= hi
      BY <1>1
    <3>. QED  BY <2>0, <3>1 DEF c
  <2>2. ASSUME NEW d \in Nat, d \in T PROVE d + 1 \in T
    <3>. SUFFICES ASSUME NEW lo \in 0..n, NEW hi \in 0..n, lo <= hi, hi - lo <= d + 1 PROVE bisect[<<lo, hi>>] = c(lo, hi)
      OBVIOUS
    <3>1. CASE lo >= hi
      BY <2>0, <3>1 DEF c
    <3>2. CASE ~(lo >= hi)
      <4>1. lo < hi
        BY <1>1, <3>2
      <4>2. PICK mid : mid = (lo + hi) \div 2
        OBVIOUS
      <4>3. mid \in lo..(hi - 1) /\ mid \in 0..n /\ mid + 1 \in 0..n
        BY <1>7, <4>1, <4>2
      <4>4. lo <= mid /\ mid - lo <= d /\ mid + 1 <= hi /\ hi - (mid + 1) <= d
        BY <1>1, <4>3
      <4>5. bisect[<<lo, mid>>] = c(lo, mid) /\ bisect[<<mid + 1, hi>>] = c(mid + 1, hi)
        BY <2>2, <4>3, <4>4
      <4>6. bisect[<<lo, hi>>] = IF P(mid) THEN bisect[<<lo, mid>>] ELSE bisect[<<mid + 1, hi>>]
        BY <2>0, <3>2, <4>2
      <4>7. c(lo, hi) = IF P(mid) THEN c(lo, mid) ELSE c(mid + 1, hi)
        BY <1>8, <3>2, <4>2
      <4>. QED  BY <4>5, <4>6, <4>7
    <3>. QED  BY <3>1, <3>2
  <2>. HIDE DEF T
  <2>3. Nat \subseteq T
    BY <2>1, <2>2, Induct
  <2>. SUFFICES ASSUME NEW lo \in 0..n, NEW hi \in 0..n, lo <= hi PROVE bisect[<<lo, hi>>] = c(lo, hi)
    OBVIOUS
  <2>4. hi - lo \in Nat /\ hi - lo <= hi - lo
    BY <1>1
  <2>. QED  BY <2>3, <2>4 DEF T
<1>11. SearchEnd(t, x) = bisect[<<0, n>>] + 1
  BY DEF SearchEnd, bisect, n
<1>12. PICK k : k = c(0, n) /\ First(0, n, k)
  <2>1. 0 \in 0..n /\ n \in 0..n /\ 0 <= n
    BY <1>1
  <2>2. CASE n = 0
    <3>1. c(0, n) = 0
      BY <2>2 DEF c
    <3>. QED  BY <2>2, <3>1 DEF First
  <2>3. CASE n # 0
    <3>1. 0 < n
      BY <1>1, <2>3
    <3>. QED  BY <1>6, <2>1, <3>1
  <2>. QED  BY <2>2, <2>3
<1>13. SearchEnd(t, x) = k + 1
  <2>1. 0 \in 0..n /\ n \in 0..n /\ 0 <= n
    BY <1>1
  <2>. QED  BY <1>10, <1>11, <1>12, <2>1
<1>14. k \in Int /\ 0 <= k /\ k <= n /\ (k = n \/ P(k)) /\ \A j \in 0..n : j < k => ~P(j)
  BY <1>1, <1>12 DEF First
<1>15. ASSUME NEW i \in 1..n, i < k + 1 PROVE t[i].end < x
  <2>1. i - 1 \in 0..n /\ i - 1 < k /\ i - 1 \in 0..(n - 1) /\ (i - 1) + 1 = i
    BY <1>1, <1>14, <1>15
  <2>2. ~P(i - 1)
    BY <1>14, <2>1
  <2>3. t[i].end \in Nat
    BY <1>1, <2>1
  <2>. QED  BY <1>2, <2>1, <2>2, <2>3 DEF P
<1>16. k + 1 <= n => t[k + 1].end >= x
  BY <1>1, <1>14 DEF P
<1>. QED  BY <1>1, <1>13, <1>14, <1>15, <1>16 DEF n

\* In an ordered table a lookup finds an address exactly when a range holds it.
LEMMA ContainsIs ==
  ASSUME NEW t \in Seq(Spans), NEW x \in Addrs, Ordered(t)
  PROVE  TableContains(t, x) <=> \E i \in 1..Len(t) : x \in Span(t[i])
<1>. DEFINE i == SearchEnd(t, x)
<1>1. /\ i \in 1..(Len(t) + 1) /\ Len(t) \in Nat
      /\ \A j \in 1..Len(t) : j < i => t[j].end < x
      /\ i <= Len(t) => t[i].end >= x
  BY SearchIs, LenProperties
<1>2. TableContains(t, x) <=> i <= Len(t) /\ t[i].start <= x
  BY DEF TableContains
<1>. HIDE DEF i
<1>3. x \in Nat /\ x <= TopAddr /\ TopAddr \in Nat
  BY Space
<1>4. \A j \in 1..Len(t) : t[j].start \in Nat /\ t[j].end \in Nat /\ t[j].start <= t[j].end
  <2>. SUFFICES ASSUME NEW j \in 1..Len(t) PROVE t[j].start \in Nat /\ t[j].end \in Nat /\ t[j].start <= t[j].end
    OBVIOUS
  <2>1. t[j] \in Spans
    BY ElementOfSeq
  <2>. QED  BY <2>1, SpanIs
<1>5. ASSUME i <= Len(t), t[i].start <= x PROVE \E j \in 1..Len(t) : x \in Span(t[j])
  <2>1. i \in 1..Len(t) /\ t[i].end >= x
    BY <1>1, <1>5
  <2>2. x \in t[i].start..t[i].end
    BY <1>3, <1>4, <1>5, <2>1
  <2>. QED  BY <2>1, <2>2 DEF Span
<1>6. ASSUME NEW j \in 1..Len(t), x \in Span(t[j]) PROVE i <= Len(t) /\ t[i].start <= x
  <2>1. t[j].start <= x /\ x <= t[j].end
    BY <1>3, <1>4, <1>6 DEF Span
  <2>2. i <= j
    BY <1>1, <1>3, <1>4, <2>1
  <2>3. i \in 1..Len(t)
    BY <1>1, <2>2
  <2>4. t[i].start <= t[j].start
    <3>1. CASE i = j
      BY <1>4, <3>1
    <3>2. CASE i # j
      BY <1>1, <2>2, <2>3, <3>2 DEF Ordered
    <3>. QED  BY <3>1, <3>2
  <2>. QED  BY <1>3, <1>4, <2>1, <2>3, <2>4
<1>. QED  BY <1>2, <1>5, <1>6

-----------------------------------------------------------------------------
\* Some range of t holds x; and a turn of mergeRanges as an operator.
Covers(t, x) == \E i \in 1..Len(t) : x \in Span(t[i])
Merged(out, r) ==
  LET n == Len(out)
  IN IF n > 0 /\ Joins(out[n], r)
     THEN [out EXCEPT ![n].end = IF r.end > @ THEN r.end ELSE @]
     ELSE Append(out, r)

\* What the comparison in the machine's arithmetic says at the top address and
\* below it.
LEMMA JoinsIs ==
  ASSUME NEW last \in Spans, NEW r \in Spans
  PROVE  /\ last.end < TopAddr => (Joins(last, r) <=> r.start <= last.end + 1)
         /\ last.end = TopAddr => (Joins(last, r) <=> r.start = 0)
<1>1. last.end \in Nat /\ r.start \in Nat /\ last.end \in Addrs /\ TopAddr \in Nat
  BY SpanIs, Space
<1>2. last.end < TopAddr => Wrap(last.end + 1) = last.end + 1
  <2>. SUFFICES ASSUME last.end < TopAddr PROVE last.end + 1 \in Addrs
    BY Space
  <2>. QED  BY <1>1, Space
<1>3. last.end = TopAddr => Wrap(last.end + 1) = 0
  BY Space
<1>. QED  BY <1>1, <1>2, <1>3 DEF Joins

\* A turn of mergeRanges keeps every address and adds those of r, whether it joins
\* or appends.
LEMMA MergedIs ==
  ASSUME NEW out \in Seq(Spans), NEW r \in Spans, out # <<>> => out[Len(out)].start <= r.start,
         NEW m, m = Merged(out, r)
  PROVE  /\ m \in Seq(Spans) /\ m # <<>>
         /\ \A x \in Addrs : Covers(m, x) <=> Covers(out, x) \/ x \in Span(r)
         /\ \A i \in 1..(Len(m) - 1) : i <= Len(out) /\ m[i] = out[i]
         /\ m[Len(m)].start <= r.start
         /\ \/ /\ out # <<>> /\ Len(m) = Len(out) /\ m[Len(m)].start = out[Len(out)].start
               /\ m[Len(m)].end = IF r.end > out[Len(out)].end THEN r.end ELSE out[Len(out)].end
            \/ /\ Len(m) = Len(out) + 1 /\ m[Len(m)] = r
               /\ out # <<>> => ~Joins(out[Len(out)], r)
<1>. DEFINE n == Len(out)
<1>0. n \in Nat /\ (out # <<>> <=> n > 0) /\ \A i \in 1..n : out[i] \in Spans
  <2>1. n \in Nat /\ (out # <<>> <=> n > 0)
    BY LenProperties, EmptySeq
  <2>. QED  BY <2>1, ElementOfSeq
<1>r. r.start \in Nat /\ r.end \in Nat /\ r.start <= r.end /\ r.end <= TopAddr /\ TopAddr \in Nat
  BY SpanIs, Space
<1>1. CASE n > 0 /\ Joins(out[n], r)
  <2>1. n \in 1..n /\ out[n] \in Spans
    BY <1>0, <1>1
  <2>2. PICK last \in Spans : last = out[n]
    BY <2>1
  <2>3. last.start \in Nat /\ last.end \in Nat /\ last.start <= last.end /\ last.end <= TopAddr /\ last.start \in Addrs /\ last.end \in Addrs
    BY <2>2, SpanIs
  <2>4. last.start <= r.start
    BY <1>0, <1>1, <2>2
  <2>5. PICK e \in Nat : e = (IF r.end > last.end THEN r.end ELSE last.end)
    BY <1>r, <2>3
  <2>6. e \in Addrs /\ last.start <= e /\ r.end <= e /\ last.end <= e
    BY <1>r, <2>3, <2>5, SpanIs
  <2>7. last = [start |-> last.start, end |-> last.end]
    BY <2>2 DEF Spans
  <2>8. PICK new \in Spans : new = [start |-> last.start, end |-> e]
    BY <2>3, <2>6, SpanIs
  <2>9. [last EXCEPT !.end = e] = new
    BY <2>7, <2>8
  <2>10. m = [out EXCEPT ![n] = new]
    <3>1. m = [out EXCEPT ![n].end = IF r.end > @ THEN r.end ELSE @]
      BY <1>1 DEF Merged
    <3>2. m = [out EXCEPT ![n] = [out[n] EXCEPT !.end = IF r.end > out[n].end THEN r.end ELSE out[n].end]]
      BY <3>1
    <3>. QED  BY <2>2, <2>5, <2>9, <3>2
  <2>11. m \in Seq(Spans) /\ Len(m) = n /\ m[n] = new /\ \A i \in 1..n : i # n => m[i] = out[i]
    BY <1>0, <2>1, <2>10, ExceptSeq
  <2>12. \A x \in Addrs : x \in Span(new) <=> x \in Span(last) \/ x \in Span(r)
    <3>. SUFFICES ASSUME NEW x \in Addrs PROVE x \in Span(new) <=> x \in Span(last) \/ x \in Span(r)
      OBVIOUS
    <3>1. x \in Nat /\ x <= TopAddr
      BY Space
    <3>2. r.start <= last.end + 1 \/ (r.start = 0 /\ last.end = TopAddr)
      BY <1>1, <2>2, <2>3, <1>r, JoinsIs
    <3>3. new.start = last.start /\ new.end = e
      BY <2>8
    <3>4. x \in last.start..e <=> x \in last.start..last.end \/ x \in r.start..r.end
      BY <1>r, <2>3, <2>4, <2>5, <3>1, <3>2
    <3>. QED  BY <3>3, <3>4 DEF Span
  <2>13. ASSUME NEW x \in Addrs PROVE Covers(m, x) <=> Covers(out, x) \/ x \in Span(r)
    <3>1. Covers(m, x) => Covers(out, x) \/ x \in Span(r)
      <4>. SUFFICES ASSUME NEW i \in 1..n, x \in Span(m[i]) PROVE Covers(out, x) \/ x \in Span(r)
        BY <2>11 DEF Covers
      <4>1. CASE i = n
        BY <2>1, <2>2, <2>11, <2>12, <4>1 DEF Covers
      <4>2. CASE i # n
        BY <2>11, <4>2 DEF Covers
      <4>. QED  BY <4>1, <4>2
    <3>2. x \in Span(r) => Covers(m, x)
      BY <2>1, <2>11, <2>12 DEF Covers
    <3>3. Covers(out, x) => Covers(m, x)
      <4>. SUFFICES ASSUME NEW i \in 1..n, x \in Span(out[i]) PROVE Covers(m, x)
        BY DEF Covers
      <4>1. CASE i = n
        BY <2>1, <2>2, <2>11, <2>12, <4>1 DEF Covers
      <4>2. CASE i # n
        BY <2>11, <4>2 DEF Covers
      <4>. QED  BY <4>1, <4>2
    <3>. QED  BY <3>1, <3>2, <3>3
  <2>15. m[n].start = out[n].start /\ m[n].end = e /\ m # <<>>
    <3>1. m # <<>>
      BY <1>1, <2>11, EmptySeq
    <3>. QED  BY <2>2, <2>8, <2>11, <3>1
  <2>16. \A i \in 1..(n - 1) : i <= n /\ m[i] = out[i]
    <3>. SUFFICES ASSUME NEW i \in 1..(n - 1) PROVE i <= n /\ m[i] = out[i]
      OBVIOUS
    <3>1. i \in 1..n /\ i # n
      BY <1>0
    <3>2. i <= n
      BY <1>0, <3>1
    <3>. QED  BY <2>11, <3>1, <3>2
  <2>17. m[n].end = (IF r.end > out[n].end THEN r.end ELSE out[n].end) /\ m[n].start <= r.start /\ out # <<>>
    BY <1>0, <1>1, <2>2, <2>4, <2>5, <2>15
  <2>. HIDE DEF Covers
  <2>. QED  BY <2>11, <2>13, <2>15, <2>16, <2>17
<1>2. CASE ~(n > 0 /\ Joins(out[n], r))
  <2>1. m = Append(out, r)
    BY <1>2 DEF Merged
  <2>2. m \in Seq(Spans) /\ Len(m) = n + 1 /\ m[n + 1] = r /\ \A i \in 1..n : m[i] = out[i]
    BY <2>1, AppendProperties
  <2>3. ASSUME NEW x \in Addrs PROVE Covers(m, x) <=> Covers(out, x) \/ x \in Span(r)
    <3>1. n + 1 \in 1..(n + 1) /\ \A i \in 1..n : i \in 1..(n + 1)
      BY <1>0
    <3>2. \A i \in 1..(n + 1) : i = n + 1 \/ i \in 1..n
      BY <1>0
    <3>. QED  BY <2>2, <3>1, <3>2 DEF Covers
  <2>4. m # <<>>
    BY <1>0, <2>2, EmptySeq
  <2>5. \A i \in 1..((n + 1) - 1) : i \in 1..n /\ i <= n
    BY <1>0
  <2>6. r.start <= r.start
    BY <1>r
  <2>. QED  BY <1>0, <1>2, <2>2, <2>3, <2>4, <2>5, <2>6
<1>. QED  BY <1>1, <1>2

-----------------------------------------------------------------------------
\* What cidrs4 works on.
Splits == [on : BOOLEAN, start : Addrs, end : Addrs, from : Addrs, cidrs : Seq(PrefixRanges)]

\* Types.
GTTypes ==
  /\ gtKind \in {"prefix", "asn"} /\ gtSource \subseteq Spans
  /\ gtIn \in Seq(Spans) /\ gtOut \in Seq(Spans)
  /\ gtSplit \in Splits

\* Nothing is lost or added: an address is in the source exactly when it is in what
\* is still to merge or in the table.
Loading ==
  /\ \A i \in 1..Len(gtIn) : gtIn[i] \in gtSource
  /\ \A x \in Addrs : (\E r \in gtSource : x \in Span(r)) <=> Covers(gtIn, x) \/ Covers(gtOut, x)

\* A table of prefixes under construction. Unless a range up to the top address has
\* a shorter one inside it, the table is in order, and once it reaches the top all
\* that is left does too.
Merging ==
  gtKind = "prefix" =>
    /\ Sorts(gtIn)
    /\ gtOut # <<>> => \A i \in 1..Len(gtIn) : gtOut[Len(gtOut)].start <= gtIn[i].start
    /\ ~WrapsOver(gtSource) =>
         /\ Ordered(gtOut)
         /\ gtOut # <<>> /\ gtOut[Len(gtOut)].end = TopAddr =>
              \E r \in gtSource : r.end = TopAddr /\ \A i \in 1..Len(gtIn) : r.start <= gtIn[i].start

\* A table of disjoint ranges: sorting them puts them in order.
Keeping ==
  gtKind = "asn" => Ordered(gtIn) /\ Ordered(gtOut) /\ (gtIn # <<>> => gtOut = <<>>)

\* The blocks of p tile from..to.
Tiles(p, from, to) ==
  /\ UNION {Span(p[i]) : i \in 1..Len(p)} = from..to
  /\ \A i, j \in 1..Len(p) : i # j => Span(p[i]) \cap Span(p[j]) = {}

\* The sizes of the blocks first grow: the n-th start is a multiple of 2^n. From the
\* first block that is cut short by the end, they shrink. Each size is used once in
\* either run, which is what bounds their number.
Growing(n, start) == n <= Bits - 1 /\ Divides(Pow2[n], start) /\ (start > 0 \/ n = 0)
Shrinking(n, start, end) ==
  \E m \in 0..(Bits - 1) : Divides(Pow2[m], start) /\ end - start + 1 < Pow2[m] /\ n + m <= 2 * Bits - 1

\* A split under way has tiled what is before start, a finished one everything; a
\* split of a range up to the top address never finishes.
Splitting ==
  LET p == gtSplit.cidrs IN
  /\ Len(p) <= 2 * Bits + 1
  /\ gtSplit.end = TopAddr /\ p # <<>> => gtSplit.on
  /\ gtSplit.on /\ gtSplit.end # TopAddr =>
       /\ gtSplit.from <= gtSplit.start /\ gtSplit.start <= gtSplit.end + 1
       /\ p = <<>> => gtSplit.start <= gtSplit.end
       /\ Tiles(p, gtSplit.from, gtSplit.start - 1)
       /\ Growing(Len(p), gtSplit.start) \/ Shrinking(Len(p), gtSplit.start, gtSplit.end)
  /\ ~gtSplit.on /\ p # <<>> => Tiles(p, gtSplit.from, gtSplit.end) /\ Len(p) <= 2 * Bits - 1

\* The inductive invariant.
GTInv == GTTypes /\ Loading /\ Merging /\ Keeping /\ Splitting

-----------------------------------------------------------------------------
\* The fields of the split.
LEMMA SplitFields ==
  ASSUME GTTypes
  PROVE  /\ gtSplit.on \in BOOLEAN /\ gtSplit.start \in Addrs /\ gtSplit.end \in Addrs /\ gtSplit.from \in Addrs
         /\ gtSplit.cidrs \in Seq(PrefixRanges)
         /\ gtSplit = [on |-> gtSplit.on, start |-> gtSplit.start, end |-> gtSplit.end, from |-> gtSplit.from,
                       cidrs |-> gtSplit.cidrs]
BY DEF GTTypes, Splits

\* The tables as they are loaded.
LEMMA GTInitOK == GTInit => GTInv
<1>. SUFFICES ASSUME GTInit PROVE GTInv
  OBVIOUS
<1>1. PICK n \in 0..GTRanges :
        /\ gtIn \in [1..n -> IF gtKind = "prefix" THEN PrefixRanges ELSE Spans]
        /\ Sorts(gtIn)
        /\ gtKind = "asn" => Disjoint(gtIn)
  BY DEF GTInit
<1>2. n \in Nat /\ gtIn \in [1..n -> Spans]
  <2>1. GTRanges \in Nat
    BY GTAssumption
  <2>2. (IF gtKind = "prefix" THEN PrefixRanges ELSE Spans) \subseteq Spans
    BY PrefixesAre
  <2>. QED  BY <1>1, <2>1, <2>2
<1>3. gtIn \in Seq(Spans) /\ Len(gtIn) = n
  BY <1>2, SeqDef
<1>4. \A i \in 1..Len(gtIn) : gtIn[i] \in Spans
  BY <1>2, <1>3
<1>5. gtSource = {gtIn[i] : i \in 1..Len(gtIn)} /\ gtOut = <<>> /\ gtSplit = NoSplit /\ gtKind \in {"prefix", "asn"}
  BY DEF GTInit
<1>6. gtOut \in Seq(Spans) /\ Len(gtOut) = 0
  BY <1>5, EmptySeq
<1>7. gtSplit \in Splits /\ gtSplit.cidrs = <<>> /\ Len(gtSplit.cidrs) = 0 /\ gtSplit.on = FALSE
  <2>1. 0 \in Addrs
    BY Space
  <2>2. <<>> \in Seq(PrefixRanges) /\ Len(<<>>) = 0
    BY EmptySeq
  <2>. QED  BY <1>5, <2>1, <2>2 DEF NoSplit, Splits
<1>8. GTTypes
  BY <1>3, <1>4, <1>5, <1>6, <1>7 DEF GTTypes
<1>9. Loading
  <2>1. \A x : ~Covers(gtOut, x)
    BY <1>6 DEF Covers
  <2>2. \A x : (\E r \in gtSource : x \in Span(r)) <=> Covers(gtIn, x)
    BY <1>5 DEF Covers
  <2>. QED  BY <1>5, <2>1, <2>2 DEF Loading
<1>10. Ordered(gtOut)
  BY <1>6 DEF Ordered
<1>11. Merging
  BY <1>1, <1>5, <1>10 DEF Merging
<1>12. gtKind = "asn" => Ordered(gtIn)
  <2>. SUFFICES ASSUME gtKind = "asn", NEW i \in 1..Len(gtIn), NEW j \in 1..Len(gtIn), i < j
                PROVE  gtIn[i].start <= gtIn[j].start /\ gtIn[i].end < gtIn[j].start
    BY DEF Ordered
  <2>1. gtIn[i].start <= gtIn[j].start
    BY <1>1 DEF Sorts
  <2>2. i # j
    BY <1>2, <1>3
  <2>3. Span(gtIn[i]) \cap Span(gtIn[j]) = {}
    BY <1>1, <2>2 DEF Disjoint
  <2>4. /\ gtIn[i].start \in Nat /\ gtIn[i].end \in Nat
        /\ gtIn[j].start \in Nat /\ gtIn[j].end \in Nat /\ gtIn[j].start <= gtIn[j].end
    BY <1>4, SpanIs
  <2>5. gtIn[j].start \in Span(gtIn[j])
    BY <2>4 DEF Span
  <2>6. gtIn[j].start \notin Span(gtIn[i])
    BY <2>3, <2>5
  <2>7. gtIn[j].start \notin gtIn[i].start..gtIn[i].end
    BY <2>6 DEF Span
  <2>. QED  BY <2>1, <2>4, <2>7
<1>13. Keeping
  BY <1>5, <1>10, <1>12 DEF Keeping
<1>14. Splitting
  <2>1. 0 <= 2 * Bits + 1
    BY BitsAre
  <2>. QED  BY <1>7, <2>1 DEF Splitting
<1>. QED  BY <1>8, <1>9, <1>11, <1>13, <1>14 DEF GTInv

\* A turn of mergeRanges.
LEMMA MergeOneOK ==
  ASSUME GTInv, MergeOne
  PROVE  GTInv'
<1>. DEFINE r == Head(gtIn)
            m == Merged(gtOut, r)
<1>1. gtKind = "prefix" /\ gtIn # <<>> /\ gtOut' = m /\ gtIn' = Tail(gtIn) /\ UNCHANGED <<gtKind, gtSource, gtSplit>>
  BY DEF MergeOne, Merged
<1>2. gtIn \in Seq(Spans) /\ gtOut \in Seq(Spans) /\ GTTypes
  BY DEF GTInv, GTTypes
<1>3. /\ Len(gtIn) \in Nat /\ Len(gtIn) >= 1 /\ gtIn[1] = r /\ r \in Spans
      /\ gtIn' \in Seq(Spans) /\ Len(gtIn') = Len(gtIn) - 1
      /\ \A i \in 1..Len(gtIn') : gtIn'[i] = gtIn[i + 1] /\ i + 1 \in 1..Len(gtIn)
  <2>1. Len(gtIn) \in Nat /\ Len(gtIn) >= 1 /\ gtIn[1] = r
    BY <1>1, <1>2, EmptySeq
  <2>2. r \in Spans /\ gtIn' \in Seq(Spans) /\ Len(gtIn') = Len(gtIn) - 1 /\ \A i \in 1..Len(gtIn') : gtIn'[i] = gtIn[i + 1]
    BY <1>1, <1>2, HeadTailProperties
  <2>3. \A i \in 1..Len(gtIn') : i + 1 \in 1..Len(gtIn)
    BY <2>1, <2>2
  <2>. QED  BY <2>1, <2>2, <2>3
<1>4. 1 \in 1..Len(gtIn)
  BY <1>3
<1>5. r \in gtSource /\ \A i \in 1..Len(gtIn') : gtIn'[i] \in gtSource /\ gtIn'[i] \in Spans /\ r.start <= gtIn'[i].start
  <2>1. \A i \in 1..Len(gtIn) : gtIn[i] \in gtSource
    BY DEF GTInv, Loading
  <2>2. Sorts(gtIn)
    BY <1>1 DEF GTInv, Merging
  <2>3. \A i \in 1..Len(gtIn') : 1 < i + 1
    BY <1>3
  <2>4. \A i \in 1..Len(gtIn') : gtIn'[i] \in Spans
    BY <1>3, ElementOfSeq
  <2>. QED  BY <1>3, <1>4, <2>1, <2>2, <2>3, <2>4 DEF Sorts
<1>6. gtOut # <<>> => gtOut[Len(gtOut)].start <= r.start
  BY <1>1, <1>3, <1>4 DEF GTInv, Merging
<1>. DEFINE n == Len(gtOut)
<1>7. /\ m \in Seq(Spans) /\ m # <<>>
      /\ \A x \in Addrs : Covers(m, x) <=> Covers(gtOut, x) \/ x \in Span(r)
      /\ \A i \in 1..(Len(m) - 1) : i <= n /\ m[i] = gtOut[i]
      /\ m[Len(m)].start <= r.start
      /\ \/ /\ gtOut # <<>> /\ Len(m) = n /\ m[Len(m)].start = gtOut[n].start
            /\ m[Len(m)].end = IF r.end > gtOut[n].end THEN r.end ELSE gtOut[n].end
         \/ /\ Len(m) = n + 1 /\ m[Len(m)] = r
            /\ gtOut # <<>> => ~Joins(gtOut[n], r)
  BY <1>2, <1>3, <1>6, MergedIs
<1>8. n \in Nat /\ (gtOut # <<>> => n >= 1) /\ \A i \in 1..n : gtOut[i] \in Spans
  <2>1. n \in Nat /\ (gtOut # <<>> => n >= 1)
    BY <1>2, LenProperties, EmptySeq
  <2>. QED  BY <1>2, <2>1, ElementOfSeq
<1>9. \A q \in Spans : q.start \in Nat /\ q.end \in Nat /\ q.start <= q.end /\ q.end <= TopAddr /\ TopAddr \in Nat
  BY SpanIs, Space
<1>10. Len(m) \in Nat /\ Len(m) >= 1 /\ \A i \in 1..Len(m) : m[i] \in Spans
  <2>1. Len(m) \in Nat /\ Len(m) >= 1
    BY <1>7, EmptySeq
  <2>. QED  BY <1>7, <2>1, ElementOfSeq
<1>. HIDE DEF r, m, n
<1>11. GTTypes'
  BY <1>1, <1>2, <1>3, <1>7 DEF GTTypes
<1>12. Loading'
  <2>1. \A x : Covers(gtIn, x) <=> x \in Span(r) \/ Covers(gtIn', x)
    <3>. SUFFICES ASSUME NEW x PROVE Covers(gtIn, x) <=> x \in Span(r) \/ Covers(gtIn', x)
      OBVIOUS
    <3>1. ASSUME NEW i \in 1..Len(gtIn), x \in Span(gtIn[i]) PROVE x \in Span(r) \/ Covers(gtIn', x)
      <4>1. CASE i = 1
        BY <1>3, <3>1, <4>1
      <4>2. CASE i # 1
        <5>1. i - 1 \in 1..Len(gtIn') /\ (i - 1) + 1 = i
          BY <1>3, <4>2
        <5>2. gtIn'[i - 1] = gtIn[i]
          BY <1>3, <5>1
        <5>. QED  BY <3>1, <5>1, <5>2 DEF Covers
      <4>. QED  BY <4>1, <4>2
    <3>2. x \in Span(r) => Covers(gtIn, x)
      BY <1>3, <1>4 DEF Covers
    <3>3. Covers(gtIn', x) => Covers(gtIn, x)
      BY <1>3 DEF Covers
    <3>. QED  BY <3>1, <3>2, <3>3 DEF Covers
  <2>2. \A x \in Addrs : (\E q \in gtSource : x \in Span(q)) <=> Covers(gtIn, x) \/ Covers(gtOut, x)
    BY DEF GTInv, Loading
  <2>3. \A x \in Addrs : (\E q \in gtSource : x \in Span(q)) <=> Covers(gtIn', x) \/ Covers(gtOut', x)
    BY <1>1, <1>7, <2>1, <2>2
  <2>. QED  BY <1>1, <1>5, <2>3 DEF Loading, Covers
<1>13. Sorts(gtIn')
  <2>. SUFFICES ASSUME NEW i \in 1..Len(gtIn'), NEW j \in 1..Len(gtIn'), i < j PROVE gtIn'[i].start <= gtIn'[j].start
    BY DEF Sorts
  <2>1. i + 1 < j + 1
    BY <1>3
  <2>2. Sorts(gtIn)
    BY <1>1 DEF GTInv, Merging
  <2>. QED  BY <1>3, <2>1, <2>2 DEF Sorts
<1>14. \A i \in 1..Len(gtIn') : m[Len(m)].start <= gtIn'[i].start
  BY <1>3, <1>5, <1>7, <1>9, <1>10, SMTT(30)
<1>15. ASSUME ~WrapsOver(gtSource)
       PROVE  Ordered(m) /\ (m[Len(m)].end = TopAddr =>
                              \E q \in gtSource : q.end = TopAddr /\ \A i \in 1..Len(gtIn') : q.start <= gtIn'[i].start)
  <2>1. Ordered(gtOut) /\ (gtOut # <<>> /\ gtOut[n].end = TopAddr =>
                             \E q \in gtSource : q.end = TopAddr /\ \A i \in 1..Len(gtIn) : q.start <= gtIn[i].start)
    BY <1>1, <1>15 DEF GTInv, Merging, n
  <2>2. gtOut # <<>> /\ gtOut[n].end = TopAddr => r.end = TopAddr
    <3>. SUFFICES ASSUME gtOut # <<>>, gtOut[n].end = TopAddr PROVE r.end = TopAddr
      OBVIOUS
    <3>1. PICK q \in gtSource : q.end = TopAddr /\ \A i \in 1..Len(gtIn) : q.start <= gtIn[i].start
      BY <2>1
    <3>2. q.start <= r.start /\ q \in Spans
      BY <1>2, <1>3, <1>4, <3>1 DEF GTTypes
    <3>3. ~(r.start >= q.start /\ r.end < TopAddr)
      BY <1>5, <1>15, <3>1 DEF WrapsOver
    <3>. QED  BY <1>3, <1>9, <3>2, <3>3
  <2>3. m[Len(m)].end = TopAddr => r.end = TopAddr
    BY <1>3, <1>7, <1>8, <1>9, <2>2
  <2>4. m[Len(m)].end = TopAddr =>
          \E q \in gtSource : q.end = TopAddr /\ \A i \in 1..Len(gtIn') : q.start <= gtIn'[i].start
    BY <1>5, <2>3
  <2>5. ASSUME NEW i \in 1..(Len(m) - 1)
        PROVE  m[i].start <= m[Len(m)].start /\ (m[i].end < m[Len(m)].start \/ (m[i].end = TopAddr /\ m[Len(m)].end = TopAddr))
    <3>1. i \in 1..n /\ m[i] = gtOut[i] /\ gtOut # <<>> /\ n >= 1
      <4>1. i <= n /\ m[i] = gtOut[i] /\ i >= 1 /\ i \in Int
        BY <1>7, <1>10
      <4>2. i \in 1..n /\ n >= 1
        BY <1>8, <4>1
      <4>3. gtOut # <<>>
        BY <4>2, EmptySeq DEF n
      <4>. QED  BY <4>1, <4>2, <4>3
    <3>2. PICK a \in Spans, last \in Spans : a = gtOut[i] /\ last = gtOut[n]
      BY <1>8, <3>1
    <3>3. i < n => a.start <= last.start /\ (a.end < last.start \/ (a.end = TopAddr /\ last.end = TopAddr))
      <4>. HAVE i < n
      <4>1. n \in 1..n
        BY <1>8, <3>1
      <4>. QED  BY <2>1, <3>1, <3>2, <4>1 DEF Ordered, n
    <3>4. CASE /\ Len(m) = n /\ m[Len(m)].start = last.start
               /\ m[Len(m)].end = IF r.end > last.end THEN r.end ELSE last.end
      <4>1. i < n
        BY <1>8, <3>4
      <4>2. a.end < last.start \/ (a.end = TopAddr /\ last.end = TopAddr)
        BY <3>3, <4>1
      <4>3. last.end = TopAddr => m[Len(m)].end = TopAddr
        BY <1>3, <1>9, <3>4
      <4>. QED  BY <3>1, <3>2, <3>3, <3>4, <4>1, <4>2, <4>3
    <3>5. CASE Len(m) = n + 1 /\ m[Len(m)] = r /\ ~Joins(last, r)
      <4>1. last.start <= r.start
        BY <1>6, <3>1, <3>2 DEF n
      <4>2. a.start <= last.start
        <5>1. i < n \/ i = n
          BY <1>8, <3>1
        <5>2. a.start \in Nat
          BY <1>9
        <5>. QED  BY <3>2, <3>3, <5>1, <5>2
      <4>3. CASE last.end < TopAddr
        <5>1. r.start > last.end + 1
          BY <1>3, <1>9, <3>5, <4>3, JoinsIs
        <5>2. a.end <= last.end
          <6>1. CASE i = n
            BY <1>9, <3>2, <6>1
          <6>2. CASE i # n
            BY <1>8, <1>9, <3>1, <3>3, <4>3, <6>2
          <6>. QED  BY <6>1, <6>2
        <5>3. a.start <= r.start /\ a.end < r.start
          <6>1. a.start \in Nat /\ a.end \in Nat /\ last.start \in Nat /\ last.end \in Nat /\ r.start \in Nat
            BY <1>3, <1>9
          <6>. QED  BY <4>1, <4>2, <5>1, <5>2, <6>1
        <5>. QED  BY <3>1, <3>2, <3>5, <5>3
      <4>4. CASE last.end = TopAddr
        <5>1. r.end = TopAddr
          BY <2>2, <3>1, <3>2, <4>4
        <5>2. a.end < r.start \/ a.end = TopAddr
          <6>1. CASE i = n
            BY <3>2, <4>4, <6>1
          <6>2. CASE i # n
            BY <1>3, <1>8, <1>9, <3>1, <3>3, <4>1, <6>2
          <6>. QED  BY <6>1, <6>2
        <5>3. a.start <= r.start
          BY <1>3, <1>9, <4>1, <4>2
        <5>. QED  BY <3>1, <3>2, <3>5, <5>1, <5>2, <5>3
      <4>. QED  BY <1>9, <4>3, <4>4
    <3>. QED  BY <1>7, <3>1, <3>2, <3>4, <3>5
  <2>6. ASSUME NEW i \in 1..Len(m), NEW j \in 1..Len(m), i < j
        PROVE  m[i].start <= m[j].start /\ (m[i].end < m[j].start \/ (m[i].end = TopAddr /\ m[j].end = TopAddr))
    <3>1. CASE j = Len(m)
      <4>1. i \in 1..(Len(m) - 1)
        BY <1>10, <2>6, <3>1
      <4>. QED  BY <2>5, <3>1, <4>1
    <3>2. CASE j # Len(m)
      <4>1. i \in 1..(Len(m) - 1) /\ j \in 1..(Len(m) - 1)
        BY <1>10, <2>6, <3>2
      <4>2. m[i] = gtOut[i] /\ m[j] = gtOut[j] /\ i \in 1..n /\ j \in 1..n
        BY <1>7, <1>8, <1>10, <4>1
      <4>. QED  BY <2>1, <2>6, <4>2 DEF Ordered, n
    <3>. QED  BY <3>1, <3>2
  <2>. QED  BY <2>4, <2>6 DEF Ordered
<1>16. Merging'
  BY <1>1, <1>13, <1>14, <1>15 DEF Merging, Sorts, WrapsOver, Ordered
<1>17. Keeping'
  BY <1>1 DEF Keeping
<1>18. Splitting'
  BY <1>1, SMTT(30) DEF GTInv, Splitting, Tiles, Growing, Shrinking, Span
<1>. QED  BY <1>11, <1>12, <1>16, <1>17, <1>18 DEF GTInv

\* The sort of an ASN table.
LEMMA KeepSortedOK ==
  ASSUME GTInv, KeepSorted
  PROVE  GTInv'
<1>1. gtKind = "asn" /\ gtIn # <<>> /\ gtOut' = gtIn /\ gtIn' = <<>> /\ UNCHANGED <<gtKind, gtSource, gtSplit>>
  BY DEF KeepSorted
<1>2. gtIn \in Seq(Spans) /\ GTTypes /\ gtOut = <<>> /\ Ordered(gtIn)
  BY <1>1 DEF GTInv, GTTypes, Keeping
<1>3. gtIn' \in Seq(Spans) /\ Len(gtIn') = 0 /\ Len(gtOut) = 0
  BY <1>1, <1>2, EmptySeq
<1>4. GTTypes'
  BY <1>1, <1>2, <1>3 DEF GTTypes
<1>5. Loading'
  <2>1. \A x : ~Covers(gtIn', x) /\ ~Covers(gtOut, x)
    BY <1>3 DEF Covers
  <2>2. \A x \in Addrs : (\E q \in gtSource : x \in Span(q)) <=> Covers(gtIn, x) \/ Covers(gtOut, x)
    BY DEF GTInv, Loading
  <2>3. \A x \in Addrs : (\E q \in gtSource : x \in Span(q)) <=> Covers(gtIn', x) \/ Covers(gtOut', x)
    BY <1>1, <2>1, <2>2
  <2>. QED  BY <1>1, <1>3, <2>3 DEF Loading, Covers
<1>6. Merging' /\ Keeping'
  <2>1. Ordered(gtIn')
    BY <1>3 DEF Ordered
  <2>. QED  BY <1>1, <1>2, <2>1 DEF Merging, Keeping, Ordered
<1>7. Splitting'
  BY <1>1 DEF GTInv, Splitting, Tiles, Growing, Shrinking, Span
<1>. QED  BY <1>4, <1>5, <1>6, <1>7 DEF GTInv

-----------------------------------------------------------------------------
\* Largest is what it says on a nonempty set of powers.
LEMMA LargestIs ==
  ASSUME NEW S, S \subseteq {Pow2[k] : k \in 0..Bits}, S # {}
  PROVE  Largest(S) \in S /\ \A q \in S : q <= Largest(S)
<1>. DEFINE T == {n \in Nat : \A K \in SUBSET (0..n) : K # {} => \E k \in K : \A j \in K : j <= k}
<1>1. 0 \in T
  <2>. SUFFICES ASSUME NEW K \in SUBSET (0..0), K # {} PROVE \E k \in K : \A j \in K : j <= k
    OBVIOUS
  <2>1. \A k \in K : k = 0
    OBVIOUS
  <2>2. PICK k \in K : k = 0
    BY <2>1
  <2>3. \A j \in K : j <= k
    BY <2>1, <2>2
  <2>. QED  BY <2>3
<1>2. ASSUME NEW n \in Nat, n \in T PROVE n + 1 \in T
  <2>. SUFFICES ASSUME NEW K \in SUBSET (0..(n + 1)), K # {} PROVE \E k \in K : \A j \in K : j <= k
    BY <1>2
  <2>1. CASE n + 1 \in K
    <3>1. \A j \in K : j <= n + 1
      OBVIOUS
    <3>. QED  BY <2>1, <3>1
  <2>2. CASE n + 1 \notin K
    <3>1. K \subseteq 0..n
      <4>. SUFFICES ASSUME NEW j \in K PROVE j \in 0..n
        OBVIOUS
      <4>1. j \in 0..(n + 1) /\ j # n + 1
        BY <2>2
      <4>. QED  BY <4>1
    <3>. QED  BY <1>2, <3>1
  <2>. QED  BY <2>1, <2>2
<1>. HIDE DEF T
<1>3. Nat \subseteq T
  BY <1>1, <1>2, Induct
<1>. DEFINE K == {k \in 0..Bits : Pow2[k] \in S}
<1>4. K \in SUBSET (0..Bits) /\ K # {}
  OBVIOUS
<1>5. PICK k \in K : \A j \in K : j <= k
  <2>1. Bits \in T
    BY <1>3, BitsAre
  <2>. QED  BY <1>4, <2>1 DEF T
<1>6. Pow2[k] \in S /\ \A q \in S : q <= Pow2[k]
  <2>1. k \in 0..Bits /\ Pow2[k] \in S
    OBVIOUS
  <2>2. ASSUME NEW q \in S PROVE q <= Pow2[k]
    <3>1. PICK j \in K : q = Pow2[j]
      OBVIOUS
    <3>2. j <= k /\ j \in 0..Bits
      BY <1>5
    <3>. QED  BY <2>1, <3>1, <3>2, PowDivides
  <2>. QED  BY <2>1, <2>2
<1>. QED  BY <1>6 DEF Largest

\* The block of a turn: 2^a is the alignment of the start, and 2^k the largest that is
\* no larger and fits.
LEMMA BlockIs ==
  ASSUME NEW s \in Addrs, NEW e \in Addrs, s <= e
  PROVE  \E a \in 0..(Bits - 1), k \in 0..(Bits - 1) :
           /\ Divides(Pow2[a], s) /\ \A j \in 0..(Bits - 1) : Divides(Pow2[j], s) => j <= a
           /\ BlockSize(s, e) = Pow2[k] /\ k <= a /\ s + Pow2[k] - 1 <= e
           /\ k < a => s + Pow2[k + 1] - 1 > e
<1>0. s \in Nat /\ e \in Nat /\ 0 \in 0..(Bits - 1) /\ Pow2[0] = 1 /\ \A k \in 0..(Bits - 1) : k \in 0..Bits
  BY Space, BitsAre, PowIs
<1>1. Sizes = {Pow2[k] : k \in 0..(Bits - 1)} /\ Sizes \subseteq {Pow2[k] : k \in 0..Bits}
  BY <1>0 DEF Sizes, Bits
<1>2. \A k \in 0..(Bits - 1) : Pow2[k] \in Nat /\ Pow2[k] >= 1 /\ (s % Pow2[k] = 0 <=> Divides(Pow2[k], s))
  BY <1>0, PowIs, DividesRest
<1>3. PICK a \in 0..(Bits - 1) : Aligned(s) = Pow2[a] /\ Divides(Pow2[a], s)
                                /\ \A j \in 0..(Bits - 1) : Divides(Pow2[j], s) => j <= a
  <2>. DEFINE S == {q \in Sizes : s % q = 0}
  <2>1. Pow2[0] \in S
    <3>1. s = s * 1
      BY <1>0
    <3>2. Divides(Pow2[0], s)
      BY <1>0, <3>1 DEF Divides
    <3>. QED  BY <1>0, <1>1, <1>2, <3>2
  <2>2. S \subseteq {Pow2[k] : k \in 0..Bits}
    BY <1>1
  <2>3. Aligned(s) = Largest(S)
    BY DEF Aligned
  <2>4. Largest(S) \in S /\ \A q \in S : q <= Largest(S)
    BY <2>1, <2>2, LargestIs
  <2>5. PICK a \in 0..(Bits - 1) : Largest(S) = Pow2[a] /\ s % Pow2[a] = 0
    BY <1>1, <2>4
  <2>6. ASSUME NEW j \in 0..(Bits - 1), Divides(Pow2[j], s) PROVE j <= a
    <3>1. Pow2[j] <= Pow2[a]
      BY <1>1, <1>2, <2>4, <2>5, <2>6
    <3>2. ~(a < j)
      <4>. SUFFICES ASSUME a < j PROVE FALSE
        OBVIOUS
      <4>1. 2 * Pow2[a] <= Pow2[j]
        BY <1>0, PowDivides
      <4>. QED  BY <1>2, <3>1, <4>1
    <3>. QED  BY <3>2, BitsAre
  <2>. QED  BY <1>2, <2>3, <2>5, <2>6
<1>4. PICK k \in 0..(Bits - 1) : /\ BlockSize(s, e) = Pow2[k] /\ Pow2[k] <= Pow2[a] /\ s + Pow2[k] - 1 <= e
                                 /\ \A j \in 0..(Bits - 1) : Pow2[j] <= Pow2[a] /\ s + Pow2[j] - 1 <= e => Pow2[j] <= Pow2[k]
  <2>. DEFINE S == {q \in Sizes : q <= Aligned(s) /\ s + q - 1 <= e}
  <2>1. Pow2[0] \in S
    <3>1. Pow2[0] <= Pow2[a]
      BY <1>0, <1>2
    <3>. QED  BY <1>0, <1>1, <1>3, <3>1
  <2>2. S \subseteq {Pow2[j] : j \in 0..Bits}
    BY <1>1
  <2>3. BlockSize(s, e) = Largest(S)
    BY DEF BlockSize
  <2>4. Largest(S) \in S /\ \A q \in S : q <= Largest(S)
    BY <2>1, <2>2, LargestIs
  <2>5. PICK k \in 0..(Bits - 1) : Largest(S) = Pow2[k] /\ Pow2[k] <= Pow2[a] /\ s + Pow2[k] - 1 <= e
    BY <1>1, <1>3, <2>4
  <2>6. \A j \in 0..(Bits - 1) : Pow2[j] <= Pow2[a] /\ s + Pow2[j] - 1 <= e => Pow2[j] <= Pow2[k]
    BY <1>1, <1>3, <2>4, <2>5
  <2>. QED  BY <2>3, <2>5, <2>6
<1>5. k <= a
  <2>. SUFFICES ASSUME a < k PROVE FALSE
    BY BitsAre
  <2>1. 2 * Pow2[a] <= Pow2[k]
    BY <1>0, PowDivides
  <2>. QED  BY <1>2, <1>4, <2>1
<1>6. ASSUME k < a PROVE s + Pow2[k + 1] - 1 > e
  <2>1. k + 1 \in 0..(Bits - 1) /\ k + 1 <= a /\ k < k + 1
    BY <1>6, BitsAre
  <2>2. Pow2[k + 1] <= Pow2[a] /\ 2 * Pow2[k] <= Pow2[k + 1]
    BY <1>0, <2>1, PowDivides
  <2>3. ~(Pow2[k + 1] <= Pow2[k])
    BY <1>2, <2>1, <2>2
  <2>4. ~(s + Pow2[k + 1] - 1 <= e)
    BY <1>4, <2>1, <2>2, <2>3
  <2>. QED  BY <1>0, <1>2, <2>1, <2>4
<1>. QED  BY <1>3, <1>4, <1>5, <1>6

\* Tiles followed by the next block are tiles.
LEMMA TilesGrow ==
  ASSUME NEW p \in Seq(PrefixRanges), NEW from \in Nat, NEW s \in Nat, NEW size \in Nat, size >= 1, from <= s,
         Tiles(p, from, s - 1), NEW b \in PrefixRanges, b = [start |-> s, end |-> s + size - 1]
  PROVE  Tiles(Append(p, b), from, s + size - 1)
<1>. DEFINE n == Len(p)
            q == Append(p, b)
            Old == UNION {Span(p[i]) : i \in 1..n}
            New == UNION {Span(q[i]) : i \in 1..(n + 1)}
<1>1. n \in Nat /\ q \in Seq(PrefixRanges) /\ Len(q) = n + 1 /\ q[n + 1] = b /\ \A i \in 1..n : q[i] = p[i]
  BY AppendProperties, LenProperties
<1>2. 1..(n + 1) = (1..n) \cup {n + 1} /\ \A i \in 1..n : i # n + 1
  BY <1>1
<1>3. Span(b) = s..(s + size - 1)
  BY DEF Span
<1>4. Old = from..(s - 1) /\ \A i \in 1..n : Span(p[i]) \subseteq Old
  BY DEF Tiles
<1>. HIDE DEF n, q
<1>5. New = Old \cup Span(b)
  <2>1. ASSUME NEW x PROVE (\E i \in 1..(n + 1) : x \in Span(q[i])) <=> (\E i \in 1..n : x \in Span(p[i])) \/ x \in Span(b)
    <3>1. n + 1 \in 1..(n + 1) /\ \A i \in 1..n : i \in 1..(n + 1)
      BY <1>2
    <3>2. \A i \in 1..(n + 1) : i \in 1..n \/ i = n + 1
      BY <1>2
    <3>. QED  BY <1>1, <3>1, <3>2
  <2>2. \A x : x \in New <=> \E i \in 1..(n + 1) : x \in Span(q[i])
    OBVIOUS
  <2>3. \A x : x \in Old <=> \E i \in 1..n : x \in Span(p[i])
    OBVIOUS
  <2>. HIDE DEF New, Old
  <2>4. \A x : x \in New <=> x \in Old \cup Span(b)
    BY <2>1, <2>2, <2>3
  <2>. QED  BY <2>4
<1>. HIDE DEF New, Old
<1>6. (from..(s - 1)) \cup (s..(s + size - 1)) = from..(s + size - 1)
  OBVIOUS
<1>7. (from..(s - 1)) \cap (s..(s + size - 1)) = {}
  OBVIOUS
<1>8. \A i \in 1..n : Span(q[i]) \cap Span(b) = {} /\ Span(b) \cap Span(q[i]) = {}
  <2>. SUFFICES ASSUME NEW i \in 1..n PROVE Span(q[i]) \cap Span(b) = {}
    OBVIOUS
  <2>1. Span(q[i]) \subseteq from..(s - 1)
    BY <1>1, <1>4
  <2>. QED  BY <1>3, <1>7, <2>1
<1>9. ASSUME NEW i \in 1..(n + 1), NEW j \in 1..(n + 1), i # j PROVE Span(q[i]) \cap Span(q[j]) = {}
  <2>1. CASE i \in 1..n /\ j \in 1..n
    BY <1>1, <1>9, <2>1 DEF Tiles, n
  <2>2. CASE i \in 1..n /\ j = n + 1
    BY <1>1, <1>8, <2>2
  <2>3. CASE i = n + 1 /\ j \in 1..n
    BY <1>1, <1>8, <2>3
  <2>. QED  BY <1>2, <1>9, <2>1, <2>2, <2>3
<1>10. New = from..(s + size - 1)
  BY <1>3, <1>4, <1>5, <1>6
<1>. QED  BY <1>1, <1>9, <1>10 DEF Tiles, q, New

\* The number of blocks stays within the two runs of sizes: a block of the full
\* alignment doubles the alignment of the next start, and a shorter one leaves less
\* than itself.
LEMMA BlocksFew ==
  ASSUME NEW n \in Nat, NEW s \in Nat, NEW e \in Nat, s <= e, e < TopAddr,
         Growing(n, s) \/ Shrinking(n, s, e),
         NEW a \in 0..(Bits - 1), NEW k \in 0..(Bits - 1),
         Divides(Pow2[a], s), \A j \in 0..(Bits - 1) : Divides(Pow2[j], s) => j <= a,
         k <= a, s + Pow2[k] - 1 <= e, k < a => s + Pow2[k + 1] - 1 > e
  PROVE  Growing(n + 1, s + Pow2[k]) \/ Shrinking(n + 1, s + Pow2[k], e)
<1>1. Bits \in Nat /\ Bits >= 1 /\ \A j \in 0..(Bits - 1) : j \in 0..Bits /\ Pow2[j] \in Nat /\ Pow2[j] >= 1
  BY BitsAre, PowIs
<1>2. PICK t \in Nat : t = s + Pow2[k]
  BY <1>1
<1>3. Divides(Pow2[k], s) /\ Divides(Pow2[k], t)
  <2>1. Divides(Pow2[k], Pow2[a])
    BY <1>1, PowDivides
  <2>2. Divides(Pow2[k], s)
    BY <1>1, <2>1, DividesThrough
  <2>3. Pow2[k] = 1 * Pow2[k]
    BY <1>1
  <2>4. Divides(Pow2[k], Pow2[k])
    BY <2>3 DEF Divides
  <2>. QED  BY <1>1, <1>2, <2>2, <2>4, DividesSums
<1>4. CASE k < a
  <2>1. Pow2[k + 1] = 2 * Pow2[k]
    <3>1. k + 1 \in 1..Bits /\ (k + 1) - 1 = k
      BY <1>1, <1>4
    <3>. QED  BY <3>1, PowIs
  <2>2. e - t + 1 < Pow2[k]
    BY <1>1, <1>2, <1>4, <2>1
  <2>3. (n + 1) + k <= 2 * Bits - 1
    <3>1. CASE Growing(n, s)
      <4>1. n <= Bits - 1
        BY <3>1 DEF Growing
      <4>. QED  BY <1>1, <1>4, <4>1
    <3>2. CASE Shrinking(n, s, e)
      <4>1. PICK m \in 0..(Bits - 1) : e - s + 1 < Pow2[m] /\ n + m <= 2 * Bits - 1
        BY <3>2 DEF Shrinking
      <4>2. Pow2[k] < Pow2[m]
        BY <1>1, <4>1
      <4>3. k < m
        <5>. SUFFICES ASSUME m <= k PROVE FALSE
          BY <1>1
        <5>1. Pow2[m] <= Pow2[k]
          BY <1>1, PowDivides
        <5>. QED  BY <1>1, <4>2, <5>1
      <4>. QED  BY <1>1, <4>1, <4>3
    <3>. QED  BY <3>1, <3>2
  <2>. QED  BY <1>2, <1>3, <2>2, <2>3 DEF Shrinking
<1>5. CASE k = a /\ Growing(n, s)
  <2>1. n <= Bits - 1 /\ Divides(Pow2[n], s) /\ (s > 0 \/ n = 0) /\ n \in 0..(Bits - 1) /\ n <= a
    <3>1. n <= Bits - 1 /\ Divides(Pow2[n], s) /\ (s > 0 \/ n = 0)
      BY <1>5 DEF Growing
    <3>2. n \in 0..(Bits - 1)
      BY <1>1, <3>1
    <3>. QED  BY <3>1, <3>2
  <2>2. Pow2[Bits] = TopAddr + 1 /\ TopAddr \in Nat /\ Pow2[Bits] = 2 * Pow2[Bits - 1] /\ Bits - 1 \in 0..(Bits - 1)
    <3>1. Bits \in 1..Bits /\ Bits - 1 \in 0..(Bits - 1)
      BY <1>1
    <3>. QED  BY <3>1, PowIs, Space
  <2>3. CASE s = 0
    <3>1. a = Bits - 1
      <4>1. 0 = 0 * Pow2[Bits - 1]
        BY <1>1, <2>2
      <4>2. Divides(Pow2[Bits - 1], s)
        BY <2>3, <4>1 DEF Divides
      <4>3. Bits - 1 <= a
        BY <2>2, <4>2
      <4>. QED  BY <1>1, <4>3
    <3>2. n = 0
      BY <2>1, <2>3
    <3>3. t = Pow2[Bits - 1] /\ e - t + 1 < Pow2[Bits - 1]
      BY <1>1, <1>2, <1>5, <2>2, <2>3, <3>1
    <3>4. Divides(Pow2[Bits - 1], t) /\ (n + 1) + (Bits - 1) <= 2 * Bits - 1
      BY <1>1, <1>3, <1>5, <3>1, <3>2
    <3>. QED  BY <1>2, <2>2, <3>3, <3>4 DEF Shrinking
  <2>4. CASE s > 0
    <3>1. PICK q \in Int : s = q * Pow2[a]
      BY DEF Divides
    <3>2. a < Bits - 1
      <4>. SUFFICES ASSUME a = Bits - 1 PROVE FALSE
        BY <1>1
      <4>1. 0 = 0 * Pow2[a]
        BY <1>1
      <4>2. Divides(Pow2[a], 0)
        BY <4>1 DEF Divides
      <4>3. 0 + Pow2[a] <= s
        BY <1>1, <2>4, <4>2, DividesSteps
      <4>. QED  BY <1>1, <1>5, <2>2, <4>3
    <3>3. a + 1 \in 0..(Bits - 1) /\ a + 1 \in 1..Bits /\ (a + 1) - 1 = a
      BY <1>1, <3>2
    <3>4. Pow2[a + 1] = 2 * Pow2[a]
      BY <3>3, PowIs
    <3>5. ~Divides(Pow2[a + 1], s)
      <4>1. ~(a + 1 <= a)
        BY <1>1
      <4>. QED  BY <3>3, <4>1
    <3>6. PICK h \in Int : q = 2 * h + 1
      <4>1. \E h \in Int : q = 2 * h \/ q = 2 * h + 1
        <5>1. q \div 2 \in Int /\ (q = 2 * (q \div 2) \/ q = 2 * (q \div 2) + 1)
          OBVIOUS
        <5>. QED  BY <5>1
      <4>2. ASSUME NEW h \in Int, q = 2 * h PROVE FALSE
        <5>1. s = h * Pow2[a + 1]
          BY <1>1, <3>1, <3>4, <4>2
        <5>. QED  BY <3>5, <5>1 DEF Divides
      <4>. QED  BY <4>1, <4>2
    <3>7. t = (h + 1) * Pow2[a + 1]
      <4>1. t = (2 * h + 1) * Pow2[a] + Pow2[a]
        BY <1>2, <1>5, <3>1, <3>6
      <4>. QED  BY <1>1, <3>4, <4>1
    <3>8. PICK h1 \in Int : h1 = h + 1
      OBVIOUS
    <3>9. Divides(Pow2[a + 1], t)
      BY <3>7, <3>8 DEF Divides
    <3>10. n + 1 <= a + 1 /\ n + 1 \in 0..Bits /\ a + 1 \in 0..Bits /\ n + 1 <= Bits - 1
      BY <1>1, <2>1, <3>2
    <3>11. Divides(Pow2[n + 1], Pow2[a + 1]) /\ Pow2[n + 1] \in Int /\ Pow2[a + 1] \in Int
      BY <3>10, PowDivides, PowIs
    <3>12. Divides(Pow2[n + 1], t)
      BY <3>9, <3>11, DividesThrough
    <3>13. t > 0
      BY <1>1, <1>2, <2>4
    <3>. QED  BY <1>2, <3>10, <3>12, <3>13 DEF Growing
  <2>. QED  BY <2>3, <2>4
<1>6. CASE k = a /\ Shrinking(n, s, e)
  <2>1. PICK m \in 0..(Bits - 1) : Divides(Pow2[m], s) /\ e - s + 1 < Pow2[m]
    BY <1>6 DEF Shrinking
  <2>2. m <= a
    BY <2>1
  <2>3. Pow2[m] <= Pow2[a]
    BY <1>1, <2>2, PowDivides
  <2>. QED  BY <1>1, <1>6, <2>1, <2>3
<1>. QED  BY <1>1, <1>4, <1>5, <1>6

\* The block is a prefix within the range, and the next start is what the machine
\* computes unless the range ends at the top address.
LEMMA BlockFits ==
  ASSUME NEW s \in Addrs, NEW e \in Addrs, s <= e
  PROVE  /\ BlockSize(s, e) \in Nat /\ BlockSize(s, e) >= 1 /\ s + BlockSize(s, e) - 1 <= e
         /\ [start |-> s, end |-> s + BlockSize(s, e) - 1] \in PrefixRanges
         /\ Wrap(s + BlockSize(s, e)) \in Addrs
         /\ e < TopAddr => Wrap(s + BlockSize(s, e)) = s + BlockSize(s, e)
         /\ \A n \in Nat : e < TopAddr /\ (Growing(n, s) \/ Shrinking(n, s, e)) =>
              Growing(n + 1, s + BlockSize(s, e)) \/ Shrinking(n + 1, s + BlockSize(s, e), e)
<1>1. PICK a \in 0..(Bits - 1), k \in 0..(Bits - 1) :
           /\ Divides(Pow2[a], s) /\ \A j \in 0..(Bits - 1) : Divides(Pow2[j], s) => j <= a
           /\ BlockSize(s, e) = Pow2[k] /\ k <= a /\ s + Pow2[k] - 1 <= e
           /\ k < a => s + Pow2[k + 1] - 1 > e
  BY BlockIs
<1>2. s \in Nat /\ e \in Nat /\ e <= TopAddr /\ TopAddr \in Nat /\ a \in 0..Bits /\ k \in 0..Bits
  BY BitsAre, Space
<1>3. Pow2[k] \in Nat /\ Pow2[k] >= 1 /\ Pow2[a] \in Nat
  BY <1>2, PowIs
<1>4. Divides(Pow2[k], s)
  <2>1. Divides(Pow2[k], Pow2[a])
    BY <1>1, <1>2, PowDivides
  <2>. QED  BY <1>1, <1>2, <1>3, <2>1, DividesThrough
<1>5. [start |-> s, end |-> s + Pow2[k] - 1] \in PrefixRanges
  BY <1>2, <1>4, PrefixesAre
<1>6. s + Pow2[k] \in Addrs \/ (s + Pow2[k] = TopAddr + 1 /\ e = TopAddr)
  BY <1>1, <1>2, <1>3, Space, SMTT(30)
<1>7. Wrap(s + Pow2[k]) \in Addrs /\ (e < TopAddr => Wrap(s + Pow2[k]) = s + Pow2[k])
  <2>1. 0 \in Addrs
    BY Space
  <2>2. CASE s + Pow2[k] \in Addrs
    BY <2>2, Space
  <2>3. CASE s + Pow2[k] = TopAddr + 1 /\ e = TopAddr
    <3>1. Wrap(s + Pow2[k]) = 0
      BY <2>3, Space
    <3>. QED  BY <1>2, <2>1, <2>3, <3>1
  <2>. QED  BY <1>6, <2>2, <2>3
<1>8. ASSUME NEW n \in Nat, e < TopAddr, Growing(n, s) \/ Shrinking(n, s, e)
      PROVE  Growing(n + 1, s + Pow2[k]) \/ Shrinking(n + 1, s + Pow2[k], e)
  BY <1>1, <1>2, <1>8, BlocksFew
<1>. QED  BY <1>1, <1>3, <1>5, <1>7, <1>8

\* A split begins.
LEMMA SplitBeginsOK ==
  ASSUME GTInv, NEW r \in gtSource, SplitBegins(r)
  PROVE  GTInv'
<1>1. /\ gtSplit' = [on |-> TRUE, start |-> r.start, end |-> r.end, from |-> r.start, cidrs |-> <<>>]
      /\ UNCHANGED <<gtKind, gtSource, gtIn, gtOut>>
  BY DEF SplitBegins
<1>2. GTTypes /\ r \in Spans
  BY DEF GTInv, GTTypes
<1>3. r.start \in Addrs /\ r.end \in Addrs /\ r.start <= r.end /\ r.start \in Nat /\ r.end \in Nat
  BY <1>2, SpanIs
<1>4. <<>> \in Seq(PrefixRanges) /\ Len(<<>>) = 0
  BY EmptySeq
<1>5. GTTypes'
  BY <1>1, <1>2, <1>3, <1>4 DEF GTTypes, Splits
<1>6. Loading' /\ Merging' /\ Keeping'
  BY <1>1 DEF GTInv, Loading, Merging, Keeping, Covers, Span, Sorts, WrapsOver, Ordered
<1>7. Tiles(<<>>, r.start, r.start - 1)
  <2>1. r.start..(r.start - 1) = {}
    BY <1>3
  <2>. QED  BY <1>4, <2>1 DEF Tiles
<1>8. Growing(0, r.start)
  <2>1. 0 <= Bits - 1 /\ Pow2[0] = 1 /\ r.start = r.start * 1
    BY <1>3, BitsAre, PowIs
  <2>2. Divides(Pow2[0], r.start)
    BY <1>3, <2>1 DEF Divides
  <2>. QED  BY <2>1, <2>2 DEF Growing
<1>9. /\ gtSplit'.on /\ gtSplit'.start = r.start /\ gtSplit'.end = r.end /\ gtSplit'.from = r.start /\ gtSplit'.cidrs = <<>>
  BY <1>1
<1>10. 0 <= 2 * Bits + 1 /\ r.start <= r.start /\ r.start <= r.end + 1
  BY <1>3, BitsAre
<1>11. Splitting'
  <2>. SUFFICES /\ Len(gtSplit'.cidrs) <= 2 * Bits + 1
                /\ Tiles(gtSplit'.cidrs, gtSplit'.from, gtSplit'.start - 1)
                /\ Growing(Len(gtSplit'.cidrs), gtSplit'.start)
    BY <1>3, <1>9, <1>10 DEF Splitting, Tiles, Growing, Shrinking, Span, Divides
  <2>. QED  BY <1>4, <1>7, <1>8, <1>9, <1>10
<1>. QED  BY <1>5, <1>6, <1>11 DEF GTInv

\* A turn of cidrs4.
LEMMA SplitOneOK ==
  ASSUME GTInv, SplitOne
  PROVE  GTInv'
<1>. DEFINE on == gtSplit.on
            s == gtSplit.start
            e == gtSplit.end
            p == gtSplit.cidrs
            size == BlockSize(s, e)
            b == [start |-> s, end |-> s + size - 1]
            q == Append(p, b)
<1>1. GTTypes
  BY DEF GTInv
<1>2. on /\ s <= e /\ Len(p) <= 2 * Bits /\ UNCHANGED <<gtKind, gtSource, gtIn, gtOut>>
  BY BitsAre DEF SplitOne
<1>3. on \in BOOLEAN /\ s \in Addrs /\ e \in Addrs /\ gtSplit.from \in Addrs /\ p \in Seq(PrefixRanges)
  BY <1>1, SplitFields
<1>4. gtSplit' = [gtSplit EXCEPT !.cidrs = q, !.start = Wrap(s + size)]
  BY DEF SplitOne
<1>5. gtSplit' = [on |-> on, start |-> Wrap(s + size), end |-> e, from |-> gtSplit.from, cidrs |-> q]
  <2>. DEFINE w == Wrap(s + size)
  <2>. HIDE DEF q, w
  <2>1. gtSplit' = [gtSplit EXCEPT !.cidrs = q, !.start = w]
    BY <1>4 DEF w
  <2>2. gtSplit' = [on |-> on, start |-> w, end |-> e, from |-> gtSplit.from, cidrs |-> q]
    BY <1>1, <2>1, SplitFields
  <2>. QED  BY <2>2 DEF w
<1>. HIDE DEF on, s, e, p
<1>6. /\ size \in Nat /\ size >= 1 /\ s + size - 1 <= e
      /\ b \in PrefixRanges /\ Wrap(s + size) \in Addrs
      /\ e < TopAddr => Wrap(s + size) = s + size
      /\ \A n \in Nat : e < TopAddr /\ (Growing(n, s) \/ Shrinking(n, s, e)) =>
              Growing(n + 1, s + size) \/ Shrinking(n + 1, s + size, e)
  BY <1>2, <1>3, BlockFits
<1>. HIDE DEF size
<1>7. q \in Seq(PrefixRanges) /\ Len(q) = Len(p) + 1 /\ Len(p) \in Nat /\ q # <<>>
  BY <1>3, <1>6, AppendProperties, LenProperties
<1>. HIDE DEF q
<1>8. GTTypes'
  BY <1>1, <1>2, <1>3, <1>5, <1>6, <1>7 DEF GTTypes, Splits
<1>9. Loading' /\ Merging' /\ Keeping'
  BY <1>2 DEF GTInv, Loading, Merging, Keeping, Covers, Span, Sorts, WrapsOver, Ordered
<1>10. s \in Nat /\ e \in Nat /\ e <= TopAddr /\ TopAddr \in Nat /\ gtSplit.from \in Nat
  BY <1>3, Space
<1>11. ASSUME e # TopAddr
       PROVE  /\ Wrap(s + size) = s + size /\ gtSplit.from <= s + size /\ s + size <= e + 1
              /\ Tiles(q, gtSplit.from, s + size - 1)
              /\ Growing(Len(q), s + size) \/ Shrinking(Len(q), s + size, e)
  <2>1. e < TopAddr
    BY <1>10, <1>11
  <2>2. gtSplit.from <= s /\ Tiles(p, gtSplit.from, s - 1) /\ (Growing(Len(p), s) \/ Shrinking(Len(p), s, e))
    BY <1>2, <1>11 DEF GTInv, Splitting, on, s, e, p
  <2>3. Tiles(q, gtSplit.from, s + size - 1)
    BY <1>3, <1>6, <1>10, <2>2, TilesGrow DEF q
  <2>4. Growing(Len(p) + 1, s + size) \/ Shrinking(Len(p) + 1, s + size, e)
    BY <1>6, <1>7, <2>1, <2>2
  <2>5. gtSplit.from <= s + size /\ s + size <= e + 1
    BY <1>6, <1>10, <2>2
  <2>. QED  BY <1>6, <1>7, <2>1, <2>3, <2>4, <2>5
<1>12. /\ gtSplit'.on /\ gtSplit'.start = Wrap(s + size) /\ gtSplit'.end = e /\ gtSplit'.from = gtSplit.from /\ gtSplit'.cidrs = q
  BY <1>2, <1>5
<1>13. Len(q) <= 2 * Bits + 1
  BY <1>2, <1>7, BitsAre
<1>14. Splitting'
  <2>. SUFFICES /\ Len(gtSplit'.cidrs) <= 2 * Bits + 1 /\ gtSplit'.on /\ gtSplit'.cidrs # <<>>
                /\ gtSplit'.end # TopAddr =>
                     /\ gtSplit'.from <= gtSplit'.start /\ gtSplit'.start <= gtSplit'.end + 1
                     /\ Tiles(gtSplit'.cidrs, gtSplit'.from, gtSplit'.start - 1)
                     /\ Growing(Len(gtSplit'.cidrs), gtSplit'.start) \/ Shrinking(Len(gtSplit'.cidrs), gtSplit'.start, gtSplit'.end)
    BY DEF Splitting, Tiles, Growing, Shrinking, Span, Divides
  <2>. HIDE DEF Tiles, Growing, Shrinking
  <2>1. Len(gtSplit'.cidrs) <= 2 * Bits + 1 /\ gtSplit'.on /\ gtSplit'.cidrs # <<>>
    BY <1>7, <1>12, <1>13
  <2>2. ASSUME gtSplit'.end # TopAddr
        PROVE  /\ gtSplit'.from <= gtSplit'.start /\ gtSplit'.start <= gtSplit'.end + 1
               /\ Tiles(gtSplit'.cidrs, gtSplit'.from, gtSplit'.start - 1)
               /\ Growing(Len(gtSplit'.cidrs), gtSplit'.start) \/ Shrinking(Len(gtSplit'.cidrs), gtSplit'.start, gtSplit'.end)
    <3>1. e # TopAddr
      BY <1>12, <2>2
    <3>2. /\ gtSplit.from <= s + size /\ s + size <= e + 1
          /\ Tiles(q, gtSplit.from, s + size - 1)
          /\ Growing(Len(q), s + size) \/ Shrinking(Len(q), s + size, e)
      BY <1>11, <3>1
    <3>3. gtSplit'.start = s + size /\ gtSplit'.end = e /\ gtSplit'.from = gtSplit.from /\ gtSplit'.cidrs = q
      BY <1>11, <1>12, <3>1
    <3>4. gtSplit'.from <= gtSplit'.start /\ gtSplit'.start <= gtSplit'.end + 1
      BY <3>2, <3>3
    <3>5. gtSplit'.start - 1 = s + size - 1
      BY <1>6, <1>10, <3>3
    <3>6. Tiles(gtSplit'.cidrs, gtSplit'.from, gtSplit'.start - 1)
      BY <3>2, <3>3, <3>5, Zenon
    <3>7. Growing(Len(gtSplit'.cidrs), gtSplit'.start) \/ Shrinking(Len(gtSplit'.cidrs), gtSplit'.start, gtSplit'.end)
      BY <3>2, <3>3, Zenon
    <3>. QED  BY <3>4, <3>6, <3>7
  <2>. QED  BY <2>1, <2>2
<1>. QED  BY <1>8, <1>9, <1>14 DEF GTInv

\* A split ends.
LEMMA SplitEndsOK ==
  ASSUME GTInv, SplitEnds
  PROVE  GTInv'
<1>1. GTTypes /\ gtSplit.on /\ gtSplit.start > gtSplit.end /\ UNCHANGED <<gtKind, gtSource, gtIn, gtOut>>
  BY DEF GTInv, SplitEnds
<1>2. gtSplit' = [on |-> FALSE, start |-> gtSplit.start, end |-> gtSplit.end, from |-> gtSplit.from, cidrs |-> gtSplit.cidrs]
  <2>1. gtSplit' = [gtSplit EXCEPT !.on = FALSE]
    BY DEF SplitEnds
  <2>. QED  BY <1>1, <2>1, SplitFields
<1>3. gtSplit.start \in Addrs /\ gtSplit.end \in Addrs /\ gtSplit.from \in Addrs /\ gtSplit.cidrs \in Seq(PrefixRanges)
  BY <1>1, SplitFields
<1>4. gtSplit.start \in Nat /\ gtSplit.end \in Nat /\ gtSplit.start <= TopAddr /\ TopAddr \in Nat /\ gtSplit.end # TopAddr
  BY <1>1, <1>3, Space
<1>5. GTTypes'
  BY <1>1, <1>2, <1>3 DEF GTTypes, Splits
<1>6. Loading' /\ Merging' /\ Keeping'
  BY <1>1 DEF GTInv, Loading, Merging, Keeping, Covers, Span, Sorts, WrapsOver, Ordered
<1>7. /\ gtSplit.start <= gtSplit.end + 1
      /\ Tiles(gtSplit.cidrs, gtSplit.from, gtSplit.start - 1)
      /\ Growing(Len(gtSplit.cidrs), gtSplit.start) \/ Shrinking(Len(gtSplit.cidrs), gtSplit.start, gtSplit.end)
      /\ Len(gtSplit.cidrs) <= 2 * Bits + 1
  BY <1>1, <1>4 DEF GTInv, Splitting
<1>8. gtSplit.start - 1 = gtSplit.end
  BY <1>1, <1>4, <1>7
<1>9. Len(gtSplit.cidrs) <= 2 * Bits - 1
  <2>1. Len(gtSplit.cidrs) \in Nat
    BY <1>3, LenProperties
  <2>2. CASE Growing(Len(gtSplit.cidrs), gtSplit.start)
    <3>1. Len(gtSplit.cidrs) <= Bits - 1
      BY <2>2 DEF Growing
    <3>. QED  BY <2>1, <3>1, BitsAre
  <2>3. CASE Shrinking(Len(gtSplit.cidrs), gtSplit.start, gtSplit.end)
    <3>1. PICK m \in 0..(Bits - 1) : Len(gtSplit.cidrs) + m <= 2 * Bits - 1
      BY <2>3 DEF Shrinking
    <3>. QED  BY <2>1, <3>1, BitsAre
  <2>. QED  BY <1>7, <2>2, <2>3
<1>10. Tiles(gtSplit.cidrs, gtSplit.from, gtSplit.end)
  BY <1>7, <1>8
<1>11. ~gtSplit'.on /\ gtSplit'.end = gtSplit.end /\ gtSplit'.from = gtSplit.from /\ gtSplit'.cidrs = gtSplit.cidrs
  BY <1>2
<1>12. Splitting'
  <2>. SUFFICES /\ Len(gtSplit'.cidrs) <= 2 * Bits + 1 /\ ~gtSplit'.on /\ gtSplit'.end # TopAddr
                /\ Tiles(gtSplit'.cidrs, gtSplit'.from, gtSplit'.end) /\ Len(gtSplit'.cidrs) <= 2 * Bits - 1
    BY DEF Splitting, Tiles, Growing, Shrinking, Span, Divides
  <2>. QED  BY <1>4, <1>7, <1>9, <1>10, <1>11
<1>. QED  BY <1>5, <1>6, <1>12 DEF GTInv

\* Every step keeps the invariant.
LEMMA GTStep == GTInv /\ [GTNext]_GTVars => GTInv'
<1>. SUFFICES ASSUME GTInv, [GTNext]_GTVars PROVE GTInv'
  OBVIOUS
<1>1. CASE UNCHANGED GTVars
  BY <1>1, SMTT(30) DEF GTVars, GTInv, GTTypes, Loading, Merging, Keeping, Splitting, Covers, Span, Sorts, WrapsOver, Ordered,
              Tiles, Growing, Shrinking
<1>2. CASE GTNext
  BY <1>2, MergeOneOK, KeepSortedOK, SplitBeginsOK, SplitOneOK, SplitEndsOK DEF GTNext
<1>. QED  BY <1>1, <1>2

\* The invariant implies what is promised.
LEMMA GTInvIsExact == GTInv => GeoTablesExact
<1>. SUFFICES ASSUME GTInv PROVE GeoTablesExact
  OBVIOUS
<1>1. GTTypes
  BY DEF GTInv
<1>2. gtOut \in Seq(Spans) /\ gtIn \in Seq(Spans) /\ gtSplit.cidrs \in Seq(PrefixRanges) /\ gtKind \in {"prefix", "asn"}
  BY <1>1, SplitFields DEF GTTypes
<1>3. GTTypeOK
  <2>1. \A i \in 1..Len(gtOut) : gtOut[i] \in Spans
    BY <1>2, ElementOfSeq
  <2>2. Len(gtSplit.cidrs) <= 2 * Bits + 1
    BY DEF GTInv, Splitting
  <2>3. Len(gtSplit.cidrs) \in Nat
    BY <1>2, LenProperties
  <2>4. ASSUME gtSplit.on, gtSplit.end # TopAddr PROVE Len(gtSplit.cidrs) <= 2 * Bits
    <3>1. CASE Growing(Len(gtSplit.cidrs), gtSplit.start)
      <4>1. Len(gtSplit.cidrs) <= Bits - 1
        BY <3>1 DEF Growing
      <4>. QED  BY <2>3, <4>1, BitsAre
    <3>2. CASE Shrinking(Len(gtSplit.cidrs), gtSplit.start, gtSplit.end)
      <4>1. PICK m \in 0..(Bits - 1) : Len(gtSplit.cidrs) + m <= 2 * Bits - 1
        BY <3>2 DEF Shrinking
      <4>. QED  BY <2>3, <4>1, BitsAre
    <3>. QED  BY <2>4, <3>1, <3>2 DEF GTInv, Splitting
  <2>. QED  BY <2>1, <2>2, <2>4, BitsAre DEF GTTypeOK
<1>4. TableExact
  <2>. SUFFICES ASSUME Ready, ~WrapsOver(gtSource), NEW x \in Addrs
                PROVE  TableContains(gtOut, x) <=> \E r \in gtSource : x \in Span(r)
    BY DEF TableExact
  <2>1. Ordered(gtOut)
    BY <1>2 DEF GTInv, Merging, Keeping
  <2>2. Len(gtIn) = 0
    BY EmptySeq DEF Ready
  <2>3. (\E r \in gtSource : x \in Span(r)) <=> Covers(gtOut, x)
    BY <2>2 DEF GTInv, Loading, Covers
  <2>. QED  BY <1>2, <2>1, <2>3, ContainsIs DEF Covers
<1>5. SplitExact
  <2>. SUFFICES ASSUME ~gtSplit.on, gtSplit.cidrs # <<>>
                PROVE  /\ Tiles(gtSplit.cidrs, gtSplit.from, gtSplit.end)
                       /\ \A i \in 1..Len(gtSplit.cidrs) : gtSplit.cidrs[i] \in PrefixRanges
                       /\ Len(gtSplit.cidrs) < 2 * GTBits
    BY DEF SplitExact, Tiles
  <2>1. Tiles(gtSplit.cidrs, gtSplit.from, gtSplit.end) /\ Len(gtSplit.cidrs) <= 2 * Bits - 1
    BY DEF GTInv, Splitting
  <2>2. \A i \in 1..Len(gtSplit.cidrs) : gtSplit.cidrs[i] \in PrefixRanges
    BY <1>2, ElementOfSeq
  <2>3. Len(gtSplit.cidrs) \in Nat
    BY <1>2, LenProperties
  <2>. QED  BY <2>1, <2>2, <2>3, BitsAre
<1>. QED  BY <1>3, <1>4, <1>5 DEF GeoTablesExact

\* A lookup finds exactly the source ranges' addresses unless a range up to the top
\* address has a shorter one inside it, and the prefixes of a finished split tile its
\* range, aligned and fewer than two a bit (mergeRanges4, contains, cidrs4).
THEOREM TablesHold == GTSpec => []GeoTablesExact
BY GTInitOK, GTStep, GTInvIsExact, PTL DEF GTSpec

-----------------------------------------------------------------------------
(* Reading the query log                                                   *)

\* The order of a walk: newest first for queries.
Before(w, a, b) == IF w.rev THEN a > b ELSE a < b

Walks == [kind : {"none", "query", "stats"}, rev : BOOLEAN, start : Nat, since : Nat, first : BOOLEAN, seen : Seq(Nat),
          limit : Nat, offset : Nat, blocked : BOOLEAN, stop : {"open", "end", "full", "cap", "error"}, top : Seq(Nat)]

QWTypes ==
  /\ qwLast \in 0..QWIds /\ qwStream \subseteq 1..qwLast /\ qwClear \in BOOLEAN
  /\ qwWalk \in Walks
  /\ qwCache \in [valid : BOOLEAN, ids : SUBSET Nat, since : Nat, crossed : BOOLEAN]
  /\ qwHist \in [walks : Nat, cleared : SUBSET Nat, began : SUBSET Nat, removed : SUBSET Nat, added : SUBSET Nat, crossed : BOOLEAN]

\* What each kind of walk asks for.
QWKinds ==
  /\ qwWalk.kind = "none" => qwWalk = NoWalk
  /\ qwWalk.kind = "query" => qwWalk.rev /\ qwWalk.since = 0 /\ qwWalk.limit >= 1
  /\ qwWalk.kind = "stats" => ~qwWalk.rev

\* Nothing is read that was not handed out, and the scan bound is strict.
QWBounds ==
  /\ Members(qwWalk.seen) \subseteq 1..qwLast /\ qwCache.ids \subseteq 1..qwLast
  /\ qwHist.cleared \subseteq 1..qwLast /\ qwHist.began \subseteq 1..qwLast
  /\ Len(qwWalk.seen) <= QWScan /\ (Walking => Len(qwWalk.seen) < QWScan)

QWOrdered == \A i, j \in 1..Len(qwWalk.seen) : i < j => Before(qwWalk, qwWalk.seen[i], qwWalk.seen[j])

\* A walk under way is past what it has shown, and of what was in the stream all along it has shown all it is past.
QWGoing ==
  Walking =>
    /\ qwWalk.first => qwWalk.seen = <<>> /\ qwWalk.start = (IF qwWalk.rev THEN QWIds + 1 ELSE qwWalk.since)
    /\ \A m \in Members(qwWalk.seen) : m = qwWalk.start \/ Before(qwWalk, m, qwWalk.start)
    /\ qwHist.began \ qwHist.removed \subseteq qwStream
    /\ \A id \in qwHist.began \ qwHist.removed : id >= qwWalk.since =>
         \/ id \in Members(qwWalk.seen)
         \/ Before(qwWalk, qwWalk.start, id)
         \/ qwWalk.first /\ id = qwWalk.start
    /\ qwHist.removed = {} /\ qwHist.added = {} => qwStream = qwHist.began

\* A walk that ran to its end has shown what was there all along.
QWEnded ==
  Finished({"end"}) => \A id \in qwHist.began \ qwHist.removed : id >= qwWalk.since => id \in Members(qwWalk.seen)

\* What a query has shown of an undisturbed stream is its newest part.
QWNewest ==
  qwWalk.kind = "query" /\ qwHist.removed = {} /\ qwHist.added = {} =>
    /\ Members(qwWalk.seen) \subseteq qwHist.began
    /\ \A i \in qwHist.began, j \in Members(qwWalk.seen) : i > j => i \in Members(qwWalk.seen)

QWFull == Finished({"full"}) => Full(qwWalk, qwWalk.seen)

\* What was cleared is neither in the stream nor, unless a Clear crossed it, in the walk.
QWCleared ==
  /\ qwHist.cleared \cap qwStream = {}
  /\ qwClear => qwHist.crossed
  /\ ~qwHist.crossed => Members(qwWalk.seen) \cap qwHist.cleared = {}
  /\ qwClear => ~qwCache.valid \/ qwCache.crossed

QWInv == QWTypes /\ QWKinds /\ QWBounds /\ QWOrdered /\ QWGoing /\ QWEnded /\ QWNewest /\ QWFull /\ QWCleared /\ TopIsStrongest /\ ClearedNotServed

-----------------------------------------------------------------------------
\* A finite set in a strict total order has one member with each number of others before it; listed by that
\* number, the members stand in the order.
LEMMA RankedFacts ==
  ASSUME NEW S, IsFiniteSet(S), NEW R,
         \A x \in S : <<x, x>> \notin R,
         \A x, y, z \in S : <<x, y>> \in R /\ <<y, z>> \in R => <<x, z>> \in R,
         \A x, y \in S : x # y => <<x, y>> \in R \/ <<y, x>> \in R
  PROVE  /\ Cardinality(S) \in Nat /\ Ranked(S, R) \in [1..Cardinality(S) -> S]
         /\ Ranked(S, R) \in Seq(S) /\ Len(Ranked(S, R)) = Cardinality(S) /\ Members(Ranked(S, R)) = S
         /\ \A i, j \in 1..Cardinality(S) : i < j <=> <<Ranked(S, R)[i], Ranked(S, R)[j]>> \in R
         /\ \A r \in 1..Cardinality(S) : Cardinality({y \in S : <<y, Ranked(S, R)[r]>> \in R}) = r - 1
<1> DEFINE n == Cardinality(S)
           B(x) == {y \in S : <<y, x>> \in R}
           L == Ranked(S, R)
<1>1. n \in Nat
  BY FS_CardinalityType
<1>2. ASSUME NEW x \in S PROVE IsFiniteSet(B(x)) /\ Cardinality(B(x)) \in 0..(n - 1) /\ Cardinality(B(x)) \in Nat
  <2>1. B(x) \in SUBSET S /\ B(x) # S
    OBVIOUS
  <2>2. IsFiniteSet(B(x)) /\ Cardinality(B(x)) <= n /\ (n = Cardinality(B(x)) => S = B(x))
    BY <2>1, FS_Subset
  <2>3. Cardinality(B(x)) \in Nat
    BY <2>2, FS_CardinalityType
  <2> QED
    BY <2>1, <2>2, <2>3, <1>1
<1>3. ASSUME NEW x \in S, NEW y \in S, <<x, y>> \in R PROVE Cardinality(B(x)) < Cardinality(B(y))
  <2>1. B(x) \in SUBSET B(y)
    BY <1>3
  <2>2. x \in B(y) /\ x \notin B(x)
    BY <1>3
  <2>3. IsFiniteSet(B(y)) /\ Cardinality(B(y)) \in Nat /\ Cardinality(B(x)) \in Nat
    BY <1>2
  <2>4. Cardinality(B(x)) <= Cardinality(B(y)) /\ (Cardinality(B(y)) = Cardinality(B(x)) => B(y) = B(x))
    BY <2>1, <2>3, FS_Subset
  <2>5. B(y) # B(x)
    BY <2>2
  <2> QED
    BY <2>3, <2>4, <2>5
<1> HIDE DEF B
<1> DEFINE pos == [x \in S |-> Cardinality(B(x))]
<1>4. pos \in Injection(S, 0..(n - 1))
  <2>1. pos \in [S -> 0..(n - 1)]
    BY <1>2
  <2>2. ASSUME NEW x \in S, NEW y \in S, pos[x] = pos[y] PROVE x = y
    <3>1. Cardinality(B(x)) = Cardinality(B(y)) /\ Cardinality(B(x)) \in Int
      BY <2>2, <1>1, <1>2
    <3>2. ~(Cardinality(B(x)) < Cardinality(B(y))) /\ ~(Cardinality(B(y)) < Cardinality(B(x)))
      BY <3>1
    <3> QED
      BY <1>3, <3>2
  <2> QED
    BY <2>1, <2>2 DEF Injection, IsInjective
<1>5. pos \in Surjection(S, 0..(n - 1))
  <2>1. IsFiniteSet(0..(n - 1)) /\ Cardinality(0..(n - 1)) = n
    <3>1. 0 \in Int /\ n - 1 \in Int
      BY <1>1
    <3>2. IsFiniteSet(0..(n - 1)) /\ Cardinality(0..(n - 1)) = IF 0 > n - 1 THEN 0 ELSE (n - 1) - 0 + 1
      BY <3>1, FS_Interval
    <3> HIDE DEF n
    <3> QED
      BY <3>2, <1>1
  <2> QED
    BY <1>4, <2>1, FS_Injection
<1>6. ASSUME NEW r \in 1..n PROVE \E x \in S : Cardinality(B(x)) = r - 1
  <2>1. r - 1 \in 0..(n - 1)
    BY <1>1
  <2>2. \E x \in S : pos[x] = r - 1
    BY <2>1, <1>5 DEF Surjection
  <2> QED
    BY <2>2
<1>7. L = [r \in 1..n |-> CHOOSE x \in S : Cardinality(B(x)) = r - 1]
  BY DEF Ranked, B
<1>8. ASSUME NEW r \in 1..n PROVE L[r] \in S /\ Cardinality(B(L[r])) = r - 1
  BY <1>6, <1>7
<1> HIDE DEF L, B
<1>9. L \in [1..n -> S]
  BY <1>7, <1>8
<1>10. L \in Seq(S) /\ Len(L) = n
  BY <1>1, <1>9
<1>11. Members(L) = S
  <2>1. ASSUME NEW x \in S PROVE x \in Members(L)
    <3> DEFINE r == Cardinality(B(x)) + 1
    <3>1. r \in 1..n /\ r - 1 = Cardinality(B(x))
      BY <1>1, <1>2
    <3> HIDE DEF r
    <3>2. L[r] \in S /\ Cardinality(B(L[r])) = Cardinality(B(x))
      BY <1>8, <3>1
    <3>3. pos[L[r]] = pos[x]
      BY <3>2
    <3>4. L[r] = x
      BY <3>2, <3>3, <1>4 DEF Injection, IsInjective
    <3> QED
      BY <3>1, <3>4, <1>10 DEF Members
  <2> QED
    BY <2>1, <1>8, <1>10 DEF Members
<1>12. ASSUME NEW i \in 1..n, NEW j \in 1..n PROVE i < j <=> <<L[i], L[j]>> \in R
  <2>1. L[i] \in S /\ L[j] \in S /\ Cardinality(B(L[i])) = i - 1 /\ Cardinality(B(L[j])) = j - 1
    BY <1>8
  <2>2. ASSUME <<L[i], L[j]>> \in R PROVE i < j
    <3>1. i - 1 < j - 1
      BY <1>3, <2>1, <2>2
    <3> QED
      BY <3>1, <1>1
  <2>3. ASSUME i < j PROVE <<L[i], L[j]>> \in R
    <3>1. L[i] # L[j]
      BY <2>1, <2>3, <1>1
    <3>2. CASE <<L[j], L[i]>> \in R
      <4>1. j - 1 < i - 1
        BY <1>3, <2>1, <3>2
      <4> QED
        BY <4>1, <2>3, <1>1
    <3> QED
      BY <3>1, <3>2, <2>1
  <2> QED
    BY <2>2, <2>3
<1> QED
  BY <1>1, <1>8, <1>9, <1>10, <1>11, <1>12 DEF L, B

\* Entries listed in a walk's order.
LEMMA WalkRanked ==
  ASSUME NEW w, w.rev \in BOOLEAN, NEW S \in SUBSET (1..QWIds)
  PROVE  /\ IsFiniteSet(S) /\ Cardinality(S) \in Nat
         /\ Ranked(S, WalkOrder(w)) \in Seq(S) /\ Len(Ranked(S, WalkOrder(w))) = Cardinality(S)
         /\ Members(Ranked(S, WalkOrder(w))) = S
         /\ \A i, j \in 1..Len(Ranked(S, WalkOrder(w))) :
              i < j <=> Before(w, Ranked(S, WalkOrder(w))[i], Ranked(S, WalkOrder(w))[j])
<1> DEFINE R == WalkOrder(w)
           L == Ranked(S, R)
<1>1. QWIds \in Nat
  BY QWAssumption
<1>2. IsFiniteSet(S)
  <2>1. IsFiniteSet(1..QWIds)
    BY <1>1, FS_Interval
  <2> QED
    BY <2>1, FS_Subset
<1>3. \A x, y \in S : x \in Int /\ y \in Int /\ (<<x, y>> \in R <=> Before(w, x, y))
  <2> SUFFICES ASSUME NEW x \in S, NEW y \in S PROVE x \in Int /\ y \in Int /\ (<<x, y>> \in R <=> Before(w, x, y))
    OBVIOUS
  <2>1. x \in 1..QWIds /\ y \in 1..QWIds /\ x \in Int /\ y \in Int
    BY <1>1
  <2>2. <<x, y>> \in (1..QWIds) \X (1..QWIds)
    BY <2>1
  <2>3. <<x, y>> \in R <=> (IF w.rev THEN x > y ELSE x < y)
    BY <2>2 DEF WalkOrder
  <2> QED
    BY <2>1, <2>3 DEF Before
<1> HIDE DEF R
<1>4. /\ \A x \in S : <<x, x>> \notin R
      /\ \A x, y, z \in S : <<x, y>> \in R /\ <<y, z>> \in R => <<x, z>> \in R
      /\ \A x, y \in S : x # y => <<x, y>> \in R \/ <<y, x>> \in R
  BY <1>3 DEF Before
<1>5. /\ Cardinality(S) \in Nat /\ L \in [1..Cardinality(S) -> S]
      /\ L \in Seq(S) /\ Len(L) = Cardinality(S) /\ Members(L) = S
      /\ \A i, j \in 1..Cardinality(S) : i < j <=> <<L[i], L[j]>> \in R
  BY <1>2, <1>4, RankedFacts
<1> HIDE DEF L
<1>6. \A i, j \in 1..Len(L) : i < j <=> Before(w, L[i], L[j])
  <2> SUFFICES ASSUME NEW i \in 1..Len(L), NEW j \in 1..Len(L) PROVE i < j <=> Before(w, L[i], L[j])
    OBVIOUS
  <2>1. L[i] \in S /\ L[j] \in S
    BY <1>5
  <2>2. i < j <=> <<L[i], L[j]>> \in R
    BY <1>5
  <2> QED
    BY <2>1, <2>2, <1>3
<1> QED
  BY <1>2, <1>5, <1>6 DEF L, R

\* What the filter lets through of entries handed out.
Passing(w, s) == {i \in Members(s) : w.blocked => i \in QWBlocked}
MatchList(w, S, m) ==
  /\ IsFiniteSet(S) /\ Cardinality(S) \in Nat /\ m \in Seq(S) /\ Len(m) = Cardinality(S) /\ Members(m) = S
  /\ \A i, j \in 1..Len(m) : i < j <=> Before(w, m[i], m[j])

\* What Matching lists is what passes, in the walk's order.
LEMMA MatchingFacts ==
  ASSUME NEW w, w.rev \in BOOLEAN, NEW s, Members(s) \subseteq 1..QWIds
  PROVE  MatchList(w, Passing(w, s), Matching(w, s))
<1> DEFINE S == Passing(w, s)
<1>1. S \in SUBSET (1..QWIds)
  BY DEF Passing
<1>2. Matching(w, s) = Ranked(S, WalkOrder(w))
  BY DEF Matching, Passing
<1> HIDE DEF S
<1>3. /\ IsFiniteSet(S) /\ Cardinality(S) \in Nat
      /\ Ranked(S, WalkOrder(w)) \in Seq(S) /\ Len(Ranked(S, WalkOrder(w))) = Cardinality(S)
      /\ Members(Ranked(S, WalkOrder(w))) = S
      /\ \A i, j \in 1..Len(Ranked(S, WalkOrder(w))) :
           i < j <=> Before(w, Ranked(S, WalkOrder(w))[i], Ranked(S, WalkOrder(w))[j])
  BY <1>1, WalkRanked
<1> DEFINE m == Matching(w, s)
<1>4. /\ IsFiniteSet(S) /\ Cardinality(S) \in Nat /\ m \in Seq(S) /\ Len(m) = Cardinality(S) /\ Members(m) = S
      /\ \A i, j \in 1..Len(m) : i < j <=> Before(w, m[i], m[j])
  BY <1>2, <1>3, Zenon
<1> QED
  BY <1>4 DEF S, MatchList

\* A page: the first entries ahead in the walk's order, all of them unless there are more than the page takes.
PageOf(w, msgs) ==
  /\ msgs \in Seq(Ahead(w)) /\ (Len(msgs) <= QWPage => Members(msgs) = Ahead(w))
  /\ \A i, j \in 1..Len(msgs) : i < j => Before(w, msgs[i], msgs[j])
  /\ \A x \in Ahead(w) : x \in Members(msgs) \/ \A i \in 1..Len(msgs) : Before(w, msgs[i], x)

\* Messages reads such a page.
LEMMA PageFacts ==
  ASSUME NEW w, w.rev \in BOOLEAN, w.start \in Nat, qwStream \subseteq 1..QWIds
  PROVE  PageOf(w, Messages(w)) /\ Ahead(w) \subseteq 1..QWIds
<1> DEFINE S == Ahead(w)
           L == Ranked(S, WalkOrder(w))
           n == Cardinality(S)
           k == IF Len(L) > QWPage + 1 THEN QWPage + 1 ELSE Len(L)
           msgs == Messages(w)
<1>0. QWPage \in Nat /\ QWPage >= 1
  BY QWAssumption
<1>1. S \in SUBSET (1..QWIds)
  BY DEF Ahead
<1>2. /\ n \in Nat /\ L \in Seq(S) /\ Len(L) = n /\ Members(L) = S
      /\ \A i, j \in 1..Len(L) : i < j <=> Before(w, L[i], L[j])
  BY <1>1, WalkRanked
<1>3. msgs = SubSeq(L, 1, k)
  BY DEF Messages
<1> HIDE DEF L, S, n, msgs
<1>4. k \in 0..n /\ (k < n => k = QWPage + 1)
  BY <1>0, <1>2
<1> HIDE DEF k
<1>5. msgs \in Seq(S) /\ Len(msgs) = k /\ \A i \in 1..k : msgs[i] = L[i]
  <2>1. \A i \in 1..k : L[i] \in S
    BY <1>2, <1>4
  <2>2. Len(msgs) = k /\ \A i \in 1..k : msgs[i] = L[i]
    BY <1>2, <1>3, <1>4, SubSeqProperties
  <2>3. msgs \in Seq(S)
    BY <1>2, <1>3, <1>4, SubSeqProperties
  <2> QED
    BY <2>2, <2>3
<1>6. \A i, j \in 1..Len(msgs) : i < j => Before(w, msgs[i], msgs[j])
  <2> SUFFICES ASSUME NEW i \in 1..k, NEW j \in 1..k, i < j PROVE Before(w, msgs[i], msgs[j])
    BY <1>5
  <2>1. i \in 1..Len(L) /\ j \in 1..Len(L)
    BY <1>2, <1>4
  <2>2. Before(w, L[i], L[j])
    BY <2>1, <1>2
  <2>3. msgs[i] = L[i] /\ msgs[j] = L[j]
    BY <1>5
  <2> QED
    BY <2>2, <2>3, Zenon
<1>7. ASSUME NEW x \in S PROVE x \in Members(msgs) \/ \A i \in 1..Len(msgs) : Before(w, msgs[i], x)
  <2>1. PICK j \in 1..n : x = L[j]
    BY <1>2 DEF Members
  <2>2. CASE j <= k
    BY <2>1, <2>2, <1>2, <1>4, <1>5 DEF Members
  <2>3. CASE ~(j <= k)
    <3> SUFFICES ASSUME NEW i \in 1..k PROVE Before(w, msgs[i], x)
      BY <1>5
    <3>1. i < j /\ i \in 1..Len(L) /\ j \in 1..Len(L)
      BY <2>3, <1>2, <1>4
    <3>2. Before(w, L[i], L[j])
      BY <3>1, <1>2
    <3>3. msgs[i] = L[i]
      BY <1>5
    <3> QED
      BY <3>2, <3>3, <2>1, Zenon
  <2> QED
    BY <2>2, <2>3
<1>8. ASSUME Len(msgs) <= QWPage PROVE Members(msgs) = S
  <2>0. k <= QWPage
    BY <1>5, <1>8
  <2>1. k = n
    BY <1>0, <1>2, <1>4, <2>0
  <2> QED
    BY <2>1, <1>2, <1>5 DEF Members
<1>9. /\ msgs \in Seq(Ahead(w)) /\ (Len(msgs) <= QWPage => Members(msgs) = Ahead(w))
      /\ \A x \in Ahead(w) : x \in Members(msgs) \/ \A i \in 1..Len(msgs) : Before(w, msgs[i], x)
  BY <1>5, <1>7, <1>8 DEF S
<1> QED
  BY <1>1, <1>6, <1>9 DEF PageOf, S, msgs

\* The page without the boundary message it may share with the page before.
FreshOf(w, msgs, fresh) ==
  /\ fresh \in Seq(Ahead(w)) /\ Members(fresh) = (IF w.first THEN Members(msgs) ELSE Members(msgs) \ {w.start})
  /\ \A i, j \in 1..Len(fresh) : i < j => Before(w, fresh[i], fresh[j])
  /\ \A x \in Members(msgs), j \in 1..Len(fresh) : Before(w, x, fresh[j]) /\ x \notin Members(fresh) => ~w.first /\ x = w.start
  /\ fresh = <<>> => Len(msgs) <= 1

\* Fresh takes exactly the message the pages share.
LEMMA FreshFacts ==
  ASSUME NEW w, w.rev \in BOOLEAN, w.first \in BOOLEAN, w.start \in Nat, qwStream \subseteq 1..QWIds, NEW msgs, PageOf(w, msgs)
  PROVE  FreshOf(w, msgs, Fresh(w, msgs))
<1> DEFINE k == SkipBoundary(w, msgs)
           f == Fresh(w, msgs)
           n == Len(msgs)
<1>1. /\ msgs \in Seq(Ahead(w)) /\ n \in Nat
      /\ \A i, j \in 1..n : i < j => Before(w, msgs[i], msgs[j])
      /\ \A x \in Ahead(w) : x \in Members(msgs) \/ \A i \in 1..n : Before(w, msgs[i], x)
  BY DEF PageOf
<1>2. \A x \in Ahead(w) : x \in Int /\ (x = w.start \/ Before(w, w.start, x))
  BY QWAssumption DEF Ahead, Before
<1>3. k \in {0, 1} /\ (k = 1 <=> ~w.first /\ n > 0 /\ msgs[1] = w.start)
  <2>1. msgs # <<>> <=> n > 0
    BY <1>1
  <2>2. msgs # <<>> => Head(msgs) = msgs[1]
    BY <1>1
  <2> QED
    BY <2>1, <2>2 DEF SkipBoundary
<1>4. f = SubSeq(msgs, k + 1, n)
  BY DEF Fresh
<1> HIDE DEF k, f
<1>5. f \in Seq(Ahead(w)) /\ Len(f) = n - k /\ \A i \in 1..(n - k) : f[i] = msgs[i + k]
  <2>1. k + 1 \in Int /\ n \in Int /\ n - (k + 1) + 1 = n - k /\ (k + 1 <= n \/ n - k = 0)
    BY <1>1, <1>3
  <2>2. \A i \in (k + 1)..n : msgs[i] \in Ahead(w)
    BY <1>1, <1>3
  <2>3. /\ f \in Seq(Ahead(w)) /\ Len(f) = (IF k + 1 <= n THEN n - (k + 1) + 1 ELSE 0)
        /\ \A i \in 1..(n - (k + 1) + 1) : f[i] = msgs[(k + 1) + i - 1]
    BY <1>4, <2>1, <2>2, SubSeqProperties
  <2>4. Len(f) = n - k
    BY <2>1, <2>3
  <2>5. \A i \in 1..(n - k) : f[i] = msgs[i + k]
    <3> SUFFICES ASSUME NEW i \in 1..(n - k) PROVE f[i] = msgs[i + k]
      OBVIOUS
    <3>1. i \in 1..(n - (k + 1) + 1)
      BY <2>1
    <3>2. (k + 1) + i - 1 = i + k
      <4>1. k \in Int /\ i \in Int
        BY <1>1, <1>3
      <4> HIDE DEF n
      <4> QED
        BY <4>1
    <3> QED
      BY <2>3, <3>1, <3>2
  <2> QED
    BY <2>3, <2>4, <2>5
<1>6. \A i, j \in 1..Len(f) : i < j => Before(w, f[i], f[j])
  <2> SUFFICES ASSUME NEW i \in 1..(n - k), NEW j \in 1..(n - k), i < j PROVE Before(w, f[i], f[j])
    BY <1>5
  <2>1. i + k \in 1..n /\ j + k \in 1..n /\ i + k < j + k
    BY <1>1, <1>3
  <2>2. Before(w, msgs[i + k], msgs[j + k])
    BY <1>1, <2>1
  <2> QED
    BY <1>5, <2>2
<1>7. ASSUME NEW j \in 2..n PROVE msgs[j] # w.start
  <2>1. 1 \in 1..n /\ j \in 1..n /\ 1 < j
    BY <1>1
  <2>2. Before(w, msgs[1], msgs[j])
    BY <1>1, <2>1
  <2>3. msgs[1] \in Ahead(w) /\ msgs[j] \in Ahead(w)
    BY <1>1, <2>1
  <2>4. msgs[1] \in Int /\ msgs[j] \in Int /\ (msgs[1] = w.start \/ Before(w, w.start, msgs[1]))
    BY <1>2, <2>3
  <2> QED
    BY <2>2, <2>4 DEF Before
<1>8. Members(f) = IF w.first THEN Members(msgs) ELSE Members(msgs) \ {w.start}
  <2>1. ASSUME NEW x \in Members(f) PROVE x \in Members(msgs) /\ (~w.first => x # w.start)
    <3>1. PICK i \in 1..(n - k) : x = f[i]
      BY <1>5, <2>1 DEF Members
    <3>2. i + k \in 1..n /\ x = msgs[i + k]
      BY <1>1, <1>3, <1>5, <3>1
    <3>3. ASSUME ~w.first, x = w.start PROVE FALSE
      <4>1. ~(i + k \in 2..n)
        BY <1>7, <3>2, <3>3
      <4>2. i + k = 1 /\ n > 0
        BY <3>2, <4>1, <1>1, <1>3
      <4>3. k = 1
        BY <1>3, <3>2, <3>3, <4>2
      <4> QED
        BY <4>2, <4>3
    <3> QED
      BY <3>2, <3>3 DEF Members
  <2>2. ASSUME NEW x \in Members(msgs), w.first \/ x # w.start PROVE x \in Members(f)
    <3>1. PICK i \in 1..n : x = msgs[i]
      BY DEF Members
    <3>2. i - k \in 1..(n - k)
      <4>1. k = 0 \/ i # 1
        BY <1>3, <2>2, <3>1
      <4> QED
        BY <4>1, <1>1, <1>3
    <3>3. f[i - k] = msgs[(i - k) + k] /\ (i - k) + k = i
      BY <1>3, <1>5, <3>2
    <3> QED
      BY <3>1, <3>2, <3>3, <1>5 DEF Members
  <2> QED
    BY <2>1, <2>2
<1>9. f = <<>> => n <= 1
  <2> SUFFICES ASSUME f = <<>> PROVE n <= 1
    OBVIOUS
  <2>1. n - k = 0
    BY <1>5
  <2> QED
    BY <2>1, <1>1, <1>3
<1>10. FreshOf(w, msgs, f)
  BY <1>5, <1>6, <1>8, <1>9 DEF FreshOf
<1> QED
  BY <1>10 DEF f

\* A set of naturals has a least member.
LEMMA LeastId == ASSUME NEW H \in SUBSET Nat, H # {} PROVE \E i \in H : \A j \in H : i <= j
<1>1. PICK i \in H : \A j \in H : ~(<<j, i>> \in OpToRel(<, Nat))
  BY NatLessThanWellFounded, WFMin
<1>2. \A j \in H : ~(j < i)
  BY <1>1 DEF OpToRel
<1> QED
  BY <1>2

\* When a page's yields have to stop.
Enough(w, fresh, n) == Len(w.seen) + n >= QWScan \/ Full(w, w.seen \o SubSeq(fresh, 1, n))

\* A page yields a beginning of what is fresh, all of it unless the scan bound or the query's page is reached.
LEMMA YieldFacts ==
  ASSUME NEW w, w.seen \in Seq(Nat), Len(w.seen) < QWScan, NEW fresh \in Seq(Nat)
  PROVE  \E n \in 0..Len(fresh) : /\ Yielded(w, fresh) = SubSeq(fresh, 1, n) /\ Len(w.seen) + n <= QWScan
                                  /\ n = Len(fresh) \/ Enough(w, fresh, n)
<1> DEFINE N == Len(fresh)
           l == Len(w.seen)
           P(n) == (\A k \in 1..(n - 1) : ~Enough(w, fresh, k)) /\ ((n > 0 /\ Enough(w, fresh, n)) \/ n = N)
           n0 == CHOOSE n \in 0..N : P(n)
<1>1. N \in Nat /\ l \in Nat /\ QWScan \in Nat
  BY QWAssumption
<1>2. Yielded(w, fresh) = SubSeq(fresh, 1, n0)
  BY DEF Yielded, Enough
<1>3. \E n \in 0..N : P(n)
  <2> DEFINE H == {n \in 1..N : Enough(w, fresh, n)}
  <2>1. CASE H = {}
    <3>1. \A k \in 1..N : ~Enough(w, fresh, k)
      BY <2>1
    <3>2. N \in 0..N /\ \A k \in 1..(N - 1) : ~Enough(w, fresh, k)
      BY <1>1, <3>1
    <3> QED
      BY <3>2
  <2>2. CASE H # {}
    <3>1. H \in SUBSET Nat
      BY <1>1
    <3>2. PICK n \in H : \A j \in H : n <= j
      BY <2>2, <3>1, LeastId
    <3>3. n \in 1..N /\ Enough(w, fresh, n) /\ n \in 0..N /\ n > 0
      BY <1>1, <3>2
    <3>4. ASSUME NEW k \in 1..(n - 1) PROVE ~Enough(w, fresh, k)
      <4>1. k \in 1..N /\ ~(n <= k)
        BY <1>1, <3>3
      <4> QED
        BY <3>2, <4>1
    <3> QED
      BY <3>3, <3>4
  <2> QED
    BY <2>1, <2>2
<1>4. n0 \in 0..N /\ P(n0)
  BY <1>3
<1> HIDE DEF n0
<1>5. l + n0 <= QWScan
  <2>1. CASE n0 <= 1
    BY <1>1, <1>4, <2>1
  <2>2. CASE ~(n0 <= 1)
    <3>1. n0 - 1 \in 1..(n0 - 1)
      BY <1>1, <1>4, <2>2
    <3>2. ~Enough(w, fresh, n0 - 1)
      BY <1>4, <3>1
    <3>3. ~(l + (n0 - 1) >= QWScan)
      BY <3>2 DEF Enough
    <3> QED
      BY <1>1, <1>4, <3>3
  <2> QED
    BY <2>1, <2>2
<1>6. n0 = N \/ Enough(w, fresh, n0)
  BY <1>4
<1> QED
  BY <1>2, <1>4, <1>5, <1>6

\* A walk after a page: what it has shown then, and why it stops there, if it does.
PageDone(w, msgs, fresh, n, stop) ==
  LET s == w.seen \o SubSeq(fresh, 1, n) IN
  /\ n \in 0..Len(fresh) /\ s \in Seq(Nat) /\ Len(s) = Len(w.seen) + n /\ Len(s) <= QWScan
  /\ \A i \in 1..Len(w.seen) : s[i] = w.seen[i]
  /\ \A i \in 1..n : s[Len(w.seen) + i] = fresh[i]
  /\ stop \in {"open", "end", "full", "cap"}
  /\ stop \in {"open", "end"} => n = Len(fresh)
  /\ stop = "open" => Len(s) < QWScan /\ Len(msgs) > QWPage /\ fresh # <<>>
  /\ stop = "end" => fresh = <<>> \/ Len(msgs) <= QWPage
  /\ stop = "full" => Full(w, s)

\* Yielded and StopOf leave the walk like this.
LEMMA StopFacts ==
  ASSUME NEW w, w.seen \in Seq(Nat), Len(w.seen) < QWScan, NEW fresh \in Seq(Nat), NEW msgs, Len(msgs) \in Nat
  PROVE  \E n : Yielded(w, fresh) = SubSeq(fresh, 1, n) /\ PageDone(w, msgs, fresh, n, StopOf(w, msgs, fresh, Yielded(w, fresh)))
<1>1. PICK n \in 0..Len(fresh) : /\ Yielded(w, fresh) = SubSeq(fresh, 1, n) /\ Len(w.seen) + n <= QWScan
                                 /\ n = Len(fresh) \/ Enough(w, fresh, n)
  BY YieldFacts
<1> DEFINE y == SubSeq(fresh, 1, n)
           s == w.seen \o y
           stop == StopOf(w, msgs, fresh, y)
<1>2. QWScan \in Nat /\ QWPage \in Nat
  BY QWAssumption
<1>3. y \in Seq(Nat) /\ Len(y) = n /\ \A i \in 1..n : y[i] = fresh[i]
  <2>1. Len(fresh) \in Nat /\ n \in Int /\ 1 \in Int /\ \A i \in 1..n : fresh[i] \in Nat
    BY <1>1
  <2>2. /\ y \in Seq(Nat) /\ Len(y) = (IF 1 <= n THEN n - 1 + 1 ELSE 0)
        /\ \A i \in 1..(n - 1 + 1) : y[i] = fresh[1 + i - 1]
    BY <2>1, SubSeqProperties
  <2>3. Len(y) = n
    BY <2>2, <1>1
  <2>4. \A i \in 1..n : y[i] = fresh[i]
    <3> SUFFICES ASSUME NEW i \in 1..n PROVE y[i] = fresh[i]
      OBVIOUS
    <3>1. i \in 1..(n - 1 + 1) /\ 1 + i - 1 = i
      BY <2>1
    <3> QED
      BY <2>2, <3>1
  <2> QED
    BY <2>2, <2>3, <2>4
<1> HIDE DEF y
<1>4. /\ s \in Seq(Nat) /\ Len(s) = Len(w.seen) + n /\ Len(s) <= QWScan
      /\ \A i \in 1..Len(w.seen) : s[i] = w.seen[i]
      /\ \A i \in 1..n : s[Len(w.seen) + i] = fresh[i]
  <2>1. s \in Seq(Nat) /\ Len(s) = Len(w.seen) + Len(y)
    BY <1>3, ConcatProperties
  <2>2. \A i \in 1..Len(w.seen) : s[i] = w.seen[i]
    BY <1>3
  <2>3. \A i \in 1..n : s[Len(w.seen) + i] = y[i]
    <3> SUFFICES ASSUME NEW i \in 1..n PROVE s[Len(w.seen) + i] = y[i]
      OBVIOUS
    <3>1. Len(w.seen) + i \in 1..(Len(w.seen) + Len(y)) /\ ~(Len(w.seen) + i <= Len(w.seen)) /\ (Len(w.seen) + i) - Len(w.seen) = i
      BY <1>1, <1>3
    <3> QED
      BY <1>3, <3>1
  <2> QED
    BY <1>1, <1>3, <2>1, <2>2, <2>3
<1>5. stop = IF fresh = <<>> THEN "end" ELSE IF Full(w, s) THEN "full" ELSE IF Len(s) >= QWScan THEN "cap"
             ELSE IF Len(msgs) <= QWPage THEN "end" ELSE "open"
  BY DEF StopOf
<1>6. Enough(w, fresh, n) => Len(s) >= QWScan \/ Full(w, s)
  BY <1>4 DEF Enough, y
<1>7. fresh = <<>> => n = Len(fresh)
  BY <1>1
<1> HIDE DEF s, stop
<1>8. stop \in {"open", "end", "full", "cap"} /\ (stop \in {"open", "end"} => n = Len(fresh))
  BY <1>1, <1>5, <1>6, <1>7
<1>9. /\ stop = "open" => Len(s) < QWScan /\ Len(msgs) > QWPage /\ fresh # <<>>
      /\ stop = "end" => fresh = <<>> \/ Len(msgs) <= QWPage
      /\ stop = "full" => Full(w, s)
  BY <1>2, <1>4, <1>5
<1>10. PageDone(w, msgs, fresh, n, stop)
  BY <1>1, <1>4, <1>8, <1>9 DEF PageDone, s, y
<1> QED
  BY <1>1, <1>10 DEF stop, y

-----------------------------------------------------------------------------
(* The strongest names                                                     *)

\* The counts of the names the walk met, and the strict order of strength they give.
LEMMA CountsFacts ==
  ASSUME NEW ids \in SUBSET (1..QWIds)
  PROVE  LET c == Counts(ids) IN IsFiniteSet(DOMAIN c) /\ DOMAIN c \in SUBSET Nat /\ c \in [DOMAIN c -> Nat]
<1> DEFINE D == {QWDomain[i] : i \in ids}
           c == Counts(ids)
           name == [i \in ids |-> QWDomain[i]]
<1>1. QWIds \in Nat /\ QWDomain \in [1..QWIds -> Nat]
  BY QWAssumption
<1>2. IsFiniteSet(ids)
  <2>1. IsFiniteSet(1..QWIds)
    BY <1>1, FS_Interval
  <2> QED
    BY <2>1, FS_Subset
<1>3. name \in Surjection(ids, D)
  BY DEF Surjection
<1>4. IsFiniteSet(D)
  BY <1>2, <1>3, FS_Surjection
<1>5. D \in SUBSET Nat
  BY <1>1
<1>6. c = [d \in D |-> Cardinality({i \in ids : QWDomain[i] = d})]
  BY DEF Counts
<1>7. \A d \in D : Cardinality({i \in ids : QWDomain[i] = d}) \in Nat
  <2> SUFFICES ASSUME NEW d \in D PROVE Cardinality({i \in ids : QWDomain[i] = d}) \in Nat
    OBVIOUS
  <2>1. {i \in ids : QWDomain[i] = d} \in SUBSET ids
    OBVIOUS
  <2>2. IsFiniteSet({i \in ids : QWDomain[i] = d})
    BY <2>1, <1>2, FS_Subset
  <2> QED
    BY <2>2, FS_CardinalityType
<1> HIDE DEF D, c
<1>8. DOMAIN c = D /\ c \in [D -> Nat]
  BY <1>6, <1>7
<1>9. IsFiniteSet(DOMAIN c) /\ DOMAIN c \in SUBSET Nat /\ c \in [DOMAIN c -> Nat]
  BY <1>4, <1>5, <1>8
<1> QED
  BY <1>9 DEF c

\* Of two names one outranks the other, never both, and outranking chains.
LEMMA StrongerFacts ==
  ASSUME NEW D \in SUBSET Nat, NEW c \in [D -> Nat]
  PROVE  /\ \A x, y \in D : <<x, y>> \in Stronger(c) <=> Outranks(c, x, y)
         /\ \A x \in D : ~Outranks(c, x, x)
         /\ \A x, y, z \in D : Outranks(c, x, y) /\ Outranks(c, y, z) => Outranks(c, x, z)
         /\ \A x, y \in D : x # y => Outranks(c, x, y) \/ Outranks(c, y, x)
<1>1. DOMAIN c = D
  OBVIOUS
<1>2. \A x \in D : x \in Int /\ c[x] \in Int
  OBVIOUS
<1>3. \A x, y \in D : <<x, y>> \in Stronger(c) <=> Outranks(c, x, y)
  BY <1>1 DEF Stronger
<1>4. \A x \in D : ~Outranks(c, x, x)
  BY <1>2 DEF Outranks
<1>5. \A x, y, z \in D : Outranks(c, x, y) /\ Outranks(c, y, z) => Outranks(c, x, z)
  BY <1>2 DEF Outranks
<1>6. \A x, y \in D : x # y => Outranks(c, x, y) \/ Outranks(c, y, x)
  BY <1>2 DEF Outranks
<1> QED
  BY <1>3, <1>4, <1>5, <1>6

\* A finite set of names listed strongest first.
StrongList(c, K, L) ==
  /\ Cardinality(K) \in Nat /\ L \in [1..Cardinality(K) -> K] /\ Len(L) = Cardinality(K) /\ Members(L) = K
  /\ \A i, j \in 1..Cardinality(K) : i < j <=> Outranks(c, L[i], L[j])
  /\ \A r \in 1..Cardinality(K) : Cardinality({y \in K : Outranks(c, y, L[r])}) = r - 1

\* A set of names ranked by strength is such a list.
LEMMA StrongRanked ==
  ASSUME NEW D \in SUBSET Nat, NEW c \in [D -> Nat], NEW K \in SUBSET D, IsFiniteSet(K)
  PROVE  StrongList(c, K, Ranked(K, Stronger(c)))
<1> DEFINE R == Stronger(c)
           L == Ranked(K, R)
           n == Cardinality(K)
<1>1. \A x, y \in K : <<x, y>> \in R <=> Outranks(c, x, y)
  <2>1. \A x, y \in D : <<x, y>> \in R <=> Outranks(c, x, y)
    BY StrongerFacts
  <2> QED
    BY <2>1
<1>2. /\ \A x \in K : <<x, x>> \notin R
      /\ \A x, y, z \in K : <<x, y>> \in R /\ <<y, z>> \in R => <<x, z>> \in R
      /\ \A x, y \in K : x # y => <<x, y>> \in R \/ <<y, x>> \in R
  <2>1. /\ \A x \in K : ~Outranks(c, x, x)
        /\ \A x, y, z \in K : Outranks(c, x, y) /\ Outranks(c, y, z) => Outranks(c, x, z)
        /\ \A x, y \in K : x # y => Outranks(c, x, y) \/ Outranks(c, y, x)
    BY StrongerFacts
  <2> HIDE DEF R
  <2> QED
    BY <1>1, <2>1
<1> HIDE DEF R
<1>3. /\ n \in Nat /\ L \in [1..n -> K] /\ L \in Seq(K) /\ Len(L) = n /\ Members(L) = K
      /\ \A i, j \in 1..n : i < j <=> <<L[i], L[j]>> \in R
      /\ \A r \in 1..n : Cardinality({y \in K : <<y, L[r]>> \in R}) = r - 1
  BY <1>2, RankedFacts
<1> HIDE DEF L, n
<1>4. \A i \in 1..n : L[i] \in K
  BY <1>3
<1>5. \A i, j \in 1..n : i < j <=> Outranks(c, L[i], L[j])
  BY <1>1, <1>3, <1>4
<1>6. \A r \in 1..n : Cardinality({y \in K : Outranks(c, y, L[r])}) = r - 1
  <2> SUFFICES ASSUME NEW r \in 1..n PROVE Cardinality({y \in K : Outranks(c, y, L[r])}) = r - 1
    OBVIOUS
  <2>1. {y \in K : Outranks(c, y, L[r])} = {y \in K : <<y, L[r]>> \in R}
    BY <1>1, <1>4
  <2> QED
    BY <1>3, <2>1
<1>7. StrongList(c, K, L)
  BY <1>3, <1>5, <1>6 DEF StrongList, n
<1> QED
  BY <1>7 DEF L, R

\* The heap's root: every other name kept outranks it.
LEMMA RootFacts ==
  ASSUME NEW D \in SUBSET Nat, NEW c \in [D -> Nat], NEW K \in SUBSET D, IsFiniteSet(K), K # {}
  PROVE  HeapRoot(c, K) \in K /\ \A e \in K \ {HeapRoot(c, K)} : Outranks(c, e, HeapRoot(c, K))
<1> DEFINE L == Ranked(K, Stronger(c))
           n == Cardinality(K)
<1>1. /\ n \in Nat /\ L \in [1..n -> K] /\ Len(L) = n /\ Members(L) = K
      /\ \A i, j \in 1..n : i < j <=> Outranks(c, L[i], L[j])
  <2>1. StrongList(c, K, L)
    BY StrongRanked
  <2> QED
    BY <2>1 DEF StrongList
<1> HIDE DEF L, n
<1>2. n >= 1
  <2>1. n # 0
    BY FS_EmptySet DEF n
  <2> QED
    BY <2>1, <1>1
<1>3. n \in 1..n /\ L[n] \in K
  BY <1>1, <1>2
<1>4. \A e \in K \ {L[n]} : Outranks(c, e, L[n])
  <2> SUFFICES ASSUME NEW e \in K, e # L[n] PROVE Outranks(c, e, L[n])
    OBVIOUS
  <2>1. PICK j \in 1..n : e = L[j]
    BY <1>1 DEF Members
  <2>2. j < n
    BY <1>1, <2>1
  <2> QED
    BY <1>1, <1>3, <2>1, <2>2
<1>5. \E d \in K : \A e \in K \ {d} : Outranks(c, e, d)
  BY <1>3, <1>4
<1> QED
  BY <1>5 DEF HeapRoot

\* K holds the QWTop strongest of the names in T, all of them if there are fewer.
Strongest(c, K, T) ==
  /\ K \subseteq T /\ \A k \in K, t \in T \ K : Outranks(c, k, t)
  /\ Cardinality(K) <= QWTop /\ (Cardinality(K) < QWTop => K = T)

\* One more name: the heap takes it while there is room, and later only for a weaker one.
LEMMA KeepStep ==
  ASSUME NEW D \in SUBSET Nat, IsFiniteSet(D), NEW c \in [D -> Nat], NEW T \in SUBSET D, NEW d \in D \ T,
         NEW K, Strongest(c, K, T)
  PROVE  Strongest(c, Keeps(c, K, d), T \cup {d})
<1>1. /\ K \in SUBSET D /\ IsFiniteSet(K) /\ Cardinality(K) \in Nat /\ QWTop \in Nat /\ QWTop >= 1
      /\ K \subseteq T /\ d \notin K
  <2>1. K \in SUBSET D
    BY DEF Strongest
  <2>2. IsFiniteSet(K)
    BY <2>1, FS_Subset
  <2> QED
    BY <2>1, <2>2, FS_CardinalityType, QWAssumption DEF Strongest
<1>2. CASE Cardinality(K) < QWTop
  <2>1. Keeps(c, K, d) = K \cup {d} /\ K = T
    BY <1>2 DEF Keeps, Strongest
  <2>2. Cardinality(K \cup {d}) = Cardinality(K) + 1
    BY <1>1, FS_AddElement
  <2> QED
    BY <1>1, <1>2, <2>1, <2>2 DEF Strongest
<1>3. CASE ~(Cardinality(K) < QWTop)
  <2> DEFINE r == HeapRoot(c, K)
  <2>1. Cardinality(K) = QWTop
    BY <1>1, <1>3 DEF Strongest
  <2>2. K # {}
    BY <1>1, <2>1, FS_EmptySet
  <2>3. r \in K /\ \A e \in K \ {r} : Outranks(c, e, r)
    BY <1>1, <2>2, RootFacts
  <2>4. Keeps(c, K, d) = IF Outranks(c, d, r) THEN (K \ {r}) \cup {d} ELSE K
    BY <1>3 DEF Keeps, Displaces
  <2> HIDE DEF r
  <2>5. /\ \A x, y, z \in D : Outranks(c, x, y) /\ Outranks(c, y, z) => Outranks(c, x, z)
        /\ \A x, y \in D : x # y => Outranks(c, x, y) \/ Outranks(c, y, x)
    BY StrongerFacts
  <2>6. \A k \in K, t \in T \ K : Outranks(c, k, t)
    BY DEF Strongest
  <2>7. CASE Outranks(c, d, r)
    <3> DEFINE M == (K \ {r}) \cup {d}
    <3>1. Cardinality(M) = QWTop
      <4>1. IsFiniteSet(K \ {r}) /\ Cardinality(K \ {r}) = Cardinality(K) - 1
        BY <1>1, <2>3, FS_RemoveElement
      <4>2. d \notin K \ {r}
        BY <1>1
      <4>3. Cardinality(M) = Cardinality(K \ {r}) + 1
        BY <4>1, <4>2, FS_AddElement
      <4> QED
        BY <4>1, <4>3, <2>1, <1>1
    <3>2. ASSUME NEW k \in M, NEW t \in (T \cup {d}) \ M PROVE Outranks(c, k, t)
      <4>1. k \in D /\ t \in D /\ r \in D
        BY <1>1, <2>3
      <4>2. Outranks(c, k, r)
        BY <2>3, <2>7
      <4>3. CASE t = r
        BY <4>2, <4>3
      <4>4. CASE t # r
        <5>1. t \in T \ K
          BY <4>4
        <5>2. Outranks(c, r, t)
          BY <5>1, <2>3, <2>6
        <5> QED
          BY <4>1, <4>2, <5>2, <2>5
      <4> QED
        BY <4>3, <4>4
    <3>3. M \subseteq T \cup {d}
      BY <1>1
    <3>4. Keeps(c, K, d) = M
      BY <2>4, <2>7
    <3> HIDE DEF M
    <3>5. \A k \in M, t \in (T \cup {d}) \ M : Outranks(c, k, t)
      BY <3>2
    <3>6. Cardinality(M) <= QWTop /\ ~(Cardinality(M) < QWTop)
      BY <3>1, <1>1
    <3>7. Strongest(c, M, T \cup {d})
      BY <3>3, <3>5, <3>6 DEF Strongest
    <3> QED
      BY <3>4, <3>7, Zenon
  <2>8. CASE ~Outranks(c, d, r)
    <3>1. Outranks(c, r, d)
      BY <1>1, <2>3, <2>5, <2>8
    <3>2. ASSUME NEW k \in K, NEW t \in (T \cup {d}) \ K PROVE Outranks(c, k, t)
      <4>1. CASE t = d
        <5>1. CASE k = r
          BY <3>1, <4>1, <5>1
        <5>2. CASE k # r
          <6>1. Outranks(c, k, r)
            BY <2>3, <5>2
          <6> QED
            BY <6>1, <3>1, <4>1, <2>3, <2>5, <1>1
        <5> QED
          BY <5>1, <5>2
      <4>2. CASE t # d
        BY <2>6, <4>2
      <4> QED
        BY <4>1, <4>2
    <3>3. Keeps(c, K, d) = K
      BY <2>4, <2>8
    <3>4. \A k \in K, t \in (T \cup {d}) \ K : Outranks(c, k, t)
      BY <3>2
    <3>5. Cardinality(K) <= QWTop /\ ~(Cardinality(K) < QWTop) /\ K \subseteq T \cup {d}
      BY <2>1, <1>1
    <3>6. Strongest(c, K, T \cup {d})
      BY <3>4, <3>5 DEF Strongest
    <3> QED
      BY <3>3, <3>6, Zenon
  <2> QED
    BY <2>7, <2>8
<1> QED
  BY <1>2, <1>3

\* After the whole pass over the counts, in whatever order, the heap holds the strongest of all the names.
LEMMA KeptFacts ==
  ASSUME NEW D \in SUBSET Nat, IsFiniteSet(D), NEW c \in [D -> Nat], NEW order \in MapOrders(c)
  PROVE  Strongest(c, KeptAfter(c, order), D)
<1> DEFINE N == Len(order)
           kept[n \in 0..N] == IF n = 0 THEN {} ELSE Keeps(c, kept[n - 1], order[n])
           F == [p \in (1..N) \X SUBSET D |-> Keeps(c, p[2], order[p[1]])]
           Met(n) == {order[i] : i \in 1..n}
<1>1. /\ N \in Nat /\ N = Cardinality(D) /\ order \in [1..N -> D]
      /\ \A i, j \in 1..N : i # j => order[i] # order[j]
  <2>1. DOMAIN c = D /\ Cardinality(D) \in Nat
    BY FS_CardinalityType
  <2>2. /\ order \in [1..Cardinality(D) -> D]
        /\ \A i, j \in 1..Cardinality(D) : i # j => order[i] # order[j]
    BY <2>1 DEF MapOrders
  <2>3. Len(order) = Cardinality(D)
    BY <2>1, <2>2
  <2> QED
    BY <2>1, <2>2, <2>3
<1>2. \A i \in 1..N : order[i] \in D
  BY <1>1
<1> HIDE DEF N
<1>3. \A K \in SUBSET D, d \in D : Keeps(c, K, d) \in SUBSET D
  BY DEF Keeps
<1>4. F \in [(1..N) \X SUBSET D -> SUBSET D] /\ \A n \in 1..N, K \in SUBSET D : F[<<n, K>>] = Keeps(c, K, order[n])
  <2>1. \A p \in (1..N) \X SUBSET D : Keeps(c, p[2], order[p[1]]) \in SUBSET D
    BY <1>2, <1>3
  <2> QED
    BY <2>1
<1> HIDE DEF F
<1>5. PICK g : Iterates(g, SUBSET D, {}, N, F)
  BY <1>1, <1>4, PrimRec
<1>6. g \in [0..N -> SUBSET D] /\ g[0] = {} /\ \A n \in 1..N : g[n] = F[<<n, g[n - 1]>>]
  BY <1>5 DEF Iterates
<1>7. \A n \in 1..N : g[n] = Keeps(c, g[n - 1], order[n])
  <2> SUFFICES ASSUME NEW n \in 1..N PROVE g[n] = Keeps(c, g[n - 1], order[n])
    OBVIOUS
  <2>1. g[n - 1] \in SUBSET D
    BY <1>1, <1>6, SMTT(30)
  <2> QED
    BY <1>4, <1>6, <2>1
<1>8. g = [n \in 0..N |-> IF n = 0 THEN {} ELSE Keeps(c, g[n - 1], order[n])]
  <2>1. \A n \in 0..N : g[n] = IF n = 0 THEN {} ELSE Keeps(c, g[n - 1], order[n])
    <3> SUFFICES ASSUME NEW n \in 0..N PROVE g[n] = IF n = 0 THEN {} ELSE Keeps(c, g[n - 1], order[n])
      OBVIOUS
    <3>1. n # 0 => n \in 1..N
      BY <1>1
    <3> QED
      BY <1>6, <1>7, <3>1
  <2> QED
    BY <1>6, <2>1
<1>9. kept = [n \in 0..N |-> IF n = 0 THEN {} ELSE Keeps(c, kept[n - 1], order[n])]
  <2> SUFFICES \E ff : ff = [n \in 0..N |-> IF n = 0 THEN {} ELSE Keeps(c, ff[n - 1], order[n])]
    OBVIOUS
  <2> QED
    BY <1>8, Zenon
<1>10. KeptAfter(c, order) = kept[N]
  BY DEF KeptAfter, N
<1> HIDE DEF kept
<1>11. kept[0] = {} /\ \A n \in 1..N : kept[n] = Keeps(c, kept[n - 1], order[n])
  <2>1. \A n \in 0..N : kept[n] = IF n = 0 THEN {} ELSE Keeps(c, kept[n - 1], order[n])
    BY <1>9, Zenon
  <2>2. 0 \in 0..N /\ \A n \in 1..N : n \in 0..N /\ n # 0
    BY <1>1
  <2> QED
    BY <2>1, <2>2
<1>12. \A n \in 0..N : Strongest(c, kept[n], Met(n))
  <2> DEFINE T == {n \in Nat : n <= N => Strongest(c, kept[n], Met(n))}
  <2>1. 0 \in T
    <3>1. Met(0) = {}
      OBVIOUS
    <3>2. Cardinality({}) = 0 /\ QWTop \in Nat
      BY FS_EmptySet, QWAssumption
    <3>3. Strongest(c, {}, {})
      BY <3>2 DEF Strongest
    <3>4. Strongest(c, kept[0], Met(0))
      BY <3>1, <3>3, <1>11, Zenon
    <3> HIDE DEF Met
    <3> QED
      BY <3>4
  <2>2. ASSUME NEW n \in Nat, n \in T PROVE n + 1 \in T
    <3> SUFFICES ASSUME n + 1 <= N PROVE Strongest(c, kept[n + 1], Met(n + 1))
      BY <2>2
    <3>1. n <= N /\ n + 1 \in 1..N /\ (n + 1) - 1 = n
      BY <1>1
    <3>2. Strongest(c, kept[n], Met(n))
      BY <2>2, <3>1
    <3>3. Met(n) \in SUBSET D
      BY <1>1, <1>2, <3>1
    <3>4. order[n + 1] \in D \ Met(n)
      <4>1. \A i \in 1..n : i \in 1..N /\ i # n + 1
        BY <1>1, <3>1
      <4>2. \A i \in 1..n : order[i] # order[n + 1]
        BY <1>1, <3>1, <4>1
      <4> QED
        BY <4>2, <1>2, <3>1
    <3>5. Met(n + 1) = Met(n) \cup {order[n + 1]}
      <4>1. 1..(n + 1) = (1..n) \cup {n + 1}
        OBVIOUS
      <4> QED
        BY <4>1
    <3>6. kept[n + 1] = Keeps(c, kept[n], order[n + 1])
      BY <1>11, <3>1
    <3> HIDE DEF Met
    <3>7. Strongest(c, Keeps(c, kept[n], order[n + 1]), Met(n) \cup {order[n + 1]})
      BY <3>2, <3>3, <3>4, KeepStep
    <3> QED
      BY <3>5, <3>6, <3>7, Zenon
  <2> HIDE DEF T
  <2>3. Nat \subseteq T
    BY <2>1, <2>2, Induct
  <2> HIDE DEF Met
  <2> QED
    BY <1>1, <2>3 DEF T
<1>13. Met(N) = D
  <2>1. order \in Injection(1..N, D)
    BY <1>1 DEF Injection, IsInjective
  <2>2. IsFiniteSet(1..N) /\ Cardinality(1..N) = N
    <3>1. 1 \in Int /\ N \in Int
      BY <1>1
    <3>2. IsFiniteSet(1..N) /\ Cardinality(1..N) = IF 1 > N THEN 0 ELSE N - 1 + 1
      BY <3>1, FS_Interval
    <3> QED
      BY <3>2, <1>1
  <2>3. order \in Surjection(1..N, D)
    BY <1>1, <2>1, <2>2, FS_Injection
  <2> QED
    BY <2>3, <1>2 DEF Surjection
<1> HIDE DEF Met
<1>14. Strongest(c, kept[N], Met(N))
  <2>1. N \in 0..N
    BY <1>1
  <2> QED
    BY <2>1, <1>12
<1> QED
  BY <1>10, <1>13, <1>14, Zenon

\* topN's list does not depend on the order of the pass: it is the QWTop strongest, the i-th with i - 1 stronger.
LEMMA TopFacts ==
  ASSUME NEW D \in SUBSET Nat, IsFiniteSet(D), NEW c \in [D -> Nat], NEW order \in MapOrders(c)
  PROVE  LET top == TopN(c, order)
             rank(d) == Cardinality({e \in D : e = d \/ Outranks(c, e, d)})
         IN /\ top \in Seq(Nat) /\ Members(top) = {d \in D : rank(d) <= QWTop}
            /\ \A i \in 1..Len(top) : rank(top[i]) = i
<1> DEFINE K == KeptAfter(c, order)
           top == TopN(c, order)
           Up(d) == {e \in D : e = d \/ Outranks(c, e, d)}
           n == Cardinality(K)
<1>1. Strongest(c, K, D)
  BY KeptFacts
<1>2. top = Ranked(K, Stronger(c))
  BY DEF TopN
<1> HIDE DEF K, top
<1>3. K \in SUBSET D /\ IsFiniteSet(K)
  BY <1>1, FS_Subset DEF Strongest
<1>4. /\ n \in Nat /\ top \in [1..n -> K] /\ Len(top) = n /\ Members(top) = K
      /\ \A r \in 1..n : Cardinality({y \in K : Outranks(c, y, top[r])}) = r - 1
  <2>1. StrongList(c, K, top)
    BY <1>2, <1>3, StrongRanked
  <2> QED
    BY <2>1 DEF StrongList
<1>5. /\ \A x \in D : ~Outranks(c, x, x)
      /\ \A x, y, z \in D : Outranks(c, x, y) /\ Outranks(c, y, z) => Outranks(c, x, z)
      /\ \A x, y \in D : x # y => Outranks(c, x, y) \/ Outranks(c, y, x)
  BY StrongerFacts
<1>6. (\A k \in K, t \in D \ K : Outranks(c, k, t)) /\ n <= QWTop /\ (n < QWTop => K = D) /\ QWTop \in Nat
  BY <1>1, QWAssumption DEF Strongest
<1> HIDE DEF n
<1>7. ASSUME NEW i \in 1..n PROVE top[i] \in K /\ Cardinality(Up(top[i])) = i
  <2>0. top[i] \in K
    BY <1>4
  <2> DEFINE d == top[i]
             B == {y \in K : Outranks(c, y, d)}
  <2>1. d \in K /\ d \in D
    BY <1>3, <2>0
  <2>2. B \in SUBSET K /\ d \notin B /\ Cardinality(B) = i - 1
    BY <1>4, <1>5, <2>1
  <2>3. IsFiniteSet(B)
    BY <1>3, <2>2, FS_Subset
  <2> HIDE DEF d
  <2>4. Up(d) = B \cup {d}
    <3>1. ASSUME NEW e \in D, Outranks(c, e, d) PROVE e \in K
      <4>1. CASE e \notin K
        <5>1. Outranks(c, d, e)
          BY <1>6, <2>1, <4>1
        <5> QED
          BY <1>5, <2>1, <3>1, <5>1
      <4> QED
        BY <4>1
    <3> QED
      BY <3>1, <2>1, <1>3
  <2>5. Cardinality(B \cup {d}) = Cardinality(B) + 1
    BY <2>2, <2>3, FS_AddElement
  <2> HIDE DEF B
  <2>6. Cardinality(Up(d)) = (i - 1) + 1
    BY <2>2, <2>4, <2>5, Zenon
  <2>7. (i - 1) + 1 = i
    BY <1>4
  <2> QED
    BY <2>1, <2>6, <2>7 DEF d
<1>8. ASSUME NEW d \in K PROVE Cardinality(Up(d)) <= QWTop
  <2>1. PICK i \in 1..n : d = top[i]
    BY <1>4 DEF Members
  <2>2. Cardinality(Up(d)) = i
    BY <1>7, <2>1
  <2> QED
    BY <2>2, <1>4, <1>6
<1>9. ASSUME NEW d \in D, d \notin K PROVE ~(Cardinality(Up(d)) <= QWTop)
  <2>1. n = QWTop
    BY <1>4, <1>6, <1>9
  <2>2. K \cup {d} \in SUBSET Up(d)
    BY <1>3, <1>6, <1>9
  <2>3. Cardinality(K \cup {d}) = n + 1
    BY <1>3, <1>9, FS_AddElement DEF n
  <2>4. Up(d) \in SUBSET D
    OBVIOUS
  <2>5. IsFiniteSet(Up(d))
    BY <2>4, FS_Subset
  <2> HIDE DEF Up
  <2>6. Cardinality(K \cup {d}) <= Cardinality(Up(d)) /\ Cardinality(Up(d)) \in Nat
    BY <2>2, <2>5, FS_Subset, FS_CardinalityType
  <2> QED
    BY <2>1, <2>3, <2>6, <1>4
<1> HIDE DEF Up
<1>10. Members(top) = {d \in D : Cardinality(Up(d)) <= QWTop}
  <2>1. K = {d \in D : Cardinality(Up(d)) <= QWTop}
    BY <1>3, <1>8, <1>9
  <2> QED
    BY <2>1, <1>4
<1>11. top \in Seq(Nat)
  <2>1. top \in [1..n -> Nat]
    BY <1>3, <1>4
  <2> QED
    BY <2>1, <1>4
<1>12. \A i \in 1..Len(top) : Cardinality(Up(top[i])) = i
  BY <1>4, <1>7
<1> QED
  BY <1>10, <1>11, <1>12, Zenon DEF Up, top

-----------------------------------------------------------------------------
(* The page a query shows                                                  *)

\* The interval 1..n has n members.
LEMMA UpTo == ASSUME NEW n \in Nat PROVE IsFiniteSet(1..n) /\ Cardinality(1..n) = n
<1>1. 1 \in Int /\ n \in Int
  OBVIOUS
<1>2. IsFiniteSet(1..n) /\ Cardinality(1..n) = IF 1 > n THEN 0 ELSE n - 1 + 1
  BY <1>1, FS_Interval
<1> QED
  BY <1>2

\* When a list goes down through the newest part of a set, its k-th entry is the k-th newest of the set.
LEMMA RankOf ==
  ASSUME NEW A \in SUBSET (1..QWIds), NEW m \in Seq(A), \A i, j \in 1..Len(m) : i < j <=> m[i] > m[j],
         \A i \in A, j \in Members(m) : i > j => i \in Members(m)
  PROVE  /\ \A k \in 1..Len(m) : Cardinality({j \in A : j >= m[k]}) = k
         /\ \A i \in A : i \notin Members(m) => Cardinality({j \in A : j >= i}) > Len(m)
<1> DEFINE n == Len(m)
           T(i) == {j \in A : j >= i}
<1>1. n \in Nat /\ m \in [1..n -> A]
  OBVIOUS
<1>2. \A i, j \in A : (i >= j <=> i > j \/ i = j) /\ (i > j \/ i = j \/ j > i) /\ ~(i > j /\ j > i) /\ ~(i > i)
  <2> SUFFICES ASSUME NEW i \in 1..QWIds, NEW j \in 1..QWIds
               PROVE  (i >= j <=> i > j \/ i = j) /\ (i > j \/ i = j \/ j > i) /\ ~(i > j /\ j > i) /\ ~(i > i)
    OBVIOUS
  <2> QED
    BY QWAssumption
<1>3. ASSUME NEW i \in A PROVE IsFiniteSet(T(i)) /\ Cardinality(T(i)) \in Nat
  <2>1. IsFiniteSet(1..QWIds)
    BY QWAssumption, UpTo
  <2>2. T(i) \in SUBSET (1..QWIds)
    OBVIOUS
  <2>3. IsFiniteSet(T(i))
    BY <2>1, <2>2, FS_Subset
  <2> QED
    BY <2>3, FS_CardinalityType
<1>4. \A i, j \in 1..n : i < j <=> m[i] > m[j]
  OBVIOUS
<1>5. \A x \in A : x \in Members(m) <=> \E k \in 1..n : x = m[k]
  BY DEF Members
<1> HIDE DEF n
<1>6. \A i, j \in 1..n : m[i] = m[j] => i = j
  <2> SUFFICES ASSUME NEW i \in 1..n, NEW j \in 1..n, m[i] = m[j] PROVE i = j
    OBVIOUS
  <2>0. m[i] = m[j]
    OBVIOUS
  <2>1. m[i] \in A /\ ~(m[i] > m[j]) /\ ~(m[j] > m[i])
    <3>1. m[i] \in A
      BY <1>1
    <3> QED
      BY <3>1, <1>2, <2>0, Zenon
  <2>2. ~(i < j) /\ ~(j < i)
    BY <2>1, <1>4
  <2> QED
    BY <2>2, <1>1
<1>7. ASSUME NEW k \in 1..n PROVE Cardinality(T(m[k])) = k
  <2> DEFINE f == [x \in 1..k |-> m[x]]
  <2>1. k \in Nat /\ \A x \in 1..k : x \in 1..n
    BY <1>1
  <2>2. ASSUME NEW x \in 1..k PROVE m[x] \in T(m[k])
    <3>1. x \in 1..n /\ m[x] \in A /\ m[k] \in A /\ (x = k \/ x < k)
      BY <1>1, <2>1
    <3>2. m[x] = m[k] \/ m[x] > m[k]
      BY <1>4, <3>1
    <3>3. m[x] >= m[k]
      BY <1>2, <3>1, <3>2, Zenon
    <3> QED
      BY <3>1, <3>3
  <2>3. ASSUME NEW j \in T(m[k]) PROVE \E x \in 1..k : m[x] = j
    <3>0. j \in A /\ m[k] \in A /\ j >= m[k]
      BY <1>1
    <3>1. j \in A /\ m[k] \in A /\ (j = m[k] \/ j > m[k])
      BY <3>0, <1>2, Zenon
    <3>2. m[k] \in Members(m)
      BY <1>5, <3>1
    <3>3. j \in Members(m)
      BY <3>1, <3>2
    <3>4. PICK x \in 1..n : j = m[x]
      BY <1>5, <3>1, <3>3
    <3>5. ~(k < x)
      <4>1. CASE k < x
        <5>1. m[k] > m[x]
          BY <1>4, <4>1
        <5>2. m[k] > j
          BY <5>1, <3>4, Zenon
        <5> QED
          BY <5>2, <3>1, <1>2, ZenonT(40)
      <4> QED
        BY <4>1
    <3>6. x \in 1..k
      BY <3>5, <2>1, <1>1
    <3> QED
      BY <3>4, <3>6
  <2>4. f \in Injection(1..k, T(m[k]))
    <3>1. f \in [1..k -> T(m[k])]
      BY <2>2
    <3>2. \A x, y \in 1..k : f[x] = f[y] => x = y
      BY <1>6, <2>1
    <3> QED
      BY <3>1, <3>2 DEF Injection, IsInjective
  <2>5. f \in Surjection(1..k, T(m[k]))
    BY <2>2, <2>3 DEF Surjection
  <2>6. IsFiniteSet(1..k) /\ Cardinality(1..k) = k
    BY <2>1, UpTo
  <2> HIDE DEF f, T
  <2>7. Cardinality(T(m[k])) = Cardinality(1..k)
    BY <2>4, <2>5, <2>6, FS_Surjection
  <2> QED
    BY <2>6, <2>7
<1>8. ASSUME NEW i \in A, i \notin Members(m) PROVE Cardinality(T(i)) > n
  <2> DEFINE f == [x \in 1..(n + 1) |-> IF x = n + 1 THEN i ELSE m[x]]
  <2>1. \A x \in 1..(n + 1) : x = n + 1 \/ x \in 1..n
    BY <1>1
  <2>2. ASSUME NEW x \in 1..n PROVE m[x] \in T(i) /\ m[x] # i
    <3>1. m[x] \in A /\ m[x] \in Members(m)
      BY <1>1, <1>5
    <3>2. ~(i > m[x]) /\ m[x] # i
      BY <1>8, <3>1
    <3>3. m[x] >= i
      BY <1>2, <3>1, <3>2, Zenon
    <3> QED
      BY <3>1, <3>2, <3>3
  <2>3. i \in T(i)
    BY <1>2
  <2>4. f \in Injection(1..(n + 1), T(i))
    <3>1. f \in [1..(n + 1) -> T(i)]
      BY <2>1, <2>2, <2>3
    <3>2. ASSUME NEW x \in 1..(n + 1), NEW y \in 1..(n + 1), f[x] = f[y] PROVE x = y
      <4>1. CASE x = n + 1
        BY <2>1, <2>2, <3>2, <4>1
      <4>2. CASE y = n + 1
        BY <2>1, <2>2, <3>2, <4>2
      <4>3. CASE x # n + 1 /\ y # n + 1
        BY <2>1, <1>6, <3>2, <4>3
      <4> QED
        BY <4>1, <4>2, <4>3
    <3> QED
      BY <3>1, <3>2 DEF Injection, IsInjective
  <2>5. Cardinality(1..(n + 1)) = n + 1
    BY <1>1, UpTo
  <2>6. IsFiniteSet(T(i)) /\ Cardinality(T(i)) \in Nat
    BY <1>3
  <2> HIDE DEF f, T
  <2>7. Cardinality(1..(n + 1)) <= Cardinality(T(i))
    BY <2>4, <2>6, FS_Injection
  <2> QED
    BY <1>1, <2>5, <2>6, <2>7
<1> QED
  BY <1>7, <1>8 DEF n

\* An undisturbed query shows exactly its page of the matching entries.
LEMMA PageIsExact ==
  ASSUME QWTypes, QWKinds, QWBounds, QWEnded, QWNewest, QWFull
  PROVE  QueryPageExact
<1> SUFFICES ASSUME Finished({"end", "full"}), qwWalk.kind = "query", qwHist.removed = {}, qwHist.added = {}
             PROVE  LET all == {i \in qwHist.began : qwWalk.blocked => i \in QWBlocked}
                        rank(i) == Cardinality({j \in all : j >= i})
                        page == QueryResult(qwWalk)
                    IN /\ Members(page) = {i \in all : rank(i) > qwWalk.offset /\ rank(i) <= qwWalk.offset + qwWalk.limit}
                       /\ \A i, j \in 1..Len(page) : i < j => page[i] > page[j]
  BY DEF QueryPageExact
<1> DEFINE A == {i \in qwHist.began : qwWalk.blocked => i \in QWBlocked}
           S == {i \in Members(qwWalk.seen) : qwWalk.blocked => i \in QWBlocked}
           rank(i) == Cardinality({j \in A : j >= i})
           m == Matching(qwWalk, qwWalk.seen)
           n == Len(m)
           page == QueryResult(qwWalk)
           off == qwWalk.offset
           lim == qwWalk.limit
           end == IF n > off + lim THEN off + lim ELSE n
<1>1. /\ qwWalk.rev = TRUE /\ qwWalk.since = 0 /\ off \in Nat /\ lim \in Nat /\ lim >= 1
      /\ qwHist.began \subseteq 1..QWIds /\ Members(qwWalk.seen) \subseteq 1..QWIds
  <2>1. qwWalk \in Walks /\ qwLast \in 0..QWIds
    BY DEF QWTypes
  <2>2. 1..qwLast \subseteq 1..QWIds
    BY <2>1, QWAssumption
  <2>3. qwWalk.rev /\ qwWalk.since = 0 /\ qwWalk.limit >= 1
    BY DEF QWKinds
  <2>4. qwWalk.rev \in BOOLEAN /\ qwWalk.offset \in Nat /\ qwWalk.limit \in Nat
    BY <2>1 DEF Walks
  <2>5. qwHist.began \subseteq 1..qwLast /\ Members(qwWalk.seen) \subseteq 1..qwLast
    BY DEF QWBounds
  <2> QED
    BY <2>2, <2>3, <2>4, <2>5
<1>2. /\ m \in Seq(S) /\ n = Cardinality(S) /\ Members(m) = S
      /\ \A i, j \in 1..n : i < j <=> Before(qwWalk, m[i], m[j])
  <2>1. qwWalk.rev \in BOOLEAN /\ Members(qwWalk.seen) \subseteq 1..QWIds
    BY <1>1
  <2>2. MatchList(qwWalk, S, m)
    BY <2>1, MatchingFacts DEF Passing
  <2> QED
    BY <2>2 DEF MatchList
<1>3. A \in SUBSET (1..QWIds) /\ S \in SUBSET A /\ \A i \in A, j \in S : i > j => i \in S
  <2>1. /\ Members(qwWalk.seen) \subseteq qwHist.began
        /\ \A i \in qwHist.began, j \in Members(qwWalk.seen) : i > j => i \in Members(qwWalk.seen)
    BY DEF QWNewest
  <2> QED
    BY <1>1, <2>1
<1>4. S = A \/ n >= off + lim
  <2>1. CASE qwWalk.stop = "end"
    <3>1. \A id \in qwHist.began : id >= 0 => id \in Members(qwWalk.seen)
      BY <1>1, <2>1 DEF QWEnded, Finished
    <3>2. qwHist.began \subseteq Members(qwWalk.seen)
      BY <1>1, <3>1, QWAssumption
    <3> QED
      BY <3>2, <1>3
  <2>2. CASE qwWalk.stop = "full"
    BY <2>2 DEF QWFull, Finished, Full
  <2> QED
    BY <2>1, <2>2 DEF Finished
<1>5. page = IF n <= off THEN <<>> ELSE SubSeq(m, off + 1, end)
  BY DEF QueryResult
<1>6. \A i, j \in 1..n : i < j <=> m[i] > m[j]
  BY <1>1, <1>2 DEF Before
<1> HIDE DEF A, S, m, page, off, lim
<1>7. m \in Seq(A) /\ n \in Nat /\ \A k \in 1..n : m[k] \in A
  <2>1. n \in Nat /\ m \in [1..n -> S]
    BY <1>2
  <2> HIDE DEF n
  <2>2. \A k \in 1..n : m[k] \in A
    BY <1>3, <2>1
  <2>3. m \in [1..n -> A]
    BY <2>1, <2>2
  <2> QED
    BY <2>1, <2>2, <2>3
<1>8. /\ \A k \in 1..n : rank(m[k]) = k
      /\ \A i \in A : i \notin Members(m) => rank(i) > n
  BY <1>2, <1>3, <1>6, <1>7, RankOf
<1>9. \A i \in A : rank(i) \in Int
  <2> SUFFICES ASSUME NEW i \in A PROVE rank(i) \in Int
    OBVIOUS
  <2>1. IsFiniteSet(1..QWIds)
    BY QWAssumption, UpTo
  <2>2. {j \in A : j >= i} \in SUBSET (1..QWIds)
    BY <1>3
  <2>3. IsFiniteSet({j \in A : j >= i})
    BY <2>1, <2>2, FS_Subset
  <2>4. Cardinality({j \in A : j >= i}) \in Nat
    BY <2>3, FS_CardinalityType
  <2> QED
    BY <2>4
<1> HIDE DEF rank, n
<1>10. /\ end \in Int /\ end <= n /\ end <= off + lim
       /\ (end = n \/ end = off + lim)
  BY <1>1, <1>7 DEF off, lim
<1> HIDE DEF end
<1>11. off \in Int /\ lim \in Int /\ off >= 0 /\ lim >= 1 /\ n \in Int
  BY <1>1, <1>7 DEF off, lim
<1>12. PICK l \in Nat : /\ Len(page) = l /\ (l = 0 \/ l = end - off) /\ (n > off => l = end - off)
                        /\ \A x \in 1..l : page[x] = m[off + x]
  <2>1. CASE n <= off
    <3>1. page = <<>> /\ Len(page) = 0 /\ 0 \in Nat /\ ~(n > off) /\ 1..0 = {}
      BY <1>5, <1>11, <2>1
    <3> QED
      BY <3>1
  <2>2. CASE ~(n <= off)
    <3>1. off + 1 <= end /\ off + 1 \in Int /\ off < n
      BY <1>10, <1>11, <2>2
    <3>2. \A i \in (off + 1)..end : m[i] \in A
      BY <1>7, <1>10, <1>11
    <3>3. page = SubSeq(m, off + 1, end)
      BY <1>5, <2>2
    <3>4. \A i \in (off + 1)..end : i \in 1..Len(m)
      BY <1>10, <1>11 DEF n
    <3>5. /\ Len(page) = end - (off + 1) + 1
          /\ \A i \in 1..(end - (off + 1) + 1) : page[i] = m[(off + 1) + i - 1]
      BY <1>7, <1>10, <3>1, <3>2, <3>3, <3>4, SubSeqProperties
    <3>6. end - (off + 1) + 1 = end - off /\ end - off \in Nat
      BY <1>10, <1>11, <3>1
    <3>7. \A x \in 1..(end - off) : page[x] = m[off + x]
      <4> SUFFICES ASSUME NEW x \in 1..(end - off) PROVE page[x] = m[off + x]
        OBVIOUS
      <4>1. (off + 1) + x - 1 = off + x
        BY <1>11
      <4> QED
        BY <3>5, <3>6, <4>1
    <3> QED
      BY <3>5, <3>6, <3>7, <3>1
  <2> QED
    BY <2>1, <2>2
<1>13. \A x \in 1..l : off + x \in 1..n /\ off + x <= off + lim /\ off + x > off
  BY <1>10, <1>11, <1>12
<1>14. ASSUME NEW x \in 1..l PROVE page[x] \in A /\ rank(page[x]) > off /\ rank(page[x]) <= off + lim
  BY <1>7, <1>8, <1>12, <1>13
<1>15. ASSUME NEW i \in A, rank(i) > off, rank(i) <= off + lim PROVE i \in Members(page)
  <2>1. CASE i \in S
    <3>1. PICK k \in 1..n : i = m[k]
      BY <1>2, <2>1 DEF Members, n
    <3>2. k > off /\ k <= off + lim /\ k <= n
      BY <1>8, <1>11, <1>15, <3>1
    <3>3. k - off \in 1..l /\ off + (k - off) = k
      <4>1. n > off /\ k <= end
        BY <1>10, <1>11, <3>2
      <4> QED
        BY <4>1, <1>10, <1>11, <1>12, <3>2
    <3>4. i = page[k - off]
      BY <3>1, <3>3, <1>12
    <3> QED
      BY <3>3, <3>4, <1>12 DEF Members
  <2>2. CASE i \notin S
    <3>1. rank(i) > n
      BY <1>2, <1>8, <2>2
    <3>2. n >= off + lim
      BY <1>4, <2>2
    <3>3. rank(i) \in Int
      BY <1>9
    <3> QED
      BY <3>1, <3>2, <3>3, <1>11, <1>15
  <2> QED
    BY <2>1, <2>2
<1>16. \A i, j \in 1..Len(page) : i < j => page[i] > page[j]
  <2> SUFFICES ASSUME NEW i \in 1..l, NEW j \in 1..l, i < j PROVE page[i] > page[j]
    BY <1>12
  <2>1. off + i \in 1..n /\ off + j \in 1..n /\ off + i < off + j
    BY <1>11, <1>13
  <2>2. m[off + i] > m[off + j]
    BY <1>6, <2>1
  <2> QED
    BY <1>12, <2>2
<1>17. Members(page) = {i \in A : rank(i) > off /\ rank(i) <= off + lim}
  <2>1. Members(page) = {page[x] : x \in 1..l}
    BY <1>12 DEF Members
  <2> QED
    BY <2>1, <1>14, <1>15
<1> QED
  BY <1>16, <1>17 DEF rank, A, page, off, lim

-----------------------------------------------------------------------------
(* The steps around the pages                                              *)

\* A walk's top list, once it is computed, is of the strongest names it met.
ShowsTop(w) ==
  (w.kind # "none" /\ w.stop \in {"end", "cap"} /\ w.kind = "stats") =>
    LET c == Counts(Members(w.seen))
        rank(d) == Cardinality({e \in DOMAIN c : e = d \/ Outranks(c, e, d)})
    IN /\ Members(w.top) = {d \in DOMAIN c : rank(d) <= QWTop}
       /\ \A i \in 1..Len(w.top) : rank(w.top[i]) = i

\* TopIsStrongest says this of the walk, in either state.
LEMMA TopShown == (TopIsStrongest <=> ShowsTop(qwWalk)) /\ (TopIsStrongest' <=> ShowsTop(qwWalk'))
<1>1. TopIsStrongest <=> ShowsTop(qwWalk)
  BY Zenon DEF TopIsStrongest, ShowsTop, Finished
<1>2. TopIsStrongest' <=> ShowsTop(qwWalk')
  BY Zenon DEF TopIsStrongest, ShowsTop, Finished, Counts, Members, Outranks
<1> QED
  BY <1>1, <1>2

\* When the walk, its cache and what was cleared stay, so do the order of the walk, its fullness and its top list.
LEMMA WalkKept ==
  ASSUME QWInv, qwWalk' = qwWalk
  PROVE  QWKinds' /\ QWOrdered' /\ QWFull' /\ TopIsStrongest' /\ (Walking' <=> Walking)
<1>1. QWKinds'
  BY DEF QWInv, QWKinds
<1>2. QWOrdered'
  BY DEF QWInv, QWOrdered, Before
<1>3. QWFull'
  BY DEF QWInv, QWFull, Finished, Full, Matching, Members, WalkOrder
<1>4. TopIsStrongest'
  <2>1. ShowsTop(qwWalk)
    BY TopShown DEF QWInv
  <2> QED
    BY <2>1, TopShown, Zenon
<1>5. Walking' <=> Walking
  BY DEF Walking
<1> QED
  BY <1>1, <1>2, <1>3, <1>4, <1>5

\* The writer adds the next ID.
LEMMA AppendKeeps == ASSUME QWInv, StreamAppends PROVE QWInv'
<1> USE DEF QWInv
<1>1. /\ qwLast \in Nat /\ QWIds \in Nat /\ qwLast < QWIds /\ qwLast' = qwLast + 1
      /\ qwStream' = qwStream \cup {qwLast + 1} /\ qwWalk' = qwWalk /\ qwCache' = qwCache /\ qwClear' = qwClear
      /\ qwHist' = [qwHist EXCEPT !.added = IF Walking THEN @ \cup {qwLast + 1} ELSE @]
  BY QWAssumption DEF StreamAppends, QWTypes
<1>2. QWKinds' /\ QWOrdered' /\ QWFull' /\ TopIsStrongest' /\ (Walking' <=> Walking)
  BY <1>1, WalkKept
<1>3. /\ qwHist'.cleared = qwHist.cleared /\ qwHist'.began = qwHist.began /\ qwHist'.removed = qwHist.removed
      /\ qwHist'.crossed = qwHist.crossed /\ qwHist'.walks = qwHist.walks
      /\ qwHist'.added = IF Walking THEN qwHist.added \cup {qwLast + 1} ELSE qwHist.added
  BY <1>1 DEF QWTypes
<1>4. 1..qwLast \subseteq 1..qwLast' /\ qwLast + 1 \in 1..qwLast' /\ qwLast + 1 \notin 1..qwLast /\ qwLast' \in 0..QWIds
  BY <1>1
<1>5. QWTypes'
  <2>1. qwHist' \in [walks : Nat, cleared : SUBSET Nat, began : SUBSET Nat, removed : SUBSET Nat, added : SUBSET Nat, crossed : BOOLEAN]
    BY <1>1 DEF QWTypes
  <2>2. qwStream' \subseteq 1..qwLast'
    BY <1>1, <1>4 DEF QWTypes
  <2> QED
    BY <1>1, <1>4, <2>1, <2>2 DEF QWTypes
<1>6. QWBounds'
  BY <1>1, <1>2, <1>3, <1>4 DEF QWBounds, Members
<1>7. QWGoing'
  BY <1>1, <1>2, <1>3 DEF QWGoing, Members, Before
<1>8. QWEnded'
  BY <1>1, <1>3 DEF QWEnded, Finished, Members
<1>9. QWNewest'
  BY <1>1, <1>3 DEF QWNewest, Members
<1>10. QWCleared' /\ ClearedNotServed'
  BY <1>1, <1>3, <1>4 DEF QWCleared, ClearedNotServed, Members, QWBounds
<1> QED
  BY <1>2, <1>5, <1>6, <1>7, <1>8, <1>9, <1>10

\* The writer trims the oldest entry.
LEMMA TrimKeeps == ASSUME QWInv, StreamTrims PROVE QWInv'
<1> USE DEF QWInv
<1>1. PICK oldest \in qwStream :
        /\ qwStream' = qwStream \ {oldest}
        /\ qwHist' = [qwHist EXCEPT !.removed = IF Walking THEN @ \cup {oldest} ELSE @]
        /\ qwWalk' = qwWalk /\ qwCache' = qwCache /\ qwClear' = qwClear /\ qwLast' = qwLast
  BY DEF StreamTrims
<1>2. QWKinds' /\ QWOrdered' /\ QWFull' /\ TopIsStrongest' /\ (Walking' <=> Walking)
  BY <1>1, WalkKept
<1>3. /\ qwHist'.cleared = qwHist.cleared /\ qwHist'.began = qwHist.began /\ qwHist'.added = qwHist.added
      /\ qwHist'.crossed = qwHist.crossed /\ qwHist'.walks = qwHist.walks
      /\ qwHist'.removed = IF Walking THEN qwHist.removed \cup {oldest} ELSE qwHist.removed
  BY <1>1 DEF QWTypes
<1>4. QWTypes'
  <2>1. oldest \in Nat
    BY <1>1 DEF QWTypes
  <2>2. qwHist' \in [walks : Nat, cleared : SUBSET Nat, began : SUBSET Nat, removed : SUBSET Nat, added : SUBSET Nat, crossed : BOOLEAN]
    BY <1>1, <2>1 DEF QWTypes
  <2> QED
    BY <1>1, <2>2 DEF QWTypes
<1>5. QWBounds'
  BY <1>1, <1>2, <1>3 DEF QWBounds, Members
<1>6. QWGoing'
  BY <1>1, <1>2, <1>3 DEF QWGoing, Members, Before
<1>7. QWEnded'
  BY <1>1, <1>3 DEF QWEnded, Finished, Walking, Members
<1>8. QWNewest'
  BY <1>1, <1>3 DEF QWNewest, Members
<1>9. QWCleared' /\ ClearedNotServed'
  BY <1>1, <1>3 DEF QWCleared, ClearedNotServed, Members
<1> QED
  BY <1>2, <1>4, <1>5, <1>6, <1>7, <1>8, <1>9

\* A Clear empties the caches.
LEMMA ClearCachesKeeps == ASSUME QWInv, ClearCaches PROVE QWInv'
<1> USE DEF QWInv
<1>1. /\ qwClear' = TRUE /\ qwCache' = NoCache
      /\ qwHist' = [qwHist EXCEPT !.crossed = TRUE, !.walks = @ + 1]
      /\ qwStream' = qwStream /\ qwLast' = qwLast /\ qwWalk' = qwWalk
  BY DEF ClearCaches
<1>2. QWKinds' /\ QWOrdered' /\ QWFull' /\ TopIsStrongest' /\ (Walking' <=> Walking)
  BY <1>1, WalkKept
<1>3. /\ qwHist'.cleared = qwHist.cleared /\ qwHist'.began = qwHist.began /\ qwHist'.added = qwHist.added
      /\ qwHist'.crossed = TRUE /\ qwHist'.walks = qwHist.walks + 1 /\ qwHist'.removed = qwHist.removed
  BY <1>1 DEF QWTypes
<1>4. QWTypes'
  <2>0. qwHist.walks + 1 \in Nat
    BY DEF QWTypes
  <2>1. qwHist' \in [walks : Nat, cleared : SUBSET Nat, began : SUBSET Nat, removed : SUBSET Nat, added : SUBSET Nat, crossed : BOOLEAN]
    BY <1>1, <2>0 DEF QWTypes
  <2>2. qwCache' \in [valid : BOOLEAN, ids : SUBSET Nat, since : Nat, crossed : BOOLEAN]
    BY <1>1 DEF NoCache
  <2> QED
    BY <1>1, <2>1, <2>2 DEF QWTypes
<1>5. QWBounds'
  BY <1>1, <1>2, <1>3 DEF QWBounds, Members, NoCache
<1>6. QWGoing'
  BY <1>1, <1>2, <1>3 DEF QWGoing, Members, Before
<1>7. QWEnded'
  BY <1>1, <1>3 DEF QWEnded, Finished, Members
<1>8. QWNewest'
  BY <1>1, <1>3 DEF QWNewest, Members
<1>9. QWCleared' /\ ClearedNotServed'
  BY <1>1, <1>3 DEF QWCleared, ClearedNotServed, Members, NoCache
<1> QED
  BY <1>2, <1>4, <1>5, <1>6, <1>7, <1>8, <1>9

\* Then it deletes the stream.
LEMMA ClearStreamKeeps == ASSUME QWInv, ClearStream PROVE QWInv'
<1> USE DEF QWInv
<1>1. /\ qwClear /\ qwStream' = {} /\ qwClear' = FALSE
      /\ qwHist' = [qwHist EXCEPT !.cleared = @ \cup qwStream,
                                  !.removed = IF Walking THEN @ \cup qwStream ELSE @]
      /\ qwLast' = qwLast /\ qwWalk' = qwWalk /\ qwCache' = qwCache
  BY DEF ClearStream
<1>2. QWKinds' /\ QWOrdered' /\ QWFull' /\ TopIsStrongest' /\ (Walking' <=> Walking)
  BY <1>1, WalkKept
<1>3. /\ qwHist'.cleared = qwHist.cleared \cup qwStream /\ qwHist'.began = qwHist.began /\ qwHist'.added = qwHist.added
      /\ qwHist'.crossed = qwHist.crossed /\ qwHist'.walks = qwHist.walks
      /\ qwHist'.removed = IF Walking THEN qwHist.removed \cup qwStream ELSE qwHist.removed
  BY <1>1 DEF QWTypes
<1>4. QWTypes'
  <2>1. qwStream \subseteq Nat
    BY DEF QWTypes
  <2>2. qwHist' \in [walks : Nat, cleared : SUBSET Nat, began : SUBSET Nat, removed : SUBSET Nat, added : SUBSET Nat, crossed : BOOLEAN]
    BY <1>1, <2>1 DEF QWTypes
  <2> QED
    BY <1>1, <2>2 DEF QWTypes
<1>5. QWBounds'
  BY <1>1, <1>2, <1>3 DEF QWBounds, Members, QWTypes
<1>6. QWGoing'
  BY <1>1, <1>2, <1>3 DEF QWGoing, Members, Before
<1>7. QWEnded'
  BY <1>1, <1>3 DEF QWEnded, Finished, Walking, Members
<1>8. QWNewest'
  BY <1>1, <1>3 DEF QWNewest, Members
<1>9. qwHist.crossed = TRUE /\ (~qwCache.valid \/ qwCache.crossed)
  BY <1>1 DEF QWCleared, QWTypes
<1>10. QWCleared' /\ ClearedNotServed'
  BY <1>1, <1>3, <1>9 DEF QWCleared, ClearedNotServed
<1> QED
  BY <1>2, <1>4, <1>5, <1>6, <1>7, <1>8, <1>10

\* The statistics' cache runs out.
LEMMA ExpireKeeps == ASSUME QWInv, CacheExpires PROVE QWInv'
<1> USE DEF QWInv
<1>1. /\ qwCache' = NoCache /\ qwStream' = qwStream /\ qwLast' = qwLast /\ qwWalk' = qwWalk
      /\ qwClear' = qwClear /\ qwHist' = qwHist
  BY DEF CacheExpires
<1>2. QWKinds' /\ QWOrdered' /\ QWFull' /\ TopIsStrongest' /\ (Walking' <=> Walking)
  BY <1>1, WalkKept
<1>3. QWTypes'
  <2>1. qwCache' \in [valid : BOOLEAN, ids : SUBSET Nat, since : Nat, crossed : BOOLEAN]
    BY <1>1 DEF NoCache
  <2> QED
    BY <1>1, <2>1 DEF QWTypes
<1>4. QWBounds'
  BY <1>1, <1>2 DEF QWBounds, Members, NoCache
<1>5. QWGoing'
  BY <1>1, <1>2 DEF QWGoing, Members, Before
<1>6. QWEnded'
  BY <1>1 DEF QWEnded, Finished, Members
<1>7. QWNewest'
  BY <1>1 DEF QWNewest, Members
<1>8. QWCleared' /\ ClearedNotServed'
  BY <1>1 DEF QWCleared, ClearedNotServed, Members, NoCache
<1> QED
  BY <1>2, <1>3, <1>4, <1>5, <1>6, <1>7, <1>8

\* A reader starts at the newest entry, or at since.
LEMMA BeginKeeps ==
  ASSUME QWInv, NEW w \in Walks, Begins(w), w.kind # "none", w.first = TRUE, w.seen = <<>>, w.stop = "open",
         \/ w.kind = "query" /\ w.rev = TRUE /\ w.since = 0 /\ w.limit >= 1 /\ w.start = QWIds + 1
         \/ w.kind = "stats" /\ w.rev = FALSE /\ w.start = w.since
  PROVE  QWInv'
<1>1. /\ qwWalk' = w /\ qwStream' = qwStream /\ qwLast' = qwLast /\ qwCache' = qwCache /\ qwClear' = qwClear
      /\ qwHist' = [qwHist EXCEPT !.walks = @ + 1, !.began = qwStream, !.removed = {}, !.added = {}, !.crossed = qwClear]
  BY DEF Begins
<1>2. QWTypes /\ QWBounds /\ QWCleared /\ ClearedNotServed
  BY DEF QWInv
<1>3. /\ qwHist'.cleared = qwHist.cleared /\ qwHist'.began = qwStream /\ qwHist'.added = {} /\ qwHist'.removed = {}
      /\ qwHist'.crossed = qwClear
  BY <1>1, <1>2 DEF QWTypes
<1>4. Members(<<>>) = {} /\ Len(<<>>) = 0 /\ QWScan \in Nat /\ QWScan >= 1
  BY QWAssumption DEF Members
<1>5. QWTypes'
  <2>1. qwHist.walks + 1 \in Nat /\ qwStream \subseteq Nat /\ qwClear \in BOOLEAN
    BY <1>2 DEF QWTypes
  <2>2. qwHist' \in [walks : Nat, cleared : SUBSET Nat, began : SUBSET Nat, removed : SUBSET Nat, added : SUBSET Nat, crossed : BOOLEAN]
    BY <1>1, <1>2, <2>1 DEF QWTypes
  <2> QED
    BY <1>1, <1>2, <2>2 DEF QWTypes
<1>6. QWKinds'
  BY <1>1 DEF QWKinds
<1>7. QWBounds'
  <2>1. Members(w.seen) = {} /\ Len(w.seen) < QWScan
    BY <1>4
  <2>2. QWBounds' <=> /\ Members(w.seen) \subseteq 1..qwLast /\ qwCache.ids \subseteq 1..qwLast
                      /\ qwHist.cleared \subseteq 1..qwLast /\ qwStream \subseteq 1..qwLast
                      /\ Len(w.seen) <= QWScan /\ ((w.kind /= "none" /\ w.stop = "open") => Len(w.seen) < QWScan)
    BY <1>1, <1>3 DEF QWBounds, Walking, Members
  <2> QED
    BY <2>1, <2>2, <1>2, <1>4 DEF QWBounds, QWTypes
<1>8. QWOrdered'
  BY <1>1, <1>4 DEF QWOrdered
<1>9. QWGoing'
  <2>1. \A id \in qwStream : id >= w.since => Before(w, w.start, id) \/ id = w.start
    <3> SUFFICES ASSUME NEW id \in qwStream, id >= w.since PROVE Before(w, w.start, id) \/ id = w.start
      OBVIOUS
    <3>1. id \in 1..qwLast /\ qwLast \in 0..QWIds /\ QWIds \in Nat
      BY <1>2, QWAssumption DEF QWTypes
    <3>2. id \in Nat /\ id < QWIds + 1 /\ w.since \in Nat
      BY <3>1 DEF Walks
    <3> QED
      BY <3>2 DEF Before
  <2>2. \A i : i \notin Members(w.seen)
    BY <1>4
  <2> QED
    BY <1>1, <1>3, <2>1, <2>2 DEF QWGoing, Members, Before
<1>10. QWEnded' /\ QWFull'
  BY <1>1 DEF QWEnded, QWFull, Finished
<1>11. QWNewest'
  <2>1. Members(qwWalk'.seen) = {}
    BY <1>1, <1>4
  <2> QED
    BY <2>1 DEF QWNewest, Members
<1>12. TopIsStrongest'
  BY <1>1, TopShown DEF ShowsTop
<1>13. QWCleared' /\ ClearedNotServed'
  <2>1. Members(qwWalk'.seen) = {}
    BY <1>1, <1>4
  <2> QED
    BY <2>1, <1>1, <1>2, <1>3 DEF QWCleared, ClearedNotServed, Members
<1> QED
  BY <1>5, <1>6, <1>7, <1>8, <1>9, <1>10, <1>11, <1>12, <1>13 DEF QWInv

\* A query's walk starts as it should.
LEMMA QueryBeginKeeps ==
  ASSUME QWInv, NEW limit \in QWLimits, NEW offset \in QWOffsets, NEW b \in BOOLEAN, QueryBegins(limit, offset, b)
  PROVE  QWInv'
<1> DEFINE w == [NoWalk EXCEPT !.kind = "query", !.rev = TRUE, !.start = QWIds + 1, !.limit = limit,
                               !.offset = offset, !.blocked = b]
<1>1. limit \in Nat /\ limit >= 1 /\ offset \in Nat /\ QWIds + 1 \in Nat
  BY QWAssumption
<1>2. Begins(w)
  BY DEF QueryBegins
<1>3. NoWalk \in Walks /\ NoWalk.since = 0 /\ NoWalk.first = TRUE /\ NoWalk.seen = <<>> /\ NoWalk.stop = "open"
  BY DEF NoWalk, Walks
<1>4. w \in Walks
  BY <1>1, <1>3 DEF Walks
<1>5. /\ w.kind = "query" /\ w.first = TRUE /\ w.seen = <<>> /\ w.stop = "open"
      /\ w.rev = TRUE /\ w.since = 0 /\ w.limit >= 1 /\ w.start = QWIds + 1
  BY <1>1, <1>3 DEF Walks
<1> HIDE DEF w
<1> QED
  BY <1>2, <1>4, <1>5, BeginKeeps

\* The same for the statistics, which start at since.
LEMMA StatsBeginKeeps == ASSUME QWInv, NEW since \in QWSinces, StatsBegins(since) PROVE QWInv'
<1> DEFINE w == [NoWalk EXCEPT !.kind = "stats", !.start = since, !.since = since]
<1>1. since \in Nat
  BY QWAssumption
<1>2. Begins(w)
  BY DEF StatsBegins
<1>3. NoWalk \in Walks /\ NoWalk.rev = FALSE /\ NoWalk.first = TRUE /\ NoWalk.seen = <<>> /\ NoWalk.stop = "open"
  BY DEF NoWalk, Walks
<1>4. w \in Walks
  BY <1>1, <1>3 DEF Walks
<1>5. /\ w.kind = "stats" /\ w.first = TRUE /\ w.seen = <<>> /\ w.stop = "open"
      /\ w.rev = FALSE /\ w.start = w.since
  BY <1>1, <1>3 DEF Walks
<1> HIDE DEF w
<1> QED
  BY <1>2, <1>4, <1>5, BeginKeeps

\* An error ends a walk with what it has.
LEMMA FailKeeps == ASSUME QWInv, WalkFails PROVE QWInv'
<1> USE DEF QWInv
<1>1. /\ Walking /\ qwWalk' = [qwWalk EXCEPT !.stop = "error"]
      /\ qwStream' = qwStream /\ qwLast' = qwLast /\ qwCache' = qwCache /\ qwClear' = qwClear /\ qwHist' = qwHist
  BY DEF WalkFails
<1>2. /\ qwWalk' \in Walks /\ qwWalk'.stop = "error" /\ qwWalk'.kind = qwWalk.kind /\ qwWalk'.rev = qwWalk.rev
      /\ qwWalk'.since = qwWalk.since /\ qwWalk'.seen = qwWalk.seen /\ qwWalk'.limit = qwWalk.limit
  BY <1>1 DEF QWTypes, Walks
<1>3. QWTypes'
  BY <1>1, <1>2 DEF QWTypes
<1>4. QWKinds'
  BY <1>1, <1>2 DEF QWKinds, Walking
<1>5. QWBounds'
  BY <1>1, <1>2 DEF QWBounds, Members, Walking
<1>6. QWOrdered'
  BY <1>2 DEF QWOrdered, Before
<1>7. QWGoing' /\ QWEnded' /\ QWFull'
  BY <1>2 DEF QWGoing, QWEnded, QWFull, Walking, Finished
<1>8. QWNewest'
  BY <1>1, <1>2 DEF QWNewest, Members
<1>9. TopIsStrongest'
  BY <1>2, TopShown DEF ShowsTop
<1>10. QWCleared' /\ ClearedNotServed'
  BY <1>1, <1>2 DEF QWCleared, ClearedNotServed, Members
<1> QED
  BY <1>3, <1>4, <1>5, <1>6, <1>7, <1>8, <1>9, <1>10

\* Nothing is read when the log opens.
LEMMA WalkInit == QWInit => QWInv
<1> SUFFICES ASSUME QWInit PROVE QWInv
  OBVIOUS
<1>1. /\ qwStream = {} /\ qwLast = 0 /\ qwWalk = NoWalk /\ qwCache = NoCache /\ qwClear = FALSE
      /\ qwHist = [walks |-> 0, cleared |-> {}, began |-> {}, removed |-> {}, added |-> {}, crossed |-> FALSE]
  BY DEF QWInit
<1>2. QWIds \in Nat /\ QWScan \in Nat /\ QWScan >= 1
  BY QWAssumption
<1>3. /\ qwWalk \in Walks /\ qwWalk.kind = "none" /\ qwWalk.seen = <<>> /\ Members(qwWalk.seen) = {} /\ Len(qwWalk.seen) = 0
      /\ qwCache.valid = FALSE /\ qwCache.ids = {}
  BY <1>1 DEF NoWalk, NoCache, Walks, Members
<1>4. QWTypes
  <2>1. qwCache \in [valid : BOOLEAN, ids : SUBSET Nat, since : Nat, crossed : BOOLEAN]
    BY <1>1 DEF NoCache
  <2>2. qwHist \in [walks : Nat, cleared : SUBSET Nat, began : SUBSET Nat, removed : SUBSET Nat, added : SUBSET Nat, crossed : BOOLEAN]
    BY <1>1
  <2>3. qwLast \in 0..QWIds /\ qwStream \subseteq 1..qwLast /\ qwClear \in BOOLEAN
    <3>1. 0 \in 0..QWIds
      BY <1>2
    <3> QED
      BY <3>1, <1>1, Zenon
  <2> QED
    BY <1>3, <2>1, <2>2, <2>3 DEF QWTypes
<1>5. QWKinds /\ QWOrdered /\ QWBounds
  BY <1>1, <1>2, <1>3 DEF QWKinds, QWOrdered, QWBounds
<1>6. QWGoing /\ QWEnded /\ QWNewest /\ QWFull
  BY <1>3 DEF QWGoing, QWEnded, QWNewest, QWFull, Walking, Finished
<1>7. QWCleared /\ ClearedNotServed /\ TopIsStrongest
  BY <1>1, <1>3 DEF QWCleared, ClearedNotServed, TopIsStrongest, Finished
<1> QED
  BY <1>4, <1>5, <1>6, <1>7 DEF QWInv

\* What is shown after a page is what was shown before it and the new messages it yielded.
Grown(w, fresh, n, s) ==
  /\ Len(s) \in Nat /\ Len(s) <= QWScan /\ n \in 0..Len(fresh) /\ Len(s) = Len(w.seen) + n
  /\ \A i \in 1..Len(w.seen) : i \in 1..Len(s) /\ s[i] = w.seen[i]
  /\ \A i \in 1..n : Len(w.seen) + i \in 1..Len(s) /\ s[Len(w.seen) + i] = fresh[i]
  /\ \A i \in 1..Len(s) : i \in 1..Len(w.seen) \/ \E k \in 1..n : i = Len(w.seen) + k /\ s[i] = fresh[k]

\* Appending what a page yields grows the list like this.
LEMMA SeenAfter ==
  ASSUME NEW w, w.seen \in Seq(Nat), NEW msgs, NEW fresh \in Seq(Nat), NEW n, NEW stop, PageDone(w, msgs, fresh, n, stop)
  PROVE  Grown(w, fresh, n, w.seen \o SubSeq(fresh, 1, n))
<1> DEFINE s == w.seen \o SubSeq(fresh, 1, n)
<1>1. /\ n \in 0..Len(fresh) /\ s \in Seq(Nat) /\ Len(s) = Len(w.seen) + n /\ Len(s) <= QWScan
      /\ \A i \in 1..Len(w.seen) : s[i] = w.seen[i]
      /\ \A i \in 1..n : s[Len(w.seen) + i] = fresh[i]
  BY DEF PageDone
<1> HIDE DEF s
<1>2. PICK l \in Nat : Len(w.seen) = l
  OBVIOUS
<1>3. PICK f \in Nat : Len(fresh) = f
  OBVIOUS
<1>4. n \in Nat /\ Len(s) = l + n
  <2>1. n \in 0..f
    BY <1>1, <1>3, Zenon
  <2>2. Len(s) = l + n
    BY <1>1, <1>2, Zenon
  <2> QED
    BY <2>1, <2>2
<1>5. \A i \in 1..(l + n) : i \in 1..l \/ \E k \in 1..n : i = l + k /\ s[i] = fresh[k]
  <2> SUFFICES ASSUME NEW i \in 1..(l + n), i \notin 1..l PROVE \E k \in 1..n : i = l + k /\ s[i] = fresh[k]
    OBVIOUS
  <2>1. i - l \in 1..n /\ i = l + (i - l)
    BY <1>4
  <2> QED
    BY <2>1, <1>1, <1>2
<1>6. /\ \A i \in 1..l : i \in 1..(l + n)
      /\ \A i \in 1..n : l + i \in 1..(l + n)
  BY <1>4
<1>7. l + n \in Nat
  BY <1>4
<1>8. /\ \A i \in 1..l : i \in 1..(l + n) /\ s[i] = w.seen[i]
      /\ \A i \in 1..n : l + i \in 1..(l + n) /\ s[l + i] = fresh[i]
  BY <1>1, <1>2, <1>6, Zenon
<1> QED
  BY <1>1, <1>2, <1>4, <1>5, <1>7, <1>8, Zenon DEF Grown, s

-----------------------------------------------------------------------------
(* A page                                                                  *)

\* What a page does to the walk: it reads msgs, takes the new ones among them, shows the first n, and goes on from
\* the last message or stops.
Paged(msgs, fresh, n) ==
  /\ Walking /\ PageOf(qwWalk, msgs) /\ FreshOf(qwWalk, msgs, fresh) /\ PageDone(qwWalk, msgs, fresh, n, qwWalk'.stop)
  /\ qwWalk'.kind = qwWalk.kind /\ qwWalk'.rev = qwWalk.rev /\ qwWalk'.since = qwWalk.since
  /\ qwWalk'.limit = qwWalk.limit /\ qwWalk'.offset = qwWalk.offset /\ qwWalk'.blocked = qwWalk.blocked
  /\ qwWalk'.first = FALSE /\ qwWalk'.seen = qwWalk.seen \o SubSeq(fresh, 1, n)
  /\ qwWalk'.start = IF qwWalk'.stop = "open" THEN msgs[Len(msgs)] ELSE qwWalk.start
  /\ qwStream' = qwStream /\ qwLast' = qwLast /\ qwClear' = qwClear /\ qwHist' = qwHist

\* What it leaves in the statistics' cache.
Cached ==
  \/ qwCache' = qwCache
  \/ qwCache' = [valid |-> TRUE, ids |-> Members(qwWalk'.seen), since |-> qwWalk'.since, crossed |-> qwHist.crossed]

\* A page of a walk is one of these, and a finished statistics walk gets its top list.
LEMMA PageShape ==
  ASSUME QWInv, WalkPage
  PROVE  \E msgs, fresh, n : Paged(msgs, fresh, n) /\ qwWalk' \in Walks /\ ShowsTop(qwWalk') /\ Cached
<1> DEFINE msgs == Messages(qwWalk)
           fresh == Fresh(qwWalk, msgs)
           y == Yielded(qwWalk, fresh)
           stop == StopOf(qwWalk, msgs, fresh, y)
           start == IF stop = "open" THEN msgs[Len(msgs)] ELSE qwWalk.start
           w == [qwWalk EXCEPT !.seen = qwWalk.seen \o y, !.first = FALSE, !.stop = stop, !.start = start]
           counts == Counts(Members(w.seen))
<1>1. QWTypes /\ QWKinds /\ QWBounds /\ Walking
  BY DEF QWInv, WalkPage
<1>2. /\ qwWalk \in Walks /\ qwWalk.rev \in BOOLEAN /\ qwWalk.first \in BOOLEAN /\ qwWalk.start \in Nat
      /\ qwWalk.seen \in Seq(Nat) /\ Len(qwWalk.seen) < QWScan
      /\ qwStream \subseteq 1..qwLast /\ qwLast \in Nat /\ 1..qwLast \subseteq 1..QWIds /\ 1..QWIds \subseteq Nat
  BY <1>1, QWAssumption DEF QWTypes, Walks, QWBounds
<1>3. PageOf(qwWalk, msgs) /\ Ahead(qwWalk) \subseteq 1..QWIds
  <2>1. qwStream \subseteq 1..QWIds
    BY <1>2
  <2> QED
    BY <2>1, <1>2, PageFacts
<1> HIDE DEF msgs
<1>4. FreshOf(qwWalk, msgs, fresh)
  <2>1. qwStream \subseteq 1..QWIds
    BY <1>2
  <2> QED
    BY <2>1, <1>2, <1>3, FreshFacts
<1> HIDE DEF fresh
<1>5. msgs \in Seq(Nat) /\ Len(msgs) \in Nat /\ fresh \in Seq(Nat)
  <2>1. msgs \in Seq(Ahead(qwWalk)) /\ fresh \in Seq(Ahead(qwWalk))
    BY <1>3, <1>4 DEF PageOf, FreshOf
  <2>2. Ahead(qwWalk) \subseteq Nat
    BY <1>2, <1>3
  <2>3. Len(msgs) \in Nat /\ Len(fresh) \in Nat
    BY <2>1
  <2>4. msgs \in [1..Len(msgs) -> Nat] /\ fresh \in [1..Len(fresh) -> Nat]
    BY <2>1, <2>2
  <2> QED
    BY <2>3, <2>4
<1>6. PICK n : y = SubSeq(fresh, 1, n) /\ PageDone(qwWalk, msgs, fresh, n, stop)
  BY <1>2, <1>5, StopFacts
<1> HIDE DEF y, stop
<1>7. /\ qwWalk.seen \o y \in Seq(Nat) /\ stop \in {"open", "end", "full", "cap"}
      /\ stop = "open" => Len(msgs) > QWPage
  BY <1>6 DEF PageDone
<1>8. start \in Nat
  <2>1. CASE stop = "open"
    <3>1. Len(msgs) \in 1..Len(msgs)
      BY <1>5, <1>7, <2>1, QWAssumption
    <3> QED
      BY <3>1, <1>5, <2>1
  <2>2. CASE stop # "open"
    BY <1>2, <2>2
  <2> QED
    BY <2>1, <2>2
<1> HIDE DEF start
<1>9. /\ w \in Walks /\ w.kind = qwWalk.kind /\ w.rev = qwWalk.rev /\ w.since = qwWalk.since
      /\ w.limit = qwWalk.limit /\ w.offset = qwWalk.offset /\ w.blocked = qwWalk.blocked
      /\ w.first = FALSE /\ w.seen = qwWalk.seen \o y /\ w.stop = stop /\ w.start = start
  BY <1>2, <1>7, <1>8 DEF Walks
<1>10. /\ qwStream' = qwStream /\ qwLast' = qwLast /\ qwClear' = qwClear /\ qwHist' = qwHist
       /\ \/ (stop = "open" \/ w.kind = "query") /\ qwWalk' = w /\ qwCache' = qwCache
          \/ /\ \E order \in MapOrders(counts) : qwWalk' = [w EXCEPT !.top = TopN(counts, order)]
             /\ qwCache' = [valid |-> TRUE, ids |-> Members(w.seen), since |-> w.since, crossed |-> qwHist.crossed]
  BY DEF WalkPage, msgs, fresh, y, stop, start
<1> HIDE DEF w
<1>11. /\ qwWalk' \in Walks /\ ShowsTop(qwWalk') /\ Cached
       /\ qwWalk'.kind = w.kind /\ qwWalk'.rev = w.rev /\ qwWalk'.since = w.since
       /\ qwWalk'.limit = w.limit /\ qwWalk'.offset = w.offset /\ qwWalk'.blocked = w.blocked
       /\ qwWalk'.first = FALSE /\ qwWalk'.seen = w.seen /\ qwWalk'.stop = stop /\ qwWalk'.start = start
  <2>1. CASE (stop = "open" \/ w.kind = "query") /\ qwWalk' = w /\ qwCache' = qwCache
    <3>1. ShowsTop(qwWalk')
      BY <2>1, <1>9 DEF ShowsTop
    <3> QED
      BY <2>1, <3>1, <1>9 DEF Cached
  <2>2. CASE /\ \E order \in MapOrders(counts) : qwWalk' = [w EXCEPT !.top = TopN(counts, order)]
             /\ qwCache' = [valid |-> TRUE, ids |-> Members(w.seen), since |-> w.since, crossed |-> qwHist.crossed]
    <3>1. PICK order \in MapOrders(counts) : qwWalk' = [w EXCEPT !.top = TopN(counts, order)]
      BY <2>2
    <3> DEFINE top == TopN(counts, order)
               rank(d) == Cardinality({e \in DOMAIN counts : e = d \/ Outranks(counts, e, d)})
    <3>2. Members(w.seen) \in SUBSET (1..QWIds)
      <4>1. w.seen = qwWalk.seen \o SubSeq(fresh, 1, n)
        BY <1>6, <1>9
      <4>2. PageDone(qwWalk, msgs, fresh, n, stop)
        BY <1>6
      <4>3. \A i \in 1..Len(qwWalk.seen) : qwWalk.seen[i] \in 1..QWIds
        BY <1>1, <1>2 DEF QWBounds, Members
      <4>4. \A i \in 1..n : fresh[i] \in 1..QWIds
        <5>1. fresh \in Seq(Ahead(qwWalk)) /\ n \in 0..Len(fresh)
          BY <1>4, <4>2 DEF FreshOf, PageDone
        <5> QED
          BY <5>1, <1>3
      <4>5. \A i \in 1..Len(w.seen) : w.seen[i] \in 1..QWIds
        <5>1. qwWalk.seen \in Seq(Nat) /\ fresh \in Seq(Nat)
          BY <1>2, <1>5
        <5>2. \A i \in 1..Len(w.seen) : \/ i \in 1..Len(qwWalk.seen) /\ w.seen[i] = qwWalk.seen[i]
                                        \/ \E k \in 1..n : w.seen[i] = fresh[k]
          <6>1. Grown(qwWalk, fresh, n, w.seen)
            BY <4>1, <4>2, <5>1, SeenAfter, Zenon
          <6> QED
            BY <6>1, Zenon DEF Grown
        <5> QED
          BY <5>2, <4>3, <4>4, Zenon
      <4> QED
        BY <4>5 DEF Members
    <3>3. IsFiniteSet(DOMAIN counts) /\ DOMAIN counts \in SUBSET Nat /\ counts \in [DOMAIN counts -> Nat]
      BY <3>2, CountsFacts
    <3> HIDE DEF counts
    <3>4. /\ top \in Seq(Nat) /\ Members(top) = {d \in DOMAIN counts : rank(d) <= QWTop}
          /\ \A i \in 1..Len(top) : rank(top[i]) = i
      BY <3>1, <3>3, TopFacts
    <3> HIDE DEF top
    <3>5. /\ qwWalk' = [w EXCEPT !.top = top] /\ qwWalk'.top = top /\ qwWalk'.seen = w.seen
      BY <3>1, <1>9 DEF Walks, top
    <3>6. ShowsTop(qwWalk')
      BY <3>4, <3>5, Zenon DEF ShowsTop, counts
    <3>7. /\ qwWalk' \in Walks
          /\ qwWalk'.kind = w.kind /\ qwWalk'.rev = w.rev /\ qwWalk'.since = w.since
          /\ qwWalk'.limit = w.limit /\ qwWalk'.offset = w.offset /\ qwWalk'.blocked = w.blocked
          /\ qwWalk'.first = w.first /\ qwWalk'.stop = w.stop /\ qwWalk'.start = w.start
      BY <3>4, <3>5, <1>9 DEF Walks
    <3>8. Cached
      BY <2>2, <3>5, <3>7, Zenon DEF Cached
    <3> QED
      BY <3>5, <3>6, <3>7, <3>8, <1>9
  <2> QED
    BY <1>10, <2>1, <2>2
<1>12. Paged(msgs, fresh, n)
  <2>1. qwWalk'.stop = stop /\ qwWalk'.start = start /\ qwWalk'.seen = qwWalk.seen \o SubSeq(fresh, 1, n)
    BY <1>6, <1>9, <1>11
  <2>2. PageDone(qwWalk, msgs, fresh, n, qwWalk'.stop)
    BY <1>6, <2>1, Zenon
  <2>3. qwWalk'.start = IF qwWalk'.stop = "open" THEN msgs[Len(msgs)] ELSE qwWalk.start
    BY <2>1, Zenon DEF start
  <2> QED
    BY <1>1, <1>3, <1>4, <1>9, <1>10, <1>11, <2>1, <2>2, <2>3, Zenon DEF Paged
<1> QED
  BY <1>11, <1>12

\* A walk's order is a strict order of all IDs.
LEMMA BeforeFacts ==
  ASSUME NEW w
  PROVE  /\ \A a \in Nat : ~Before(w, a, a)
         /\ \A a, b, c \in Nat : Before(w, a, b) /\ Before(w, b, c) => Before(w, a, c)
         /\ \A a, b \in Nat : ~(Before(w, a, b) /\ Before(w, b, a))
         /\ \A a, b \in Nat : a = b \/ Before(w, a, b) \/ Before(w, b, a)
BY DEF Before

\* Where the messages of a page and what it shows come from.
PageMet(msgs, fresh, n, s) ==
  /\ qwWalk.start \in Nat /\ qwLast \in Nat /\ 1..qwLast \subseteq Nat
  /\ Members(qwWalk.seen) \subseteq 1..qwLast /\ Members(s) \subseteq 1..qwLast /\ Ahead(qwWalk) \subseteq 1..qwLast
  /\ Members(qwWalk.seen) \subseteq Members(s) /\ \A k \in 1..n : k \in 1..Len(fresh) /\ fresh[k] \in Members(s)
  /\ \A x \in Members(s) : x \in Members(qwWalk.seen) \/ \E k \in 1..n : x = fresh[k]
  /\ \A k \in 1..Len(fresh) : fresh[k] \in Ahead(qwWalk) /\ fresh[k] \in Members(msgs)
  /\ Members(msgs) \subseteq Ahead(qwWalk)
  /\ Ahead(qwWalk) \subseteq qwStream
  /\ \A x \in qwStream : x \in Ahead(qwWalk) <=> x = qwWalk.start \/ Before(qwWalk, qwWalk.start, x)
  /\ \A i \in 1..Len(msgs) : msgs[i] \in Members(msgs)
  /\ Len(msgs) \in Nat /\ Len(fresh) \in Nat

\* Every page is of this kind.
LEMMA PageMeets ==
  ASSUME QWInv, NEW msgs, NEW fresh, NEW n, Paged(msgs, fresh, n)
  PROVE  PageMet(msgs, fresh, n, qwWalk'.seen) /\ Grown(qwWalk, fresh, n, qwWalk'.seen)
<1> DEFINE s == qwWalk'.seen
           w == qwWalk
<1>1. QWTypes /\ QWBounds
  BY DEF QWInv
<1>2. /\ w.start \in Nat /\ w.seen \in Seq(Nat) /\ qwLast \in Nat /\ 1..qwLast \subseteq Nat
      /\ qwStream \subseteq 1..qwLast /\ Members(w.seen) \subseteq 1..qwLast
  <2>1. w \in Walks /\ qwLast \in 0..QWIds
    BY <1>1 DEF QWTypes
  <2>2. w.start \in Nat /\ w.seen \in Seq(Nat)
    BY <2>1 DEF Walks
  <2>3. qwLast \in Nat
    BY <2>1, QWAssumption
  <2>4. 1..qwLast \subseteq Nat
    BY <2>3
  <2> QED
    BY <1>1, <2>2, <2>3, <2>4, Zenon DEF QWTypes, QWBounds
<1>3. PageOf(w, msgs) /\ FreshOf(w, msgs, fresh) /\ PageDone(w, msgs, fresh, n, qwWalk'.stop) /\ s = w.seen \o SubSeq(fresh, 1, n)
  BY DEF Paged
<1>4. Ahead(w) \subseteq qwStream /\ Ahead(w) \subseteq 1..qwLast
  BY <1>2 DEF Ahead
<1>5. /\ msgs \in Seq(Ahead(w)) /\ fresh \in Seq(Ahead(w))
      /\ Members(fresh) = (IF w.first THEN Members(msgs) ELSE Members(msgs) \ {w.start})
  BY <1>3 DEF PageOf, FreshOf
<1>6. Len(msgs) \in Nat /\ Len(fresh) \in Nat /\ \A k \in 1..Len(fresh) : fresh[k] \in Ahead(w) /\ fresh[k] \in Members(msgs)
  <2>1. \A k \in 1..Len(fresh) : fresh[k] \in Members(fresh)
    BY DEF Members
  <2> QED
    BY <1>5, <2>1
<1>7. fresh \in Seq(Nat)
  <2>1. fresh \in [1..Len(fresh) -> Nat]
    BY <1>2, <1>4, <1>5, <1>6
  <2> QED
    BY <1>6, <2>1
<1>8. Grown(w, fresh, n, s)
  BY <1>2, <1>3, <1>7, SeenAfter
<1>9. Members(msgs) \subseteq Ahead(w) /\ \A i \in 1..Len(msgs) : msgs[i] \in Members(msgs)
  BY <1>5 DEF Members
<1>10. \A x \in qwStream : x \in Ahead(w) <=> x = w.start \/ Before(w, w.start, x)
  <2> SUFFICES ASSUME NEW x \in qwStream PROVE x \in Ahead(w) <=> x = w.start \/ Before(w, w.start, x)
    OBVIOUS
  <2>1. x \in Nat /\ w.start \in Nat
    BY <1>2
  <2> QED
    BY <2>1 DEF Ahead, Before
<1> HIDE DEF s, w
<1>11. /\ n \in 0..Len(fresh)
       /\ \A i \in 1..Len(w.seen) : i \in 1..Len(s) /\ s[i] = w.seen[i]
       /\ \A i \in 1..n : Len(w.seen) + i \in 1..Len(s) /\ s[Len(w.seen) + i] = fresh[i]
       /\ \A i \in 1..Len(s) : i \in 1..Len(w.seen) \/ \E k \in 1..n : i = Len(w.seen) + k /\ s[i] = fresh[k]
  BY <1>8 DEF Grown
<1>12. Members(w.seen) \subseteq Members(s)
  BY <1>11 DEF Members
<1>13. \A k \in 1..n : k \in 1..Len(fresh) /\ fresh[k] \in Members(s)
  <2> SUFFICES ASSUME NEW k \in 1..n PROVE k \in 1..Len(fresh) /\ fresh[k] \in Members(s)
    OBVIOUS
  <2>1. k \in 1..Len(fresh)
    BY <1>6, <1>11
  <2>2. \E i \in 1..Len(s) : fresh[k] = s[i]
    BY <1>11, Zenon
  <2> QED
    BY <2>1, <2>2 DEF Members
<1>14. \A x \in Members(s) : x \in Members(w.seen) \/ \E k \in 1..n : x = fresh[k]
  <2> SUFFICES ASSUME NEW x \in Members(s) PROVE x \in Members(w.seen) \/ \E k \in 1..n : x = fresh[k]
    OBVIOUS
  <2>1. PICK i \in 1..Len(s) : x = s[i]
    BY DEF Members
  <2>2. CASE i \in 1..Len(w.seen)
    BY <1>11, <2>1, <2>2 DEF Members
  <2>3. CASE i \notin 1..Len(w.seen)
    BY <1>11, <2>1, <2>3, Zenon
  <2> QED
    BY <2>2, <2>3
<1>15. Members(s) \subseteq 1..qwLast
  <2> SUFFICES ASSUME NEW x \in Members(s) PROVE x \in 1..qwLast
    OBVIOUS
  <2>1. CASE x \in Members(w.seen)
    BY <1>2, <2>1 DEF w
  <2>2. CASE \E k \in 1..n : x = fresh[k]
    <3>1. PICK k \in 1..Len(fresh) : x = fresh[k]
      BY <1>13, <2>2, Zenon
    <3>2. x \in Ahead(w)
      BY <1>6, <3>1 DEF w
    <3> QED
      BY <1>4, <3>2 DEF w
  <2> QED
    BY <1>14, <2>1, <2>2
<1> QED
  BY <1>2, <1>4, <1>6, <1>8, <1>9, <1>10, <1>12, <1>13, <1>14, <1>15, Zenon DEF PageMet, s, w

\* A page's messages come after all that was shown before.
LEMMA PageOrdered ==
  ASSUME QWInv, NEW msgs, NEW fresh, NEW n, Paged(msgs, fresh, n)
  PROVE  QWOrdered'
<1> DEFINE s == qwWalk'.seen
           w == qwWalk
<1>1. PageMet(msgs, fresh, n, s) /\ Grown(w, fresh, n, s) /\ FreshOf(w, msgs, fresh) /\ Walking /\ qwWalk'.rev = w.rev
  BY PageMeets DEF Paged
<1>2. QWOrdered /\ QWGoing
  BY DEF QWInv
<1>3. PICK l \in Nat : l = Len(w.seen)
  BY DEF QWInv, QWTypes, Walks
<1>4. n \in Nat /\ \A i \in 1..n : i \in 1..Len(fresh)
  <2>1. Len(fresh) \in Nat /\ n \in 0..Len(fresh)
    BY <1>1 DEF Grown, PageMet
  <2> QED
    BY <2>1
<1>5. /\ \A i \in 1..l : s[i] = w.seen[i] /\ w.seen[i] \in Members(w.seen) /\ w.seen[i] \in Nat
      /\ \A k \in 1..n : s[l + k] = fresh[k] /\ fresh[k] \in Nat
      /\ \A i \in 1..Len(s) : i \in 1..l \/ \E k \in 1..n : i = l + k
  <2>1. \A i \in 1..l : w.seen[i] \in Members(w.seen)
    BY <1>3 DEF Members
  <2>2. \A i \in 1..l : s[i] = w.seen[i]
    BY <1>1, <1>3 DEF Grown
  <2>3. \A k \in 1..n : s[l + k] = fresh[k]
    BY <1>1, <1>3, Zenon DEF Grown
  <2>4. \A i \in 1..Len(s) : i \in 1..l \/ \E k \in 1..n : i = l + k
    BY <1>1, <1>3, Zenon DEF Grown
  <2>5. \A x \in Members(w.seen) : x \in Nat
    BY <1>1 DEF PageMet
  <2>6. \A k \in 1..n : fresh[k] \in Nat
    BY <1>1, <1>4 DEF PageMet
  <2> QED
    BY <2>1, <2>2, <2>3, <2>4, <2>5, <2>6, Zenon
<1>6. /\ \A i, j \in 1..l : i < j => Before(w, w.seen[i], w.seen[j])
      /\ \A i, j \in 1..n : i < j => Before(w, fresh[i], fresh[j])
  <2>1. \A i, j \in 1..l : i < j => Before(w, w.seen[i], w.seen[j])
    BY <1>2, <1>3, Zenon DEF QWOrdered
  <2>2. \A i, j \in 1..Len(fresh) : i < j => Before(w, fresh[i], fresh[j])
    BY <1>1 DEF FreshOf
  <2> QED
    BY <2>1, <2>2, <1>4, Zenon
<1>7. ASSUME NEW i \in 1..l, NEW k \in 1..n PROVE Before(w, w.seen[i], fresh[k])
  <2>1. ~w.first
    <3>1. ASSUME w.first PROVE FALSE
      <4>1. Members(w.seen) = {}
        BY <1>1, <1>2, <3>1 DEF QWGoing, Members
      <4> QED
        BY <1>5, <4>1, Zenon
    <3> QED
      BY <3>1
  <2>2. w.seen[i] = w.start \/ Before(w, w.seen[i], w.start)
    BY <1>1, <1>2, <1>5, Zenon DEF QWGoing
  <2>3. fresh[k] # w.start
    <3>1. fresh[k] \in Members(fresh)
      BY <1>4 DEF Members
    <3>2. Members(fresh) = Members(msgs) \ {w.start}
      BY <1>1, <2>1 DEF FreshOf
    <3> QED
      BY <3>1, <3>2
  <2>4. Before(w, w.start, fresh[k])
    <3>1. fresh[k] \in Ahead(w) /\ fresh[k] \in qwStream
      BY <1>1, <1>4 DEF PageMet
    <3> QED
      BY <1>1, <2>3, <3>1 DEF PageMet
  <2>5. w.start \in Nat /\ w.seen[i] \in Nat /\ fresh[k] \in Nat
    BY <1>1, <1>5 DEF PageMet
  <2> QED
    BY <2>2, <2>4, <2>5, BeforeFacts, Zenon
<1>8. \A i, j \in 1..Len(s) : i < j => Before(w, s[i], s[j])
  <2> SUFFICES ASSUME NEW i \in 1..Len(s), NEW j \in 1..Len(s), i < j PROVE Before(w, s[i], s[j])
    OBVIOUS
  <2>1. CASE i \in 1..l /\ j \in 1..l
    BY <1>5, <1>6, <2>1, Zenon
  <2>2. CASE i \in 1..l /\ j \notin 1..l
    <3>1. PICK k \in 1..n : j = l + k
      BY <1>5, <2>2, Zenon
    <3> QED
      BY <1>5, <1>7, <2>2, <3>1, Zenon
  <2>3. CASE i \notin 1..l
    <3>1. PICK k \in 1..n : i = l + k
      BY <1>5, <2>3, Zenon
    <3>2. j \notin 1..l
      BY <3>1, <1>4
    <3>3. PICK m \in 1..n : j = l + m
      BY <1>5, <3>2, Zenon
    <3>4. k < m
      BY <3>1, <3>3, <1>4
    <3> QED
      BY <1>5, <1>6, <3>1, <3>3, <3>4, Zenon
  <2> QED
    BY <2>1, <2>2, <2>3
<1> QED
  BY <1>1, <1>8, Zenon DEF QWOrdered, Before

\* A page that was shown whole leaves out nothing of what it passed.
LEMMA PageCovers ==
  ASSUME QWInv, NEW msgs, NEW fresh, NEW n, Paged(msgs, fresh, n), n = Len(fresh),
         NEW id \in qwHist.began \ qwHist.removed, id >= qwWalk.since
  PROVE  id \in Members(qwWalk'.seen) \/ (id \in Ahead(qwWalk) /\ id \notin Members(msgs))
<1> DEFINE w == qwWalk
<1>1. PageMet(msgs, fresh, n, w'.seen) /\ FreshOf(w, msgs, fresh) /\ Walking
  BY PageMeets DEF Paged
<1>2. id \in qwStream /\ (id \in Members(w.seen) \/ Before(w, w.start, id) \/ (w.first /\ id = w.start))
  BY <1>1 DEF QWInv, QWGoing
<1>3. CASE id \in Members(w.seen)
  BY <1>1, <1>3 DEF PageMet
<1>4. CASE id \notin Members(w.seen)
  <2>1. id \in Ahead(w)
    BY <1>1, <1>2, <1>4 DEF PageMet
  <2>2. CASE id \in Members(msgs)
    <3>1. w.first \/ id # w.start
      <4>1. w.start \in Nat
        BY <1>1 DEF PageMet
      <4>2. ~Before(w, w.start, w.start)
        BY <4>1, BeforeFacts
      <4> QED
        BY <4>2, <1>2, <1>4
    <3>2. id \in Members(fresh)
      BY <1>1, <2>2, <3>1 DEF FreshOf
    <3>3. PICK k \in 1..Len(fresh) : id = fresh[k]
      BY <3>2 DEF Members
    <3> QED
      BY <1>1, <3>3 DEF PageMet
  <2> QED
    BY <2>1, <2>2
<1> QED
  BY <1>3, <1>4

\* A walk that goes on is past its page.
LEMMA PageGoing ==
  ASSUME QWInv, NEW msgs, NEW fresh, NEW n, Paged(msgs, fresh, n)
  PROVE  QWGoing'
<1> SUFFICES ASSUME qwWalk'.stop = "open" PROVE QWGoing'
  BY DEF QWGoing, Walking
<1> DEFINE s == qwWalk'.seen
           w == qwWalk
           p == Len(msgs)
           last == msgs[p]
<1>1. /\ PageMet(msgs, fresh, n, s) /\ PageOf(w, msgs) /\ Walking
      /\ qwWalk'.rev = w.rev /\ qwWalk'.since = w.since /\ qwWalk'.first = FALSE /\ qwWalk'.start = last
      /\ qwStream' = qwStream /\ qwHist' = qwHist
  BY PageMeets DEF Paged
<1>2. n = Len(fresh) /\ p > QWPage
  BY DEF Paged, PageDone
<1>3. p \in Nat /\ p >= 1 /\ p \in 1..p
  BY <1>1, <1>2, QWAssumption DEF PageMet
<1>4. /\ last \in Members(msgs) /\ last \in Ahead(w) /\ last \in qwStream /\ last \in Nat /\ w.start \in Nat
      /\ last = w.start \/ Before(w, w.start, last)
  <2>1. last \in Members(msgs)
    BY <1>1, <1>3 DEF PageMet
  <2>2. last \in Ahead(w) /\ last \in qwStream /\ last \in Nat /\ w.start \in Nat
    BY <1>1, <2>1 DEF PageMet
  <2>3. last = w.start \/ Before(w, w.start, last)
    BY <1>1, <2>2, Zenon DEF PageMet
  <2> QED
    BY <2>1, <2>2, <2>3
<1>5. \A m \in Members(s) : m = last \/ Before(w, m, last)
  <2> SUFFICES ASSUME NEW m \in Members(s) PROVE m = last \/ Before(w, m, last)
    OBVIOUS
  <2>1. CASE m \in Members(w.seen)
    <3>1. m = w.start \/ Before(w, m, w.start)
      BY <1>1, <2>1 DEF QWInv, QWGoing
    <3>2. m \in Nat
      BY <1>1, <2>1 DEF PageMet
    <3> QED
      BY <3>1, <3>2, <1>4, BeforeFacts, Zenon
  <2>2. CASE m \notin Members(w.seen)
    <3>1. PICK k \in 1..n : m = fresh[k]
      BY <1>1, <2>2, Zenon DEF PageMet
    <3>2. m \in Members(msgs)
      BY <1>1, <3>1 DEF PageMet
    <3>3. PICK i \in 1..p : m = msgs[i]
      BY <3>2 DEF Members
    <3>4. i = p \/ i < p
      BY <1>3
    <3>5. i < p => Before(w, msgs[i], msgs[p])
      BY <1>1, <1>3 DEF PageOf
    <3> QED
      BY <3>3, <3>4, <3>5, Zenon
  <2> QED
    BY <2>1, <2>2
<1>6. \A id \in qwHist.began \ qwHist.removed : id >= w.since => id \in Members(s) \/ Before(w, last, id)
  <2> SUFFICES ASSUME NEW id \in qwHist.began \ qwHist.removed, id >= w.since, id \notin Members(s) PROVE Before(w, last, id)
    OBVIOUS
  <2>1. id \in Ahead(w) /\ id \notin Members(msgs)
    BY <1>2, PageCovers
  <2>2. \A i \in 1..Len(msgs) : Before(w, msgs[i], id)
    BY <1>1, <2>1 DEF PageOf
  <2> QED
    BY <1>3, <2>2
<1>7. /\ qwHist.began \ qwHist.removed \subseteq qwStream
      /\ qwHist.removed = {} /\ qwHist.added = {} => qwStream = qwHist.began
  BY <1>1 DEF QWInv, QWGoing
<1>8. \A m \in Members(qwWalk'.seen) : m = qwWalk'.start \/ Before(qwWalk', m, qwWalk'.start)
  BY <1>1, <1>5, Zenon DEF Before
<1>9. \A id \in qwHist'.began \ qwHist'.removed : id >= qwWalk'.since =>
        id \in Members(qwWalk'.seen) \/ Before(qwWalk', qwWalk'.start, id)
  BY <1>1, <1>6, Zenon DEF Before
<1> HIDE DEF s, w, last, p
<1>10. /\ qwHist'.began \ qwHist'.removed \subseteq qwStream'
       /\ qwHist'.removed = {} /\ qwHist'.added = {} => qwStream' = qwHist'.began
  BY <1>1, <1>7
<1>11. ~qwWalk'.first
  BY <1>1
<1> QED
  BY <1>8, <1>9, <1>10, <1>11, Zenon DEF QWGoing, Members, Before

\* A walk that ends has shown all that was there.
LEMMA PageEnded ==
  ASSUME QWInv, NEW msgs, NEW fresh, NEW n, Paged(msgs, fresh, n)
  PROVE  QWEnded'
<1> SUFFICES ASSUME qwWalk'.stop = "end", NEW id \in qwHist.began \ qwHist.removed, id >= qwWalk.since
             PROVE  id \in Members(qwWalk'.seen)
  <2>1. qwWalk'.since = qwWalk.since /\ qwHist' = qwHist
    BY DEF Paged
  <2> QED
    BY <2>1, Zenon DEF QWEnded, Finished, Members
<1>1. n = Len(fresh) /\ (fresh = <<>> \/ Len(msgs) <= QWPage)
  BY DEF Paged, PageDone
<1>2. Len(msgs) <= QWPage
  <2>1. fresh = <<>> => Len(msgs) <= 1
    BY DEF Paged, FreshOf
  <2>2. Len(msgs) \in Nat
    BY PageMeets DEF PageMet
  <2> QED
    BY <1>1, <2>1, <2>2, QWAssumption
<1>3. Members(msgs) = Ahead(qwWalk)
  BY <1>2 DEF Paged, PageOf
<1> QED
  BY <1>1, <1>3, PageCovers

\* A query that nothing disturbs shows the newest entries.
LEMMA PageNewest ==
  ASSUME QWInv, NEW msgs, NEW fresh, NEW n, Paged(msgs, fresh, n)
  PROVE  QWNewest'
<1> DEFINE s == qwWalk'.seen
           w == qwWalk
<1>1. /\ PageMet(msgs, fresh, n, s) /\ PageOf(w, msgs) /\ FreshOf(w, msgs, fresh) /\ Walking
      /\ qwWalk'.kind = w.kind /\ qwHist' = qwHist
  BY PageMeets DEF Paged
<1> SUFFICES ASSUME w.kind = "query", qwHist.removed = {}, qwHist.added = {}
             PROVE  /\ Members(s) \subseteq qwHist.began
                    /\ \A i \in qwHist.began, j \in Members(s) : i > j => i \in Members(s)
  BY <1>1, Zenon DEF QWNewest, Members
<1>2. /\ qwStream = qwHist.began /\ w.rev = TRUE /\ w.since = 0 /\ Members(w.seen) \subseteq qwHist.began
      /\ \A i \in qwHist.began, j \in Members(w.seen) : i > j => i \in Members(w.seen)
  BY <1>1 DEF QWInv, QWGoing, QWNewest, QWKinds
<1>3. \A a, b : Before(w, a, b) <=> a > b
  BY <1>2 DEF Before
<1>4. \A id \in qwStream : id \in Nat
  BY DEF QWInv, QWTypes
<1>5. \A id \in qwStream : id \in Members(w.seen) \/ w.start > id \/ (w.first /\ id = w.start)
  <2> SUFFICES ASSUME NEW id \in qwStream PROVE id \in Members(w.seen) \/ Before(w, w.start, id) \/ (w.first /\ id = w.start)
    BY <1>3
  <2>1. id \in qwHist.began \ qwHist.removed /\ id >= w.since
    BY <1>2, <1>4
  <2> QED
    BY <1>1, <2>1 DEF QWInv, QWGoing
<1>6. Members(s) \subseteq qwHist.began
  <2> SUFFICES ASSUME NEW x \in Members(s), x \notin Members(w.seen) PROVE x \in qwHist.began
    BY <1>2
  <2>1. PICK k \in 1..n : x = fresh[k]
    BY <1>1, Zenon DEF PageMet
  <2>2. x \in Ahead(w) /\ x \in qwStream
    BY <1>1, <2>1 DEF PageMet
  <2> QED
    BY <1>2, <2>2
<1>7. ASSUME NEW i \in qwHist.began, NEW j \in Members(s), i > j PROVE i \in Members(s)
  <2>0. i \in Nat /\ j \in Nat /\ w.start \in Nat /\ i \in qwStream /\ Members(w.seen) \subseteq Members(s)
    BY <1>1, <1>2, <1>4, <1>6 DEF PageMet
  <2>1. CASE j \in Members(w.seen)
    BY <1>2, <1>7, <2>0, <2>1
  <2>2. CASE i \in Members(w.seen)
    BY <2>0, <2>2
  <2>3. CASE j \notin Members(w.seen) /\ i \notin Members(w.seen)
    <3>1. PICK k \in 1..n : j = fresh[k]
      BY <1>1, <2>3, Zenon DEF PageMet
    <3>2. k \in 1..Len(fresh) /\ j \in Members(msgs)
      BY <1>1, <3>1 DEF PageMet
    <3>3. i \in Ahead(w) /\ (i = w.start => w.first)
      <4>1. w.start > i \/ (w.first /\ i = w.start)
        BY <1>5, <2>0, <2>3
      <4>2. i = w.start \/ Before(w, w.start, i)
        BY <4>1, <1>3
      <4>3. i \in Ahead(w)
        BY <4>2, <1>1, <2>0 DEF PageMet
      <4> QED
        BY <4>1, <4>3, <2>0
    <3>4. i \in Members(msgs)
      <4>1. CASE \A x \in 1..Len(msgs) : Before(w, msgs[x], i)
        <5>1. PICK x \in 1..Len(msgs) : j = msgs[x]
          BY <3>2 DEF Members
        <5>2. j > i
          BY <4>1, <5>1, <1>3
        <5> QED
          BY <5>2, <1>7, <2>0
      <4> QED
        BY <4>1, <3>3, <1>1 DEF PageOf
    <3>5. i \in Members(fresh)
      BY <3>3, <3>4, <1>1 DEF FreshOf
    <3>6. PICK m \in 1..Len(fresh) : i = fresh[m]
      BY <3>5 DEF Members
    <3>7. ~(k < m)
      <4>1. ASSUME k < m PROVE FALSE
        <5>1. Before(w, fresh[k], fresh[m])
          BY <4>1, <3>2, <1>1 DEF FreshOf
        <5>2. j > i
          BY <5>1, <1>3, <3>1, <3>6, Zenon
        <5> QED
          BY <5>2, <1>7, <2>0
      <4> QED
        BY <4>1
    <3>8. m \in 1..n
      <4>1. Len(fresh) \in Nat
        BY <1>1 DEF PageMet
      <4>2. n \in Int
        BY PageMeets, <4>1 DEF Grown
      <4> QED
        BY <3>7, <4>1, <4>2
    <3> QED
      BY <3>6, <3>8, <1>1 DEF PageMet
  <2> QED
    BY <2>1, <2>2, <2>3
<1> QED
  BY <1>6, <1>7

\* A page that fills the query's own page has what it asked for.
LEMMA PageFull ==
  ASSUME NEW msgs, NEW fresh, NEW n, Paged(msgs, fresh, n)
  PROVE  QWFull'
<1> SUFFICES ASSUME qwWalk'.stop = "full" PROVE Full(qwWalk', qwWalk'.seen)
  BY DEF QWFull, Finished, Full, Matching, Members, WalkOrder
<1>1. Full(qwWalk, qwWalk'.seen)
  BY Zenon DEF Paged, PageDone
<1>2. /\ qwWalk'.kind = qwWalk.kind /\ qwWalk'.rev = qwWalk.rev /\ qwWalk'.blocked = qwWalk.blocked
      /\ qwWalk'.limit = qwWalk.limit /\ qwWalk'.offset = qwWalk.offset
  BY DEF Paged
<1>3. WalkOrder(qwWalk') = WalkOrder(qwWalk)
  BY <1>2 DEF WalkOrder
<1>4. Matching(qwWalk', qwWalk'.seen) = Matching(qwWalk, qwWalk'.seen)
  BY <1>2, <1>3, Zenon DEF Matching
<1> QED
  BY <1>1, <1>2, <1>4, Zenon DEF Full

\* A page keeps all of it.
LEMMA PageKeeps == ASSUME QWInv, WalkPage PROVE QWInv'
<1>1. PICK msgs, fresh, n : Paged(msgs, fresh, n) /\ qwWalk' \in Walks /\ ShowsTop(qwWalk') /\ Cached
  BY PageShape
<1> DEFINE s == qwWalk'.seen
           w == qwWalk
<1>2. /\ PageMet(msgs, fresh, n, s) /\ Grown(w, fresh, n, s) /\ PageDone(w, msgs, fresh, n, qwWalk'.stop) /\ Walking
      /\ qwWalk'.kind = w.kind /\ qwWalk'.rev = w.rev /\ qwWalk'.since = w.since /\ qwWalk'.limit = w.limit
      /\ qwStream' = qwStream /\ qwLast' = qwLast /\ qwClear' = qwClear /\ qwHist' = qwHist
      /\ s = w.seen \o SubSeq(fresh, 1, n)
  BY <1>1, PageMeets DEF Paged
<1>3. QWOrdered' /\ QWGoing' /\ QWEnded' /\ QWNewest' /\ QWFull'
  BY <1>1, PageOrdered, PageGoing, PageEnded, PageNewest, PageFull
<1>4. TopIsStrongest'
  BY <1>1, TopShown
<1>5. QWTypes /\ QWKinds /\ QWBounds /\ QWCleared /\ ClearedNotServed
  BY DEF QWInv
<1>6. Members(s) \subseteq 1..qwLast /\ Members(s) \subseteq Nat /\ Len(s) <= QWScan
  BY <1>2 DEF PageMet, Grown
<1>7. \/ qwCache' = qwCache
      \/ /\ qwCache'.valid = TRUE /\ qwCache'.ids = Members(s) /\ qwCache'.crossed = qwHist.crossed
         /\ qwCache' \in [valid : BOOLEAN, ids : SUBSET Nat, since : Nat, crossed : BOOLEAN]
  <2>1. CASE qwCache' = qwCache
    BY <2>1
  <2>2. CASE qwCache' = [valid |-> TRUE, ids |-> Members(s), since |-> qwWalk'.since, crossed |-> qwHist.crossed]
    <3>1. qwWalk'.since \in Nat /\ qwHist.crossed \in BOOLEAN
      BY <1>1, <1>5 DEF QWTypes, Walks
    <3> HIDE DEF s
    <3> QED
      BY <2>2, <3>1, <1>6
  <2> QED
    BY <1>1, <2>1, <2>2 DEF Cached
<1>8. QWTypes'
  <2>1. qwCache' \in [valid : BOOLEAN, ids : SUBSET Nat, since : Nat, crossed : BOOLEAN]
    BY <1>5, <1>7 DEF QWTypes
  <2>2. /\ qwLast' \in 0..QWIds /\ qwStream' \subseteq 1..qwLast' /\ qwClear' \in BOOLEAN
        /\ qwHist' \in [walks : Nat, cleared : SUBSET Nat, began : SUBSET Nat, removed : SUBSET Nat, added : SUBSET Nat, crossed : BOOLEAN]
    BY <1>2, <1>5 DEF QWTypes
  <2> QED
    BY <1>1, <2>1, <2>2 DEF QWTypes
<1>9. QWKinds'
  BY <1>2, <1>5 DEF QWKinds, Walking
<1>10. QWBounds'
  <2>1. qwWalk'.stop = "open" => Len(s) < QWScan
    BY <1>2 DEF PageDone
  <2>2. qwCache'.ids \subseteq 1..qwLast
    BY <1>5, <1>6, <1>7 DEF QWBounds
  <2>3. QWBounds' <=> /\ Members(s) \subseteq 1..qwLast' /\ qwCache'.ids \subseteq 1..qwLast'
                      /\ qwHist'.cleared \subseteq 1..qwLast' /\ qwHist'.began \subseteq 1..qwLast'
                      /\ Len(s) <= QWScan /\ ((qwWalk'.kind /= "none" /\ qwWalk'.stop = "open") => Len(s) < QWScan)
    BY DEF QWBounds, Walking, Members
  <2> QED
    BY <1>2, <1>5, <1>6, <2>1, <2>2, <2>3 DEF QWBounds
<1>11. QWCleared' /\ ClearedNotServed'
  <2>1. ASSUME ~qwHist.crossed PROVE Members(s) \cap qwHist.cleared = {}
    <3>1. Members(w.seen) \cap qwHist.cleared = {} /\ qwHist.cleared \cap qwStream = {}
      BY <1>5, <2>1 DEF QWCleared
    <3>2. \A x \in Members(s) : x \in Members(w.seen) \/ x \in qwStream
      <4> SUFFICES ASSUME NEW x \in Members(s), x \notin Members(w.seen) PROVE x \in qwStream
        OBVIOUS
      <4>1. PICK k \in 1..n : x = fresh[k]
        BY <1>2, Zenon DEF PageMet
      <4> QED
        BY <1>2, <4>1 DEF PageMet
    <3> QED
      BY <3>1, <3>2
  <2>2. /\ qwHist.cleared \cap qwStream = {} /\ (qwClear => qwHist.crossed)
        /\ (qwClear => ~qwCache.valid \/ qwCache.crossed)
        /\ (qwCache.valid /\ ~qwCache.crossed => qwCache.ids \cap qwHist.cleared = {})
    BY <1>5 DEF QWCleared, ClearedNotServed
  <2>3. /\ qwClear => ~qwCache'.valid \/ qwCache'.crossed
        /\ qwCache'.valid /\ ~qwCache'.crossed => qwCache'.ids \cap qwHist.cleared = {}
    BY <1>7, <2>1, <2>2
  <2> QED
    BY <1>2, <2>1, <2>2, <2>3, Zenon DEF QWCleared, ClearedNotServed, Members
<1> QED
  BY <1>3, <1>4, <1>8, <1>9, <1>10, <1>11 DEF QWInv

\* Nothing changes for a reader while nothing moves.
LEMMA WalkStutters == ASSUME QWInv, UNCHANGED QWVars PROVE QWInv'
<1>1. /\ qwWalk' = qwWalk /\ qwStream' = qwStream /\ qwLast' = qwLast /\ qwCache' = qwCache /\ qwClear' = qwClear
      /\ qwHist' = qwHist
  BY DEF QWVars
<1>2. QWKinds' /\ QWOrdered' /\ QWFull' /\ TopIsStrongest' /\ (Walking' <=> Walking)
  BY <1>1, WalkKept
<1>3. QWTypes' /\ QWBounds'
  BY <1>1, <1>2 DEF QWInv, QWTypes, QWBounds, Members
<1>4. QWGoing' /\ QWEnded' /\ QWNewest'
  BY <1>1, <1>2 DEF QWInv, QWGoing, QWEnded, QWNewest, Finished, Members, Before
<1>5. QWCleared' /\ ClearedNotServed'
  BY <1>1 DEF QWInv, QWCleared, ClearedNotServed, Members
<1> QED
  BY <1>2, <1>3, <1>4, <1>5 DEF QWInv

\* Every step keeps the invariant.
LEMMA WalkStep == ASSUME QWInv, [QWNext]_QWVars PROVE QWInv'
<1>1. CASE StreamAppends
  BY <1>1, AppendKeeps
<1>2. CASE StreamTrims
  BY <1>2, TrimKeeps
<1>3. CASE ClearCaches
  BY <1>3, ClearCachesKeeps
<1>4. CASE ClearStream
  BY <1>4, ClearStreamKeeps
<1>5. CASE CacheExpires
  BY <1>5, ExpireKeeps
<1>6. CASE \E limit \in QWLimits, offset \in QWOffsets, b \in BOOLEAN : QueryBegins(limit, offset, b)
  BY <1>6, QueryBeginKeeps
<1>7. CASE \E since \in QWSinces : StatsBegins(since)
  BY <1>7, StatsBeginKeeps
<1>8. CASE WalkPage
  BY <1>8, PageKeeps
<1>9. CASE WalkFails
  BY <1>9, FailKeeps
<1>10. CASE UNCHANGED QWVars
  BY <1>10, WalkStutters
<1> QED
  BY <1>1, <1>2, <1>3, <1>4, <1>5, <1>6, <1>7, <1>8, <1>9, <1>10 DEF QWNext

\* The invariant is what readers of the log rely on.
LEMMA WalkImplies == ASSUME QWInv PROVE WalkSound
<1>1. QWTypes /\ QWKinds /\ QWBounds /\ QWOrdered /\ QWEnded /\ QWNewest /\ QWFull /\ TopIsStrongest /\ ClearedNotServed
  BY DEF QWInv
<1>2. QWTypeOK
  BY <1>1 DEF QWTypeOK, QWTypes, QWBounds
<1>3. WalkExact
  BY <1>1, Zenon DEF WalkExact, QWOrdered, QWEnded, Before
<1>4. QueryPageExact
  BY <1>1, PageIsExact
<1> QED
  BY <1>1, <1>2, <1>3, <1>4 DEF WalkSound

\* Whatever is appended, trimmed or cleared between the pages of a walk, a reader of the log sees each entry once and in
\* order and misses none that was there throughout; a query shows exactly its page, a top list the strongest names
\* whatever order the map is iterated in, and the statistics' cache nothing that was cleared.
THEOREM WalkHolds == QWSpec => []WalkSound
<1>1. QWInit => QWInv
  BY WalkInit
<1>2. QWInv /\ [QWNext]_QWVars => QWInv'
  BY WalkStep
<1>3. QWInv => WalkSound
  BY WalkImplies
<1> QED
  BY <1>1, <1>2, <1>3, PTL DEF QWSpec
=============================================================================
