------------------------------- MODULE QueryLog -------------------------------
(***************************************************************************)
(* The query log (querylog.go) and its rolling aggregate (rolling.go): a   *)
(* bounded queue that drops, one writer that flushes batches to a          *)
(* Dragonfly stream and then folds them into hour slots, the dashboard's   *)
(* Clear, the paged walks of the stream, Close, crashes and restarts.      *)
(***************************************************************************)
EXTENDS Integers, Sequences, FiniteSets

CONSTANTS
  QLQueue,     (* logQueueCap                                               *)
  QLBatch,     (* batchSize                                                 *)
  QLMaxLen,    (* maxStreamEntries                                          *)
  QLWindow,    (* aggSlots: hours in the window (24 in the code)            *)
  QLDay,       (* hours in a day (24: the window is no shorter)             *)
  QLHours,     (* bound: the clock                                          *)
  QLRecords,   (* bound: queries recorded                                   *)
  QLClears     (* bound: Clear and crashes                                  *)

ASSUME QLAssumption ==
  /\ {QLQueue, QLBatch, QLMaxLen, QLWindow, QLDay} \subseteq Nat \ {0}
  /\ QLDay <= QLWindow
  /\ QLHours \in Nat /\ QLRecords \in Nat /\ QLClears \in Nat

VARIABLES
  qlNow,      (* the hour                                                   *)
  qlQueue,    (* l.entries                                                  *)
  qlLate,     (* a Record that found the log open and has not yet sent      *)
  qlBatch,    (* the writer's batch                                         *)
  qlFold,     (* entries flushed and not yet folded into the aggregate      *)
  qlStream,   (* the stream: entries in ID order                            *)
  qlAgg,      (* rollingAgg                                                 *)
  qlWriter,   (* "run", "drain" (l.done seen) or "exit"                     *)
  qlClosed,   (* l.closed, and l.done closed                                *)
  qlClear,    (* a Clear that has reset the aggregate and not deleted yet   *)
  qlHist      (* history: entries recorded, what interfered                 *)

QLVars == <<qlNow, qlQueue, qlLate, qlBatch, qlFold, qlStream, qlAgg, qlWriter,
            qlClosed, qlClear, qlHist>>

QLLastHour == QLWindow + QLHours + 1
QLHourSet == 1..QLLastHour
NoLogEntry == [id |-> 0, hour |-> 0, blocked |-> FALSE]
DayOf(h) == h \div QLDay
NoDay == -1
EmptyAgg == [base |-> 0, slots |-> [h \in QLHourSet |-> 0], blockedIn |-> [h \in QLHourSet |-> 0],
             total |-> 0, blocked |-> 0, day |-> NoDay, today |-> 0]

QLInit ==
  /\ qlNow = QLWindow + 1
  /\ qlQueue = <<>> /\ qlLate = NoLogEntry /\ qlBatch = <<>> /\ qlFold = <<>> /\ qlStream = <<>>
  /\ qlAgg = EmptyAgg
  /\ qlWriter = "run" /\ qlClosed = FALSE /\ qlClear = FALSE
  /\ qlHist = [recorded |-> 0, clears |-> 0, mixed |-> FALSE, overlap |-> {}]

-----------------------------------------------------------------------------
(* rollingAgg                                                              *)
SumOver(f, S) ==
  LET sum[h \in 0..QLLastHour] == IF h = 0 THEN 0 ELSE sum[h - 1] + (IF h \in S THEN f[h] ELSE 0)
  IN sum[QLLastHour]
InWindow(base) == base..(base + QLWindow - 1)

(* rollToLocked: the window moves to end at hour; what leaves is           *)
(* subtracted from the running totals (subtractSlotLocked).                *)
RollTo(a, hour) ==
  IF a.base = 0 THEN [a EXCEPT !.base = hour - QLWindow + 1]
  ELSE LET base == hour - QLWindow + 1
           gone == InWindow(a.base) \ InWindow(base)
       IN [a EXCEPT !.base = base,
                    !.slots = [h \in QLHourSet |-> IF h \in gone THEN 0 ELSE @[h]],
                    !.blockedIn = [h \in QLHourSet |-> IF h \in gone THEN 0 ELSE @[h]],
                    !.total = @ - SumOver(a.slots, gone),
                    !.blocked = @ - SumOver(a.blockedIn, gone)]

(* The today counters: reset when an entry crosses midnight.               *)
TodayAdded(a, e) ==
  IF DayOf(e.hour) >= a.day + 1 THEN [a EXCEPT !.day = DayOf(e.hour), !.today = 1]
  ELSE IF DayOf(e.hour) >= a.day THEN [a EXCEPT !.today = @ + 1] ELSE a

(* addLocked                                                               *)
Added(a, e) ==
  LET t == TodayAdded(a, e)
      r == IF t.base = 0 \/ e.hour > t.base + QLWindow - 1 THEN RollTo(t, e.hour) ELSE t
  IN IF e.hour < r.base THEN r
     ELSE [r EXCEPT !.slots[e.hour] = @ + 1, !.total = @ + 1,
                    !.blockedIn[e.hour] = IF e.blocked THEN @ + 1 ELSE @,
                    !.blocked = IF e.blocked THEN @ + 1 ELSE @]

(* resetTodayIfNeeded, called by every dashboard poll                      *)
PollStats ==
  /\ qlAgg.day /= NoDay /\ DayOf(qlNow) > qlAgg.day
  /\ qlAgg' = [qlAgg EXCEPT !.day = DayOf(qlNow), !.today = 0]
  /\ UNCHANGED <<qlNow, qlQueue, qlLate, qlBatch, qlFold, qlStream, qlWriter, qlClosed, qlClear, qlHist>>

-----------------------------------------------------------------------------
QLTick ==
  /\ qlNow < QLWindow + 1 + QLHours
  /\ qlNow' = qlNow + 1
  /\ UNCHANGED <<qlQueue, qlLate, qlBatch, qlFold, qlStream, qlAgg, qlWriter, qlClosed, qlClear, qlHist>>

(* Record: the log is open (checked here); the entry's time was taken when *)
(* the query began, and every other one was blocked.                       *)
RecordBegins(hour) ==
  /\ ~qlClosed /\ qlLate = NoLogEntry /\ qlHist.recorded < QLRecords
  /\ hour \in {qlNow, qlNow - 1}
  /\ qlLate' = [id |-> qlHist.recorded + 1, hour |-> hour,
                blocked |-> qlHist.recorded % 2 = 0]
  /\ qlHist' = [qlHist EXCEPT !.recorded = @ + 1]
  /\ UNCHANGED <<qlNow, qlQueue, qlBatch, qlFold, qlStream, qlAgg, qlWriter, qlClosed, qlClear>>

(* ... and it is queued, or dropped when the queue is full.                *)
RecordSends ==
  /\ qlLate /= NoLogEntry
  /\ qlQueue' = IF Len(qlQueue) < QLQueue THEN Append(qlQueue, qlLate) ELSE qlQueue
  /\ qlHist' = [qlHist EXCEPT !.overlap = IF qlClosed THEN @ \cup {qlLate.id} ELSE @]
  /\ qlLate' = NoLogEntry
  /\ UNCHANGED <<qlNow, qlBatch, qlFold, qlStream, qlAgg, qlWriter, qlClosed, qlClear>>

Working == qlWriter \in {"run", "drain"} /\ qlFold = <<>>

(* runWriter: an entry joins the batch ...                                 *)
WriterTakes ==
  /\ Working /\ qlQueue /= <<>> /\ Len(qlBatch) < QLBatch
  /\ qlBatch' = Append(qlBatch, Head(qlQueue)) /\ qlQueue' = Tail(qlQueue)
  /\ UNCHANGED <<qlNow, qlLate, qlFold, qlStream, qlAgg, qlWriter, qlClosed, qlClear, qlHist>>

(* When the writer flushes: on a full batch, on its ticker, and when it    *)
(* has drained the queue after l.done.                                     *)
FlushDue == Working /\ qlBatch /= <<>>
Trimmed(s) == SubSeq(s, (IF Len(s) > QLMaxLen THEN Len(s) - QLMaxLen ELSE 0) + 1, Len(s))

(* writeBatch: XADD of every entry and the trim, in one pipeline, and the  *)
(* batch is to be folded into the aggregate.                               *)
FlushOK ==
  /\ FlushDue
  /\ qlStream' = Trimmed(qlStream \o qlBatch)
  /\ qlFold' = qlBatch /\ qlBatch' = <<>>
  /\ qlHist' = [qlHist EXCEPT !.mixed = @ \/ qlStream' /= qlStream \o qlBatch]
  /\ UNCHANGED <<qlNow, qlQueue, qlLate, qlAgg, qlWriter, qlClosed, qlClear>>

(* Mutant: a failed flush is folded as well.                               *)
FlushFailsFolds(landed) ==
  /\ FlushDue /\ landed \in 0..Len(qlBatch)
  /\ qlStream' = Trimmed(qlStream \o SubSeq(qlBatch, 1, landed))
  /\ qlFold' = qlBatch /\ qlBatch' = <<>>
  /\ qlHist' = [qlHist EXCEPT !.mixed = @ \/ landed > 0]
  /\ UNCHANGED <<qlNow, qlQueue, qlLate, qlAgg, qlWriter, qlClosed, qlClear>>

(* The pipeline fails: the entries are dropped, though the server may have *)
(* executed some of them before the connection broke.                      *)
FlushFails(landed) ==
  /\ FlushDue /\ landed \in 0..Len(qlBatch)
  /\ qlStream' = Trimmed(qlStream \o SubSeq(qlBatch, 1, landed))
  /\ qlBatch' = <<>>
  /\ qlHist' = [qlHist EXCEPT !.mixed = @ \/ landed > 0]
  /\ UNCHANGED <<qlNow, qlQueue, qlLate, qlFold, qlAgg, qlWriter, qlClosed, qlClear>>

(* agg.add, entry by entry, each under the aggregate's own lock            *)
FoldOne ==
  /\ qlFold /= <<>>
  /\ qlAgg' = Added(qlAgg, Head(qlFold))
  /\ qlFold' = Tail(qlFold)
  /\ UNCHANGED <<qlNow, qlQueue, qlLate, qlBatch, qlStream, qlWriter, qlClosed, qlClear, qlHist>>

-----------------------------------------------------------------------------
(* Clear: the aggregate is reset, then the stream deleted (Del may fail).  *)
ClearResets ==
  /\ ~qlClear /\ qlHist.clears < QLClears /\ ~qlClosed
  /\ qlAgg' = EmptyAgg /\ qlClear' = TRUE
  /\ qlHist' = [qlHist EXCEPT !.clears = @ + 1, !.mixed = @ \/ qlFold /= <<>>]
  /\ UNCHANGED <<qlNow, qlQueue, qlLate, qlBatch, qlFold, qlStream, qlWriter, qlClosed>>
ClearDeletes(ok) ==
  /\ qlClear
  /\ qlStream' = IF ok THEN <<>> ELSE qlStream
  /\ qlClear' = FALSE
  /\ qlHist' = [qlHist EXCEPT !.mixed = @ \/ ~ok \/ qlFold /= <<>> \/ qlAgg /= EmptyAgg]
  /\ UNCHANGED <<qlNow, qlQueue, qlLate, qlBatch, qlFold, qlAgg, qlWriter, qlClosed>>

(* Close: closed is set and l.done closed; it then waits for the writer.   *)
CloseLog ==
  /\ ~qlClosed
  /\ qlClosed' = TRUE
  /\ UNCHANGED <<qlNow, qlQueue, qlLate, qlBatch, qlFold, qlStream, qlAgg, qlWriter, qlClear, qlHist>>

WriterSeesDone ==
  /\ qlWriter = "run" /\ qlClosed /\ qlFold = <<>>
  /\ qlWriter' = "drain"
  /\ UNCHANGED <<qlNow, qlQueue, qlLate, qlBatch, qlFold, qlStream, qlAgg, qlClosed, qlClear, qlHist>>

WriterExits ==
  /\ qlWriter = "drain" /\ qlFold = <<>> /\ qlBatch = <<>> /\ qlQueue = <<>>
  /\ qlWriter' = "exit"
  /\ UNCHANGED <<qlNow, qlQueue, qlLate, qlBatch, qlFold, qlStream, qlAgg, qlClosed, qlClear, qlHist>>

(* seedAggregate: entries from..to of stream s are added in ID order.      *)
Seeded(s, from, to) ==
  LET agg[n \in 0..to] == IF n < from THEN EmptyAgg ELSE Added(agg[n - 1], s[n])
  IN agg[to]

(* The process dies with what it had queued and starts again: New seeds    *)
(* the aggregate before the writer runs, from the oldest entry whose ID is *)
(* within the last 25 hours (an entry is written after its own time) up to *)
(* the newest, or less when the walk fails or reaches maxStatsScan.        *)
CrashAndSeed(from, to) ==
  /\ qlHist.clears < QLClears /\ ~qlClosed
  /\ from \in 1..(Len(qlStream) + 1) /\ to \in (from - 1)..Len(qlStream)
  /\ \A i \in 1..(from - 1) : qlStream[i].hour < qlNow - QLWindow
  /\ qlQueue' = <<>> /\ qlBatch' = <<>> /\ qlFold' = <<>> /\ qlLate' = NoLogEntry
  /\ qlClear' = FALSE
  /\ qlAgg' = Seeded(qlStream, from, to)
  /\ qlHist' = [qlHist EXCEPT !.clears = @ + 1, !.mixed = to < Len(qlStream)]
  /\ UNCHANGED <<qlNow, qlStream, qlWriter, qlClosed>>

QLNext ==
  \/ QLTick \/ RecordSends \/ WriterTakes \/ FlushOK \/ FoldOne
  \/ \E h \in {qlNow, qlNow - 1} : RecordBegins(h)
  \/ \E n \in 0..QLBatch : FlushFails(n)
  \/ PollStats \/ ClearResets \/ (\E ok \in BOOLEAN : ClearDeletes(ok))
  \/ CloseLog \/ WriterSeesDone \/ WriterExits
  \/ \E from \in 1..(Len(qlStream) + 1) : \E to \in (from - 1)..Len(qlStream) : CrashAndSeed(from, to)

QLSpec == QLInit /\ [][QLNext]_QLVars

(* The writer goroutine runs on; each flush has a five-second timeout.     *)
QLFairSpec == QLSpec /\ WF_QLVars(WriterTakes \/ FoldOne) /\ WF_QLVars(WriterSeesDone)
                     /\ WF_QLVars(FlushOK \/ (\E n \in 0..QLBatch : FlushFails(n)))
                     /\ WF_QLVars(WriterExits)

-----------------------------------------------------------------------------
(* Queue, batch and stream stay within their limits and no hour slot       *)
(* counts more blocked entries than entries (Log, flush, agg.fold).        *)
QLTypeOK ==
  /\ Len(qlQueue) <= QLQueue /\ Len(qlBatch) <= QLBatch /\ Len(qlStream) <= QLMaxLen
  /\ qlAgg.total \in 0..(2 * QLRecords) /\ qlAgg.blocked \in 0..qlAgg.total
  /\ \A h \in QLHourSet : qlAgg.slots[h] \in Nat /\ qlAgg.blockedIn[h] \in 0..qlAgg.slots[h]

(* The running 24-hour totals are the exact sums of the slots, whatever    *)
(* order entries come in and however far the window rolls at once.         *)
TotalsAreSlotSums ==
  /\ qlAgg.total = SumOver(qlAgg.slots, QLHourSet)
  /\ qlAgg.blocked = SumOver(qlAgg.blockedIn, QLHourSet)

(* The aggregate is the stream's: unless a Clear crossed a flush, a failed *)
(* flush had landed, the stream was trimmed or the seed stopped early,     *)
(* every slot of the window counts the stream's entries of that hour, and  *)
(* today's counter those since midnight, restarts included (the comment in *)
(* writeBatch).                                                            *)
AggregateIsStream ==
  ~qlHist.mixed /\ qlFold = <<>> /\ ~qlClear /\ qlAgg.base /= 0 =>
    /\ \A h \in InWindow(qlAgg.base) :
         h >= qlNow - QLWindow + 1 =>
           qlAgg.slots[h] = Cardinality({i \in 1..Len(qlStream) : qlStream[i].hour = h})
    /\ qlAgg.day = DayOf(qlNow) =>
         qlAgg.today = Cardinality({i \in 1..Len(qlStream) : DayOf(qlStream[i].hour) = qlAgg.day
                                                            /\ qlStream[i].hour > qlNow - QLDay})

(* When Close returns, nothing recorded before it is left behind: only a   *)
(* Record that was between its check and its send while Close ran.         *)
ClosedMeansDrained ==
  qlWriter = "exit" => \A i \in 1..Len(qlQueue) : qlQueue[i].id \in qlHist.overlap

(* Close returns.                                                          *)
LogCloseReturns == qlClosed ~> (qlWriter = "exit")

(* The query log as a whole: the totals are the slots' sums, the slots     *)
(* count what the stream holds, and Close leaves nothing behind (Record,   *)
(* writeBatch, fold, Clear, Close).                                        *)
LogSound ==
  /\ QLTypeOK
  /\ TotalsAreSlotSums
  /\ AggregateIsStream
  /\ ClosedMeansDrained
=============================================================================
