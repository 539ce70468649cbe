------------------------------ MODULE L2Writer ------------------------------
(***************************************************************************)
(* The write-behind path to the L2 cache (internal/cache/cache.go):        *)
(* Set and SetNegative hand their Dragonfly write to enqueueL2, which      *)
(* queues it for one of the writer goroutines or, when that is impossible, *)
(* sends it itself; a writer commits what it has taken in pipelined        *)
(* batches; Close stops the writers after a last drain.                    *)
(*                                                                         *)
(* One writer shard is modelled: a question's writes all go to one shard   *)
(* (writeShard) and shards share nothing but wclosed and wdone.  A write   *)
(* is the number under which it was issued; KeyOf gives its cache key.     *)
(* Dragonfly is reached over the network: a SET or a pipeline may fail,    *)
(* and a failed pipeline may have been applied up to any point.            *)
(***************************************************************************)
EXTENDS Naturals, Sequences, SequencesExt, FiniteSets

CONSTANTS
  Keys,      \* cache keys of this shard
  Procs,     \* goroutines calling Set or SetNegative
  QueueCap,  \* writeQueueCap
  BatchSize, \* writeBatchSize
  MaxWrites, \* bound: number of writes issued
  NoWrite    \* the goroutine is not in enqueueL2 / the key is not in L2

ASSUME SizesAssumption ==
  /\ QueueCap \in Nat
  /\ BatchSize \in Nat \ {0}
  /\ MaxWrites \in Nat
ASSUME NoWriteAssumption == NoWrite \notin Nat

VARIABLES
  keyOf,   \* sequence: the key of each write issued so far
  pending, \* per goroutine: the write it is inside enqueueL2 with
  pc,      \* per goroutine: "idle", "call", "send" or "set"
  ch,      \* the shard's channel
  batch,   \* runWriter's batch
  writer,  \* runWriter: "select", "drain" or "exited"
  wclosed, \* Cache.wclosed
  wdone,   \* Cache.wdone is closed
  closer,  \* Close: "idle", "cas", "wait" or "closed"
  client,  \* the connection pool is open
  l2,      \* per key: the write Dragonfly holds
  applied, \* history: writes that reached Dragonfly
  failed,  \* history: writes whose SET or pipeline failed
  owed,    \* history: writes queued or batched when Close took effect
  crossing \* history: writes about to be sent when Close took effect

callers == <<keyOf, pending, pc>>
history == <<l2, applied, failed>>
closing == <<owed, crossing>>
vars == <<callers, ch, batch, writer, wclosed, wdone, closer, client, history, closing>>

Writes == 1 .. Len(keyOf)

\* Queue, batch, callers and shutdown flags are well formed (Cache,
\* runWriter).
TypeOK ==
  /\ keyOf \in Seq(Keys)
  /\ pending \in [Procs -> Writes \cup {NoWrite}]
  /\ pc \in [Procs -> {"idle", "call", "send", "set"}]
  /\ ch \in Seq(Writes)
  /\ batch \in Seq(Writes)
  /\ writer \in {"select", "drain", "exited"}
  /\ wclosed \in BOOLEAN
  /\ wdone \in BOOLEAN
  /\ closer \in {"idle", "cas", "wait", "closed"}
  /\ client \in BOOLEAN
  /\ l2 \in [Keys -> Writes \cup {NoWrite}]
  /\ applied \in SUBSET Writes
  /\ failed \in SUBSET Writes
  /\ owed \in SUBSET Writes
  /\ crossing \in SUBSET Writes

\* New and startWriter.
Init ==
  /\ keyOf = <<>>
  /\ pending = [p \in Procs |-> NoWrite]
  /\ pc = [p \in Procs |-> "idle"]
  /\ ch = <<>>
  /\ batch = <<>>
  /\ writer = "select"
  /\ wclosed = FALSE
  /\ wdone = FALSE
  /\ closer = "idle"
  /\ client = TRUE
  /\ l2 = [k \in Keys |-> NoWrite]
  /\ applied = {}
  /\ failed = {}
  /\ owed = {}
  /\ crossing = {}

-----------------------------------------------------------------------------
(* enqueueL2 *)

Call(p, k) ==
  /\ pc[p] = "idle"
  /\ Len(keyOf) < MaxWrites
  /\ keyOf' = Append(keyOf, k)
  /\ pending' = [pending EXCEPT ![p] = Len(keyOf) + 1]
  /\ pc' = [pc EXCEPT ![p] = "call"]
  /\ UNCHANGED <<ch, batch, writer, wclosed, wdone, closer, client, history, closing>>

\* Mutant: the channel is used whatever wclosed says.
CheckNothing(p) ==
  /\ pc[p] = "call"
  /\ pc' = [pc EXCEPT ![p] = "send"]
  /\ UNCHANGED <<keyOf, pending, ch, batch, writer, wclosed, wdone, closer, client,
                 history, closing>>

\* wclosed.Load() chooses between the channel and a synchronous SET.
CheckClosed(p) ==
  /\ pc[p] = "call"
  /\ pc' = [pc EXCEPT ![p] = IF wclosed THEN "set" ELSE "send"]
  /\ UNCHANGED <<keyOf, pending, ch, batch, writer, wclosed, wdone, closer, client,
                 history, closing>>

Return(p) ==
  /\ pending' = [pending EXCEPT ![p] = NoWrite]
  /\ pc' = [pc EXCEPT ![p] = "idle"]
  /\ UNCHANGED keyOf

\* The non-blocking send.
Send(p) ==
  /\ pc[p] = "send"
  /\ Len(ch) < QueueCap
  /\ ch' = Append(ch, pending[p])
  /\ Return(p)
  /\ UNCHANGED <<batch, writer, wclosed, wdone, closer, client, history, closing>>

SendFull(p) ==
  /\ pc[p] = "send"
  /\ Len(ch) >= QueueCap
  /\ pc' = [pc EXCEPT ![p] = "set"]
  /\ UNCHANGED <<keyOf, pending, ch, batch, writer, wclosed, wdone, closer, client,
                 history, closing>>

\* The writes ws reach Dragonfly, in order: the last one of a key stays.
Apply(ws) ==
  /\ l2' \in [Keys -> Writes \cup {NoWrite}]
  /\ \A k \in Keys :
       \/ /\ \A i \in DOMAIN ws : keyOf[ws[i]] # k
          /\ l2'[k] = l2[k]
       \/ \E i \in DOMAIN ws :
            /\ keyOf[ws[i]] = k
            /\ \A j \in DOMAIN ws : j > i => keyOf[ws[j]] # k
            /\ l2'[k] = ws[i]
  /\ applied' = applied \cup ToSet(ws)

\* The synchronous SET; its result is not looked at.
SetSync(p) ==
  /\ pc[p] = "set"
  /\ \/ /\ client
        /\ Apply(<<pending[p]>>)
        /\ failed' = failed
     \/ /\ failed' = failed \cup {pending[p]}
        /\ UNCHANGED <<l2, applied>>
  /\ Return(p)
  /\ UNCHANGED <<ch, batch, writer, wclosed, wdone, closer, client, closing>>

-----------------------------------------------------------------------------
(* runWriter *)

\* flush and writeBatchL2: one pipelined round trip.  A failure loses the
\* part of the batch that was not applied; either way the batch is reset.
FlushBatch(b) ==
  /\ \E n \in 0 .. Len(b) :
        /\ n > 0 => client
        /\ Apply(SubSeq(b, 1, n))
        /\ failed' = failed \cup ToSet(SubSeq(b, n + 1, Len(b)))
  /\ batch' = <<>>

\* case w := <-ch, in the main loop and in the drain loop.
Take ==
  LET b == Append(batch, Head(ch)) IN
  /\ writer \in {"select", "drain"}
  /\ ch # <<>>
  /\ ch' = Tail(ch)
  /\ IF Len(b) >= BatchSize
       THEN FlushBatch(b)
       ELSE batch' = b /\ UNCHANGED history
  /\ UNCHANGED <<callers, writer, wclosed, wdone, closer, client, closing>>

\* case <-ticker.C
TickFlush ==
  /\ writer = "select"
  /\ batch # <<>>
  /\ FlushBatch(batch)
  /\ UNCHANGED <<callers, ch, writer, wclosed, wdone, closer, client, closing>>

\* case <-c.wdone
SeeDone ==
  /\ writer = "select"
  /\ wdone
  /\ writer' = "drain"
  /\ UNCHANGED <<callers, ch, batch, wclosed, wdone, closer, client, history, closing>>

\* The drain loop's default case.
Exit ==
  /\ writer = "drain"
  /\ ch = <<>>
  /\ IF batch # <<>> THEN FlushBatch(batch) ELSE UNCHANGED <<batch, history>>
  /\ writer' = "exited"
  /\ UNCHANGED <<callers, ch, wclosed, wdone, closer, client, closing>>

Writer == Take \/ TickFlush \/ SeeDone \/ Exit

-----------------------------------------------------------------------------
(* Close *)

CloseCAS ==
  /\ closer = "idle"
  /\ wclosed' = TRUE
  /\ owed' = ToSet(ch) \cup ToSet(batch)
  /\ crossing' = {pending[p] : p \in {x \in Procs : pc[x] = "send"}}
  /\ closer' = "cas"
  /\ UNCHANGED <<callers, ch, batch, writer, wdone, client, history>>

\* Mutant: wdone is never closed.
CloseSilent ==
  /\ closer = "cas"
  /\ closer' = "wait"
  /\ UNCHANGED <<callers, ch, batch, writer, wclosed, wdone, client, history, closing>>

CloseSignal ==
  /\ closer = "cas"
  /\ wdone' = TRUE
  /\ closer' = "wait"
  /\ UNCHANGED <<callers, ch, batch, writer, wclosed, client, history, closing>>

\* wwg.Wait() returns, then client.Close().  A Close called again later finds
\* wclosed set and only closes the client again.
CloseClient ==
  /\ closer = "wait"
  /\ writer = "exited"
  /\ client' = FALSE
  /\ closer' = "closed"
  /\ UNCHANGED <<callers, ch, batch, writer, wclosed, wdone, history, closing>>

Close == CloseSignal \/ CloseClient

-----------------------------------------------------------------------------

Enqueue(p) ==
  \/ \E k \in Keys : Call(p, k)
  \/ CheckClosed(p)
  \/ Send(p)
  \/ SendFull(p)
  \/ SetSync(p)

Next == (\E p \in Procs : Enqueue(p)) \/ Writer \/ CloseCAS \/ Close

Spec == Init /\ [][Next]_vars

\* The writer goroutine and a Close that has begun are scheduled: every
\* blocking call they make is bounded (writeFlushTimeout) or waits for the
\* writer.  Whether Close is called at all, and whether callers go on, is open.
FairSpec == Spec /\ WF_vars(Writer) /\ WF_vars(Close)

-----------------------------------------------------------------------------
(* Properties *)

\* Where a write that was issued can be while it is not lost.  A channel
\* keeps a write only as long as its writer has not exited.
Accounted(w) ==
  \/ \E p \in Procs : pending[p] = w
  \/ writer # "exited" /\ w \in ToSet(ch)
  \/ w \in ToSet(batch)
  \/ w \in applied
  \/ w \in failed

\* No write disappears between enqueueL2, the channel, the batch and
\* Dragonfly, but for one case: enqueueL2 loads wclosed and sends in two
\* steps, and a caller that Close finds between them may still send after
\* the writer has drained its channel and exited.
NoWriteVanishes == \A w \in Writes : Accounted(w) \/ w \in crossing

\* What the comments promise: batching "must never lose an entry"
\* (enqueueL2), and a caller racing Close falls back to a synchronous SET
\* "instead of sending on a channel the writer has stopped draining" (Close).
\* The write of a caller Close finds between the check and the send breaks it.
NoEntryLost == \A w \in Writes : Accounted(w)

\* Every write that was queued or batched when Close took effect has been
\* committed, or tried and failed, before the writer exits (Close, runWriter).
CloseCommitsQueue == writer = "exited" => owed \subseteq applied \cup failed

\* The connections outlive the writer: the last flush of a Close never meets
\* a client that Close itself has closed.
ClientOutlivesWriter == ~client => writer = "exited" /\ batch = <<>>

\* Close returns: the writer sees wdone, drains its queue and exits, also
\* when callers that passed the wclosed check still send.
CloseReturns == (closer # "idle") ~> (closer = "closed")

\* A queued write is committed or tried within a few writer steps: it does
\* not sit in the queue or the batch of a running writer for ever.
QueuedCommitted ==
  \A w \in 1 .. MaxWrites :
     (w \in ToSet(ch) \cup ToSet(batch) /\ closer = "idle")
        ~> (w \in applied \cup failed)

(* The write-behind queue as a whole: well formed, no write lost but those *)
(* of callers Close found about to send, what was queued before Close      *)
(* committed, and the client closed after the writer (enqueueL2,           *)
(* runWriter, Close).                                                      *)
WriterSound ==
  /\ TypeOK
  /\ NoWriteVanishes
  /\ CloseCommitsQueue
  /\ ClientOutlivesWriter

(* The writer never stalls: every queued write is settled, and a Close     *)
(* that began returns (runWriter, Close).                                  *)
WriterProgress == QueuedCommitted /\ CloseReturns
=============================================================================
