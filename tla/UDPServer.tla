------------------------------ MODULE UDPServer ------------------------------
(***************************************************************************)
(* The plain-UDP listener (internal/dnsserver/udp_server.go): a read loop  *)
(* that fills a batch of pooled buffers and hands each datagram to a       *)
(* bounded job queue without ever blocking, a fixed pool of workers, and a *)
(* single batch writer the workers wait on for the result of their reply.  *)
(* Serve winds the three down in order; Shutdown waits for it, bounded.    *)
(*                                                                         *)
(* A datagram is reduced to what the code tells apart: "short" (below the  *)
(* DNS header length), "garbled" (does not unpack), "query", and "flaky"   *)
(* (a query whose source address the kernel refuses to send to).           *)
(***************************************************************************)
EXTENDS Integers, Sequences, FiniteSets

CONSTANTS
  UDPWorkers,      (* the handler workers of one socket                    *)
  UDPQueue,        (* capacity of jobs and of writes (workers * 4)         *)
  UDPBatch,        (* datagrams per recvmmsg and replies per sendmmsg      *)
  UDPDatagrams     (* bound: datagrams the network delivers                *)

(* newUDPServer starts one worker at least.                                *)
ASSUME UDPAssumption ==
  /\ IsFiniteSet(UDPWorkers) /\ UDPWorkers /= {}
  /\ UDPQueue \in Nat \ {0}
  /\ UDPBatch \in Nat \ {0}
  /\ UDPDatagrams \in Nat

VARIABLES
  usReader,   (* read loop: program counter, the batch read, slot buffers  *)
  usJobs,     (* the job queue and whether it was closed                   *)
  usWork,     (* per worker: program counter, datagram kind, read buffer   *)
  usRes,      (* per worker: result channel of its write request           *)
  usWrites,   (* the write queue, the writer's batch, whether it was closed*)
  usPool,     (* read buffers in the pool, and how many were ever made     *)
  usStats,    (* UDPReceived, UDPInvalid, UDPQueueDrops, UDPCompleted      *)
  usLife      (* closed flag, finished channel, socket, Shutdown's progress*)

UDPVars == <<usReader, usJobs, usWork, usRes, usWrites, usPool, usStats, usLife>>

UDPKinds == {"short", "garbled", "query", "flaky"}
UDPSlots == 1..UDPBatch
UDPBuffers == 1..(UDPBatch + UDPQueue + Cardinality(UDPWorkers) + 1)
NoBuf == 0

(* Put and Get of the buffer pool: Get makes a new buffer when it is empty. *)
PoolPut(p, b) == [p EXCEPT !.free = @ \cup {b}]
PoolPick(p) == IF p.free = {} THEN p.made + 1
                              ELSE CHOOSE b \in p.free : \A c \in p.free : b <= c
PoolTake(p) == IF p.free = {} THEN [p EXCEPT !.made = @ + 1]
                              ELSE [p EXCEPT !.free = @ \ {PoolPick(p)}]

(* newUDPServer and the start of Serve: workers idle, writer running, one  *)
(* pooled buffer behind each slot of the read batch.                       *)
UDPInit ==
  /\ usReader = [pc |-> "read", batch |-> <<>>, buf |-> [i \in UDPSlots |-> i]]
  /\ usJobs = [q |-> <<>>, closed |-> FALSE]
  /\ usWork = [w \in UDPWorkers |-> [pc |-> "idle", kind |-> "query", buf |-> NoBuf]]
  /\ usRes = [w \in UDPWorkers |-> "none"]
  /\ usWrites = [q |-> <<>>, batch |-> <<>>, closed |-> FALSE, exited |-> FALSE]
  /\ usPool = [free |-> {}, made |-> UDPBatch]
  /\ usStats = [received |-> 0, invalid |-> 0, drops |-> 0, completed |-> 0, garbled |-> 0]
  /\ usLife = [closed |-> FALSE, finished |-> FALSE, socket |-> TRUE, shutdown |-> "none"]

-----------------------------------------------------------------------------
(* Read loop.  The batch keeps the slot number of each datagram read.      *)

(* Mutant: the read loop returns without closing the job queue.            *)
ReadLoopEndsOpenQueue ==
  /\ usReader' = [usReader EXCEPT !.pc = "done", !.batch = <<>>]
  /\ usPool' = [usPool EXCEPT !.free = @ \cup {usReader.buf[i] : i \in UDPSlots}]
  /\ UNCHANGED <<usJobs, usWork, usRes, usWrites, usStats, usLife>>

(* release(): every slot's buffer goes back; close(s.jobs) ends the loop.  *)
ReadLoopEnds ==
  /\ usReader' = [usReader EXCEPT !.pc = "done", !.batch = <<>>]
  /\ usPool' = [usPool EXCEPT !.free = @ \cup {usReader.buf[i] : i \in UDPSlots}]
  /\ usJobs' = [usJobs EXCEPT !.closed = TRUE]
  /\ UNCHANGED <<usWork, usRes, usWrites, usStats, usLife>>

ReadBatch(kinds) ==
  /\ usReader.pc = "read" /\ ~usLife.closed
  /\ Len(kinds) \in 1..UDPBatch
  /\ usStats.received + Len(kinds) <= UDPDatagrams
  /\ usReader' = [usReader EXCEPT !.pc = "dispatch",
                                  !.batch = [i \in 1..Len(kinds) |-> [slot |-> i, kind |-> kinds[i]]]]
  /\ UNCHANGED <<usJobs, usWork, usRes, usWrites, usPool, usStats, usLife>>

(* The read fails: the shutdown deadline, a closed socket or a real error. *)
ReadFails == usReader.pc = "read" /\ ReadLoopEnds

(* One datagram of the batch: too short, queued, or dropped on a full      *)
(* queue; its slot then gets another buffer.                               *)
DispatchOne ==
  /\ usReader.pc = "dispatch"
  /\ LET m == Head(usReader.batch)
         bp == usReader.buf[m.slot]
         full == Len(usJobs.q) >= UDPQueue
         kept == m.kind /= "short" /\ ~full
         pool == IF kept THEN usPool ELSE PoolPut(usPool, bp)
     IN /\ usJobs' = IF kept THEN [usJobs EXCEPT !.q = Append(@, [kind |-> m.kind, buf |-> bp])]
                             ELSE usJobs
        /\ usStats' = [usStats EXCEPT !.received = @ + 1,
                                      !.invalid = @ + (IF m.kind = "short" THEN 1 ELSE 0),
                                      !.drops = @ + (IF m.kind /= "short" /\ full THEN 1 ELSE 0)]
        /\ usPool' = PoolTake(pool)
        /\ usReader' = [pc |-> IF Len(usReader.batch) = 1 THEN "read" ELSE "dispatch",
                        batch |-> Tail(usReader.batch),
                        buf |-> [usReader.buf EXCEPT ![m.slot] = PoolPick(pool)]]
  /\ UNCHANGED <<usWork, usRes, usWrites, usLife>>

-----------------------------------------------------------------------------
(* Workers.                                                                *)

(* handle returns (or panics and is recovered): the read buffer goes back  *)
(* to the pool and the job is counted.                                     *)
HandleDone(w, buf) ==
  /\ usWork' = [usWork EXCEPT ![w] = [pc |-> "idle", kind |-> "query", buf |-> NoBuf]]
  /\ usPool' = PoolPut(usPool, buf)

WorkerTake(w) ==
  /\ usWork[w].pc = "idle" /\ usJobs.q /= <<>>
  /\ LET job == Head(usJobs.q)
     IN /\ usJobs' = [usJobs EXCEPT !.q = Tail(@)]
        /\ \/ /\ job.kind = "garbled"
              /\ usStats' = [usStats EXCEPT !.invalid = @ + 1, !.completed = @ + 1, !.garbled = @ + 1]
              /\ HandleDone(w, job.buf)
           \/ /\ job.kind /= "garbled"
              /\ usWork' = [usWork EXCEPT ![w] = [pc |-> "handling", kind |-> job.kind, buf |-> job.buf]]
              /\ UNCHANGED <<usStats, usPool>>
  /\ UNCHANGED <<usReader, usRes, usWrites, usLife>>

(* The handler answers nothing (a drop, or a recovered panic).             *)
WorkerNoReply(w) ==
  /\ usWork[w].pc = "handling"
  /\ HandleDone(w, usWork[w].buf)
  /\ usStats' = [usStats EXCEPT !.completed = @ + 1]
  /\ UNCHANGED <<usReader, usJobs, usRes, usWrites, usLife>>

(* udpResponseWriter.Write: queue the request, then wait for its result.   *)
WorkerWrite(w) ==
  /\ usWork[w].pc = "handling" /\ Len(usWrites.q) < UDPQueue
  /\ usWork' = [usWork EXCEPT ![w].pc = "waiting"]
  /\ usWrites' = [usWrites EXCEPT !.q = Append(@, w)]
  /\ UNCHANGED <<usReader, usJobs, usRes, usPool, usStats, usLife>>

WorkerResult(w) ==
  /\ usWork[w].pc = "waiting" /\ usRes[w] /= "none"
  /\ usRes' = [usRes EXCEPT ![w] = "none"]
  /\ HandleDone(w, usWork[w].buf)
  /\ usStats' = [usStats EXCEPT !.completed = @ + 1]
  /\ UNCHANGED <<usReader, usJobs, usWrites, usLife>>

WorkerExit(w) ==
  /\ usWork[w].pc = "idle" /\ usJobs.closed /\ usJobs.q = <<>>
  /\ usWork' = [usWork EXCEPT ![w].pc = "exited"]
  /\ UNCHANGED <<usReader, usJobs, usRes, usWrites, usPool, usStats, usLife>>

-----------------------------------------------------------------------------
(* Batch writer.                                                           *)

(* Blocks for one request, then drains what is queued, up to a batch.      *)
WriterCollect ==
  /\ usWrites.batch = <<>> /\ usWrites.q /= <<>>
  /\ LET n == IF Len(usWrites.q) < UDPBatch THEN Len(usWrites.q) ELSE UDPBatch
     IN usWrites' = [usWrites EXCEPT !.batch = SubSeq(usWrites.q, 1, n),
                                     !.q = SubSeq(usWrites.q, n + 1, Len(usWrites.q))]
  /\ UNCHANGED <<usReader, usJobs, usWork, usRes, usPool, usStats, usLife>>

(* External: sendmmsg sends in order and stops at the first message it     *)
(* cannot send; the error is returned only when that is the first one.     *)
SendStops(b) == {i \in DOMAIN b : ~usLife.socket \/ usWork[b[i]].kind = "flaky"}
SendFailsOutright(b) == 1 \in SendStops(b)

(* Mutant: the rest of a batch whose send stopped gets no result.          *)
WriterSendForgetsRest ==
  /\ usWrites.batch /= <<>>
  /\ LET b == usWrites.batch
         told == {i \in DOMAIN b : \A j \in SendStops(b) : i < j}
     IN usRes' = [w \in UDPWorkers |-> IF \E i \in told : b[i] = w THEN "ok" ELSE usRes[w]]
  /\ usWrites' = [usWrites EXCEPT !.batch = <<>>]
  /\ UNCHANGED <<usReader, usJobs, usWork, usPool, usStats, usLife>>

(* WriteBatch and the three cases of the result loop: the messages before  *)
(* the stop succeeded; after an error the rest gets it; without one each   *)
(* of the rest is sent on its own (writeSingle).                           *)
WriterSend ==
  /\ usWrites.batch /= <<>>
  /\ LET b == usWrites.batch
         result(i) == IF SendFailsOutright(b) \/ i \in SendStops(b) THEN "error" ELSE "ok"
     IN usRes' = [w \in UDPWorkers |->
                    IF \E i \in DOMAIN b : b[i] = w
                    THEN result(CHOOSE i \in DOMAIN b : b[i] = w)
                    ELSE usRes[w]]
  /\ usWrites' = [usWrites EXCEPT !.batch = <<>>]
  /\ UNCHANGED <<usReader, usJobs, usWork, usPool, usStats, usLife>>

WriterExit ==
  /\ usWrites.closed /\ ~usWrites.exited
  /\ usWrites.q = <<>> /\ usWrites.batch = <<>>
  /\ usWrites' = [usWrites EXCEPT !.exited = TRUE]
  /\ UNCHANGED <<usReader, usJobs, usWork, usRes, usPool, usStats, usLife>>

-----------------------------------------------------------------------------
(* Serve's tail and Shutdown.                                              *)

(* wg.Wait returns: the workers are the only senders on writes.            *)
ServeClosesWrites ==
  /\ usReader.pc = "done" /\ ~usWrites.closed
  /\ \A w \in UDPWorkers : usWork[w].pc = "exited"
  /\ usWrites' = [usWrites EXCEPT !.closed = TRUE]
  /\ UNCHANGED <<usReader, usJobs, usWork, usRes, usPool, usStats, usLife>>

(* <-writerDone, then the deferred close(s.finished).                      *)
ServeFinishes ==
  /\ usWrites.exited /\ ~usLife.finished
  /\ usLife' = [usLife EXCEPT !.finished = TRUE]
  /\ UNCHANGED <<usReader, usJobs, usWork, usRes, usWrites, usPool, usStats>>

(* The deferred closeSocket, which runs after close(s.finished).           *)
ServeClosesSocket ==
  /\ usLife.finished /\ usLife.socket
  /\ usLife' = [usLife EXCEPT !.socket = FALSE]
  /\ UNCHANGED <<usReader, usJobs, usWork, usRes, usWrites, usPool, usStats>>

(* Shutdown: Close sets the flag and a read deadline, then it waits.       *)
ShutdownBegins ==
  /\ usLife.shutdown = "none"
  /\ usLife' = [usLife EXCEPT !.shutdown = "waiting", !.closed = TRUE]
  /\ UNCHANGED <<usReader, usJobs, usWork, usRes, usWrites, usPool, usStats>>

ShutdownReturns ==
  /\ usLife.shutdown = "waiting"
  /\ \/ /\ usLife.finished
        /\ usLife' = [usLife EXCEPT !.shutdown = "drained"]
     \/ usLife' = [usLife EXCEPT !.shutdown = "timedout", !.socket = FALSE]
  /\ UNCHANGED <<usReader, usJobs, usWork, usRes, usWrites, usPool, usStats>>

-----------------------------------------------------------------------------
WorkerStep(w) == WorkerTake(w) \/ WorkerNoReply(w) \/ WorkerWrite(w) \/ WorkerResult(w) \/ WorkerExit(w)
WriterStep == WriterCollect \/ WriterSend \/ WriterExit
ServeStep == ServeClosesWrites \/ ServeFinishes \/ ServeClosesSocket

UDPNext ==
  \/ \E kinds \in UNION {[1..n -> UDPKinds] : n \in UDPSlots} : ReadBatch(kinds)
  \/ ReadFails
  \/ DispatchOne
  \/ \E w \in UDPWorkers : WorkerStep(w)
  \/ WriterStep
  \/ ServeStep
  \/ ShutdownBegins
  \/ ShutdownReturns

(* Go's scheduler runs every ready goroutine; the handler returns (it is   *)
(* bounded by the query timeout), and a read with a passed deadline fails. *)
UDPFairness ==
  /\ WF_UDPVars(usLife.closed /\ ReadFails) /\ WF_UDPVars(DispatchOne)
  /\ \A w \in UDPWorkers : WF_UDPVars(WorkerStep(w))
  /\ WF_UDPVars(WriterStep) /\ WF_UDPVars(ServeStep)

UDPSpec == UDPInit /\ [][UDPNext]_UDPVars /\ UDPFairness

-----------------------------------------------------------------------------
UDPBusy == {w \in UDPWorkers : usWork[w].pc \in {"handling", "waiting"}}

(* The types, with the queues inside their capacity.                       *)
UDPTypeOK ==
  /\ usReader.pc \in {"read", "dispatch", "done"}
  /\ usReader.batch \in Seq([slot : UDPSlots, kind : UDPKinds])
  /\ usReader.buf \in [UDPSlots -> UDPBuffers]
  /\ usJobs.q \in Seq([kind : UDPKinds \ {"short"}, buf : UDPBuffers]) /\ usJobs.closed \in BOOLEAN
  /\ Len(usJobs.q) <= UDPQueue /\ Len(usWrites.q) <= UDPQueue
  /\ usWork \in [UDPWorkers -> [pc : {"idle", "handling", "waiting", "exited"},
                                 kind : UDPKinds, buf : UDPBuffers \cup {NoBuf}]]
  /\ usRes \in [UDPWorkers -> {"none", "ok", "error"}]
  /\ usWrites.q \in Seq(UDPWorkers) /\ usWrites.batch \in Seq(UDPWorkers)
  /\ usPool.free \subseteq UDPBuffers /\ usPool.made \in Nat
  /\ usStats \in [received : Nat, invalid : Nat, drops : Nat, completed : Nat, garbled : Nat]
  /\ usLife \in [closed : BOOLEAN, finished : BOOLEAN, socket : BOOLEAN,
                  shutdown : {"none", "waiting", "drained", "timedout"}]

(* Every datagram read is in exactly one of the dashboard's columns or     *)
(* still in the server: received is invalid, dropped, queued, being        *)
(* handled or completed (a garbled one is both invalid and completed),     *)
(* whatever panics, fails to send or is shut down meanwhile.               *)
DatagramsAccounted ==
  usStats.received + usStats.garbled =
    usStats.invalid + usStats.drops + usStats.completed + Len(usJobs.q) + Cardinality(UDPBusy)

(* A read buffer has one owner at a time: a slot the kernel may write      *)
(* into, a queued job, a worker unpacking it, or the pool.                 *)
BufferExclusive ==
  LET slots == IF usReader.pc = "done" THEN {} ELSE UDPSlots
      holder == {<<"slot", i, usReader.buf[i]>> : i \in slots}
           \cup {<<"job", j, usJobs.q[j].buf>> : j \in DOMAIN usJobs.q}
           \cup {<<"worker", w, usWork[w].buf>> : w \in UDPBusy}
           \cup {<<"pool", 0, b>> : b \in usPool.free}
  IN \A x, y \in holder : x[3] = y[3] => x = y

(* A worker blocked on its result has its request in the write queue or in *)
(* the writer's batch, or the result is there: no wakeup is lost, so a     *)
(* failed send never strands a worker.                                     *)
WaitersServed ==
  \A w \in UDPWorkers :
    usWork[w].pc = "waiting" <=>
      \/ \E i \in DOMAIN usWrites.q : usWrites.q[i] = w
      \/ \E i \in DOMAIN usWrites.batch : usWrites.batch[i] = w
      \/ usRes[w] /= "none"

(* The winding-down order: the socket stays open for accepted jobs unless  *)
(* Shutdown timed out, the write queue is closed only when no worker can   *)
(* send on it, and finished means every accepted job was handled.          *)
DrainBeforeClose ==
  /\ ~usLife.socket => usLife.finished \/ usLife.shutdown = "timedout"
  /\ usWrites.closed => \A w \in UDPWorkers : usWork[w].pc = "exited"
  /\ usLife.finished => usJobs.q = <<>> /\ usWrites.q = <<>> /\ usWrites.batch = <<>>

(* Once Close was called Serve ends, even when replies cannot be sent: the *)
(* reader, the workers and the writer never wait on one another in a ring. *)
ServeEnds == usLife.closed ~> usLife.finished

(* The UDP server as a whole: every datagram is accounted for, every       *)
(* buffer has one owner, no worker waits for a result nobody owes it, and  *)
(* the winding down closes nothing still in use (Serve, dispatch, handle,  *)
(* write loop).                                                            *)
UDPSound ==
  /\ UDPTypeOK
  /\ DatagramsAccounted
  /\ BufferExclusive
  /\ WaitersServed
  /\ DrainBeforeClose
=============================================================================
