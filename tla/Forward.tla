------------------------------- MODULE Forward -------------------------------
(***************************************************************************)
(* How one question is put to several upstreams (handler.go                *)
(* queryUpstreams, sequentialUpstreams, raceUpstreams): one after the      *)
(* other, each with its share of the time left, or all at once, the first  *)
(* reply winning.  What an upstream does is external: it answers, answers  *)
(* SERVFAIL, fails, returns neither reply nor error, or panics.            *)
(***************************************************************************)
EXTENDS Integers, Sequences, FiniteSets

CONSTANTS
  FWUps,      (* number of configured upstreams, several                    *)
  FWBudget    (* the query's deadline, in ticks                             *)

(* A deadline is seconds and a tick may be a nanosecond: each has one.     *)
ASSUME FWAssumption == FWUps \in Nat \ {0, 1} /\ FWBudget \in Nat /\ FWBudget >= FWUps

VARIABLES
  fwMode,     (* resolution strategy                                        *)
  fwUps,      (* avail: the upstreams to ask, in list order                 *)
  fwNow,      (* time since the query began                                 *)
  fwSeq,      (* sequential: the attempts made                              *)
  fwGot,      (* history: what each upstream did                            *)
  fwGiven,    (* history: the time each sequential attempt could take       *)
  fwRun,      (* race: goroutines that have not sent yet                    *)
  fwChan,     (* race: results sent and not received                        *)
  fwTaken,    (* race: results received                                     *)
  fwOut       (* what the caller gets                                       *)
FWVars == <<fwMode, fwUps, fwNow, fwSeq, fwGot, fwGiven, fwRun, fwChan, fwTaken, fwOut>>

Ups == 1..FWUps
Failures == {"err", "nil", "panic"}
Outcomes == Failures \cup {"answer", "servfail"}
(* The configured upstreams without some of them, in list order.           *)
Sublists == {s \in UNION {[1..n -> Ups] : n \in 0..FWUps} :
               \A i, j \in DOMAIN s : i < j => s[i] < s[j]}
Members(s) == {s[i] : i \in DOMAIN s}
Listed == Members(fwUps)

FWInit ==
  /\ fwMode \in {"race", "sequential"}
  /\ fwUps = <<>> /\ fwNow = 0 /\ fwSeq = 0 /\ fwRun = {} /\ fwChan = <<>> /\ fwTaken = 0
  /\ fwGot = [u \in Ups |-> "-"] /\ fwGiven = [u \in Ups |-> 0]
  /\ fwOut = "idle"

(* queryUpstreams: avail is those whose circuit is closed now.             *)
QueryUpstreams(avail) ==
  /\ fwOut = "idle"
  /\ fwUps' = avail
  /\ fwOut' = IF avail = <<>> THEN "refused" ELSE "pending"
  /\ fwRun' = IF fwMode = "race" THEN Members(avail) ELSE {}
  /\ UNCHANGED <<fwMode, fwNow, fwSeq, fwGot, fwGiven, fwChan, fwTaken>>

-----------------------------------------------------------------------------
Sequential == fwMode = "sequential"
Left == Len(fwUps) - fwSeq

(* Mutant: every attempt may use all the time left.                        *)
ShareWhole == FWBudget - fwNow
(* The sub-context of an attempt: an even share of what is left, the whole *)
(* of it for the last.                                                     *)
Share == IF Left > 1 /\ (FWBudget - fwNow) \div Left > 0
         THEN (FWBudget - fwNow) \div Left ELSE FWBudget - fwNow

(* One turn of the loop: the next upstream does what and takes d; at the   *)
(* end of its share the query fails.  A panic here is not recovered.       *)
Attempt(what, d) ==
  LET u == fwUps[fwSeq + 1] IN
  /\ fwOut = "pending" /\ Sequential /\ Left > 0 /\ fwNow < FWBudget
  /\ d <= Share /\ (d = Share => what = "err")
  /\ fwNow' = fwNow + d /\ fwSeq' = fwSeq + 1
  /\ fwGot' = [fwGot EXCEPT ![u] = what] /\ fwGiven' = [fwGiven EXCEPT ![u] = Share]
  /\ fwOut' = CASE what = "answer" -> "answer" [] what = "panic" -> "crash" [] OTHER -> "pending"
  /\ UNCHANGED <<fwMode, fwUps, fwRun, fwChan, fwTaken>>

(* The loop is over, or ctx.Err() ended it: the last SERVFAIL, or an error.*)
SequentialEnds ==
  /\ fwOut = "pending" /\ Sequential /\ (Left = 0 \/ fwNow >= FWBudget)
  /\ fwOut' = IF \E u \in Listed : fwGot[u] = "servfail" THEN "servfail" ELSE "error"
  /\ UNCHANGED <<fwMode, fwUps, fwNow, fwSeq, fwGot, fwGiven, fwRun, fwChan, fwTaken>>

-----------------------------------------------------------------------------
(* Mutant: a recovered panic sends nothing.                                *)
SendsUnlessPanic(u, what) == IF what = "panic" THEN fwChan ELSE Append(fwChan, <<u, what>>)
(* The one send of each goroutine, the deferred one after a panic included.*)
Sends(u, what) == Append(fwChan, <<u, what>>)

(* A goroutine of the race: its send has room in a channel made for all.   *)
(* After qcancel it mostly sends an error, but a reply may be in hand.     *)
RaceReply(u, what) ==
  /\ u \in fwRun /\ Len(fwChan) + fwTaken < Len(fwUps)
  /\ fwRun' = fwRun \ {u}
  /\ fwGot' = [fwGot EXCEPT ![u] = what]
  /\ fwChan' = Sends(u, what)
  /\ UNCHANGED <<fwMode, fwUps, fwNow, fwSeq, fwGiven, fwTaken, fwOut>>

(* The collector: the first reply of any rcode, or the last error.         *)
RaceTake ==
  /\ fwOut = "pending" /\ ~Sequential /\ fwChan /= <<>>
  /\ LET what == Head(fwChan)[2] IN
       fwOut' = IF what \in Failures
                THEN IF fwTaken + 1 = Len(fwUps) THEN "error" ELSE "pending"
                ELSE what
  /\ fwChan' = Tail(fwChan) /\ fwTaken' = fwTaken + 1
  /\ UNCHANGED <<fwMode, fwUps, fwNow, fwSeq, fwGot, fwGiven, fwRun>>

(* The caller has its result and all goroutines are gone: the next query.  *)
NextQuery ==
  /\ fwOut \notin {"idle", "pending"} /\ fwRun = {}
  /\ fwUps' = <<>> /\ fwNow' = 0 /\ fwSeq' = 0 /\ fwChan' = <<>> /\ fwTaken' = 0
  /\ fwGot' = [u \in Ups |-> "-"] /\ fwGiven' = [u \in Ups |-> 0] /\ fwOut' = "idle"
  /\ UNCHANGED <<fwMode, fwRun>>

SequentialStep == SequentialEnds \/ \E what \in Outcomes, d \in 0..FWBudget : Attempt(what, d)
FWNext ==
  \/ \E avail \in Sublists : QueryUpstreams(avail)
  \/ SequentialStep \/ RaceTake \/ NextQuery
  \/ \E u \in Ups, what \in Outcomes : RaceReply(u, what)

FWSpec == FWInit /\ [][FWNext]_FWVars

-----------------------------------------------------------------------------
(* The time stays within the query's, and no goroutine sends twice.        *)
FWTypeOK ==
  /\ fwMode \in {"race", "sequential"} /\ Listed \subseteq Ups /\ Len(fwUps) = Cardinality(Listed)
  /\ fwNow \in 0..FWBudget /\ fwSeq \in 0..Len(fwUps)
  /\ fwGot \in [Ups -> Outcomes \cup {"-"}] /\ fwGiven \in [Ups -> 0..FWBudget]
  /\ fwRun \subseteq Listed /\ fwTaken + Len(fwChan) + Cardinality(fwRun) <= Len(fwUps)
  /\ fwOut \in {"idle", "pending", "refused", "answer", "servfail", "error", "crash"}

(* The caller is told of an error only when every upstream asked has       *)
(* failed, and in a sequence of SERVFAIL only when none has anything       *)
(* better: a slow, dead or failing primary never masks a working backup.   *)
FailureMeansAllFailed ==
  /\ fwOut = "error" => \A u \in Listed : fwGot[u] \in Failures
  /\ fwOut = "servfail" /\ Sequential => \A u \in Listed : fwGot[u] \in Failures \cup {"servfail"}
  /\ fwOut = "servfail" => \E u \in Listed : fwGot[u] = "servfail"

(* However slowly those before it fail, each upstream of a sequence gets   *)
(* its even share of the whole budget before the query is given up.        *)
FairShare ==
  fwOut \in {"error", "servfail"} /\ Sequential =>
    \A u \in Listed : fwGiven[u] >= FWBudget \div Len(fwUps)

(* Asking several upstreams loses no answer and starves no backup          *)
(* (sequentialUpstreams, raceUpstreams).                                   *)
ForwardSound == FWTypeOK /\ FailureMeansAllFailed /\ FairShare

(* The collector of a race never waits for a send that will not come: a    *)
(* result is in the channel, or a goroutine that owes one still runs       *)
(* (raceUpstreams, the deferred send of a recovered panic).                *)
RaceGoesOn == fwOut = "pending" /\ ~Sequential => fwChan /= <<>> \/ fwRun /= {}
=============================================================================
