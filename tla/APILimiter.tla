------------------------------ MODULE APILimiter ------------------------------
(***************************************************************************)
(* The token bucket in front of the authenticated API (apiratelimit.go):   *)
(* fractional tokens, a shard of bounded size, idle eviction, and calls    *)
(* whose clocks cross on the way to the lock.                              *)
(***************************************************************************)
EXTENDS Integers, FiniteSets

CONSTANTS
  ALCalls,    (* concurrent calls of Allow                                  *)
  ALClients,
  ALCost,     (* units of a token, so that a refill may be a fraction       *)
  ALBurst,    (* apiRateBurst, in units                                     *)
  ALRate,     (* apiRateQPS: units refilled a tick                          *)
  ALIdle,     (* apiRateIdleEvict, in ticks                                 *)
  ALShard,    (* apiRateMaxPerShard                                         *)
  ALPause,    (* bound: ticks a call may take from its clock to the lock    *)
  ALTime      (* bound: the clock                                           *)

(* A bucket idle for long enough to be evicted would be full again, with a *)
(* margin for calls that waited for the lock: 60 tokens at 25 a second     *)
(* against ten minutes leaves nearly five minutes of it.                   *)
ASSUME ALAssumption ==
  /\ ALCost \in Nat \ {0} /\ ALRate \in Nat \ {0} /\ ALBurst \in Nat /\ ALBurst >= ALCost
  /\ ALIdle \in Nat /\ ALPause \in Nat /\ ALTime \in Nat
  /\ ALIdle * ALRate >= ALBurst + 2 * (ALPause * ALRate)

VARIABLES alNow, alBuckets,
          alCall,    (* calls of Allow that have read the clock             *)
          alHist     (* history: requests allowed, and since when           *)
ALVars == <<alNow, alBuckets, alCall, alHist>>

NoBucket == [on |-> FALSE, tokens |-> 0, seen |-> 0]
NoAllow == [pc |-> "idle"]
ALInit ==
  /\ alNow = 0
  /\ alBuckets = [c \in ALClients |-> NoBucket]
  /\ alCall = [p \in ALCalls |-> NoAllow]
  /\ alHist = [c \in ALClients |-> [allowed |-> 0, since |-> 0]]

(* Allow reads the clock before it takes the shard's lock.                 *)
APIReadsClock(p, c) ==
  /\ alCall[p] = NoAllow
  /\ alCall' = [alCall EXCEPT ![p] = [pc |-> "locking", client |-> c, at |-> alNow]]
  /\ UNCHANGED <<alNow, alBuckets, alHist>>

(* Mutant: a full shard is emptied.                                        *)
BucketsRoomAll(b, t) == [c \in ALClients |-> NoBucket]

(* evictIdleLocked, when a new client finds the shard full                 *)
BucketsRoom(b, t) ==
  IF Cardinality({c \in ALClients : b[c].on}) < ALShard THEN b
  ELSE [c \in ALClients |-> IF b[c].on /\ t - b[c].seen > ALIdle THEN NoBucket ELSE b[c]]

(* The refill, which an older clock makes negative, capped at the burst    *)
Refilled(b, t) ==
  LET n == b.tokens + (t - b.seen) * ALRate IN IF n > ALBurst THEN ALBurst ELSE n

(* Allow under the lock: a client without a bucket, and one with it.       *)
APIAllowNew(p) ==
  /\ alCall[p] /= NoAllow /\ ~alBuckets[alCall[p].client].on
  /\ LET c == alCall[p].client
         t == alCall[p].at
     IN /\ alBuckets' = [BucketsRoom(alBuckets, t) EXCEPT
                           ![c] = [on |-> TRUE, tokens |-> ALBurst - ALCost, seen |-> t]]
        /\ alHist' = [alHist EXCEPT ![c] = [allowed |-> @.allowed + 1,
                                            since |-> IF @.allowed = 0 THEN t ELSE @.since]]
  /\ alCall' = [alCall EXCEPT ![p] = NoAllow]
  /\ UNCHANGED alNow
APIAllowKnown(p) ==
  /\ alCall[p] /= NoAllow /\ alBuckets[alCall[p].client].on
  /\ LET c == alCall[p].client
         t == alCall[p].at
         n == Refilled(alBuckets[c], t)
         ok == n >= ALCost
     IN /\ alBuckets' = [alBuckets EXCEPT ![c] = [on |-> TRUE, tokens |-> IF ok THEN n - ALCost ELSE n, seen |-> t]]
        /\ alHist' = [alHist EXCEPT ![c].allowed = IF ok THEN @ + 1 ELSE @]
  /\ alCall' = [alCall EXCEPT ![p] = NoAllow]
  /\ UNCHANGED alNow
ALTick ==
  /\ alNow < ALTime /\ \A p \in ALCalls : alCall[p] /= NoAllow => alNow - alCall[p].at < ALPause
  /\ alNow' = alNow + 1
  /\ UNCHANGED <<alBuckets, alCall, alHist>>

ALNext ==
  \/ ALTick
  \/ \E p \in ALCalls : APIAllowNew(p) \/ APIAllowKnown(p) \/ \E c \in ALClients : APIReadsClock(p, c)
ALSpec == ALInit /\ [][ALNext]_ALVars

-----------------------------------------------------------------------------
(* A bucket never holds more than the burst, and owes no more than the     *)
(* clocks of crossing calls differ by (Allow).                             *)
ALTypeOK ==
  /\ alNow \in 0..ALTime
  /\ \A p \in ALCalls : alCall[p] /= NoAllow => alCall[p].client \in ALClients /\ alCall[p].at \in 0..alNow
  /\ \A c \in ALClients : alBuckets[c].tokens \in -(ALPause * ALRate)..ALBurst

(* No client gets more requests through than the burst and the rate since  *)
(* its first allow, whatever fractions were refilled, in whatever order    *)
(* crossing calls applied their clocks, and whoever was evicted meanwhile. *)
APIBudget ==
  \A c \in ALClients :
    alHist[c].allowed > 0 => alHist[c].allowed * ALCost <= ALBurst + (alNow - alHist[c].since) * ALRate

(* The API limit: a bucket owes no more than crossing clocks can make it,  *)
(* and no client gets more than the burst and the rate through (Allow,     *)
(* evictIdleLocked).                                                       *)
APISound ==
  /\ ALTypeOK
  /\ APIBudget
=============================================================================
