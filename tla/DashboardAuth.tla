---------------------------- MODULE DashboardAuth ----------------------------
(***************************************************************************)
(* Who gets into the dashboard (api/server.go authorize, loginguard.go):   *)
(* one snapshot of users and secret per request, the signed cookie, and    *)
(* the lockout of a client that keeps guessing, while another admin        *)
(* changes the account.                                                    *)
(***************************************************************************)
EXTENDS Integers, FiniteSets

CONSTANTS
  DARequests,   (* concurrent requests                                      *)
  DAClients,    (* client addresses                                         *)
  DAMaxFailures, DAWindow, DALockout, DAGuardIdle,   (* loginguard.go       *)
  DAShard,      (* loginGuardMaxPerShard                                    *)
  DATime,       (* bound: the clock                                         *)
  DAPause,      (* bound: ticks from the Locked check to the outcome        *)
  DAChanges     (* bound: account changes                                   *)

(* An entry is evicted only when forgetting it changes nothing: idle, it   *)
(* has outlived its lockout and its window.                                *)
ASSUME DAAssumption ==
  /\ DAMaxFailures \in Nat \ {0} /\ DALockout \in Nat \ {0} /\ {DAWindow, DAGuardIdle, DATime, DAChanges} \subseteq Nat
  /\ DAGuardIdle >= DALockout /\ DAGuardIdle >= DAWindow

VARIABLES
  daNow,
  daGuard,     (* LoginGuard.entries                                        *)
  daAccount,   (* the account's password and the session secret             *)
  daCookies,   (* cookies issued                                            *)
  daReq,       (* the requests in progress                                  *)
  daHist       (* history: lockouts, what raced them, stale grants          *)
DAVars == <<daNow, daGuard, daAccount, daCookies, daReq, daHist>>

NoGuard == [on |-> FALSE, failures |-> 0, first |-> 0, lockedUntil |-> 0, seen |-> 0]
NoLogin == [pc |-> "idle", client |-> "none", pw |-> 0, users |-> 0, secret |-> 0, free |-> FALSE, from |-> 0]

DAInit ==
  /\ daNow = 0
  /\ daGuard = [c \in DAClients |-> NoGuard]
  /\ daAccount = [pw |-> 1, secret |-> 1]
  /\ daCookies = {}
  /\ daReq = [r \in DARequests |-> NoLogin]
  /\ daHist = [lock |-> [c \in DAClients |-> 0], raced |-> [c \in DAClients |-> FALSE],
               stale |-> FALSE]

DATick ==
  /\ daNow < DATime /\ daNow' = daNow + 1
  /\ \A r \in DARequests : daReq[r].pc = "check" => daNow - daReq[r].from < DAPause
  /\ UNCHANGED <<daGuard, daAccount, daCookies, daReq, daHist>>

-----------------------------------------------------------------------------
(* LoginGuard                                                              *)
Locked(c) == daGuard[c].on /\ daNow < daGuard[c].lockedUntil

(* evictIdleLocked, when the shard is full                                *)
GuardRoom(g, t) ==
  IF Cardinality({c \in DAClients : g[c].on}) < DAShard THEN g
  ELSE [c \in DAClients |-> IF g[c].on /\ t - g[c].seen > DAGuardIdle THEN NoGuard ELSE g[c]]

LockAt(n) == n >= DAMaxFailures

(* RecordFailure, by a clock read before the lock was taken: a fresh entry *)
(* after the window, one failure more, and the lockout at the threshold.   *)
RecordFailure(c, t) ==
  LET g == GuardRoom(daGuard, t)
      e == IF ~g[c].on \/ t - g[c].first > DAWindow
           THEN [NoGuard EXCEPT !.on = TRUE, !.first = t] ELSE g[c]
      n == e.failures + 1
  IN [g EXCEPT ![c] = [e EXCEPT !.failures = n, !.seen = t,
                                !.lockedUntil = IF LockAt(n) THEN t + DALockout ELSE @]]
RecordSuccess(c) == [daGuard EXCEPT ![c] = NoGuard]

(* An attempt that passed the Locked check before this lockout began ends. *)
Raced(q) == daNow < daHist.lock[q.client] /\ q.free
Outcome(q) == IF Raced(q) THEN [daHist EXCEPT !.raced[q.client] = TRUE] ELSE daHist

-----------------------------------------------------------------------------
(* A request with a cookie is let in when its signature fits the snapshot  *)
(* (validSession); otherwise it falls through to the login, which without  *)
(* credentials counts nothing.                                             *)
CookieRequest(k) ==
  /\ k \in daCookies /\ k.secret = daAccount.secret
  /\ daHist' = [daHist EXCEPT !.stale = @ \/ k.pw /= daAccount.pw]
  /\ UNCHANGED <<daNow, daGuard, daAccount, daCookies, daReq>>

Passed(q) == [q EXCEPT !.pc = "check", !.free = ~Locked(q.client), !.from = daNow]

(* A login: the snapshot ...                                               *)
LoginBegins(r, c, pw) ==
  /\ daReq[r] = NoLogin
  /\ daReq' = [daReq EXCEPT ![r] = [pc |-> "lock", client |-> c, pw |-> pw, users |-> daAccount.pw,
                                    secret |-> daAccount.secret, free |-> FALSE, from |-> 0]]
  /\ UNCHANGED <<daNow, daGuard, daAccount, daCookies, daHist>>

(* ... the lockout (a locked client is answered 429) ...                   *)
LoginLocked(r) ==
  /\ daReq[r].pc = "lock"
  /\ daReq' = [daReq EXCEPT ![r] = IF Locked(daReq[r].client) THEN NoLogin ELSE Passed(@)]
  /\ UNCHANGED <<daNow, daGuard, daAccount, daCookies, daHist>>

(* Mutant: the cookie is signed with the secret of the moment.             *)
CookieSignedNow(q) == [secret |-> daAccount.secret, pw |-> q.pw]

(* issueSessionWith: signed with the secret of the request's snapshot.     *)
CookieSigned(q) == [secret |-> q.secret, pw |-> q.pw]

(* ... and, after the slow password hash, the outcome.                     *)
LoginSucceeds(r) ==
  LET q == daReq[r] IN
  /\ q.pc = "check" /\ q.pw = q.users
  /\ daGuard' = RecordSuccess(q.client)
  /\ daCookies' = daCookies \cup {CookieSigned(q)}
  /\ daHist' = Outcome(q)
  /\ daReq' = [daReq EXCEPT ![r] = NoLogin]
  /\ UNCHANGED <<daNow, daAccount>>
LoginFails(r, t) ==
  LET q == daReq[r] IN
  /\ q.pc = "check" /\ q.pw /= q.users /\ t \in q.from..daNow
  /\ daGuard' = RecordFailure(q.client, t)
  /\ daHist' = LET e == daGuard'[q.client]
                   old == daHist.lock[q.client] IN
       IF LockAt(e.failures) /\ e.lockedUntil >= old
       THEN [daHist EXCEPT !.lock[q.client] = e.lockedUntil, !.raced[q.client] = FALSE]
       ELSE Outcome(q)
  /\ daReq' = [daReq EXCEPT ![r] = NoLogin]
  /\ UNCHANGED <<daNow, daAccount, daCookies>>

(* applyPayload: the account changes, and the secret with it.              *)
AccountChanges ==
  /\ daAccount.pw <= DAChanges
  /\ daAccount' = [pw |-> daAccount.pw + 1, secret |-> daAccount.secret + 1]
  /\ UNCHANGED <<daNow, daGuard, daCookies, daReq, daHist>>

DANext ==
  \/ DATick \/ AccountChanges \/ \E k \in daCookies : CookieRequest(k)
  \/ \E r \in DARequests :
       \/ \E c \in DAClients, pw \in {0, daAccount.pw} : LoginBegins(r, c, pw)
       \/ LoginLocked(r) \/ LoginSucceeds(r) \/ \E t \in 0..daNow : LoginFails(r, t)
DASpec == DAInit /\ [][DANext]_DAVars

-----------------------------------------------------------------------------
(* Entries are of the past, one has a lockout exactly when its failures    *)
(* reached the maximum, and cookies are signed with secrets that existed   *)
(* (LoginGuard, signSession).                                              *)
DATypeOK ==
  /\ daNow \in 0..DATime
  /\ \A c \in DAClients : daGuard[c].on =>
       /\ {daGuard[c].first, daGuard[c].seen} \subseteq 0..daNow
       /\ daGuard[c].lockedUntil \in 0..(daNow + DALockout)
       /\ daGuard[c].lockedUntil > 0 <=> daGuard[c].failures >= DAMaxFailures
  /\ daCookies \subseteq [secret : 1..(DAChanges + 1), pw : 1..(DAChanges + 1)]

(* A lockout runs its course: no eviction, no other client and no correct  *)
(* password ends it, except an attempt that had passed the Locked check    *)
(* before the lockout began (RecordSuccess, or the failure that opens a    *)
(* new window or applies an older clock).                                  *)
LockoutKept == \A c \in DAClients : daNow < daHist.lock[c] /\ ~daHist.raced[c] => Locked(c)

(* Changing the account's password ends every session at once, the one a   *)
(* login that was under way then sets included.                            *)
OldSessionsEnd == ~daHist.stale

(* Who gets in: a lockout runs its course, and a password change ends      *)
(* every session, those of logins under way included (authorize, login,    *)
(* RecordFailure, RecordSuccess).                                          *)
AuthSound ==
  /\ DATypeOK
  /\ LockoutKept
  /\ OldSessionsEnd
=============================================================================
