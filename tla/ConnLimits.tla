------------------------------ MODULE ConnLimits ------------------------------
(***************************************************************************)
(* The per-IP connection caps of the TCP/DoT listeners (connlimit.go) and  *)
(* of the HTTP listeners (Manager.HTTPConnState, doh.go).  A listener      *)
(* captures its limiter when it is started; SetConnLimits makes new        *)
(* limiters, which only the next (re)start of a listener uses, so          *)
(* connections counted by an old limiter outlive its replacement.          *)
(***************************************************************************)
EXTENDS Integers, FiniteSets

CONSTANTS
  CLConns,     (* connection identities                                    *)
  CLIPs,       (* client addresses                                         *)
  CLMax,       (* the configured cap of both kinds of limiter              *)
  CLSwaps      (* bound: calls of SetConnLimits                            *)

NoIP == "noip"                         (* clientIPOf gave ""                *)

ASSUME CLAssumption ==
  IsFiniteSet(CLConns) /\ NoIP \notin CLIPs /\ CLMax \in Nat \ {0} /\ CLSwaps \in Nat

VARIABLES
  clLim,     (* Manager.connLim and httpLim: limiter number, 0 = nil       *)
  clMade,    (* SetConnLimits calls so far, boot's included                *)
  clLsn,     (* the limiter each running listener captured                 *)
  clCount,   (* conns of every limiter: limiter -> ip -> slots             *)
  clConn     (* every connection                                           *)

CLVars == <<clLim, clMade, clLsn, clCount, clConn>>

CLKinds == {"tcp", "http"}
CLAddrs == CLIPs \cup {NoIP}
NilLim == 0
Limiters == 1..(2 * CLSwaps + 2)       (* odd: TCP, even: HTTP              *)

IdleConn == [st |-> "none", kind |-> "tcp", ip |-> NoIP, lim |-> NilLim, acq |-> FALSE]

CLInit ==
  /\ clLim = [k \in CLKinds |-> IF k = "tcp" THEN 1 ELSE 2]
  /\ clMade = 1
  /\ clLsn = clLim
  /\ clCount = [l \in Limiters |-> [ip \in CLIPs |-> 0]]
  /\ clConn = [c \in CLConns |-> IdleConn]

-----------------------------------------------------------------------------
(* SetConnLimits: a limiter per kind whose cap is positive, nil otherwise.  *)
SetConnLimits(tcpOn, httpOn) ==
  /\ clMade <= CLSwaps
  /\ clMade' = clMade + 1
  /\ clLim' = [k \in CLKinds |-> IF k = "tcp" THEN (IF tcpOn THEN 2 * clMade + 1 ELSE NilLim)
                                              ELSE (IF httpOn THEN 2 * clMade + 2 ELSE NilLim)]
  /\ UNCHANGED <<clLsn, clCount, clConn>>

(* A listener is (re)started: limitTCPListener, HTTPConnState.             *)
ListenerStarts(k) ==
  /\ clLsn[k] /= clLim[k]
  /\ clLsn' = [clLsn EXCEPT ![k] = clLim[k]]
  /\ UNCHANGED <<clLim, clMade, clCount, clConn>>

(* Mutant: the last slot is never given out.                               *)
HasRoomStrict(l, ip) == IF ip = NoIP THEN TRUE ELSE clCount[l][ip] + 1 < CLMax

(* acquire and release; the empty address is never counted.                *)
HasRoom(l, ip) == IF ip = NoIP THEN TRUE ELSE clCount[l][ip] < CLMax
Acquired(l, ip) == IF ip = NoIP THEN clCount ELSE [clCount EXCEPT ![l][ip] = @ + 1]
Released(l, ip) == IF ip = NoIP \/ clCount[l][ip] = 0 THEN clCount
                                                       ELSE [clCount EXCEPT ![l][ip] = @ - 1]

(* limitListener.Accept: the bare listener when no cap is set; a tracked   *)
(* connection; or, past the cap, a closed one the server fails to read.    *)
AcceptTCP(c, ip) ==
  /\ clConn[c].st = "none"
  /\ LET l == clLsn["tcp"]
         conn(st, acq) == [st |-> st, kind |-> "tcp", ip |-> ip, lim |-> l, acq |-> acq]
     IN \/ /\ l = NilLim
           /\ clConn' = [clConn EXCEPT ![c] = conn("open", FALSE)]
           /\ UNCHANGED clCount
        \/ /\ l /= NilLim /\ HasRoom(l, ip)
           /\ clConn' = [clConn EXCEPT ![c] = conn("open", TRUE)]
           /\ clCount' = Acquired(l, ip)
        \/ /\ l /= NilLim /\ ~HasRoom(l, ip)
           /\ clConn' = [clConn EXCEPT ![c] = conn("refused", FALSE)]
           /\ UNCHANGED clCount
  /\ UNCHANGED <<clLim, clMade, clLsn>>

(* trackedConn.Close, and Close of a bare or a rejected connection.        *)
CloseTCP(c) ==
  /\ clConn[c].kind = "tcp" /\ clConn[c].st \in {"open", "refused"}
  /\ clCount' = IF clConn[c].acq THEN Released(clConn[c].lim, clConn[c].ip) ELSE clCount
  /\ clConn' = [clConn EXCEPT ![c] = IdleConn]
  /\ UNCHANGED <<clLim, clMade, clLsn>>

(* ConnState at StateNew: over the cap the connection is closed, and       *)
(* net/http reports its StateClosed later like any other's.                *)
HTTPNew(c, ip) ==
  /\ clConn[c].st = "none"
  /\ LET l == clLsn["http"]
         ok == l /= NilLim /\ HasRoom(l, ip)
     IN /\ clConn' = [clConn EXCEPT ![c] =
                        [st |-> IF l = NilLim \/ ok THEN "open" ELSE "refused",
                         kind |-> "http", ip |-> ip, lim |-> l, acq |-> ok]]
        /\ clCount' = IF ok THEN Acquired(l, ip) ELSE clCount
  /\ UNCHANGED <<clLim, clMade, clLsn>>

(* Mutant: the slot is released against the Manager's present limiter.     *)
HTTPClosedPresentLimiter(c) ==
  /\ clConn[c].kind = "http" /\ clConn[c].st \in {"open", "refused"}
  /\ clCount' = IF clConn[c].acq /\ clLim["http"] /= NilLim
                THEN Released(clLim["http"], clConn[c].ip) ELSE clCount
  /\ clConn' = [clConn EXCEPT ![c] = IdleConn]
  /\ UNCHANGED <<clLim, clMade, clLsn>>

(* StateClosed: only a connection found in acquired gives its slot back.   *)
HTTPClosed(c) ==
  /\ clConn[c].kind = "http" /\ clConn[c].st \in {"open", "refused"}
  /\ clCount' = IF clConn[c].acq THEN Released(clConn[c].lim, clConn[c].ip) ELSE clCount
  /\ clConn' = [clConn EXCEPT ![c] = IdleConn]
  /\ UNCHANGED <<clLim, clMade, clLsn>>

(* StateHijacked: the slot goes back now; net/http reports nothing more.   *)
HTTPHijacked(c) ==
  /\ clConn[c].kind = "http" /\ clConn[c].st = "open"
  /\ clCount' = IF clConn[c].acq THEN Released(clConn[c].lim, clConn[c].ip) ELSE clCount
  /\ clConn' = [clConn EXCEPT ![c].st = "hijacked", ![c].acq = FALSE]
  /\ UNCHANGED <<clLim, clMade, clLsn>>

(* External: the owner of a hijacked connection closes it.                 *)
HijackedEnds(c) ==
  /\ clConn[c].st = "hijacked"
  /\ clConn' = [clConn EXCEPT ![c] = IdleConn]
  /\ UNCHANGED <<clLim, clMade, clLsn, clCount>>

CLNext ==
  \/ \E t, h \in BOOLEAN : SetConnLimits(t, h)
  \/ \E k \in CLKinds : ListenerStarts(k)
  \/ \E c \in CLConns, ip \in CLAddrs : AcceptTCP(c, ip) \/ HTTPNew(c, ip)
  \/ \E c \in CLConns : CloseTCP(c) \/ HTTPClosed(c) \/ HTTPHijacked(c) \/ HijackedEnds(c)

CLSpec == CLInit /\ [][CLNext]_CLVars

-----------------------------------------------------------------------------
(* Limiters, listeners and connections are well formed, and a limiter      *)
(* never counts more connections of one address than its maximum (acquire, *)
(* release).                                                               *)
CLTypeOK ==
  /\ clLim \in [CLKinds -> Limiters \cup {NilLim}]
  /\ clLsn \in [CLKinds -> Limiters \cup {NilLim}]
  /\ clMade \in 1..(CLSwaps + 1)
  /\ clCount \in [Limiters -> [CLIPs -> 0..CLMax]]
  /\ clConn \in [CLConns -> [st : {"none", "open", "refused", "hijacked"}, kind : CLKinds,
                             ip : CLAddrs, lim : Limiters \cup {NilLim}, acq : BOOLEAN]]

(* The connections of ip that a limiter counts.                            *)
Holders(l, ip) == {c \in CLConns : clConn[c].acq /\ clConn[c].lim = l /\ clConn[c].ip = ip}

(* A limiter's count of an address is exactly its open connections, after  *)
(* any order of refusals, hijacks, late StateClosed callbacks and limiter  *)
(* swaps: a slot is neither leaked (the address would be locked out for    *)
(* good) nor given back twice (the cap would grow).                        *)
SlotsExact == \A l \in Limiters, ip \in CLIPs : clCount[l][ip] = Cardinality(Holders(l, ip))

(* A connection is turned away only while its own address really holds     *)
(* the whole cap at that listener.                                         *)
RefusedOnlyAtCap ==
  [][\A c \in CLConns :
       clConn[c].st = "none" /\ clConn'[c].st = "refused" =>
         /\ clConn'[c].ip /= NoIP
         /\ Cardinality(Holders(clConn'[c].lim, clConn'[c].ip)) = CLMax]_CLVars

(* The connection caps: no address counts more than the cap, and a count   *)
(* is exactly the open connections (acquire, release, HTTPConnState).      *)
ConnCapsHold == CLTypeOK /\ SlotsExact
=============================================================================
