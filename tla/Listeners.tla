------------------------------ MODULE Listeners ------------------------------
(***************************************************************************)
(* The DNS listeners' lifecycle: Manager.Start, Shutdown and Restart       *)
(* (servers.go, doh.go, doq_server.go), called by the config reload and,   *)
(* with nothing between them, by the certificate reload (main.go), and the *)
(* rebinding of the dashboard's web server that follows.                   *)
(***************************************************************************)
EXTENDS Integers, Sequences, FiniteSets

CONSTANTS
  LSCallers,   (* goroutines that call Restart                              *)
  LSProtos,    (* the enabled listeners, in the order Start starts them     *)
  LSResults,   (* capacity of the results channel (8 in the code)           *)
  LSRestarts   (* bound: calls of Restart                                   *)

ASSUME LSAssumption ==
  /\ IsFiniteSet(LSCallers) /\ LSResults \in Nat \ {0} /\ LSRestarts \in Nat
  /\ LSProtos \in Seq({"udp", "tcp", "dot", "doh", "doh3", "doq"})

VARIABLES
  lsOpen,     (* open listening sockets: protocol and the Restart that made it *)
  lsReg,      (* udpSrvs, doqLns and http3Pcs: appended under m.mu          *)
  lsServers,  (* m.servers: plain-TCP and DoT servers, appended without it  *)
  lsHTTP,     (* m.httpSrv: the DoH server's one slot                       *)
  lsServing,  (* dns.Servers whose ActivateAndServe goroutine has run       *)
  lsShut,     (* DoH servers whose Shutdown was called                      *)
  lsOp,       (* progress of each caller                                    *)
  lsRes,      (* results queued in the channel                              *)
  lsDoqEnds,  (* accept loops of closed DoQ listeners yet to report         *)
  lsWeb,      (* the web server: current, open, shut down, rebind jobs, and *)
              (* whether the last start failed                              *)
  lsHist      (* history: restarts, last outcome, reports, races            *)

LSVars == <<lsOpen, lsReg, lsServers, lsHTTP, lsServing, lsShut, lsOp,
            lsRes, lsDoqEnds, lsWeb, lsHist>>

Protos == {LSProtos[i] : i \in 1..Len(LSProtos)}
SoftProtos == {"udp", "tcp", "dot"} (* a bind failure is only reported       *)
DNSServers == {"tcp", "dot"}       (* miekg/dns servers                     *)
ReusePort == {"udp", "doh3", "doq"} (* SO_REUSEPORT sockets                 *)
NoSock == [p |-> "none", g |-> 0]
Sock(p, g) == [p |-> p, g |-> g]
Of(S, p) == {s \in S : s.p = p}

IdleOp == [st |-> "idle", i |-> 0, g |-> 0, snap |-> {}]

LSInit ==
  /\ lsOpen = {Sock(p, 0) : p \in Protos}
  /\ lsReg = {Sock(p, 0) : p \in Protos \cap ReusePort}
  /\ lsServers = {Sock(p, 0) : p \in Protos \cap DNSServers}
  /\ lsHTTP = IF "doh" \in Protos THEN Sock("doh", 0) ELSE NoSock
  /\ lsServing = lsServers
  /\ lsShut = {}
  /\ lsOp = [c \in LSCallers |-> IdleOp]
  /\ lsRes = 0 /\ lsDoqEnds = 0
  /\ lsWeb = [cur |-> 0, open |-> {0}, shut |-> {}, jobs |-> {}, failed |-> FALSE]
  /\ lsHist = [restarts |-> 0, last |-> [g |-> 0, ok |-> TRUE], reported |-> {},
               raced |-> FALSE, webCrossed |-> FALSE]

-----------------------------------------------------------------------------
(* Restart is called: a new TLS config has been loaded for it (g).         *)
RestartCalled(c) ==
  /\ lsOp[c] = IdleOp /\ lsHist.restarts < LSRestarts
  /\ lsOp' = [lsOp EXCEPT ![c] = [IdleOp EXCEPT !.st = "stop", !.g = lsHist.restarts + 1]]
  /\ lsHist' = [lsHist EXCEPT !.restarts = @ + 1,
                              !.raced = @ \/ \E o \in LSCallers : lsOp[o] /= IdleOp]
  /\ UNCHANGED <<lsOpen, lsReg, lsServers, lsHTTP, lsServing, lsShut, lsRes, lsDoqEnds, lsWeb>>

(* Mutant: the QUIC listeners are not closed.                              *)
StoppedButQUIC == (lsServers \cap lsServing) \cup (lsReg \ Of(lsReg, "doq")) \cup {lsHTTP}

(* What Shutdown closes: a dns.Server that has not started refuses to be   *)
(* shut down and keeps its listener; the others own or track their socket. *)
Stopped == (lsServers \cap lsServing) \cup lsReg \cup {lsHTTP}

(* Manager.Shutdown, under m.mu                                            *)
StopListeners(c) ==
  /\ lsOp[c].st = "stop"
  /\ lsOpen' = lsOpen \ Stopped
  /\ lsShut' = lsShut \cup {lsHTTP}
  /\ lsDoqEnds' = lsDoqEnds + Cardinality(Of(lsReg \cap lsOpen, "doq"))
  /\ lsOp' = [lsOp EXCEPT ![c].st = "clear"]
  /\ lsHist' = [lsHist EXCEPT !.raced = @ \/ ~(lsServers \subseteq lsServing)]
  /\ UNCHANGED <<lsReg, lsServers, lsHTTP, lsServing, lsRes, lsWeb>>

(* The registry is emptied, under m.mu again.                              *)
ClearRegistry(c) ==
  /\ lsOp[c].st = "clear"
  /\ lsReg' = {} /\ lsServers' = {} /\ lsHTTP' = NoSock
  /\ lsOp' = [lsOp EXCEPT ![c].st = "bind", ![c].i = 1]
  /\ UNCHANGED <<lsOpen, lsServing, lsShut, lsRes, lsDoqEnds, lsWeb, lsHist>>

(* The protocol Start has come to.  Its address can be bound unless,       *)
(* without SO_REUSEPORT, an old socket of ours is on it; while none is,    *)
(* another process may hold it, so binding it may fail.                    *)
Starting(c, p) == lsOp[c].st = "bind" /\ lsOp[c].i <= Len(LSProtos) /\ p = LSProtos[lsOp[c].i]
BindOK(p) == p \in ReusePort \/ Of(lsOpen, p) = {}
BindFails(p) == p \notin ReusePort \/ Of(lsOpen, p) = {}
Advanced(c) == [lsOp EXCEPT ![c].st = "bind", ![c].i = @ + 1, ![c].snap = {}]
Ended(c) == [lsOp EXCEPT ![c] = IdleOp]
Outcome(c, ok) == [lsHist EXCEPT !.last = [g |-> lsOp[c].g, ok |-> ok]]

(* startClassic, startDoT, startDoH3, startDoQ: the socket is bound ...    *)
Bind(c, p) ==
  /\ Starting(c, p) /\ p /= "doh" /\ BindOK(p)
  /\ lsOpen' = lsOpen \cup {Sock(p, lsOp[c].g)}
  /\ lsOp' = [lsOp EXCEPT ![c].st = "register", ![c].snap = lsServers]
  /\ UNCHANGED <<lsReg, lsServers, lsHTTP, lsServing, lsShut, lsRes, lsDoqEnds, lsWeb, lsHist>>

(* ... and registered; m.servers = append(m.servers, srv) holds no lock.   *)
Register(c) ==
  /\ lsOp[c].st = "register"
  /\ LET p == LSProtos[lsOp[c].i]
         s == Sock(p, lsOp[c].g)
     IN IF p \in DNSServers
        THEN lsServers' = lsOp[c].snap \cup {s} /\ UNCHANGED lsReg
        ELSE lsReg' = lsReg \cup {s} /\ UNCHANGED lsServers
  /\ lsOp' = Advanced(c)
  /\ UNCHANGED <<lsOpen, lsHTTP, lsServing, lsShut, lsRes, lsDoqEnds, lsWeb, lsHist>>

(* A plain listener that does not bind is put on the results channel.      *)
BindReported(c, p) ==
  /\ Starting(c, p) /\ p \in SoftProtos /\ BindFails(p)
  /\ lsRes < LSResults
  /\ lsRes' = lsRes + 1
  /\ lsHist' = [lsHist EXCEPT !.reported = @ \cup {Sock(p, lsOp[c].g)}]
  /\ lsOp' = Advanced(c)
  /\ UNCHANGED <<lsOpen, lsReg, lsServers, lsHTTP, lsServing, lsShut, lsDoqEnds, lsWeb>>

(* An encrypted one ends Restart with the error, what it started kept.     *)
BindRefused(c, p) ==
  /\ Starting(c, p) /\ p \notin SoftProtos /\ p /= "doh" /\ BindFails(p)
  /\ lsOp' = Ended(c)
  /\ lsHist' = Outcome(c, FALSE)
  /\ UNCHANGED <<lsOpen, lsReg, lsServers, lsHTTP, lsServing, lsShut, lsRes, lsDoqEnds, lsWeb>>

(* startDoH takes the slot before it binds ...                             *)
TakeHTTPSlot(c) ==
  /\ Starting(c, "doh")
  /\ lsHTTP' = Sock("doh", lsOp[c].g)
  /\ lsOp' = [lsOp EXCEPT ![c].st = "doh"]
  /\ UNCHANGED <<lsOpen, lsReg, lsServers, lsServing, lsShut, lsRes, lsDoqEnds, lsWeb, lsHist>>

(* ... and a server that was shut down meanwhile closes its listener.      *)
BindDoH(c) ==
  /\ lsOp[c].st = "doh"
  /\ LET s == Sock("doh", lsOp[c].g)
     IN \/ /\ BindOK("doh")
           /\ lsOpen' = IF s \in lsShut THEN lsOpen ELSE lsOpen \cup {s}
           /\ lsOp' = Advanced(c)
           /\ UNCHANGED lsHist
        \/ /\ BindFails("doh")
           /\ lsOp' = Ended(c)
           /\ lsHist' = Outcome(c, FALSE)
           /\ UNCHANGED lsOpen
  /\ UNCHANGED <<lsReg, lsServers, lsHTTP, lsServing, lsShut, lsRes, lsDoqEnds, lsWeb>>

(* The serving goroutine of a dns.Server runs.                             *)
ServeStarts(s) ==
  /\ s.p \in DNSServers /\ s \in lsOpen \ lsServing
  /\ \A c \in LSCallers : ~(lsOp[c].st = "register" /\ s = Sock(LSProtos[lsOp[c].i], lsOp[c].g))
  /\ lsServing' = lsServing \cup {s}
  /\ UNCHANGED <<lsOpen, lsReg, lsServers, lsHTTP, lsShut, lsOp, lsRes, lsDoqEnds, lsWeb, lsHist>>

(* Restart returns nil; ReloadTLS always, Reload when the address or TLS   *)
(* mode changed, then swaps webSrv under webMu and spawns the rebinding.   *)
RestartDone(c, rebind) ==
  /\ lsOp[c].st = "bind" /\ lsOp[c].i > Len(LSProtos)
  /\ lsOp' = Ended(c)
  /\ IF rebind
     THEN /\ lsWeb' = [lsWeb EXCEPT !.cur = lsOp[c].g,
                                    !.jobs = @ \cup {[old |-> lsWeb.cur, new |-> lsOp[c].g, st |-> "stop"]}]
          /\ lsHist' = [Outcome(c, TRUE) EXCEPT !.webCrossed = lsWeb.jobs /= {}]
     ELSE UNCHANGED lsWeb /\ lsHist' = Outcome(c, TRUE)
  /\ UNCHANGED <<lsOpen, lsReg, lsServers, lsHTTP, lsServing, lsShut, lsRes, lsDoqEnds>>

-----------------------------------------------------------------------------
(* A rebinding goroutine: the old server is shut down ...                  *)
WebStops(j) ==
  /\ j.st = "stop"
  /\ lsWeb' = [lsWeb EXCEPT !.jobs = (@ \ {j}) \cup {[j EXCEPT !.st = "start"]},
                            !.shut = @ \cup {j.old}, !.open = @ \ {j.old}]
  /\ UNCHANGED <<lsOpen, lsReg, lsServers, lsHTTP, lsServing, lsShut, lsOp, lsRes, lsDoqEnds, lsHist>>

(* ... and the new one serves, unless its port is taken, by our own or by  *)
(* another process, its certificate does not load, or it has itself been   *)
(* shut down already: startWebServer logs the error and nothing retries.   *)
WebStarts(j, starts) ==
  /\ j.st = "start"
  /\ lsWeb' = [lsWeb EXCEPT !.jobs = @ \ {j}, !.failed = ~starts,
                            !.open = IF starts /\ @ = {} /\ j.new \notin lsWeb.shut THEN {j.new} ELSE @]
  /\ UNCHANGED <<lsOpen, lsReg, lsServers, lsHTTP, lsServing, lsShut, lsOp, lsRes, lsDoqEnds, lsHist>>

(* The accept loop of a closed DoQ listener reports its end.               *)
DoQEnds ==
  /\ lsDoqEnds > 0 /\ lsRes < LSResults
  /\ lsDoqEnds' = lsDoqEnds - 1 /\ lsRes' = lsRes + 1
  /\ UNCHANGED <<lsOpen, lsReg, lsServers, lsHTTP, lsServing, lsShut, lsOp, lsWeb, lsHist>>

(* main's goroutine logs what the channel carries.                         *)
DrainResults ==
  /\ lsRes > 0
  /\ lsRes' = lsRes - 1
  /\ UNCHANGED <<lsOpen, lsReg, lsServers, lsHTTP, lsServing, lsShut, lsOp, lsDoqEnds, lsWeb, lsHist>>

RestartStep(c) ==
  \/ StopListeners(c) \/ ClearRegistry(c) \/ Register(c) \/ TakeHTTPSlot(c) \/ BindDoH(c)
  \/ \E p \in Protos : Bind(c, p) \/ BindReported(c, p) \/ BindRefused(c, p)
  \/ \E rebind \in BOOLEAN : RestartDone(c, rebind)

LSNext ==
  \/ \E c \in LSCallers : RestartCalled(c) \/ RestartStep(c)
  \/ \E s \in lsOpen : ServeStarts(s)
  \/ \E j \in lsWeb.jobs : WebStops(j) \/ \E starts \in BOOLEAN : WebStarts(j, starts)
  \/ DoQEnds \/ DrainResults

LSSpec == LSInit /\ [][LSNext]_LSVars

(* A caller runs on (Shutdown is bounded by its five-second context), the  *)
(* draining goroutine runs on.                                             *)
LSFairness == (\A c \in LSCallers : WF_LSVars(RestartStep(c))) /\ WF_LSVars(DrainResults)
LSFairSpec == LSSpec /\ LSFairness

-----------------------------------------------------------------------------
LSQuiet == \A c \in LSCallers : lsOp[c] = IdleOp

(* Sockets are of a known listener and generation, and the results channel *)
(* stays within its buffer (Start, Restart).                               *)
LSTypeOK ==
  /\ lsOpen \subseteq {Sock(p, g) : p \in Protos, g \in 0..LSRestarts}
  /\ lsReg \cup lsServers \cup lsServing \subseteq {Sock(p, g) : p \in Protos, g \in 0..LSRestarts}
  /\ lsRes \in 0..LSResults
  /\ \A c \in LSCallers : lsOp[c].i \in 0..(Len(LSProtos) + 1)

(* Every listening socket is in the registry, so that the next Restart or  *)
(* Shutdown can stop it: after restarts that failed half way too, unless   *)
(* two restarts overlapped or one met a server that had not yet started.   *)
ListenersTracked ==
  LSQuiet /\ ~lsHist.raced => lsOpen \subseteq lsReg \cup lsServers \cup {lsHTTP}

(* A Restart that returned nil has every encrypted listener serving its    *)
(* own certificate, every plain one too or reported, and no older socket.  *)
RestartOutcome ==
  LSQuiet /\ ~lsHist.raced /\ lsHist.last.ok =>
    /\ \A p \in Protos : \/ Sock(p, lsHist.last.g) \in lsOpen
                         \/ p \in SoftProtos /\ Sock(p, lsHist.last.g) \in lsHist.reported
    /\ \A s \in lsOpen : s.g = lsHist.last.g

(* Unless two rebindings overlap, the dashboard's web server is back when  *)
(* they have ended, and it is the one webSrv names; if its start failed    *)
(* there is none, and the next rebinding brings it back.                   *)
WebServerBack ==
  lsWeb.jobs = {} /\ ~lsHist.webCrossed => lsWeb.open = IF lsWeb.failed THEN {} ELSE {lsWeb.cur}

(* Every Restart returns, whatever does not bind and however full the      *)
(* results channel is.                                                     *)
RestartReturns == \A c \in LSCallers : (lsOp[c] /= IdleOp) ~> (lsOp[c] = IdleOp)

(* The listeners as a whole: every socket can be stopped by the next       *)
(* Restart, a Restart that succeeded left no old one, and the web server   *)
(* is back if it could start (Start, Restart, Shutdown, startWebServer).   *)
ListenersSound ==
  /\ LSTypeOK
  /\ ListenersTracked
  /\ RestartOutcome
  /\ WebServerBack
=============================================================================
