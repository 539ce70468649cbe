------------------------------ MODULE Recursive ------------------------------
(***************************************************************************)
(* The iterative resolver (recursive/resolver.go): clients' referral walks,*)
(* with QNAME minimisation and CNAME chasing, and the walks for the        *)
(* addresses of nameservers named without glue, which nest and are shared  *)
(* through nsFlight.  Servers are external and may say anything: whether a *)
(* question is still minimised and whether a referral leads to a zone seen *)
(* before, which names decide, is left open.                               *)
(***************************************************************************)
EXTENDS Integers, FiniteSets

CONSTANTS
  RCClients, RCHosts,  (* client queries; nameservers without glue          *)
  RCMaxDepth,          (* maxNSResolveDepth                                 *)
  RCMaxHops,           (* maxHops                                           *)
  RCMaxCNAME           (* maxCNAMEChain                                     *)

ASSUME RCAssumption == {RCMaxDepth, RCMaxHops, RCMaxCNAME} \subseteq Nat

VARIABLES
  rcWalk,   (* the resolve running for each client and for each flight      *)
  rcAddr,   (* nsAddrs: hosts whose address is cached                       *)
  rcRes     (* what each client was told                                    *)
RCVars == <<rcWalk, rcAddr, rcRes>>

Walks == (RCClients \X {0}) \cup (RCHosts \X (1..RCMaxDepth))
NSDepth(w) == w[2]

NoWalk == [pc |-> "idle", hops |-> 0, cname |-> 0, type |-> "A",
           late |-> FALSE, new |-> {}, joined |-> {}, servers |-> FALSE]

RCInit ==
  /\ rcWalk = [w \in Walks |-> NoWalk]
  /\ rcAddr = {}
  /\ rcRes = [c \in RCClients |-> "-"]

(* The head of resolve: a fresh walk from the deepest delegation known.    *)
Resolving(cname, type, late) == [NoWalk EXCEPT !.pc = "ask", !.cname = cname, !.type = type, !.late = late]

(* Resolve, once for each client                                           *)
ClientAsks(c) ==
  /\ rcWalk[<<c, 0>>].pc = "idle" /\ rcRes[c] = "-"
  /\ rcWalk' = [rcWalk EXCEPT ![<<c, 0>>] = Resolving(0, "A", FALSE)]
  /\ UNCHANGED <<rcAddr, rcRes>>

-----------------------------------------------------------------------------
(* resolveNSAddr's flights                                                 *)

(* Mutant: flights are keyed by the host alone.                            *)
FlightKeyHost(h, depth) == <<h, 1>>
(* The key of a lookup that a walk of the depth before asks for.           *)
FlightKey(h, depth) == <<h, depth>>

Waits(w, f) == \E h \in rcWalk[w].joined : FlightKey(h, NSDepth(w) + 1) = f

(* The flight of f ends: everybody who waits for it is told.               *)
Told(f, ok) ==
  [w \in Walks |->
     IF w = f THEN NoWalk
     ELSE IF Waits(w, f) THEN [rcWalk[w] EXCEPT !.joined = @ \ {f[1]}, !.servers = @ \/ ok]
     ELSE rcWalk[w]]

(* What a resolve comes to: "addr" (records of the type asked for), "none" *)
(* (a reply without), or "err".  A failure behind a CNAME leaves the CNAME *)
(* alone.  A flight tries AAAA after A, and caches the address it finds.   *)
Ends(w, result) ==
  LET r == IF result = "err" /\ rcWalk[w].cname > 0 THEN "none" ELSE result IN
  IF NSDepth(w) = 0
  THEN /\ rcWalk' = [rcWalk EXCEPT ![w] = NoWalk]
       /\ rcRes' = [rcRes EXCEPT ![w[1]] = IF r = "err" THEN "error" ELSE "reply"]
       /\ UNCHANGED rcAddr
  ELSE /\ UNCHANGED rcRes
       /\ rcAddr' = IF r = "addr" THEN rcAddr \cup {w[1]} ELSE rcAddr
       /\ rcWalk' = IF r /= "addr" /\ rcWalk[w].type = "A"
                    THEN [rcWalk EXCEPT ![w] = Resolving(0, "AAAA", @.late)]
                    ELSE Told(w, r = "addr")

(* A walk asks for a host: cached, or a flight it joins or starts, under   *)
(* its own context.                                                        *)
Lookup(w, h) ==
  LET f == FlightKey(h, NSDepth(w) + 1)
      asked == [rcWalk EXCEPT ![w].new = @ \ {h}]
      joins == [asked EXCEPT ![w].joined = @ \cup {h}]
  IN
  /\ rcWalk[w].pc = "ns" /\ h \in rcWalk[w].new
  /\ rcWalk' = IF h \in rcAddr THEN [asked EXCEPT ![w].servers = TRUE]
               ELSE IF rcWalk[f].pc /= "idle" THEN joins
               ELSE [joins EXCEPT ![f] = [NoWalk EXCEPT !.pc = "begin", !.late = rcWalk[w].late]]
  /\ UNCHANGED <<rcAddr, rcRes>>

(* The flight looks into the cache again before it walks.                  *)
FlightBegins(f) ==
  /\ rcWalk[f].pc = "begin"
  /\ rcWalk' = IF f[1] \in rcAddr THEN Told(f, TRUE)
               ELSE [rcWalk EXCEPT ![f] = Resolving(0, "A", @.late)]
  /\ UNCHANGED <<rcAddr, rcRes>>

(* ctx.Done while waiting: whatever the leader has cached by now; no       *)
(* server answers under this context any more.                             *)
GivesUpWaiting(w, h) ==
  /\ h \in rcWalk[w].joined
  /\ rcWalk' = [rcWalk EXCEPT ![w].joined = @ \ {h}, ![w].servers = @ \/ h \in rcAddr, ![w].late = TRUE]
  /\ UNCHANGED <<rcAddr, rcRes>>

AddrExpires(h) == h \in rcAddr /\ rcAddr' = rcAddr \ {h} /\ UNCHANGED <<rcWalk, rcRes>>

-----------------------------------------------------------------------------
(* resolve: a reply arrives within the hops and the context.               *)
Asking(w) == rcWalk[w].pc = "ask" /\ rcWalk[w].hops < RCMaxHops /\ ~rcWalk[w].late

(* queryServers: no server answered in time; or the hops are used up.      *)
AskFails(w) == rcWalk[w].pc = "ask" /\ Ends(w, "err")

(* A reply with NS records is a referral, whatever else it holds: the      *)
(* hosts without glue are looked up unless the nesting is too deep.        *)
AskReferral(w, hosts, glue) ==
  /\ Asking(w) /\ (hosts /= {} \/ glue)
  /\ rcWalk' = [rcWalk EXCEPT ![w].pc = "ns", ![w].hops = @ + 1, ![w].servers = glue, ![w].joined = {},
                              ![w].new = IF NSDepth(w) < RCMaxDepth THEN hosts ELSE {}]
  /\ UNCHANGED <<rcAddr, rcRes>>

Looked(w) == rcWalk[w].pc = "ns" /\ rcWalk[w].new = {} /\ rcWalk[w].joined = {}

(* resolveNameservers is done: no server is an error ...                   *)
NoServers(w) == Looked(w) /\ ~rcWalk[w].servers /\ Ends(w, "err")
(* ... a zone seen before ends the walk with the reply as it is ...        *)
ReferralLoop(w, holds) == Looked(w) /\ rcWalk[w].servers /\ Ends(w, holds)
(* ... and any other is asked next.                                        *)
Referred(w) ==
  /\ Looked(w) /\ rcWalk[w].servers
  /\ rcWalk' = [rcWalk EXCEPT ![w].pc = "ask", ![w].servers = FALSE]
  /\ UNCHANGED <<rcAddr, rcRes>>

(* The minimised question has no delegation: the same servers are asked    *)
(* again, for one label more or, on any other rcode, for the whole name.   *)
AskMinimized(w) ==
  /\ Asking(w)
  /\ rcWalk' = [rcWalk EXCEPT ![w].hops = @ + 1]
  /\ UNCHANGED <<rcAddr, rcRes>>

(* An answer to the real question, or something that is not one.           *)
AskAnswer(w, holds) == Asking(w) /\ Ends(w, holds)

(* chaseCNAME: the target's own walk, with at least its minimum of time.   *)
FollowCNAME(w) ==
  /\ Asking(w) /\ rcWalk[w].cname < RCMaxCNAME
  /\ rcWalk' = [rcWalk EXCEPT ![w] = Resolving(@.cname + 1, @.type, FALSE)]
  /\ UNCHANGED <<rcAddr, rcRes>>
(* The chain is too long: the alias alone.                                 *)
CNAMETooLong(w) == Asking(w) /\ rcWalk[w].cname = RCMaxCNAME /\ Ends(w, "none")

-----------------------------------------------------------------------------
ResolveStep(w) ==
  \/ AskFails(w) \/ FollowCNAME(w) \/ CNAMETooLong(w) \/ AskMinimized(w)
  \/ \E holds \in {"addr", "none"} : AskAnswer(w, holds)
  \/ \E hosts \in SUBSET RCHosts, glue \in BOOLEAN : AskReferral(w, hosts, glue)
  \/ NoServers(w) \/ Referred(w) \/ \E holds \in {"addr", "none"} : ReferralLoop(w, holds)
  \/ FlightBegins(w) \/ \E h \in RCHosts : Lookup(w, h)
RCNext ==
  \/ \E c \in RCClients : ClientAsks(c)
  \/ \E w \in Walks : ResolveStep(w) \/ \E h \in RCHosts : GivesUpWaiting(w, h)
  \/ \E h \in RCHosts : AddrExpires(h)

RCSpec == RCInit /\ [][RCNext]_RCVars

-----------------------------------------------------------------------------
(* Hops and chains stay within their bounds (resolve).                     *)
RCTypeOK ==
  /\ rcAddr \subseteq RCHosts
  /\ rcRes \in [RCClients -> {"-", "reply", "error"}]
  /\ \A w \in Walks :
       /\ rcWalk[w].hops <= RCMaxHops /\ rcWalk[w].cname <= RCMaxCNAME
       /\ rcWalk[w].new \cap rcWalk[w].joined = {}

(* Nobody waits for a flight that nobody runs, at any depth of nesting and *)
(* however contexts expire: the end of a flight reaches everybody who      *)
(* joined it (resolveNSAddr, DoChan).                                      *)
WaitersHaveFlights ==
  \A w \in Walks, h \in RCHosts :
    h \in rcWalk[w].joined => rcWalk[FlightKey(h, NSDepth(w) + 1)].pc /= "idle"

(* No walk waits, through others, for itself, although nameservers' names  *)
(* may lead back to each other: a walk that looks up its own host gets a   *)
(* flight of its own (the depth in resolveNSAddr's key).  A ring of waits  *)
(* is a set of walks each of which waits for one of them.                  *)
NoCircularWait ==
  \A S \in SUBSET Walks : (\A w \in S : \E f \in S : Waits(w, f)) => S = {}

(* The resolver's walks stay within their bounds, and whoever waits for a  *)
(* nameserver's address waits for a walk that is under way and in the end  *)
(* for one that waits for nobody (resolve, resolveNSAddr).                 *)
RecursionSound == RCTypeOK /\ WaitersHaveFlights /\ NoCircularWait
=============================================================================
