---------------------------- MODULE ClientIdentity ----------------------------
(***************************************************************************)
(* Who a query is from and which policy it gets: the client address behind *)
(* reverse proxies (clientIPFromRequest, doh.go; the QUIC peer,            *)
(* doq_server.go), the allow-list (acl.go), and the client groups          *)
(* (BuildClientRouter, policy.go; ClientRouter, clients.go), whose per-IP  *)
(* cache is filled by concurrent queries without a lock.                   *)
(***************************************************************************)
EXTENDS Integers, Sequences, FiniteSets

CONSTANTS
  CIThreads,   (* concurrent queries                                        *)
  CIClients,   (* addresses of real clients                                 *)
  CIForged,    (* addresses clients write into X-Forwarded-For             *)
  CIProxies,   (* addresses of reverse proxies                              *)
  CIASN,       (* ip2asn: address -> ASN (0: none)                          *)
  CIConfigs,   (* the client_groups sections tried                          *)
  CIMaxCache,  (* maxPolicyCache                                            *)
  CIQueries    (* bound: queries                                            *)

ASSUME CIAssumption ==
  /\ IsFiniteSet(CIThreads) /\ CIThreads /= {} /\ CIForged \subseteq CIClients
  /\ CIMaxCache \in Nat \ {0} /\ CIQueries \in Nat

VARIABLES
  ciProxy,    (* Manager.trustedProxies and xffHops                         *)
  ciACL,      (* the ACL, or every address when server.allow_from is empty  *)
  ciGroups,   (* the published router's entries, in configuration order     *)
  ciCache,    (* its cache: addresses resolved so far, with their policy    *)
  ciSize,     (* its cacheSize                                              *)
  ciThread,   (* progress of each query                                     *)
  ciQueries   (* queries so far                                             *)

CIVars == <<ciProxy, ciACL, ciGroups, ciCache, ciSize, ciThread, ciQueries>>

Junk == "junk"                        (* an entry net.ParseIP rejects        *)
CIAddrs == CIClients \cup CIProxies
NoPolicy == "global"                  (* nil: the global policy applies      *)
Free == [st |-> "free", real |-> Junk, ip |-> Junk, sound |-> TRUE, pol |-> NoPolicy]

-----------------------------------------------------------------------------
(* BuildClientRouter and SetPolicies: disabled groups are left out, and so *)
(* are those with neither a usable CIDR nor an ASN.                        *)
Usable(g) == g.enabled /\ (g.nets \cap CIAddrs /= {} \/ g.asns /= {})
BuildClientRouter(cfg) == SelectSeq(cfg, Usable)

(* A group has an ID, which the nil of the global policy is not.           *)
ASSUME CIGroupsNamed ==
  \A cfg \in CIConfigs :
    /\ Len(BuildClientRouter(cfg)) \in Nat
    /\ \A i \in 1..Len(BuildClientRouter(cfg)) : BuildClientRouter(cfg)[i].id /= NoPolicy

CIInit ==
  /\ ciProxy \in [trusted : SUBSET CIProxies, hops : 1..2]
  /\ ciACL \in {CIAddrs, CIClients}
  /\ \E cfg \in CIConfigs : ciGroups = BuildClientRouter(cfg)
  /\ ciCache = {} /\ ciSize = 0
  /\ ciThread = [t \in CIThreads |-> Free]
  /\ ciQueries = 0

-----------------------------------------------------------------------------
IsTrustedProxy(peer) == peer \in ciProxy.trusted

(* Mutant: the leftmost entry is taken for the client.                     *)
ForwardedIndexLeftmost(n, hops) == 1

(* The hop_limit-th entry from the right, clamped to the leftmost.         *)
ForwardedIndex(n, hops) == IF n - hops < 0 THEN 1 ELSE n - hops + 1

(* clientIPFromRequest: the header counts only from a trusted peer.        *)
ClientIPFromRequest(peer, xff) ==
  IF xff /= <<>> /\ IsTrustedProxy(peer)
  THEN LET e == xff[ForwardedIndex(Len(xff), ciProxy.hops)]
       IN IF e = Junk THEN peer ELSE e
  ELSE peer

(* ACL.Allowed                                                             *)
Allowed(ip) == ip \in ciACL

(* A request of client `real` over a path of proxies, the last of which is *)
(* the peer: the client sends `forged`, each proxy appends the address it  *)
(* was reached from.                                                       *)
Path(real, forged, proxies) ==
  IF proxies = <<>> THEN forged ELSE forged \o <<real>> \o SubSeq(proxies, 1, Len(proxies) - 1)
Peer(real, proxies) == IF proxies = <<>> THEN real ELSE proxies[Len(proxies)]

(* The operator's settings fit the path: a direct client is not trusted,   *)
(* otherwise the peer is, and no more hops are allowed than there are.     *)
Sound(real, proxies) ==
  IF proxies = <<>> THEN ~IsTrustedProxy(real)
  ELSE IsTrustedProxy(Peer(real, proxies)) /\ ciProxy.hops <= Len(proxies)

(* handleDoH up to ServeDNSFromContext, and its ACL check: a refused query *)
(* does not reach the router.                                              *)
Arrive(t, real, forged, proxies) ==
  /\ ciThread[t].st = "free" /\ ciQueries < CIQueries
  /\ ciQueries' = ciQueries + 1
  /\ LET ip == ClientIPFromRequest(Peer(real, proxies), Path(real, forged, proxies))
     IN ciThread' = [ciThread EXCEPT ![t] =
          [st |-> IF Allowed(ip) THEN "lookup" ELSE "refused",
           real |-> IF proxies = <<>> \/ ciProxy.hops = Len(proxies) THEN real ELSE Junk,
           ip |-> ip, sound |-> Sound(real, proxies), pol |-> NoPolicy]]
  /\ UNCHANGED <<ciProxy, ciACL, ciGroups, ciCache, ciSize>>

Requests == \E t \in CIThreads, real \in CIClients :
              \E forged \in {<<>>} \cup {<<a>> : a \in CIForged \cup {Junk}},
                 proxies \in {<<>>} \cup {<<p>> : p \in CIProxies} \cup {<<p, q>> : p, q \in CIProxies} :
                Arrive(t, real, forged, proxies)

(* handleDoQStream: the peer is the client, and the ACL applies.           *)
ArriveDoQ(t, real) ==
  /\ ciThread[t].st = "free" /\ ciQueries < CIQueries
  /\ ciQueries' = ciQueries + 1
  /\ ciThread' = [ciThread EXCEPT ![t] =
       [st |-> IF Allowed(real) THEN "lookup" ELSE "refused", real |-> real, ip |-> real,
        sound |-> TRUE, pol |-> NoPolicy]]
  /\ UNCHANGED <<ciProxy, ciACL, ciGroups, ciCache, ciSize>>

-----------------------------------------------------------------------------
InGroup(g, ip) == ip \in g.nets \/ CIASN[ip] \in g.asns

(* The scan of Resolve: nets, then ASNs, of each group in turn.            *)
Scan(ip) ==
  LET hits == {i \in 1..Len(ciGroups) : InGroup(ciGroups[i], ip)}
  IN IF hits = {} THEN NoPolicy ELSE ciGroups[CHOOSE i \in hits : \A j \in hits : i <= j].id

(* From here on only the address the query was attributed to matters.      *)
Routed(t, st, pol) == [Free EXCEPT !.st = st, !.ip = ciThread[t].ip, !.pol = pol]

(* Resolve: a cached answer ends it ...                                    *)
ResolveHit(t) ==
  /\ ciThread[t].st = "lookup"
  /\ \E e \in ciCache : e.ip = ciThread[t].ip /\
       ciThread' = [ciThread EXCEPT ![t] = Routed(t, "done", e.pol)]
  /\ UNCHANGED <<ciProxy, ciACL, ciGroups, ciCache, ciSize, ciQueries>>

(* ... a miss scans the groups ...                                         *)
ResolveScan(t) ==
  /\ ciThread[t].st = "lookup" /\ \A e \in ciCache : e.ip /= ciThread[t].ip
  /\ ciThread' = [ciThread EXCEPT ![t] = Routed(t, "count", Scan(ciThread[t].ip))]
  /\ UNCHANGED <<ciProxy, ciACL, ciGroups, ciCache, ciSize, ciQueries>>

(* ... counts one more entry (an atomic add) ...                           *)
ResolveCount(t) ==
  /\ ciThread[t].st = "count"
  /\ ciSize' = ciSize + 1
  /\ ciThread' = [ciThread EXCEPT ![t].st = IF ciSize' > CIMaxCache THEN "clear" ELSE "store"]
  /\ UNCHANGED <<ciProxy, ciACL, ciGroups, ciCache, ciQueries>>

(* ... past the bound empties the cache and then, separately, the count ... *)
ResolveClear(t) ==
  /\ ciThread[t].st = "clear"
  /\ ciCache' = {}
  /\ ciThread' = [ciThread EXCEPT ![t].st = "zero"]
  /\ UNCHANGED <<ciProxy, ciACL, ciGroups, ciSize, ciQueries>>

ResolveZero(t) ==
  /\ ciThread[t].st = "zero"
  /\ ciSize' = 0
  /\ ciThread' = [ciThread EXCEPT ![t].st = "store"]
  /\ UNCHANGED <<ciProxy, ciACL, ciGroups, ciCache, ciQueries>>

(* ... and stores its answer.                                              *)
ResolveStore(t) ==
  /\ ciThread[t].st = "store"
  /\ ciCache' = {e \in ciCache : e.ip /= ciThread[t].ip} \cup {[ip |-> ciThread[t].ip, pol |-> ciThread[t].pol]}
  /\ ciThread' = [ciThread EXCEPT ![t].st = "done"]
  /\ UNCHANGED <<ciProxy, ciACL, ciGroups, ciSize, ciQueries>>

(* The query is answered and the goroutine ends.                           *)
Answer(t) ==
  /\ ciThread[t].st \in {"done", "refused"}
  /\ ciThread' = [ciThread EXCEPT ![t] = Free]
  /\ UNCHANGED <<ciProxy, ciACL, ciGroups, ciCache, ciSize, ciQueries>>

CINext ==
  \/ Requests
  \/ \E t \in CIThreads :
       \/ \E real \in CIClients : ArriveDoQ(t, real)
       \/ ResolveHit(t) \/ ResolveScan(t) \/ ResolveCount(t) \/ ResolveClear(t)
       \/ ResolveZero(t) \/ ResolveStore(t) \/ Answer(t)

CISpec == CIInit /\ [][CINext]_CIVars

-----------------------------------------------------------------------------
(* The policy cache holds addresses with a group of the table, its counter *)
(* stays near the cap, and a query in hand has an address or the           *)
(* unparsable one (policyFor, clientAddr).                                 *)
CITypeOK ==
  /\ ciCache \subseteq [ip : CIAddrs, pol : {NoPolicy} \cup {ciGroups[i].id : i \in 1..Len(ciGroups)}]
  /\ ciSize \in 0..(CIMaxCache + Cardinality(CIThreads))
  /\ \A t \in CIThreads : ciThread[t].ip \in CIAddrs \cup {Junk}

(* When the proxy settings fit the deployment, the address that decides    *)
(* blocking, limits and policy is never one the client wrote itself: it is *)
(* the client's own when the chain is as long as the hop limit, and an     *)
(* address a trusted peer saw otherwise.                                   *)
ClientIsReal ==
  \A t \in CIThreads :
    ciThread[t].st \in {"lookup", "refused"} /\ ciThread[t].sound =>
      ciThread[t].ip \in CIProxies \cup {ciThread[t].real}

(* A query gets the policy of the first group, in configuration order,     *)
(* that its address matches by network or by ASN, cached or not.           *)
FirstGroupWins ==
  \A t \in CIThreads :
    ciThread[t].st = "done" =>
      LET ip == ciThread[t].ip
          mine == {i \in 1..Len(ciGroups) : ciGroups[i].id = ciThread[t].pol}
      IN IF mine = {} THEN \A i \in 1..Len(ciGroups) : ~InGroup(ciGroups[i], ip)
         ELSE \E i \in mine : InGroup(ciGroups[i], ip) /\ \A j \in 1..(i - 1) : ~InGroup(ciGroups[j], ip)

(* The cache stays bounded although its count is reset apart from it: each *)
(* query caught between the two leaves at most one more cache's worth.     *)
PolicyCacheBounded ==
  Cardinality(ciCache) <= Cardinality(CIThreads) * (CIMaxCache + 1)

(* Whose query it is: the address a trusted peer vouches for, the policy   *)
(* of the first group it matches, from a bounded cache (clientAddr,        *)
(* policyFor).                                                             *)
IdentitySound ==
  /\ CITypeOK
  /\ ClientIsReal
  /\ FirstGroupWins
  /\ PolicyCacheBounded
=============================================================================
