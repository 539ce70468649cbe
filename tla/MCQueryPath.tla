----------------------------- MODULE MCQueryPath -----------------------------
(***************************************************************************)
(* The path of a query and what it meets on the way: identical queries with*)
(* one background refresh, the connection slots, the handler settings, the *)
(* client a query is attributed to, the question put to several upstreams, *)
(* and the recursive resolver.  A behaviour follows one component, named   *)
(* by focus, and the others keep their initial state, so the instances add *)
(* up instead of multiplying.  Liveness rules out symmetry.                *)
(***************************************************************************)
EXTENDS QueryPath, ConnLimits, HandlerSettings, ClientIdentity, Forward, Recursive

VARIABLE focus   (* the component this behaviour is about               *)
MCVars == <<focus, vars, CLVars, HSVars, CIVars, FWVars, RCVars>>

(* r2 is the one client with an ASN; g1 names it, g2 names the networks of *)
(* r1 and r2, g0 is disabled.                                              *)
CIASNDef == [a \in CIAddrs |-> IF a = "r2" THEN 2 ELSE 0]
CIConfigsDef ==
  {<<[id |-> "g1", enabled |-> TRUE,  nets |-> {},           asns |-> {2}],
     [id |-> "g2", enabled |-> TRUE,  nets |-> {"r1", "r2"}, asns |-> {}],
     [id |-> "g0", enabled |-> FALSE, nets |-> {"r1"},       asns |-> {}]>>}

MCInit ==
  /\ focus \in {"query", "slots", "settings", "identity", "forward", "nested", "shared"}
  /\ IF focus = "identity" THEN TRUE ELSE ciACL = CIAddrs /\ ciProxy = [trusted |-> {}, hops |-> 1]
  /\ IF focus = "forward" THEN TRUE ELSE fwMode = "race"
  /\ Init
  /\ CLInit
  /\ HSInit
  /\ CIInit
  /\ FWInit
  /\ RCInit

QueryStep == focus = "query" /\ Next /\ UNCHANGED <<focus, CLVars, HSVars, CIVars, FWVars, RCVars>>
SlotsStep == focus = "slots" /\ CLNext /\ UNCHANGED <<focus, vars, HSVars, CIVars, FWVars, RCVars>>
SettingsStep == focus = "settings" /\ HSNext /\ UNCHANGED <<focus, vars, CLVars, CIVars, FWVars, RCVars>>
IdentityStep == focus = "identity" /\ CINext /\ UNCHANGED <<focus, vars, CLVars, HSVars, FWVars, RCVars>>
ForwardStep == focus = "forward" /\ FWNext /\ UNCHANGED <<focus, vars, CLVars, HSVars, CIVars, RCVars>>
(* The resolver in two slices: one client whose nameserver lookups nest,   *)
(* or two that share lookups, which find glue.                             *)
NestedStep == /\ focus = "nested" /\ RCNext
              /\ \A c \in RCClients \ {CHOOSE d \in RCClients : TRUE} : rcWalk'[<<c, 0>>] = NoWalk
              /\ UNCHANGED <<focus, vars, CLVars, HSVars, CIVars, FWVars>>
SharedStep == /\ focus = "shared" /\ RCNext
              /\ \A w \in Walks : NSDepth(w) > 0 => rcWalk'[w].new = {}
              /\ UNCHANGED <<focus, vars, CLVars, HSVars, CIVars, FWVars>>

MCNext ==
  \/ QueryStep
  \/ SlotsStep
  \/ SettingsStep
  \/ IdentityStep
  \/ ForwardStep
  \/ NestedStep
  \/ SharedStep
  \/ focus /= "query" /\ UNCHANGED MCVars    (* a bounded instance ends *)

(* QueryPath's own fairness, when it is the one that runs.                 *)
MCFairness ==
  /\ \A x \in Queries : WF_vars(focus = "query" /\ alive /\ Serve(x))
  /\ WF_vars(focus = "query" /\ alive /\ Background)

MCSpec == MCInit /\ [][MCNext]_MCVars /\ MCFairness
=============================================================================
