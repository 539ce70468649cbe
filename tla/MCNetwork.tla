------------------------------ MODULE MCNetwork ------------------------------
(***************************************************************************)
(* What decides about addresses: the DHCP leases, handled one packet at a  *)
(* time, and the geo data.  A behaviour follows one of the two, named by   *)
(* focus, and the other keeps its initial state, so the instances add up   *)
(* instead of multiplying.                                                 *)
(***************************************************************************)
EXTENDS MCDHCPLeases, GeoRefresh

VARIABLE focus   \* the component this behaviour is about
MCVars == <<focus, vars, GRVars>>

MCInit ==
  /\ focus \in {"leases", "geo"}
  /\ Init
  /\ GRInit

LeasesStep == focus = "leases" /\ Next /\ UNCHANGED <<focus, GRVars>>
GeoStep == focus = "geo" /\ GRNext /\ UNCHANGED <<focus, vars>>

MCNext ==
  \/ LeasesStep
  \/ GeoStep
  \/ focus # "leases" /\ UNCHANGED MCVars    \* a bounded instance ends

MCSpec == MCInit /\ [][MCNext]_MCVars
=============================================================================
