------------------------------ MODULE MCReload ------------------------------
(***************************************************************************)
(* What changes while it is in use: the DHCP lease table that is read      *)
(* again, the filter lists, the query log as read, the accounts logins are *)
(* checked against, and the buckets of the API limiter.  A behaviour       *)
(* follows one of them, named by focus, and the others keep their initial  *)
(* state, so the instances add up instead of multiplying.                  *)
(***************************************************************************)
EXTENDS DHCPLeases, FilterLists, QueryLogWalk, DashboardAuth, APILimiter, TLC

CONSTANT c1

VARIABLE focus   \* the component this behaviour is about
MCVars == <<focus, vars, FLVars, QWVars, DAVars, ALVars>>

(* The query log's entries: the domain of each.                            *)
QWDomainDef == <<1, 2, 3, 2>>

\* A static lease of c1 that the config gains and loses.
ChangingStatics == {[c \in Clients |-> None], [c \in Clients |-> IF c = c1 THEN 0 ELSE None]}

MCInit ==
  /\ focus \in {"leases", "filter", "walk", "lockout", "session", "api"}
  /\ IF focus = "filter" THEN TRUE ELSE flFile = [l \in FLLists |-> 0]
  /\ IF focus = "leases" THEN TRUE ELSE static = [c \in Clients |-> None]
  /\ Init
  /\ FLInit
  /\ QWInit
  /\ DAInit
  /\ ALInit

LeasesStep == focus = "leases" /\ Next /\ UNCHANGED <<focus, FLVars, QWVars, DAVars, ALVars>>
FilterStep == focus = "filter" /\ FLNext /\ UNCHANGED <<focus, vars, QWVars, DAVars, ALVars>>
WalkStep == focus = "walk" /\ QWNext /\ UNCHANGED <<focus, vars, FLVars, DAVars, ALVars>>
(* Logins in two slices: the clock runs and the account stays, or the      *)
(* account changes while the clock stands still.                           *)
LockoutStep == /\ focus = "lockout" /\ DANext /\ daAccount' = daAccount
               /\ UNCHANGED <<focus, vars, FLVars, QWVars, ALVars>>
SessionStep == /\ focus = "session" /\ DANext /\ daNow' = daNow
               /\ UNCHANGED <<focus, vars, FLVars, QWVars, ALVars>>
ApiStep == focus = "api" /\ ALNext /\ UNCHANGED <<focus, vars, FLVars, QWVars, DAVars>>

MCNext ==
  \/ LeasesStep
  \/ FilterStep
  \/ WalkStep
  \/ LockoutStep
  \/ SessionStep
  \/ ApiStep

MCSpec == MCInit /\ [][MCNext]_MCVars
=============================================================================
