------------------------------ MODULE MCControl ------------------------------
(***************************************************************************)
(* What an administrator works with: the configuration and its rules,      *)
(* updates, the IP banner and the geo tables; and the answers kept in the  *)
(* two levels of the cache.  A behaviour follows one component, named by   *)
(* focus, and the others keep their initial state, so the instances add up *)
(* instead of multiplying.                                                 *)
(***************************************************************************)
EXTENDS ControlPlane, ConfigRules, Updates, IPBanner, GeoTables, ResponseCache, TLC

VARIABLE focus   (* the component this behaviour is about               *)
MCVars == <<focus, CPVars, CRVars, UPVars, IBVars, GTVars, vars>>

Symmetry == Permutations(Procs) \cup Permutations(IBThreads)

MCInit ==
  /\ focus \in {"settings", "accounts", "rules", "updates", "banner", "tables", "answers"}
  /\ IF focus = "rules" THEN TRUE ELSE crAsk = (CHOOSE d \in RouteDocs : TRUE) /\ crRO = FALSE /\ crDisk = NoFile
  /\ IF focus = "updates" THEN TRUE ELSE upTool = "self"
  /\ IF focus = "tables" THEN TRUE ELSE gtIn = <<>> /\ gtKind = "prefix"
  /\ CPInit
  /\ CRInit
  /\ UPInit
  /\ IBInit
  /\ GTInit
  /\ Init

(* Writes in two slices: requests that edit sections and keep the accounts *)
(* as they are, or that change the accounts and edit no section.           *)
SettingsStep == /\ focus = "settings" /\ CPNext
                /\ \A r \in CPAdmins : cpReq'[r] /= NoRequest => cpReq'[r].cfg.users = FirstConfig.users
                /\ UNCHANGED <<focus, CRVars, UPVars, IBVars, GTVars, vars>>
AccountsStep == /\ focus = "accounts" /\ CPNext
                /\ \A r \in CPAdmins : cpReq'[r] /= NoRequest =>
                     \A f \in {"server", "ups", "policy", "geo"} : cpReq'[r].cfg[f] = FirstConfig[f]
                /\ UNCHANGED <<focus, CRVars, UPVars, IBVars, GTVars, vars>>
RulesStep == focus = "rules" /\ CRNext /\ UNCHANGED <<focus, CPVars, UPVars, IBVars, GTVars, vars>>
UpdatesStep == focus = "updates" /\ UPNext /\ UNCHANGED <<focus, CPVars, CRVars, IBVars, GTVars, vars>>
BannerStep == focus = "banner" /\ IBNext /\ UNCHANGED <<focus, CPVars, CRVars, UPVars, GTVars, vars>>
TablesStep == focus = "tables" /\ GTNext /\ UNCHANGED <<focus, CPVars, CRVars, UPVars, IBVars, vars>>
AnswersStep == focus = "answers" /\ Next /\ UNCHANGED <<focus, CPVars, CRVars, UPVars, IBVars, GTVars>>

MCNext ==
  \/ SettingsStep
  \/ AccountsStep
  \/ RulesStep
  \/ UpdatesStep
  \/ BannerStep
  \/ TablesStep
  \/ AnswersStep

MCSpec == MCInit /\ [][MCNext]_MCVars
=============================================================================
