----------------------------- MODULE ControlPlane -----------------------------
(***************************************************************************)
(* The dashboard's configuration path: PUT /api/config and the restore of  *)
(* a backup (applyPayload, handlers_config.go; backup.go), POST            *)
(* /api/config/reload (Reload, main.go), the asynchronous geo rebuilds     *)
(* (buildGeo), and the config file across crashes (Load and Save,          *)
(* config.go).  A PUT resolves the account list and the session secret     *)
(* from h.Cfg BEFORE it takes cfgMu, and applies under it: two steps.      *)
(***************************************************************************)
EXTENDS Integers, FiniteSets

CONSTANTS
  CPAdmins,    (* concurrent API requests                                  *)
  CPAccounts,  (* dashboard accounts, by ID                                *)
  CPEdits,     (* bound: sections one request edits, its accounts aside    *)
  CPPuts,      (* bound: writes and restores                               *)
  CPEvents     (* bound: reloads, automatic rebuilds and crashes           *)

ASSUME CPAssumption == IsFiniteSet(CPAdmins) /\ IsFiniteSet(CPAccounts) /\ CPEdits \in Nat /\ CPPuts \in Nat /\ CPEvents \in Nat

VARIABLES
  cpCfg,     (* *h.Cfg, the configuration in memory                        *)
  cpDisk,    (* the config file: a configuration, or torn                  *)
  cpBackup,  (* the configuration inside the downloaded backup archive     *)
  cpRun,     (* what each section's live component was last given          *)
  cpReq,     (* each request: idle, or resolved and waiting for cfgMu, to  *)
             (* apply its configuration or to restore the archive's login  *)
  cpJobs,    (* geo rebuilds that have been spawned and not finished       *)
  cpUp,      (* the process: "up", "down", or "dead" (boot refused)        *)
  cpFresh,   (* next random secret or credential                           *)
  cpHist     (* history the properties speak of                            *)

CPVars == <<cpCfg, cpDisk, cpBackup, cpRun, cpReq, cpJobs, cpUp, cpFresh, cpHist>>

Versions == 0..1
BadUps == 2                       (* passes Validate, upstream.Parse fails  *)
Absent == 0                       (* no such account                        *)
Stamps == 0..(3 * CPPuts + 3)     (* secrets and credentials, in order made *)
TornConfig == [torn |-> TRUE]
NoRequest == [idle |-> TRUE]

(* rest stands for what a file may set and a payload has no field for (API *)
(* tokens, logging, upstream_health, local DNSSEC validation); legacy is   *)
(* web.password, which the account list replaced and Load leaves in the    *)
(* file, and no payload has either.  0 is unset.                           *)
Configs == [server : Versions, ups : Versions, policy : Versions, geo : Versions, rest : Versions, legacy : Versions,
            users : [CPAccounts -> Stamps], secret : Stamps]
FirstConfig == [server |-> 0, ups |-> 0, policy |-> 0, geo |-> 0, rest |-> 1, legacy |-> 1,
                users |-> [a \in CPAccounts |-> 1], secret |-> 2]

(* What the running components hold; the listeners may be down altogether. *)
Running(c, geo) == [server |-> c.server, ups |-> c.ups, policy |-> c.policy,
                    banner |-> geo, geo |-> geo]

CPInit ==
  /\ cpCfg = FirstConfig /\ cpDisk = FirstConfig /\ cpBackup = FirstConfig
  /\ cpRun = Running(FirstConfig, 0)
  /\ cpReq = [r \in CPAdmins |-> NoRequest]
  /\ cpJobs = {}
  /\ cpUp = "up"
  /\ cpFresh = 3
  /\ cpHist = [dead |-> {}, gone |-> [a \in CPAccounts |-> {}], back |-> {}, stale |-> FALSE, told |-> FALSE, crossed |-> FALSE,
               saved |-> TRUE, writes |-> 0, events |-> 0, jobs |-> 0]

-----------------------------------------------------------------------------
(* Request bodies: settings, and per account "keep" (an ID and no          *)
(* password), "set" (a password) or "gone".                                *)
Payloads == [server : Versions, ups : Versions \cup {BadUps}, policy : Versions,
             geo : Versions, users : [CPAccounts -> {"keep", "set", "gone"}]]

(* payloadFromConfig: no password leaves the server.                       *)
PayloadUsers(c) == [a \in CPAccounts |-> IF c.users[a] = Absent THEN "gone" ELSE "keep"]
PayloadOf(c) == [server |-> c.server, ups |-> c.ups, policy |-> c.policy, geo |-> c.geo,
                 users |-> PayloadUsers(c)]

(* The configuration a payload stands for: what it has no field for is     *)
(* unset, whatever the running one has.                                    *)
ConfigOf(p, users, secret) ==
  [server |-> p.server, ups |-> p.ups, policy |-> p.policy, geo |-> p.geo, rest |-> 0, legacy |-> 0,
   users |-> users, secret |-> secret]

(* resolveWebUsers: keeping the password of an unknown account is an error. *)
UsersResolve(existing, p) ==
  \A a \in CPAccounts : p.users[a] = "keep" => existing[a] /= Absent
Users(existing, p) ==
  [a \in CPAccounts |-> CASE p.users[a] = "keep" -> existing[a]
                          [] p.users[a] = "set"  -> cpFresh
                          [] p.users[a] = "gone" -> Absent]

(* rotateSecretIfUsersChanged                                              *)
Rotated(existing, users, secret) == IF users = existing THEN secret ELSE cpFresh + 1

(* A handler goroutine is free for a request that writes.                  *)
MayWrite(r) == cpUp = "up" /\ cpReq[r] = NoRequest /\ cpHist.writes < CPPuts

(* Mutant: a restored archive's own password hashes are installed.         *)
RestoreRequestHashes(r) ==
  /\ MayWrite(r)
  /\ cpReq' = [cpReq EXCEPT ![r] = [cfg |-> cpBackup, auth |-> 0, at |-> "apply", stale |-> FALSE]]
  /\ cpHist' = [cpHist EXCEPT !.writes = @ + 1]
  /\ UNCHANGED <<cpCfg, cpDisk, cpBackup, cpRun, cpJobs, cpUp, cpFresh>>

(* A request for payload p is decoded and validated and its accounts and   *)
(* secret are resolved, all before cfgMu.  A body that fails is a 400 with *)
(* nothing touched (the action is then not taken).  auth is the session    *)
(* secret of an archive that also holds a password, or 0.                  *)
Resolve(r, p, auth) ==
  /\ UsersResolve(cpCfg.users, p)
  /\ LET users == Users(cpCfg.users, p)
         new == ConfigOf(p, users, Rotated(cpCfg.users, users, cpCfg.secret))
     IN cpReq' = [cpReq EXCEPT ![r] = [cfg |-> new, auth |-> auth, at |-> "apply", stale |-> FALSE]]
  /\ cpFresh' = cpFresh + 2
  /\ cpHist' = [cpHist EXCEPT !.writes = @ + 1]
  /\ UNCHANGED <<cpCfg, cpDisk, cpBackup, cpRun, cpJobs, cpUp>>

PutRequest(r) ==
  /\ MayWrite(r)
  /\ \E p \in Payloads :
       /\ Cardinality({f \in {"server", "ups", "policy", "geo"} : p[f] /= cpCfg[f]}) <= CPEdits
       /\ Resolve(r, p, 0)

(* restoreConfig: the archive has been validated (its upstreams parse),    *)
(* the payload is made of it.                                              *)
RestoreRequest(r) ==
  MayWrite(r) /\ Resolve(r, PayloadOf(cpBackup), IF cpBackup.legacy = 0 THEN 0 ELSE cpBackup.secret)

(* backupConfig: the archive holds the config file.                        *)
Backup ==
  /\ cpUp = "up" /\ cpDisk /= TornConfig /\ cpBackup /= cpDisk
  /\ cpBackup' = cpDisk
  /\ UNCHANGED <<cpCfg, cpDisk, cpRun, cpReq, cpJobs, cpUp, cpFresh, cpHist>>

-----------------------------------------------------------------------------
(* What a write withdraws: the old secret, and each account's credential   *)
(* that it replaces.                                                       *)
SecretsGone(old, new) == cpHist.dead \cup ({old.secret} \ {new.secret})
PasswordsGone(old, new) ==
  [a \in CPAccounts |-> cpHist.gone[a] \cup ({old.users[a]} \ {new.users[a]})]

(* The request goes on as q; any other that has resolved is stale now.     *)
RequestNow(r, q) ==
  [o \in CPAdmins |-> CASE o = r -> q
                        [] o /= r /\ cpReq[o] = NoRequest -> NoRequest
                        [] OTHER -> [cpReq[o] EXCEPT !.stale = TRUE]]

(* buildGeo is spawned with a snapshot of the section.                     *)
Spawned(g) == cpJobs \cup {[id |-> cpHist.jobs + 1, geo |-> g, at |-> "banner"]}

(* Hot sections reach their component before the config is stored.         *)
Applied(new) == [cpRun EXCEPT !.ups = new.ups, !.policy = new.policy]

(* The restart-required list is non-empty when the section it compares     *)
(* with the one in memory differs.                                         *)
RestartListed(new) == cpCfg.server /= new.server

(* upstream.Parse of every spec                                            *)
Parses(new) == new.ups /= BadUps

Pending(r, at) == cpReq[r] /= NoRequest /\ cpReq[r].at = at

(* upstream.Parse fails under cfgMu: nothing has been applied.             *)
ApplyRefused(r) ==
  /\ cpUp = "up" /\ Pending(r, "apply") /\ ~Parses(cpReq[r].cfg)
  /\ cpReq' = [cpReq EXCEPT ![r] = NoRequest]
  /\ UNCHANGED <<cpCfg, cpDisk, cpBackup, cpRun, cpJobs, cpUp, cpFresh, cpHist>>

(* The body of applyPayload under cfgMu, the file written.                 *)
ApplySaved(r) ==
  /\ cpUp = "up" /\ Pending(r, "apply") /\ Parses(cpReq[r].cfg)
  /\ LET new == cpReq[r].cfg
     IN /\ cpCfg' = new /\ cpDisk' = new
        /\ cpRun' = Applied(new)
        /\ cpJobs' = Spawned(new.geo)
        /\ cpHist' = [cpHist EXCEPT !.dead = SecretsGone(cpCfg, new),
                                    !.gone = PasswordsGone(cpCfg, new),
                                    !.stale = @ \/ cpReq[r].stale,
                                    !.told = RestartListed(new) \/ (@ /\ cpCfg.server /= cpRun.server),
                                    !.crossed = cpJobs /= {}, !.saved = TRUE, !.jobs = @ + 1]
  /\ cpReq' = RequestNow(r, IF cpReq[r].auth = 0 THEN NoRequest ELSE [cpReq[r] EXCEPT !.at = "auth"])
  /\ UNCHANGED <<cpBackup, cpUp, cpFresh>>

(* Mutant: a failed save keeps the rotated secret in memory.               *)
SecretAfterFailureKept(old, new) == new
SecretAfterFailure(old, new) == old

(* ... or SaveConfig fails: everything stays applied in memory, only the   *)
(* secret is put back, and the error is returned.  WriteFile truncates     *)
(* first, so the file is as it was or torn.                                *)
ApplyUnsaved(r) ==
  /\ cpUp = "up" /\ Pending(r, "apply") /\ Parses(cpReq[r].cfg)
  /\ LET new == cpReq[r].cfg
         kept == [new EXCEPT !.secret = SecretAfterFailure(cpCfg.secret, new.secret)]
     IN /\ cpCfg' = kept
        /\ cpDisk' \in {cpDisk, TornConfig}
        /\ cpRun' = Applied(new)
        /\ cpHist' = [cpHist EXCEPT !.stale = @ \/ cpReq[r].stale, !.told = TRUE, !.saved = FALSE]
  /\ cpReq' = RequestNow(r, NoRequest)
  /\ UNCHANGED <<cpBackup, cpJobs, cpUp, cpFresh>>

(* The tail of restoreConfig, after cfgMu was released and taken again: an *)
(* archive with a password other than the one in memory brings it and its  *)
(* session secret back.  A failed save leaves both in memory only.         *)
RestoreAuth(r) ==
  /\ cpUp = "up" /\ Pending(r, "auth")
  /\ IF cpCfg.legacy = 1
     THEN UNCHANGED <<cpCfg, cpDisk, cpHist>>
     ELSE LET new == [cpCfg EXCEPT !.legacy = 1, !.secret = cpReq[r].auth]
          IN /\ cpCfg' = new
             /\ cpDisk' \in {new, cpDisk, TornConfig}
             /\ cpHist' = [cpHist EXCEPT !.back = @ \cup {new.secret},
                                         !.dead = IF cpDisk' = new THEN SecretsGone(cpCfg, new) ELSE @]
  /\ cpReq' = RequestNow(r, NoRequest)
  /\ UNCHANGED <<cpBackup, cpRun, cpJobs, cpUp, cpFresh>>

-----------------------------------------------------------------------------
(* The steps of a spawned buildGeo, which nothing orders with another one: *)
(* the banner is swapped, the country data fetched, the blocker swapped.   *)
BuildGeoBanner(j) ==
  /\ cpUp = "up" /\ j.at = "banner"
  /\ cpRun' = [cpRun EXCEPT !.banner = j.geo]
  /\ cpJobs' = (cpJobs \ {j}) \cup {[j EXCEPT !.at = "geo"]}
  /\ UNCHANGED <<cpCfg, cpDisk, cpBackup, cpReq, cpUp, cpFresh, cpHist>>

BuildGeoBlocker(j) ==
  /\ cpUp = "up" /\ j.at = "geo"
  /\ cpRun' = [cpRun EXCEPT !.geo = j.geo]
  /\ cpJobs' = cpJobs \ {j}
  /\ UNCHANGED <<cpCfg, cpDisk, cpBackup, cpReq, cpUp, cpFresh, cpHist>>

(* The auto-refresh goroutine re-reads the section under cfgMu after its   *)
(* sleep and rebuilds from that.                                           *)
AutoRefresh ==
  /\ cpUp = "up" /\ cpCfg.geo /= 0 /\ cpHist.events < CPEvents
  /\ cpJobs' = Spawned(cpCfg.geo)
  /\ cpHist' = [cpHist EXCEPT !.events = @ + 1, !.jobs = @ + 1, !.saved = TRUE,
                              !.crossed = cpJobs /= {}]
  /\ UNCHANGED <<cpCfg, cpDisk, cpBackup, cpRun, cpReq, cpUp, cpFresh>>

(* Reload, under cfgMu: every component is built before a reference is     *)
(* swapped; a listener that does not bind is an error with the old ones    *)
(* already stopped (Listeners models that step by itself).                 *)
ReloadOK ==
  /\ cpUp = "up" /\ cpHist.events < CPEvents
  /\ cpRun' = [Applied(cpCfg) EXCEPT !.server = cpCfg.server]
  /\ cpJobs' = Spawned(cpCfg.geo)
  /\ cpHist' = [cpHist EXCEPT !.events = @ + 1, !.jobs = @ + 1, !.saved = TRUE,
                              !.crossed = cpJobs /= {}]
  /\ UNCHANGED <<cpCfg, cpDisk, cpBackup, cpReq, cpUp, cpFresh>>

ReloadFails ==
  /\ cpUp = "up" /\ cpHist.events < CPEvents
  /\ cpHist' = [cpHist EXCEPT !.events = @ + 1, !.told = TRUE]
  /\ UNCHANGED <<cpCfg, cpDisk, cpBackup, cpRun, cpReq, cpJobs, cpUp, cpFresh>>

-----------------------------------------------------------------------------
(* The process dies, perhaps while a request is writing the file.          *)
Crash ==
  /\ cpUp = "up" /\ cpHist.events < CPEvents
  /\ \/ UNCHANGED cpDisk
     \/ (\E r \in CPAdmins : cpReq[r] /= NoRequest) /\ cpDisk' = TornConfig
  /\ cpUp' = "down"
  /\ cpReq' = [r \in CPAdmins |-> NoRequest]
  /\ cpJobs' = {}
  /\ cpHist' = [cpHist EXCEPT !.events = @ + 1]
  /\ UNCHANGED <<cpCfg, cpBackup, cpRun, cpFresh>>

(* Load and boot: the file's configuration runs, geo is built in the       *)
(* background; an unparsable file stops the boot.                          *)
Boot ==
  /\ cpUp = "down"
  /\ IF cpDisk = TornConfig
     THEN cpUp' = "dead" /\ UNCHANGED <<cpCfg, cpRun, cpJobs, cpHist>>
     ELSE /\ cpUp' = "up"
          /\ cpCfg' = cpDisk
          /\ cpRun' = Running(cpDisk, 0)
          /\ cpJobs' = Spawned(cpDisk.geo)
          /\ cpHist' = [cpHist EXCEPT !.saved = TRUE, !.crossed = FALSE, !.jobs = @ + 1]
  /\ UNCHANGED <<cpDisk, cpBackup, cpReq, cpFresh>>

CPNext ==
  \/ \E r \in CPAdmins :
       PutRequest(r) \/ RestoreRequest(r) \/ ApplyRefused(r) \/ ApplySaved(r) \/ ApplyUnsaved(r) \/ RestoreAuth(r)
  \/ \E j \in cpJobs : BuildGeoBanner(j) \/ BuildGeoBlocker(j)
  \/ Backup \/ AutoRefresh \/ ReloadOK \/ ReloadFails \/ Crash \/ Boot

CPSpec == CPInit /\ [][CPNext]_CPVars

-----------------------------------------------------------------------------
(* The configuration in memory and in the backup are whole, the file is    *)
(* whole or torn, and a request in hand carries what it read before the    *)
(* lock (applyPayload, Save).                                              *)
CPTypeOK ==
  /\ cpCfg \in Configs
  /\ cpDisk = TornConfig \/ cpDisk \in Configs
  /\ cpBackup \in Configs
  /\ cpRun \in [server : Versions, ups : Versions, policy : Versions, banner : Versions, geo : Versions]
  /\ \A r \in CPAdmins : cpReq[r] /= NoRequest => DOMAIN cpReq[r] = {"cfg", "auth", "at", "stale"}
  /\ cpJobs \subseteq [id : Nat, geo : Versions, at : {"banner", "geo"}]
  /\ cpUp \in {"up", "down", "dead"}

(* The session secret in memory is the one in the file, whatever saves     *)
(* failed and whichever requests overlapped, as the comment on the revert  *)
(* (applyPayload) asks: a login would otherwise die at the next restart.   *)
(* The exception is a secret that an old archive brought back: restore     *)
(* does not take it out of memory when its save fails.                     *)
SecretOnDisk ==
  cpUp = "up" /\ cpDisk /= TornConfig => cpCfg.secret \in {cpDisk.secret} \cup cpHist.back

(* No secret and no password a saved change withdrew is ever accepted      *)
(* again, across restores of old backups, failed saves and restarts, as    *)
(* long as no request applies what it resolved before another's apply.     *)
(* Again except for the session secret of an archive that holds a legacy   *)
(* password: restoreConfig installs it on purpose.                         *)
RevokedStayRevoked ==
  cpUp = "up" /\ ~cpHist.stale =>
    /\ cpCfg.secret \in cpHist.dead => cpCfg.secret \in cpHist.back
    /\ \A a \in CPAccounts : cpCfg.users[a] \in cpHist.gone[a] => cpCfg.users[a] = Absent

(* The hot sections in effect are those of the configuration in memory,    *)
(* also after refused and unsaved writes and failed reloads.               *)
LiveMatchesConfig ==
  cpUp = "up" => cpRun.ups = cpCfg.ups /\ cpRun.policy = cpCfg.policy

(* Listeners that differ from the configuration have been reported: since  *)
(* they began to differ some answer listed a restart, or was an error.     *)
OperatorTold ==
  cpUp = "up" /\ cpRun.server /= cpCfg.server => cpHist.told

(* When the rebuilds have ended and the last one was spawned alone, after  *)
(* a saved write, the banner and the blocker enforce the configuration.    *)
GeoFollowsConfig ==
  cpUp = "up" /\ cpJobs = {} /\ cpHist.saved /\ ~cpHist.crossed =>
    cpRun.geo = cpCfg.geo /\ cpRun.banner = cpCfg.geo

(* Configuration, file and running parts agree: the secret is on disk, the *)
(* live sections are the configured ones, the operator was told what a     *)
(* restart would change, and geo blocking follows (applyPayload, reload,   *)
(* buildGeo).                                                              *)
ControlSound ==
  /\ CPTypeOK
  /\ SecretOnDisk
  /\ LiveMatchesConfig
  /\ OperatorTold
  /\ GeoFollowsConfig
=============================================================================
