------------------------------- MODULE IPBanner -------------------------------
(***************************************************************************)
(* Blocking a client for good: the IP banner (geoip/banner.go) with its    *)
(* persisted auto-blocks, the rebuild that replaces it (main.go buildGeo), *)
(* the dashboard's block and unblock (handlers_abuse.go) and the host      *)
(* firewall's drop set (firewall.go), with failed writes and restarts.     *)
(* os.WriteFile truncates blocked-ips.txt first, so a write that fails, or *)
(* that a crash cuts, leaves any part of it.                               *)
(***************************************************************************)
EXTENDS Integers, FiniteSets

CONSTANTS
  IBIPs,       (* client addresses                                          *)
  IBAllowed,   (* the CIDR allowlist's                                      *)
  IBASN,       (* the addresses of an ASN that may come to be allow-listed  *)
  IBThreads,   (* queries and API requests                                  *)
  IBOps        (* bound: blocks, unblocks, rebuilds, restarts               *)

ASSUME IBAssumption == IBAllowed \cup IBASN \subseteq IBIPs /\ IBOps \in Nat

VARIABLES
  ibCur,      (* the handler's banner: its entries and allowed addresses    *)
  ibFile,     (* blocked-ips.txt                                            *)
  ibDrop,     (* the firewall's drop set                                    *)
  ibConf,     (* geo_block.ips, in memory and as saved, and allow_asns      *)
  ibOp,       (* what each thread is doing                                  *)
  ibBuild,    (* the rebuild in progress                                    *)
  ibHist      (* history: steps; whether two operations have met since the  *)
              (* last start; the blocks acknowledged and still owed; the    *)
              (* addresses unblocked; those a failed write left behind, and *)
              (* those the drop set was not told of                         *)
IBVars == <<ibCur, ibFile, ibDrop, ibConf, ibOp, ibBuild, ibHist>>

NoOp == [pc |-> "idle", ip |-> "none", kind |-> "none", snap |-> {}]
NoBanner == [auto |-> {}, conf |-> {}, asn |-> {}]
NoBuild == [pc |-> "idle", banner |-> NoBanner, list |-> {}]

IBInit ==
  /\ ibCur = NoBanner /\ ibFile = {} /\ ibDrop = {} /\ ibConf = [ips |-> {}, saved |-> {}, asn |-> {}]
  /\ ibOp = [t \in IBThreads |-> NoOp] /\ ibBuild = NoBuild
  /\ ibHist = [ops |-> 0, clean |-> TRUE, owed |-> {}, lifted |-> {}, behind |-> {}, undropped |-> {}]

Alone == /\ \A t \in IBThreads : ibOp[t] = NoOp
         /\ ibBuild = NoBuild
(* A step begins while nothing else is under way, or is marked as one that *)
(* met another.                                                            *)
Begun(h) == [h EXCEPT !.ops = @ + 1, !.clean = @ /\ Alone]

Never(b, ip) == ip \in IBAllowed \cup b.asn
Raw(b) == b.auto \cup b.conf
(* BlockedAs                                                               *)
BannerBlocks(b, ip) == ~Never(b, ip) /\ ip \in Raw(b)

-----------------------------------------------------------------------------
(* Mutant: the snapshot for the file is taken before the entry is added.   *)
BlockSnapshotEarly(ip) == ibCur.auto
BlockSnapshot(ip) == ibCur.auto \cup {ip}

(* Block, after a honeypot hit: nothing for an allowlisted or a known      *)
(* source; else the entry and a snapshot for the file.                     *)
BlockBegins(t, ip) ==
  /\ ibOp[t] = NoOp /\ ibHist.ops < IBOps /\ ~Never(ibCur, ip) /\ ip \notin Raw(ibCur)
  /\ ibCur' = [ibCur EXCEPT !.auto = @ \cup {ip}]
  /\ ibOp' = [ibOp EXCEPT ![t] = [pc |-> "persist", ip |-> ip, kind |-> "block", snap |-> BlockSnapshot(ip)]]
  /\ ibHist' = [Begun(ibHist) EXCEPT !.lifted = @ \ {ip}]
  /\ UNCHANGED <<ibFile, ibDrop, ibConf, ibBuild>>

UnblockSnapshot(ip) == ibCur.auto \ {ip}

(* geoUnblock: Unblock on the current banner. An entry that is not a       *)
(* runtime one goes on to the firewall.                                    *)
UnblockBegins(t, ip) ==
  /\ ibOp[t] = NoOp /\ ibHist.ops < IBOps
  /\ IF ip \in ibCur.auto
     THEN /\ ibCur' = [ibCur EXCEPT !.auto = @ \ {ip}]
          /\ ibOp' = [ibOp EXCEPT ![t] = [pc |-> "persist", ip |-> ip, kind |-> "unblock", snap |-> UnblockSnapshot(ip)]]
     ELSE /\ ibOp' = [ibOp EXCEPT ![t] = [pc |-> "fw", ip |-> ip, kind |-> "unblock", snap |-> {}]]
          /\ UNCHANGED ibCur
  /\ ibHist' = [Begun(ibHist) EXCEPT !.owed = @ \ {ip}]
  /\ UNCHANGED <<ibFile, ibDrop, ibConf, ibBuild>>

(* persist, after the unlock. A failed write ends a block or an unblock    *)
(* with an error, before the firewall hears of it; geoBlockIP ignores it.  *)
Persists(t, file, ok) ==
  LET o == ibOp[t]
      behind == IF ok THEN ibHist.behind
                ELSE ibHist.behind \cup (o.snap \ file) \cup (IF o.kind = "quick" THEN {} ELSE {o.ip})
  IN
  /\ o.pc = "persist" /\ (ok => file = o.snap)
  /\ ibFile' = file
  /\ ibOp' = [ibOp EXCEPT ![t] =
       IF o.kind = "quick" THEN [@ EXCEPT !.pc = "save"] ELSE IF ok THEN [@ EXCEPT !.pc = "fw"] ELSE NoOp]
  /\ ibHist' = [ibHist EXCEPT
       !.behind = behind,
       !.undropped = IF ok \/ o.kind = "quick" THEN @ ELSE @ \cup {o.ip},
       !.owed = (IF ok /\ o.kind = "block" THEN @ \cup {o.ip} ELSE @) \ behind]
  /\ UNCHANGED <<ibCur, ibDrop, ibConf, ibBuild>>

(* OnBlock adds the address to the drop set; an unblock removes it. A      *)
(* firewall error is only logged.                                          *)
FirewallFollows(t, ok) ==
  LET o == ibOp[t] IN
  /\ o.pc = "fw"
  /\ ibDrop' = IF ~ok THEN ibDrop ELSE IF o.kind = "block" THEN ibDrop \cup {o.ip} ELSE ibDrop \ {o.ip}
  /\ ibOp' = [ibOp EXCEPT ![t] = NoOp]
  /\ ibHist' = [ibHist EXCEPT
       !.undropped = IF ok THEN @ ELSE @ \cup {o.ip},
       !.lifted = IF o.kind = "unblock" /\ ok /\ o.ip \notin ibConf.ips \cup ibHist.behind THEN @ \cup {o.ip} ELSE @]
  /\ UNCHANGED <<ibCur, ibFile, ibConf, ibBuild>>

(* geoBlockIP: the entry goes into the config, and the runtime entry is    *)
(* dropped from the banner (and the file) ...                              *)
QuickBlock(t, ip) ==
  /\ ibOp[t] = NoOp /\ ibHist.ops < IBOps /\ ip \notin ibConf.ips
  /\ ibConf' = [ibConf EXCEPT !.ips = @ \cup {ip}]
  /\ ibCur' = [ibCur EXCEPT !.auto = @ \ {ip}]
  /\ ibOp' = [ibOp EXCEPT ![t] = [pc |-> IF ip \in ibCur.auto THEN "persist" ELSE "save",
                                  ip |-> ip, kind |-> "quick", snap |-> ibCur.auto \ {ip}]]
  /\ ibHist' = [Begun(ibHist) EXCEPT !.owed = @ \ {ip}, !.lifted = @ \ {ip}]
  /\ UNCHANGED <<ibFile, ibDrop, ibBuild>>

(* ... the config is saved, and a rebuild asked for. A failed save is      *)
(* answered with an error, the entry kept in memory.                       *)
QuickSaves(t, ok) ==
  LET ip == ibOp[t].ip IN
  /\ ibOp[t].pc = "save"
  /\ IF ok THEN /\ ibBuild = NoBuild /\ ibBuild' = [NoBuild EXCEPT !.pc = "due"]
                /\ ibConf' = [ibConf EXCEPT !.saved = ibConf.ips]
                /\ ibHist' = [ibHist EXCEPT !.owed = @ \cup {ip}]
           ELSE /\ ibHist' = [ibHist EXCEPT !.behind = @ \cup {ip}, !.undropped = @ \cup {ip}]
                /\ UNCHANGED <<ibConf, ibBuild>>
  /\ ibOp' = [ibOp EXCEPT ![t] = NoOp]
  /\ UNCHANGED <<ibCur, ibFile, ibDrop>>

-----------------------------------------------------------------------------
(* A refresh, an auto-update or a config save asks for a rebuild.          *)
RebuildAsked ==
  /\ ibBuild = NoBuild /\ ibHist.ops < IBOps
  /\ ibBuild' = [NoBuild EXCEPT !.pc = "due"]
  /\ ibHist' = Begun(ibHist)
  /\ UNCHANGED <<ibCur, ibFile, ibDrop, ibConf, ibOp>>

(* The operator allow-lists the ASN.                                       *)
AllowASN ==
  /\ ibBuild = NoBuild /\ ibHist.ops < IBOps /\ ibConf.asn = {}
  /\ ibConf' = [ibConf EXCEPT !.asn = IBASN, !.saved = ibConf.ips]
  /\ ibBuild' = [NoBuild EXCEPT !.pc = "due"]
  /\ ibHist' = Begun(ibHist)
  /\ UNCHANGED <<ibCur, ibFile, ibDrop, ibOp>>

(* pruneAutoLocked, at load and again in SetASNs                           *)
Pruned(auto, asn) == auto \ (IBAllowed \cup asn)

(* NewBanner and SetASNs: the configured entries, then the file's, without *)
(* those known already and those allowlisted since.                        *)
RebuildLoads ==
  /\ ibBuild.pc = "due"
  /\ ibBuild' = [ibBuild EXCEPT !.pc = "publish", !.banner = 
       [auto |-> Pruned(ibFile \ ibConf.ips, ibConf.asn), conf |-> ibConf.ips, asn |-> ibConf.asn]]
  /\ UNCHANGED <<ibCur, ibFile, ibDrop, ibConf, ibOp, ibHist>>
(* SetIPBanner                                                             *)
RebuildPublishes ==
  /\ ibBuild.pc = "publish"
  /\ ibCur' = ibBuild.banner
  /\ ibBuild' = [ibBuild EXCEPT !.pc = "list"]
  /\ ibHist' = [ibHist EXCEPT !.behind = {}]
  /\ UNCHANGED <<ibFile, ibDrop, ibConf, ibOp>>
(* banner.List(), the argument of Apply                                    *)
RebuildLists ==
  /\ ibBuild.pc = "list"
  /\ ibBuild' = [ibBuild EXCEPT !.pc = "apply", !.list = Raw(ibCur)]
  /\ UNCHANGED <<ibCur, ibFile, ibDrop, ibConf, ibOp, ibHist>>

(* Apply flushes the sets and loads them again.                            *)
AppliedSet(list) == list
RebuildApplies(ok) ==
  /\ ibBuild.pc = "apply"
  /\ ibDrop' = IF ok THEN AppliedSet(ibBuild.list) ELSE ibDrop
  /\ ibBuild' = NoBuild
  /\ ibHist' = [ibHist EXCEPT !.undropped = IF ok THEN {} ELSE IBIPs]
  /\ UNCHANGED <<ibCur, ibFile, ibConf, ibOp>>

(* What a write under way may have made of the file when the process dies. *)
CutFiles == {ibFile} \cup UNION {SUBSET ibOp[t].snap : t \in {o \in IBThreads : ibOp[o].pc = "persist"}}

(* The process restarts; what the kernel drops stays until the boot's      *)
(* rebuild, which is due. A block that the crash cut out of the file is    *)
(* owed no longer; after operations that met, only what file and saved     *)
(* config hold is.                                                         *)
Restarts(file) ==
  /\ ibHist.ops < IBOps
  /\ ibFile' = file /\ ibConf' = [ibConf EXCEPT !.ips = ibConf.saved]
  /\ ibCur' = NoBanner
  /\ ibOp' = [t \in IBThreads |-> NoOp] /\ ibBuild' = [NoBuild EXCEPT !.pc = "due"]
  /\ ibHist' = [ibHist EXCEPT !.ops = @ + 1, !.clean = TRUE, !.behind = {},
       !.owed = IF ibHist.clean THEN @ \ (ibFile \ file) ELSE @ \cap (file \cup ibConf.saved),
       !.lifted = IF ibHist.clean THEN @ ELSE @ \ (file \cup ibConf.saved \cup ibDrop)]
  /\ UNCHANGED ibDrop

IBNext ==
  \/ \E t \in IBThreads :
       \/ \E ip \in IBIPs : BlockBegins(t, ip) \/ UnblockBegins(t, ip) \/ QuickBlock(t, ip)
       \/ \E ok \in BOOLEAN : FirewallFollows(t, ok) \/ QuickSaves(t, ok)
       \/ \E ok \in BOOLEAN, file \in (SUBSET ibOp[t].snap) \cup {ibFile} : Persists(t, file, ok)
  \/ RebuildAsked \/ AllowASN \/ RebuildLoads \/ RebuildPublishes \/ RebuildLists
  \/ (\E ok \in BOOLEAN : RebuildApplies(ok)) \/ \E file \in CutFiles : Restarts(file)
IBSpec == IBInit /\ [][IBNext]_IBVars

-----------------------------------------------------------------------------
(* The runtime entries are never of an allowlisted source, by CIDR or by   *)
(* ASN, and never doubled by a configured one in the same banner.          *)
IBTypeOK ==
  /\ Raw(ibCur) \cup ibFile \cup ibDrop \cup ibConf.ips \subseteq IBIPs
  /\ \A ip \in ibCur.auto : ~Never(ibCur, ip)
  /\ ibCur.auto \cap ibCur.conf = {}

(* A block that was acknowledged outlives rebuilds and restarts. As long   *)
(* as no two operations have met since the last start, every client that   *)
(* was blocked and is owed it is refused by the handler, and is in the     *)
(* file or the saved config. It is owed no longer when it is unblocked, or *)
(* when a write that failed or was cut took it out of the file.            *)
BlocksSurvive ==
  ibHist.clean /\ Alone =>
    \A ip \in ibHist.owed : Never(ibCur, ip) \/ (BannerBlocks(ibCur, ip) /\ ip \in ibFile \cup ibConf.saved)

(* An unblock that did not fail is complete: under the same condition the  *)
(* client is in neither the banner, the drop set nor the file (which keeps *)
(* only what is allow-listed today), and no later rebuild, restart or      *)
(* failed write brings it back.                                            *)
UnblockIsComplete ==
  ibHist.clean /\ Alone =>
    \A ip \in ibHist.lifted :
      /\ ip \notin Raw(ibCur) \cup ibDrop
      /\ ip \in ibFile => Never(ibCur, ip)

(* The packet filter and the DNS refusal agree whenever nothing is under   *)
(* way, but for the addresses that a failed write or firewall command was  *)
(* about (all, after a failed Apply): nothing is dropped that the banner   *)
(* does not list, and every runtime block is dropped (a configured one may *)
(* have been taken out of the drop set by geoUnblock, which the banner     *)
(* ignores).                                                               *)
DropIsList ==
  ibHist.clean /\ Alone =>
    ibDrop \subseteq Raw(ibCur) \cup ibHist.undropped /\ ibCur.auto \subseteq ibDrop \cup ibHist.undropped

(* Blocking as a whole, when operations follow each other: through failed  *)
(* and cut writes, rebuilds and restarts, acknowledged blocks survive, an  *)
(* unblock is complete, and the packet filter agrees with the banner but   *)
(* where it was not told. Operations that met (snapshots persisted in the  *)
(* other order, a block on the banner a rebuild replaces) are exempt until *)
(* the next start (Block, Unblock, geoBlockIP, buildGeo, Apply).           *)
BannerSound ==
  /\ IBTypeOK
  /\ BlocksSurvive
  /\ UnblockIsComplete
  /\ DropIsList
=============================================================================
