------------------------------ MODULE ConfigRules ------------------------------
(***************************************************************************)
(* The configuration file's life (config.go): what validate accepts and    *)
(* how it rewrites what it accepts, what Save hashes before it writes, and *)
(* what Load does before and after validate (the defaults of a missing     *)
(* file, the migration of the single legacy login, the session secret).    *)
(*                                                                         *)
(* validate works section by section, and no rule but the ones on one      *)
(* section's document reads another section (auto_block and                *)
(* honeypot_udp_block read rate_limit, so they share a document here).  A  *)
(* behaviour therefore follows ONE section's document; the others keep a   *)
(* valid value.  Accounts edited over the API are resolved before          *)
(* validate: that path is ControlPlane's.                                  *)
(***************************************************************************)
EXTENDS Integers, Sequences

CONSTANTS
  CRBoots   (* bound: boots of one behaviour                               *)

ASSUME CRAssumption == CRBoots \in Nat

VARIABLES
  crAsk,     (* the section document someone is going to submit            *)
  crAsked,   (* it has been submitted, over the API or by editing the file *)
  crLive,    (* the document the running process uses, or Down             *)
  crDisk,    (* the document in the file, or NoFile                        *)
  crWriter,  (* who wrote the file last: "hand", "program" (Save)          *)
  crSaved,   (* the file is what the process accepted and saved            *)
  crRO,      (* the config mount is read-only                              *)
  crFresh    (* next random session secret or account ID; counts the loads *)

CRVars == <<crAsk, crAsked, crLive, crDisk, crWriter, crSaved, crRO, crFresh>>

Down == [sec |-> "down"]
NoFile == [sec |-> "none"]

-----------------------------------------------------------------------------
(* The sections' documents.  Text is kept to what the rules tell apart:    *)
(* "empty" is the empty string, "_" a space.                               *)

(* A domain as written: its name, and how many dots trail it.              *)
Domains == [name : {"empty", "HOST", "ho_st"}, dots : 0..2]
RouteDocs == [sec : {"routes"}, mode : {"empty", "race", "random"}, domain : Domains, ups : {<<>>, <<"u">>, <<"u", "empty">>}]

(* geo_block lists, and the ASNs of client groups.                         *)
ASNs == {"AS13", "as13", "13", "AS0"}
GeoDocs == [sec : {"geo"}, country : {"RU", "_ru", "RUS"}, asn : ASNs, honeypot : Domains,
            url : {"empty", "https", "ftp"}, every : {-1, 0}]

(* Listen addresses: the host as written, and the port.                    *)
Addr(h, p) == [host |-> h, port |-> p]
NoAddr == Addr("empty", 0)
QUICAddrs == {NoAddr} \cup {Addr(h, p) : h \in {"empty", "0.0.0.0", "lan"}, p \in {1, 2}}
ListenDocs == [sec : {"listen"}, classic : BOOLEAN, doh3 : QUICAddrs, doq : {a \in QUICAddrs : a.port /= 2},
               hops : {-1, 0}, proxy : {"none", "bad"}, timeout : 0..1, conns : {-1, 0}]
PortDocs == [sec : {"ports"}, doh : {0, 1, 2}, web : {0, 1, 80}, tls : BOOLEAN,
             redirect : BOOLEAN, rport : {0, 1, 80}, path : BOOLEAN]

(* rate_limit with its guards, and geo_block.honeypot_udp_block.           *)
LimitDocs == [sec : {"limits"}, on : BOOLEAN, qps : 0..1, burst : 0..1, auto : BOOLEAN,
              after : 0..1, nx : BOOLEAN, nxwin : 0..1, rep : BOOLEAN, reptimes : 1..2, udp : {-1, 0, 1}]

ACMEDocs == [sec : {"acme"}, on : BOOLEAN, email : BOOLEAN, domains : BOOLEAN, port : {0, 80, 81},
             before : {-1, 0, 30}, provider : {"empty", "cloudflare", "route53", "other"},
             token : BOOLEAN, wait : {0, 60}]

VPNDocs == [sec : {"vpn"}, on : BOOLEAN, profiles : {<<>>, <<"p">>, <<"p", "p">>, <<"p", "q">>},
            provider : {"nordvpn", "pia", "other"}, creds : BOOLEAN,
            route : {"empty", "p", "q"}, domain : Domains]

(* dhcp: the subnet is {2..5}; 0 is an empty field, 9 no IPv4 address.     *)
Subnet == 2..5
DHCPDocs == [sec : {"dhcp"}, on : BOOLEAN, cidr : BOOLEAN, from : {0, 1, 3, 9}, to : {0, 3, 4},
             gw : {0, 1, 3}, lease : {-1, 0}, key : BOOLEAN, static : {1, 4, 9}]

(* Sizes and durations that only have a lower bound.                       *)
NumberDocs == [sec : {"numbers"}, ups : BOOLEAN, addr : BOOLEAN, l1 : {-2, -1}, times : {-1, 0},
               batch : {-1, 0}, warmer : {-1, 0}, days : 0..1, level : {"empty", "Warn", "loud"}]

(* web: the legacy login, the accounts, one API token, the secret.  A      *)
(* credential is absent, plaintext, plaintext too long for bcrypt, or a    *)
(* hash.                                                                   *)
Creds == {"empty", "plain", "long", "hash"}
UserOf(id, name, role, pw) == [id |-> id, name |-> name, role |-> role, pw |-> pw]
FirstUsers == {UserOf(i, n, r, p) : i \in {0, 1}, n \in {"empty", "root"}, r \in {"admin", "viewer", "owner"}, p \in Creds \ {"empty"}}
MoreUsers == {UserOf(i, n, "viewer", "hash") : i \in {1, 2}, n \in {"root", "guest"}}
UserLists == {<<>>} \cup {<<u>> : u \in FirstUsers} \cup {<<u, v>> : u \in {f \in FirstUsers : f.name = "root" /\ f.role = "admin"}, v \in MoreUsers}
WebDocs == [sec : {"web"}, login : {"empty", "root"}, pw : Creds, users : UserLists,
            token : {"plain", "hash"}, secret : {0, 1}]

CRDocs == RouteDocs \cup GeoDocs \cup ListenDocs \cup PortDocs \cup LimitDocs \cup ACMEDocs
          \cup VPNDocs \cup DHCPDocs \cup NumberDocs \cup WebDocs

(* Each section as Default leaves it: a login name and no password, no     *)
(* account, no secret; conditional routing, ACME, VPN and DHCP off.        *)
DefaultDoc(s) ==
  CASE s = "web"    -> [sec |-> "web", login |-> "root", pw |-> "empty", users |-> <<>>, token |-> "hash", secret |-> 0]
    [] s = "ports"  -> [sec |-> "ports", doh |-> 2, web |-> 1, tls |-> FALSE, redirect |-> FALSE, rport |-> 0, path |-> TRUE]
    [] s = "listen" -> [sec |-> "listen", classic |-> TRUE, doh3 |-> NoAddr, doq |-> Addr("0.0.0.0", 1),
                        hops |-> 0, proxy |-> "none", timeout |-> 1, conns |-> 0]
    [] s = "acme"   -> [sec |-> "acme", on |-> FALSE, email |-> FALSE, domains |-> FALSE, port |-> 0,
                        before |-> 0, provider |-> "empty", token |-> FALSE, wait |-> 0]
    [] OTHER        -> [sec |-> s, default |-> TRUE]

-----------------------------------------------------------------------------
(* normalizeDomain: lower case, ONE trailing dot removed; invalid entries  *)
(* become empty.                                                           *)
InvalidDomain == [name |-> "empty", dots |-> 0]

NormalizeDomain(d) ==
  LET e == [name |-> IF d.name = "HOST" THEN "host" ELSE d.name,
            dots |-> IF d.dots = 0 THEN 0 ELSE d.dots - 1]
  IN IF e.name = "ho_st" THEN InvalidDomain ELSE e
ValidDomain(d) == NormalizeDomain(d) /= InvalidDomain

(* parseASN: 1..2^32-1 with or without the prefix; the canonical form.     *)
ParseASN(a) == IF a = "AS0" THEN "empty" ELSE "AS13"

(* sameUDPAddr: equal ports and equal hosts, or two wildcard hosts.        *)
Wild(h) == h \in {"empty", "0.0.0.0"}
SameUDPAddr(a, b) == a.port = b.port /\ (a.host = b.host \/ (Wild(a.host) /\ Wild(b.host)))

(* The defaults validate fills in, and the forms it rewrites entries to.   *)
NormalPorts(d) == [d EXCEPT !.rport = IF d.redirect /\ @ = 0 THEN 80 ELSE @]
NormalACME(d) ==
  IF d.on THEN [d EXCEPT !.port = IF @ = 0 THEN 80 ELSE @,
                         !.before = IF @ <= 0 THEN 30 ELSE @,
                         !.wait = IF @ = 0 THEN 60 ELSE @]
  ELSE d
NormalGeo(d) == [d EXCEPT !.country = IF @ = "_ru" THEN "RU" ELSE @, !.asn = ParseASN(@), !.honeypot = NormalizeDomain(@)]
VPNSkipped(d) == ~d.on /\ d.profiles = <<>> /\ d.route = "empty"

Normalised(d) ==
  IF "default" \in DOMAIN d THEN d ELSE
  CASE d.sec = "routes" -> [d EXCEPT !.mode = IF @ = "empty" THEN "race" ELSE @, !.domain = NormalizeDomain(@)]
    [] d.sec = "geo"    -> NormalGeo(d)
    [] d.sec = "listen" -> [d EXCEPT !.hops = IF @ = 0 THEN 1 ELSE @]
    [] d.sec = "ports"  -> NormalPorts(d)
    [] d.sec = "acme"   -> NormalACME(d)
    [] d.sec = "vpn"    -> IF d.route = "empty" THEN d ELSE [d EXCEPT !.domain = NormalizeDomain(@)]
    [] OTHER            -> d

-----------------------------------------------------------------------------
(* What validate accepts, section by section.                              *)
RoutesOK(d) == d.mode \in {"empty", "race", "sequential"} /\ ValidDomain(d.domain) /\ d.ups = <<"u">>
GeoOK(d) == d.country /= "RUS" /\ ParseASN(d.asn) /= "empty" /\ ValidDomain(d.honeypot) /\ d.url /= "ftp" /\ d.every >= 0
ListenOK(d) ==
  /\ d.classic \/ d.doq /= NoAddr
  /\ d.timeout >= 1 /\ d.conns >= 0 /\ d.proxy /= "bad" /\ d.hops >= 0
  /\ ~(d.doh3 /= NoAddr /\ d.doq /= NoAddr /\ SameUDPAddr(d.doh3, d.doq))

(* Mutant: the collision is looked for before the default port is filled in. *)
PortsOKUnfilled(d) ==
  /\ d.redirect => d.tls /\ d.rport /= d.web
  /\ (d.doh /= 0 /\ d.web /= 0 /\ d.doh = d.web) => d.tls /\ d.path

(* The redirect port is compared after its default has been filled in.     *)
PortsOK(d) ==
  /\ d.redirect => d.tls /\ NormalPorts(d).rport /= d.web
  /\ (d.doh /= 0 /\ d.web /= 0 /\ d.doh = d.web) => d.tls /\ d.path

LimitsOK(d) ==
  /\ d.auto => d.on
  /\ d.on => d.qps >= 1 /\ d.burst >= d.qps /\ (d.auto => d.after >= 1)
  /\ d.nx => d.nxwin >= 1
  /\ d.rep => d.reptimes >= 2
  /\ d.udp >= 0 /\ (d.udp > 0 => d.on)
ACMEOK(d) == d.on => d.email /\ d.domains /\ d.provider /= "other" /\ (d.provider /= "empty" => d.token)
VPNOK(d) ==
  VPNSkipped(d) \/
  ( /\ d.profiles /= <<"p", "p">> /\ (d.profiles /= <<>> => d.provider /= "other")
    /\ d.route /= "empty" => (\E i \in DOMAIN d.profiles : d.profiles[i] = d.route) /\ ValidDomain(d.domain)
    /\ d.on /\ d.profiles /= <<>> => d.creds )
DHCPOK(d) ==
  d.on => /\ d.cidr /\ {d.from, d.to} \subseteq Subnet /\ d.from <= d.to
          /\ d.gw = 0 \/ d.gw \in Subnet
          /\ d.lease >= 0 /\ d.key
          /\ d.static = 9 \/ d.static \in Subnet    (* an IPv6 reservation *)
NumbersOK(d) == d.ups /\ d.addr /\ d.l1 >= -1 /\ d.times >= 0 /\ d.batch >= 0 /\ d.warmer >= 0 /\ d.days >= 1 /\ d.level /= "loud"
UsersOK(us) ==
  /\ \A i \in DOMAIN us : us[i].id /= 0 /\ us[i].name /= "empty" /\ us[i].role \in {"admin", "viewer"}
  /\ \A i, j \in DOMAIN us : i /= j => us[i].id /= us[j].id /\ us[i].name /= us[j].name
  /\ us /= <<>> => \E i \in DOMAIN us : us[i].role = "admin"
WebOK(d) == UsersOK(d.users) /\ (d.users = <<>> => d.login /= "empty")

Accepts(d) ==
  IF "default" \in DOMAIN d THEN TRUE ELSE
  CASE d.sec = "routes"  -> RoutesOK(d)  [] d.sec = "geo"     -> GeoOK(d)
    [] d.sec = "listen"  -> ListenOK(d)  [] d.sec = "ports"   -> PortsOK(d)
    [] d.sec = "limits"  -> LimitsOK(d)  [] d.sec = "acme"    -> ACMEOK(d)
    [] d.sec = "vpn"     -> VPNOK(d)     [] d.sec = "dhcp"    -> DHCPOK(d)
    [] d.sec = "numbers" -> NumbersOK(d) [] d.sec = "web"     -> WebOK(d)

-----------------------------------------------------------------------------
(* Save: hash what is plaintext, then write.  It fails when bcrypt refuses *)
(* a password (longer than 72 bytes) or when the file cannot be written;   *)
(* what had been hashed by then stays hashed in memory.                    *)
PasswordsOf(d) == IF d.sec = "web" THEN {d.pw} \cup {d.users[i].pw : i \in DOMAIN d.users} ELSE {}
HashOf(p) == IF p = "plain" THEN "hash" ELSE p

SaveWrites(d) == ~crRO /\ "long" \notin PasswordsOf(d)

(* The accounts, up to the one whose password is refused.                  *)
HashedUsers(us) ==
  [i \in DOMAIN us |-> IF \E j \in 1..i : us[j].pw = "long" THEN us[i] ELSE [us[i] EXCEPT !.pw = HashOf(@)]]

(* The document in memory after Save, whether or not it was written: the   *)
(* legacy password, the tokens, then the accounts.                         *)
Hashed(d) ==
  IF d.sec /= "web" \/ d.pw = "long" THEN d
  ELSE [d EXCEPT !.pw = HashOf(@), !.token = "hash", !.users = HashedUsers(@)]

(* Load, between the parse and validate: the legacy login becomes the sole *)
(* admin, and the file is saved at once.                                   *)
Migrates(d) == d.sec = "web" /\ d.users = <<>> /\ d.login /= "empty" /\ d.pw /= "empty"
Migrated(d) == [d EXCEPT !.users = <<UserOf(crFresh, d.login, "admin", d.pw)>>]

(* ... and after validate: a session secret.                               *)
NeedsSecret(d) == d.sec = "web" /\ d.secret = 0
WithSecret(d) == [d EXCEPT !.secret = crFresh + 1]

(* The stages of Load on the document read from the file.                  *)
Stage1(d) == IF Migrates(d) THEN Hashed(Migrated(d)) ELSE d
Stage2(d) == Normalised(Stage1(d))
Stage3(d) == IF NeedsSecret(Stage2(d)) THEN Hashed(WithSecret(Stage2(d))) ELSE Stage2(d)

-----------------------------------------------------------------------------
CRInit ==
  /\ crAsk \in CRDocs /\ crAsked = FALSE
  /\ crLive = Down
  /\ \E s \in {crAsk.sec} : crDisk \in {NoFile, DefaultDoc(s)}
  /\ crWriter = "program" /\ crSaved = FALSE
  /\ crRO \in BOOLEAN
  /\ crFresh = 2

CountsLoad == crFresh < 2 + 2 * CRBoots /\ crFresh' = crFresh + 2

(* Load without a file: the defaults, neither validated nor given a        *)
(* session secret; a failure to create the file is fatal.                  *)
BootFirst ==
  /\ crLive = Down /\ crDisk = NoFile /\ ~crRO /\ CountsLoad
  /\ LET d == Hashed(DefaultDoc(crAsk.sec)) IN crLive' = d /\ crDisk' = d
  /\ crWriter' = "program" /\ crSaved' = FALSE
  /\ UNCHANGED <<crAsk, crAsked, crRO>>

(* The file after Load: each Save that succeeds replaces it.               *)
LoadWrites(d) == \/ Migrates(d) /\ SaveWrites(Migrated(d))
                 \/ Accepts(Stage1(d)) /\ NeedsSecret(Stage2(d)) /\ SaveWrites(Stage2(d))
LoadedFile(d) ==
  IF Accepts(Stage1(d)) /\ NeedsSecret(Stage2(d)) /\ SaveWrites(Stage2(d)) THEN Stage3(d)
  ELSE IF Migrates(d) /\ SaveWrites(Migrated(d)) THEN Stage1(d)
  ELSE d

(* Load of an existing file, at boot (a reload over the API does not read  *)
(* it).  A refused document stops the boot, its migration saved.           *)
LoadFile ==
  /\ crLive = Down /\ crDisk /= NoFile /\ CountsLoad
  /\ crDisk' = LoadedFile(crDisk)
  /\ crWriter' = IF LoadWrites(crDisk) THEN "program" ELSE crWriter
  /\ IF Accepts(Stage1(crDisk))
     THEN crLive' = Stage3(crDisk) /\ crSaved' = (LoadedFile(crDisk) = Stage3(crDisk))
     ELSE crLive' = crLive /\ crSaved' = FALSE
  /\ UNCHANGED <<crAsk, crAsked, crRO>>

(* PUT /api/config with a new section: applyPayload validates it, installs *)
(* it and saves; a failed save is reported and the new settings stay live. *)
PutAccepted ==
  /\ crLive /= Down /\ ~crAsked /\ crAsk.sec /= "web" /\ Accepts(crAsk)
  /\ crAsked' = TRUE
  /\ crLive' = Normalised(crAsk)
  /\ IF SaveWrites(crAsk)
     THEN crDisk' = Normalised(crAsk) /\ crWriter' = "program" /\ crSaved' = TRUE
     ELSE UNCHANGED <<crDisk, crWriter>> /\ crSaved' = FALSE
  /\ UNCHANGED <<crAsk, crRO, crFresh>>

(* The operator edits the file by hand.                                    *)
EditFile ==
  /\ ~crAsked /\ crAsked' = TRUE
  /\ crDisk' = crAsk /\ crWriter' = "hand" /\ crSaved' = FALSE
  /\ UNCHANGED <<crAsk, crLive, crRO, crFresh>>

Stops ==
  /\ crLive /= Down /\ crLive' = Down
  /\ UNCHANGED <<crAsk, crAsked, crDisk, crWriter, crSaved, crRO, crFresh>>

CRNext == BootFirst \/ LoadFile \/ PutAccepted \/ EditFile \/ Stops

CRSpec == CRInit /\ [][CRNext]_CRVars

-----------------------------------------------------------------------------
(* Documents stay documents of one section, and the file of a running      *)
(* process exists.                                                         *)
CRTypeOK ==
  /\ crAsk \in CRDocs /\ crLive.sec \in {crAsk.sec, "down"} /\ crDisk.sec \in {crAsk.sec, "none"}
  /\ crLive /= Down => crDisk /= NoFile
  /\ crAsked \in BOOLEAN /\ crSaved \in BOOLEAN /\ crWriter \in {"hand", "program"}
  /\ crRO \in BOOLEAN /\ crFresh \in 2..(2 + 2 * CRBoots)

(* A domain with two trailing dots loses one of them at each load.         *)
DoubleDots(d) ==
  \/ "domain" \in DOMAIN d /\ d.domain.dots > 0
  \/ "honeypot" \in DOMAIN d /\ d.honeypot.dots > 0

(* A restart changes nothing: once the process has saved the configuration *)
(* it runs with, Load accepts that file again (validate, whose rules read  *)
(* the defaults it fills in itself) and yields exactly the configuration   *)
(* that ran, session secret and migrated account included.  The code has   *)
(* two exceptions: the defaults written at the very first boot, which are  *)
(* not validated then, and doubled trailing dots.                          *)
RestartIsIdentity ==
  crSaved /\ crLive /= Down /\ ~DoubleDots(crLive)
    => /\ Accepts(Stage1(crDisk))
       /\ Stage3(crDisk) = crLive

(* Save never writes a plaintext password or API token, on none of its     *)
(* paths: first boot, migration of a legacy login, new secret, PUT.        *)
NoPlaintextWritten ==
  crWriter = "program" /\ crDisk.sec = "web" =>
    PasswordsOf(crDisk) \cap {"plain", "long"} = {} /\ crDisk.token = "hash"

(* The configuration file's life: a restart yields the configuration that  *)
(* ran, and no plaintext credential is ever written (validate, Save,       *)
(* Load).                                                                  *)
ConfigSound ==
  /\ CRTypeOK
  /\ RestartIsIdentity
  /\ NoPlaintextWritten
=============================================================================
