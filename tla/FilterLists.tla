------------------------------ MODULE FilterLists ------------------------------
(***************************************************************************)
(* The blocklist manager and the filter engine (internal/filter): list     *)
(* specs, their downloaded content, the engine's working rule sets under   *)
(* e.mu and the snapshot queries read without a lock.  Refreshes (boot,    *)
(* ticker, API) and edits (API, under cfgMu) run ReloadAll concurrently,   *)
(* and nothing serialises them: each of ReloadAll's lock sections is a     *)
(* step, and the two stores that Reset and Compile make for those queries  *)
(* (hasIPRules, then the snapshot) are two.                                *)
(***************************************************************************)
EXTENDS Integers, FiniteSets

CONSTANTS
  FLLists,      (* list IDs                                                *)
  FLRefreshers, (* goroutines that download: boot, ticker, API refresh     *)
  FLRegexEntry, (* TRUE: manual lists may hold a /pattern/ entry           *)
  FLEdits,      (* bound: edits of lists and of manual entries             *)
  FLFetches     (* bound: refreshes                                        *)

ASSUME FLAssumption == IsFiniteSet(FLLists) /\ FLRegexEntry \in BOOLEAN /\ FLEdits \in Nat /\ FLFetches \in Nat

VARIABLES
  flConf,    (* cfg.Filter.Blocklists: per list "gone", "off" or its URL   *)
  flStore,   (* ListManager.store: per list its entry, or NoEntry          *)
  flFile,    (* the cached content of each list on disk, 0 when absent     *)
  flManual,  (* cfg.Filter.Blacklist and Whitelist                         *)
  flWork,    (* the engine's working sets                                  *)
  flPub,     (* the published rule set                                     *)
  flGate,    (* hasIPRules                                                 *)
  flProc,    (* what each goroutine is doing                               *)
  flClean,   (* history: since a ReloadAll last reset the engine, for the  *)
             (* lists enabled then, no list changed and no disabled one    *)
             (* was loaded                                                 *)
  flCount    (* edits and refreshes so far                                 *)

FLVars == <<flConf, flStore, flFile, flManual, flWork, flPub, flGate, flProc, flClean, flCount>>

API == "api"                       (* the one handler that holds cfgMu     *)
FLProcs == FLRefreshers \cup {API}
URLs == 1..2

(* Rules: a subtree, an exact name, a pattern.  "sub" lies below "top",    *)
(* and the pattern "sub" matches that name only.                           *)
QNames == {"top", "sub"}
Rule(f, n) == [form |-> f, name |-> n]
Matches(r, q) == r.name = q \/ (r.form = "tree" /\ r.name = "top")
Hit(rs, q) == \E r \in rs : Matches(r, q)
Patterns(rs) == {r \in rs : r.form = "regex"}
Plain(rs) == rs \ Patterns(rs)

(* parseContent: what the content behind each URL parses to.  IPs are a    *)
(* flag: the content has a bare-address rule.                              *)
ContentOf(u) ==
  IF u = 1 THEN [block |-> {Rule("tree", "top")}, allow |-> {}, ips |-> TRUE]
  ELSE [block |-> {Rule("regex", "sub"), Rule("exact", "top")}, allow |-> {Rule("exact", "sub")}, ips |-> FALSE]

(* Manual entries: plain ones, and a pattern where the instance allows it. *)
ManualRules == {Rule("exact", "sub"), Rule("tree", "top")} \cup (IF FLRegexEntry THEN {Rule("regex", "sub")} ELSE {})
ManualLists == [black : {s \in SUBSET ManualRules : Cardinality(s) <= 1}, white : {s \in SUBSET ManualRules : Cardinality(s) <= 1}]

NoEntry == [none |-> TRUE]
Torn == 3                          (* content of a file a crash cut short  *)
RulesOf(c) == IF c \in URLs THEN ContentOf(c) ELSE [block |-> {}, allow |-> {}, ips |-> FALSE]

Resting == [pc |-> "idle"]
NoRules == [ublock |-> {}, allow |-> {}, block |-> {}, ips |-> FALSE]

(* Goroutine p takes step r.                                               *)
Proceeds(p, r) == flProc' = [flProc EXCEPT ![p] = r]

-----------------------------------------------------------------------------
(* DecideDomain on a rule set: manual block, whitelist, blocklist.         *)
Decide(rs, q) ==
  IF Hit(rs.ublock, q) THEN "block"
  ELSE IF Hit(rs.allow, q) THEN "allow"
  ELSE IF Hit(rs.block, q) THEN "block" ELSE "allow"

(* Engine.Reset: the lists' rules and the compiled manual patterns go, the *)
(* manual entries themselves stay.                                         *)
ResetWork(w) == [w EXCEPT !.block = {}, !.allow = {}, !.ips = FALSE, !.blackRx = {}, !.whiteRx = {}]

(* SetUserLists: patterns are compiled here, once.                         *)
ManualWork(w, m) == [w EXCEPT !.black = Plain(m.black), !.white = Plain(m.white),
                              !.blackRx = Patterns(m.black), !.whiteRx = Patterns(m.white)]

(* LoadList: merge one list's rules.                                       *)
LoadWork(w, c) == [w EXCEPT !.block = @ \cup RulesOf(c).block, !.allow = @ \cup RulesOf(c).allow, !.ips = @ \/ RulesOf(c).ips]

(* Compile: the manual whitelist joins the exceptions and removes the      *)
(* entries of the same name from the lists' blocks.                        *)
Stripped(w) == {r \in w.block : ~ \E e \in w.white : /\ e.name = r.name /\ r.form /= "regex"
                                                     /\ e.form = "tree" \/ r.form = "exact"}
CompileWork(w) == [w EXCEPT !.allow = @ \cup w.white, !.block = Stripped(w)]

(* publishLocked                                                           *)
Published(w) == [ublock |-> w.black, allow |-> w.allow \cup w.whiteRx, block |-> w.block \cup w.blackRx, ips |-> w.ips]

(* SetSpecs, then LoadCached: entries that stay keep their content, new    *)
(* ones start with what the cache directory holds.                         *)
SpecsSet(conf, gen) ==
  [l \in FLLists |->
     IF conf[l].st = "gone" THEN NoEntry
     ELSE LET old == IF flStore[l] = NoEntry THEN [content |-> 0, gen |-> gen] ELSE flStore[l]
          IN [url |-> conf[l].url, on |-> conf[l].st = "on", gen |-> old.gen,
              content |-> IF old.content = 0 THEN flFile[l] ELSE old.content]]

Loaded(w, store) ==
  LET on == {l \in DOMAIN store : store[l] /= NoEntry /\ store[l].on}
      all == {RulesOf(store[l].content) : l \in on}
  IN [w EXCEPT !.block = UNION {c.block : c \in all}, !.allow = UNION {c.allow : c \in all}, !.ips = \E c \in all : c.ips]

(* A ReloadAll nothing interferes with (the one of the boot).              *)
BootWork(m, store) == CompileWork(Loaded(ResetWork(ManualWork(flWork, m)), store))

-----------------------------------------------------------------------------
FLInit ==
  /\ flConf \in [FLLists -> [st : {"on"}, url : {1}]]
  /\ flFile \in [FLLists -> {0, 1}]
  /\ flStore = [l \in FLLists |-> [url |-> 1, on |-> TRUE, gen |-> 0, content |-> flFile[l]]]
  /\ flManual = [black |-> {}, white |-> {}]
  /\ LET w0 == [block |-> {}, allow |-> {}, ips |-> FALSE, black |-> {}, white |-> {}, blackRx |-> {}, whiteRx |-> {}]
     IN flWork = CompileWork(Loaded(w0, flStore))
  /\ flPub = Published(flWork) /\ flGate = flWork.ips
  /\ flProc = [p \in FLProcs |-> Resting]
  /\ flClean = TRUE
  /\ flCount = [edits |-> 0, fetches |-> 0]

(* ListManager.mu is held throughout ReloadAll's loading loop, and e.mu    *)
(* between the two stores of Reset and of Compile.                         *)
MuFree == \A p \in FLProcs : flProc[p].pc /= "load"
EngineFree == \A p \in FLProcs : flProc[p].pc \notin {"clear", "publish"}

(* The lists the store holds as enabled.                                   *)
EnabledNow == {l \in FLLists : flStore[l] /= NoEntry /\ flStore[l].on}

(* addList, updateList, deleteList: the config is edited and applyLists    *)
(* runs, all under cfgMu; ReloadAll is the last part.                      *)
EditList(l, spec) ==
  /\ flProc[API] = Resting /\ MuFree /\ flCount.edits < FLEdits
  /\ spec /= flConf[l]
  /\ flConf' = [flConf EXCEPT ![l] = spec]
  /\ flStore' = SpecsSet(flConf', flCount.edits + 1)
  /\ flCount' = [flCount EXCEPT !.edits = @ + 1]
  /\ flClean' = FALSE
  /\ Proceeds(API, [pc |-> "snap"])
  /\ UNCHANGED <<flFile, flManual, flWork, flPub, flGate>>

(* addFilterEntry, deleteFilterEntry: SetUserLists here, Compile next.  A  *)
(* whitelist entry that goes stays in the working sets until the next      *)
(* Reset.                                                                  *)
EditManual(m) ==
  /\ flProc[API] = Resting /\ EngineFree /\ flCount.edits < FLEdits /\ m /= flManual
  /\ flManual' = m
  /\ flWork' = ManualWork(flWork, m)
  /\ flCount' = [flCount EXCEPT !.edits = @ + 1]
  /\ flClean' = (flClean /\ flManual.white \subseteq m.white)
  /\ Proceeds(API, [pc |-> "compile"])
  /\ UNCHANGED <<flConf, flStore, flFile, flPub, flGate>>

(* FetchAll, FetchOne, or the ticker's round over the due lists: the       *)
(* entry and its URL are read, then the download runs unlocked.            *)
RefreshBegins(p, todo, tick) ==
  /\ flProc[p] = Resting /\ flCount.fetches < FLFetches
  /\ flCount' = [flCount EXCEPT !.fetches = @ + 1]
  /\ Proceeds(p, [pc |-> "next", todo |-> todo, tick |-> tick, bad |-> FALSE, good |-> FALSE])
  /\ UNCHANGED <<flConf, flStore, flFile, flManual, flWork, flPub, flGate, flClean>>

FetchBegins(p, l) ==
  /\ flProc[p].pc = "next" /\ l \in flProc[p].todo /\ MuFree
  /\ IF flStore[l] = NoEntry
     THEN Proceeds(p, [flProc[p] EXCEPT !.todo = @ \ {l}, !.bad = TRUE])
     ELSE Proceeds(p, [pc |-> "fetch", todo |-> flProc[p].todo \ {l}, tick |-> flProc[p].tick,
                       bad |-> flProc[p].bad, good |-> flProc[p].good,
                       l |-> l, gen |-> flStore[l].gen, got |-> flStore[l].url])
  /\ UNCHANGED <<flConf, flStore, flFile, flManual, flWork, flPub, flGate, flClean, flCount>>

NextList(p, ok) == [pc |-> "next", todo |-> flProc[p].todo, tick |-> flProc[p].tick,
                    bad |-> flProc[p].bad \/ ~ok, good |-> flProc[p].good \/ ok]

FetchFails(p) ==
  /\ flProc[p].pc = "fetch" /\ MuFree
  /\ Proceeds(p, NextList(p, FALSE))
  /\ UNCHANGED <<flConf, flStore, flFile, flManual, flWork, flPub, flGate, flClean, flCount>>

(* Mutant: the entry is looked up again, and made anew when it is gone.    *)
FetchStoresByID(p) ==
  /\ flProc[p].pc = "fetch" /\ MuFree
  /\ flStore' = [flStore EXCEPT ![flProc[p].l] =
                   [url |-> flProc[p].got, on |-> TRUE, gen |-> flProc[p].gen, content |-> flProc[p].got]]
  /\ flClean' = FALSE
  /\ Proceeds(p, [flProc[p] EXCEPT !.pc = "persist"])
  /\ UNCHANGED <<flConf, flFile, flManual, flWork, flPub, flGate, flCount>>

(* The content goes into the entry FetchOne looked up before the download: *)
(* one SetSpecs has dropped meanwhile is no longer in the store.           *)
FetchStores(p) ==
  /\ flProc[p].pc = "fetch" /\ MuFree
  /\ LET l == flProc[p].l
         here == flStore[l] /= NoEntry /\ flStore[l].gen = flProc[p].gen
     IN flStore' = IF here THEN [flStore EXCEPT ![l].content = flProc[p].got] ELSE flStore
  /\ flClean' = FALSE
  /\ Proceeds(p, [flProc[p] EXCEPT !.pc = "persist"])
  /\ UNCHANGED <<flConf, flFile, flManual, flWork, flPub, flGate, flCount>>

(* persist: after the unlock, by list ID.  A write that fails, the file    *)
(* cut short perhaps, is FetchOne's error: the content stays in the entry. *)
PersistList(p) ==
  /\ flProc[p].pc = "persist"
  /\ \E c \in {flProc[p].got, Torn, flFile[flProc[p].l]} :
       /\ flFile' = [flFile EXCEPT ![flProc[p].l] = c]
       /\ \E ok \in {c = flProc[p].got, FALSE} : Proceeds(p, NextList(p, ok))
  /\ UNCHANGED <<flConf, flStore, flManual, flWork, flPub, flGate, flClean, flCount>>

(* FetchAll's caller reloads when every download worked, the ticker when   *)
(* one did.                                                                *)
RefreshEnds(p) ==
  /\ flProc[p].pc = "next" /\ flProc[p].todo = {}
  /\ LET reload == IF flProc[p].tick THEN flProc[p].good ELSE ~flProc[p].bad
     IN Proceeds(p, IF reload THEN [pc |-> "snap"] ELSE Resting)
  /\ UNCHANGED <<flConf, flStore, flFile, flManual, flWork, flPub, flGate, flClean, flCount>>

-----------------------------------------------------------------------------
(* ReloadAll: snapshot of the specs; Reset; the enabled lists one by one;  *)
(* Compile.                                                                *)
ReloadSnap(p) ==
  /\ flProc[p].pc = "snap" /\ MuFree
  /\ Proceeds(p, [pc |-> "reset", todo |-> EnabledNow])
  /\ UNCHANGED <<flConf, flStore, flFile, flManual, flWork, flPub, flGate, flClean, flCount>>

(* Reset: the working sets and the flag, then the snapshot.                *)
ReloadReset(p) ==
  /\ flProc[p].pc = "reset" /\ EngineFree
  /\ flWork' = ResetWork(flWork) /\ flGate' = FALSE
  /\ flClean' = (flProc[p].todo = EnabledNow)
  /\ Proceeds(p, [flProc[p] EXCEPT !.pc = "clear"])
  /\ UNCHANGED <<flConf, flStore, flFile, flManual, flPub, flCount>>

ResetPublishes(p) ==
  /\ flProc[p].pc = "clear"
  /\ flPub' = NoRules
  /\ Proceeds(p, [flProc[p] EXCEPT !.pc = "enter"])
  /\ UNCHANGED <<flConf, flStore, flFile, flManual, flWork, flGate, flClean, flCount>>

ReloadEnters(p) ==
  /\ flProc[p].pc = "enter" /\ MuFree
  /\ Proceeds(p, [flProc[p] EXCEPT !.pc = "load"])
  /\ UNCHANGED <<flConf, flStore, flFile, flManual, flWork, flPub, flGate, flClean, flCount>>

ReloadList(p, l) ==
  /\ flProc[p].pc = "load" /\ l \in flProc[p].todo /\ EngineFree
  /\ flWork' = IF flStore[l] = NoEntry THEN flWork ELSE LoadWork(flWork, flStore[l].content)
  /\ flGate' = flWork'.ips
  /\ flClean' = (flClean /\ (flStore[l] = NoEntry \/ flStore[l].on))
  /\ Proceeds(p, [flProc[p] EXCEPT !.todo = @ \ {l}])
  /\ UNCHANGED <<flConf, flStore, flFile, flManual, flPub, flCount>>

ReloadLeaves(p) ==
  /\ flProc[p].pc = "load" /\ flProc[p].todo = {}
  /\ Proceeds(p, [pc |-> "compile"])
  /\ UNCHANGED <<flConf, flStore, flFile, flManual, flWork, flPub, flGate, flClean, flCount>>

(* Compile: the working sets and the flag, then the snapshot.              *)
Compile(p) ==
  /\ flProc[p].pc = "compile" /\ EngineFree
  /\ flWork' = CompileWork(flWork) /\ flGate' = flWork'.ips
  /\ Proceeds(p, [pc |-> "publish"])
  /\ UNCHANGED <<flConf, flStore, flFile, flManual, flPub, flClean, flCount>>

CompilePublishes(p) ==
  /\ flProc[p].pc = "publish"
  /\ flPub' = Published(flWork)
  /\ Proceeds(p, Resting)
  /\ UNCHANGED <<flConf, flStore, flFile, flManual, flWork, flGate, flClean, flCount>>

(* A crash and the next boot: SetUserLists, SetSpecs, LoadCached and       *)
(* ReloadAll before anything else runs.  A crash during persist leaves the *)
(* file cut short.  An edit saves the config last: a crash in the middle   *)
(* of one is a crash before it.                                            *)
CrashAndBoot ==
  /\ flProc[API] = Resting /\ flCount.edits < FLEdits /\ flCount' = [flCount EXCEPT !.edits = @ + 1]
  /\ \E torn \in SUBSET {p \in FLRefreshers : flProc[p].pc = "persist"} :
       flFile' = [l \in FLLists |-> IF \E p \in torn : flProc[p].l = l THEN Torn ELSE flFile[l]]
  /\ flStore' = [l \in FLLists |-> IF flConf[l].st = "gone" THEN NoEntry
                  ELSE [url |-> flConf[l].url, on |-> flConf[l].st = "on", gen |-> 0, content |-> flFile'[l]]]
  /\ flWork' = BootWork(flManual, flStore')
  /\ flPub' = Published(flWork') /\ flGate' = flWork'.ips
  /\ flProc' = [p \in FLProcs |-> Resting]
  /\ flClean' = TRUE
  /\ UNCHANGED <<flConf, flManual>>

FLNext ==
  \/ \E l \in FLLists, st \in {"gone", "off", "on"}, u \in URLs : EditList(l, [st |-> st, url |-> IF st = "on" THEN u ELSE 1])
  \/ \E m \in ManualLists : EditManual(m)
  \/ \E p \in FLRefreshers :
       \/ \E l \in FLLists : RefreshBegins(p, {l}, FALSE)
       \/ RefreshBegins(p, EnabledNow, TRUE)
       \/ \E l \in FLLists : FetchBegins(p, l)
       \/ FetchFails(p) \/ FetchStores(p) \/ PersistList(p) \/ RefreshEnds(p)
  \/ \E p \in FLProcs :
       \/ ReloadSnap(p) \/ ReloadReset(p) \/ ResetPublishes(p) \/ ReloadEnters(p) \/ ReloadLeaves(p)
       \/ Compile(p) \/ CompilePublishes(p)
       \/ \E l \in FLLists : ReloadList(p, l)
  \/ CrashAndBoot

FLSpec == FLInit /\ [][FLNext]_FLVars

-----------------------------------------------------------------------------
(* Specs, entries and files are well formed, and ListManager.mu keeps two  *)
(* loading loops apart.                                                    *)
FLTypeOK ==
  /\ flConf \in [FLLists -> [st : {"gone", "off", "on"}, url : URLs]]
  /\ flFile \in [FLLists -> 0..Torn]
  /\ \A l \in FLLists : flStore[l] /= NoEntry =>
       flStore[l] \in [url : URLs, on : BOOLEAN, gen : 0..FLEdits, content : 0..Torn]
  /\ flManual \in ManualLists
  /\ flGate \in BOOLEAN /\ flClean \in BOOLEAN
  /\ Cardinality({p \in FLProcs : flProc[p].pc = "load"}) <= 1

(* What the configuration says of a name: a manual block wins over the     *)
(* whitelist and the lists' exceptions, these over the enabled lists.      *)
Intended(q) ==
  LET on == {l \in FLLists : flConf[l].st = "on"}
      all == {RulesOf(flStore[l].content) : l \in on}
  IN IF Hit(Plain(flManual.black), q) THEN "block"
     ELSE IF Hit(flManual.white, q) \/ \E c \in all : Hit(c.allow, q) THEN "allow"
     ELSE IF Hit(flManual.black, q) \/ \E c \in all : Hit(c.block, q) THEN "block" ELSE "allow"

(* The engine between its Reset and the end of its Compile, for some call. *)
Unpublished(p) == flProc[p].pc \in {"clear", "enter", "load", "compile", "publish"}
RulesRest == flClean /\ ~ \E p \in FLProcs : Unpublished(p)

(* Whenever no reload or edit is at work on the engine, every query is     *)
(* decided as the configured lists, their content and the manual entries   *)
(* say, however many ReloadAlls and edits overlapped: nothing of a deleted *)
(* or disabled list lingers, whatever downloads were under way when it     *)
(* went (FetchOne). It is not said once a ReloadAll has loaded a list that *)
(* was disabled after it took its snapshot of the specs, nor of a list     *)
(* edited or downloaded since the engine was last reset.                   *)
RulesCurrent == RulesRest => \A q \in QNames : Decide(flPub, q) = Intended(q)

(* hasIPRules hides published address rules only while Reset, between its  *)
(* two stores, is about to withdraw them, however reloads interleave: the  *)
(* query path skips CheckIPs when the flag is down.                        *)
IPGateSound == flPub.ips => flGate \/ \E p \in FLProcs : flProc[p].pc = "clear"

(* ReloadAll's comment: "The engine's user lists are untouched".  A name   *)
(* the manual blacklist blocks stays blocked after a reload, an entry      *)
(* written as a pattern included.                                          *)
UserListsUntouched ==
  RulesRest => \A q \in QNames : Hit(flManual.black, q) /\ Intended(q) = "block" => Decide(flPub, q) = "block"

(* The published rules: those of the configured lists whenever overlapping *)
(* reloads have come to rest, with the address gate hiding none but those  *)
(* about to go (ReloadAll, Compile, FetchOne).                             *)
RulesSound ==
  /\ FLTypeOK
  /\ RulesCurrent
  /\ IPGateSound
=============================================================================
