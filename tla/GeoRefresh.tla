------------------------------ MODULE GeoRefresh ------------------------------
(***************************************************************************)
(* Loading geo data (geoip.go Manager): each enabled country's two family  *)
(* lists and the ASN dataset are downloaded, or read from the copy cached  *)
(* on disk, concurrently across countries; the blocker built from them is  *)
(* published (main.go buildGeo). Downloads fail, and so do cache writes:   *)
(* os.WriteFile truncates the file first, so a write that fails, or that a *)
(* crash cuts, leaves a torn file, which the next load takes as it is.     *)
(***************************************************************************)
EXTENDS Integers, FiniteSets

CONSTANTS
  GRCountries,
  GRParallel,   (* fetchConcurrency                                         *)
  GRVersions,   (* bound: versions of the published data                    *)
  GRRuns        (* bound: refreshes and restarts                            *)

ASSUME GRAssumption ==
  IsFiniteSet(GRCountries) /\ GRParallel \in Nat \ {0} /\ GRVersions \in Nat /\ GRRuns \in Nat

VARIABLES
  grRemote,   (* the version the sources publish                            *)
  grDisk,     (* the cached copy of each file; 0: none; TornCopy: cut       *)
  grLast,     (* history: the version last downloaded for each file         *)
  grJob,      (* each country's progress in the refresh under way           *)
  grTables,   (* the blocker being built                                    *)
  grLive,     (* the blocker the handler uses                               *)
  grStatus,   (* Manager.status                                             *)
  grHist      (* history: refreshes, and whether one has completed since    *)
              (* the last restart                                           *)
GRVars == <<grRemote, grDisk, grLast, grJob, grTables, grLive, grStatus, grHist>>

Families == {"v4", "v6"}
(* A file that holds part of a version, or nothing; it parses as far as it *)
(* goes (LoadTable).                                                       *)
TornCopy == -2
NoData == [f \in Families |-> 0]
NoCountry == [f \in Families |-> -1]
NoRefresh == [c \in GRCountries |-> "idle"]

GRInit ==
  /\ grRemote = 1
  /\ grDisk = [c \in GRCountries |-> NoData] /\ grLast = grDisk
  /\ grJob = NoRefresh /\ grTables = [c \in GRCountries |-> NoCountry] /\ grLive = grTables
  /\ grStatus = [c \in GRCountries |-> "none"]
  /\ grHist = [runs |-> 0, crashed |-> FALSE]

RemotePublishes ==
  /\ grRemote < GRVersions /\ grRemote' = grRemote + 1
  /\ UNCHANGED <<grDisk, grLast, grJob, grTables, grLive, grStatus, grHist>>

-----------------------------------------------------------------------------
(* Mutant: the live blocker is replaced before the new one is filled.      *)
GeoRefreshBeginsEmpty ==
  /\ grJob = NoRefresh /\ grHist.runs < GRRuns
  /\ grJob' = [c \in GRCountries |-> "wait"]
  /\ grTables' = [c \in GRCountries |-> NoCountry] /\ grLive' = grTables'
  /\ grHist' = [grHist EXCEPT !.runs = @ + 1]
  /\ UNCHANGED <<grRemote, grDisk, grLast, grStatus>>

(* Refresh: refreshMu, a new blocker, a goroutine for each country.        *)
GeoRefreshBegins ==
  /\ grJob = NoRefresh /\ grHist.runs < GRRuns
  /\ grJob' = [c \in GRCountries |-> "wait"]
  /\ grTables' = [c \in GRCountries |-> NoCountry]
  /\ grHist' = [grHist EXCEPT !.runs = @ + 1]
  /\ UNCHANGED <<grRemote, grDisk, grLast, grLive, grStatus>>

Fetching == Cardinality({c \in GRCountries : grJob[c] \in Families})

(* errgroup with a limit                                                   *)
CountryStarts(c) ==
  /\ grJob[c] = "wait" /\ Fetching < GRParallel
  /\ grJob' = [grJob EXCEPT ![c] = "v4"]
  /\ UNCHANGED <<grRemote, grDisk, grLast, grTables, grLive, grStatus, grHist>>

(* Mutant: a failed download is an error although a copy is cached.        *)
FetchedNoFallback(c, f, ok) == IF ok THEN grRemote ELSE 0
(* fetchURL: the download, or else the cached copy; 0 is an error.         *)
Fetched(c, f, ok) == IF ok THEN grRemote ELSE grDisk[c][f]

(* fetchCountry fails only when both families have nothing.                *)
CountryLoaded(d) == IF d = NoData THEN NoCountry ELSE d

(* persist: the file is written whole, is left as it was (MkdirAll or the  *)
(* open failed), or is left torn.                                          *)
Persisted(c, f, saved) ==
  CASE saved = "whole" -> grRemote [] saved = "kept" -> grDisk[c][f] [] saved = "torn" -> TornCopy

(* fetchCountry: the v4 list, then the v6 list, then the table. What the   *)
(* write does to the cache is not looked at.                               *)
FetchFile(c, f, ok, saved) ==
  LET data == [grTables[c] EXCEPT ![f] = Fetched(c, f, ok)] IN
  /\ grJob[c] = f
  /\ IF ok THEN /\ grDisk' = [grDisk EXCEPT ![c][f] = Persisted(c, f, saved)]
                /\ grLast' = [grLast EXCEPT ![c][f] = grRemote]
           ELSE UNCHANGED <<grDisk, grLast>>
  /\ grTables' = [grTables EXCEPT ![c] = IF f = "v4" THEN data ELSE CountryLoaded(data)]
  /\ grJob' = [grJob EXCEPT ![c] = IF f = "v4" THEN "v6" ELSE "done"]
  /\ grStatus' = IF f = "v4" THEN grStatus
                 ELSE [grStatus EXCEPT ![c] = IF CountryLoaded(data) = NoCountry THEN "error" ELSE "loaded"]
  /\ UNCHANGED <<grRemote, grLive, grHist>>

(* g.Wait, SetConfig and handler.SetGeo: a country without data is         *)
(* skipped, the rest is enforced.                                          *)
RefreshPublishes ==
  /\ grJob = [c \in GRCountries |-> "done"]
  /\ grLive' = grTables /\ grJob' = NoRefresh
  /\ grHist' = [grHist EXCEPT !.crashed = FALSE]
  /\ UNCHANGED <<grRemote, grDisk, grLast, grTables, grStatus>>

(* The process restarts: memory is gone, the cache is not. The crash may   *)
(* cut the writes under way, those of the countries in cut.                *)
GRRestarts(cut) ==
  /\ grHist.runs < GRRuns
  /\ \A c \in cut : grJob[c] \in Families
  /\ grDisk' = [c \in GRCountries |-> [f \in Families |->
                  IF c \in cut /\ f = grJob[c] THEN TornCopy ELSE grDisk[c][f]]]
  /\ grLast' = [c \in GRCountries |-> [f \in Families |->
                  IF c \in cut /\ f = grJob[c] THEN grRemote ELSE grLast[c][f]]]
  /\ grJob' = NoRefresh /\ grTables' = [c \in GRCountries |-> NoCountry] /\ grLive' = grTables'
  /\ grStatus' = [c \in GRCountries |-> "none"]
  /\ grHist' = [runs |-> grHist.runs + 1, crashed |-> TRUE]
  /\ UNCHANGED grRemote

GRNext ==
  \/ RemotePublishes \/ GeoRefreshBegins \/ RefreshPublishes
  \/ \E cut \in SUBSET GRCountries : GRRestarts(cut)
  \/ \E c \in GRCountries :
       \/ CountryStarts(c)
       \/ \E f \in Families, ok \in BOOLEAN, saved \in {"whole", "kept", "torn"} : FetchFile(c, f, ok, saved)
GRSpec == GRInit /\ [][GRNext]_GRVars

-----------------------------------------------------------------------------
(* What is cached and enforced was published once or is a torn copy, and   *)
(* no more countries download at a time than the worker limit              *)
(* (fetchCountries).                                                       *)
GRTypeOK ==
  /\ \A c \in GRCountries, f \in Families :
       grDisk[c][f] \in (0..grRemote) \cup {TornCopy} /\ grLive[c][f] \in (-1..grRemote) \cup {TornCopy}
  /\ Fetching <= GRParallel

(* What a country's table may be, by its files: left out, with an error    *)
(* reported, only if neither family has a file; otherwise it holds for     *)
(* each family the data last downloaded or what the file holds. The two    *)
(* differ only if the last write of that file did not complete.            *)
LoadedFrom(loaded, status, c) ==
  /\ status = "error" <=> loaded = NoCountry
  /\ loaded = NoCountry => grDisk[c] = NoData
  /\ loaded /= NoCountry => \A f \in Families : loaded[f] \in {grLast[c][f], grDisk[c][f]}

(* The last known data stays enforced, through failed downloads and        *)
(* restarts, once a refresh has completed: the live blocker holds the      *)
(* version last downloaded of every file whose last write completed, also  *)
(* when the other family or another country failed. A file whose last      *)
(* write failed, or was cut by a crash, is taken as it is, torn or old.    *)
LastKnownEnforced ==
  (~grHist.crashed /\ grJob = NoRefresh /\ grHist.runs > 0) =>
    \A c \in GRCountries : LoadedFrom(grLive[c], grStatus[c], c)

(* A refresh takes no country's data out of the live blocker: a loaded     *)
(* family never goes back to an older version, or to none, but by a        *)
(* restart or if the last write of its file did not complete.              *)
NeverForgets ==
  [][ ~grHist'.crashed
        => \A c \in GRCountries, f \in Families :
             (grLive[c][f] > 0 /\ grDisk[c][f] = grLast[c][f]) => grLive'[c][f] >= grLive[c][f] ]_GRVars

(* Geo data is kept: nothing unpublished is enforced, and what was last    *)
(* downloaded and written whole is, through failed downloads, failed or    *)
(* cut writes of other files, and restarts (fetchCountries, buildGeo).     *)
GeoKept == GRTypeOK /\ LastKnownEnforced
=============================================================================
