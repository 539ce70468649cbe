------------------------------- MODULE Updates ---------------------------------
(***************************************************************************)
(* In-place updates of the three binaries on the host: Irongrid itself     *)
(* ("self", internal/update and installUpdate), the managed cloudflared    *)
(* ("cf", internal/cfupdate) and a local Dragonfly ("dfly",                *)
(* internal/dflyupdate).  Each installs by two renames: the image in place *)
(* goes to "<path>.prev", the verified download takes its name.  Failures  *)
(* and crashes may fall between any two steps.                             *)
(*                                                                         *)
(* Names are numbered: 0 is the installed path, k+1 the name k with        *)
(* ".prev" appended.  The version 0 is no file.                            *)
(***************************************************************************)
EXTENDS Integers

CONSTANTS
  UPCallers,   (* concurrent requests (and the boot-time cloudflared check) *)
  UPReleases,  (* bound: releases published                                *)
  UPInstalls   (* bound: installs begun, and restarts                      *)

ASSUME UPAssumption == UPReleases \in Nat \ {0} /\ UPInstalls \in Nat

VARIABLES
  upTool,     (* which binary this is about                                *)
  upLatest,   (* latest release                                            *)
  upDisk,     (* the image under each name                                 *)
  upSide,     (* cloudflared.version: the recorded version, 0 unreadable   *)
  upSelf,     (* "self": the name the running image now has                *)
  upRun,      (* "self": version running; 0 when the process is down       *)
  upPending,  (* lastInstalledVersion: installed, restart scheduled        *)
  upReq,      (* each caller's progress                                    *)
  upHist      (* history and counters                                      *)

UPVars == <<upTool, upLatest, upDisk, upSide, upSelf, upRun, upPending, upReq, upHist>>

Names == 0..(UPInstalls + 1)
NoCall == [pc |-> "idle"]

UPInit ==
  /\ upTool \in {"self", "cf", "dfly"}
  /\ upLatest = 1
  /\ \E v \in IF upTool = "self" THEN {1} ELSE {0, 1} :
       /\ upDisk = [n \in Names |-> IF n = 0 THEN v ELSE 0]
       /\ upSide = IF upTool = "cf" THEN v ELSE 0
       /\ upRun = IF upTool = "self" THEN v ELSE 0
  /\ upSelf = 0 /\ upPending = 0
  /\ upReq = [r \in UPCallers |-> NoCall]
  /\ upHist = [begun |-> 0, crossed |-> FALSE, unmoved |-> FALSE, retried |-> FALSE]

ReleasePublished ==                          (* external: a release is published   *)
  /\ upLatest < UPReleases /\ upLatest' = upLatest + 1
  /\ UNCHANGED <<upTool, upDisk, upSide, upSelf, upRun, upPending, upReq, upHist>>

Busy == \E r \in UPCallers : upReq[r] /= NoCall

(* The version an update is compared with: what the process started as,    *)
(* the sidecar file, or what the binary itself reports.                    *)
CurrentVersion == CASE upTool = "self" -> upRun [] upTool = "cf" -> upSide [] upTool = "dfly" -> upDisk[0]

(* installUpdateMu and dragonflyMu exclude; nothing does for cloudflared.  *)
Admitted == CASE upTool = "self" -> ~Busy /\ upPending = 0 /\ upRun /= 0
              [] upTool = "dfly" -> ~Busy
              [] upTool = "cf"   -> TRUE

(* Check and the head of Install: the latest release, and nothing to do    *)
(* when it is not newer.  The running binary is found by the name its      *)
(* image has now.                                                          *)
InstallBegins(r) ==
  /\ upReq[r] = NoCall /\ upHist.begun < UPInstalls /\ Admitted
  /\ CurrentVersion = 0 \/ upLatest > CurrentVersion
  /\ upReq' = [upReq EXCEPT ![r] = [pc |-> "download", want |-> upLatest,
                                    at |-> IF upTool = "self" THEN upSelf ELSE 0]]
  /\ upHist' = [upHist EXCEPT !.begun = @ + 1, !.crossed = @ \/ Busy,
                              !.retried = @ \/ (upTool = "self" /\ upSelf /= 0)]
  /\ UNCHANGED <<upTool, upLatest, upDisk, upSide, upSelf, upRun, upPending>>

Ends(r) == upReq' = [upReq EXCEPT ![r] = NoCall]
At(r, pc) == upReq[r].pc = pc
Goes(r, pc) == upReq' = [upReq EXCEPT ![r].pc = pc]

(* downloadTo or downloadAndVerify, checksumFor, the digest, the archive   *)
(* and (dfly) the version the new binary reports: anything amiss ends it.  *)
Download(r) ==
  /\ At(r, "download")
  /\ Goes(r, "backup")
  /\ UNCHANGED <<upTool, upLatest, upDisk, upSide, upSelf, upRun, upPending, upHist>>
DownloadRefused(r) ==
  /\ At(r, "download")
  /\ Ends(r)
  /\ UNCHANGED <<upTool, upLatest, upDisk, upSide, upSelf, upRun, upPending, upHist>>

(* Mutant: only "self" keeps a copy, the others remove what is in place.   *)
KeepPreviousNot(r) ==
  /\ At(r, "backup")
  /\ LET n == upReq[r].at IN
       /\ upDisk' = [upDisk EXCEPT ![n + 1] = IF upTool = "self" THEN upDisk[n] ELSE @, ![n] = 0]
       /\ upSelf' = IF upTool = "self" THEN n + 1 ELSE upSelf
  /\ Goes(r, "swap")
  /\ UNCHANGED <<upTool, upLatest, upSide, upRun, upPending, upHist>>

(* Mutant: the backup keeps its fixed name when the process moved on.      *)
KeepPreviousFixed(r) ==
  /\ At(r, "backup")
  /\ upDisk' = [upDisk EXCEPT ![1] = upDisk[0], ![0] = 0]
  /\ Goes(r, "swap")
  /\ UNCHANGED <<upTool, upLatest, upSide, upSelf, upRun, upPending, upHist>>

(* The first rename.  When it fails, or there is nothing to move, "self"   *)
(* gives up; the others go on, and the download replaces what is in place. *)
KeepPrevious(r) ==
  /\ At(r, "backup")
  /\ LET n == upReq[r].at IN
     \/ /\ upDisk[n] /= 0
        /\ upDisk' = [upDisk EXCEPT ![n + 1] = upDisk[n], ![n] = 0]
        /\ upSelf' = IF upTool = "self" THEN n + 1 ELSE upSelf
        /\ Goes(r, "swap")
        /\ UNCHANGED upHist
     \/ /\ IF upTool = "self" THEN Ends(r) ELSE Goes(r, "swap")
        /\ upHist' = [upHist EXCEPT !.unmoved = @ \/ (upTool /= "self" /\ upDisk[n] /= 0)]
        /\ UNCHANGED <<upDisk, upSelf>>
  /\ UNCHANGED <<upTool, upLatest, upSide, upRun, upPending>>

(* The second rename.                                                      *)
Swap(r) ==
  /\ At(r, "swap")
  /\ upDisk' = [upDisk EXCEPT ![upReq[r].at] = upReq[r].want]
  /\ Goes(r, CASE upTool = "self" -> "schedule" [] upTool = "cf" -> "record" [] upTool = "dfly" -> "done")
  /\ UNCHANGED <<upTool, upLatest, upSide, upSelf, upRun, upPending, upHist>>

(* It fails: the previous image is moved back, if that succeeds, on top of *)
(* one that the first rename had not moved.                                *)
SwapFails(r) ==
  /\ At(r, "swap")
  /\ LET n == upReq[r].at IN
     \/ /\ upDisk[n + 1] /= 0
        /\ upDisk' = [upDisk EXCEPT ![n] = upDisk[n + 1], ![n + 1] = 0]
        /\ upSelf' = IF upTool = "self" THEN n ELSE upSelf
     \/ UNCHANGED <<upDisk, upSelf>>
  /\ Ends(r)
  /\ UNCHANGED <<upTool, upLatest, upSide, upRun, upPending, upHist>>

(* cloudflared.version                                                     *)
Record(r) ==
  /\ At(r, "record")
  /\ \E v \in {upReq[r].want, 0, upSide} : upSide' = v    (* written, cut short, not written *)
  /\ Ends(r)
  /\ UNCHANGED <<upTool, upLatest, upDisk, upSelf, upRun, upPending, upHist>>

(* systemd-run: only a restart that was registered blocks further installs. *)
Schedule(r) ==
  /\ At(r, "schedule")
  /\ \E ok \in BOOLEAN : upPending' = IF ok THEN upReq[r].want ELSE 0
  /\ Ends(r)
  /\ UNCHANGED <<upTool, upLatest, upDisk, upSide, upSelf, upRun, upHist>>

Done(r) ==
  /\ At(r, "done")
  /\ Ends(r)
  /\ UNCHANGED <<upTool, upLatest, upDisk, upSide, upSelf, upRun, upPending, upHist>>

(* The process stops (a scheduled restart, a manual one, a crash at any    *)
(* point) and starts again from the installed path, if something is there. *)
Restart ==
  /\ upHist.begun < UPInstalls
  /\ upRun' = IF upTool = "self" THEN upDisk[0] ELSE 0
  /\ upSelf' = 0 /\ upPending' = 0
  /\ upReq' = [r \in UPCallers |-> NoCall]
  /\ upSide' \in {upSide} \cup (IF \E r \in UPCallers : At(r, "record") THEN {0} ELSE {})
  /\ upHist' = [upHist EXCEPT !.begun = @ + 1, !.retried = FALSE]
  /\ UNCHANGED <<upTool, upLatest, upDisk>>

(* external: the operator follows the error message and moves the previous *)
(* image back.                                                             *)
OperatorRestores ==
  /\ ~Busy /\ upDisk[0] = 0 /\ upDisk[1] /= 0
  /\ upDisk' = [upDisk EXCEPT ![0] = upDisk[1], ![1] = 0]
  /\ upSelf' = IF upTool = "self" /\ upRun /= 0 /\ upSelf = 1 THEN 0 ELSE upSelf
  /\ UNCHANGED <<upTool, upLatest, upSide, upRun, upPending, upReq, upHist>>

UPNext ==
  \/ ReleasePublished \/ Restart \/ OperatorRestores
  \/ \E r \in UPCallers :
       InstallBegins(r) \/ Download(r) \/ DownloadRefused(r) \/ KeepPrevious(r) \/ Swap(r)
       \/ SwapFails(r) \/ Record(r) \/ Schedule(r) \/ Done(r)

UPSpec == UPInit /\ [][UPNext]_UPVars

-----------------------------------------------------------------------------
(* Only published releases are ever on disk.                               *)
UPTypeOK ==
  /\ upTool \in {"self", "cf", "dfly"} /\ upLatest \in 1..UPReleases
  /\ upDisk \in [Names -> 0..upLatest]
  /\ upSide \in 0..upLatest /\ upRun \in 0..upLatest /\ upPending \in 0..upLatest
  /\ upSelf \in Names

(* The image in place, or else the nearest copy the backup renames left.   *)
InPlace == IF \A n \in Names : upDisk[n] = 0 THEN 0
           ELSE upDisk[CHOOSE n \in Names : upDisk[n] /= 0 /\ \A m \in 0..(n - 1) : upDisk[m] = 0]
Abstract == INSTANCE AtomicInstall
              WITH image  <- InPlace,
                   latest <- upLatest,
                   orderly <- (upTool = "self")

(* However an install fails or crashes, it implements an atomic one: the   *)
(* image in place or to be restored changes from a release to a release in *)
(* one step.  Only "self" excludes a second install and gives up when a    *)
(* rename fails, so only there no image is followed by an older one.       *)
InstallsAtomically == Abstract!AISpec

(* cloudflared.version never claims more than is installed, so an update   *)
(* cut off anywhere is tried again: as long as two installs of the same    *)
(* binary do not cross (cfupdate takes no lock) and the backup rename has  *)
(* not failed (a failing swap then "restores" the image before last).      *)
SidecarNotAhead ==
  upTool = "cf" /\ ~upHist.crossed /\ ~upHist.unmoved /\ upDisk[0] /= 0 => upSide <= upDisk[0]

(* The image the process runs is never lost from disk by its own updates,  *)
(* so there is always something to roll back to (installUpdate's guard,    *)
(* Install's backup rename and os.Executable).                             *)
RunningKept == upTool = "self" /\ upRun /= 0 => upDisk[upSelf] = upRun

(* A restart that was announced as pending starts the version announced:   *)
(* what installUpdate reports is what is in place, unless an earlier       *)
(* install of the same process could not schedule its restart.             *)
AnnouncedIsInPlace == upPending /= 0 /\ ~upHist.retried => upDisk[0] = upPending

(* Updates cut off anywhere: the sidecar claims no more than is installed, *)
(* the running image stays on disk, and an announced restart starts what   *)
(* was announced (Install, installUpdate).                                 *)
UpdatesSound ==
  /\ UPTypeOK
  /\ SidecarNotAhead
  /\ RunningKept
  /\ AnnouncedIsInPlace
=============================================================================
