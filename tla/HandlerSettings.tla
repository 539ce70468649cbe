---------------------------- MODULE HandlerSettings ----------------------------
(***************************************************************************)
(* The handler's hot-swappable settings (internal/dnsserver/handler.go):   *)
(* one immutable snapshot behind an atomic pointer.  Every Set* method     *)
(* copies the published snapshot, changes its own field, and only then     *)
(* takes setMu in swapSettings, which publishes the copy, closes the       *)
(* upstreams the swap replaced and clears the client-ASN memo.             *)
(*                                                                         *)
(* The setters are called from the config save and reload (under cfgMu),   *)
(* from the blocklist OnChange hook, and from the background rebuilds of   *)
(* geo blocking and of the client groups; the last three hold no lock.     *)
(* A field's value is the number of the Set* call that produced it.        *)
(***************************************************************************)
EXTENDS Integers, FiniteSets

CONSTANTS
  HSCalls,      (* bound: Set* calls                                       *)
  HSClients     (* client addresses looked up by ClientASN                 *)

ASSUME HSAssumption == HSCalls \in Nat /\ IsFiniteSet(HSClients)

VARIABLES
  hsPub,      (* the published snapshot: field -> value                    *)
  hsSet,      (* per caller: idle, or copied with the copy and the field   *)
  hsCalls,    (* Set* calls begun                                          *)
  hsLast,     (* field -> value of the call that published it last         *)
  hsClosed,   (* upstream and route sets that were closed                  *)
  hsMade,     (* every upstream and route set ever published               *)
  hsMemo,     (* asnCache: client -> the tables the entry was computed on  *)
  hsLook,     (* ClientASN in progress: client -> tables it loaded         *)
  hsUndone,   (* history: the fields a swap put back as they were when its *)
              (* caller copied them; a plain one until it is set again     *)
  hsRaced     (* history: the clients whose lookup stored, since the last  *)
              (* swap, what it had loaded before it                        *)

HSVars == <<hsPub, hsSet, hsCalls, hsLast, hsClosed, hsMade, hsMemo, hsLook, hsUndone, hsRaced>>

(* Upstreams and UpstreamRoutes own connections; ClientRouter and Geo own  *)
(* ASN tables; every other field of handlerSettings is a plain value.      *)
HSFields == {"Upstreams", "UpstreamRoutes", "ClientRouter", "Geo", "Policy"}
Pooled == {"Upstreams", "UpstreamRoutes"}

(* Who calls which setter: config save and reload, OnChange, buildGeo,     *)
(* RebuildClientGroups.                                                    *)
HSCallers == {"config", "lists", "geo", "groups"}
SetsField(who) ==
  CASE who = "config" -> HSFields \ {"Geo"}
    [] who \in {"lists", "groups"} -> {"ClientRouter"}
    [] who = "geo" -> {"Geo", "Policy"}

NoTables == <<>>
Tables(s) == <<s["ClientRouter"], s["Geo"]>>
NoCallYet == [pc |-> "idle"]

(* NewHandler: the boot values are call 0.                                 *)
HSInit ==
  /\ hsPub = [f \in HSFields |-> 0]
  /\ hsSet = [c \in HSCallers |-> NoCallYet]
  /\ hsCalls = 0
  /\ hsLast = [f \in HSFields |-> 0]
  /\ hsClosed = {} /\ hsMade = {<<f, 0>> : f \in Pooled}
  /\ hsMemo = [i \in HSClients |-> NoTables]
  /\ hsLook = [i \in HSClients |-> NoTables]
  /\ hsUndone = {} /\ hsRaced = {}

(* First line of every Set*: ns := *h.settings.Load(), then ns.f = value.  *)
CopySettings(c, f) ==
  /\ hsSet[c] = NoCallYet /\ f \in SetsField(c) /\ hsCalls < HSCalls
  /\ hsCalls' = hsCalls + 1
  /\ hsSet' = [hsSet EXCEPT ![c] = [pc |-> "copied", field |-> f, base |-> hsPub,
                                    copy |-> [hsPub EXCEPT ![f] = hsCalls + 1]]]
  /\ UNCHANGED <<hsPub, hsLast, hsClosed, hsMade, hsMemo, hsLook, hsUndone, hsRaced>>

(* The cleanup of SetUpstreams and of SetUpstreamRoutes: what the swap     *)
(* replaced in that field is closed.                                       *)
CloseReplaced(f) == IF f \in Pooled THEN hsClosed \cup {<<f, hsPub[f]>>} ELSE hsClosed

(* The fields that are another setter's and no longer as call copied them. *)
UndoneBy(call) ==
  (hsUndone \ ({call.field} \ Pooled)) \cup {f \in HSFields \ {call.field} : call.base[f] /= hsPub[f]}

(* Mutant: a setter publishes without cleaning up.                         *)
SwapSettingsLeaks(c) ==
  /\ hsSet[c] /= NoCallYet
  /\ hsPub' = hsSet[c].copy
  /\ hsLast' = [hsLast EXCEPT ![hsSet[c].field] = hsSet[c].copy[hsSet[c].field]]
  /\ hsMade' = hsMade \cup {<<f, hsSet[c].copy[f]>> : f \in Pooled}
  /\ hsUndone' = UndoneBy(hsSet[c])
  /\ hsMemo' = [i \in HSClients |-> NoTables] /\ hsRaced' = {}
  /\ hsSet' = [hsSet EXCEPT ![c] = NoCallYet]
  /\ UNCHANGED <<hsCalls, hsClosed, hsLook>>

(* swapSettings, under setMu.                                              *)
SwapSettings(c) ==
  /\ hsSet[c] /= NoCallYet
  /\ hsPub' = hsSet[c].copy
  /\ hsLast' = [hsLast EXCEPT ![hsSet[c].field] = hsSet[c].copy[hsSet[c].field]]
  /\ hsClosed' = CloseReplaced(hsSet[c].field)
  /\ hsMade' = hsMade \cup {<<f, hsSet[c].copy[f]>> : f \in Pooled}
  /\ hsUndone' = UndoneBy(hsSet[c])
  /\ hsMemo' = [i \in HSClients |-> NoTables] /\ hsRaced' = {}
  /\ hsSet' = [hsSet EXCEPT ![c] = NoCallYet]
  /\ UNCHANGED <<hsCalls, hsLook>>

(* ClientASN: a memo hit returns at once; a miss loads the snapshot, looks *)
(* the client up in its tables, and stores the result.                     *)
ClientASNLoads(i) ==
  /\ hsMemo[i] = NoTables /\ hsLook[i] = NoTables
  /\ hsLook' = [hsLook EXCEPT ![i] = Tables(hsPub)]
  /\ UNCHANGED <<hsPub, hsSet, hsCalls, hsLast, hsClosed, hsMade, hsMemo, hsUndone, hsRaced>>

(* The result is stored; past maxASNCache the memo is emptied first.       *)
ClientASNStores(i) ==
  /\ hsLook[i] /= NoTables
  /\ hsMemo' \in {[hsMemo EXCEPT ![i] = hsLook[i]],
                  [j \in HSClients |-> IF j = i THEN hsLook[i] ELSE NoTables]}
  /\ hsLook' = [hsLook EXCEPT ![i] = NoTables]
  /\ hsRaced' = IF hsLook[i] = Tables(hsPub) THEN hsRaced \ {i} ELSE hsRaced \cup {i}
  /\ UNCHANGED <<hsPub, hsSet, hsCalls, hsLast, hsClosed, hsMade, hsUndone>>

HSNext ==
  \/ \E c \in HSCallers, f \in HSFields : CopySettings(c, f)
  \/ \E c \in HSCallers : SwapSettings(c)
  \/ \E i \in HSClients : ClientASNLoads(i) \/ ClientASNStores(i)

HSSpec == HSInit /\ [][HSNext]_HSVars

-----------------------------------------------------------------------------
(* Snapshots hold what some setter call made, and only made upstream       *)
(* groups are closed (swapSettings).                                       *)
HSTypeOK ==
  /\ hsPub \in [HSFields -> 0..HSCalls] /\ hsLast \in [HSFields -> 0..HSCalls]
  /\ hsCalls \in 0..HSCalls
  /\ hsClosed \subseteq hsMade /\ hsMade \subseteq Pooled \X (0..HSCalls)
  /\ \A c \in HSCallers : hsSet[c] /= NoCallYet => hsSet[c].field \in SetsField(c)
  /\ \A i \in HSClients : {hsMemo[i], hsLook[i]} \subseteq ((0..HSCalls) \X (0..HSCalls)) \cup {NoTables}

(* However the setters overlap, a swap loses and leaks nothing but fields  *)
(* that others published between its copy and its turn at setMu: every     *)
(* other field holds what its setter published last, and of an upstream    *)
(* field everything is closed but what is published.                       *)
SettingsKept ==
  \A f \in HSFields \ hsUndone :
    /\ hsPub[f] = hsLast[f]
    /\ f \in Pooled => \A v \in 0..HSCalls :
         <<f, v>> \in hsClosed <=> <<f, v>> \in hsMade /\ v /= hsPub[f]

(* Whatever the interleaving, only the two fields that own connections     *)
(* are ever closed and only after a later set of the same kind was made.   *)
ClosedWasReplaced ==
  \A p \in hsClosed : \E q \in hsMade : q[1] = p[1] /\ q[2] > p[2]

(* A memo entry was computed on the published ASN tables, unless the       *)
(* client's lookup, begun before a swap, stored its result after it; no    *)
(* such entry outlives the next swap.                                      *)
MemoFollowsTables ==
  \A i \in HSClients \ hsRaced : hsMemo[i] \in {NoTables, Tables(hsPub)}

(* The settings as a whole, for overlapping setters and lookups: a swap    *)
(* undoes, leaks or revives only fields its copy was too old for, no       *)
(* upstream is closed before a newer one was made, and the memo is stale   *)
(* only where a swap overtook a lookup (Set*, swapSettings, ClientASN).    *)
SettingsSound ==
  /\ HSTypeOK
  /\ SettingsKept
  /\ ClosedWasReplaced
  /\ MemoFollowsTables

(* "The swap and the post-swap cleanup of the old snapshot (closing        *)
(* replaced upstreams, ...) run under setMu so two concurrent reloads      *)
(* can't interleave" (handler.go:335-337): the snapshot holds what each    *)
(* setter published last. It does not: the copy is made before setMu is    *)
(* taken, so a swap undoes one that came between.                          *)
SettingNotLost == hsPub = hsLast
=============================================================================
